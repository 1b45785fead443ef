SPECIFICATION Spec
CONSTANTS
  s1 = s1
  s2 = s2
  Component = {"a"}
  Longer = {}
  MaxLevels = 1
  NoPath = NoPath
  None = None
  Sub <- OneSub
  IntervalSub = {}
  Throttling = {2}
  Duration = {3}
  RequestedPath <- RootAndA
  StartTime = 10
  MaxTime = 12
  MaxCount = 2
INVARIANTS
  ScopeKept
