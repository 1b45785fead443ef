SPECIFICATION SpecOfOne
CONSTANTS
  s1 = s1
  s2 = s2
  Component = {"a"}
  Longer = {}
  MaxLevels = 1
  NoPath = NoPath
  None = None
  Sub <- TwoSubs
  IntervalSub <- SecondSub
  Throttling = {0, 1, 2}
  Duration = {3}
  RequestedPath <- RootPath
  StartTime = 10
  MaxTime = 14
  MaxCount = 3
INVARIANTS
  LastNotificationCurrent
  OnChangeThrottled
PROPERTIES
  RecordsKept
