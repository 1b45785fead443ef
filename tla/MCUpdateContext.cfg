SPECIFICATION Spec
CONSTANTS
  Component = {"a", "b", "ab"}
  Longer <- OneLonger
  MaxLevels = 2
  NoPath = NoPath
  None = None
  NoType = NoType
  Null = Null
  Compound = {"{}"}
  Coords = {"c1", "c2"}
  EntityType <- OneType
  EntityPath <- OnePath
  Request <- AttrRequests
INVARIANTS
  ResponseTrue
  OthersKept
  ChangesNotified
  IdsNotMixed
  AreaFollowsUpdate
  FederatedCopy
