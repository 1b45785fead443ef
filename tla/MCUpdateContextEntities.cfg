SPECIFICATION Spec
CONSTANTS
  Component = {"a", "b", "ab"}
  Longer <- OneLonger
  MaxLevels = 2
  NoPath = NoPath
  None = None
  NoType = NoType
  Null = Null
  Compound = {"{}"}
  Coords = {"c1", "c2"}
  EntityType <- TwoTypes
  EntityPath <- FourPaths
  Request <- EntityRequests
INVARIANTS
  OnlySelectedChange
  UpdatesAreRead
  TypesListed
