SPECIFICATION Spec
CONSTANTS
  p1 = p1
  p2 = p2
  s1 = s1
  Component = {"a"}
  Longer = {}
  MaxLevels = 1
  NoPath = NoPath
  Regex <- AllIds
  Proc = {p1, p2}
  SubId = {s1}
  RegisterRequests <- Registers3
  AvailRequests <- Avails
  DiscoverRequests <- Discovers
  QueryRequests <- Queries
  UpdateRequests <- Updates
  LocalEntities <- Locals
  EntityType = {"", "T", "U"}
  BadUrl = {"bad"}
  DefaultDuration = 2
  DefaultLimit = 20
  MaxRegistrations = 2
  MaxCount = 2
  MaxTime = 1
  MaxFaults = 1
SYMMETRY Symmetry
INVARIANTS
  SubscriberKnows
  FwdRegIdKept
  DiscoverComplete
  ProviderFound
  AnsweredOnce
PROPERTIES
  ForwardedToProvider
