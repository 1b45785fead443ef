SPECIFICATION PartsSpec
CONSTANTS
  Requests = 2
  Verbs = {"GET", "POST", "PUT", "DELETE", "OPTIONS"}
  Component = {"a", "b"}
  Longer = {}
  MaxLevels = 3
  NoPath = NoPath
  Part = {"orion", "-", "x", "a"}
  ClientTenant <- NoneAndA
  Subscription = {"s1", "s2", "s3"}
  MaxTries = 2
INVARIANTS
  FaultAnswered
  PayloadOwned
  RoutineReads
  ValuesBelong
  AcceptedIsClean
  FormatsAgree
  PathsAgree
  NothingKept
  DeliveredAsAsked
  IntervalsRecovered
  ThreadsOfOwnDatabase
  BackendReady
