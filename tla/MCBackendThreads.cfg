\* No symmetry: it is not sound for the liveness properties.
SPECIFICATION ThreadsSpec
CONSTANTS
  Thread = {t1, t2}
  Id = {"valid", "malformed"}
  MaxCalls = 2
  MaxValue = 2
  Sub = {s1}
  Cond = {c1}
  Tid = {i1}
  Req = {r1, r2}
  None = None
INVARIANTS
  MongoSemExclusive
PROPERTIES
  HandlersSerial
  EveryRequestAnswered
  ThreadsComeToEnd
