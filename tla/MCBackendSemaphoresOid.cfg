SPECIFICATION Spec
CONSTANTS
  Thread = {t1, t2, t3}
  Id = {"valid", "malformed"}
  MaxCalls = 2
  MaxValue = 2
INVARIANTS
  MongoSemAlwaysExclusive
