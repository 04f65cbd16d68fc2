SPECIFICATION FairSpec
CONSTANTS
  Callers = {c1, c2, c3, c4}
  FailureThreshold = 3
  HalfOpenMaxCalls = 3
  SuccessThreshold = 2
  MaxCancels = 1
INVARIANTS
  HalfOpenLimit
PROPERTIES
  LateSuccessKeepsOpen
  Recovers
