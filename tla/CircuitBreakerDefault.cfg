SPECIFICATION FairSpec
CONSTANTS
  Callers = {c1, c2, c3}
  FailureThreshold = 5
  HalfOpenMaxCalls = 1
  SuccessThreshold = 2
  MaxCancels = 0
PROPERTIES
  Recovers
