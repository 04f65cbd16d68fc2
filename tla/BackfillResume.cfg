SPECIFICATION Spec
CHECK_DEADLOCK FALSE
SYMMETRY AnyRun
CONSTANTS
  N = 3
  Runs = {r1, r2}
  Cost <- UnitCost
  Stamp <- OwnStamp
  TokenBudget = 3
  EveryN = 2
  MinItems = 2
  Percent = 50
  MaxFaults = 0
INVARIANTS
  ResumedImportIsWhole
