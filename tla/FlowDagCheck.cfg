SPECIFICATION CheckSpec
CONSTANTS
  a = a
  b = b
  c = c
  Steps = {a, b, c}
  MaxSteps = 3
  MaxChange = 1
CHECK_DEADLOCK FALSE
INVARIANTS
  ValidateAgrees
  TopologicalAgrees
  MutationAgrees
PROPERTY
  SearchEnds
