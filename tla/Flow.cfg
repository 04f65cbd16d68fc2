SPECIFICATION Spec
CHECK_DEADLOCK FALSE
CONSTANTS
  a = a
  b = b
  c = c
  Steps = {a, b, c}
  Plans <- AllPlans
  Changes <- SomeChanges
  MaxAttempts = 2
  MaxLlmAttempts = 1
  HasLlm = TRUE
  Budget <- SafetyBudget
INVARIANTS
  OneVerdict
  NoOrphan
PROPERTIES
  CompletedMeansDone
  DepsBeforeDispatch
  NoSecondDispatch
