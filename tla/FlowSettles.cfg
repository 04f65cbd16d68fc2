SPECIFICATION FairSpec
CHECK_DEADLOCK FALSE
CONSTANTS
  a = a
  b = b
  c = c
  Steps = {a, b, c}
  Plans <- LongPlans
  Changes <- NoChanges
  MaxAttempts = 2
  MaxLlmAttempts = 1
  HasLlm = FALSE
  Budget <- SettleBudget
PROPERTIES
  FlowSettles
