SPECIFICATION FairSpec
CONSTANTS
  Single = {s}
  Monitors = {m}
  Steps = 2
  MaxMonitors = 1
  Operators = {o1, o2}
  Workers = {w1, w2}
  MaxEvents = 3
INVARIANTS
  NoStepSkipped
  RowNamesTheTask
PROPERTIES
  WorkIsDone
  CancelStops
CHECK_DEADLOCK FALSE
