SPECIFICATION FairSpec
CHECK_DEADLOCK FALSE
CONSTANTS
  Streams = {out, err}
  MaxPhases = 2
  MaxLines = 2
  QueueMax = 6
  SizeThreshold = 1
  Cap = 1
  MaxEvents = 2
INVARIANTS
  TypeOK
  LinesFollowTheirJob
  EveryLineOnce
PROPERTIES
  RowNeverReopens
  JobEnds
  RowCatchesUp
