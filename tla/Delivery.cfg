SPECIFICATION FairSpec
CONSTANTS
  Dispatchers = {d1, d2}
  BatchSize = 2
  Conns = {c1, c2}
  MaxMessages = 2
  MaxFaults = 1
INVARIANTS
  NothingDropped
  DuplicatesNeedAFault
  AckedMissesNothing
PROPERTIES
  OwedIsSent
  StoredIsPublished
CHECK_DEADLOCK FALSE
