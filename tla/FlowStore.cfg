SPECIFICATION Spec
CONSTANTS
  w1 = w1
  w2 = w2
  w3 = w3
  e1 = e1
  e2 = e2
  Writers = {w1, w2, w3}
  Entries = {e1, e2}
  MaxEvents = 3
CHECK_DEADLOCK FALSE
INVARIANTS
  ReaderSeesPrefix
PROPERTIES
  AppendsAreAtomic
