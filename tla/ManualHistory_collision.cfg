SPECIFICATION Spec
CONSTANTS
  Worlds = {w1, w2}
  FirstWorld = w1
  MaxEntries = 2
  MaxId = 2
  MaxFields = 2
  None = None
INVARIANT DragKeepsItsEntry
CHECK_DEADLOCK FALSE
