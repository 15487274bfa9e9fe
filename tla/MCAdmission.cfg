SPECIFICATION MCSpec
CONSTANTS
  Limit = 15
  MaxRequests = 4
  MaxCancels = 3
  None = None
  Clients = {c1, c2}
  Dragger = c1
  Keys = {k1}
  CaptureMayFail = TRUE
  MaxPendingActions = 2
  PriorityReserve = 1
  MaxInFlight = 2
  MaxSequence = 3
  Worlds = {w1, w2}
  FirstWorld = w1
  MaxEntries = 2
  MaxId = 2
  MaxFields = 2
INVARIANTS
  OnePlace
  OwnersAgreeUnlessLost
  OpenIsHeld
PROPERTIES
  LatestOnlySpec
  BarriersKeepTheirView
  EditsAreUndoable
CHECK_DEADLOCK FALSE
