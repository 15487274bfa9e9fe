SPECIFICATION MCSpec
CONSTANTS
  Limit = 15
  MaxRequests = 4
  MaxCancels = 3
  None = None
  Clients = {c1, c2}
  Dragger = c1
  Keys = {k1}
  CaptureMayFail = FALSE
  MaxPendingActions = 2
  PriorityReserve = 1
  MaxInFlight = 2
  MaxSequence = 3
  Worlds = {w1, w2}
  FirstWorld = w1
  MaxEntries = 2
  MaxId = 2
  MaxFields = 2
INVARIANT NoOrphanedGesture
CHECK_DEADLOCK FALSE
