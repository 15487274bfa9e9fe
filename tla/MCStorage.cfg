SPECIFICATION MCSpec
CONSTANTS
  Keys = {k1, k2}
  Readers = {r}
  Capacity = 1
  MaxContents = 3
  MaxFaults = 1
  MaxRot = 1
  MaxEntries = 2
  MaxRequests = 3
  MaxJournalFaults = 2
  DirectorySyncs = TRUE
  None = None
  Torn = Torn
  QueueCapacity = 1
  Retained = 2
  FileEvents = 1
  Ordered = TRUE
  MaxRotation = 3
  MaxEvents = 3
  MaxIoFaults = 1
INVARIANTS
  PublishedSurvives
  CacheBounded
  AcknowledgedSurvives
  SealedSurvive
  GapsAreCounted
PROPERTIES
  CheckpointSpec
  RequestsSettled
CHECK_DEADLOCK FALSE
