SPECIFICATION FairSpec
CONSTANTS
  LastSecond = 1
  MaxGeneration = 1
  MaxEpoch = 3
  None = None
  Stop = Stop
PROPERTY
  ObsoleteFailureNotExposed
CHECK_DEADLOCK FALSE
