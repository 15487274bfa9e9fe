SPECIFICATION FairSpec
CONSTANTS
  LastSecond = 1
  MaxGeneration = 2
  MaxEpoch = 4
  None = None
  Stop = Stop
INVARIANTS
  Pipelined
PROPERTIES
  OnlyCurrentGenerationShown
  NewestSelectionAnswered
  StoppedWorkerExits
CHECK_DEADLOCK FALSE
