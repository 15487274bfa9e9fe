SPECIFICATION MCSpec
CONSTANTS
  MaxEpoch = 4
  MaxGeneration = 3
  None = None
  Outcomes = {"frame", "failed"}
  MaxSkipped = 1
  Folders = {a, b}
  FirstFolder = a
  Uploads = {u}
  MaxScans = 2
INVARIANTS OneFolder DeliveredIsShown
PROPERTIES
  BarriersAreFinal
  BlackoutArrives
  PlaybackNeverStarves
  UploadedIsListed
CHECK_DEADLOCK FALSE
