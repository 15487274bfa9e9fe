SPECIFICATION MCSpec
CONSTANTS
  Pool = 4
  Queue = 2
  Slots = 2
  MaxGap = 1
  MaxIndex = 4
INVARIANTS
  BuffersConserved
  TimelineExact
  AcceptedIsShown
  CancelWins
  ReportPublishedFirst
  OutcomeIsTrue
PROPERTIES
  RecordingEnds
  ForeignKept
  CancelSettles
CHECK_DEADLOCK FALSE
