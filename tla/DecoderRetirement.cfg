SPECIFICATION FairSpec
CONSTANTS
  HardCap = 2
  ChurnCap = 1
  MaxWorkers = 3
  MaxRefusals = 1
INVARIANTS
  ThreadsBounded
  CompletedDrainIsFinal
PROPERTIES
  EndedRetireeReaped
  DrainLeavesNothing
