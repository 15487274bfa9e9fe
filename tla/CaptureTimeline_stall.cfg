SPECIFICATION Spec
CONSTANTS
  Pool = 4
  Queue = 2
  Slots = 2
  MaxGap = 1
  MaxIndex = 4
INVARIANT AdmittedWorkDrained
CHECK_DEADLOCK FALSE
