CONSTANTS
  SpeedValue <- MCSpeedValue
  DirValue <- MCDirValue
  FifoDepth = 2
  MaxPerPeriod = 2
SPECIFICATION Spec
INVARIANTS
  SpeedIsFromASpeedFrame
CHECK_DEADLOCK TRUE
