CONSTANTS
  SpeedValue <- MCSpeedValue
  DirValue <- MCDirValue
  FifoDepth = 2
  MaxPerPeriod = 2
SPECIFICATION FairSpec
INVARIANTS
  TypeOK
  SilenceZeroesCommands
  SilenceStopsTheCar
  NewestSpeedApplied
  NewestDirectionApplied
PROPERTIES
  ImplementsDeadman
  DeadPiStopsTheCar
CHECK_DEADLOCK TRUE
