CONSTANTS
  Angle <- MCAngle
  Strength <- MCStrength
  Patience = 1
  MaxConnections = 2
  MaxPosted = 1
SPECIFICATION Spec
INVARIANTS
  OneSender
CHECK_DEADLOCK FALSE
