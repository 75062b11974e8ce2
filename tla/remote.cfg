CONSTANTS
  Angle <- MCAngle
  Strength <- MCStrength
  Patience = 1
  MaxConnections = 2
  MaxPosted = 1
SPECIFICATION FairSpec
INVARIANTS
  TypeOK
PROPERTIES
  ClickOutlivesOldFeedback
  CommandArrives
CHECK_DEADLOCK FALSE
