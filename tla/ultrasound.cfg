CONSTANTS
  Sensor <- Neighbours
  Count <- MCCount
  Speed <- MCSpeed
SPECIFICATION Spec
INVARIANTS
  TypeOK
  FaithfulDistance
  StillSceneIsStatic
  VanishedIsMobile
CHECK_DEADLOCK TRUE
