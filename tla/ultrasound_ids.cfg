CONSTANTS
  Sensor <- AllSensors
  Count <- FewCounts
  Speed <- NoSpeed
SPECIFICATION Spec
INVARIANTS
  SensorNumbersAgree
CHECK_DEADLOCK TRUE
