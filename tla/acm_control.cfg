CONSTANTS
  Sensor <- MCSensor
  CloseDistance <- MCCloseDistance
  CriticalDistance <- MCCriticalDistance
  Distance <- MCDistance
  Image <- MCImage
  BleValue <- MCBleValue
  TelemetryFrame = {}
SPECIFICATION FairSpec
INVARIANTS
  TypeOK
  EmergencyStopOnPersistentDanger
  TurboOnlyInTheClear
  AutonomyOnlyInTheClear
  DebouncedSteering
PROPERTIES
  LaneAssistEngages
  StopIsObeyed
  AutonomyResumes
CHECK_DEADLOCK FALSE
