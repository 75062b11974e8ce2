CONSTANTS
  Sensor <- MCSensor
  CloseDistance <- MCCloseDistance
  CriticalDistance <- MCCriticalDistance
  Distance <- MaskedDistance
  Image <- MCImage
  BleValue <- MCBleValue
  TelemetryFrame = {}
SPECIFICATION Spec
PROPERTIES
  EachUltrasoundChecked
CHECK_DEADLOCK FALSE
