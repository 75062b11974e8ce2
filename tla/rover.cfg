CONSTANTS
  Sensor <- MCSensor
  CloseDistance <- MCCloseDistance
  CriticalDistance <- MCCriticalDistance
  Distance <- MCDistance
  Image <- MCImage
  BleValue <- MCBleValue
  TelemetryFrame <- MCTelemetryFrame
  Patience = 5
SPECIFICATION RoverSpec
VIEW RoverView
INVARIANTS
  RoverTypeOK
  DangerStopsInTime
  LostLinkStopsInTime
  ClickPrevails
PROPERTIES
  ManualIsStable
