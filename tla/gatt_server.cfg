CONSTANTS
  Db <- MCDb
  Period = 4
  Timeout = 1
  MaxDelay = 1
  StateOps = {"WriteCmd", "WriteReq"}
  ClientMtus <- MCClientMtus
  MaxWrites = 2
  MaxQueue = 1
  MaxPrep = 2
  MaxName = 12
SPECIFICATION Spec
CHECK_DEADLOCK FALSE
INVARIANTS
  TypeOK
  OneAnswer
  NeverShutDown
  NoStalePrepare
  DiscoveryIsExact
  NewestWriteInForce
PROPERTIES
  EveryRequestAnswered
  WritePathRecovers
  LinkLossEnds
