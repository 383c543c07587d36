SPECIFICATION Spec
CONSTANTS
  MaxSockets = 2
  PlcPdus <- const_PlcPdus
  SetupLens <- const_SetupLens
INVARIANTS
  NoSocketLost
  OkMeansReady
PROPERTIES
  ConnectReturns
  ClosedIsReleased
CHECK_DEADLOCK FALSE
