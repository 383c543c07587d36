SPECIFICATION Spec
CONSTANTS
  MaxSockets = 2
  PlcPdus <- const_PlcPdus
  SetupLens <- const_SetupLens
INVARIANT TimedOutIsClosed
CHECK_DEADLOCK FALSE
