SPECIFICATION Spec
CONSTANTS
  Frames <- const_Frames
  MaxCalls = 3
INVARIANTS
  TypeOK
  WholeFrames
  StreamStaleness
  StreamInStep
PROPERTIES
  ImplementsChannel
  EveryCallReturns
CHECK_DEADLOCK FALSE
