SPECIFICATION Spec
CONSTANTS
  Frames <- const_Frames
  MaxCalls = 3
INVARIANT
  ReadsStartAtFrames
CHECK_DEADLOCK FALSE
