SPECIFICATION Spec
CONSTANTS
  Pdus = {26, 37}
  MaxPdu = 33
  DbLen = 4
  Calls <- const_Calls
  MaxCalls = 3
  MaxForeign = 1
  MixedAreas = {{1}}
INVARIANTS
  ReadIsFaithful
  WriteIsPrefix
  StaleOnlyAfterFailure
PROPERTIES
  WritesInOrder
  EveryCallReturns
CHECK_DEADLOCK FALSE
