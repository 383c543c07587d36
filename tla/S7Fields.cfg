SPECIFICATION FieldSpec
CONSTANTS
  E32 = 2
  M32 = 1
  E64 = 3
  MH = 1
  ML = 2
  Alphabet <- const_Alphabet
  Texts <- const_Texts
  PlcTexts <- const_PlcTexts
  MaxLen = 4
  ReadLens = {2, 4, 5}
  Beyond = 1
  WriteChunk = 4
  ReadChunk = 5
  MaxCalls = 3
  MaxAssignments = 2
INVARIANTS
  NumbersKeepTheirValue
  WriteBackKeeps
  ReadBack
  NeighbourUntouched
CHECK_DEADLOCK FALSE
