SPECIFICATION FsSpec
CONSTANTS
  MaxLen = 4
  StreamLen = 2
  MaxCalls = 1
  MaxForeign = 2
  j1 = j1 j2 = j2
  Jobs = {j1, j2}
  Trees <- const_Trees
  MaxOthers = 2
INVARIANT LockMeansHeld
CHECK_DEADLOCK FALSE
