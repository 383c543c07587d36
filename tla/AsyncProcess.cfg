SPECIFICATION ProcessSpec
CONSTANTS
  Codes = {0, 3}
  Term = 15
  Kill = 9
INVARIANTS
  CodeIsTrue
  RunOutlivesChild
  GraceSparesOthers
PROPERTY RunEnds
CHECK_DEADLOCK FALSE
