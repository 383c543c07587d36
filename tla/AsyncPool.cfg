SPECIFICATION Spec
CONSTANTS
  j1 = j1 j2 = j2 j3 = j3 w1 = w1 w2 = w2
  Jobs = {j1, j2, j3}
  Workers = {w1, w2}
  None = None
  SigEntry = SigEntry
  SigJob = j1
  Stuck <- const_Stuck
  Cancellable <- const_Cancellable
  HandlerJobs <- const_HandlerJobs
  MaxWorkers = 2
  FetchMax = 2
INVARIANTS WorkersServeTheirJobs UsesAreLive OutcomeIsTrue
PROPERTY TasksReturn
CHECK_DEADLOCK FALSE
