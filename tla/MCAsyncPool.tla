----------------------------- MODULE MCAsyncPool -----------------------------
\* Three jobs on two workers: one is the sigwait job, which never returns by
\* itself, one has a cancel handler, one is submitted without a cancellation
\* function.  As in the code, as many completions fit one read as there can be
\* workers, so the pool can be full, a queue can form and a read can be full.
EXTENDS AsyncPool

CONSTANTS j1, j2, j3, w1, w2
const_Stuck == {j1}
const_Cancellable == {j1, j2}
const_HandlerJobs == {j2}
==============================================================================
