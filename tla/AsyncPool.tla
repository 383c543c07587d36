------------------------------ MODULE AsyncPool ------------------------------
(***************************************************************************)
(* The thread pool the client's runtime performs blocking system calls in  *)
(* (internal/event_loop/thread_pool.c), with the part of the event loop    *)
(* that hands it jobs, takes their completions and cancels them            *)
(* (event_loop.mbt).  One main thread runs the loop and every task;        *)
(* each worker thread performs one job, reports it through a pipe (on      *)
(* Windows the completion port) and parks until the main thread wakes it   *)
(* with the next one.  A job has one task waiting for it, so a job also    *)
(* names its task; job ids and job pointers are the same here.             *)
(***************************************************************************)
EXTENDS Naturals, Sequences, FiniteSets

CONSTANTS
  Jobs, Workers,      \* jobs submitted in a run; workers that can be spawned
  None,               \* the null pointer
  Stuck,              \* jobs whose system call never returns by itself
  Cancellable,        \* jobs submitted with a cancellation function
  HandlerJobs,        \* jobs with a cancel_handler of their own (Windows)
  SigJob,             \* the job that waits for SIGINT, SIGTERM and SIGHUP
  SigEntry,           \* an entry of the pipe with bit 31 set: a signal
  MaxWorkers,         \* max_worker_count
  FetchMax            \* entries one read of the pipe takes at most

ASSUME PoolAssumption ==
  /\ None \notin Jobs \cup Workers /\ SigEntry \notin Jobs
  /\ Stuck \subseteq Jobs /\ Cancellable \subseteq Jobs
  /\ HandlerJobs \subseteq Jobs /\ SigJob \in Stuck \cap Cancellable
  /\ MaxWorkers \in Nat \ {0} /\ FetchMax \in Nat \ {0}
  /\ IsFiniteSet(Workers) /\ Cardinality(Workers) >= MaxWorkers

VARIABLES
  method,     \* how workers are woken, one of WAKEUP_METHOD_*; never changes
  worker,     \* the threads: struct worker, the local job and the program counter
  pipe,       \* completions written and not yet read
  ended,      \* what a job's ret and err say: nothing yet, done or interrupted
  latched,    \* jobs whose cancel event is set
  main,       \* what the main thread is doing
  batch,      \* completions read and not yet handled
  more,       \* the last read filled the buffer, so another one follows
  task,       \* where the task of each job stands
  ready,      \* tasks in the scheduler's run_later
  cancelled,  \* tasks that were cancelled
  jobQueue,   \* job_queue
  idle,       \* idle_workers
  running,    \* running_workers: job to worker
  outcome,    \* what perform_job_in_worker gave each task
  killed,     \* killed_by_signal
  starts,     \* history: how often a worker began each job
  abandoned   \* history: jobs whose task left while they were queued

workerVars == <<worker, pipe, ended, starts>>
loopVars   == <<main, batch, more, killed>>
taskVars   == <<task, ready, cancelled, outcome, abandoned>>
poolVars   == <<jobQueue, idle, running>>
vars == <<method, latched, workerVars, loopVars, taskVars, poolVars>>

Methods   == {"event", "signal", "condvar"}
NoThread  == [pc |-> "none", job |-> None, cur |-> None, waiting |-> FALSE, token |-> FALSE]
NewThread(j) == [pc |-> "loop", job |-> j, cur |-> j, waiting |-> FALSE, token |-> FALSE]

\* moonbitlang_async_init_thread_pool, EventLoop::new
Init ==
  /\ method \in Methods
  /\ worker = [w \in Workers |-> NoThread]
  /\ pipe = << >> /\ batch = << >> /\ more = FALSE
  /\ ended = [j \in Jobs |-> "no"] /\ latched = {}
  /\ main = "run" /\ killed = FALSE
  /\ task = [j \in Jobs |-> "new"] /\ ready = {} /\ cancelled = {}
  /\ jobQueue = << >> /\ idle = << >> /\ running = [j \in Jobs |-> None]
  /\ outcome = [j \in Jobs |-> "none"]
  /\ starts = [j \in Jobs |-> 0] /\ abandoned = {}

------------------------------------------------------------------------------
(* Worker threads: worker_loop, one action per step another thread can see. *)

Step(w, from, to) ==
  worker[w].pc = from /\ worker' = [worker EXCEPT ![w].pc = to]

\* The loop's head: ret and err of the job are zeroed and job->worker enters its
\* blocking system call.  (The sigwait job has by then blocked every signal and
\* waits for SIGUSR2 too.)
Begin(w) ==
  /\ Step(w, "loop", "blocked")
  /\ ended' = [ended EXCEPT ![worker[w].cur] = "no"]
  /\ starts' = [starts EXCEPT ![worker[w].cur] = @ + 1]
  /\ UNCHANGED <<method, latched, pipe, loopVars, taskVars, poolVars>>

\* The call returns by itself.
CallReturns(w) ==
  /\ worker[w].cur \notin Stuck
  /\ Step(w, "blocked", "ran")
  /\ ended' = [ended EXCEPT ![worker[w].cur] = "done"]
  /\ UNCHANGED <<method, latched, pipe, starts, loopVars, taskVars, poolVars>>

\* sigwait_job_worker: a signal arrives and is reported through the same pipe,
\* told from a job id by bit 31; the job ends.
SignalArrives(w) ==
  /\ method # "event" /\ worker[w].cur = SigJob
  /\ Step(w, "blocked", "ran")
  /\ pipe' = Append(pipe, SigEntry)
  /\ ended' = [ended EXCEPT ![SigJob] = "done"]
  /\ UNCHANGED <<method, latched, starts, loopVars, taskVars, poolVars>>

\* cancel_wait_for_process_job set the event the job waits for beside the process.
CallAborted(w) ==
  /\ worker[w].cur \in latched
  /\ Step(w, "blocked", "ran")
  /\ ended' = [ended EXCEPT ![worker[w].cur] = "interrupted"]
  /\ UNCHANGED <<method, latched, pipe, starts, loopVars, taskVars, poolVars>>

\* self->waiting = 1, before the completion is sent.
SetWaiting(w) ==
  /\ worker[w].pc = "ran"
  /\ worker' = [worker EXCEPT ![w].pc = "notify", ![w].waiting = TRUE]
  /\ UNCHANGED <<method, latched, pipe, ended, starts, loopVars, taskVars, poolVars>>

\* write (again after EINTR) or PostQueuedCompletionStatus
Notify(w) ==
  /\ Step(w, "notify", "parked")
  /\ pipe' = Append(pipe, worker[w].cur)
  /\ UNCHANGED <<method, latched, ended, starts, loopVars, taskVars, poolVars>>

\* WaitForSingleObject, sigwait or pthread_cond_wait returns: an event and a
\* pending SIGUSR1 are remembered until then, a condition variable is not, so
\* there the loop around the wait looks at the waiting flag.
Woken(w) == IF method = "condvar" THEN ~worker[w].waiting ELSE worker[w].token

Unpark(w) ==
  /\ worker[w].pc = "parked" /\ Woken(w)
  /\ worker' = [worker EXCEPT ![w].token = FALSE, ![w].cur = worker[w].job,
                              ![w].pc = IF worker[w].job = None THEN "dead" ELSE "loop"]
  /\ UNCHANGED <<method, latched, pipe, ended, starts, loopVars, taskVars, poolVars>>

------------------------------------------------------------------------------
(* What the main thread does to a worker. *)

\* Mutation: the waiting flag is not reset.
WakeStillWaiting(w, j) == [worker[w] EXCEPT !.job = j, !.token = TRUE]

\* moonbitlang_async_wake_worker
Wake(w, j) == [worker[w] EXCEPT !.job = j, !.waiting = FALSE, !.token = TRUE]

\* moonbitlang_async_worker_enter_idle
EnterIdle(w) == [worker[w] EXCEPT !.job = None]

InCall(w) == worker[w].pc = "blocked"

\* The job's call is broken off: it returns EINTR or ERROR_OPERATION_ABORTED.
\* sigwait_job_worker waits for SIGUSR2 itself and ends without an error.
Interrupt(w) ==
  LET j == worker[w].cur IN
  /\ worker' = [worker EXCEPT ![w].pc = "ran"]
  /\ ended' = [ended EXCEPT ![j] =
                 IF j = SigJob /\ method # "event" THEN "done" ELSE "interrupted"]

\* CancelSynchronousIo says whether it found a call to break off; it can also fail.
CancelSynchronousIo(w, status) ==
  \/ InCall(w) /\ Interrupt(w) /\ status = "NeedWait"
  \/ ~InCall(w) /\ UNCHANGED <<worker, ended>> /\ status = "RetryLater"
  \/ UNCHANGED <<worker, ended>> /\ status = "Failed"

\* pthread_kill(SIGUSR2) does not say.
InterruptBySignal(w, status) ==
  /\ status = "RetryLater"
  /\ IF InCall(w) THEN Interrupt(w) ELSE UNCHANGED <<worker, ended>>

\* moonbitlang_async_cancel_worker: the statuses it can return, and what it
\* does to the thread.  A worker that is waiting has already reported.
\* SIGUSR2 (pthread_kill) and CancelSynchronousIo reach only a thread inside
\* its call; before and after it they are lost, hence RETRY_LATER.
CancelWorker(w, status) ==
  LET j == worker[w].job IN
  \/ /\ worker[w].waiting
     /\ status = "NeedWait" /\ UNCHANGED <<worker, ended, latched>>
  \/ /\ ~worker[w].waiting /\ method = "event" /\ j \in HandlerJobs
     /\ latched' = latched \cup {j}
     /\ status = "NeedWait" /\ UNCHANGED <<worker, ended>>
  \/ /\ ~worker[w].waiting /\ method = "event" /\ j \notin HandlerJobs
     /\ CancelSynchronousIo(w, status) /\ UNCHANGED latched
  \/ /\ ~worker[w].waiting /\ method # "event"
     /\ InterruptBySignal(w, status) /\ UNCHANGED latched

------------------------------------------------------------------------------
(* The tasks, run by the main thread between two polls. *)

Active(j) == task[j] \in {"waiting", "shielded", "retry", "needWait", "cancelFailed"}
RunningCount == Cardinality({j \in Jobs : running[j] # None})
Threads == {w \in Workers : worker[w].pc # "none"}

\* perform_job_in_worker up to its first suspension.
Submit(j) ==
  /\ main = "run" /\ task[j] = "new"
  /\ task' = [task EXCEPT ![j] = IF j \in Cancellable THEN "waiting" ELSE "shielded"]
  /\ \/ /\ idle = << >> /\ RunningCount >= MaxWorkers
        /\ jobQueue' = Append(jobQueue, j)
        /\ UNCHANGED <<worker, idle, running>>
     \/ /\ idle = << >> /\ RunningCount < MaxWorkers
        /\ LET w == CHOOSE w \in Workers : w \notin Threads IN
             /\ worker' = [worker EXCEPT ![w] = NewThread(j)]
             /\ running' = [running EXCEPT ![j] = w]
        /\ UNCHANGED <<jobQueue, idle>>
     \/ /\ idle # << >>
        /\ worker' = [worker EXCEPT ![Head(idle)] = Wake(Head(idle), j)]
        /\ running' = [running EXCEPT ![j] = Head(idle)]
        /\ idle' = Tail(idle)
        /\ UNCHANGED jobQueue
  /\ UNCHANGED <<method, latched, pipe, ended, starts, loopVars,
                 ready, cancelled, outcome, abandoned>>

\* Coroutine::cancel.  A task shielded by protect_from_cancel is not woken.  (One
\* that is cancelled before it submits is stopped by check_cancellation and
\* never reaches the pool.)
Cancel(j) ==
  /\ main = "run" /\ Active(j) /\ j \notin cancelled
  /\ cancelled' = cancelled \cup {j}
  /\ ready' = IF task[j] = "waiting" THEN ready \cup {j} ELSE ready
  /\ UNCHANGED <<method, latched, task, outcome, abandoned, workerVars, loopVars, poolVars>>

\* Mutation: a task that is being cancelled always raises Cancelled.
ResultUnlessCancelled(j) ==
  CASE task[j] = "cancelFailed" -> "cancelFailed"
    [] j \in cancelled -> "cancelled"
    [] ended[j] = "interrupted" /\ j \notin cancelled -> "error"
    [] OTHER -> "result"

\* The end of perform_job_in_worker: the job's err and ret are read and the
\* caller's defer frees the job.
Result(j) ==
  CASE task[j] = "cancelFailed" -> "cancelFailed"
    [] ended[j] = "interrupted" /\ j \in cancelled -> "cancelled"
    [] ended[j] = "interrupted" /\ j \notin cancelled -> "error"
    [] OTHER -> "result"

Return(j) ==
  /\ task' = [task EXCEPT ![j] = "returned"]
  /\ outcome' = [outcome EXCEPT ![j] = Result(j)]

\* wait_for_cancellation: what the task waits for after each status.
AwaitCancelled(j, status) ==
  /\ task' = [task EXCEPT ![j] = CASE status = "NeedWait" -> "needWait"
                                   [] status = "RetryLater" -> "retry"
                                   [] status = "Failed" -> "cancelFailed"]
  /\ UNCHANGED outcome

\* wait_for_cancellation with cancel_job_in_worker: a job no worker has is not
\* waited for, whether it has been performed or is still in the queue.
TryCancel(j) ==
  \/ /\ running[j] = None
     /\ Return(j)
     /\ abandoned' = IF \E i \in 1..Len(jobQueue) : jobQueue[i] = j
                       THEN abandoned \cup {j} ELSE abandoned
     /\ UNCHANGED <<worker, ended, latched>>
  \/ /\ running[j] # None
     /\ \E status \in {"NeedWait", "RetryLater", "Failed"} :
          CancelWorker(running[j], status) /\ AwaitCancelled(j, status)
     /\ UNCHANGED abandoned

\* Its suspend raised Cancelled, or its 10 ms pause before another try is over.
CancelPending(j) == (task[j] = "waiting" /\ j \in cancelled) \/ task[j] = "retry"

\* A task of run_later continues where it was suspended.
Resume(j) ==
  /\ main \in {"run", "failed"} /\ j \in ready
  /\ ready' = ready \ {j}
  /\ \/ /\ CancelPending(j)
        /\ TryCancel(j)
     \/ /\ ~CancelPending(j)
        /\ Return(j)
        /\ UNCHANGED <<worker, ended, latched, abandoned>>
  /\ UNCHANGED <<method, pipe, starts, loopVars, cancelled, poolVars>>

\* The 10 ms a task waits before it tries to cancel again are over.
RetryTimer(j) ==
  /\ main = "run" /\ task[j] = "retry" /\ j \notin ready
  /\ ready' = ready \cup {j}
  /\ UNCHANGED <<method, latched, task, cancelled, outcome, abandoned,
                 workerVars, loopVars, poolVars>>

------------------------------------------------------------------------------
(* The loop: UnixEventLoopExtra::poll, handle_completed_job, run_forever. *)

\* moonbitlang_async_fetch_completion
Fetch ==
  /\ main \in {"run", "again"} /\ pipe # << >>
  /\ LET n == IF Len(pipe) < FetchMax THEN Len(pipe) ELSE FetchMax IN
       /\ batch' = SubSeq(pipe, 1, n)
       /\ pipe' = SubSeq(pipe, n + 1, Len(pipe))
       /\ more' = (n = FetchMax)
  /\ main' = "drain"
  /\ UNCHANGED <<method, latched, worker, ended, starts, killed, taskVars, poolVars>>

\* Mutation: the completed job stays in running_workers.
HandOverKept(j, w) ==
  /\ jobQueue = << >>
  /\ worker' = [worker EXCEPT ![w] = EnterIdle(w)]
  /\ idle' = Append(idle, w)
  /\ UNCHANGED <<running, jobQueue>>

\* The worker of a completed job gets the next job of the queue, or becomes idle.
HandOver(j, w) ==
  \/ /\ jobQueue = << >>
     /\ worker' = [worker EXCEPT ![w] = EnterIdle(w)]
     /\ idle' = Append(idle, w)
     /\ running' = [running EXCEPT ![j] = None]
     /\ UNCHANGED jobQueue
  \/ /\ jobQueue # << >>
     /\ worker' = [worker EXCEPT ![w] = Wake(w, Head(jobQueue))]
     /\ running' = [running EXCEPT ![j] = None, ![Head(jobQueue)] = w]
     /\ jobQueue' = Tail(jobQueue)
     /\ UNCHANGED idle

\* handle_completed_job
Handle ==
  /\ main = "drain" /\ batch # << >>
  /\ batch' = Tail(batch)
  /\ main' = IF Len(batch) > 1 THEN "drain" ELSE IF more THEN "again" ELSE "run"
  /\ LET j == Head(batch) IN
     \/ /\ j = SigEntry
        /\ killed' = TRUE
        /\ UNCHANGED <<worker, ready, poolVars>>
     \/ /\ j # SigEntry /\ running[j] # None
        /\ HandOver(j, running[j])
        /\ ready' = IF Active(j) THEN ready \cup {j} ELSE ready
        /\ UNCHANGED killed
  /\ UNCHANGED <<method, latched, pipe, ended, starts, more,
                 task, cancelled, outcome, abandoned>>

\* After a full read the pipe is read again; it is non-blocking, so an empty one
\* is an error, and run_forever gives up: every waiting task is cancelled and no
\* completion and no timer is looked at again.
FetchFails ==
  /\ main = "again" /\ pipe = << >>
  /\ main' = "failed"
  /\ cancelled' = cancelled \cup {j \in Jobs : Active(j)}
  /\ ready' = ready \cup {j \in Jobs : task[j] = "waiting"}
  /\ UNCHANGED <<method, latched, batch, more, killed, task, outcome, abandoned,
                 workerVars, poolVars>>

\* run_forever ends when no task is ready, blocked or asleep.
Shutdown ==
  /\ main = "run" /\ ready = {} /\ \A j \in Jobs : ~Active(j)
  /\ main' = "joining"
  /\ UNCHANGED <<method, latched, batch, more, killed, workerVars, taskVars, poolVars>>

\* cleanup: moonbitlang_async_free_worker, first the wake-up, then the join.
TellToStop(w) ==
  /\ main \in {"joining", "failed"} /\ idle # << >> /\ w = Head(idle)
  /\ worker[w].pc = "parked" /\ worker[w].waiting
  /\ worker' = [worker EXCEPT ![w] = Wake(w, None)]
  /\ UNCHANGED <<method, latched, pipe, ended, starts, loopVars, taskVars, poolVars>>

\* Mutation: the thread is told to stop and not joined.
JoinAtOnce(w) ==
  /\ main \in {"joining", "failed"} /\ idle # << >> /\ w = Head(idle)
  /\ worker[w].pc = "parked" /\ ~worker[w].waiting
  /\ idle' = Tail(idle)
  /\ UNCHANGED <<method, latched, jobQueue, running, workerVars, loopVars, taskVars>>

Join(w) ==
  /\ main \in {"joining", "failed"} /\ idle # << >> /\ w = Head(idle)
  /\ worker[w].pc = "dead"
  /\ idle' = Tail(idle)
  /\ UNCHANGED <<method, latched, jobQueue, running, workerVars, loopVars, taskVars>>

\* EventLoop::destroy, moonbitlang_async_destroy_thread_pool
Destroy ==
  /\ main \in {"joining", "failed"} /\ idle = << >> /\ ready = {}
  /\ \A j \in Jobs : ~Active(j)
  /\ main' = "closed"
  /\ UNCHANGED <<method, latched, batch, more, killed, workerVars, taskVars, poolVars>>

------------------------------------------------------------------------------
WorkerNext(w) ==
  \/ Begin(w) \/ CallReturns(w) \/ SignalArrives(w)
  \/ CallAborted(w) \/ SetWaiting(w) \/ Notify(w) \/ Unpark(w)

Next ==
  \/ \E w \in Workers : WorkerNext(w) \/ TellToStop(w) \/ Join(w)
  \/ \E j \in Jobs : Submit(j) \/ Cancel(j) \/ Resume(j) \/ RetryTimer(j)
  \/ Fetch \/ Handle \/ FetchFails \/ Shutdown \/ Destroy

\* A thread that can run runs (a call of a job outside Stuck returns, an arriving
\* signal is nobody's duty); the loop goes on polling and running what is ready.
ThreadStep(w) ==
  Begin(w) \/ CallReturns(w) \/ CallAborted(w)
    \/ SetWaiting(w) \/ Notify(w) \/ Unpark(w)

Fairness ==
  /\ \A w \in Workers : WF_vars(ThreadStep(w)) /\ WF_vars(TellToStop(w) \/ Join(w))
  /\ \A j \in Jobs : WF_vars(Resume(j)) /\ WF_vars(RetryTimer(j))
  /\ WF_vars(Fetch \/ Handle \/ FetchFails)

Spec == Init /\ [][Next]_vars /\ Fairness

------------------------------------------------------------------------------
Performing(w, j) == worker[w].pc \in {"loop", "blocked", "ran"} /\ worker[w].cur = j

\* A job is begun at most once, and by the worker running_workers names: no
\* worker takes a job twice, or takes the last one again, because a wake-up
\* came early, late or twice.  And cancel_worker touches worker->job: while
\* running_workers has the worker and it is not waiting, that job is the one being
\* cancelled and not NULL (the comment in cancel_worker), so a cancellation never
\* hits another task's job.
WorkersServeTheirJobs ==
  /\ \A j \in Jobs : starts[j] <= 1
  /\ \A w \in Workers, j \in Jobs : Performing(w, j) => running[j] = w
  /\ \A j \in Jobs : running[j] # None =>
       /\ worker[running[j]].job = j
       /\ ~worker[running[j]].waiting /\ worker[running[j]].pc # "parked"
            => worker[running[j]].cur = j

\* A task gets what its job did: a result only of a job that was performed to
\* its end, Cancelled only when the job itself was
\* interrupted; and a job that was done is not reported as cancelled, so data it
\* read is not lost (wait_for_job swallows the cancellation for that reason).
\* The one exception is a job whose task left while it was still queued.
OutcomeIsTrue ==
  \A j \in Jobs \ abandoned :
    /\ outcome[j] = "result" => ended[j] = "done"
    /\ outcome[j] = "cancelled" => j \in cancelled /\ ended[j] = "interrupted"
    /\ outcome[j] = "error" => ended[j] = "interrupted"

\* No thread uses what is gone: the memory of a job is freed when its task returns,
\* and the pipe is closed when the pool is destroyed; then no worker uses that job,
\* and every thread was joined.  The exception is a job whose task left while it
\* was queued, which cancel_job_in_worker does not wait for.
UsesAreLive ==
  /\ \A w \in Workers, j \in Jobs \ abandoned : Performing(w, j) => task[j] # "returned"
  /\ main = "closed" /\ abandoned = {} =>
       \A w \in Workers : worker[w].pc \in {"none", "dead"}

\* A task returns: a submitted job whose call returns is performed and its task goes
\* on, so no wake-up of a worker or of a task is lost; and a cancelled task returns
\* even if its call would not, as signals that came too early or too late are sent
\* again (unless the system refuses the cancellation, or the loop has failed).
TasksReturn ==
  \A j \in Jobs :
    /\ j \notin Stuck => Active(j) ~> (task[j] = "returned" \/ main = "failed")
    /\ j \in Cancellable =>
         (j \in cancelled /\ Active(j))
           ~> (task[j] \in {"returned", "cancelFailed"} \/ main = "failed")
==============================================================================
