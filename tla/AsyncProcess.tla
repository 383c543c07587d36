----------------------------- MODULE AsyncProcess -----------------------------
(***************************************************************************)
(* One child process of the runtime, from spawn to the return of           *)
(* @process.run: the job that spawns it (thread_pool.c), the ways the four *)
(* systems tell that it ended (process_unix.mbt, process_windows.mbt,      *)
(* process.c, kqueue.c), and, when the caller is cancelled, the task group *)
(* in which one task waits for the child while another, the cancellation   *)
(* handler, signals it (process.mbt, cancellation.mbt, task_group.mbt).    *)
(* The tasks run one at a time in the order of the scheduler's run_later;  *)
(* worker threads and the child run beside them.  That a job of the pool   *)
(* ends "interrupted" only when its task was cancelled, and that it does   *)
(* then end, is what AsyncPool shows.  The job that waits has a worker     *)
(* when it is cancelled: one that is queued would be given up at once.     *)
(***************************************************************************)
EXTENDS Integers, Sequences, SequencesExt

CONSTANTS
  Codes,        \* codes the child exits with
  Term, Kill    \* numbers of SIGTERM and SIGKILL

ASSUME ProcessAssumption ==
  Codes \subseteq Nat /\ {Term, Kill} \subseteq Nat \ {0} /\ Term # Kill

\* How the system lets a process be waited for: Linux with a pidfd, Linux without
\* (waitpid in a worker), macOS, Windows.
Ways == {"pidfd", "waitpid", "kqueue", "windows"}
Tasks == {"run", "body", "handler"}

VARIABLES
  how,
  style,      \* the cancellation handler: graceful_cancel or hard_cancel
  child,      \* none, suspended, running, dying, zombie (to be waited for) or gone
  exit,       \* how it ended: an exit code, or a signal's number negated
  killed,     \* a SIGKILL is on its way to the child
  pc,         \* per task, where it is
  queue,      \* run_later
  turn,       \* tasks of this round of reschedule that have not run
  cancelled,  \* tasks that were cancelled
  spawning,   \* the spawn job: none, called, created, done or failed
  event,      \* the bus has something for whoever waits
  waiter,     \* the job that waits for the process: none, blocked, ended or interrupted
  jobRet,     \* its result
  handles,    \* open handles on the child
  told,       \* what @process.run gave its caller
  strays      \* history: signals sent to the pid after the child was reaped

taskVars  == <<pc, queue, turn, cancelled, told>>
childVars == <<child, exit, killed>>
jobVars   == <<spawning, waiter, jobRet>>
processVars == <<how, style, childVars, taskVars, jobVars, event, handles, strays>>

OnWindows == how = "windows"
Nothing == [kind |-> "nothing", code |-> 0]
Code(n) == [kind |-> "code", code |-> n]
Error   == [kind |-> "error", code |-> 0]
Raised  == [kind |-> "cancelled", code |-> 0]

ProcessInit ==
  /\ how \in Ways /\ style \in {"graceful", "hard"}
  /\ child = "none" /\ exit = 0 /\ killed = FALSE
  /\ pc = [t \in Tasks |-> IF t = "run" THEN "new" ELSE "none"]
  /\ queue = <<"run">> /\ turn = 1 /\ cancelled = {}
  /\ spawning = "none" /\ event = FALSE /\ waiter = "none" /\ jobRet = 0
  /\ handles = {} /\ told = Nothing /\ strays = {}

------------------------------------------------------------------------------
(* The child. *)

\* It ends by itself or by somebody's signal; Windows knows exit codes only.  macOS
\* says that it ended a little before it can be waited for.
Ends(n) ==
  /\ child = "running"
  /\ child' = (IF how = "kqueue" THEN "dying" ELSE "zombie") /\ exit' = n
  /\ event' = (event \/ ("pidfd" \in handles /\ how = "pidfd")
                     \/ (how = "kqueue" /\ "proc" \in handles))
  /\ UNCHANGED <<how, style, killed, taskVars, jobVars, handles, strays>>

ChildEnds == \E n \in Codes \cup (IF OnWindows THEN {} ELSE {0 - Term, 0 - Kill}) : Ends(n)
ChildDies == killed /\ Ends(IF OnWindows THEN 1 ELSE 0 - Kill)

CanBeReaped ==
  /\ child = "dying" /\ child' = "zombie"
  /\ UNCHANGED <<how, style, exit, killed, taskVars, jobVars, event, handles, strays>>

------------------------------------------------------------------------------
(* Worker threads: spawn_job_worker and wait_for_process_job_worker. *)

SpawnFails ==
  /\ spawning = "called"
  /\ spawning' = "failed" /\ event' = TRUE
  /\ UNCHANGED <<how, style, childVars, taskVars, waiter, jobRet, handles, strays>>

PosixSpawn == ~OnWindows /\ child' = "running" /\ handles' = {}

\* Suspended where the child is put into the job object afterwards (CREATE_SUSPENDED).
CreateProcess ==
  /\ OnWindows
  /\ child' \in {"running", "suspended"} /\ handles' = {"process", "thread"}

Create ==
  /\ spawning = "called"
  /\ PosixSpawn \/ CreateProcess
  /\ spawning' = "created"
  /\ UNCHANGED <<how, style, exit, killed, taskVars, waiter, jobRet, event, strays>>

\* pidfd_open works, or fails when the process is already running.
OpenPidfd ==
  /\ how = "pidfd"
  /\ \/ handles' = {"pidfd"} /\ spawning' = "done"
     \/ handles' = {} /\ spawning' = "failed"
  /\ UNCHANGED <<child, exit>>

\* AssignProcessToJobObject, ResumeThread.  When it fails the child is terminated,
\* and its two handles are left open.
Assign ==
  /\ OnWindows /\ child = "suspended"
  /\ \/ child' = "running" /\ handles' = {"process"} /\ spawning' = "done" /\ UNCHANGED exit
     \/ child' = "zombie" /\ exit' = 1 /\ spawning' = "failed" /\ UNCHANGED handles

Created ==
  /\ spawning = "created"
  /\ \/ OpenPidfd
     \/ Assign
     \/ /\ how # "pidfd" /\ child # "suspended"
        /\ handles' = handles \ {"thread"} /\ spawning' = "done"
        /\ UNCHANGED <<child, exit>>
  /\ event' = TRUE
  /\ UNCHANGED <<how, style, killed, taskVars, waiter, jobRet, strays>>

\* Mutation: the status of waitpid is passed on as it is.
WholeStatus == IF exit < 0 THEN 0 - exit ELSE 256 * exit

\* waitpid returns: the child is reaped here, and the status is taken for the one of
\* an exit (WEXITSTATUS of a status that says "killed" is 0).
WorkerExitCode == IF exit < 0 THEN 0 ELSE exit

\* WaitForMultipleObjects, or waitpid, returns.
WaitJobEnds ==
  /\ waiter = "blocked" /\ child = "zombie"
  /\ waiter' = "ended" /\ event' = TRUE
  /\ IF OnWindows THEN UNCHANGED <<child, jobRet>>
     ELSE child' = "gone" /\ jobRet' = WorkerExitCode
  /\ UNCHANGED <<how, style, exit, killed, taskVars, spawning, handles, strays>>

\* EINTR, or the job's cancel event
WaitJobInterrupted ==
  /\ waiter = "blocked" /\ pc["run"] = "waiting" /\ "run" \in cancelled
  /\ waiter' = "interrupted" /\ event' = TRUE
  /\ UNCHANGED <<how, style, childVars, taskVars, spawning, jobRet, handles, strays>>

------------------------------------------------------------------------------
(* The scheduler. *)

\* Coroutine::wake
Wake(q, t) == IF Contains(q, t) THEN q ELSE Append(q, t)

\* At most three tasks are woken, one after the other.
Woken(q, ts) ==
  LET Then(p, i) == IF i <= Len(ts) THEN Wake(p, ts[i]) ELSE p
  IN Then(Then(Then(q, 1), 2), 3)

\* A task of run_later goes on where it was, and may wake others.
Resumed(t, ts) ==
  /\ turn > 0 /\ Head(queue) = t
  /\ turn' = turn - 1
  /\ queue' = Woken(Tail(queue), ts)

\* Coroutine::cancel of the caller's task.  While a job of the pool is waited for, the
\* task sees it through, and with its shield up it is not woken either.
Cancel ==
  /\ pc["run"] # "done" /\ "run" \notin cancelled
  /\ cancelled' = cancelled \cup {"run"}
  /\ queue' = IF pc["run"] = "napping" \/ (pc["run"] = "waiting" /\ waiter = "none")
                THEN Woken(queue, <<"run">>) ELSE queue
  /\ UNCHANGED <<how, style, childVars, pc, turn, told, jobVars, event, handles, strays>>

Sleepers == {t \in Tasks : pc[t] \in {"sleeping", "napping"}}
Orders == {<<>>, <<"run">>, <<"body">>, <<"handler">>,
           <<"body", "handler">>, <<"handler", "body">>}
Waiters == IF pc["run"] \in {"spawning", "waiting"} THEN <<"run">>
           ELSE IF pc["body"] = "waiting" THEN <<"body">> ELSE <<>>

\* wait_for_event and poll, between two rounds: timers first, then what the bus has.
Poll(due) ==
  /\ turn = 0 /\ {due[i] : i \in 1..Len(due)} \subseteq Sleepers
  /\ queue' = Woken(queue, due \o (IF event THEN Waiters ELSE <<>>))
  /\ queue' # <<>> /\ turn' = Len(queue')
  /\ event' = FALSE
  /\ UNCHANGED <<how, style, childVars, pc, cancelled, told, jobVars, handles, strays>>

------------------------------------------------------------------------------
(* Process::wait_pid, by the task of run or by the body of the group. *)

BrokenOff(t) == t = "run" /\ "run" \in cancelled /\ pc["body"] = "none"

\* process.close, and the end of @process.run
Return(result) ==
  /\ pc' = [pc EXCEPT !["run"] = "done"]
  /\ told' = result
  /\ handles' = handles \cap {"thread"}
  /\ UNCHANGED cancelled

\* Mutation: the handler is left running when the process has ended.
BodyLeaves(result) ==
  /\ pc' = [pc EXCEPT !["body"] = "done", !["handler"] = IF @ = "none" THEN "new" ELSE @]
  /\ UNCHANGED cancelled
  /\ told' = IF result = Error THEN Error ELSE Raised
  /\ UNCHANGED handles

\* The body of the group ends: the handler, which nobody waits for, is cancelled.
BodyEnds(result) ==
  /\ pc' = [pc EXCEPT !["body"] = "done", !["handler"] = IF @ = "none" THEN "new" ELSE @]
  /\ cancelled' = cancelled \cup {"handler"}
  /\ told' = IF result = Error THEN Error ELSE Raised
  /\ UNCHANGED handles

\* Mutation: a cancelled run does not wait for the child.
StopAtOnce ==
  /\ Resumed("run", <<>>)
  /\ pc' = [pc EXCEPT !["run"] = "done"]
  /\ told' = Raised
  /\ UNCHANGED cancelled

\* The wait raised Cancelled: run opens a task group behind a shield, whose body
\* waits for the process again.
Stop ==
  /\ Resumed("run", <<"body">>)
  /\ pc' = [pc EXCEPT !["run"] = "stopping", !["body"] = "new"]
  /\ UNCHANGED <<cancelled, told>>

\* An error of a wait that was cancelled is taken for the cancellation.  Otherwise the
\* task wakes whom it must: when the body ends, the handler, or the caller when
\* the handler is done; the body spawns the handler first of all.
WaitEnds(t, result) ==
  IF t = "run" /\ result = Error /\ BrokenOff(t) THEN Stop /\ UNCHANGED handles
  ELSE IF t = "run" THEN Resumed(t, <<>>) /\ Return(result)
  ELSE Resumed(t, IF pc["handler"] = "done" THEN <<"run">> ELSE <<"handler">>) /\ BodyEnds(result)

Waits(t, where) ==
  /\ Resumed(t, IF pc[t] = "new" THEN <<"handler">> ELSE <<>>)
  /\ pc' = [pc EXCEPT ![t] = where, !["handler"] = IF t = "body" /\ @ = "none" THEN "new" ELSE @]
  /\ UNCHANGED <<cancelled, told>>

\* Suspending (and submitting a job) raises Cancelled in a task that was cancelled.
Suspends(t, where) == IF BrokenOff(t) THEN Stop ELSE Waits(t, where)

\* moonbitlang_async_get_process_result: the process has ended and is reaped, or it
\* has not (EAGAIN).
GetResult(t, otherwise) ==
  \/ /\ child = "zombie"
     /\ WaitEnds(t, Code(exit)) /\ child' = "gone"
  \/ child # "zombie" /\ otherwise /\ UNCHANGED <<child, handles>>

\* moonbitlang_async_event_bus_register_pid: registered, ended (ESRCH), or an error
RegisterPid(t) ==
  \/ /\ child = "running"
     /\ Suspends(t, "waiting")
     /\ handles' = handles \cup {"proc"} /\ UNCHANGED child
  \/ child # "running" /\ GetResult(t, Suspends(t, "napping"))
  \/ WaitEnds(t, Error) /\ UNCHANGED child

\* wait_pid_unix and wait_pid_windows up to their first suspension
BeginWait(t) ==
  \/ how = "pidfd" /\ GetResult(t, Suspends(t, "waiting")) /\ UNCHANGED waiter
  \/ how = "kqueue" /\ RegisterPid(t) /\ UNCHANGED waiter
  \/ /\ how \in {"waitpid", "windows"}
     /\ Suspends(t, "waiting") /\ UNCHANGED <<child, handles>>
     /\ waiter' = IF BrokenOff(t) THEN waiter ELSE "blocked"

\* The wait is over, or was broken off.
EndWait(t) ==
  \/ waiter = "none" /\ BrokenOff(t) /\ Stop /\ UNCHANGED <<child, waiter, handles>>
  \/ /\ waiter = "none" /\ ~BrokenOff(t)
     /\ GetResult(t, how = "kqueue" /\ Waits(t, "napping"))
     /\ UNCHANGED waiter
  \/ /\ waiter = "ended" /\ WaitEnds(t, Code(IF OnWindows THEN exit ELSE jobRet))
     /\ waiter' = "none" /\ UNCHANGED child
  \/ waiter = "interrupted" /\ Stop /\ waiter' = "none" /\ UNCHANGED <<child, handles>>

\* EventBus::register of the pidfd may fail; the pidfd is closed then.
RegisterFails == how = "pidfd" /\ Resumed("run", <<>>) /\ Return(Error)

------------------------------------------------------------------------------
(* The tasks. *)

\* check_cancellation, then the spawn job, which cannot be cancelled.
RunBegins ==
  /\ pc["run"] = "new" /\ Resumed("run", <<>>)
  /\ IF "run" \in cancelled THEN Return(Raised) /\ UNCHANGED spawning
     ELSE /\ spawning' = "called" /\ pc' = [pc EXCEPT !["run"] = "spawning"]
          /\ UNCHANGED <<cancelled, told, handles>>
  /\ UNCHANGED <<child, waiter, killed, strays>>

RunSpawned ==
  /\ pc["run"] = "spawning"
  /\ \/ /\ spawning = "failed"
        /\ Resumed("run", <<>>)
        /\ pc' = [pc EXCEPT !["run"] = "done"] /\ told' = Error
        /\ UNCHANGED <<cancelled, handles, child, waiter>>
     \/ spawning = "done" /\ RegisterFails /\ UNCHANGED <<child, waiter>>
     \/ spawning = "done" /\ BeginWait("run")
  /\ UNCHANGED <<spawning, killed, strays>>

\* The group's tasks have all ended; behind the shield the caller is still cancelled.
RunStopped ==
  /\ pc["run"] = "stopping" /\ Resumed("run", <<>>)
  /\ Return(told)
  /\ UNCHANGED <<child, waiter, spawning, killed, strays>>

WaitGoesOn(t) ==
  /\ pc[t] \in {"waiting", "napping"} /\ EndWait(t)
  /\ UNCHANGED <<spawning, killed, strays>>

BodyBegins ==
  /\ pc["body"] = "new" /\ BeginWait("body")
  /\ UNCHANGED <<spawning, killed, strays>>

\* moonbitlang_async_terminate_process and moonbitlang_async_kill_process go by the pid,
\* which may be anybody's when the child was reaped.  (On Windows the open handle keeps
\* the pid, and the child does not become "gone".)
Signal(sig) ==
  /\ killed' = (killed \/ (sig = Kill /\ child = "running"))
  /\ strays' = IF child = "gone" THEN strays \cup {sig} ELSE strays

HandlerEnds ==
  /\ Resumed("handler", IF pc["body"] = "done" THEN <<"run">> ELSE <<>>)
  /\ pc' = [pc EXCEPT !["handler"] = "done"]

\* Mutation: graceful_cancel does not kill.
SleepsOut == UNCHANGED <<killed, strays>>

GraceIsOver == Signal(Kill)

\* graceful_cancel or hard_cancel.  A task that was cancelled before it began still
\* begins, and is stopped at its first suspension.
HandlerBegins ==
  /\ pc["handler"] = "new"
  /\ \/ style = "hard" /\ Signal(Kill) /\ HandlerEnds
     \/ style = "graceful" /\ "handler" \in cancelled /\ Signal(Term) /\ HandlerEnds
     \/ /\ style = "graceful" /\ "handler" \notin cancelled /\ Signal(Term)
        /\ Resumed("handler", <<>>) /\ pc' = [pc EXCEPT !["handler"] = "sleeping"]
  /\ UNCHANGED <<child, waiter, spawning, cancelled, told, handles>>

HandlerGoesOn ==
  /\ pc["handler"] = "sleeping" /\ HandlerEnds
  /\ IF "handler" \in cancelled THEN UNCHANGED <<killed, strays>> ELSE GraceIsOver
  /\ UNCHANGED <<child, waiter, spawning, cancelled, told, handles>>

TaskStep ==
  /\ RunBegins \/ RunSpawned \/ RunStopped \/ BodyBegins
       \/ WaitGoesOn("run") \/ WaitGoesOn("body") \/ HandlerBegins \/ HandlerGoesOn
  /\ UNCHANGED <<how, style, exit, jobRet, event>>

------------------------------------------------------------------------------
ProcessNext ==
  \/ ChildEnds \/ ChildDies \/ CanBeReaped \/ SpawnFails \/ Create \/ Created
  \/ WaitJobEnds \/ WaitJobInterrupted
  \/ Cancel \/ (\E due \in Orders : Poll(due)) \/ TaskStep

\* Workers go on, the loop goes on, timers expire and a killed process dies; the child
\* ends by itself only if it likes.
Fairness ==
  /\ WF_processVars(SpawnFails \/ Create) /\ WF_processVars(Created)
  /\ WF_processVars(WaitJobEnds) /\ WF_processVars(WaitJobInterrupted) /\ WF_processVars(ChildDies)
  /\ WF_processVars(CanBeReaped)
  /\ WF_processVars(\E due \in Orders : Poll(due)) /\ WF_processVars(TaskStep)
  /\ \A t \in Tasks :
       SF_processVars(\E due \in Orders : t \in {due[i] : i \in 1..Len(due)} /\ Poll(due))

ProcessSpec == ProcessInit /\ [][ProcessNext]_processVars /\ Fairness

------------------------------------------------------------------------------
\* What @process.run returns is the child's exit code, or its signal's number negated.
\* The exception is the worker that waits on a Linux without pidfd, to which a killed
\* child has exited with 0.
CodeIsTrue ==
  told.kind = "code" =>
    told.code = exit \/ (how = "waitpid" /\ exit < 0 /\ told.code = 0)

\* run "will not return until the process terminates, even if cancelled" (process.mbt):
\* then the child has ended, is reaped, and no handle on it is left.  When run fails
\* instead, the child may still be there: pidfd_open, its registration or kevent failed
\* behind posix_spawn; or Assign left its handles.
RunOutlivesChild ==
  pc["run"] = "done" /\ told.kind # "error" =>
    /\ child \in {"none", "gone"} \cup (IF OnWindows THEN {"zombie"} ELSE {})
    /\ handles = {}

\* The SIGKILL that graceful_cancel sends after its timeout never goes to a process that
\* has been reaped: the handler is cancelled in time.  The exception is the worker that
\* reaps the child behind the loop's back.
GraceSparesOthers == style = "graceful" /\ Kill \in strays => how = "waitpid"

\* A call of run ends once the child has ended, and a cancelled call ends whatever the
\* child does.
RunEnds ==
  /\ child = "zombie" ~> pc["run"] = "done"
  /\ "run" \in cancelled ~> pc["run"] = "done"
==============================================================================
