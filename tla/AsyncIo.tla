------------------------------- MODULE AsyncIo -------------------------------
(***************************************************************************)
(* One TCP socket of the runtime on its event bus: a task connects it,     *)
(* then one task reads and one writes, and any of them can be cancelled (a *)
(* timeout of the client is such a cancellation).  On Linux and macOS the  *)
(* bus reports readiness once per change (epoll.c with EPOLLET, kqueue.c   *)
(* with EV_CLEAR) and the call is made again; on Windows the call leaves   *)
(* an operation in the kernel (io_windows.c), whose completion comes as a  *)
(* packet of the completion port (iocp.c).  The tasks are those of         *)
(* io_unix.mbt, io_windows.mbt, network_*.mbt and event_loop.mbt.  Bytes   *)
(* are counted: which byte it is never matters here.                       *)
(***************************************************************************)
EXTENDS Naturals, Sequences, FiniteSets

CONSTANTS
  MaxIn,      \* bytes the peer sends at most
  Room,       \* size of the socket's send buffer
  Chunk,      \* bytes a task asks for in one call
  MaxCalls    \* reads and writes in one run, together

ASSUME IoAssumption == MaxIn \in Nat /\ Room \in Nat \ {0}
                         /\ Chunk \in Nat \ {0} /\ MaxCalls \in Nat

Platforms == {"linux", "macos", "windows"}
Dirs == {"read", "write"}       \* IO_RESULT_READ_EVENT and IO_RESULT_WRITE_EVENT

VARIABLES
  platform,
  link,       \* the connection: fresh, trying, up or refused
  peer,       \* what the other side did to it: open, fin or rst
  inbuf,      \* bytes received and not read
  sent,       \* bytes the peer sent, less those a reset threw away
  room,       \* free bytes of the send buffer
  taken,      \* bytes the kernel took from the writer
  edges,      \* changes the bus has not reported yet (Linux, macOS)
  ops,        \* the IoResults that went into the kernel, in order (Windows)
  packets,    \* completion packets not yet taken: positions in ops
  open,       \* the handle is open
  pc,         \* per direction, where its task is in the call
  held,       \* per direction, the result a task has while it pauses
  op,         \* per direction, the IoResult of the call: a position in ops, or 0
  ready,      \* tasks in the scheduler's run_later
  cancelled,  \* tasks that were cancelled
  told,       \* per direction, the bytes its callers were told of
  outcome,    \* per direction, how the last call ended
  calls,      \* the reads and writes made
  misled,     \* history: a packet of a freed IoResult was looked at
  givenUp     \* history: a cancellation was refused by the system

kernelVars == <<link, peer, inbuf, sent, room, taken>>
busVars    == <<edges, ops, packets>>
taskVars   == <<pc, held, op, ready, cancelled, told, outcome, calls>>
vars == <<platform, kernelVars, busVars, open, taskVars, misled, givenUp>>

Windows == platform = "windows"
Least(a, b) == IF a < b THEN a ELSE b

\* moonbitlang_async_event_bus_register: on Linux a socket that is not connected hangs
\* up as soon as it is registered.
InitialEdges == IF platform = "linux" THEN Dirs ELSE {}

\* make_tcp_socket and IoHandle::from_fd
Init ==
  /\ platform \in Platforms
  /\ link = "fresh" /\ peer = "open"
  /\ inbuf = 0 /\ sent = 0 /\ room = Room /\ taken = 0
  /\ edges = InitialEdges
  /\ ops = << >> /\ packets = << >> /\ open = TRUE
  /\ pc = [d \in Dirs |-> "idle"] /\ held = [d \in Dirs |-> 0]
  /\ op = [d \in Dirs |-> 0] /\ ready = {} /\ cancelled = {}
  /\ told = [d \in Dirs |-> 0] /\ outcome = [d \in Dirs |-> "none"]
  /\ calls = 0
  /\ misled = FALSE /\ givenUp = FALSE

------------------------------------------------------------------------------
(* The kernel and the peer. *)

\* A call in this direction would not have to wait.
Ready(d) ==
  IF link # "up" THEN d = "write" /\ link = "refused"
  ELSE IF d = "read" THEN inbuf > 0 \/ peer # "open"
  ELSE room > 0 \/ peer = "rst"

Fails(d) == link = "refused" \/ peer = "rst"
Amount(d) == Least(Chunk, IF d = "read" THEN inbuf ELSE room)

\* Bytes move between the socket's buffers and the caller's.
Transfer(d) ==
  /\ inbuf' = IF d = "read" THEN inbuf - Amount(d) ELSE inbuf
  /\ room'  = IF d = "write" THEN room - Amount(d) ELSE room
  /\ taken' = IF d = "write" THEN taken + Amount(d) ELSE taken
  /\ UNCHANGED <<link, peer, sent>>

Edge(ds) == edges' = IF Windows THEN {} ELSE edges \cup ds

PeerSends ==
  /\ link = "up" /\ peer = "open" /\ sent < MaxIn
  /\ sent' = sent + 1 /\ inbuf' = inbuf + 1
  /\ Edge({"read"})
  /\ UNCHANGED <<platform, link, peer, room, taken, ops, packets, open, taskVars, misled, givenUp>>

PeerTakes ==
  /\ link = "up" /\ peer # "rst" /\ room < Room
  /\ room' = room + 1
  /\ Edge({"write"})
  /\ UNCHANGED <<platform, link, peer, inbuf, sent, taken, ops, packets, open,
                 taskVars, misled, givenUp>>

\* The peer closes its side, or resets the connection; a reset drops what was unread.
PeerLeaves ==
  /\ link = "up" /\ peer # "rst"
  /\ \/ peer = "open" /\ peer' = "fin" /\ UNCHANGED <<inbuf, sent>>
     \/ peer' = "rst" /\ inbuf' = 0 /\ sent' = sent - inbuf
  /\ Edge(Dirs)
  /\ UNCHANGED <<platform, link, room, taken, ops, packets, open, taskVars, misled, givenUp>>

\* The attempt to connect ends, and with it the pending ConnectEx.
LinkSettles ==
  /\ link = "trying" /\ open
  /\ \E end \in {"up", "refused"} :
       /\ link' = end
       /\ IF ~Windows THEN UNCHANGED <<ops, packets>>
          ELSE /\ ops[op["write"]].st = "pending"
               /\ ops' = [ops EXCEPT ![op["write"]].st = IF end = "up" THEN "done" ELSE "failed"]
               /\ packets' = Append(packets, op["write"])
  /\ Edge({"write"})
  /\ UNCHANGED <<platform, peer, inbuf, sent, room, taken, open, taskVars, misled, givenUp>>

\* A pending read or write is carried out, into memory that may be freed.
Completes(i) ==
  /\ ops[i].st = "pending" /\ link = "up" /\ Ready(ops[i].dir)
  /\ ops' = [ops EXCEPT ![i].st = IF Fails(ops[i].dir) THEN "failed" ELSE "done",
                        ![i].n = IF Fails(ops[i].dir) THEN 0 ELSE Amount(ops[i].dir)]
  /\ IF Fails(ops[i].dir) THEN UNCHANGED kernelVars ELSE Transfer(ops[i].dir)
  /\ packets' = Append(packets, i)
  /\ UNCHANGED <<platform, edges, open, taskVars, misled, givenUp>>

\* A cancellation that was accepted takes effect later.
Aborts(i) ==
  /\ ops[i].st = "pending" /\ ops[i].aborting
  /\ ops' = [ops EXCEPT ![i].st = "aborted"]
  /\ packets' = Append(packets, i)
  /\ UNCHANGED <<platform, kernelVars, edges, open, taskVars, misled, givenUp>>

------------------------------------------------------------------------------
(* Tasks: how a call ends, and a call that is answered at once. *)

Connecting == outcome["write"] = "none"
InWait(d) == pc[d] \in {"waiting", "settling", "givingUp"}

\* The call returns or raises, and on Windows its defer frees the IoResult
\* (moonbitlang_async_free_io_result).  Tcp::connect closes its socket when it fails.
Finish(d, how, n) ==
  /\ pc' = [pc EXCEPT ![d] = "idle"]
  /\ outcome' = [outcome EXCEPT ![d] = how]
  /\ told' = [told EXCEPT ![d] = @ + n]
  /\ ready' = ready \ {d}
  /\ op' = [op EXCEPT ![d] = 0]
  /\ held' = [held EXCEPT ![d] = 0]
  /\ cancelled' = cancelled \ {d}
  /\ open' = (open /\ ~(Connecting /\ how # "ok"))
  /\ UNCHANGED calls

FreeFrom(mem, d) == IF op[d] = 0 THEN mem ELSE [mem EXCEPT ![op[d]].freed = TRUE]

Begin(d, where) ==
  /\ pc' = [pc EXCEPT ![d] = where]
  /\ calls' = calls + 1
  /\ UNCHANGED <<cancelled, told, outcome>>

CanCall(d) == pc[d] = "idle" /\ calls < MaxCalls /\ open /\ ~Connecting

\* moonbitlang_async_read and moonbitlang_async_write answer at once; the result is
\* kept over a pause, during which other tasks run.
CallAnswered(d) ==
  /\ CanCall(d) /\ Ready(d)
  /\ \/ /\ Fails(d)
        /\ outcome' = [outcome EXCEPT ![d] = "error"]
        /\ calls' = calls + 1
        /\ UNCHANGED <<kernelVars, pc, held, op, ready, cancelled, told>>
     \/ /\ ~Fails(d)
        /\ Transfer(d) /\ Begin(d, "paused")
        /\ held' = [held EXCEPT ![d] = Amount(d)]
        /\ ready' = ready \cup {d}
        /\ UNCHANGED op
  /\ UNCHANGED <<platform, busVars, open, misled, givenUp>>

\* Mutation: the pause after an answered call can be broken off.
ShieldedInKernel(d) == pc[d] \in {"settling", "givingUp"}

\* protect_from_cancel
Shielded(d) == pc[d] \in {"paused", "settling", "givingUp"}

\* Coroutine::cancel
Cancel(d) ==
  /\ pc[d] # "idle" /\ d \notin cancelled
  /\ cancelled' = cancelled \cup {d}
  /\ ready' = IF Shielded(d) THEN ready ELSE ready \cup {d}
  /\ UNCHANGED <<platform, kernelVars, busVars, open, pc, held, op, told, outcome,
                 calls, misled, givenUp>>

BrokenOff(d) == d \in cancelled /\ ~Shielded(d)

ResumePaused(d) ==
  /\ pc[d] = "paused"
  /\ IF BrokenOff(d) THEN Finish(d, "cancelled", 0) ELSE Finish(d, "ok", held[d])
  /\ UNCHANGED <<kernelVars, ops, packets, givenUp>>

\* IoHandle::close by another task; the bus forgets the handle.
Close ==
  /\ open /\ ~Connecting
  /\ open' = FALSE
  /\ UNCHANGED <<platform, kernelVars, busVars, taskVars, misled, givenUp>>

------------------------------------------------------------------------------
(* Linux and macOS. *)

\* connect: done at once, under way, or refused at once
ConnectUnix ==
  /\ ~Windows /\ link = "fresh"
  /\ \/ link' = "up" /\ Finish("write", "ok", 0)
     \/ link' = "refused" /\ Finish("write", "error", 0)
     \/ /\ link' = "trying" /\ pc' = [pc EXCEPT !["write"] = "waiting"]
        /\ UNCHANGED <<open, held, op, ready, cancelled, told, outcome, calls>>
  /\ UNCHANGED <<platform, peer, inbuf, sent, room, taken, busVars, misled, givenUp>>

\* EAGAIN: wait_read, wait_write
CallUnix(d) ==
  /\ ~Windows /\ CanCall(d) /\ ~Ready(d)
  /\ Begin(d, "waiting")
  /\ UNCHANGED <<platform, kernelVars, busVars, open, held, op, ready, misled, givenUp>>

\* A bus that is asked looks at the socket again, whatever change it remembered;
\* epoll remembers that there was one, kqueue in which direction.
HungUp == peer # "open" \/ link = "refused"

\* With epoll a hang-up counts as both.
EpollEvents == IF HungUp THEN Dirs ELSE {d \in Dirs : Ready(d)}

\* Mutation: kqueue reports every event as both.
KqueueEventsOfBoth == IF \E d \in edges : Ready(d) THEN Dirs ELSE {}

KqueueEvents == {d \in edges : Ready(d)}

\* moonbitlang_async_event_get_events
Events == IF platform = "linux" THEN EpollEvents ELSE KqueueEvents

\* Mutation: a handle that was woken to read is not looked at again.
WokenOnce(ds) == {d \in ds : InWait(d) /\ (d = "write" => "read" \notin ds)}

Woken(ds) == {d \in ds : InWait(d)}

\* moonbitlang_async_event_bus_wait and UnixEventLoopExtra::poll
PollUnix ==
  /\ ~Windows /\ open /\ link # "fresh" /\ edges # {}
  /\ ready' = ready \cup Woken(Events)
  /\ edges' = {}
  /\ UNCHANGED <<platform, kernelVars, ops, packets, open, pc, held, op, cancelled,
                 told, outcome, calls, misled, givenUp>>

\* moonbitlang_async_getsockerr
SocketError == link = "refused"

\* The task goes on after its wait and makes the call again, once.  A handle that
\* was closed meanwhile has no descriptor any more.
ResumeUnix(d) ==
  /\ ~Windows /\ pc[d] = "waiting"
  /\ \/ d \in cancelled /\ Finish(d, "cancelled", 0) /\ UNCHANGED kernelVars
     \/ /\ d \notin cancelled /\ Connecting
        /\ Finish(d, IF SocketError THEN "error" ELSE "ok", 0) /\ UNCHANGED kernelVars
     \/ /\ d \notin cancelled /\ ~Connecting /\ (~open \/ (Ready(d) /\ Fails(d)))
        /\ Finish(d, "error", 0) /\ UNCHANGED kernelVars
     \/ /\ d \notin cancelled /\ ~Connecting /\ open /\ Ready(d) /\ ~Fails(d)
        /\ Transfer(d) /\ Finish(d, "ok", Amount(d))
     \/ /\ d \notin cancelled /\ ~Connecting /\ open /\ ~Ready(d)
        /\ Finish(d, "again", 0) /\ UNCHANGED kernelVars
  /\ UNCHANGED <<ops, packets, givenUp>>

------------------------------------------------------------------------------
(* Windows. *)

\* make_io_result, and the call that answers ERROR_IO_PENDING
Pend(d) ==
  /\ ops' = Append(ops, [dir |-> d, st |-> "pending", n |-> 0,
                         aborting |-> FALSE, freed |-> FALSE])
  /\ op' = [op EXCEPT ![d] = Len(ops) + 1]

\* moonbitlang_async_setup_connected_socket works on a connected socket only.
SetupConnected == link' = "up"

\* moonbitlang_async_connect: ConnectEx connects at once or later; it is not found,
\* and -1 is taken for a connection; the socket cannot be bound, or the call fails.
ConnectWindows ==
  /\ Windows /\ link = "fresh" /\ Connecting
  /\ \/ /\ link' \in {"up", "fresh"}
        /\ Finish("write", IF SetupConnected THEN "ok" ELSE "error", 0)
        /\ UNCHANGED ops
     \/ link' = "refused" /\ Finish("write", "error", 0) /\ UNCHANGED ops
     \/ /\ link' = "trying" /\ Pend("write") /\ pc' = [pc EXCEPT !["write"] = "waiting"]
        /\ UNCHANGED <<open, held, ready, cancelled, told, outcome, calls>>
  /\ UNCHANGED <<platform, peer, inbuf, sent, room, taken, edges, packets, misled, givenUp>>

CallWindows(d) ==
  /\ Windows /\ CanCall(d) /\ ~Ready(d)
  /\ Pend(d) /\ Begin(d, "waiting")
  /\ UNCHANGED <<platform, kernelVars, edges, packets, open, held, ready, misled, givenUp>>

\* WindowsEventLoopExtra::poll: each packet wakes the task its IoResult says waits.
\* The IoResult of a packet may be freed by now; what is read then can be anything.
\* Packets of a handle that was closed are dropped.
PollWindows ==
  /\ Windows /\ packets # << >>
  /\ LET taken_ == {packets[i] : i \in 1..Len(packets)}
         stale  == {i \in taken_ : ops[i].freed /\ open}
         due    == {ops[i].dir : i \in {i \in taken_ : ~ops[i].freed /\ open}} IN
       /\ \E stray \in SUBSET Dirs :
            /\ stale = {} => stray = {}
            /\ ready' = ready \cup Woken(due \cup stray)
       /\ misled' = (misled \/ stale # {})
  /\ packets' = << >>
  /\ UNCHANGED <<platform, kernelVars, edges, ops, open, pc, held, op, cancelled,
                 told, outcome, calls, givenUp>>

\* moonbitlang_async_io_result_get_status, and the defer that frees the IoResult
Status(d) ==
  LET o == ops[op[d]]
      how == CASE o.st = "done" -> "ok" [] o.st = "failed" -> "error"
               [] o.st = "aborted" -> "cancelled" [] OTHER -> "incomplete" IN
  /\ Finish(d, how, o.n)
  /\ ops' = FreeFrom(ops, d)
  /\ UNCHANGED <<packets, givenUp>>

\* wait_for_cancellation, RetryLater aside: the task goes on waiting, not to be
\* cancelled any more.
WaitOn(d, where) ==
  /\ pc' = [pc EXCEPT ![d] = where]
  /\ ready' = ready \ {d}
  /\ UNCHANGED <<packets, open, held, op, cancelled, told, outcome, calls>>

\* Mutation: no cancellation is waited for.
CancelNeedsNoWait(d) ==
  LET i == op[d] IN
  \/ open /\ ops[i].st # "pending" /\ Status(d)
  \/ /\ open /\ ops[i].st = "pending"
     /\ Finish(d, "cancelled", 0)
     /\ ops' = FreeFrom([ops EXCEPT ![i].aborting = TRUE], d)
     /\ UNCHANGED <<packets, givenUp>>

\* moonbitlang_async_cancel_io_result: the operation has completed; it is aborted
\* at once; it will be; or CancelIoEx fails (for sure when the handle is closed).
CancelIoResult(d) ==
  LET i == op[d] IN
  \/ open /\ ops[i].st # "pending" /\ Status(d)
  \/ /\ open /\ ops[i].st = "pending"
     /\ Finish(d, "cancelled", 0)
     /\ ops' = FreeFrom([ops EXCEPT ![i].st = "aborted"], d)
     /\ packets' = Append(packets, i)
     /\ UNCHANGED givenUp
  \/ /\ open /\ ops[i].st = "pending"
     /\ ops' = [ops EXCEPT ![i].aborting = TRUE]
     /\ WaitOn(d, "settling") /\ UNCHANGED givenUp
  \/ /\ ~open \/ ops[i].st = "pending"
     /\ givenUp' = TRUE /\ WaitOn(d, "givingUp") /\ UNCHANGED ops

\* wait_read_result, wait_write_result and what follows them
ResumeWindows(d) ==
  /\ Windows
  /\ \/ pc[d] = "waiting" /\ d \in cancelled /\ CancelIoResult(d)
     \/ pc[d] = "waiting" /\ d \notin cancelled /\ Status(d)
     \/ pc[d] = "settling" /\ Status(d)
     \/ /\ pc[d] = "givingUp" /\ Finish(d, "error", 0)
        /\ ops' = FreeFrom(ops, d) /\ UNCHANGED <<packets, givenUp>>
  /\ UNCHANGED kernelVars

------------------------------------------------------------------------------
Resume(d) ==
  /\ d \in ready
  /\ ResumePaused(d) \/ ResumeUnix(d) \/ ResumeWindows(d)
  /\ UNCHANGED <<platform, edges, misled>>

Kernel == PeerSends \/ PeerTakes \/ PeerLeaves \/ LinkSettles
            \/ \E i \in 1..Len(ops) : Completes(i) \/ Aborts(i)

Next ==
  \/ Kernel \/ ConnectUnix \/ ConnectWindows \/ PollUnix \/ PollWindows \/ Close
  \/ \E d \in Dirs : CallAnswered(d) \/ CallUnix(d) \/ CallWindows(d) \/ Cancel(d) \/ Resume(d)

\* The loop polls and runs what is ready; the kernel carries out what it can.
Fairness ==
  /\ WF_vars(PollUnix) /\ WF_vars(PollWindows)
  /\ \A d \in Dirs : WF_vars(Resume(d))
  /\ WF_vars(\E i \in 1..Len(ops) : Completes(i))
  /\ WF_vars(\E i \in 1..Len(ops) : Aborts(i))

Spec == Init /\ [][Next]_vars /\ Fairness

------------------------------------------------------------------------------
\* What a call has moved and its caller has not been told of yet.
InFlight(d) ==
  IF pc[d] = "paused" THEN held[d]
  ELSE IF op[d] # 0 /\ ops[op[d]].st = "done" THEN ops[op[d]].n ELSE 0

\* However calls are cancelled, the readers are told of every byte that left the
\* receive buffer and the writers of every byte the kernel took, no more and no
\* less: a cancellation that comes after the bytes have moved is swallowed.  The
\* exceptions are a refused cancellation, whose error replaces the result, and a
\* loop misled by a packet of freed memory.
NothingLost ==
  ~misled /\ ~givenUp =>
    /\ told["read"] + InFlight("read") + inbuf = sent
    /\ told["write"] + InFlight("write") = taken

\* A wait is over only when the call can be answered: no call fails with EAGAIN or
\* "incomplete", except a writer that epoll wakes for the peer's hang-up, and after a
\* packet of freed memory.  And a connect that succeeds has a connection, also where
\* -1 of moonbitlang_async_connect is taken for success.
WakesAreHonest ==
  /\ \A d \in Dirs :
       /\ outcome[d] = "again" => platform = "linux" /\ d = "write" /\ peer # "open"
       /\ outcome[d] = "incomplete" => misled
  /\ ~Connecting /\ open => link = "up"

\* The kernel never holds memory that was freed, unless the loop was misled.
BuffersOutliveCalls ==
  \A i \in 1..Len(ops) : ops[i].st = "pending" /\ ops[i].freed => misled

\* A call ends: no change of the socket is missed, so a task that waits for
\* something that has come goes on; and a cancelled call ends whatever the peer
\* does.  Both fail when the handle is closed under the call on Windows (its packets
\* are dropped; elsewhere a cancelled call still ends), and a cancellation can be
\* refused by the system.
CallsEnd ==
  \A d \in Dirs :
    /\ (InWait(d) /\ (Ready(d) \/ (op[d] # 0 /\ ops[op[d]].st # "pending")))
         ~> (pc[d] = "idle" \/ ~open \/ misled)
    /\ (d \in cancelled /\ pc[d] # "idle")
         ~> (pc[d] = "idle" \/ givenUp \/ (Windows /\ ~open))
==============================================================================
