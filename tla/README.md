# A TLA+ development of the S7 client

The repository is an asynchronous client for Siemens S7 PLCs, written in MoonBit, with a
simulator of a PLC in Python. It carries the asynchronous runtime it runs on
(`.mooncakes/moonbitlang/async`, MoonBit and C), whose threads, sockets, processes and files
decide what the client sees. This directory specifies both in TLA+, checks the specifications
with TLC on small instances, and proves the properties that matter most with TLAPS.

Paths below are relative to the repository (those of the runtime to
`.mooncakes/moonbitlang/async/src`); line numbers are those of this commit.

## 1. The system

| Component | State | Operations | Talks to |
|---|---|---|---|
| **Transport** `transport/tcp.mbt` (`TcpConnection`) | a socket; `pdu_size`; nothing else: no buffer, no list of pending requests | `send`, `send_raw`, `receive` (each write and each read under `with_timeout_opt`), `write_all`, `read_tpkt`, `disconnect` | the PLC over TCP; called by the client |
| **Connection life** `transport/tcp.mbt`, `client/client.mbt` | immutable values: `connect` returns a new client | `connect` (TCP, COTP CR/CC, Setup Communication), `disconnect`, `is_connected` | the PLC's connection handler |
| **Chunked reads and writes** `client/client.mbt` | loop variables `off`, `remaining`, `result` | `chunked_read`, `chunked_write`, `exec_write`, and every `ag_*`, `eb_*`, `ab_*`, `mb_*` on top of them | transport; memory of the PLC |
| **Control, status, SZL** `client/client.mbt` | none between calls | `plc_start`, `plc_stop`, `plc_restart`, `plc_status`, `cpu_info`, `cp_info` | transport; operating mode and lists of the PLC |
| **Wire protocol** `protocol/s7comm.mbt` | none | builders and parsers of PDUs | called by all of the above |
| **Typed fields and conversions** `protocol/field.mbt` | none | bits, integers, floats, strings to and from bytes | called by the typed operations |
| **Plain data** `protocol/items.mbt`, `types.mbt`, `constant.mbt`, `core/error.mbt` | none | constructors | everywhere |
| **Simulator** `tools/s7_sim.py` | data blocks; one thread and one state (`COTP`, `SETUP`, `READY`) per connection | `handle_client`, `handle_s7_request` | the client |
| **Runtime: thread pool and event loop** `internal/event_loop/thread_pool.c`, `thread_pool.mbt`, `event_loop.mbt`, `internal/coroutine` | job queue, `idle_workers`, `running_workers`; per worker its job and what wakes it; the pipe of completions | submit a job, perform it, report it, take it up, cancel it, shut down | one thread per worker; every blocking operation |
| **Runtime: event bus and socket I/O** `epoll.c`, `kqueue.c`, `iocp.c`, `io_unix.c`, `io_windows.c` and the `.mbt` beside them | per handle the tasks that wait; on Windows an `IoResult` in the kernel per call | `connect`, `read`, `write`, cancellation, `close`, `poll` | the kernel's socket; transport |
| **Runtime: child processes** `process/*`, `process_unix.mbt`, `process_windows.mbt`, `process.c` | pid or handle, the job or the bus entry that waits for it, a task group | `@process.run`, `graceful_cancel`, `hard_cancel` | the child; worker threads |
| **Runtime: jobs on names** `thread_pool.c`, `fs/fs.mbt`, `fs/dir.mbt` | none: each job is a sequence of system calls | open, kind, times, access, realpath, remove, rmdir, rename, symlink, mkdir | the file system, other programs |
| **Runtime: open files and locks** `internal/event_loop/io.mbt`, `fs/file.mbt`, `thread_pool.c` | `read_offset`, `write_offset`, the descriptor's position, the lock | `read`, `write`, `read_at`, `write_at`, `read_all`, `lock`, `try_lock`, `unlock` | the file, other programs |
| **Runtime, the rest**: UDP and addresses, TLS, listing and watching of directories, semaphores, queues, HTTP | their own | see section 5 | not used by the client |
| Others: `transport/transport.mbt`, `cotp.mbt`, `tcp_stub.mbt`, `utils/`, `test_plc/` | none | a trait, a record, stubs, formatting, a demo | |

Six facts shape what can go wrong:

1. *Responses carry no usable reference.* `pdu_ref` is the same for every request of a
   connection, and no parser compares it. A response belongs to whoever reads next.
2. *A timeout does not close the connection.* What was written stays written, be it a part of a
   request (`tcp.mbt:258`), what was consumed stays consumed (`tcp.mbt:282`), and the next call
   goes on from there.
3. *Nothing serialises.* Calls, late requests, other clients of the PLC and `disconnect` from
   another task interleave.
4. *Any wait can be cancelled.* A timeout of the client is a cancellation in the runtime, and
   what was cancelled may have happened: in a worker thread, in the kernel, in the child.
5. *Threads meet the loop in few places*: a worker's job, its wake-up, the pipe. Each must be
   right for every order of the two sides.
6. *A job is several system calls*, and other programs act between any two of them.

What makes each component correct:

- Transport: a read returns exactly one whole frame, the next one, for every segmentation;
  every exchange returns.
- Connection life: success means that the PLC answered the whole handshake and that nothing of it
  is left; no socket is lost; every `connect` returns; the PLC's session is released.
- Chunked operations: a read returns bytes the addresses really held; a failed write leaves a
  prefix; writes land in order; every call returns.
- Conversions: a number means the same on both sides, a text is read back as far as it fits,
  a variable that is written back keeps its bits, nothing beside a text is touched.
- Control: results say what the PLC did; an old command does not act after newer ones.
- Thread pool: a job is performed once, by the worker it was given to; a task is told what its
  job did; memory and pipe outlive their users; no wake-up is lost.
- Socket I/O: no byte is lost or told twice however calls are cancelled; a task is woken when
  there is something; the kernel never holds freed memory.
- Child processes: the code is the child's; the child does not outlive `run`; nobody else is
  signalled; a cancelled `run` ends.
- Jobs on names: all or nothing; nothing disappears that nobody was asked to remove.
- Open files: two streams and positional calls on one descriptor do not disturb each other; a
  program knows whether it holds a lock.

The hazards of the code, each at its line and with the properties that would catch it, are
listed in `PROJECT.json`.

## 2. The modules

```
 the client                                              the runtime under it

 S7Connect            S7Client        S7Control          AsyncPool     threads, jobs, the loop
 (a connection's life)     \            /                AsyncIo       one socket, three buses
                            S7Channel                    AsyncProcess  one child process
                                | implemented by         AsyncFs = AsyncPaths + AsyncFile
                            S7Transport                     jobs on names; one open file, its lock
                                |
                             S7Wire

 S7Fields = S7Float + S7String      typed fields
```

`S7Channel` is the abstract specification of a connection; `S7Transport` refines it, and
`S7Client` and `S7Control` are composed with it by `INSTANCE`. The modules of the runtime use
each other's results, named in their headers, instead of a composition: that a job whose task
is cancelled does end is a property of AsyncPool (`TasksReturn`) and an assumption of
AsyncProcess; that an exchange nobody answers ends is a property of S7Transport
(`EveryCallReturns`) and the fairness of S7Client. (The first is used where it holds: the wait job
of AsyncProcess is one that a worker has begun. A wait job that is cancelled while it is queued
returns at once, as section 3 says of every job; then `run` can return before its child ended,
which AsyncProcess does not model.)

### The client

**S7Wire**: the 16-bit length field, the TPKT header, the chunk sizes and the lengths of the
frames that carry them.

**S7Channel**: the abstract connection. At most one exchange at a time; numbered requests
queue at the PLC, numbered responses queue at the client; the oldest response is taken,
whichever request it answers; every exchange may fail before or after its request or its
response got through; a read interrupted inside a frame garbles the rest of the stream. A write that
was cut short leaves a *torn* request in the PLC's queue (`whole = FALSE`): the PLC answers it with the
help of the bytes behind it (`Answer`), or makes nothing of it and drops it with the k - 1 requests behind
it (`Overlook`). The number of an exchange exists in the model only: the code cannot see it.

**S7Transport**: `TcpConnection` after `connect`. The stream is the concatenation of the
frames sent (`sent`), and `pos` is the next byte the client consumes. One action per step of
the code: `StartExchange`, `WriteDone`, `WriteFails`, `WriteInterrupted` (`write_all`, which loops over
`write_once`: an error, a timer or a cancellation finds nothing, a part or all of the request
sent, `DeliverSome`), `ReadByte`, `BadTpkt`,
`BadLength`, `HeaderDone`, `BodyDone`, `ReadFails` (`read_tpkt`), `Timeout` and `Cancel` (the
two `with_timeout_opt`), `Disconnect`. Because `ReadByte` consumes one byte, every
segmentation and every moment a timer can fire are behaviours. `send` is `send_raw` followed
by `receive`, so one exchange stands for both. The PLC's side is the simulator's, which takes what
one `recv` returns for one request: k requests received together get one answer (`PlcAnswers`), and a
torn request is read with what lies behind it, or dropped (`PlcOverlooks`).

**S7Client**: `chunked_read` and `chunked_write`, instantiating `S7Channel`; one data block.
A byte is the *mark* of who wrote it, a call or another client, so that a lost, torn, stale or
reordered byte can be recognised. The PLC is `handle_s7_request` of the simulator (a read is
cut at the end of the block, the bytes of a write beyond it are dropped, and both are
acknowledged), plus the refusals of a real PLC. A torn request is carried out as far as it goes, in one of
the ways that its bytes and those behind it allow: a torn write stores a prefix of its data, or, where
`MixedAreas` says so, bytes of the next request in place of data.

**S7Control**: the other operations, on the same channel. A response is what the parsers find
at their fixed offsets, so that a response taken by the wrong operation is judged as the code
judges it. The PLC has an operating mode and list fragments. The simulator knows status and
list requests only; what a control request does is modelled from the codes the client expects
and marked external. A torn request has no data that could be mixed: it is taken for the request it began
as, refused, or dropped.

**S7Connect**: `S7Client::connect` down to `negotiate`, and `disconnect`, for several sockets.
Client values are immutable, so a client is its socket, and `clients` is the set the caller
ever received. The TCP connect has a moment of its own between `connect_to_host` having the socket
(`TcpConnected`, step `tcp_done`) and `connect` being resumed with it (`TcpHandedOver`): a timer or a
cancellation that comes then drops the value and leaves the socket open (`TcpOutrun`), while one that
comes before closes what was opened (`TcpGivesUp`). `CancelConnect` is a cancellation raised through
`connect`. The PLC may agree to the Setup request, refuse it with an error class or answer something
else (`PlcSetsUp`, `PlcRefusesSetup`); `SetupOk` is the check of `parse_setup_resp`, which does not look
at the error class.

**S7Float**: one REAL or LREAL of the PLC and one Double of the client. Stored numbers are
records of sign, biased exponent and mantissa; Doubles are a sign, an integer mantissa and an
exponent; the widths are constants, so that TLC can take every number of a small format and the
proofs speak of all of them. Powers of two are a recursive function (`TwoTo`) for the proofs' sake. The
two loops of `ilog2_floor` are the actions `Halve` and `Twice`. `Packed` keeps what a shift of
an exponent that does not fit does to the sign, `SignedLow` what a 32-bit Int does to the low
word. `Meaning` is IEEE 754, independent of the code.

**S7String**: `ag_write_string` and `ag_read_string` with the chunks of the client, any of
which may fail, against a STRING that the program of the PLC assigns meanwhile. A character is
its UTF-8 encoding and a byte knows its character and its place in it, so that a cut, mixed or
foreign character can be recognised; `decode_utf8` decides by the kind of the leading byte, as
the code does. `Fitting` is the reference: the longest prefix of a text that fits. The caller is
assumed to make a new connection after a failed call, and the read to lie within the block
(late responses and short reads are the subject of S7Client).

**S7Fields** puts the two side by side: a behaviour is about one field, of either type.

### The runtime

**AsyncPool**: `thread_pool.c` and the part of `event_loop.mbt` that uses it. A job names its
task too. `Submit`, `Cancel`, `Resume` and `RetryTimer` are the tasks (`perform_job_in_worker`,
`wait_for_job`, `cancel_job_in_worker`); `Begin`, `CallReturns`, `SignalArrives`, `CallAborted`,
`SetWaiting`, `Notify` and `Unpark` the steps of `worker_loop` between which the main thread can act;
`Fetch`, `Handle` and `FetchFails` the reads of the pipe; `Shutdown`, `TellToStop`, `Join` and `Destroy`
the end. `method` chooses among the three ways to wake a worker (an event on Windows, a pending signal
with `sigwait`, a condition variable with the `waiting` flag). The
signal thread's entry in the pipe (`SigEntry`) and the three kinds of cancellation are there.

**AsyncIo**: one socket with a reader and a writer on Linux, macOS and Windows. The kernel is
`PeerSends`, `PeerTakes`, `PeerLeaves`, `LinkSettles`, and on Windows `Completes` and `Aborts` of a
pending operation. The tasks are `ConnectUnix`/`ConnectWindows`, `CallUnix`/`CallWindows`,
`CallAnswered` (at once, or behind a `pause`), `Cancel`, `Close` and `Resume`; the loop is `PollUnix`
and `PollWindows`. Bytes are counted, so that every byte the kernel moved can be compared with
what callers were told. What a bus reports, and that it reports it once per change, is
modelled from the code of `epoll.c`, `kqueue.c` and `iocp.c` and the flags it asks for.

**AsyncProcess**: one call of `@process.run`: `SpawnFails`, `Create`, `Created` (the spawn job,
with `OpenPidfd` and `Assign`), `WaitJobEnds` and `WaitJobInterrupted` (the job that waits), `Poll`, the child
(`ChildEnds`, `ChildDies`), `Cancel`, and the steps of the three tasks, which run one at a time in
the order of `run_later`: the caller (`RunBegins`, `RunSpawned`, `RunStopped`), the wait behind the
shield (`BodyBegins`, `WaitGoesOn`) and the cancellation handler (`HandlerBegins`, `HandlerGoesOn`,
`HandlerEnds`). `how` is the system: a pidfd, waitpid in a worker, kqueue, a handle.

**AsyncPaths**: ten kinds of job as sequences of system calls, two jobs at a time, on the names `a`,
`b` and one inside each. The calls are those of a small file system (kinds, links, exclusive
handles of Windows); any of them may fail; another program (`Foreign`) changes the
names between them. The fallbacks are there: `MoveFileExW` behind `SetFileInformationByHandle`, the parent of a
recursive `mkdir`, the cleaning up after a junction.

**AsyncFile**: one descriptor with its position, the two streams with their offsets, `read_all`
with its stages (the size, the whole, the rest, the probe for more), positional calls, and a task that locks. A
call is three steps (called, performed by a worker, taken up); another program appends, cuts
and locks. `windows` and `append` change which position a call uses and moves. A lock job waits in the
queue of the pool or is with a worker (`queued`, `blocked`); cancelled in the queue, it is abandoned, and `lock`
returns (`LockAbandoned`). A worker performs it all the same, from memory that was freed (`StrayLocks`):
it takes any lock that can be had, or none.

**AsyncFs** puts the two side by side: a behaviour is about one of them.

**S7ChannelProofs, S7TransportProofs, S7ClientProofs, S7ControlProofs, S7LinkProofs (S7Connect and S7Fields,
with S7String and S7Float), AsyncPoolProofs, AsyncIoProofs, AsyncJobProofs (AsyncFile, AsyncPaths and
AsyncProcess)**: theorems and proofs. To be extended together, S7Channel, S7Fields, AsyncPaths, AsyncFs and AsyncProcess
have names of their own (`ChanInit`, `PathsNext`...). `MC*` modules and `.cfg` files: instances for TLC.

Operators that begin with a comment "Mutation:" are not part of the model. Each is a plausible
slip in the definition that follows it; putting it in place of that definition makes TLC
refute a property, so the property depends on what the code does there.

## 3. What the runs check

| Run | Bounds | Shows |
|---|---|---|
| `transport` | 3 exchanges; two real frames of 22 and 26 bytes | `WholeFrames`: unless a read was interrupted inside a frame, reads start at frames, headers are never refused, and `Ok` spans one frame. `StreamStaleness`: a response is never early, and late by the failed exchanges at most. `StreamInStep`: an exchange that got its own response leaves no older request, whole or torn, and no older response behind. `ImplementsChannel`: every behaviour is one of `S7Channel`. `EveryCallReturns`. |
| `client` | 3 calls, PDU sizes 26 and 37, a block of 4 bytes, one foreign write, rubbish of torn requests at one address | `ReadIsFaithful`, `WriteIsPrefix`, `WritesInOrder`, `StaleOnlyAfterFailure`, `EveryCallReturns` |
| `control` | 3 calls of 5 operations, 3 fragment lengths, one turn of the mode switch | `StatusWasTrue`, `ControlTookEffect`, `NoLateControl`, `InfoIsWhole` |
| `connect` | 2 sockets, PDU sizes 240 and 480, agreements and refusals of 21, 27 and 28 bytes | `NoSocketLost`: an open socket is somebody's, apart from the two exceptions below. `OkMeansReady`: the PLC answered the Setup request, nothing of the handshake is left, and the size is that of the answer. `ConnectReturns`, `ClosedIsReleased` |
| `fields` | REAL with 2 + 1, LREAL with 3 + 3 bits of exponent and mantissa (the low word 2), every bit pattern, every normal Double, zero, both infinities; a STRING of 4 bytes in two chunks, 3 calls, 2 assignments, texts with characters of 1 to 4 bytes cut at every place | `NumbersKeepTheirValue`: numbers mean the same on both sides. `WriteBackKeeps`: what is written back unchanged keeps its bits. `ReadBack`: a text that is left alone is read back as far as it fits. `NeighbourUntouched`: nothing behind the string is touched or returned. |
| `async_pool` | 3 jobs (one never returns by itself, one with a cancellation handler of its own, one that cannot be cancelled), 2 workers, 2 entries per read of the pipe | `WorkersServeTheirJobs`: a job is begun once, by the worker that has it. `OutcomeIsTrue`: a task is told what its job did. `UsesAreLive`: no thread uses what is gone. `TasksReturn`: no wake-up is lost, and signals that miss are sent again. |
| `async_io` | 2 bytes to read, a send buffer of 1, calls of 1 byte, 3 calls | `NothingLost`: bytes told and bytes moved agree. `BuffersOutliveCalls`: the kernel holds no freed memory. `WakesAreHonest`: a wait is over only when the call can be answered. `CallsEnd`. |
| `async_process` | exit codes 0 and 3, four systems, both handlers | `CodeIsTrue`, `RunOutlivesChild`, `GraceSparesOthers`, `RunEnds` |
| `async_fs` | names: 2 jobs, 2 steps of another program, 13 file systems, both platforms. A file of at most 4 bytes: a stream of 2, one positional call of 2, 2 steps of another program. Locks: as many calls and cancellations as there may be | `AllOrNothing`: a job does what it was asked, or leaves nothing. `OthersAreSpared`: what disappears, somebody was asked to remove. `StreamsAreTheirOwn`, `ReadAllMeetsEnd`. `LocksAreKnown`: a task knows whether it has the lock, whenever it was cancelled, until a lock was abandoned in the queue. |
| `transport_framing` | as `transport` | a violation, below |
| `connect_timer` | as `connect` | a violation, below |
| `async_lock` | as `async_fs` | a violation, below |

Why the bounds are enough. With three exchanges one can time out, one can take its late
response, and one can be in step again, or two late requests can queue before a third. Frames
of 22 and 26 bytes are the shortest real ones; every offset in them is a place to be
interrupted, and reading on from the middle meets bytes that pass for a header and bytes that
do not. The PDU sizes give chunks of two and three bytes and a write without room, so calls
have one, two and three chunks, ending inside a chunk, on its edge and beyond the block; the
constant `MaxPdu` (960 in the code) is scaled with them so that the refusal of a chunk
happens. One address of rubbish lies inside a read and a write, so that a torn write can spoil either. The small floating-point
formats have what the arithmetic distinguishes: two bits that a REAL rounds away, exponents of
a Double below and above those of a REAL by enough to reach the sign, both halves of a low
word, mantissas whose high word is zero. Subnormal LREALs are left out. Bytes of a garbled
stream are not followed further: a read on it may fail, or return
anything the parsers accept (`Misread`), and the properties about contents exempt a call that
took such bytes (`stale`).

In the pool three jobs on two workers fill the pool, form a queue, reuse a worker for a second
job, and let a completion wait behind a full read of the pipe. In the socket three calls let
an operation follow a cancelled one while another is in flight; with a send buffer of one byte
it fills. One child is all that `run` has. Two jobs and two foreign steps put a change before
and after each call of a job of up to three calls. A file of four bytes can be shorter and longer
than `read_all` was told, twice.

The bounds on counters are `MaxCalls`, `MaxForeign`, `MaxOthers`, `MaxSwitches`, `MaxSockets`,
`MaxAssignments`, `MaxIn` and `MaxLen`, each a guard of an action.

Properties name what they exempt, and each exemption is something the code really does:

- `NothingLost`, `WakesAreHonest`, `BuffersOutliveCalls`, `CallsEnd`: `misled` (the loop looked at the packet
  of an `IoResult` that was freed), `givenUp` (the system refused a cancellation), and a
  writer that epoll wakes for the peer's hang-up.
- `OutcomeIsTrue`, `UsesAreLive`: `abandoned`, a job whose task left while it was queued.
- `TasksReturn`: a loop that has failed (`main = "failed"`).
- `CodeIsTrue`, `GraceSparesOthers`: `how = "waitpid"`. `RunOutlivesChild`: a `run` that
  raised an error of spawning or registering.
- `AllOrNothing`: `MayLeave`, a file that `open` made before `fstat` failed, the parent of a recursive `mkdir`,
  and a junction's directory whose removal was refused. A rename on Windows that follows a
  link counts as done.
- `NoSocketLost`: `orphans`, a handshake that was cancelled, and a TCP connection made just when the
  timer or a cancellation came.
- `OkMeansReady`: a refusal of 22 bytes or more passes for an agreement, so that only an agreement
  finds the PLC ready; and an answer of fewer than 28 bytes announces no size, so that the client works with
  480 whatever the PLC takes.
- `LocksAreKnown`: everything after a lock was cancelled in the queue (`stray`).
- `NumbersKeepTheirValue`, `WriteBackKeeps`: a lost carry (`Carries`), a low word with its top bit set
  (`LowIsPositive`), a negative zero. `ReadBack`: a character of four bytes that is cut after three.

### Where the code and its texts disagree

Three runs end in a violation.

- `transport_framing`: `tcp.mbt:84` says that partial segments "are handled
  correctly (no data loss ...)"; a read timeout inside a frame loses what was read, and the
  next read starts in the middle (`ReadsStartAtFrames`).
- `connect_timer`: `happy_eyeball.mbt:83` says that a connection that succeeded just before
  `connect_to_host` is cancelled has to be closed. When the connect timer fires after
  `connect_to_host` has its socket and before the task group takes it up, the group's result is already `None`
  (`task_group.mbt:242`), `connect` reports a timeout, and the socket stays open and nobody's
  (`TimedOutIsClosed`).
- `async_lock`: `fs/file.mbt:341` says that `lock` blocks until the lock is acquired. One that is cancelled
  while its job is queued finds no worker to wait for (`event_loop.mbt:449`), sees a job without an error and
  returns as if it had the lock (`LockMeansHeld`); the freed job may lock later.

The other disagreements were met while modelling. The models do what the code does, and the
properties exempt it as listed above; they have no run of their own:

- A Setup response of 27 bytes has the PDU size at 25 and 26 (`s7_sim.py:36`), but the client
  requires 28 bytes and works with 480. One that refuses with an error class is accepted
  like a positive one (`s7comm.mbt:424`; `SetupOk`).
- The rest of a request that a timer cut short is missing from the stream (`tcp.mbt:258`), and the PLC
  takes the head of the next request for it: `s7_sim.py` reads one `recv` as one request, a real PLC may store
  header bytes as data (`Answer`, `MixedAreas`).
- A read that follows a timed-out one returns the late response to it (`Accepted`, `AcceptChunk`);
  `is_connected` stays true after `disconnect` (`Disconnect`); a PLC in STOP that reports
  status 4 (`constant.mbt:97`) is reported as unknown (`StatusResult`).
- The low word of an LREAL is a signed Int (`field.mbt:293`): numbers whose low word has the top
  bit read too small and change when written back. Rounding a REAL up to a power of two loses the
  carry (`field.mbt:249`): 0.99999999 is written as 0.5. For an infinity `ilog2_floor` does not end (`Halve`).
  `set_value` of a BoolField makes a whole byte from a value that may be stale
  (`field.mbt:45`). An offset of 2^21 bytes wraps in the 24-bit address (`s7comm.mbt:220`).
- Three bytes of a four-byte character that was cut are read back as a character that was
  never written (`client.mbt:116` promises truncation).
- A job that is cancelled while it is queued is performed nevertheless, after its task has
  freed it (`event_loop.mbt:449`; `HandOver`).
- A read of the completion pipe that just fills the buffer is followed by one that fails with
  EAGAIN, and the loop stops (`event_loop_unix.mbt:72`; `FetchFails`).
- The packet of an operation that completed before it was cancelled stays in the completion port
  and points to freed memory, against the comment in `event_loop.mbt:327`.
- `worker_loop` sets `job->err` to 0 before the call (`thread_pool.c:227`), so the error that
  `init_global_job_object` kept there (2315) is never seen (2117).
- waitpid in a worker reports 0 for a child that a signal killed (`thread_pool.c:2528`). SIGTERM can go to the
  pid of a child that has been reaped, when the handler begins after the child ended
  (`process.mbt:121`). On Windows the result of `OpenProcess` is compared with `INVALID_HANDLE_VALUE`, which
  it never is.
- `write_at` takes a short write for a whole one (`io.mbt:286`). The second call
  of `realpath` on Windows may need a longer buffer than the first said, and leaves it unfilled
  (`thread_pool.c:1985`).

### Fairness

- `S7Transport`: `WF(Timeout)` only. The runtime's event loop runs the timers; nothing is
  assumed of the PLC or the network. `EveryCallReturns` needs both timers.
- `S7Client`: weak fairness of the client's own steps that need nobody else (build, refuse,
  finish) and of the failure that ends an exchange nobody answers. That failure is justified
  by `EveryCallReturns` of the transport: an exchange ends, and if not with a response, with an
  error.
- `S7Connect`: `WF(Timer)`, and weak fairness of the PLC's thread for each connection, which
  `ClosedIsReleased` needs and the operating system provides.
- `AsyncPool`: weak fairness of each thread (`ThreadStep`, and the main thread that stops and joins it), of each
  task that is in `run_later` (`Resume`), of the retry timers, and of the loop's
  reads. A system call in `Stuck` has none. A
  signal to cancel a call takes effect at once or is lost, and the retry sends it again; SIGINT and
  its like (`SignalArrives`) are nobody's duty.
- `AsyncIo`: weak fairness of the loop's polls, of each task that was resumed, and of
  the kernel on Windows, which completes an operation that can be and aborts one that was
  cancelled. Nothing is assumed of the peer.
- `AsyncProcess`: weak fairness of the workers, of the polls and of the tasks' steps; a child that was sent SIGKILL
  dies, a child that ended is reported; and strong fairness of the timers, which other wake-ups can
  overtake (`\A t \in Tasks : SF_vars(...)`). Nothing is assumed of a child that is not killed.
- The other modules (`S7Control`, `S7Channel`, `S7Fields`, `AsyncPaths`, `AsyncFile`, `AsyncFs`) state no
  liveness: their operations are finite sequences of calls, which the pool's `TasksReturn` and the transport's
  `EveryCallReturns` are about.

Deadlock checking is off: a caller may stop calling, and the bounds end every behaviour. That
nobody waits for ever is what the liveness properties say, of each waiter by name.

## 4. What is proved

The theorems hold for every value of the constants, under the assumptions named in the modules
(`FramesAssumption`: frames are well-formed; `ProcessAssumption`: exit codes are naturals, the two signals
differ; `FileAssumption`: lengths are naturals; `LensAssumption`: a STRING of at most 254 bytes, reads within its block;
`WidthsAssumption`: every field of bits has one at least, an exponent has more, and an LREAL has more of both than a REAL;
`AlphabetAssumption`: characters of 1 to 4 bytes; `TextsAssumption`: texts of these, and the PLC assigns what fits; `PathsAssumption`: what has something inside is a directory; `StopCodesAssumption`: a stopped PLC does not send
the status byte of RUN). No invariant below is inductive as it
stands; each was strengthened, the strengthening was checked with TLC, and then it was proved, one
lemma or step per action.

**`S7ChannelProofs`.** `ResponsesAreBoundedlyStale` (`StalenessBounded`) and
`InStepAfterOwnResponse` (`OwnResponseMeansInStep`). `ChanInv` adds: every number in the
queue and among the unread responses belongs to an exchange that was sent (`NotEarly`), the
numbers grow along unread responses and then the queue, torn requests included (`InOrder`), the response taken
is older than all of them (`TakenIsOldest`), and the number of exchanges between the oldest of them and
the present is covered by failures (`NotTooLate`). `ChanTypeCorrect` is the type invariant.

What is proved of the channel is then proved, through instances of this module, of everything that
behaves as one. On the byte stream (`StreamBoundsStaleness`, `StreamInStepAfterOwn`) it follows from
the refinement that S7TransportProofs shows. In the compositions of S7Client and S7Control
(`ClientKeepsToChannel`, `ControlKeepsToChannel` and two theorems each) each step of a client, a PLC or another
program is a step of the channel or leaves it alone (`ChannelStep`): the composition sends only requests, takes
responses only while it waits for one and answers in order, so that the bound holds for every call it makes.

**`S7TransportProofs`.** `TypeCorrect` and `WholeFramesCorrect`. `WholeFrames` speaks of
moments between exchanges and of what was handed out; it becomes inductive with the account of
where the reader is: while a header is read, the bytes received are the first bytes of the
frame the read started at and the position follows them (`InHeader`); a complete header of a
well-formed frame therefore gives that frame's length, so the bytes still needed are exactly
the rest of it (`InBody`); otherwise the position is at the start of a frame (`BetweenFrames`).
Below these lie `PosInStream` (the position is inside the stream or right behind it) and
`HeaderLength` (received and needed bytes add up to four), which the type invariant needs
too. From the same invariant follows `TransportImplementsChannel` (`ImplementsChannel`): each action of the
byte stream is the channel's action one lemma names (`SendStep`, `WrittenStep`, `TakeStep`,
`ReceiveFailsStep`, `AnswerStep`...) or none of them (`StutterStep`). The invariant says which: a read that
ends with offset 0 has taken nothing or exactly the oldest response (`ReceiveFailsStep`), and a header is refused only
on a stream that is already out of step (`RefusedStep`). A write that ends early is the channel's `SendFails`, whatever
part of the request is in the stream, and what the PLC makes of a torn request is its `Answer` or its `Overlook`.

**`S7ClientProofs`.** `ReadsAreFaithful`, `WritesArePrefixes`, `NoFailureNoStale` and
`WritesLandInOrder` from one invariant, `ClientInv`. The numbers of the exchanges grow along unread responses and
queue (`NumbersGrow`), and the numbers of the calls grow from the memory along the queue to the
request (`CallsGrow`): that alone gives `WritesInOrder`. A response with the number of the present
exchange is therefore the last thing the PLC had (`OwnIsLast`), so that what the PLC still has of a
call is one chunk at most (`ChunkAsked`), and that chunk follows the prefix (`ChunkLands`) or carries values
that were seen (`ChunkRead`). A torn request is of a call that is over, and of an earlier call than any request
behind it that it could be mixed with (`TornIsOver`): what a PLC makes of the mixture spoils bytes of calls
before the present one, and its answer comes to a later exchange than its own. `Inside` counts the bytes of a range that are in the data block: short reads
at its end add up (`ReadOn`) whatever the chunks are. `InStep` is for `StaleOnlyAfterFailure`.

**`S7ControlProofs`.** `ControlsTakeEffect`, `NoControlIsLate`, `StatusIsTrue` and `InfosAreWhole` from
`ControlInv`. The control requests on their way are neither confirmed nor carried out, and in the order of
the calls (`ControlsGrow`); what the PLC has of a call is its one request, and nothing once
the call returned a result of its own (`CallAsked`, `OpenCall`); a torn one is of a call that failed; the own response, while unread, would make
the call return what is true (`StatusKnown`, `ControlKnown`); the fragments collected are numbered, and the
PLC stands where the next one continues (`ListKnown`).

**`S7LinkProofs`, connect.** `ConnectMeansReady` (`OkMeansReady`): `ConnectInv` says for each step of the
handshake what is under way on the last socket (`Asked`: the request is with the PLC or its
answer with the client; sockets behind it are untouched), so that the step that returns a client
finds both directions empty, an answer of the PLC to this very Setup request, and the PLC ready if that
answer agreed (`Replied`). `SocketsAreKept` (`NoSocketLost`): the sockets that are lost are the `orphans`,
which only the two named cases fill.

**`S7LinkProofs`, strings.** `TextsComeBack` (`ReadBack`) and `NeighbourStaysUntouched`
(`NeighbourUntouched`) from `StringInv` (`StringInvariant`): the STRING has its shape though it be torn (`WellShaped`),
it holds its text unless it is torn (`Holds`), and while nobody assigns, the chunks of a write are in the block and
those of a read come from it. Below it lies `DecodesWhatFits`: what the recursive decoder makes of the first bytes of
any text. This is an induction over the bytes, from the last whole character back to the first (`DecodesWhole`),
after the bytes of a character that is cut (`DecodesRest`), which is where the false character of two bytes comes from.
The induction itself is `Upward`: the set of the numbers for which a formula holds contains 0 and every successor.
It rests on `Smallest`, the library's theorem that the order of the naturals is well-founded, and needs no operator
as a parameter. In the same way `FlattenUnfolds` and `DecodeUnfolds` show that the recursive functions exist and
what they return.

**`S7LinkProofs`, numbers.** `NumbersAlwaysKeepTheirValue` (`NumbersKeepTheirValue`) and `WriteBackAlwaysKeeps`
(`WriteBackKeeps`) from `FloatInv` (`FloatInvariant`), which adds that the loops of `ilog2_floor` keep the sum of what
they halve or double and what they count (`LogCounts`: it is the exponent of the number, so a loop that ends has
counted it), and that what is read, and what was read before it is written back, comes from the bits of the field
(`ReadRelates`). The rest is arithmetic, for every width and so for those of IEEE 754, which TLC cannot
enumerate. Lemmas on powers of two come first, by the induction `Upward` (`PowersUnfold`, `PowersMultiply`,
`PowersGrow`); `MantissaBits`, `PackedInBits` and `LowWord` say what shifts and masks do. That a written REAL is a
*nearest* number has two halves: the rounding finds one among the numbers of its binade, at most half a step away
(`RoundedIsNearest`), and a number of another binade is at least half a step away
(`OtherBinadesAreFarther`, `NearerThan`).

**`AsyncIoProofs`.** `EveryByteIsTold` (`NothingLost`) and `KernelHoldsLiveMemory`
(`BuffersOutliveCalls`) from `IoInv`: an operation that is not freed belongs to the one call that waits for it,
and only one that was carried out has moved bytes (`Owned`); a packet is of an operation that is over, and
so is that of a task that was woken, unless the loop was misled (`WokenFor`); a call that waits for its
cancellation in vain was refused it (`GaveUp`). `Settled` is about every way an operation ends,
`Finished` about every way a call ends. `WakesAreAlwaysHonest` (`WakesAreHonest`) needs `HonestInv` on top:
a task that was woken to call again still has a socket that answers, because nothing takes away what made
it ready but its own call (`WokenWell`; on Windows the completion says it); and
before the connect is over nobody reads or writes and the peer does nothing (`ConnectFirst`).

**`AsyncPoolProofs`.** `WorkersServeTheirJobsAlways`, `OutcomeIsAlwaysTrue` and `UsesAreAlwaysLive` from
one invariant, `PoolInv` (`PoolInvariant`). A worker is in its loop with the job `running_workers` has for it,
or has reported that job and is parked, or was given one and not woken yet, or is idle (`WorkerOk`); a job is
queued, or with one worker, or its result is there (`JobOk`); it is reported once, in the
pipe or in the batch just read (`QueuesOk`); and a task is in `run_later` before its job's end only if
it was cancelled (`TaskOk`). The difficulty is the time between a worker's report and the
main thread's reading it, when the worker already waits but is not yet idle: the pair of `waiting` and
`token` tells the wake-ups apart. Lemmas on queues (`ElemsAppend`, `DistinctAppend`...) carry the rest.

**`AsyncJobProofs`, child processes.** `CodeStaysTrue`, `ChildIsOutlived` and `GraceAlwaysSpares` (`CodeIsTrue`,
`RunOutlivesChild`, `GraceSparesOthers`) from one invariant, `ProcessInv`: a task is in `run_later` at
most once, and which of the three tasks can be there together (`QueueInv`); the child is there only
when it was spawned (`SpawnInv`); what the job that waits may say (`JobInv`); what `run` tells, and
that the caller returns only when the other two tasks are done (`ToldInv`); and that a handler in
its grace period, which was not woken, has a child that has not been reaped (`GraceInv`). `ResumedOnce` and
the lemmas before it are about `run_later`: waking a task twice puts it there once.

**`AsyncJobProofs`, open files.** `StreamsStayTheirOwn` and `ReadAllEnds` (`StreamsAreTheirOwn`, `ReadAllMeetsEnd`) from
`StreamInv`: a job in a worker carries the position its stream has, and an answer that was not taken up
yet continues the stream (`ReaderEnd`, `WriterEnd`); where writes append, the bytes of the other
program are counted (`AppendInv`). `LocksKnown` (`LocksAreKnown`) from `LockInv`, which adds the moment
between the worker's lock and the task that takes it up, cancelled or not. It says who has the lock while no lock
was abandoned in the queue (`stray = "none"`); that locks of two programs never exclude each other needs no such
condition.

**`AsyncJobProofs`, names.** `JobsAreAllOrNothing` (`AllOrNothing`) and `OthersAreAlwaysSpared`
(`OthersAreSpared`) from `PathsInv` (`PathsInvariant`): at each call of its worker function a job has done
and holds what that place says (`OpenWell` to `MkdirWell`), and what has something inside is a directory (`TreeOK`).
`StepOnTree` sorts the steps by what they do to the names: put where nothing is, take away, move, turn into a
junction; the second theorem follows by looking at these four. That a rename may not replace a directory with something
in it is what makes `TreeOK` inductive and keeps the contents of the replaced one.

Every invariant and every action property that a passing run checks is stated by a theorem. Only model-checked is the
liveness (`EveryCallReturns`, `ConnectReturns`, `ClosedIsReleased`, `TasksReturn`, `CallsEnd`, `RunEnds`), because
fairness and ENABLED are out of the prover's reach.

## 5. What is not modelled, and why

Of the client:

- Bit and integer fields: single expressions without a loop or a branch, apart from the
  two facts named in section 3.
- Byte layouts of the builders beyond lengths and codes; requests with several items, which
  the client never sends; areas other than data blocks, which differ in a code byte.
- The segments of a whole request: the PLC has all of it when the write ends. Of a torn one it has a
  part, from the end of the write on, and what it does with that part comes later. A real PLC, which frames by
  the length in the TPKT header, may lose its place behind a torn request for good: it then stays silent
  (the requests stay in its queue, which no step has to take) or closes (`PlcGone`).
- Two tasks calling operations on one connection at the same time, and what a late request on
  an old connection does after a reconnect: the models have one caller and one connection.
- The transport trait and the COTP record, the stub for other targets, formatting, the demo,
  constructors: no state.

Of the runtime:

- TLS (`tls/`): S7 connections are not encrypted, and its state machine is the library's.
- UDP, multicast, servers, address conversions and the race of several addresses
  (`happy_eyeball.mbt`): the client connects to one numeric address. S7Connect has the moment at which the
  race is over and its caller does not know yet.
- Listing and watching of directories, which the client does not use.
- Semaphores, queues, condition variables, HTTP, gzip and WebSocket on top of the runtime; the
  helpers of descriptors and of errno. The scheduler's queue, `protect_from_cancel` and the task group
  are modelled where the operations above use them.
- A wait job of `run` that is cancelled while it is queued (section 2). Jobs on names and reads and writes of a
  file that are: as locks, they report what their memory says and run later; AsyncPool has the mechanism (`abandoned`).
- Redirections and the environment of a child; `chmod`, `fsync`, the times of an open file, the
  text readers; closing a file during a job of another task, which the documentation forbids.

## 6. How it was built, and what would come next

In this order: S7Wire, S7Channel, S7Transport and its proofs, S7Client, S7Control, S7Connect, S7Float,
S7String; then the runtime from the bottom up, AsyncPool, AsyncIo, AsyncProcess, AsyncPaths, AsyncFile, AsyncFs;
then the proofs of S7Connect, AsyncFile, AsyncProcess, AsyncIo, S7Client and S7Control, the
refinement of S7Channel by S7Transport, the proofs of AsyncPool, AsyncPaths, S7String and S7Float, and
the instances of the channel's theorems. A continuation would add:

1. **S7Shared**: two tasks on one connection, interleaving at every await.
2. **S7Session**: several connections to one PLC, with the late writes of an old one.
3. **Happy eyeball**: the race of several addresses with its timers, on top of AsyncIo.
