------------------------------ MODULE AsyncFile ------------------------------
(***************************************************************************)
(* One open file of the runtime (IoHandle of a regular file, io.mbt, and   *)
(* @fs.File, file.mbt): a task that reads all of it, one that writes a     *)
(* stream, one that reads and writes at positions, and one that locks it,  *)
(* each through jobs of the thread pool that share one descriptor, while   *)
(* another program appends to the file, cuts it and locks it.  A job is    *)
(* called, performed by a worker and taken up by its task in three steps.  *)
(* A task does not close the file while another uses it, and one that      *)
(* reads or writes is cancelled only when a worker has its job; a lock may *)
(* be cancelled while its job is queued, too.                              *)
(***************************************************************************)
EXTENDS Integers, Sequences, SequencesExt, FiniteSets

CONSTANTS
  MaxLen,      \* length the file may grow to
  StreamLen,   \* bytes the writing task writes
  MaxCalls,    \* calls of the positional task
  MaxForeign   \* steps of the other program

ASSUME FileAssumption ==
  /\ {MaxLen, StreamLen, MaxCalls, MaxForeign} \subseteq Nat
  /\ StreamLen > 0

Locks == {"none", "shared", "exclusive"}

VARIABLES
  windows, append,
  locking,   \* the tasks use the lock, or the bytes: neither is seen by the other
  file,      \* per byte, who wrote it: old, stream, at, other, or a hole
  native,    \* the file pointer of the descriptor
  readOff, writeOff,  \* read_offset and write_offset of the IoHandle
  reader,    \* the task in read_all, and its job
  writer,    \* the task in write, and its job
  at,        \* the task in read_at or write_at, and its job
  got,       \* history: positions the reader got its bytes from
  put,       \* history: positions the writer's bytes went to
  mine, other,        \* the locks of this descriptor and of the other program
  locker,    \* the task in lock or try_lock, and its job
  stray,     \* lock jobs abandoned in the queue: "none" so far, "queued", or "gone"
  foreign    \* steps of the other program, and bytes of it that are in the file

streamVars == <<readOff, writeOff, reader, writer, got, put>>
lockVars == <<mine, other, locker, stray>>
vars == <<windows, append, locking, file, native, streamVars, at, lockVars, foreign>>

Least(x, y) == IF x < y THEN x ELSE y
Chunk == MaxLen  \* read_all's further reads ask for more than there is

Init ==
  /\ windows \in BOOLEAN /\ append \in BOOLEAN /\ locking \in BOOLEAN
  /\ \E n \in 0..2 : file = [i \in 1..n |-> "old"]
  /\ native = 0
  /\ readOff = 0 /\ writeOff = (IF append THEN -1 ELSE 0)
  /\ reader = [pc |-> "new", stage |-> "size", pos |-> 0, len |-> 0, n |-> 0]
  /\ writer = [pc |-> "new", pos |-> 0, len |-> 0, n |-> 0, left |-> StreamLen]
  /\ at = [pc |-> "idle", op |-> "none", pos |-> 0, n |-> 0, calls |-> 0]
  /\ got = << >> /\ put = << >>
  /\ mine = "none" /\ other \in Locks
  /\ locker = [pc |-> "idle", kind |-> "none", cancelled |-> FALSE]
  /\ stray = "none"
  /\ foreign = [steps |-> 0, bytes |-> 0]

------------------------------------------------------------------------------
(* The system calls. *)

\* What is at the positions from..from+n-1 becomes tag; a gap is filled with zeros.
Overwritten(from, n, tag) ==
  [i \in 1..(IF from + n > Len(file) THEN from + n ELSE Len(file)) |->
     CASE i > from /\ i <= from + n -> tag
       [] i <= Len(file) -> file[i]
       [] OTHER -> "hole"]

\* A positional call moves the native pointer on Windows; a sequential one, everywhere.
PointerAfter(pos, to) == IF pos < 0 \/ windows THEN to ELSE native

\* Where a call goes: its position, or the native pointer.
At(pos) == IF pos < 0 THEN native ELSE pos

\* read_job_worker: the bytes up to the end of the file, 0 at or behind it.
Reads(job) ==
  LET from == At(job.pos)
      n == IF from >= Len(file) THEN 0 ELSE Least(job.len, Len(file) - from)
  IN [from |-> from, n |-> n]

------------------------------------------------------------------------------
(* The reading task: File::read_all over IoHandle::read. *)

\* Mutation: the sequential read uses the native file pointer.
NativePosition(off) == -1

\* The position a sequential call passes to its job.
Position(off) == off

CallRead(stage, len) ==
  reader' = [reader EXCEPT !.pc = "called", !.stage = stage, !.pos = Position(readOff),
                           !.len = len]

\* file_size_job_worker
WorkerSizes ==
  /\ reader.pc = "new"
  /\ \/ reader' = [reader EXCEPT !.pc = "sized", !.len = Len(file)]
     \/ reader' = [reader EXCEPT !.pc = "sized", !.len = 0]
  /\ UNCHANGED <<windows, append, locking, file, native, readOff, writeOff, writer, got, put,
                 at, lockVars, foreign>>

\* read_all asks for what is left in one read; without a size it reads chunks.
ReaderBegins ==
  /\ reader.pc = "sized"
  /\ IF reader.len > readOff THEN CallRead("whole", reader.len - readOff)
                            ELSE CallRead("rest", Chunk)
  /\ UNCHANGED <<windows, append, locking, file, native, readOff, writeOff, writer, got, put,
                 at, lockVars, foreign>>

\* A read whose job fails, or is cancelled on Windows, gets nothing and moves nothing.
WorkerReads ==
  /\ reader.pc = "called"
  /\ \/ LET r == Reads(reader) IN
          /\ reader' = [reader EXCEPT !.pc = "answered", !.n = r.n]
          /\ got' = got \o [i \in 1..r.n |-> r.from + i - 1]
          /\ native' = PointerAfter(reader.pos, r.from + r.n)
     \/ /\ reader' = [reader EXCEPT !.pc = "failed"]
        /\ UNCHANGED <<got, native>>
  /\ UNCHANGED <<windows, append, locking, file, readOff, writeOff, writer, put, at, lockVars, foreign>>

\* Mutation: the size is believed, and no read looks for the end.
BelievesSize(stage, n) == IF n = 0 \/ stage = "whole" THEN "end" ELSE "rest"

\* What read_all does after a read: only one of 0 bytes tells the end of the file.
AfterRead(stage, n) ==
  IF n = 0 THEN "end" ELSE IF stage = "whole" THEN "probe" ELSE "rest"

\* IoHandle::read advances read_offset, and read_all goes on.
ReaderResumes ==
  /\ reader.pc = "answered"
  /\ readOff' = readOff + reader.n
  /\ LET next == AfterRead(reader.stage, reader.n) IN
       reader' = [reader EXCEPT !.stage = next,
                                !.pc = IF next = "end" THEN "done" ELSE "again"]
  /\ UNCHANGED <<windows, append, locking, file, native, writeOff, writer, got, put, at, lockVars, foreign>>

ReaderGoesOn ==
  /\ reader.pc = "again"
  /\ CallRead(reader.stage, IF reader.stage = "probe" THEN 1 ELSE Chunk)
  /\ UNCHANGED <<windows, append, locking, file, native, readOff, writeOff, writer, got, put,
                 at, lockVars, foreign>>

------------------------------------------------------------------------------
(* The writing task: Writer::write over IoHandle::write. *)

WriterCalls ==
  /\ writer.pc \in {"new", "again"}
  /\ writer' = [writer EXCEPT !.pc = "called", !.pos = Position(writeOff), !.len = writer.left]
  /\ UNCHANGED <<windows, append, locking, file, native, readOff, writeOff, reader, got, put,
                 at, lockVars, foreign>>

\* write_job_worker: some of the bytes; to the end of a file opened to append.
WorkerWrites ==
  /\ writer.pc = "called"
  /\ \/ \E n \in 1..writer.len :
          LET from == IF append THEN Len(file) ELSE At(writer.pos) IN
            /\ from + n <= MaxLen
            /\ file' = Overwritten(from, n, "stream")
            /\ put' = put \o [i \in 1..n |-> from + i - 1]
            /\ native' = PointerAfter(writer.pos, from + n)
            /\ writer' = [writer EXCEPT !.pc = "answered", !.n = n]
     \/ /\ writer' = [writer EXCEPT !.pc = "failed"]
        /\ UNCHANGED <<file, put, native>>
  /\ UNCHANGED <<windows, append, locking, readOff, writeOff, reader, got, at, lockVars, foreign>>

\* IoHandle::write advances write_offset, unless it appends, and write writes the rest.
WriterResumes ==
  /\ writer.pc = "answered"
  /\ writeOff' = (IF writeOff >= 0 THEN writeOff + writer.n ELSE writeOff)
  /\ writer' = [writer EXCEPT !.left = @ - writer.n,
                              !.pc = IF writer.left = writer.n THEN "done" ELSE "again"]
  /\ UNCHANGED <<windows, append, locking, file, native, readOff, reader, got, put, at, lockVars, foreign>>

------------------------------------------------------------------------------
(* The positional task: read_at and write_at, one job each. *)

PosLen == 2

\* write_at is refused for a file opened to append.
PositionalCalls ==
  /\ at.pc = "idle" /\ at.calls < MaxCalls
  /\ \E pos \in 0..1, op \in {"read", "write"} :
       /\ op = "write" => writeOff >= 0
       /\ at' = [at EXCEPT !.pc = "called", !.op = op, !.pos = pos, !.calls = @ + 1]
  /\ UNCHANGED <<windows, append, locking, file, native, streamVars, lockVars, foreign>>

\* The job; write_at ignores how much was written.
WorkerPositions ==
  /\ at.pc = "called"
  /\ \/ LET n == IF at.pos >= Len(file) THEN 0 ELSE Least(PosLen, Len(file) - at.pos) IN
          /\ at.op = "read"
          /\ native' = PointerAfter(at.pos, at.pos + n)
          /\ at' = [at EXCEPT !.pc = "answered", !.n = n]
          /\ UNCHANGED file
     \/ \E n \in 1..PosLen :
          /\ at.op = "write" /\ at.pos + n <= MaxLen
          /\ file' = Overwritten(at.pos, n, "at")
          /\ native' = PointerAfter(at.pos, at.pos + n)
          /\ at' = [at EXCEPT !.pc = "answered", !.n = n]
     \/ /\ at' = [at EXCEPT !.pc = "answered", !.n = 0]
        /\ UNCHANGED <<file, native>>
  /\ UNCHANGED <<windows, append, locking, streamVars, lockVars, foreign>>

PositionalReturns ==
  /\ at.pc = "answered"
  /\ at' = [at EXCEPT !.pc = "idle", !.op = "none", !.pos = 0, !.n = 0]
  /\ UNCHANGED <<windows, append, locking, file, native, streamVars, lockVars, foreign>>

------------------------------------------------------------------------------
(* The locking task: lock, try_lock and unlock. *)

Compatible(kind, held) == "none" \in {kind, held} \/ (kind = "shared" /\ held = "shared")

LockerVars == UNCHANGED <<windows, append, locking, file, native, streamVars, at, other, foreign>>

\* The job gets a worker, or waits in job_queue for one.
CallLock ==
  /\ locker.pc = "idle"
  /\ \E kind \in {"shared", "exclusive"}, pc \in {"queued", "blocked"} :
       locker' = [pc |-> pc, kind |-> kind, cancelled |-> FALSE]
  /\ UNCHANGED <<mine, stray>> /\ LockerVars

\* handle_completed_job gives a worker that finished another job this one.
LockBegins ==
  /\ locker.pc = "queued"
  /\ locker' = [locker EXCEPT !.pc = "blocked"]
  /\ UNCHANGED <<mine, stray>> /\ LockerVars

\* flock_job_worker: it waits, gets the lock, or is refused or interrupted.
WorkerLocks ==
  /\ locker.pc = "blocked"
  /\ \/ /\ Compatible(locker.kind, other)
        /\ mine' = locker.kind
        /\ locker' = [locker EXCEPT !.pc = "locked"]
     \/ locker' = [locker EXCEPT !.pc = "refused"] /\ UNCHANGED mine
     \/ /\ locker.cancelled
        /\ locker' = [locker EXCEPT !.pc = "interrupted"]
        /\ UNCHANGED mine
  /\ UNCHANGED stray /\ LockerVars

CancelLock ==
  /\ locker.pc \in {"queued", "blocked", "locked", "refused"} /\ ~locker.cancelled
  /\ locker' = [locker EXCEPT !.cancelled = TRUE]
  /\ UNCHANGED <<mine, stray>> /\ LockerVars

\* cancel_job_in_worker finds no worker with the job: NoWait.  The job, freed but
\* still in job_queue, has neither ret nor err, and lock returns normally.
LockAbandoned ==
  /\ locker.pc = "queued" /\ locker.cancelled
  /\ locker' = [locker EXCEPT !.pc = "holding", !.cancelled = FALSE]
  /\ stray' = "queued"
  /\ UNCHANGED mine /\ LockerVars

\* A worker performs a job that was freed: it locks with what its memory says by
\* then, or not at all.
StrayLocks ==
  /\ stray = "queued"
  /\ \/ mine' \in {kind \in {"shared", "exclusive"} : Compatible(kind, other)}
     \/ UNCHANGED mine
  /\ stray' \in {"queued", "gone"}
  /\ UNCHANGED locker /\ LockerVars

\* Mutation: a task that was cancelled raises Cancelled whatever its job did.
HoldsUnlessCancelled == locker.pc = "locked" /\ ~locker.cancelled

\* perform_job_in_worker: a job that was performed is reported, cancelled or not.
Holds == locker.pc = "locked"

LockReturns ==
  /\ locker.pc \in {"locked", "refused", "interrupted"}
  /\ locker' = (IF Holds THEN [locker EXCEPT !.pc = "holding", !.cancelled = FALSE]
                ELSE [pc |-> "idle", kind |-> "none", cancelled |-> FALSE])
  /\ UNCHANGED <<mine, stray>> /\ LockerVars

\* moonbitlang_async_try_lock_file: at once or not at all.
TryLock ==
  /\ locker.pc = "idle"
  /\ \E kind \in {"shared", "exclusive"} :
       /\ Compatible(kind, other)
       /\ mine' = kind
       /\ locker' = [pc |-> "holding", kind |-> kind, cancelled |-> FALSE]
  /\ UNCHANGED stray /\ LockerVars

\* moonbitlang_async_unlock_file
Unlock ==
  /\ locker.pc = "holding"
  /\ mine' = "none"
  /\ locker' = [pc |-> "idle", kind |-> "none", cancelled |-> FALSE]
  /\ UNCHANGED stray /\ LockerVars

------------------------------------------------------------------------------
(* The other program. *)

ForeignBytes == Cardinality({i \in DOMAIN file : file[i] = "other"})

ForeignWrites ==
  /\ foreign.steps < MaxForeign
  /\ \/ /\ Len(file) < MaxLen
        /\ file' = Append(file, "other")
     \/ \E n \in 0..Len(file) - 1 : file' = SubSeq(file, 1, n)
  /\ foreign' = [steps |-> foreign.steps + 1, bytes |-> ForeignBytes']
  /\ UNCHANGED <<windows, append, locking, native, streamVars, at, lockVars>>

ForeignLocks ==
  /\ \E kind \in Locks : Compatible(kind, mine) /\ other # kind /\ other' = kind
  /\ UNCHANGED <<windows, append, locking, file, native, streamVars, at, mine, locker, stray, foreign>>

ByteNext ==
  \/ WorkerSizes \/ ReaderBegins \/ WorkerReads \/ ReaderResumes \/ ReaderGoesOn
  \/ WriterCalls \/ WorkerWrites \/ WriterResumes
  \/ PositionalCalls \/ WorkerPositions \/ PositionalReturns
  \/ ForeignWrites

LockNext ==
  \/ CallLock \/ LockBegins \/ WorkerLocks \/ CancelLock \/ LockReturns
  \/ LockAbandoned \/ StrayLocks
  \/ TryLock \/ Unlock \/ ForeignLocks

Next == (~locking /\ ByteNext) \/ (locking /\ LockNext)

Spec == Init /\ [][Next]_vars

------------------------------------------------------------------------------
\* The reader's bytes are those at successive positions of the file from its start, and
\* the writer's bytes go to successive positions, whatever the other tasks read and
\* write in between ("the position of the read stream in the file is independent of
\* the write stream", and read_at and write_at move neither); a writer that
\* appends destroys nothing that another program appended.
StreamsAreTheirOwn ==
  /\ \A i \in DOMAIN got : got[i] = i - 1
  /\ ~append => \A i \in DOMAIN put : put[i] = i - 1
  /\ append => foreign.bytes = ForeignBytes

\* read_all returns when a read met the end of the file: what it returns is everything
\* there was at that moment, although the size it began with was of an earlier one.
ReadAllMeetsEnd == reader.pc = "done" => reader.n = 0 /\ Len(got) = readOff

\* The program knows its lock: it holds one when lock or try_lock said so and none when
\* lock raised, whether a cancellation came before, while or after a worker was
\* in the lock call.  The one exception is a lock that is cancelled while its job still
\* waits for a worker (LockMeansHeld): from then on nothing is known.  At all times
\* the other program's lock is compatible.
LocksAreKnown ==
  /\ stray = "none" =>
       /\ locker.pc = "holding" => mine = locker.kind
       /\ locker.pc \in {"idle", "queued", "blocked", "refused", "interrupted"} =>
            mine = "none"
  /\ Compatible(mine, other)

\* What file.mbt:341 says of lock: "Lock a file, block until the lock is successfully
\* acquired."  A lock that returned would hold, whatever happened while it waited.
LockMeansHeld == locker.pc = "holding" => mine = locker.kind
==============================================================================
