---------------------------- MODULE AsyncJobProofs ----------------------------
(***************************************************************************)
(* Proofs about the jobs that workers do for tasks.  About AsyncFile,       *)
(* for every length of the file and of the stream and any number of calls   *)
(* and of steps of the other program: the streams of one descriptor do not  *)
(* disturb each other, read_all meets the end of the file, and the program  *)
(* knows whether it holds the lock.  About AsyncPaths, for every tree of    *)
(* names, any number of jobs and any number of steps of the other program:  *)
(* a job is all or nothing, and no entry disappears that nobody was asked   *)
(* to remove.  About AsyncProcess, for every set of exit codes, both        *)
(* handlers and all four ways to wait: the code that @process.run returns   *)
(* is the child's, run outlives the child, and the SIGKILL of the graceful  *)
(* handler goes to the child or to nobody.                                  *)
(***************************************************************************)
EXTENDS AsyncFile, AsyncPaths, AsyncProcess, SequenceTheorems,
        FiniteSetTheorems, TLAPS

Tags == {"old", "stream", "at", "other", "hole"}

\* Positions 0, 1, 2, ... up to n.
Counts(s, n) == s \in Seq(Nat) /\ Len(s) = n /\ \A i \in 1 .. n : s[i] = i - 1

Readers == [pc : {"new", "sized", "called", "answered", "failed", "again", "done"},
            stage : {"size", "whole", "rest", "probe", "end"},
            pos : Nat, len : Nat, n : Nat]

ReaderType == reader \in Readers /\ readOff \in Nat

\* The reader's stream has got the bytes before its offset, and those of the answer its
\* task has not taken up.
ReaderEnd == IF reader.pc = "answered" THEN readOff + reader.n ELSE readOff

ReaderInv ==
  /\ ReaderType
  /\ Counts(got, ReaderEnd)
  /\ reader.pc = "called" => reader.pos = readOff
  /\ reader.pc = "done" => reader.n = 0

Writers == [pc : {"new", "called", "answered", "failed", "again", "done"},
            pos : Int, len : Nat, n : Nat, left : Nat]

WriterType ==
  /\ writer \in Writers
  /\ append \in BOOLEAN
  /\ writeOff \in Int /\ (IF append THEN writeOff = -1 ELSE writeOff >= 0)

\* The same for the writer, unless it appends.
WriterEnd == IF writer.pc = "answered" THEN writeOff + writer.n ELSE writeOff

WriterInv ==
  /\ WriterType
  /\ writer.pc = "called" => writer.pos = writeOff /\ writer.len = writer.left
  /\ writer.pc = "answered" => writer.n <= writer.left
  /\ ~append => Counts(put, WriterEnd)

Positionals == [pc : {"idle", "called", "answered"}, op : {"none", "read", "write"},
                pos : Nat, n : Nat, calls : Nat]

\* Nothing but the stream is written to a file opened to append.
AppendInv ==
  /\ append \in BOOLEAN
  /\ file \in Seq(Tags)
  /\ at \in Positionals
  /\ at.pc = "called" /\ at.op = "write" => ~append
  /\ append => foreign.bytes = ForeignBytes

(***************************************************************************)
(* Bytes from where a stream stands continue it.                            *)
(***************************************************************************)
LEMMA CountsOn ==
  ASSUME NEW s, NEW m \in Nat, NEW n \in Nat, Counts(s, m)
  PROVE  Counts(s \o [i \in 1 .. n |-> m + i - 1], m + n)
<1>. DEFINE t == [i \in 1 .. n |-> m + i - 1]
<1>1. t \in Seq(Nat) /\ Len(t) = n /\ \A i \in 1 .. n : t[i] = m + i - 1
  OBVIOUS
<1>. HIDE DEF t
<1>2. s \in Seq(Nat) /\ Len(s) = m /\ \A i \in 1 .. m : s[i] = i - 1
  BY DEF Counts
<1>3. /\ s \o t \in Seq(Nat) /\ Len(s \o t) = m + n
      /\ \A i \in 1 .. m + n : (s \o t)[i] = IF i <= m THEN s[i] ELSE t[i - m]
  BY <1>1, <1>2, ConcatProperties
<1>4. ASSUME NEW i \in 1 .. m + n  PROVE (s \o t)[i] = i - 1
  BY <1>1, <1>2, <1>3
<1>5. Counts(s \o t, m + n)
  BY <1>3, <1>4 DEF Counts
<1>. QED
  BY <1>5 DEF t

(***************************************************************************)
(* No step of any task moves the reader's stream but its own reads.         *)
(***************************************************************************)
LEMMA ReaderStep ==
  ASSUME ReaderInv, file \in Seq(Tags), [Next]_vars
  PROVE  ReaderInv'
<1>. USE DEF ReaderInv, ReaderType, ReaderEnd
<1>0. MaxLen \in Nat /\ Len(file) \in Nat
  BY FileAssumption, LenProperties
<1>1. CASE WorkerSizes
  <2>1. UNCHANGED <<got, readOff>> /\ reader.pc = "new"
    BY <1>1 DEF WorkerSizes
  <2>2. PICK n \in Nat : reader' = [reader EXCEPT !.pc = "sized", !.len = n]
    BY <1>0, <1>1 DEF WorkerSizes
  <2>3. reader' \in Readers /\ reader'.pc = "sized"
    BY <2>2 DEF Readers
  <2>. QED  BY <2>1, <2>3
<1>2. CASE ReaderBegins
  <2>1. UNCHANGED <<got, readOff>> /\ reader.pc = "sized"
    BY <1>2 DEF ReaderBegins
  <2>2. PICK stage \in {"whole", "rest"}, len \in Nat :
          reader' = [reader EXCEPT !.pc = "called", !.stage = stage, !.pos = readOff, !.len = len]
    <3>1. reader.len - readOff \in Nat \/ ~(reader.len > readOff)
      BY DEF Readers
    <3>. QED  BY <1>0, <1>2, <3>1 DEF ReaderBegins, CallRead, Position, Chunk
  <2>3. reader' \in Readers /\ reader'.pc = "called" /\ reader'.pos = readOff
    BY <2>2 DEF Readers
  <2>. QED  BY <2>1, <2>3
<1>3. CASE WorkerReads
  <2>. DEFINE r == Reads(reader)
  <2>1. reader.pc = "called" /\ r.from = readOff /\ r.n \in Nat /\ readOff' = readOff
    BY <1>0, <1>3 DEF WorkerReads, Reads, At, Least, Readers
  <2>2. CASE /\ reader' = [reader EXCEPT !.pc = "answered", !.n = r.n]
             /\ got' = got \o [i \in 1 .. r.n |-> r.from + i - 1]
    <3>1. Counts(got, readOff) /\ readOff \in Nat
      BY <2>1
    <3>. HIDE DEF r
    <3>2. Counts(got', readOff + r.n)
      BY <2>1, <2>2, <3>1, CountsOn
    <3>3. reader' \in Readers /\ reader'.pc = "answered" /\ reader'.n = r.n
      BY <2>1, <2>2 DEF Readers
    <3>. QED  BY <2>1, <3>2, <3>3
  <2>3. CASE reader' = [reader EXCEPT !.pc = "failed"] /\ UNCHANGED got
    <3>1. reader' \in Readers /\ reader'.pc = "failed"
      BY <2>3 DEF Readers
    <3>. QED  BY <2>1, <2>3, <3>1
  <2>. QED  BY <1>3, <2>2, <2>3 DEF WorkerReads
<1>4. CASE ReaderResumes
  <2>1. UNCHANGED got /\ readOff' = readOff + reader.n /\ reader.pc = "answered"
    BY <1>4 DEF ReaderResumes
  <2>2. PICK next \in {"end", "probe", "rest"} :
          /\ reader' = [reader EXCEPT !.stage = next,
                                      !.pc = IF next = "end" THEN "done" ELSE "again"]
          /\ next = "end" => reader.n = 0
    BY <1>4 DEF ReaderResumes, AfterRead
  <2>3. reader' \in Readers
    BY <2>2 DEF Readers
  <2>4. reader'.n = reader.n /\ reader'.pc \in {"done", "again"}
    BY <2>2 DEF Readers
  <2>5. reader'.pc = "done" => reader.n = 0
    BY <2>2 DEF Readers
  <2>6. readOff' \in Nat /\ readOff' = ReaderEnd
    BY <2>1 DEF Readers
  <2>. QED  BY <2>1, <2>3, <2>4, <2>5, <2>6
<1>5. CASE ReaderGoesOn
  <2>1. UNCHANGED <<got, readOff>> /\ reader.pc = "again"
    BY <1>5 DEF ReaderGoesOn
  <2>2. PICK len \in Nat :
          reader' = [reader EXCEPT !.pc = "called", !.stage = reader.stage, !.pos = readOff,
                                   !.len = len]
    BY <1>0, <1>5 DEF ReaderGoesOn, CallRead, Position, Chunk, Readers
  <2>3. reader' \in Readers /\ reader'.pc = "called" /\ reader'.pos = readOff
    BY <2>2 DEF Readers
  <2>. QED  BY <2>1, <2>3
<1>6. CASE UNCHANGED <<reader, readOff, got>>
  BY <1>6
<1>. QED
  BY <1>1, <1>2, <1>3, <1>4, <1>5, <1>6
  DEF Next, ByteNext, LockNext, WriterCalls, WorkerWrites, WriterResumes, PositionalCalls,
      WorkerPositions, PositionalReturns, ForeignWrites, ForeignLocks, CallLock, WorkerLocks,
      LockBegins, CancelLock, LockAbandoned, StrayLocks,
      LockReturns, TryLock, Unlock, LockerVars, streamVars, vars

(***************************************************************************)
(* The same for the writer's stream.                                        *)
(***************************************************************************)
LEMMA WriterStep ==
  ASSUME WriterInv, file \in Seq(Tags), [Next]_vars
  PROVE  WriterInv'
<1>. USE DEF WriterInv, WriterType, WriterEnd
<1>1. CASE WriterCalls
  <2>1. /\ UNCHANGED <<append, writeOff, put>> /\ writer.pc \in {"new", "again"}
        /\ writer' = [writer EXCEPT !.pc = "called", !.pos = writeOff, !.len = writer.left]
    BY <1>1 DEF WriterCalls, Position
  <2>2. /\ writer' \in Writers /\ writer'.pc = "called" /\ writer'.pos = writeOff
        /\ writer'.len = writer'.left
    BY <2>1 DEF Writers
  <2>. QED  BY <2>1, <2>2
<1>2. CASE WorkerWrites
  <2>0. writer.pc = "called" /\ UNCHANGED <<append, writeOff>>
    BY <1>2 DEF WorkerWrites
  <2>1. ASSUME NEW n \in 1 .. writer.len,
               put' = put \o [i \in 1 .. n |-> (IF append THEN Len(file) ELSE At(writer.pos)) + i - 1],
               writer' = [writer EXCEPT !.pc = "answered", !.n = n]
        PROVE  WriterInv'
    <3>1. ~append => Counts(put', writeOff + n)
      <4>. SUFFICES ASSUME ~append PROVE Counts(put', writeOff + n)
        OBVIOUS
      <4>1. Counts(put, writeOff) /\ At(writer.pos) = writeOff /\ writeOff \in Nat /\ n \in Nat
        BY <2>0 DEF At, Writers
      <4>. QED  BY <2>1, <4>1, CountsOn
    <3>2. /\ writer' \in Writers /\ writer'.pc = "answered" /\ writer'.n = n
          /\ writer'.left = writer.left /\ writer.len = writer.left
      <4>1. n \in Nat /\ writer.len = writer.left
        BY <2>0 DEF Writers
      <4>. QED  BY <2>1, <4>1 DEF Writers
    <3>3. writer'.n <= writer'.left
      BY <3>2 DEF Writers
    <3>. QED  BY <2>0, <3>1, <3>2, <3>3
  <2>2. CASE writer' = [writer EXCEPT !.pc = "failed"] /\ UNCHANGED put
    <3>1. writer' \in Writers /\ writer'.pc = "failed"
      BY <2>2 DEF Writers
    <3>. QED  BY <2>0, <2>2, <3>1
  <2>. QED  BY <1>2, <2>1, <2>2 DEF WorkerWrites
<1>3. CASE WriterResumes
  <2>1. /\ UNCHANGED <<put, append>> /\ writer.pc = "answered"
        /\ writeOff' = IF writeOff >= 0 THEN writeOff + writer.n ELSE writeOff
    BY <1>3 DEF WriterResumes
  <2>2. PICK to \in {"done", "again"} :
          writer' = [writer EXCEPT !.left = writer.left - writer.n, !.pc = to]
    BY <1>3 DEF WriterResumes
  <2>3. writer.left - writer.n \in Nat
    BY <2>1 DEF Writers
  <2>4. writer' \in Writers /\ writer'.pc = to
    BY <2>2, <2>3 DEF Writers
  <2>5. /\ writeOff' \in Int /\ (IF append THEN writeOff' = -1 ELSE writeOff' >= 0)
        /\ ~append => writeOff' = WriterEnd
    BY <2>1 DEF Writers
  <2>. QED  BY <2>1, <2>4, <2>5
<1>4. CASE UNCHANGED <<writer, writeOff, put, append>>
  BY <1>4
<1>. QED
  BY <1>1, <1>2, <1>3, <1>4
  DEF Next, ByteNext, LockNext, WorkerSizes, ReaderBegins, WorkerReads, ReaderResumes,
      ReaderGoesOn, PositionalCalls,
      WorkerPositions, PositionalReturns, ForeignWrites, ForeignLocks, CallLock, WorkerLocks,
      LockBegins, CancelLock, LockAbandoned, StrayLocks,
      LockReturns, TryLock, Unlock, LockerVars, streamVars, vars

(***************************************************************************)
(* Bytes that are written are a sequence of the length they reach to.       *)
(***************************************************************************)
LEMMA OverwrittenSeq ==
  ASSUME file \in Seq(Tags), NEW from \in Nat, NEW n \in Nat, NEW tag \in Tags
  PROVE  Overwritten(from, n, tag) \in Seq(Tags)
<1>. DEFINE size == IF from + n > Len(file) THEN from + n ELSE Len(file)
            e(i) == CASE i > from /\ i <= from + n -> tag
                      [] i <= Len(file) -> file[i]
                      [] OTHER -> "hole"
            new == [i \in 1 .. size |-> e(i)]
<1>1. Len(file) \in Nat /\ DOMAIN file = 1 .. Len(file) /\ \A i \in 1 .. Len(file) : file[i] \in Tags
  BY LenProperties, ElementOfSeq
<1>2. size \in Nat
  BY <1>1
<1>3. \A i \in 1 .. size : e(i) \in Tags
  BY <1>1 DEF Tags
<1>4. new = Overwritten(from, n, tag)
  BY DEF Overwritten
<1>5. new \in Seq(Tags)
  <2>. HIDE DEF size, e
  <2>. QED  BY <1>2, <1>3
<1>. QED
  BY <1>4, <1>5

(***************************************************************************)
(* Bytes that are written at the end leave those of the other program.      *)
(***************************************************************************)
LEMMA AppendedKeeps ==
  ASSUME file \in Seq(Tags), NEW n \in Nat, NEW new, new = Overwritten(Len(file), n, "stream")
  PROVE  {i \in DOMAIN new : new[i] = "other"} = {i \in DOMAIN file : file[i] = "other"}
<1>1. Len(file) \in Nat /\ DOMAIN file = 1 .. Len(file)
  BY LenProperties
<1>2. /\ DOMAIN new = 1 .. Len(file) + n
      /\ \A i \in 1 .. Len(file) + n : new[i] = IF i > Len(file) THEN "stream" ELSE file[i]
  BY <1>1 DEF Overwritten
<1>3. \A i : i \in DOMAIN new /\ new[i] = "other" <=> i \in DOMAIN file /\ file[i] = "other"
  BY <1>1, <1>2
<1>. QED
  BY <1>3

(***************************************************************************)
(* No step destroys what the other program appended, if the file was opened *)
(* to append: the stream's bytes go behind it, and write_at is refused.     *)
(***************************************************************************)
LEMMA AppendStep ==
  ASSUME AppendInv, WriterInv, [Next]_vars
  PROVE  AppendInv'
<1>. USE FileAssumption DEF AppendInv
<1>0. Len(file) \in Nat
  BY LenProperties
<1>1. CASE WorkerWrites
  <2>0. UNCHANGED <<append, at, foreign>> /\ writer.pc = "called"
    BY <1>1 DEF WorkerWrites
  <2>1. ASSUME NEW n \in 1 .. writer.len,
               file' = Overwritten(IF append THEN Len(file) ELSE At(writer.pos), n, "stream")
        PROVE  AppendInv'
    <3>1. n \in Nat /\ "stream" \in Tags /\ (IF append THEN Len(file) ELSE At(writer.pos)) \in Nat
      BY <1>0, <2>0 DEF WriterInv, WriterType, At, Tags
    <3>2. file' \in Seq(Tags)
      BY <2>1, <3>1, OverwrittenSeq
    <3>3. append => ForeignBytes' = ForeignBytes
      <4>. SUFFICES ASSUME append PROVE ForeignBytes' = ForeignBytes
        OBVIOUS
      <4>1. /\ Len(file) \in Nat /\ n \in Nat /\ "stream" \in Tags /\ "stream" # "other"
            /\ file' = Overwritten(Len(file), n, "stream")
        BY <1>0, <2>1, <3>1
      <4>2. {i \in DOMAIN file' : file'[i] = "other"} = {i \in DOMAIN file : file[i] = "other"}
        BY <4>1, AppendedKeeps
      <4>. QED  BY <4>2 DEF ForeignBytes
    <3>. QED  BY <2>0, <3>2, <3>3
  <2>2. CASE UNCHANGED file
    BY <2>0, <2>2 DEF ForeignBytes
  <2>. QED  BY <1>1, <2>1, <2>2 DEF WorkerWrites
<1>2. CASE PositionalCalls
  <2>1. UNCHANGED <<append, file, foreign>> /\ (writeOff >= 0 => ~append)
    BY <1>2 DEF PositionalCalls, WriterInv, WriterType, streamVars
  <2>2. PICK pos \in 0 .. 1, op \in {"read", "write"} :
          /\ op = "write" => writeOff >= 0
          /\ at' = [at EXCEPT !.pc = "called", !.op = op, !.pos = pos,
                              !.calls = at.calls + 1]
    BY <1>2 DEF PositionalCalls
  <2>3. at' \in Positionals /\ at'.op = op
    <3>1. at.calls + 1 \in Nat /\ pos \in Nat
      BY DEF Positionals
    <3>. QED  BY <2>2, <3>1 DEF Positionals
  <2>. QED  BY <2>1, <2>2, <2>3 DEF ForeignBytes
<1>3. CASE WorkerPositions
  <2>0. UNCHANGED <<append, foreign>> /\ at.pc = "called"
    BY <1>3 DEF WorkerPositions
  <2>3. PICK m \in Nat : at' = [at EXCEPT !.pc = "answered", !.n = m]
    <3>. DEFINE n == IF at.pos >= Len(file) THEN 0 ELSE Least(PosLen, Len(file) - at.pos)
                After(k) == at' = [at EXCEPT !.pc = "answered", !.n = k]
    <3>1. n \in Nat /\ 1 .. PosLen \subseteq Nat
      BY <1>0 DEF Least, PosLen, Positionals
    <3>2. After(n) \/ (\E k \in 1 .. PosLen : After(k)) \/ After(0)
      BY <1>3 DEF WorkerPositions
    <3>. HIDE DEF n
    <3>. QED  BY <3>1, <3>2
  <2>4. at' \in Positionals /\ at'.pc = "answered"
    BY <2>3 DEF Positionals
  <2>1. ASSUME NEW n \in 1 .. PosLen, at.op = "write", file' = Overwritten(at.pos, n, "at")
        PROVE  AppendInv'
    <3>1. file' \in Seq(Tags)
      <4>1. n \in Nat /\ at.pos \in Nat /\ "at" \in Tags
        BY <2>1 DEF PosLen, Tags, Positionals
      <4>. QED  BY <2>1, <4>1, OverwrittenSeq
    <3>. QED  BY <2>0, <2>4, <2>1, <3>1
  <2>2. CASE UNCHANGED file
    BY <2>0, <2>4, <2>2 DEF ForeignBytes
  <2>. QED  BY <1>3, <2>1, <2>2 DEF WorkerPositions
<1>4. CASE PositionalReturns
  <2>1. at' \in Positionals /\ at'.pc = "idle" /\ UNCHANGED <<append, file, foreign>>
    BY <1>4 DEF PositionalReturns, Positionals
  <2>. QED  BY <2>1 DEF ForeignBytes
<1>5. CASE ForeignWrites
  <2>1. CASE file' = Append(file, "other")
    <3>1. file' \in Seq(Tags)
      BY <2>1 DEF Tags
    <3>. QED  BY <1>5, <3>1 DEF ForeignWrites
  <2>2. ASSUME NEW n \in 0 .. Len(file) - 1, file' = SubSeq(file, 1, n)
        PROVE  AppendInv'
    <3>1. file' \in Seq(Tags)
      BY <1>0, <2>2, SubSeqProperties, ElementOfSeq
    <3>. QED  BY <1>5, <3>1 DEF ForeignWrites
  <2>. QED  BY <1>5, <2>1, <2>2 DEF ForeignWrites
<1>6. CASE UNCHANGED <<append, file, at, foreign>>
  BY <1>6 DEF ForeignBytes
<1>. QED
  BY <1>1, <1>2, <1>3, <1>4, <1>5, <1>6
  DEF Next, ByteNext, LockNext, WorkerSizes, ReaderBegins, WorkerReads, ReaderResumes,
      ReaderGoesOn, WriterCalls, WriterResumes, ForeignLocks, CallLock, WorkerLocks,
      LockBegins, CancelLock, LockAbandoned, StrayLocks,
      LockReturns, TryLock, Unlock, LockerVars, streamVars, vars

(***************************************************************************)
(* The invariant that the two properties of the streams rest on: what a     *)
(* stream got or put ends where its offset, and an answer its task has not  *)
(* taken up, say.                                                           *)
(***************************************************************************)
StreamInv == ReaderInv /\ WriterInv /\ AppendInv

(***************************************************************************)
(* StreamInv holds of the file as it is opened.                             *)
(***************************************************************************)
LEMMA StreamInit == Init => StreamInv
<1>. SUFFICES ASSUME Init PROVE StreamInv
  OBVIOUS
<1>1. ReaderInv
  BY DEF Init, ReaderInv, ReaderType, Readers, ReaderEnd, Counts
<1>2. WriterInv
  BY FileAssumption
  DEF Init, WriterInv, WriterType, Writers, WriterEnd, Counts
<1>3. file \in Seq(Tags) /\ \A i \in DOMAIN file : file[i] = "old"
  <2>1. PICK n \in 0 .. 2 : file = [i \in 1 .. n |-> "old"]
    BY DEF Init
  <2>2. n \in Nat /\ \A i \in 1 .. n : "old" \in Tags
    BY DEF Tags
  <2>. QED  BY <2>1, <2>2
<1>4. ForeignBytes = 0
  <2>1. {i \in DOMAIN file : file[i] = "other"} = {}
    BY <1>3
  <2>. QED  BY <2>1, FS_EmptySet DEF ForeignBytes
<1>5. AppendInv
  BY <1>3, <1>4 DEF Init, AppendInv, Positionals
<1>. QED
  BY <1>1, <1>2, <1>5 DEF StreamInv

\* StreamInv is kept by every step.
LEMMA StreamStep == StreamInv /\ [Next]_vars => StreamInv'
BY ReaderStep, WriterStep, AppendStep DEF StreamInv, AppendInv

\* StreamInv holds always.
LEMMA StreamsHold == Spec => []StreamInv
<1>1. Init => StreamInv
  BY StreamInit
<1>2. StreamInv /\ [Next]_vars => StreamInv'
  BY StreamStep
<1>. QED
  BY <1>1, <1>2, PTL DEF Spec

(***************************************************************************)
(* The reader's bytes are those at successive positions of the file and the *)
(* writer's go to successive positions, whatever the other tasks do with    *)
(* the same descriptor, and a file opened to append keeps what another      *)
(* program appended to it.                                                  *)
(***************************************************************************)
THEOREM StreamsStayTheirOwn == Spec => []StreamsAreTheirOwn
<1>1. StreamInv => StreamsAreTheirOwn
  BY SMTT(60) DEF StreamInv, ReaderInv, WriterInv, AppendInv, Counts, StreamsAreTheirOwn
<1>. QED
  BY <1>1, StreamsHold, PTL

(***************************************************************************)
(* read_all returns after a read that met the end of the file, with the     *)
(* bytes up to there, however the file grew or shrank since it was asked    *)
(* for its size.                                                            *)
(***************************************************************************)
THEOREM ReadAllEnds == Spec => []ReadAllMeetsEnd
<1>1. StreamInv => ReadAllMeetsEnd
  BY DEF StreamInv, ReaderInv, ReaderEnd, Counts, ReadAllMeetsEnd
<1>. QED
  BY <1>1, StreamsHold, PTL

(***************************************************************************)
(* The invariant of the lock: while a job is on its way back, or was        *)
(* refused, the descriptor has the lock its answer will report, unless a    *)
(* lock was abandoned in the queue.                                         *)
(***************************************************************************)
LockInv ==
  /\ locker \in [pc : {"idle", "queued", "blocked", "locked", "refused", "interrupted", "holding"},
                 kind : Locks, cancelled : BOOLEAN]
  /\ stray = "none" =>
       /\ locker.pc \in {"locked", "holding"} => mine = locker.kind
       /\ locker.pc \in {"idle", "queued", "blocked", "refused", "interrupted"} =>
            mine = "none"
  /\ mine \in Locks /\ other \in Locks
  /\ Compatible(mine, other)

(***************************************************************************)
(* The program knows whether it holds the lock, cancelled or not, as long   *)
(* as no lock was cancelled while its job was in the queue; and two         *)
(* programs never hold locks that exclude each other.                       *)
(***************************************************************************)
THEOREM LocksKnown == Spec => []LocksAreKnown
<1>1. Init => LockInv
  BY DEF Init, LockInv, Locks, Compatible
<1>2. LockInv /\ [Next]_vars => LockInv'
  <2>. SUFFICES ASSUME LockInv, [Next]_vars PROVE LockInv'
    OBVIOUS
  <2>. USE DEF LockInv, Locks, Compatible, LockerVars
  <2>1. CASE CallLock
    BY <2>1 DEF CallLock
  <2>2. CASE WorkerLocks
    BY <2>2 DEF WorkerLocks
  <2>3. CASE CancelLock
    BY <2>3 DEF CancelLock
  <2>4. CASE LockReturns
    BY <2>4 DEF LockReturns, Holds
  <2>5. CASE TryLock
    BY <2>5 DEF TryLock
  <2>6. CASE Unlock
    BY <2>6 DEF Unlock
  <2>7. CASE ForeignLocks
    BY <2>7 DEF ForeignLocks
  <2>10. CASE LockBegins
    BY <2>10 DEF LockBegins
  <2>11. CASE LockAbandoned
    BY <2>11 DEF LockAbandoned
  <2>12. CASE StrayLocks
    BY <2>12 DEF StrayLocks
  <2>8. CASE ByteNext
    BY <2>8
    DEF ByteNext, WorkerSizes, ReaderBegins, WorkerReads, ReaderResumes, ReaderGoesOn,
        WriterCalls, WorkerWrites, WriterResumes, PositionalCalls, WorkerPositions,
        PositionalReturns, ForeignWrites, lockVars
  <2>9. CASE UNCHANGED vars
    BY <2>9 DEF vars, lockVars
  <2>. QED
    BY <2>1, <2>2, <2>3, <2>4, <2>5, <2>6, <2>7, <2>8, <2>9, <2>10, <2>11, <2>12
    DEF Next, LockNext
<1>3. LockInv => LocksAreKnown
  BY DEF LockInv, LocksAreKnown
<1>. QED
  BY <1>1, <1>2, <1>3, PTL DEF Spec
------------------------------------------------------------------------------
(* Jobs on names: AsyncPaths. *)

\* What each kind of job has done, and what it holds, at each of its calls.
OpenWell(r) ==
  /\ r.pc \in {"call", "stat", "done"}
  /\ r.did \in {{}, {"made"}}
  /\ r.pc = "call" => r.did = {} /\ r.held = Nobody
  /\ r.pc = "done" /\ ~r.ok => r.held = Nobody

QueryWell(r) ==
  /\ r.pc \in {"call", "ask", "longer", "done"}
  /\ r.did = {}
  /\ r.pc \in {"call", "done"} => r.held = Nobody

RemoveWell(r) ==
  /\ r.pc \in {"call", "rmdir", "delete", "done"}
  /\ r.held = Nobody
  /\ r.did = IF r.ok THEN {"removed"} ELSE {}

RenameWell(r) ==
  /\ r.pc \in {"call", "set", "move", "done"}
  /\ r.pc # "set" => r.held = Nobody
  /\ IF r.ok THEN r.did \in {{"moved"}, {"elsewhere"}} ELSE r.did = {}
  /\ r.op.path \in Paths /\ r.op.new \in Tops

\* A junction's directory is there, or was left, until the cleaning has taken it away.
SymlinkWell(r) ==
  /\ r.pc \in {"call", "mkdir", "point", "set", "clean", "link", "done"}
  /\ r.pc # "set" => r.held = Nobody
  /\ r.pc \in {"call", "mkdir"} => r.did = {}
  /\ r.pc \in {"point", "set", "clean"} \/ r.ok => r.did = {"made"}
  /\ r.pc \in {"link", "done"} /\ ~r.ok => r.did = {} \/ (r.left /\ r.did = {"made"})

MkdirWell(r) ==
  /\ r.pc \in {"call", "parent", "again", "done"}
  /\ r.held = Nobody
  /\ r.pc \in {"call", "parent"} => r.did = {}
  /\ r.pc = "again" => r.did = {"parent"}
  /\ r.ok => r.did \in {{"made"}, {"made", "parent"}}
  /\ ~r.ok => r.did \in {{}, {"parent"}}
  /\ r.pc \in {"parent", "again"} \/ "parent" \in r.did => r.op.flag = "recursive"

Kinds == {"open", "kind", "times", "access", "realpath", "remove", "rmdir", "rename",
          "symlink", "mkdir"}

JobWell(r) ==
  /\ DOMAIN r = DOMAIN Unsubmitted
  /\ r.pc # "done" => ~r.ok
  /\ r.pc = "new" => r = Unsubmitted
  /\ r.pc # "new" => r.op.kind \in Kinds
  /\ r.pc # "new" /\ r.op.kind = "open" => OpenWell(r)
  /\ r.pc # "new" /\ r.op.kind \in {"kind", "times", "access", "realpath"} => QueryWell(r)
  /\ r.pc # "new" /\ r.op.kind \in {"remove", "rmdir"} => RemoveWell(r)
  /\ r.pc # "new" /\ r.op.kind = "rename" => RenameWell(r)
  /\ r.pc # "new" /\ r.op.kind = "symlink" => SymlinkWell(r)
  /\ r.pc # "new" /\ r.op.kind = "mkdir" => MkdirWell(r)

PathsInv ==
  /\ DOMAIN job = Jobs
  /\ \A j \in Jobs : JobWell(job[j])
  /\ TreeOK(tree) /\ others \in Nat

\* The names there are, and which is inside which.
LEMMA PathsKnown ==
  /\ Paths = {"a", "b", "a/c", "b/c"} /\ Children = {"a/c", "b/c"} /\ Tops = {"a", "b"}
  /\ Inside["a"] = "a/c" /\ Inside["b"] = "b/c"
  /\ Parent("a/c") = "a" /\ Parent("b/c") = "b"
<1>1. Inside["a"] = "a/c" /\ Inside["b"] = "b/c"
  BY DEF Inside
<1>2. Children = {"a/c", "b/c"}
  BY <1>1 DEF Children, Tops
<1>3. Parent("a/c") = "a"
  <2>1. \E t \in Tops : Inside[t] = "a/c"
    BY <1>1 DEF Tops
  <2>2. Parent("a/c") \in Tops /\ Inside[Parent("a/c")] = "a/c"
    BY <2>1 DEF Parent
  <2>3. QED
    BY <2>2, <1>1 DEF Tops
<1>4. Parent("b/c") = "b"
  <2>1. \E t \in Tops : Inside[t] = "b/c"
    BY <1>1 DEF Tops
  <2>2. Parent("b/c") \in Tops /\ Inside[Parent("b/c")] = "b/c"
    BY <2>1 DEF Parent
  <2>3. QED
    BY <2>2, <1>1 DEF Tops
<1>5. QED
  BY <1>1, <1>2, <1>3, <1>4 DEF Paths, Tops

\* The fields of a job stay its fields.
LEMMA JobFields ==
  ASSUME PathsInv, NEW j \in Jobs
  PROVE  /\ j \in DOMAIN job
         /\ DOMAIN job[j] = {"op", "pc", "held", "alone", "then", "did", "left", "ok"}
         /\ JobWell(job[j])
BY DEF PathsInv, JobWell, Unsubmitted

\* How a worker function's return, and its going on, change the job.
LEMMA Returned ==
  ASSUME PathsInv, NEW j \in Jobs
  PROVE  /\ \A did : Succeeds(j, did) =>
              /\ DOMAIN job'[j] = DOMAIN job[j] /\ job'[j].op = job[j].op
              /\ job'[j].pc = "done" /\ job'[j].ok /\ job'[j].held = job[j].held
              /\ job'[j].did = job[j].did \cup did
         /\ Errs(j) =>
              /\ DOMAIN job'[j] = DOMAIN job[j] /\ job'[j].op = job[j].op
              /\ job'[j].pc = "done" /\ job'[j].ok = job[j].ok /\ job'[j].held = Nobody
              /\ job'[j].did = job[j].did /\ job'[j].left = job[j].left
         /\ \A to, id : GoWith(j, to, id) =>
              /\ DOMAIN job'[j] = DOMAIN job[j] /\ job'[j].op = job[j].op
              /\ job'[j].pc = to /\ job'[j].ok = job[j].ok /\ job'[j].held = id
              /\ job'[j].did = job[j].did
         /\ \A to : Go(j, to) =>
              /\ DOMAIN job'[j] = DOMAIN job[j] /\ job'[j].op = job[j].op
              /\ job'[j].pc = to /\ job'[j].ok = job[j].ok /\ job'[j].held = job[j].held
              /\ job'[j].did = job[j].did
<1>1. /\ j \in DOMAIN job
      /\ DOMAIN job[j] = {"op", "pc", "held", "alone", "then", "did", "left", "ok"}
  BY JobFields
<1>2. ASSUME NEW did, Succeeds(j, did)
      PROVE  /\ DOMAIN job'[j] = DOMAIN job[j] /\ job'[j].op = job[j].op
             /\ job'[j].pc = "done" /\ job'[j].ok /\ job'[j].held = job[j].held
             /\ job'[j].did = job[j].did \cup did
  <2>1. job'[j] = [job[j] EXCEPT !.pc = "done", !.ok = TRUE, !.did = job[j].did \cup did]
    BY <1>1, <1>2 DEF Succeeds
  <2>2. QED
    BY <1>1, <2>1
<1>3. ASSUME Errs(j)
      PROVE  /\ DOMAIN job'[j] = DOMAIN job[j] /\ job'[j].op = job[j].op
             /\ job'[j].pc = "done" /\ job'[j].ok = job[j].ok /\ job'[j].held = Nobody
             /\ job'[j].did = job[j].did /\ job'[j].left = job[j].left
  <2>1. job'[j] = [job[j] EXCEPT !.pc = "done", !.held = Nobody, !.alone = FALSE]
    BY <1>1, <1>3 DEF Errs
  <2>2. QED
    BY <1>1, <2>1
<1>4. ASSUME NEW to, NEW id, GoWith(j, to, id)
      PROVE  /\ DOMAIN job'[j] = DOMAIN job[j] /\ job'[j].op = job[j].op
             /\ job'[j].pc = to /\ job'[j].ok = job[j].ok /\ job'[j].held = id
             /\ job'[j].did = job[j].did
  <2>1. job'[j] = [job[j] EXCEPT !.pc = to, !.held = id]
    BY <1>1, <1>4 DEF GoWith
  <2>2. QED
    BY <1>1, <2>1
<1>5. ASSUME NEW to, Go(j, to)
      PROVE  /\ DOMAIN job'[j] = DOMAIN job[j] /\ job'[j].op = job[j].op
             /\ job'[j].pc = to /\ job'[j].ok = job[j].ok /\ job'[j].held = job[j].held
             /\ job'[j].did = job[j].did
  BY <1>1, <1>5 DEF Go
<1>6. QED
  BY <1>2, <1>3, <1>4, <1>5

\* A job begins with nothing done and nothing held.
LEMMA SubmitKeeps ==
  ASSUME PathsInv, NEW j \in Jobs, Submit(j)
  PROVE  JobWell(job'[j])
<1>1. PICK o \in Ops : job' = [job EXCEPT ![j].op = o, ![j].pc = "call"]
  BY DEF Submit
<1>2. job[j] = Unsubmitted /\ j \in DOMAIN job
  BY JobFields DEF Submit, JobWell
<1>3. job'[j] = [Unsubmitted EXCEPT !.op = o, !.pc = "call"]
  BY <1>1, <1>2
<1>4. /\ DOMAIN job'[j] = DOMAIN Unsubmitted /\ job'[j].op = o /\ job'[j].pc = "call"
      /\ job'[j].held = Nobody /\ job'[j].did = {} /\ job'[j].ok = FALSE
  BY <1>3 DEF Unsubmitted
<1>5. o.kind \in Kinds /\ (o.kind = "rename" => o.path \in Paths /\ o.new \in Tops)
  BY PathsKnown DEF Ops, Op, Kinds
<1>6. QED
  BY <1>4, <1>5 DEF JobWell, OpenWell, QueryWell, RemoveWell, RenameWell, SymlinkWell, MkdirWell

\* An open may have made the file by the time it asks what it is.
LEMMA OpenKeeps ==
  ASSUME PathsInv, NEW j \in Jobs, OpenCall(j) \/ OpenStat(j)
  PROVE  JobWell(job'[j])
<1>1. /\ j \in DOMAIN job /\ JobWell(job[j])
      /\ DOMAIN job[j] = {"op", "pc", "held", "alone", "then", "did", "left", "ok"}
  BY JobFields
<1>2. job[j].op.kind = "open" /\ job[j].pc \in {"call", "stat"} /\ OpenWell(job[j])
      /\ (job[j].pc # "done" => ~job[j].ok)
  BY <1>1 DEF OpenCall, OpenStat, Doing, JobWell
<1>3. \/ Errs(j) \/ Succeeds(j, {}) \/ \E id : GoWith(j, "stat", id)
      \/ job[j].pc = "call" /\ job' = [job EXCEPT ![j].pc = "stat", ![j].held = [by |-> j, as |-> "own"],
                                                ![j].did = {"made"}]
  BY DEF OpenCall, OpenStat, Doing, Fails
<1>4. /\ DOMAIN job'[j] = DOMAIN job[j] /\ job'[j].op = job[j].op
      /\ job'[j].pc \in {"stat", "done"} /\ (job'[j].pc # "done" => ~job'[j].ok)
      /\ job'[j].did \in {{}, {"made"}}
      /\ job'[j].pc = "done" /\ ~job'[j].ok => job'[j].held = Nobody
  <2>1. CASE Errs(j)
    BY <1>2, <2>1, Returned DEF OpenWell
  <2>2. CASE Succeeds(j, {})
    BY <1>2, <2>2, Returned DEF OpenWell
  <2>3. CASE \E id : GoWith(j, "stat", id)
    BY <1>2, <2>3, Returned DEF OpenWell
  <2>4. CASE job' = [job EXCEPT ![j].pc = "stat", ![j].held = [by |-> j, as |-> "own"],
                                ![j].did = {"made"}]
    <3>1. PICK id : id = [by |-> j, as |-> "own"]
      OBVIOUS
    <3>2. job'[j] = [job[j] EXCEPT !.pc = "stat", !.held = id, !.did = {"made"}]
      BY <1>1, <2>4, <3>1
    <3>3. QED
      BY <1>1, <1>2, <3>2
  <2>5. QED
    BY <1>3, <2>1, <2>2, <2>3, <2>4
<1>5. QED
  BY <1>1, <1>2, <1>4 DEF JobWell, OpenWell, Unsubmitted, Kinds

\* A query does nothing to the names, and closes what it opened.
LEMMA QueryKeeps ==
  ASSUME PathsInv, NEW j \in Jobs, Kind(j) \/ Times(j) \/ Access(j) \/ Realpath(j)
  PROVE  JobWell(job'[j]) /\ UNCHANGED tree
<1>1. /\ j \in DOMAIN job /\ JobWell(job[j])
      /\ DOMAIN job[j] = {"op", "pc", "held", "alone", "then", "did", "left", "ok"}
  BY JobFields
<1>2. job[j].op.kind \in {"kind", "times", "access", "realpath"}
      /\ job[j].pc \in {"call", "ask", "longer"} /\ QueryWell(job[j]) /\ ~job[j].ok
  BY <1>1 DEF Kind, Times, Access, Realpath, Doing, JobWell
<1>3. \/ Fails(j) \/ Closes(j) \/ (Go(j, "longer") /\ UNCHANGED tree)
      \/ job[j].pc = "call" /\ UNCHANGED tree
           /\ (GoWith(j, "ask", tree[Asked(j)].id) \/ Succeeds(j, {}))
  BY DEF Kind, Times, Access, Realpath, Doing, ByName, KindOfHandle
<1>4. DOMAIN job'[j] = DOMAIN job[j] /\ job'[j].op = job[j].op
  BY <1>1, <1>3 DEF GoWith, Go, Fails, Errs, Succeeds, Closes
<1>5. job'[j].did = {} /\ (job'[j].pc = "done" \/ (job'[j].pc \in {"ask", "longer"} /\ ~job'[j].ok))
  BY <1>1, <1>2, <1>3 DEF GoWith, Go, Fails, Errs, Succeeds, Closes, QueryWell
<1>6. job'[j].pc = "done" => job'[j].held = Nobody
  <2>1. CASE Fails(j) \/ Closes(j) \/ Go(j, "longer")
    BY <1>1, <2>1, ZenonT(60) DEF Fails, Errs, Closes, Go
  <2>2. CASE job[j].pc = "call" /\ (GoWith(j, "ask", tree[Asked(j)].id) \/ Succeeds(j, {}))
    BY <1>1, <1>2, <2>2 DEF GoWith, Succeeds, QueryWell
  <2>3. QED
    BY <1>3, <2>1, <2>2
<1>7. UNCHANGED tree
  BY <1>3 DEF Fails, Closes
<1>8. QED
  BY <1>1, <1>2, <1>4, <1>5, <1>6, <1>7 DEF JobWell, QueryWell, Unsubmitted, Kinds

\* A job that removes has removed once it succeeds, and before that nothing.
LEMMA RemoveKeeps ==
  ASSUME PathsInv, NEW j \in Jobs, RemoveJob(j) \/ Rmdir(j)
  PROVE  JobWell(job'[j])
<1>1. /\ j \in DOMAIN job /\ JobWell(job[j])
      /\ DOMAIN job[j] = {"op", "pc", "held", "alone", "then", "did", "left", "ok"}
  BY JobFields
<1>2. job[j].op.kind \in {"remove", "rmdir"} /\ job[j].pc \in {"call", "rmdir", "delete"}
      /\ RemoveWell(job[j]) /\ ~job[j].ok /\ job[j].did = {} /\ job[j].held = Nobody
  BY <1>1 DEF RemoveJob, Rmdir, Doing, JobWell, RemoveWell
<1>3. \/ Errs(j) \/ Go(j, "rmdir") \/ Go(j, "delete") \/ Succeeds(j, {"removed"})
  BY DEF RemoveJob, Rmdir, Fails
<1>4. DOMAIN job'[j] = DOMAIN job[j] /\ job'[j].op = job[j].op
  BY <1>1, <1>3 DEF Go, Errs, Succeeds
<1>5. /\ job'[j].pc \in {"rmdir", "delete", "done"} /\ job'[j].held = Nobody
      /\ job'[j].did = (IF job'[j].ok THEN {"removed"} ELSE {})
      /\ (job'[j].pc # "done" => ~job'[j].ok)
  <2>1. CASE Errs(j) \/ Go(j, "rmdir") \/ Go(j, "delete")
    BY <1>1, <1>2, <2>1 DEF Errs, Go
  <2>2. CASE Succeeds(j, {"removed"})
    BY <1>1, <1>2, <2>2 DEF Succeeds
  <2>3. QED
    BY <1>3, <2>1, <2>2
<1>6. QED
  BY <1>1, <1>2, <1>4, <1>5 DEF JobWell, RemoveWell, Unsubmitted, Kinds

\* A rename has moved once it succeeds, by whichever of its calls, and keeps no handle.
LEMMA RenameKeeps ==
  ASSUME PathsInv, NEW j \in Jobs, Rename(j)
  PROVE  JobWell(job'[j])
<1>1. /\ j \in DOMAIN job /\ JobWell(job[j])
      /\ DOMAIN job[j] = {"op", "pc", "held", "alone", "then", "did", "left", "ok"}
  BY JobFields
<1>2. job[j].op.kind = "rename" /\ job[j].pc \in {"call", "set", "move"}
      /\ RenameWell(job[j]) /\ ~job[j].ok /\ job[j].did = {}
      /\ (job[j].pc # "set" => job[j].held = Nobody)
  BY <1>1 DEF Rename, Doing, JobWell, RenameWell
<1>3. \/ Errs(j) \/ (\E id : GoWith(j, "set", id)) \/ GoWith(j, "move", Nobody)
      \/ Succeeds(j, {"moved"}) /\ job[j].pc # "set"
      \/ \E way \in {"moved", "elsewhere"} :
           job' = [job EXCEPT ![j].pc = "done", ![j].ok = TRUE, ![j].held = Nobody, ![j].did = {way}]
  BY DEF Rename, Doing, Fails, RenameByName
<1>4. /\ DOMAIN job'[j] = DOMAIN job[j] /\ job'[j].op = job[j].op
      /\ job'[j].pc \in {"set", "move", "done"}
      /\ job'[j].pc # "set" => job'[j].held = Nobody
      /\ IF job'[j].ok THEN job'[j].did \in {{"moved"}, {"elsewhere"}} ELSE job'[j].did = {}
      /\ job'[j].pc # "done" => ~job'[j].ok
  <2>1. CASE Errs(j)
    BY <1>2, <2>1, Returned
  <2>2. CASE (\E id : GoWith(j, "set", id)) \/ GoWith(j, "move", Nobody)
    BY <1>2, <2>2, Returned
  <2>3. CASE Succeeds(j, {"moved"}) /\ job[j].pc # "set"
    BY <1>2, <2>3, Returned
  <2>4. ASSUME NEW way \in {"moved", "elsewhere"},
               job' = [job EXCEPT ![j].pc = "done", ![j].ok = TRUE, ![j].held = Nobody,
                                  ![j].did = {way}]
        PROVE  /\ DOMAIN job'[j] = DOMAIN job[j] /\ job'[j].op = job[j].op
               /\ job'[j].pc = "done" /\ job'[j].held = Nobody /\ job'[j].ok
               /\ job'[j].did \in {{"moved"}, {"elsewhere"}}
    <3>1. job'[j] = [job[j] EXCEPT !.pc = "done", !.ok = TRUE, !.held = Nobody, !.did = {way}]
      BY <1>1, <2>4
    <3>2. QED
      BY <1>1, <3>1
  <2>5. QED
    BY <1>3, <2>1, <2>2, <2>3, <2>4
<1>5. QED
  BY <1>1, <1>2, <1>4 DEF JobWell, RenameWell, Unsubmitted, Kinds

\* A link is made once; the directory of a junction is made before it and taken away
\* when it fails, or left.
LEMMA SymlinkKeeps ==
  ASSUME PathsInv, NEW j \in Jobs,
         SymlinkCall(j) \/ JunctionMkdir(j) \/ JunctionPoint(j) \/ JunctionSet(j)
           \/ JunctionClean(j) \/ Symlink(j)
  PROVE  JobWell(job'[j])
<1>1. /\ j \in DOMAIN job /\ JobWell(job[j])
      /\ DOMAIN job[j] = {"op", "pc", "held", "alone", "then", "did", "left", "ok"}
  BY JobFields
<1>2. job[j].op.kind = "symlink"
      /\ job[j].pc \in {"call", "mkdir", "point", "set", "clean", "link"}
      /\ SymlinkWell(job[j]) /\ ~job[j].ok
  BY <1>1 DEF SymlinkCall, JunctionMkdir, JunctionPoint, JunctionSet, JunctionClean, Symlink,
              Doing, JobWell
<1>. DEFINE Good == /\ DOMAIN job'[j] = DOMAIN job[j] /\ job'[j].op = job[j].op
                    /\ SymlinkWell(job'[j]) /\ job'[j].pc # "new"
                    /\ (job'[j].pc # "done" => ~job'[j].ok)
<1>. SUFFICES Good
  BY <1>1, <1>2 DEF JobWell, Unsubmitted, Kinds
<1>3. CASE Fails(j) /\ job[j].pc \in {"call", "mkdir", "link"}
  BY <1>2, <1>3, Returned DEF Fails, SymlinkWell
<1>4. CASE Succeeds(j, {"made"}) /\ job[j].pc \in {"call", "link"}
  BY <1>2, <1>4, Returned DEF SymlinkWell
<1>5. CASE SymlinkCall(j)
  <2>1. CASE Windows
    <3>1. PICK to \in {"mkdir", "link"}, next \in {"dirlink", "link"} :
             job' = [job EXCEPT ![j].pc = to, ![j].then = next]
      BY <1>5, <2>1 DEF SymlinkCall
    <3>2. job'[j] = [job[j] EXCEPT !.pc = to, !.then = next]
      BY <1>1, <3>1
    <3>3. job[j].did = {} /\ job[j].held = Nobody
      BY <1>2, <1>5 DEF SymlinkCall, Doing, SymlinkWell
    <3>4. QED
      BY <1>1, <1>2, <3>2, <3>3 DEF SymlinkWell
  <2>2. QED
    BY <1>3, <1>4, <1>5, <2>1 DEF SymlinkCall, Doing
<1>6. CASE JunctionMkdir(j)
  <2>1. CASE job' = [job EXCEPT ![j].pc = "point", ![j].did = {"made"}]
    <3>1. job'[j] = [job[j] EXCEPT !.pc = "point", !.did = {"made"}]
      BY <1>1, <2>1
    <3>2. job[j].held = Nobody
      BY <1>2, <1>6 DEF JunctionMkdir, Doing, SymlinkWell
    <3>3. QED
      BY <1>1, <1>2, <3>1, <3>2 DEF SymlinkWell
  <2>2. QED
    BY <1>3, <1>6, <2>1 DEF JunctionMkdir, Doing
<1>7. CASE JunctionPoint(j)
  <2>1. job[j].did = {"made"} /\ job[j].held = Nobody
    BY <1>2, <1>7 DEF JunctionPoint, Doing, SymlinkWell
  <2>2. CASE \E id : job' = [job EXCEPT ![j].pc = "set", ![j].held = id, ![j].alone = TRUE]
    <3>1. PICK id : job' = [job EXCEPT ![j].pc = "set", ![j].held = id, ![j].alone = TRUE]
      BY <2>2, Zenon
    <3>2. job'[j] = [job[j] EXCEPT !.pc = "set", !.held = id, !.alone = TRUE]
      BY <1>1, <3>1
    <3>3. QED
      BY <1>1, <1>2, <2>1, <3>2 DEF SymlinkWell
  <2>3. CASE job' = [job EXCEPT ![j].pc = "clean", ![j].then = "error"]
    <3>1. job'[j] = [job[j] EXCEPT !.pc = "clean", !.then = "error"]
      BY <1>1, <2>3
    <3>2. QED
      BY <1>1, <1>2, <2>1, <3>1 DEF SymlinkWell
  <2>4. QED
    BY <1>7, <2>2, <2>3 DEF JunctionPoint
<1>8. CASE JunctionSet(j)
  <2>1. job[j].did = {"made"}
    BY <1>2, <1>8 DEF JunctionSet, Doing, SymlinkWell
  <2>2. CASE job' = [job EXCEPT ![j].pc = "done", ![j].ok = TRUE, ![j].held = Nobody,
                                ![j].alone = FALSE]
    <3>1. job'[j] = [job[j] EXCEPT !.pc = "done", !.ok = TRUE, !.held = Nobody, !.alone = FALSE]
      BY <1>1, <2>2
    <3>2. QED
      BY <1>1, <2>1, <3>1 DEF SymlinkWell
  <2>3. CASE \E next : job' = [job EXCEPT ![j].pc = "clean", ![j].held = Nobody,
                                          ![j].alone = FALSE, ![j].then = next]
    <3>1. PICK next : job' = [job EXCEPT ![j].pc = "clean", ![j].held = Nobody,
                                         ![j].alone = FALSE, ![j].then = next]
      BY <2>3, Zenon
    <3>2. job'[j] = [job[j] EXCEPT !.pc = "clean", !.held = Nobody, !.alone = FALSE, !.then = next]
      BY <1>1, <3>1
    <3>3. QED
      BY <1>1, <1>2, <2>1, <3>2 DEF SymlinkWell
  <2>4. QED
    BY <1>8, <2>2, <2>3, ZenonT(60) DEF JunctionSet
<1>9. CASE JunctionClean(j)
  <2>1. job[j].did = {"made"} /\ job[j].held = Nobody
    BY <1>2, <1>9 DEF JunctionClean, Doing, SymlinkWell
  <2>2. PICK to \in {"done", "link"}, left \in BOOLEAN :
          job' = [job EXCEPT ![j].pc = to, ![j].did = IF left THEN @ ELSE {}, ![j].left = left]
    BY <1>9, Zenon DEF JunctionClean
  <2>3. PICK did : did = IF left THEN {"made"} ELSE {}
    OBVIOUS
  <2>4. job'[j] = [job[j] EXCEPT !.pc = to, !.did = did, !.left = left]
    BY <1>1, <2>1, <2>2, <2>3
  <2>5. QED
    BY <1>1, <1>2, <2>1, <2>3, <2>4 DEF SymlinkWell
<1>10. CASE Symlink(j)
  BY <1>3, <1>4, <1>10 DEF Symlink, Doing
<1>11. QED
  BY <1>5, <1>6, <1>7, <1>8, <1>9, <1>10

\* A directory is made once its parents are, and only a recursive mkdir makes those.
LEMMA MkdirKeeps ==
  ASSUME PathsInv, NEW j \in Jobs, MkdirCall(j) \/ MkdirParent(j) \/ MkdirAgain(j)
  PROVE  JobWell(job'[j])
<1>1. /\ j \in DOMAIN job /\ JobWell(job[j])
      /\ DOMAIN job[j] = {"op", "pc", "held", "alone", "then", "did", "left", "ok"}
  BY JobFields
<1>2. job[j].op.kind = "mkdir" /\ job[j].pc \in {"call", "parent", "again"}
      /\ MkdirWell(job[j]) /\ ~job[j].ok
  BY <1>1 DEF MkdirCall, MkdirParent, MkdirAgain, Doing, JobWell
<1>3. \/ Errs(j)
      \/ Succeeds(j, {"made"})
      \/ job[j].pc = "call" /\ job[j].op.flag = "recursive" /\ Go(j, "parent")
      \/ job[j].pc = "parent" /\ job' = [job EXCEPT ![j].pc = "again", ![j].did = {"parent"}]
  BY DEF MkdirCall, MkdirParent, MkdirAgain, Doing, Flag, Fails
<1>4. /\ DOMAIN job'[j] = DOMAIN job[j] /\ job'[j].op = job[j].op
      /\ MkdirWell(job'[j]) /\ job'[j].pc # "new" /\ (job'[j].pc # "done" => ~job'[j].ok)
  <2>1. CASE Errs(j)
    BY <1>2, <2>1, Returned DEF MkdirWell
  <2>2. CASE Succeeds(j, {"made"})
    <3>1. job[j].did \in {{}, {"parent"}} /\ job'[j].did = job[j].did \cup {"made"}
          /\ job'[j].did \in {{"made"}, {"made", "parent"}}
      BY <1>2, <2>2, Returned DEF MkdirWell
    <3>2. QED
      BY <1>2, <2>2, <3>1, Returned DEF MkdirWell
  <2>3. CASE job[j].pc = "call" /\ job[j].op.flag = "recursive" /\ Go(j, "parent")
    BY <1>2, <2>3, Returned DEF MkdirWell
  <2>4. CASE job[j].pc = "parent" /\ job' = [job EXCEPT ![j].pc = "again", ![j].did = {"parent"}]
    <3>1. job'[j] = [job[j] EXCEPT !.pc = "again", !.did = {"parent"}]
      BY <1>1, <2>4
    <3>2. QED
      BY <1>1, <1>2, <2>4, <3>1 DEF MkdirWell
  <2>5. QED
    BY <1>3, <2>1, <2>2, <2>3, <2>4
<1>5. QED
  BY <1>1, <1>2, <1>4 DEF JobWell, Unsubmitted, Kinds

\* A step changes its own job only, and that one well.
LEMMA StepKeepsJobs ==
  ASSUME PathsInv, NEW j \in Jobs, Submit(j) \/ Step(j)
  PROVE  DOMAIN job' = Jobs /\ \A k \in Jobs : JobWell(job'[k])
<1>1. JobWell(job'[j])
  BY SubmitKeeps, OpenKeeps, QueryKeeps, RemoveKeeps, RenameKeeps, SymlinkKeeps, MkdirKeeps DEF Step
<1>2. DOMAIN job' = Jobs /\ \A k \in Jobs : k # j => job'[k] = job[k]
  <2>. USE DEF PathsInv, Fails, Errs, Succeeds, Go, GoWith
  <2>1. CASE Submit(j) \/ OpenCall(j) \/ OpenStat(j)
    BY <2>1 DEF Submit, OpenCall, OpenStat
  <2>2. CASE Kind(j) \/ Times(j) \/ Access(j) \/ Realpath(j)
    BY <2>2 DEF Kind, Times, Access, Realpath, ByName, KindOfHandle, Closes
  <2>3. CASE RemoveJob(j) \/ Rmdir(j)
    BY <2>3 DEF RemoveJob, Rmdir
  <2>4. CASE Rename(j)
    BY <2>4 DEF Rename, RenameByName
  <2>5. CASE SymlinkCall(j) \/ JunctionMkdir(j) \/ JunctionPoint(j)
    BY <2>5 DEF SymlinkCall, JunctionMkdir, JunctionPoint
  <2>6. CASE JunctionSet(j) \/ JunctionClean(j) \/ Symlink(j)
    BY <2>6 DEF JunctionSet, JunctionClean, Symlink
  <2>7. CASE MkdirCall(j) \/ MkdirParent(j) \/ MkdirAgain(j)
    BY <2>7 DEF MkdirCall, MkdirParent, MkdirAgain
  <2>8. QED
    BY <2>1, <2>2, <2>3, <2>4, <2>5, <2>6, <2>7 DEF Step
<1>3. QED
  BY <1>1, <1>2 DEF PathsInv

------------------------------------------------------------------------------
\* What a step does to the tree: nothing; an entry is put where none is; one is taken
\* away; one is moved; or a directory becomes a junction.
Puts(p) == Free(p) /\ \E e : DOMAIN e = DOMAIN None /\ Put(p, e)
Takes(p) == (Unlinks(p) \/ RemovesDirectory(p)) /\ Drop(p)
Moves(p, q, flag) == Renames(p, q, flag) /\ tree' = Moved(p, q)
Points(p) ==
  /\ tree[p].kind = "dir" /\ Empty(p)
  /\ \E to : Put(p, [tree[p] EXCEPT !.kind = "dirlink", !.to = to])

\* Each worker function does one of these, and takes away or moves only what it was
\* asked to.
LEMMA StepOnTree ==
  ASSUME PathsInv, NEW j \in Jobs, Step(j)
  PROVE  \/ UNCHANGED tree
         \/ \E p : Puts(p)
         \/ \E p \in Paths : Points(p)
         \/ Takes(Path(j)) /\ AskedToRemove(j, Path(j)) /\ job'[j] # job[j]
         \/ \E p \in Paths : Moves(p, job[j].op.new, Flag(j)) /\ job[j].op.kind = "rename"
              /\ job[j].op.new \in Tops /\ job'[j] # job[j]
<1>1. JobWell(job[j])
  BY JobFields
<1>2. \A by, as, kind, to : DOMAIN Entry(by, as, kind, to) = DOMAIN None
  BY DEF Entry, None
<1>3. \A did : Succeeds(j, did) => job'[j].pc = "done"
  BY Returned
<1>4. CASE OpenCall(j) \/ OpenStat(j)
  BY <1>2, <1>4 DEF OpenCall, OpenStat, Fails, Puts
<1>5. CASE Kind(j) \/ Times(j) \/ Access(j) \/ Realpath(j)
  BY <1>5, QueryKeeps
<1>6. CASE RemoveJob(j) \/ Rmdir(j)
  BY <1>3, <1>6 DEF RemoveJob, Rmdir, Doing, Fails, Takes, AskedToRemove
<1>7. CASE Rename(j)
  <2>1. job[j].op.kind = "rename" /\ job[j].op.new \in Tops /\ Path(j) \in Paths
        /\ job[j].pc # "done"
    BY <1>1, <1>7 DEF Rename, Doing, JobWell, RenameWell, Path
  <2>2. CASE RenameByName(j)
    BY <1>3, <2>1, <2>2 DEF RenameByName, Moves
  <2>3. ASSUME NEW p \in Paths, Renames(p, job[j].op.new, Flag(j)), tree' = Moved(p, job[j].op.new),
               NEW did, job' = [job EXCEPT ![j].pc = "done", ![j].ok = TRUE, ![j].held = Nobody,
                                           ![j].did = did]
        PROVE  Moves(p, job[j].op.new, Flag(j)) /\ job'[j] # job[j]
    <3>1. job'[j] = [job[j] EXCEPT !.pc = "done", !.ok = TRUE, !.held = Nobody, !.did = did]
      BY <2>3, JobFields
    <3>2. job'[j].pc = "done"
      BY <3>1, JobFields
    <3>3. QED
      BY <2>1, <2>3, <3>2 DEF Moves
  <2>4. QED
    BY <1>7, <2>1, <2>2, <2>3 DEF Rename, Fails
<1>8. CASE SymlinkCall(j) \/ JunctionMkdir(j) \/ JunctionPoint(j) \/ Symlink(j)
  BY <1>2, <1>8 DEF SymlinkCall, JunctionMkdir, JunctionPoint, Symlink, Fails, Puts
<1>9. CASE JunctionSet(j)
  BY <1>9 DEF JunctionSet, Points
<1>10. CASE JunctionClean(j)
  <2>1. CASE UNCHANGED tree
    BY <2>1
  <2>2. CASE RemovesDirectory(Path(j)) /\ Drop(Path(j))
    <3>1. AskedToRemove(j, Path(j)) /\ job[j].pc = "clean"
      BY <1>10, <2>2 DEF JunctionClean, AskedToRemove, Doing
    <3>2. PICK to \in {"done", "link"}, left \in BOOLEAN :
            job' = [job EXCEPT ![j].pc = to, ![j].did = IF left THEN @ ELSE {}, ![j].left = left]
      BY <1>10, Zenon DEF JunctionClean
    <3>3. PICK did : did = IF left THEN job[j].did ELSE {}
      OBVIOUS
    <3>4. job'[j] = [job[j] EXCEPT !.pc = to, !.did = did, !.left = left]
      BY <3>2, <3>3, JobFields
    <3>5. job'[j].pc = to
      BY <3>4, JobFields
    <3>6. QED
      BY <2>2, <3>1, <3>5 DEF Takes
  <2>3. QED
    BY <1>10, <2>1, <2>2, Zenon DEF JunctionClean
<1>11. CASE MkdirCall(j) \/ MkdirParent(j) \/ MkdirAgain(j)
  BY <1>2, <1>11 DEF MkdirCall, MkdirParent, MkdirAgain, MakesDirectory, Fails, Puts
<1>12. QED
  BY <1>4, <1>5, <1>6, <1>7, <1>8, <1>9, <1>10, <1>11 DEF Step

\* Whoever does it, none of these leaves something inside what is no directory.
LEMMA TreeKept ==
  ASSUME TreeOK(tree),
         \/ UNCHANGED tree
         \/ \E p : Puts(p) \/ Takes(p)
         \/ \E p \in Paths : Points(p)
         \/ \E p \in Paths, q \in Tops : \E flag : Moves(p, q, flag)
  PROVE  TreeOK(tree')
<1>. USE PathsKnown
<1>1. /\ DOMAIN tree = Paths /\ \A p \in Paths : DOMAIN tree[p] = DOMAIN None
      /\ \A p \in Tops : tree[Inside[p]] # None => tree[p].kind = "dir"
  BY DEF TreeOK
<1>2. None.kind = "none" /\ DOMAIN None = {"id", "kind", "to"}
  BY DEF None
<1>3. CASE UNCHANGED tree
  BY <1>3
<1>4. ASSUME NEW p, Puts(p) PROVE TreeOK(tree')
  <2>1. PICK e : DOMAIN e = DOMAIN None /\ tree' = [tree EXCEPT ![p] = e]
    BY <1>4 DEF Puts, Put
  <2>2. tree[p] = None /\ (p \in Children => tree[Parent(p)].kind = "dir")
    BY <1>4 DEF Puts, Free, Reachable
  <2>3. DOMAIN tree' = Paths /\ \A x \in Paths : tree'[x] = IF x = p THEN e ELSE tree[x]
    BY <1>1, <2>1
  <2>4. ASSUME NEW t \in Tops, tree'[Inside[t]] # None PROVE tree'[t].kind = "dir"
    BY <1>1, <1>2, <2>2, <2>3, <2>4
  <2>5. QED
    BY <1>1, <2>1, <2>3, <2>4 DEF TreeOK
<1>5. ASSUME NEW p, Takes(p) PROVE TreeOK(tree')
  <2>1. tree' = [tree EXCEPT ![p] = None]
    BY <1>5 DEF Takes, Drop
  <2>2. p \in Tops => tree[p].kind # "dir" \/ tree[Inside[p]] = None
    BY <1>5 DEF Takes, Unlinks, RemovesDirectory, Empty
  <2>3. DOMAIN tree' = Paths /\ \A x \in Paths : tree'[x] = IF x = p THEN None ELSE tree[x]
    BY <1>1, <2>1
  <2>4. ASSUME NEW t \in Tops, tree'[Inside[t]] # None PROVE tree'[t].kind = "dir"
    BY <1>1, <2>2, <2>3, <2>4
  <2>5. QED
    BY <1>1, <2>3, <2>4 DEF TreeOK
<1>6. ASSUME NEW p \in Paths, Points(p) PROVE TreeOK(tree')
  <2>1. PICK e : DOMAIN e = DOMAIN None /\ tree' = [tree EXCEPT ![p] = e]
    BY <1>1, <1>6 DEF Points, Put
  <2>2. p \in Tops => tree[Inside[p]] = None
    BY <1>6 DEF Points, Empty
  <2>3. DOMAIN tree' = Paths /\ \A x \in Paths : tree'[x] = IF x = p THEN e ELSE tree[x]
    BY <1>1, <2>1
  <2>4. tree[p].kind = "dir"
    BY <1>6 DEF Points
  <2>5. ASSUME NEW t \in Tops, tree'[Inside[t]] # None PROVE tree'[t].kind = "dir"
    <3>1. p # t
      BY <1>1, <2>2, <2>3, <2>5
    <3>2. tree[Inside[t]] # None
      BY <1>1, <1>2, <2>3, <2>4, <2>5
    <3>3. QED
      BY <1>1, <2>3, <3>1, <3>2
  <2>6. QED
    BY <1>1, <2>1, <2>3, <2>5 DEF TreeOK
<1>7. ASSUME NEW p \in Paths, NEW q \in Tops, NEW flag, Moves(p, q, flag) PROVE TreeOK(tree')
  <2>1. Renames(p, q, flag) /\ tree' = Moved(p, q)
    BY <1>7 DEF Moves
  <2>2. CASE p = q
    BY <2>1, <2>2 DEF Moved
  <2>3. CASE p \in Tops /\ p # q
    <3>1. /\ DOMAIN tree' = Paths /\ tree'[p] = None /\ tree'[Inside[p]] = None
          /\ tree'[q] = tree[p] /\ tree'[Inside[q]] = tree[Inside[p]]
      BY <2>1, <2>3 DEF Moved
    <3>2. QED
      BY <1>1, <2>3, <3>1 DEF TreeOK
  <2>4. CASE p \in Children
    <3>1. DOMAIN tree' = Paths
          /\ \A x \in Paths : tree'[x] = IF x = q THEN tree[p] ELSE IF x = p THEN None ELSE tree[x]
      BY <2>1, <2>4 DEF Moved
    <3>2. Inside[q] = p \/ tree[Inside[q]] = None
      <4>1. tree[q] = None \/ Replaces(p, q)
        BY <2>1, <2>4 DEF Renames
      <4>2. tree[q] = None \/ tree[q].kind # "dir" \/ Empty(q)
        BY <4>1 DEF Replaces
      <4>3. QED
        BY <1>1, <1>2, <4>2 DEF Empty
    <3>3. ASSUME NEW t \in Tops, tree'[Inside[t]] # None PROVE tree'[t].kind = "dir"
      BY <1>1, <2>4, <3>1, <3>2, <3>3
    <3>4. QED
      BY <1>1, <3>1, <3>3 DEF TreeOK
  <2>5. QED
    BY <2>2, <2>3, <2>4 DEF Paths
<1>8. QED
  BY <1>3, <1>4, <1>5, <1>6, <1>7

\* The steps of the jobs and of the other program keep the invariant.
LEMMA PathsInvNext == ASSUME PathsInv, [PathsNext]_pathsVars PROVE PathsInv'
<1>1. TreeOK(tree)
  BY DEF PathsInv
<1>2. CASE UNCHANGED pathsVars
  BY <1>2 DEF pathsVars, PathsInv
<1>3. CASE Foreign
  <2>1. UNCHANGED job /\ others' \in Nat
    BY <1>3 DEF Foreign, PathsInv
  <2>2. \E p : Puts(p) \/ Takes(p)
    BY <1>3 DEF Foreign, Puts, Takes, Entry, None
  <2>3. TreeOK(tree')
    BY <1>1, <2>2, TreeKept
  <2>4. QED
    BY <2>1, <2>3 DEF PathsInv
<1>4. ASSUME NEW j \in Jobs, Submit(j) \/ Step(j) PROVE PathsInv'
  <2>1. DOMAIN job' = Jobs /\ (\A k \in Jobs : JobWell(job'[k])) /\ others' \in Nat
    BY <1>4, StepKeepsJobs DEF PathsInv, Submit, Step
  <2>2. TreeOK(tree')
    <3>1. CASE Submit(j)
      BY <1>1, <3>1 DEF Submit
    <3>2. CASE Step(j)
      BY <1>1, <3>2, StepOnTree, TreeKept
    <3>3. QED
      BY <1>4, <3>1, <3>2
  <2>3. QED
    BY <2>1, <2>2 DEF PathsInv
<1>5. QED
  BY <1>2, <1>3, <1>4 DEF PathsNext

\* At each of its calls a job has done what its place in the worker function says, and
\* what has something inside is a directory.
THEOREM PathsInvariant == PathsSpec => []PathsInv
<1>1. PathsInit => PathsInv
  BY PathsAssumption DEF PathsInit, PathsInv, JobWell, Unsubmitted
<1>2. QED
  BY <1>1, PathsInvNext, PTL DEF PathsSpec

\* A job on names of the file system is all or nothing, across its calls, its fallbacks
\* and its cleaning up (open_job_worker to mkdir_job_worker).
THEOREM JobsAreAllOrNothing == PathsSpec => []AllOrNothing
<1>1. PathsInv => AllOrNothing
  <2>. SUFFICES ASSUME PathsInv, NEW j \in Jobs, job[j].pc = "done"
                PROVE  /\ job[j].ok => job[j].did \in Wanted(job[j].op)
                       /\ ~job[j].ok => job[j].did \subseteq MayLeave(j)
                       /\ job[j].held # Nobody => job[j].ok /\ job[j].op.kind = "open"
    BY DEF AllOrNothing
  <2>1. JobWell(job[j]) /\ job[j].op.kind \in Kinds
    BY JobFields DEF JobWell
  <2>2. CASE job[j].op.kind = "open"
    BY <2>1, <2>2 DEF JobWell, OpenWell, Wanted, MayLeave
  <2>3. CASE job[j].op.kind \in {"kind", "times", "access", "realpath"}
    BY <2>1, <2>3 DEF JobWell, QueryWell, Wanted, MayLeave
  <2>4. CASE job[j].op.kind \in {"remove", "rmdir"}
    BY <2>1, <2>4 DEF JobWell, RemoveWell, Wanted, MayLeave
  <2>5. CASE job[j].op.kind = "rename"
    BY <2>1, <2>5 DEF JobWell, RenameWell, Wanted, MayLeave
  <2>6. CASE job[j].op.kind = "symlink"
    BY <2>1, <2>6 DEF JobWell, SymlinkWell, Wanted, MayLeave
  <2>7. CASE job[j].op.kind = "mkdir"
    BY <2>1, <2>7 DEF JobWell, MkdirWell, Wanted, MayLeave, Flag
  <2>8. QED
    BY <2>1, <2>2, <2>3, <2>4, <2>5, <2>6, <2>7 DEF Kinds
<1>2. QED
  BY <1>1, PathsInvariant, PTL

\* No entry disappears but by a job that was asked to remove or to replace it: a rename
\* takes along what it moves, and RemoveDirectoryW of a junction that failed removes by
\* name.
THEOREM OthersAreAlwaysSpared == PathsSpec => OthersAreSpared
<1>. DEFINE Spared == \A id \in Ids : id \notin Ids' /\ UNCHANGED others =>
                        \E j \in Jobs : job'[j] # job[j] /\ AskedToRemove(j, Whereabouts(id))
<1>1. ASSUME PathsInv, PathsNext PROVE Spared
  <2>. SUFFICES ASSUME NEW id \in Ids, id \notin Ids', UNCHANGED others
                PROVE  \E j \in Jobs : job'[j] # job[j] /\ AskedToRemove(j, Whereabouts(id))
    OBVIOUS
  <2>. USE PathsKnown
  <2>1. PICK p \in Paths : p = Whereabouts(id) /\ tree[p].id = id
    BY DEF Ids, Whereabouts
  <2>2. id # Nobody /\ None.id = Nobody /\ \A x \in Paths : tree'[x].id # id
    BY DEF Ids, None
  <2>3. DOMAIN tree = Paths /\ \A x \in Paths : DOMAIN tree[x] = {"id", "kind", "to"}
    BY <1>1 DEF PathsInv, TreeOK, None
  <2>4. PICK j \in Jobs : Submit(j) \/ Step(j)
    <3>1. ~Foreign
      BY <1>1 DEF Foreign, PathsInv
    <3>2. QED
      BY <1>1, <3>1 DEF PathsNext
  <2>5. CASE UNCHANGED tree
    BY <2>1, <2>2, <2>5
  <2>6. ASSUME NEW q, Puts(q) PROVE FALSE
    <3>1. PICK e : tree[q] = None /\ tree' = [tree EXCEPT ![q] = e]
      BY <2>6 DEF Puts, Put, Free
    <3>2. QED
      BY <2>1, <2>2, <2>3, <3>1
  <2>7. ASSUME NEW q \in Paths, Points(q) PROVE FALSE
    <3>1. PICK to : tree' = [tree EXCEPT ![q] = [tree[q] EXCEPT !.kind = "dirlink", !.to = to]]
      BY <2>7 DEF Points, Put
    <3>2. tree'[p].id = tree[p].id
      BY <2>3, <3>1
    <3>3. QED
      BY <2>1, <2>2, <3>2
  <2>8. CASE Takes(Path(j)) /\ AskedToRemove(j, Path(j)) /\ job'[j] # job[j]
    <3>1. tree' = [tree EXCEPT ![Path(j)] = None]
      BY <2>8 DEF Takes, Drop
    <3>2. p = Path(j)
      BY <2>1, <2>2, <2>3, <3>1
    <3>3. QED
      BY <2>1, <2>8, <3>2
  <2>9. ASSUME NEW m \in Paths, Moves(m, job[j].op.new, Flag(j)), job[j].op.kind = "rename",
               job[j].op.new \in Tops, job'[j] # job[j]
        PROVE  AskedToRemove(j, p)
    <3>1. PICK q \in Tops : q = job[j].op.new
      BY <2>9
    <3>2. Renames(m, q, Flag(j)) /\ tree' = Moved(m, q)
      BY <2>9, <3>1 DEF Moves
    <3>3. m # q
      BY <2>1, <2>2, <3>2 DEF Moved
    <3>4. \A t \in Tops : tree[Inside[t]] # None => tree[t].kind = "dir"
      BY <1>1 DEF PathsInv, TreeOK
    <3>5. tree[q] = None \/ (Flag(j) = "replace" /\ Replaces(m, q))
      BY <3>2, <3>3 DEF Renames
    <3>6. p = q
      <4>1. tree'[q] = tree[m]
        BY <3>2, <3>3 DEF Moved
      <4>2. p # m
        BY <2>1, <2>2, <4>1
      <4>3. CASE m \in Tops
        <5>1. tree'[Inside[q]] = tree[Inside[m]]
          BY <3>2, <3>3, <4>3 DEF Moved
        <5>2. p # Inside[m]
          BY <2>1, <2>2, <5>1
        <5>3. tree[Inside[q]] = None
          <6>1. tree[q] = None \/ tree[q].kind # "dir" \/ Empty(q)
            BY <3>5 DEF Replaces
          <6>2. None.kind = "none"
            BY DEF None
          <6>3. QED
            BY <3>4, <6>1, <6>2 DEF Empty
        <5>4. p # Inside[q]
          BY <2>1, <2>2, <5>3
        <5>5. QED
          BY <3>3, <4>2, <4>3, <5>2, <5>4
      <4>4. CASE m \in Children
        <5>1. \A x \in Paths \ {m, q} : tree'[x] = tree[x]
          BY <3>2, <4>4 DEF Moved
        <5>2. QED
          BY <2>1, <2>2, <4>2, <5>1
      <4>5. QED
        BY <4>3, <4>4
    <3>7. Flag(j) = "replace"
      BY <2>1, <2>2, <3>5, <3>6
    <3>8. QED
      BY <2>9, <3>1, <3>6, <3>7 DEF AskedToRemove
  <2>10. QED
    <3>1. CASE Submit(j)
      BY <2>5, <3>1 DEF Submit
    <3>2. CASE Step(j)
      BY <1>1, <2>1, <2>5, <2>6, <2>7, <2>8, <2>9, <3>2, StepOnTree
    <3>3. QED
      BY <2>4, <3>1, <3>2
<1>2. PathsInv /\ [PathsNext]_pathsVars => [Spared]_pathsVars
  BY <1>1
<1>3. QED
  BY <1>2, PathsInvariant, PTL DEF PathsSpec, OthersAreSpared

------------------------------------------------------------------------------
(* Child processes: AsyncProcess. *)

Places == {"none", "new", "spawning", "waiting", "napping", "stopping", "sleeping", "done"}
Distinct(q) == \A i, j \in 1 .. Len(q) : q[i] = q[j] => i = j

\* The child has ended for those who waited for it.
Ended == child = "gone" \/ (OnWindows /\ child = "zombie")

\* A task is in run_later once, and a round is no longer than run_later.
QueueInv ==
  /\ queue \in Seq(Tasks) /\ Distinct(queue)
  /\ turn \in Nat /\ turn <= Len(queue)
  /\ pc \in [Tasks -> Places]
  /\ pc["run"] = "stopping" /\ Contains(queue, "run") =>
       pc["body"] = "done" /\ pc["handler"] = "done"
  /\ pc["body"] # "none" => pc["run"] \in {"stopping", "done"}
  /\ pc["run"] = "stopping" => pc["body"] # "none"
  /\ pc["body"] = "none" => pc["handler"] = "none"
  /\ pc["run"] = "done" => {pc["body"], pc["handler"]} \subseteq {"none", "done"}

\* The child is there only when it was spawned.
SpawnInv ==
  /\ spawning \in {"none", "called", "created", "done", "failed"}
  /\ pc["run"] = "new" => spawning = "none"
  /\ spawning \in {"none", "called"} => child = "none" /\ handles = {}
  /\ spawning = "none" => pc["run"] \in {"new", "done"}
  /\ spawning \in {"called", "created"} => pc["run"] = "spawning"
  /\ spawning = "failed" => pc["run"] = "spawning" \/ (pc["run"] = "done" /\ told = Error)
  /\ spawning = "done" => "thread" \notin handles

\* The job that waits has waited for the child's end.
JobInv ==
  /\ exit \in Int
  /\ waiter = "blocked" => how \in {"waitpid", "windows"}
  /\ waiter = "interrupted" => "run" \in cancelled /\ pc["run"] = "waiting"
  /\ waiter = "ended" => Ended /\ (~OnWindows => how = "waitpid" /\ jobRet = WorkerExitCode)

\* What the caller is told, or will be told when the group of tasks is done.
ToldInv ==
  /\ told.kind = "code" => pc["run"] = "done" /\ Ended /\ CodeIsTrue
  /\ pc["body"] = "done" => told = Error \/ (told = Raised /\ Ended)
  /\ RunOutlivesChild

\* Once the child is reaped the handler is cancelled.
GraceInv ==
  /\ child = "gone" /\ how # "waitpid" => "handler" \in cancelled \/ pc["run"] = "done"
  /\ GraceSparesOthers

ProcessInv == QueueInv /\ SpawnInv /\ JobInv /\ ToldInv /\ GraceInv

------------------------------------------------------------------------------
(***************************************************************************)
(* Waking a task puts it into run_later once.                               *)
(***************************************************************************)
LEMMA WakeOnce ==
  ASSUME NEW q \in Seq(Tasks), Distinct(q), NEW t \in Tasks
  PROVE  /\ Wake(q, t) \in Seq(Tasks) /\ Distinct(Wake(q, t))
         /\ Len(Wake(q, t)) >= Len(q)
         /\ \A x : Contains(Wake(q, t), x) <=> Contains(q, x) \/ x = t
<1>1. Len(q) \in Nat
  BY LenProperties
<1>2. CASE Contains(q, t)
  BY <1>1, <1>2 DEF Wake
<1>3. CASE ~Contains(q, t)
  <2>1. /\ Wake(q, t) = Append(q, t) /\ Wake(q, t) \in Seq(Tasks)
        /\ Len(Wake(q, t)) = Len(q) + 1
        /\ \A i \in 1 .. Len(q) : Wake(q, t)[i] = q[i]
        /\ Wake(q, t)[Len(q) + 1] = t
    BY <1>3, AppendProperties DEF Wake
  <2>2. \A i \in 1 .. Len(q) : q[i] # t
    BY <1>3 DEF Contains
  <2>3. Distinct(Wake(q, t))
    BY <1>1, <2>1, <2>2 DEF Distinct
  <2>4. \A x : Contains(Wake(q, t), x) <=> Contains(q, x) \/ x = t
    BY <1>1, <2>1 DEF Contains
  <2>. QED  BY <1>1, <2>1, <2>3, <2>4
<1>. QED
  BY <1>2, <1>3

\* The same for several tasks, one after the other.
LEMMA WokenOnce ==
  ASSUME NEW q \in Seq(Tasks), Distinct(q), NEW ts \in Seq(Tasks), Len(ts) <= 3
  PROVE  /\ Woken(q, ts) \in Seq(Tasks) /\ Distinct(Woken(q, ts))
         /\ Len(Woken(q, ts)) >= Len(q)
         /\ \A x : Contains(Woken(q, ts), x) <=> Contains(q, x) \/ Contains(ts, x)
<1>. DEFINE Then(p, i) == IF i <= Len(ts) THEN Wake(p, ts[i]) ELSE p
            First(i) == {ts[j] : j \in {k \in 1 .. Len(ts) : k <= i}}
            Good(p, i) == /\ p \in Seq(Tasks) /\ Distinct(p) /\ Len(p) >= Len(q)
                          /\ \A x : Contains(p, x) <=> Contains(q, x) \/ x \in First(i)
<1>1. Len(ts) \in Nat /\ \A i \in 1 .. Len(ts) : ts[i] \in Tasks
  <2>1. Len(ts) \in Nat
    BY LenProperties
  <2>2. \A i \in 1 .. Len(ts) : ts[i] \in Tasks
    BY ElementOfSeq
  <2>. QED  BY <2>1, <2>2
<1>2. Good(q, 0)
  BY <1>1, LenProperties
<1>3. ASSUME NEW i \in 0 .. 2, NEW p, Good(p, i)
      PROVE  Good(Then(p, i + 1), i + 1)
  <2>1. CASE i + 1 <= Len(ts)
    <3>1. ts[i + 1] \in Tasks /\ First(i + 1) = First(i) \cup {ts[i + 1]}
      BY <1>1, <2>1
    <3>2. Len(p) \in Nat /\ Len(q) \in Nat /\ Len(Wake(p, ts[i + 1])) \in Nat
      BY <1>3, <3>1, WakeOnce, LenProperties
    <3>. DEFINE new == Wake(p, ts[i + 1])
    <3>3. /\ new \in Seq(Tasks) /\ Distinct(new) /\ Len(new) >= Len(p)
          /\ \A x : Contains(new, x) <=> Contains(p, x) \/ x = ts[i + 1]
      BY <1>3, <3>1, WakeOnce
    <3>. HIDE DEF First, new
    <3>4. \A x : Contains(new, x) <=> Contains(q, x) \/ x \in First(i + 1)
      BY <1>3, <3>1, <3>3
    <3>5. Len(new) >= Len(q)
      BY <1>3, <3>2, <3>3 DEF new
    <3>6. Then(p, i + 1) = new
      BY <2>1 DEF new
    <3>. QED  BY <3>3, <3>4, <3>5, <3>6
  <2>2. CASE ~(i + 1 <= Len(ts))
    <3>1. First(i + 1) = First(i)
      BY <1>1, <2>2
    <3>. QED  BY <1>3, <2>2, <3>1
  <2>. QED  BY <2>1, <2>2
<1>. HIDE DEF Good, Then
<1>4. Good(Then(q, 1), 1)
  BY <1>2, <1>3
<1>5. Good(Then(Then(q, 1), 2), 2)
  BY <1>3, <1>4
<1>6. Good(Then(Then(Then(q, 1), 2), 3), 3)
  BY <1>3, <1>5
<1>7. Woken(q, ts) = Then(Then(Then(q, 1), 2), 3)
  BY DEF Woken, Then
<1>8. \A x : x \in First(3) <=> Contains(ts, x)
  BY <1>1 DEF Contains
<1>. QED
  BY <1>6, <1>7, <1>8 DEF Good

\* A task that goes on leaves run_later, until somebody wakes it.
LEMMA ResumedOnce ==
  ASSUME QueueInv, NEW t \in Tasks, NEW ts \in Seq(Tasks), Len(ts) <= 3, Resumed(t, ts)
  PROVE  /\ Contains(queue, t)
         /\ queue' \in Seq(Tasks) /\ Distinct(queue')
         /\ turn' \in Nat /\ turn' <= Len(queue')
         /\ \A x : Contains(queue', x) <=> (Contains(queue, x) /\ x # t) \/ Contains(ts, x)
<1>1. /\ turn > 0 /\ Head(queue) = t /\ turn' = turn - 1
      /\ queue' = Woken(Tail(queue), ts)
  BY DEF Resumed
<1>2. /\ queue \in Seq(Tasks) /\ Distinct(queue) /\ turn \in Nat /\ turn <= Len(queue)
      /\ Len(queue) \in Nat
  BY LenProperties DEF QueueInv
<1>3. queue # <<>>
  BY <1>1, <1>2
<1>4. /\ Tail(queue) \in Seq(Tasks) /\ Len(Tail(queue)) = Len(queue) - 1
      /\ \A i \in 1 .. Len(queue) - 1 : Tail(queue)[i] = queue[i + 1]
      /\ queue[1] = t
  BY <1>1, <1>2, <1>3, HeadTailProperties
<1>5. Distinct(Tail(queue))
  BY <1>2, <1>4 DEF Distinct
<1>6. \A x : Contains(Tail(queue), x) <=> Contains(queue, x) /\ x # t
  <2>1. ASSUME NEW x, Contains(Tail(queue), x) PROVE Contains(queue, x) /\ x # t
    <3>1. PICK i \in 1 .. Len(queue) - 1 : queue[i + 1] = x
      BY <1>2, <1>4, <2>1 DEF Contains
    <3>. QED  BY <1>2, <1>4, <3>1 DEF Contains, Distinct
  <2>2. ASSUME NEW x, Contains(queue, x), x # t PROVE Contains(Tail(queue), x)
    <3>1. PICK i \in 1 .. Len(queue) : queue[i] = x
      BY <2>2 DEF Contains
    <3>2. i - 1 \in 1 .. Len(queue) - 1 /\ Tail(queue)[i - 1] = x
      BY <1>2, <1>4, <2>2, <3>1
    <3>. QED  BY <1>2, <1>4, <3>2 DEF Contains
  <2>. QED  BY <2>1, <2>2
<1>7. Contains(queue, t)
  BY <1>2, <1>3, <1>4 DEF Contains
<1>8. /\ queue' \in Seq(Tasks) /\ Distinct(queue') /\ Len(queue') >= Len(queue) - 1
      /\ \A x : Contains(queue', x) <=> Contains(Tail(queue), x) \/ Contains(ts, x)
  BY <1>1, <1>4, <1>5, WokenOnce
<1>9. Len(queue') \in Nat
  BY <1>8, LenProperties
<1>. QED
  BY <1>1, <1>2, <1>6, <1>7, <1>8, <1>9

\* The sequences of tasks that a step wakes.
LEMMA Woke ==
  /\ <<>> \in Seq(Tasks) /\ Len(<<>>) <= 3 /\ \A x : ~Contains(<<>>, x)
  /\ \A t \in Tasks : /\ <<t>> \in Seq(Tasks) /\ Len(<<t>>) <= 3
                      /\ \A x : Contains(<<t>>, x) <=> x = t
BY DEF Contains

------------------------------------------------------------------------------
(* What a wait does: it is broken off, goes on, or ends. *)

Stops(t) ==
  /\ BrokenOff(t) /\ Stop
  /\ child' = child /\ handles' \in {handles, handles \cup {"proc"}} /\ waiter' \in {waiter, "none"}

GoesOnWaiting(t) ==
  /\ \E where \in {"waiting", "napping"} : Waits(t, where)
  /\ child' = child /\ handles' \in {handles, handles \cup {"proc"}}
  /\ waiter' = waiter \/ (waiter' = "blocked" /\ how \in {"waitpid", "windows"})

KnowsEnd(result) ==
  \/ result = Error /\ child' = child /\ waiter' = waiter
  \/ result = Code(exit) /\ child = "zombie" /\ child' = "gone" /\ waiter' = waiter
  \/ /\ result = Code(IF OnWindows THEN exit ELSE jobRet)
     /\ waiter = "ended" /\ child' = child /\ waiter' = "none"

Finishes(t) ==
  \E result :
    /\ KnowsEnd(result)
    /\ \/ t = "run" /\ Resumed(t, <<>>) /\ Return(result)
       \/ /\ t = "body" /\ BodyEnds(result)
          /\ Resumed(t, IF pc["handler"] = "done" THEN <<"run">> ELSE <<"handler">>)

\* Whatever the system, a wait begins and goes on by one of the three.
LEMMA WaitMoves ==
  ASSUME NEW t \in {"run", "body"}, waiter = "interrupted" => BrokenOff(t),
         \/ BeginWait(t) /\ waiter # "interrupted"
         \/ EndWait(t)
         \/ t = "run" /\ RegisterFails /\ UNCHANGED <<child, waiter>> /\ waiter # "interrupted"
  PROVE  Stops(t) \/ GoesOnWaiting(t) \/ Finishes(t)
<1>. USE DEF Stops, GoesOnWaiting, BrokenOff
<1>1. ASSUME NEW result, WaitEnds(t, result), KnowsEnd(result)
      PROVE  Stops(t) \/ Finishes(t)
  BY <1>1 DEF WaitEnds, KnowsEnd, Finishes, Code, Error
<1>2. ASSUME NEW where \in {"waiting", "napping"}, Suspends(t, where),
             child' = child, handles' \in {handles, handles \cup {"proc"}},
             waiter' = waiter \/ (waiter' = "blocked" /\ how \in {"waitpid", "windows"} /\ ~BrokenOff(t))
      PROVE  Stops(t) \/ GoesOnWaiting(t)
  BY <1>2 DEF Suspends
<1>3. ASSUME NEW otherwise, GetResult(t, otherwise)
      PROVE  \/ child = "zombie" /\ child' = "gone" /\ WaitEnds(t, Code(exit))
             \/ otherwise /\ UNCHANGED <<child, handles>>
  BY <1>3 DEF GetResult
<1>4. CASE BeginWait(t) /\ waiter # "interrupted"
  <2>1. CASE how = "pidfd" /\ GetResult(t, Suspends(t, "waiting")) /\ UNCHANGED waiter
    <3>1. CASE child = "zombie" /\ child' = "gone" /\ WaitEnds(t, Code(exit))
      BY <1>1, <2>1, <3>1 DEF KnowsEnd
    <3>2. CASE Suspends(t, "waiting") /\ UNCHANGED <<child, handles>>
      BY <1>2, <2>1, <3>2
    <3>. QED  BY <1>3, <2>1, <3>1, <3>2
  <2>2. CASE how = "kqueue" /\ RegisterPid(t) /\ UNCHANGED waiter
    <3>1. CASE WaitEnds(t, Error) /\ UNCHANGED child
      BY <1>1, <2>2, <3>1 DEF KnowsEnd
    <3>2. CASE child = "running" /\ Suspends(t, "waiting")
               /\ handles' = handles \cup {"proc"} /\ UNCHANGED child
      BY <1>2, <2>2, <3>2
    <3>3. CASE child = "zombie" /\ child' = "gone" /\ WaitEnds(t, Code(exit))
      BY <1>1, <2>2, <3>3 DEF KnowsEnd
    <3>4. CASE Suspends(t, "napping") /\ UNCHANGED <<child, handles>>
      BY <1>2, <2>2, <3>4
    <3>. QED  BY <1>3, <2>2, <3>1, <3>2, <3>3, <3>4 DEF RegisterPid
  <2>3. CASE /\ how \in {"waitpid", "windows"}
             /\ Suspends(t, "waiting") /\ UNCHANGED <<child, handles>>
             /\ waiter' = IF BrokenOff(t) THEN waiter ELSE "blocked"
    BY <1>2, <2>3
  <2>. QED  BY <1>4, <2>1, <2>2, <2>3 DEF BeginWait
<1>5. CASE EndWait(t)
  <2>1. CASE /\ waiter = "interrupted" \/ BrokenOff(t)
             /\ Stop /\ UNCHANGED <<child, handles>> /\ waiter' \in {waiter, "none"}
    BY <2>1
  <2>2. CASE /\ waiter = "none" /\ GetResult(t, how = "kqueue" /\ Waits(t, "napping"))
             /\ UNCHANGED waiter
    <3>1. CASE child = "zombie" /\ child' = "gone" /\ WaitEnds(t, Code(exit))
      BY <1>1, <2>2, <3>1 DEF KnowsEnd
    <3>2. CASE Waits(t, "napping") /\ UNCHANGED <<child, handles>>
      BY <2>2, <3>2
    <3>. QED  BY <1>3, <2>2, <3>1, <3>2
  <2>3. CASE /\ waiter = "ended" /\ WaitEnds(t, Code(IF OnWindows THEN exit ELSE jobRet))
             /\ waiter' = "none" /\ UNCHANGED child
    BY <1>1, <2>3 DEF KnowsEnd
  <2>. QED  BY <1>5, <2>1, <2>2, <2>3 DEF EndWait
<1>6. CASE t = "run" /\ RegisterFails /\ UNCHANGED <<child, waiter>> /\ waiter # "interrupted"
  BY <1>6 DEF RegisterFails, Finishes, KnowsEnd
<1>. QED
  BY <1>4, <1>5, <1>6

\* A job that was interrupted is taken up by the step that says so.
LEMMA TakenUp ==
  ASSUME NEW t \in {"run", "body"},
         \/ BeginWait(t) /\ waiter # "interrupted"
         \/ EndWait(t)
         \/ t = "run" /\ RegisterFails /\ UNCHANGED <<child, waiter>> /\ waiter # "interrupted"
  PROVE  waiter' # "interrupted"
BY DEF BeginWait, EndWait

\* Who waits, and what a wait leaves alone.
Going(t) ==
  /\ spawning = "done"
  /\ t = "run" => pc["run"] \in {"spawning", "waiting", "napping"} /\ pc["body"] = "none"
  /\ t = "body" => pc["body"] \in {"new", "waiting", "napping"} /\ pc["run"] = "stopping"

Rest == UNCHANGED <<how, style, exit, killed, spawning, jobRet, event, strays>>

\* The invariant survives a wait that is broken off.
LEMMA StopKeeps ==
  ASSUME ProcessInv, Going("run"), Stops("run"), waiter' # "interrupted", Rest
  PROVE  ProcessInv'
<1>1. /\ Resumed("run", <<"body">>)
      /\ pc' = [pc EXCEPT !["run"] = "stopping", !["body"] = "new"]
      /\ UNCHANGED <<cancelled, told>>
  BY DEF Stops, Stop
<1>2. /\ queue' \in Seq(Tasks) /\ Distinct(queue') /\ turn' \in Nat /\ turn' <= Len(queue')
      /\ ~Contains(queue', "run")
  BY <1>1, ResumedOnce, Woke DEF ProcessInv, Tasks
<1>3. /\ pc' \in [Tasks -> Places] /\ pc'["run"] = "stopping" /\ pc'["body"] = "new"
  BY <1>1 DEF ProcessInv, QueueInv, Tasks, Places
<1>4. QueueInv'
  BY <1>2, <1>3 DEF QueueInv
<1>5. SpawnInv'
  BY <1>3 DEF ProcessInv, SpawnInv, Going, Rest, Stops
<1>6. JobInv'
  BY <1>3 DEF ProcessInv, JobInv, Going, Rest, Stops, Ended, OnWindows, WorkerExitCode
<1>7. ToldInv'
  BY <1>1, <1>3 DEF ProcessInv, ToldInv, Going, RunOutlivesChild
<1>8. GraceInv'
  BY <1>1, <1>3 DEF ProcessInv, GraceInv, Going, Rest, Stops, GraceSparesOthers
<1>. QED
  BY <1>4, <1>5, <1>6, <1>7, <1>8 DEF ProcessInv

\* The invariant survives a wait that goes on.
LEMMA WaitKeeps ==
  ASSUME ProcessInv, NEW t \in {"run", "body"}, Going(t), GoesOnWaiting(t),
         waiter' # "interrupted", Rest
  PROVE  ProcessInv'
<1>1. PICK where \in {"waiting", "napping"} : Waits(t, where)
  BY DEF GoesOnWaiting
<1>2. /\ pc' = [pc EXCEPT ![t] = where,
                          !["handler"] = IF t = "body" /\ @ = "none" THEN "new" ELSE @]
      /\ Resumed(t, IF pc[t] = "new" THEN <<"handler">> ELSE <<>>)
      /\ UNCHANGED <<cancelled, told>>
  BY <1>1 DEF Waits
<1>3. /\ queue' \in Seq(Tasks) /\ Distinct(queue') /\ turn' \in Nat /\ turn' <= Len(queue')
      /\ Contains(queue', "run") => Contains(queue, "run")
  BY <1>2, ResumedOnce, Woke DEF ProcessInv, Tasks
<1>4. /\ pc' \in [Tasks -> Places] /\ pc'[t] = where
      /\ t = "run" => pc'["body"] = "none" /\ pc'["handler"] = "none"
      /\ t = "body" => pc'["run"] = "stopping"
  BY <1>2 DEF ProcessInv, QueueInv, Going, Tasks, Places
<1>5. QueueInv'
  BY <1>3, <1>4 DEF ProcessInv, QueueInv, Going
<1>6. SpawnInv'
  BY <1>4 DEF ProcessInv, SpawnInv, Going, Rest, GoesOnWaiting
<1>7. JobInv'
  BY <1>2, <1>4
  DEF ProcessInv, JobInv, Going, Rest, GoesOnWaiting, Ended, OnWindows, WorkerExitCode
<1>8. ToldInv'
  BY <1>2, <1>4 DEF ProcessInv, ToldInv, Going, RunOutlivesChild
<1>9. GraceInv'
  BY <1>2, <1>4 DEF ProcessInv, GraceInv, Going, Rest, GoesOnWaiting, GraceSparesOthers
<1>. QED
  BY <1>5, <1>6, <1>7, <1>8, <1>9 DEF ProcessInv

\* The invariant survives the end of a wait.
LEMMA FinishKeeps ==
  ASSUME ProcessInv, NEW t \in {"run", "body"}, Going(t), Finishes(t),
         waiter' # "interrupted", Rest
  PROVE  ProcessInv'
<1>1. PICK result :
        /\ KnowsEnd(result)
        /\ \/ t = "run" /\ Resumed(t, <<>>) /\ Return(result)
           \/ /\ t = "body" /\ BodyEnds(result)
              /\ Resumed(t, IF pc["handler"] = "done" THEN <<"run">> ELSE <<"handler">>)
  BY DEF Finishes
<1>2. result = Error \/ (/\ result.kind = "code" /\ Ended'
                        /\ \/ result.code = exit'
                           \/ how' = "waitpid" /\ exit' < 0 /\ result.code = 0)
  BY <1>1 DEF KnowsEnd, ProcessInv, JobInv, Ended, OnWindows, Code, WorkerExitCode, Rest
<1>3. /\ waiter' \in {waiter, "none"} /\ child' \in {child, "gone"} /\ (child' # child => child' = "gone")
      /\ Ended => Ended'
  BY <1>1 DEF KnowsEnd, Ended, OnWindows, Rest
<1>4. JobInv'
  BY <1>1, <1>3
  DEF ProcessInv, JobInv, Going, Rest, KnowsEnd, OnWindows, WorkerExitCode, Ended, Return, BodyEnds
<1>5. CASE t = "run"
  <2>1. /\ Resumed(t, <<>>) /\ pc' = [pc EXCEPT !["run"] = "done"] /\ told' = result
        /\ handles' = handles \cap {"thread"} /\ UNCHANGED cancelled
    BY <1>1, <1>5 DEF Return
  <2>2. /\ queue' \in Seq(Tasks) /\ Distinct(queue') /\ turn' \in Nat /\ turn' <= Len(queue')
    BY <2>1, ResumedOnce, Woke DEF ProcessInv, Tasks
  <2>3. /\ pc' \in [Tasks -> Places] /\ pc'["run"] = "done"
        /\ pc'["body"] = "none" /\ pc'["handler"] = "none"
    BY <1>5, <2>1 DEF ProcessInv, QueueInv, Going, Tasks, Places
  <2>4. QueueInv'
    BY <2>2, <2>3 DEF QueueInv
  <2>5. SpawnInv' /\ handles' = {}
    BY <2>1, <2>3 DEF ProcessInv, SpawnInv, Going, Rest
  <2>6. ToldInv'
    BY <1>2, <2>1, <2>3, <2>5 DEF ToldInv, CodeIsTrue, RunOutlivesChild, Ended, OnWindows, Error
  <2>7. GraceInv'
    BY <2>3 DEF ProcessInv, GraceInv, GraceSparesOthers, Rest
  <2>. QED  BY <1>4, <2>4, <2>5, <2>6, <2>7 DEF ProcessInv
<1>6. CASE t = "body"
  <2>1. /\ Resumed(t, IF pc["handler"] = "done" THEN <<"run">> ELSE <<"handler">>)
        /\ pc' = [pc EXCEPT !["body"] = "done", !["handler"] = IF @ = "none" THEN "new" ELSE @]
        /\ cancelled' = cancelled \cup {"handler"}
        /\ told' = IF result = Error THEN Error ELSE Raised
        /\ UNCHANGED handles
    BY <1>1, <1>6 DEF BodyEnds
  <2>2. /\ queue' \in Seq(Tasks) /\ Distinct(queue') /\ turn' \in Nat /\ turn' <= Len(queue')
        /\ Contains(queue', "run") => Contains(queue, "run") \/ pc["handler"] = "done"
    BY <2>1, ResumedOnce, Woke DEF ProcessInv, Tasks
  <2>3. /\ pc' \in [Tasks -> Places] /\ pc'["run"] = "stopping"
        /\ pc'["body"] = "done" /\ (pc["handler"] = "done" => pc'["handler"] = "done")
    BY <1>6, <2>1 DEF ProcessInv, QueueInv, Going, Tasks, Places
  <2>4. QueueInv'
    BY <1>6, <2>2, <2>3 DEF ProcessInv, QueueInv, Going
  <2>5. SpawnInv'
    BY <2>1, <2>3 DEF ProcessInv, SpawnInv, Going, Rest
  <2>6. ToldInv'
    BY <1>2, <2>1, <2>3 DEF ToldInv, RunOutlivesChild, Error, Raised
  <2>7. GraceInv'
    BY <2>1, <2>3 DEF ProcessInv, GraceInv, GraceSparesOthers, Rest
  <2>. QED  BY <1>4, <2>4, <2>5, <2>6, <2>7 DEF ProcessInv
<1>. QED
  BY <1>5, <1>6

------------------------------------------------------------------------------
(***************************************************************************)
(* The child and the worker threads leave the tasks alone.                  *)
(***************************************************************************)
LEMMA BesideKeeps ==
  ASSUME ProcessInv, UNCHANGED taskVars,
         \/ ChildEnds \/ ChildDies \/ CanBeReaped \/ SpawnFails \/ Create \/ Created
         \/ WaitJobEnds \/ WaitJobInterrupted
  PROVE  ProcessInv'
<1>. USE ProcessAssumption
<1>1. QueueInv'
  BY DEF ProcessInv, QueueInv, taskVars
<1>. USE DEF ProcessInv, SpawnInv, JobInv, ToldInv, GraceInv, Ended, OnWindows, WorkerExitCode,
             CodeIsTrue, RunOutlivesChild, GraceSparesOthers, Error, taskVars, childVars, jobVars
<1>2. ASSUME NEW n \in Int, Ends(n) PROVE ProcessInv'
  BY <1>1, <1>2 DEF Ends
<1>3. CASE CanBeReaped
  BY <1>1, <1>3 DEF CanBeReaped
<1>4. CASE SpawnFails
  BY <1>1, <1>4 DEF SpawnFails, QueueInv
<1>5. CASE Create
  BY <1>1, <1>5 DEF Create, PosixSpawn, CreateProcess, QueueInv
<1>6. CASE Created
  BY <1>1, <1>6 DEF Created, OpenPidfd, Assign, QueueInv
<1>7. CASE WaitJobEnds
  BY <1>1, <1>7 DEF WaitJobEnds
<1>8. CASE WaitJobInterrupted
  BY <1>1, <1>8 DEF WaitJobInterrupted
<1>. QED
  BY <1>2, <1>3, <1>4, <1>5, <1>6, <1>7, <1>8 DEF ChildEnds, ChildDies

\* The caller is cancelled.
LEMMA CancelKeeps == ASSUME ProcessInv, Cancel PROVE ProcessInv'
<1>1. /\ queue' \in Seq(Tasks) /\ Distinct(queue') /\ Len(queue') >= Len(queue)
      /\ queue' = queue \/ pc["run"] \in {"napping", "waiting"}
  <2>1. queue \in Seq(Tasks) /\ Distinct(queue) /\ Len(queue) \in Nat /\ "run" \in Tasks
    BY LenProperties DEF ProcessInv, QueueInv, Tasks
  <2>2. CASE queue' = queue
    BY <2>1, <2>2
  <2>3. CASE queue' = Woken(queue, <<"run">>) /\ pc["run"] \in {"napping", "waiting"}
    <3>1. <<"run">> \in Seq(Tasks) /\ Len(<<"run">>) <= 3
      BY <2>1, Woke
    <3>. QED  BY <2>1, <2>3, <3>1, WokenOnce
  <2>. QED  BY <2>2, <2>3 DEF Cancel
<1>2. Len(queue) \in Nat /\ Len(queue') \in Nat
  BY <1>1, LenProperties DEF ProcessInv, QueueInv
<1>3. QueueInv'
  BY <1>1, <1>2 DEF Cancel, ProcessInv, QueueInv
<1>4. SpawnInv' /\ JobInv' /\ ToldInv' /\ GraceInv'
  BY DEF Cancel, ProcessInv, SpawnInv, JobInv, ToldInv, GraceInv, Ended, OnWindows, WorkerExitCode,
         CodeIsTrue, RunOutlivesChild, GraceSparesOthers, childVars, jobVars
<1>. QED
  BY <1>3, <1>4 DEF ProcessInv

\* The loop polls.
LEMMA PollKeeps == ASSUME ProcessInv, NEW due \in Orders, Poll(due) PROVE ProcessInv'
<1>. DEFINE ts == due \o (IF event THEN Waiters ELSE <<>>)
<1>1. /\ due \in Seq(Tasks) /\ Len(due) <= 2
      /\ \A x : Contains(due, x) => x \in Sleepers
  <2>1. {due[i] : i \in 1 .. Len(due)} \subseteq Sleepers
    BY DEF Poll
  <2>2. \A x : Contains(due, x) => x \in Sleepers
    BY <2>1 DEF Contains
  <2>3. due \in Seq(Tasks) /\ Len(due) <= 2
    <3>1. {"run", "body", "handler"} = Tasks
      BY DEF Tasks
    <3>2. CASE due = <<>>
      BY <3>2
    <3>3. CASE \E t \in Tasks : due = <<t>>
      BY <3>3
    <3>4. CASE \E t, u \in Tasks : due = <<t, u>>
      BY <3>4
    <3>. QED  BY <3>1, <3>2, <3>3, <3>4, Zenon DEF Orders
  <2>. QED  BY <2>2, <2>3
<1>2. /\ (IF event THEN Waiters ELSE <<>>) \in Seq(Tasks)
      /\ Len(IF event THEN Waiters ELSE <<>>) <= 1
      /\ Contains(IF event THEN Waiters ELSE <<>>, "run") => pc["run"] \in {"spawning", "waiting"}
  BY DEF Waiters, Tasks, Contains
<1>3. /\ ts \in Seq(Tasks) /\ Len(ts) <= 3
      /\ Contains(ts, "run") => pc["run"] \in {"spawning", "waiting", "sleeping", "napping"}
  <2>. DEFINE ws == IF event THEN Waiters ELSE <<>>
  <2>1. /\ ts \in Seq(Tasks) /\ Len(ts) = Len(due) + Len(ws)
        /\ \A i \in 1 .. Len(due) + Len(ws) :
             ts[i] = IF i <= Len(due) THEN due[i] ELSE ws[i - Len(due)]
    BY <1>1, <1>2, ConcatProperties
  <2>2. Len(due) \in Nat /\ Len(ws) \in Nat
    BY <1>1, <1>2, LenProperties
  <2>. HIDE DEF ts, ws
  <2>3. Contains(ts, "run") => Contains(due, "run") \/ Contains(ws, "run")
    BY <2>1, <2>2 DEF Contains
  <2>4. Len(ts) <= 3
    BY <1>1, <1>2, <2>1, <2>2 DEF ws
  <2>5. Contains(ts, "run") => pc["run"] \in {"spawning", "waiting", "sleeping", "napping"}
    BY <1>1, <1>2, <2>3 DEF ws, Sleepers
  <2>. QED  BY <2>1, <2>4, <2>5
<1>4. queue' = Woken(queue, ts) /\ turn' = Len(queue')
  BY DEF Poll
<1>. HIDE DEF ts
<1>5. /\ queue' \in Seq(Tasks) /\ Distinct(queue')
      /\ Contains(queue', "run") => Contains(queue, "run") \/ Contains(ts, "run")
  BY <1>3, <1>4, WokenOnce DEF ProcessInv, QueueInv
<1>6. turn' \in Nat /\ turn' <= Len(queue')
  BY <1>4, <1>5, LenProperties
<1>7. QueueInv'
  BY <1>3, <1>5, <1>6 DEF Poll, ProcessInv, QueueInv
<1>8. SpawnInv' /\ JobInv' /\ ToldInv' /\ GraceInv'
  BY DEF Poll, ProcessInv, SpawnInv, JobInv, ToldInv, GraceInv, Ended, OnWindows, WorkerExitCode,
         CodeIsTrue, RunOutlivesChild, GraceSparesOthers, childVars, jobVars
<1>. QED
  BY <1>7, <1>8 DEF ProcessInv

\* A task takes a step.
LEMMA TaskKeeps == ASSUME ProcessInv, TaskStep PROVE ProcessInv'
<1>1. UNCHANGED <<how, style, exit, jobRet, event>>
  BY DEF TaskStep
<1>. USE DEF ProcessInv
<1>2. CASE RunBegins
  <2>1. /\ Resumed("run", <<>>) /\ pc["run"] = "new"
        /\ UNCHANGED <<child, waiter, killed, strays, cancelled>>
        /\ \/ /\ pc' = [pc EXCEPT !["run"] = "done"] /\ told' = Raised /\ spawning' = spawning
              /\ handles' = handles \cap {"thread"}
           \/ /\ pc' = [pc EXCEPT !["run"] = "spawning"] /\ spawning' = "called"
              /\ UNCHANGED <<told, handles>>
    BY <1>2 DEF RunBegins, Return
  <2>2. /\ queue' \in Seq(Tasks) /\ Distinct(queue') /\ turn' \in Nat /\ turn' <= Len(queue')
    BY <2>1, ResumedOnce, Woke DEF Tasks
  <2>3. /\ pc' \in [Tasks -> Places] /\ pc'["run"] \in {"done", "spawning"}
        /\ pc'["body"] = "none" /\ pc'["handler"] = "none"
        /\ spawning = "none" /\ child = "none" /\ handles = {}
    BY <2>1 DEF QueueInv, SpawnInv, Tasks, Places
  <2>4. QueueInv'
    BY <2>2, <2>3 DEF QueueInv
  <2>5. SpawnInv'
    BY <2>1, <2>3 DEF SpawnInv, QueueInv, Tasks
  <2>6. JobInv' /\ GraceInv'
    BY <1>1, <2>1, <2>3
    DEF JobInv, GraceInv, GraceSparesOthers, Ended, OnWindows, WorkerExitCode
  <2>7. ToldInv'
    BY <1>1, <2>1, <2>3 DEF ToldInv, QueueInv, RunOutlivesChild, Raised, Tasks
  <2>. QED  BY <2>4, <2>5, <2>6, <2>7
<1>3. ASSUME NEW t \in {"run", "body"}, Going(t), Rest,
             Stops(t) \/ GoesOnWaiting(t) \/ Finishes(t), waiter' # "interrupted"
      PROVE  ProcessInv'
  BY <1>3, StopKeeps, WaitKeeps, FinishKeeps DEF Stops, BrokenOff
<1>4. CASE RunSpawned
  <2>1. pc["run"] = "spawning" /\ UNCHANGED <<spawning, killed, strays>>
        /\ pc["body"] = "none" /\ waiter # "interrupted"
    BY <1>4 DEF RunSpawned, QueueInv, JobInv
  <2>2. CASE /\ spawning = "failed" /\ Resumed("run", <<>>)
             /\ pc' = [pc EXCEPT !["run"] = "done"] /\ told' = Error
             /\ UNCHANGED <<cancelled, handles, child, waiter>>
    <3>2. /\ queue' \in Seq(Tasks) /\ Distinct(queue') /\ turn' \in Nat /\ turn' <= Len(queue')
      BY <2>2, ResumedOnce, Woke DEF Tasks
    <3>3. /\ pc' \in [Tasks -> Places] /\ pc'["run"] = "done"
          /\ pc'["body"] = "none" /\ pc'["handler"] = "none"
      BY <2>1, <2>2 DEF QueueInv, Tasks, Places
    <3>4. QueueInv'
      BY <3>2, <3>3 DEF QueueInv
    <3>5. SpawnInv'
      BY <2>1, <2>2, <3>3 DEF SpawnInv
    <3>6. JobInv' /\ GraceInv' /\ ToldInv'
      BY <1>1, <2>1, <2>2, <3>3
      DEF JobInv, GraceInv, ToldInv, GraceSparesOthers, Ended, OnWindows, WorkerExitCode,
          RunOutlivesChild, Error
    <3>. QED  BY <3>4, <3>5, <3>6
  <2>3. CASE spawning = "done" /\ RegisterFails /\ UNCHANGED <<child, waiter>>
    BY <1>1, <1>3, <2>1, <2>3, WaitMoves, TakenUp DEF Going, Rest
  <2>4. CASE spawning = "done" /\ BeginWait("run")
    BY <1>1, <1>3, <2>1, <2>4, WaitMoves, TakenUp DEF Going, Rest
  <2>. QED  BY <1>4, <2>2, <2>3, <2>4 DEF RunSpawned
<1>5. CASE RunStopped
  <2>1. /\ pc["run"] = "stopping" /\ Resumed("run", <<>>)
        /\ pc' = [pc EXCEPT !["run"] = "done"] /\ handles' = handles \cap {"thread"}
        /\ UNCHANGED <<told, cancelled, child, waiter, spawning, killed, strays>>
    BY <1>5 DEF RunStopped, Return
  <2>2. /\ queue' \in Seq(Tasks) /\ Distinct(queue') /\ turn' \in Nat /\ turn' <= Len(queue')
        /\ Contains(queue, "run")
    BY <2>1, ResumedOnce, Woke DEF Tasks
  <2>3. /\ pc' \in [Tasks -> Places] /\ pc'["run"] = "done"
        /\ pc'["body"] = "done" /\ pc'["handler"] = "done" /\ pc["body"] = "done"
    BY <2>1, <2>2 DEF QueueInv, Tasks, Places
  <2>4. QueueInv'
    BY <2>2, <2>3 DEF QueueInv
  <2>5. SpawnInv' /\ spawning = "done"
    BY <2>1, <2>3 DEF SpawnInv
  <2>6. JobInv' /\ GraceInv'
    BY <1>1, <2>1, <2>3 DEF JobInv, GraceInv, GraceSparesOthers, Ended, OnWindows, WorkerExitCode
  <2>7. handles' = {}
    BY <2>1, <2>5 DEF SpawnInv
  <2>8. ToldInv'
    BY <1>1, <2>1, <2>3, <2>7 DEF ToldInv, RunOutlivesChild, Error, Raised, Ended, OnWindows
  <2>. QED  BY <2>4, <2>5, <2>6, <2>8
<1>6. CASE BodyBegins
  <2>1. /\ pc["body"] = "new" /\ BeginWait("body") /\ UNCHANGED <<spawning, killed, strays>>
        /\ pc["run"] = "stopping" /\ waiter # "interrupted" /\ spawning = "done"
    BY <1>6 DEF BodyBegins, QueueInv, JobInv, SpawnInv
  <2>. QED  BY <1>1, <1>3, <2>1, WaitMoves, TakenUp DEF Going, Rest
<1>7. CASE WaitGoesOn("run")
  <2>1. /\ pc["run"] \in {"waiting", "napping"} /\ EndWait("run")
        /\ UNCHANGED <<spawning, killed, strays>>
        /\ pc["body"] = "none" /\ spawning = "done"
    BY <1>7 DEF WaitGoesOn, QueueInv, SpawnInv
  <2>2. waiter = "interrupted" => BrokenOff("run")
    BY <2>1 DEF JobInv, BrokenOff
  <2>. QED  BY <1>1, <1>3, <2>1, <2>2, WaitMoves, TakenUp DEF Going, Rest
<1>8. CASE WaitGoesOn("body")
  <2>1. /\ pc["body"] \in {"waiting", "napping"} /\ EndWait("body")
        /\ UNCHANGED <<spawning, killed, strays>>
        /\ pc["run"] = "stopping" /\ spawning = "done" /\ waiter # "interrupted"
    BY <1>8 DEF WaitGoesOn, QueueInv, SpawnInv, JobInv
  <2>. QED  BY <1>1, <1>3, <2>1, WaitMoves, TakenUp DEF Going, Rest
<1>9. CASE HandlerBegins \/ HandlerGoesOn
  <2>1. /\ UNCHANGED <<child, waiter, spawning, cancelled, told, handles>>
        /\ pc["handler"] \in {"new", "sleeping"}
    BY <1>9 DEF HandlerBegins, HandlerGoesOn
  <2>2. PICK place \in {"done", "sleeping"} :
          /\ pc' = [pc EXCEPT !["handler"] = place]
          /\ \/ /\ place = "done"
                /\ Resumed("handler", IF pc["body"] = "done" THEN <<"run">> ELSE <<>>)
             \/ Resumed("handler", <<>>)
    BY <1>9 DEF HandlerBegins, HandlerGoesOn, HandlerEnds
  <2>3. /\ queue' \in Seq(Tasks) /\ Distinct(queue') /\ turn' \in Nat /\ turn' <= Len(queue')
        /\ Contains(queue', "run") =>
             Contains(queue, "run") \/ (pc["body"] = "done" /\ place = "done")
    BY <2>2, ResumedOnce, Woke DEF Tasks
  <2>4. /\ pc' \in [Tasks -> Places] /\ pc'["run"] = pc["run"] /\ pc'["body"] = pc["body"]
        /\ pc'["handler"] = place /\ pc["run"] = "stopping" /\ pc["body"] # "none"
    BY <2>1, <2>2 DEF QueueInv, Tasks, Places
  <2>5. QueueInv'
    BY <2>1, <2>3, <2>4 DEF QueueInv
  <2>6. SpawnInv' /\ JobInv' /\ ToldInv'
    BY <1>1, <2>1, <2>4
    DEF SpawnInv, JobInv, ToldInv, Ended, OnWindows, WorkerExitCode, CodeIsTrue, RunOutlivesChild
  <2>7. GraceSparesOthers'
    <3>1. strays' \in {strays, strays \cup {Term}} \/ style = "hard"
            \/ (strays' = strays \cup {Kill} /\ child = "gone" /\ "handler" \notin cancelled)
      BY <1>9 DEF HandlerBegins, HandlerGoesOn, GraceIsOver, Signal
    <3>. QED  BY <1>1, <2>4, <3>1, ProcessAssumption DEF GraceInv, GraceSparesOthers
  <2>8. GraceInv'
    BY <1>1, <2>1, <2>4, <2>7 DEF GraceInv
  <2>. QED  BY <2>5, <2>6, <2>8
<1>. QED
  BY <1>2, <1>4, <1>5, <1>6, <1>7, <1>8, <1>9 DEF TaskStep

\* ProcessInv holds always.
LEMMA ProcessHolds == ProcessSpec => []ProcessInv
<1>1. ProcessInit => ProcessInv
  <2>. SUFFICES ASSUME ProcessInit PROVE ProcessInv
    OBVIOUS
  <2>1. queue \in Seq(Tasks) /\ Distinct(queue) /\ Len(queue) = 1
    BY DEF ProcessInit, Tasks, Distinct
  <2>2. QueueInv
    BY <2>1 DEF ProcessInit, QueueInv, Tasks, Places
  <2>. QED
    BY <2>2
    DEF ProcessInit, ProcessInv, SpawnInv, JobInv, ToldInv, GraceInv, Tasks, Nothing, RunOutlivesChild,
        GraceSparesOthers
<1>2. ProcessInv /\ [ProcessNext]_processVars => ProcessInv'
  <2>. SUFFICES ASSUME ProcessInv, [ProcessNext]_processVars PROVE ProcessInv'
    OBVIOUS
  <2>1. CASE UNCHANGED processVars
    BY <2>1
    DEF processVars, taskVars, childVars, jobVars, ProcessInv, QueueInv, SpawnInv, JobInv, ToldInv,
        GraceInv, Ended, OnWindows, WorkerExitCode, CodeIsTrue, RunOutlivesChild, GraceSparesOthers
  <2>2. CASE \/ ChildEnds \/ ChildDies \/ CanBeReaped \/ SpawnFails \/ Create \/ Created
             \/ WaitJobEnds \/ WaitJobInterrupted
    <3>1. UNCHANGED taskVars
      BY <2>2
      DEF ChildEnds, ChildDies, Ends, CanBeReaped, SpawnFails, Create, Created, WaitJobEnds,
          WaitJobInterrupted, taskVars
    <3>. QED  BY <2>2, <3>1, BesideKeeps
  <2>. QED
    BY <2>1, <2>2, CancelKeeps, PollKeeps, TaskKeeps DEF ProcessNext
<1>. QED
  BY <1>1, <1>2, PTL DEF ProcessSpec

(***************************************************************************)
(* What @process.run returns is the code or the signal of its child, except *)
(* for the worker that waits with waitpid.                                  *)
(***************************************************************************)
THEOREM CodeStaysTrue == ProcessSpec => []CodeIsTrue
<1>1. ProcessInv => CodeIsTrue
  BY DEF ProcessInv, ToldInv, CodeIsTrue
<1>. QED
  BY <1>1, ProcessHolds, PTL

(***************************************************************************)
(* run returns after its child has ended, reaped, without a handle on it    *)
(* left, unless it fails.                                                   *)
(***************************************************************************)
THEOREM ChildIsOutlived == ProcessSpec => []RunOutlivesChild
<1>1. ProcessInv => RunOutlivesChild
  BY DEF ProcessInv, ToldInv
<1>. QED
  BY <1>1, ProcessHolds, PTL

(***************************************************************************)
(* The SIGKILL of graceful_cancel never goes to the pid of a child that was *)
(* reaped, but where a worker reaps it.                                     *)
(***************************************************************************)
THEOREM GraceAlwaysSpares == ProcessSpec => []GraceSparesOthers
<1>1. ProcessInv => GraceSparesOthers
  BY DEF ProcessInv, GraceInv
<1>. QED
  BY <1>1, ProcessHolds, PTL
===============================================================================
