----------------------------- MODULE AsyncIoProofs -----------------------------
(***************************************************************************)
(* Proofs about AsyncIo, for any number of bytes and of calls, any send     *)
(* buffer and all three platforms: no byte is lost or told of twice however *)
(* calls are cancelled, and the kernel never holds memory that was freed.   *)
(***************************************************************************)
EXTENDS AsyncIo, Integers, SequenceTheorems, TLAPS

Operations == [dir : Dirs, st : {"pending", "done", "failed", "aborted"}, n : Nat,
               aborting : BOOLEAN, freed : BOOLEAN]
Places == {"idle", "waiting", "paused", "settling", "givingUp"}

IoType ==
  /\ platform \in Platforms
  /\ link \in {"fresh", "trying", "up", "refused"} /\ peer \in {"open", "fin", "rst"}
  /\ inbuf \in Nat /\ sent \in Int /\ room \in Nat /\ taken \in Nat
  /\ ops \in Seq(Operations) /\ packets \in Seq(Nat)
  /\ edges \subseteq Dirs /\ open \in BOOLEAN
  /\ pc \in [Dirs -> Places] /\ held \in [Dirs -> Nat] /\ told \in [Dirs -> Nat]
  /\ op \in [Dirs -> Nat]
  /\ ready \subseteq Dirs /\ cancelled \subseteq Dirs
  /\ DOMAIN outcome = Dirs
  /\ misled \in BOOLEAN /\ givenUp \in BOOLEAN

\* An operation belongs to the call that waits for it, until it is freed.
Owned ==
  /\ \A d \in Dirs :
       /\ op[d] \in 0 .. Len(ops)
       /\ op[d] # 0 <=> Windows /\ InWait(d)
       /\ op[d] # 0 => ops[op[d]].dir = d /\ ~ops[op[d]].freed
  /\ \A i \in 1 .. Len(ops) :
       /\ ~ops[i].freed => op[ops[i].dir] = i
       /\ ops[i].st # "done" => ops[i].n = 0
  /\ Windows /\ link = "trying" /\ open =>
       Connecting /\ op["write"] # 0 /\ ops[op["write"]].st # "done"
  /\ link = "fresh" => (open => Connecting) /\ \A d \in Dirs : pc[d] = "idle"

\* A call waits in vain for its cancellation only after the system refused that.
GaveUp == \A d \in Dirs : pc[d] = "givingUp" => givenUp

\* A task that goes on after a wait has an operation that is over.
GoesOn(d) ==
  /\ pc[d] # "idle"
  /\ Windows /\ InWait(d) /\ (pc[d] = "waiting" => d \notin cancelled) =>
       misled \/ ops[op[d]].st # "pending"

\* A packet is of an operation that is over, and so is what a task is woken for.
WokenFor ==
  /\ \A k \in 1 .. Len(packets) :
       packets[k] \in 1 .. Len(ops) /\ ops[packets[k]].st # "pending"
  /\ \A d \in ready : GoesOn(d)

IoInv == IoType /\ Owned /\ GaveUp /\ WokenFor /\ BuffersOutliveCalls /\ NothingLost

\* A transfer moves no more than there is, or than there is room for.
LEMMA AmountNat ==
  ASSUME IoInv, NEW d \in Dirs
  PROVE  /\ Amount(d) \in Nat /\ (d = "read" => Amount(d) <= inbuf)
         /\ (d = "write" => Amount(d) <= room)
BY IoAssumption DEF IoInv, IoType, Amount, Least

\* Operations are operations.
LEMMA Lengths ==
  ASSUME IoInv
  PROVE  /\ Len(ops) \in Nat /\ Len(packets) \in Nat
         /\ \A i \in 1 .. Len(ops) : ops[i] \in Operations
BY LenProperties, ElementOfSeq DEF IoInv, IoType

\* The peer sends, takes and leaves.
LEMMA PeerKeeps == ASSUME IoInv, PeerSends \/ PeerTakes \/ PeerLeaves PROVE IoInv'
<1>. USE Lengths DEF IoInv, taskVars, Windows, InWait, InFlight, Connecting
<1>1. IoType'
  <2>1. edges' \subseteq Dirs
    BY DEF IoType, PeerSends, PeerTakes, PeerLeaves, Edge, Dirs
  <2>2. /\ inbuf' \in Nat /\ sent' \in Int /\ room' \in Nat
        /\ peer' \in {"open", "fin", "rst"}
    BY DEF IoType, PeerSends, PeerTakes, PeerLeaves
  <2>3. UNCHANGED <<platform, link, taken, ops, packets, open, taskVars, misled, givenUp>>
    BY DEF PeerSends, PeerTakes, PeerLeaves
  <2>. QED  BY <2>1, <2>2, <2>3 DEF IoType
<1>2. Owned'
  BY DEF IoType, Owned, PeerSends, PeerTakes, PeerLeaves
<1>3. GaveUp' /\ WokenFor' /\ BuffersOutliveCalls'
  BY DEF GaveUp, GoesOn, WokenFor, BuffersOutliveCalls, PeerSends, PeerTakes, PeerLeaves
<1>4. NothingLost'
  <2>1. /\ \A d \in Dirs : InFlight(d)' = InFlight(d)
        /\ UNCHANGED <<told, taken, misled, givenUp>>
    BY DEF PeerSends, PeerTakes, PeerLeaves
  <2>. HIDE DEF InFlight
  <2>2. InFlight("read")' = InFlight("read") /\ InFlight("write")' = InFlight("write")
    BY <2>1 DEF Dirs
  <2>3. sent \in Int /\ inbuf \in Nat /\ told["read"] \in Nat /\ InFlight("read") \in Nat
    <3>1. sent \in Int /\ inbuf \in Nat /\ told["read"] \in Nat
      BY DEF IoType, Dirs
    <3>2. InFlight("read") \in Nat
      BY SMTT(60) DEF InFlight, IoType, Owned, Operations, Dirs
    <3>. QED  BY <3>1, <3>2
  <2>4. \/ sent' = sent + 1 /\ inbuf' = inbuf + 1
        \/ sent' = sent /\ inbuf' = inbuf
        \/ sent' = sent - inbuf /\ inbuf' = 0
    BY DEF PeerSends, PeerTakes, PeerLeaves
  <2>5. told["read"] + InFlight("read") + inbuf = sent
          => told["read"] + InFlight("read") + inbuf' = sent'
    BY <2>3, <2>4
  <2>. QED  BY <2>1, <2>2, <2>5 DEF NothingLost
<1>. QED
  BY <1>1, <1>2, <1>3, <1>4

\* An operation is over: it still belongs to its call, which its packet wakes.
LEMMA Settled ==
  ASSUME IoInv, NEW i \in 1 .. Len(ops), NEW o \in Operations,
         ops[i].st = "pending", o.dir = ops[i].dir, o.freed = ops[i].freed,
         o.st # "pending", o.st # "done" => o.n = 0,
         ops' = [ops EXCEPT ![i] = o], packets' = Append(packets, i),
         UNCHANGED <<platform, open, pc, op, ready, cancelled, outcome, misled>>,
         link' = "trying" => link = "trying" /\ o.st # "done",
         link' = "fresh" => link = "fresh"
  PROVE  /\ ops' \in Seq(Operations) /\ packets' \in Seq(Nat)
         /\ Owned' /\ WokenFor' /\ BuffersOutliveCalls'
<1>. USE Lengths DEF IoInv, Windows, InWait, Connecting
<1>1. /\ ops' \in Seq(Operations) /\ Len(ops') = Len(ops)
      /\ \A k \in 1 .. Len(ops) : ops'[k] = IF k = i THEN o ELSE ops[k]
  BY DEF IoType
<1>2. /\ packets' \in Seq(Nat) /\ Len(packets') = Len(packets) + 1
      /\ \A k \in 1 .. Len(packets') :
           packets'[k] = IF k <= Len(packets) THEN packets[k] ELSE i
  BY AppendProperties DEF IoType
<1>3. Owned'
  BY <1>1 DEF Owned, IoType
<1>4. \A k \in 1 .. Len(packets') :
        packets'[k] \in 1 .. Len(ops') /\ ops'[packets'[k]].st # "pending"
  BY <1>1, <1>2 DEF WokenFor, GoesOn
<1>5. WokenFor'
  BY <1>1, <1>4 DEF WokenFor, GoesOn, Owned, IoType
<1>6. BuffersOutliveCalls'
  BY <1>1 DEF BuffersOutliveCalls
<1>. QED
  BY <1>1, <1>2, <1>3, <1>5, <1>6

\* The connection is there, or is not.
LEMMA LinkKeeps == ASSUME IoInv, LinkSettles PROVE IoInv'
<1>. USE Lengths DEF IoInv, taskVars, Windows, InWait, InFlight, Connecting
<1>1. PICK end \in {"up", "refused"} :
        /\ link' = end
        /\ IF ~Windows THEN UNCHANGED <<ops, packets>>
           ELSE /\ ops[op["write"]].st = "pending"
                /\ ops' = [ops EXCEPT ![op["write"]].st = IF end = "up" THEN "done" ELSE "failed"]
                /\ packets' = Append(packets, op["write"])
  BY DEF LinkSettles
<1>2. UNCHANGED <<platform, peer, inbuf, sent, room, taken, open, taskVars, misled, givenUp>>
      /\ link = "trying" /\ open /\ edges' \subseteq Dirs
  BY DEF LinkSettles, Edge, Dirs, IoType
<1>3. CASE ~Windows
  BY <1>1, <1>2, <1>3 DEF IoType, Owned, GaveUp, WokenFor, GoesOn, BuffersOutliveCalls, NothingLost
<1>4. CASE Windows
  <2>. DEFINE i == op["write"]
              o == [ops[i] EXCEPT !.st = IF end = "up" THEN "done" ELSE "failed"]
  <2>1. /\ i \in 1 .. Len(ops) /\ ops[i].st = "pending" /\ ops[i] \in Operations
        /\ ops[i].dir = "write"
    BY <1>1, <1>2, <1>4 DEF Owned, Dirs
  <2>2. /\ o \in Operations /\ o.dir = ops[i].dir /\ o.freed = ops[i].freed
        /\ o.st \in {"done", "failed"} /\ o.n = ops[i].n /\ o.n = 0
    BY <2>1 DEF Operations, Owned
  <2>3. ops' = [ops EXCEPT ![i] = o] /\ packets' = Append(packets, i)
    BY <1>1, <1>4
  <2>. HIDE DEF i, o
  <2>4. /\ ops' \in Seq(Operations) /\ packets' \in Seq(Nat)
        /\ Owned' /\ WokenFor' /\ BuffersOutliveCalls'
    BY <1>1, <1>2, <2>1, <2>2, <2>3, Settled
  <2>5. IoType' /\ GaveUp'
    BY <1>1, <1>2, <2>4 DEF IoType, GaveUp
  <2>6. NothingLost'
    <3>1. \A d \in Dirs : InFlight(d)' = InFlight(d)
      <4>1. /\ Len(ops') = Len(ops)
            /\ \A k \in 1 .. Len(ops) : ops'[k] = IF k = i THEN o ELSE ops[k]
        BY <2>3 DEF IoType
      <4>. QED  BY <1>2, <2>1, <2>2, <4>1 DEF Owned
    <3>. HIDE DEF InFlight
    <3>. QED  BY <1>2, <3>1 DEF NothingLost, Dirs
  <2>. QED  BY <2>4, <2>5, <2>6
<1>. QED
  BY <1>3, <1>4

\* The kernel carries out an operation.
LEMMA CompleteKeeps == ASSUME IoInv, NEW i \in 1 .. Len(ops), Completes(i) PROVE IoInv'
<1>. USE Lengths DEF IoInv, taskVars, Windows, InWait, InFlight, Connecting
<1>0. PICK d \in Dirs : d = ops[i].dir
  BY DEF Operations
<1>. DEFINE o == [ops[i] EXCEPT !.st = IF Fails(d) THEN "failed" ELSE "done",
                                !.n = IF Fails(d) THEN 0 ELSE Amount(d)]
<1>1. /\ ops[i].st = "pending" /\ link = "up" /\ packets' = Append(packets, i)
      /\ IF Fails(d) THEN UNCHANGED kernelVars ELSE Transfer(d)
      /\ ops' = [ops EXCEPT ![i] = o]
      /\ UNCHANGED <<platform, edges, open, taskVars, misled, givenUp>>
  BY <1>0 DEF Completes
<1>2. /\ ops[i] \in Operations /\ Amount(d) \in Nat
      /\ (d = "read" => Amount(d) <= inbuf) /\ (d = "write" => Amount(d) <= room)
  BY AmountNat
<1>3. /\ o \in Operations /\ o.dir = d /\ o.freed = ops[i].freed
      /\ o.st = (IF Fails(d) THEN "failed" ELSE "done")
      /\ o.n = (IF Fails(d) THEN 0 ELSE Amount(d))
  BY <1>0, <1>2 DEF Operations
<1>. HIDE DEF o
<1>4. link' = "up"
  BY <1>1 DEF kernelVars, Transfer
<1>5. /\ ops' \in Seq(Operations) /\ packets' \in Seq(Nat)
      /\ Owned' /\ WokenFor' /\ BuffersOutliveCalls'
  BY <1>0, <1>1, <1>3, <1>4, Settled
<1>6. IoType' /\ GaveUp'
  <2>1. /\ inbuf' \in Nat /\ sent' \in Int /\ room' \in Nat /\ taken' \in Nat
        /\ link' = link /\ peer' = peer
    <3>1. /\ inbuf \in Nat /\ sent \in Int /\ room \in Nat /\ taken \in Nat
      BY DEF IoType
    <3>. HIDE DEF IoInv
    <3>2. CASE Fails(d)
      BY <1>1, <3>1, <3>2 DEF kernelVars
    <3>3. CASE ~Fails(d)
      BY <1>1, <1>2, <3>1, <3>3, SMTT(60) DEF Transfer
    <3>. QED  BY <3>2, <3>3
  <2>. QED  BY <1>1, <1>5, <2>1 DEF IoType, GaveUp
<1>7. NothingLost'
  <2>. SUFFICES ASSUME ~misled, ~givenUp
       PROVE  told["read"] + InFlight("read")' + inbuf' = sent' /\ told["write"] + InFlight("write")' = taken'
    BY <1>1 DEF NothingLost
  <2>1. op[d] = i /\ ops[i].n = 0 /\ InWait(d)
    BY <1>0, <1>1, <1>2 DEF Owned, BuffersOutliveCalls
  <2>2. /\ Len(ops') = Len(ops)
        /\ \A k \in 1 .. Len(ops) : ops'[k] = IF k = i THEN o ELSE ops[k]
    BY <1>1 DEF IoType
  <2>3. InFlight(d) = 0 /\ InFlight(d)' = IF Fails(d) THEN 0 ELSE Amount(d)
    BY <1>1, <1>3, <2>1, <2>2
  <2>4. \A e \in Dirs : e # d => InFlight(e)' = InFlight(e)
    BY <1>0, <1>1, <1>2, <2>1, <2>2 DEF Owned
  <2>. HIDE DEF InFlight
  <2>5. /\ told["read"] \in Nat /\ told["write"] \in Nat /\ inbuf \in Nat /\ taken \in Nat
        /\ sent \in Int
    BY DEF IoType, Dirs
  <2>6. CASE Fails(d)
    BY <1>1, <2>3, <2>4, <2>6 DEF NothingLost, Dirs, kernelVars
  <2>7. CASE ~Fails(d) /\ d = "read"
    <3>1. /\ InFlight("read")' = Amount(d) /\ InFlight("read") = 0
          /\ InFlight("write")' = InFlight("write")
          /\ inbuf' = inbuf - Amount(d) /\ UNCHANGED <<sent, taken, told>>
      BY <1>1, <2>3, <2>4, <2>7 DEF Dirs, Transfer
    <3>. QED  BY <1>2, <2>5, <3>1 DEF NothingLost
  <2>8. CASE ~Fails(d) /\ d = "write"
    <3>1. /\ InFlight("write")' = Amount(d) /\ InFlight("write") = 0
          /\ InFlight("read")' = InFlight("read")
          /\ taken' = taken + Amount(d) /\ UNCHANGED <<sent, inbuf, told>>
      BY <1>1, <2>3, <2>4, <2>8 DEF Dirs, Transfer
    <3>. QED  BY <1>2, <2>5, <3>1 DEF NothingLost
  <2>. QED  BY <2>6, <2>7, <2>8 DEF Dirs
<1>. QED
  BY <1>5, <1>6, <1>7

\* The kernel aborts an operation.
LEMMA AbortKeeps == ASSUME IoInv, NEW i \in 1 .. Len(ops), Aborts(i) PROVE IoInv'
<1>. USE Lengths DEF IoInv, taskVars, Windows, InWait, InFlight, Connecting, kernelVars
<1>. DEFINE o == [ops[i] EXCEPT !.st = "aborted"]
<1>1. /\ ops[i].st = "pending" /\ packets' = Append(packets, i)
      /\ ops' = [ops EXCEPT ![i] = o]
      /\ UNCHANGED <<platform, kernelVars, edges, open, taskVars, misled, givenUp>>
  BY DEF Aborts
<1>2. ops[i] \in Operations /\ ops[i].n = 0
  BY <1>1 DEF Owned
<1>3. /\ o \in Operations /\ o.dir = ops[i].dir /\ o.freed = ops[i].freed
      /\ o.st = "aborted" /\ o.n = 0
  BY <1>2 DEF Operations
<1>. HIDE DEF o
<1>4. /\ ops' \in Seq(Operations) /\ packets' \in Seq(Nat)
      /\ Owned' /\ WokenFor' /\ BuffersOutliveCalls'
  BY <1>1, <1>3, Settled
<1>5. IoType' /\ GaveUp'
  BY <1>1, <1>4 DEF IoType, GaveUp
<1>6. NothingLost'
  <2>1. /\ Len(ops') = Len(ops)
        /\ \A k \in 1 .. Len(ops) : ops'[k] = IF k = i THEN o ELSE ops[k]
    BY <1>1 DEF IoType
  <2>2. \A d \in Dirs : InFlight(d)' = InFlight(d)
    BY <1>1, <1>2, <1>3, <2>1 DEF Owned
  <2>. HIDE DEF InFlight
  <2>. QED  BY <1>1, <2>2 DEF NothingLost, Dirs
<1>. QED
  BY <1>4, <1>5, <1>6


\* The loop polls: tasks that wait are woken, no others.
LEMMA PollUnixKeeps == ASSUME IoInv, PollUnix PROVE IoInv'
<1>. USE DEF IoInv, InWait, InFlight, Connecting, Windows, kernelVars
<1>1. /\ UNCHANGED <<platform, kernelVars, ops, packets, open, pc, held, op, cancelled,
                     told, outcome, misled, givenUp>>
      /\ ready' = ready \cup Woken(Events) /\ ~Windows /\ edges' = {}
  BY DEF PollUnix
<1>2. /\ Woken(Events) \subseteq Dirs
      /\ \A d \in Woken(Events) : pc[d] # "idle"
  BY DEF Woken, Events, EpollEvents, KqueueEvents, IoType
<1>. QED
  <2>1. IoType'
    BY <1>1, <1>2 DEF IoType
  <2>2. Owned' /\ GaveUp' /\ BuffersOutliveCalls'
    BY <1>1 DEF Owned, GaveUp, BuffersOutliveCalls
  <2>3. WokenFor'
    BY <1>1, <1>2 DEF WokenFor, GoesOn
  <2>4. NothingLost'
    BY <1>1 DEF NothingLost
  <2>. QED  BY <2>1, <2>2, <2>3, <2>4

\* On Windows a packet may be of memory that was freed: then anything is woken.
LEMMA PollWindowsKeeps == ASSUME IoInv, PollWindows PROVE IoInv'
<1>. USE DEF IoInv, InWait, InFlight, Connecting, Windows, kernelVars
<1>. DEFINE taken_ == {packets[i] : i \in 1 .. Len(packets)}
            stale  == {i \in taken_ : ops[i].freed /\ open}
            due    == {ops[i].dir : i \in {i \in taken_ : ~ops[i].freed /\ open}}
<1>1. UNCHANGED <<platform, kernelVars, ops, open, pc, held, op, cancelled, told, outcome,
                  givenUp>>
      /\ packets' = << >> /\ misled' = (misled \/ stale # {}) /\ UNCHANGED edges
  BY DEF PollWindows
<1>2. PICK stray \in SUBSET Dirs :
        (stale = {} => stray = {}) /\ ready' = ready \cup Woken(due \cup stray)
  BY DEF PollWindows
<1>3. \A i \in taken_ : i \in 1 .. Len(ops) /\ ops[i].st # "pending" /\ ops[i].dir \in Dirs
  BY Lengths DEF WokenFor, Operations
<1>4. \A d \in due : d \in Dirs /\ op[d] # 0 /\ ops[op[d]].st # "pending"
  <2>1. \A i \in taken_ : ~ops[i].freed => op[ops[i].dir] = i
    BY <1>3 DEF Owned
  <2>. QED  BY <1>3, <2>1
<1>5. IoType'
  <2>1. Woken(due \cup stray) \subseteq Dirs
    BY <1>4 DEF Woken
  <2>. HIDE DEF due, stale
  <2>2. packets' \in Seq(Nat) /\ misled' \in BOOLEAN
    BY <1>1 DEF IoType
  <2>. QED  BY <1>1, <1>2, <2>1, <2>2 DEF IoType
<1>6. Owned' /\ GaveUp'
  BY <1>1 DEF Owned, GaveUp
<1>7. WokenFor'
  <2>1. Len(packets') = 0
    BY <1>1
  <2>2. \A d \in Woken(due \cup stray) :
          pc[d] # "idle" /\ (misled' \/ ops[op[d]].st # "pending")
    BY <1>1, <1>2, <1>4 DEF Woken
  <2>3. \A d \in ready' : d \in ready \/ d \in Woken(due \cup stray)
    BY <1>2
  <2>4. UNCHANGED <<ops, op, pc, platform, cancelled>> /\ (misled => misled')
    BY <1>1
  <2>. HIDE DEF due, stale, taken_
  <2>5. \A d \in ready' : GoesOn(d)'
    <3>. SUFFICES ASSUME NEW d \in ready'
         PROVE  GoesOn(d)'
      OBVIOUS
    <3>1. CASE d \in ready
      BY <2>4, <3>1 DEF WokenFor, GoesOn
    <3>2. CASE d \in Woken(due \cup stray)
      BY <2>2, <2>4, <3>2 DEF GoesOn
    <3>. QED  BY <2>3, <3>1, <3>2
  <2>. QED  BY <2>1, <2>5 DEF WokenFor, GoesOn
<1>8. BuffersOutliveCalls' /\ NothingLost'
  BY <1>1 DEF BuffersOutliveCalls, NothingLost
<1>. QED
  BY <1>5, <1>6, <1>7, <1>8

\* The handle is closed.
LEMMA CloseKeeps == ASSUME IoInv, Close PROVE IoInv'
BY DEF Close, IoInv, IoType, Owned, GaveUp, WokenFor, GoesOn, BuffersOutliveCalls, NothingLost,
       InWait, InFlight, Connecting, Windows, kernelVars, busVars, taskVars

\* A task is cancelled: it is woken unless it is shielded.
LEMMA CancelKeeps == ASSUME IoInv, NEW d \in Dirs, Cancel(d) PROVE IoInv'
<1>. USE DEF IoInv, InWait, InFlight, Connecting, Windows, kernelVars, busVars
<1>1. /\ UNCHANGED <<platform, kernelVars, busVars, open, pc, held, op, told, outcome,
                     misled, givenUp>>
      /\ cancelled' = cancelled \cup {d} /\ pc[d] # "idle"
      /\ ready' = IF Shielded(d) THEN ready ELSE ready \cup {d}
  BY DEF Cancel
<1>2. IoType'
  BY <1>1 DEF IoType
<1>3. Owned' /\ GaveUp' /\ BuffersOutliveCalls' /\ NothingLost'
  BY <1>1 DEF Owned, GaveUp, BuffersOutliveCalls, NothingLost
<1>4. WokenFor'
  BY <1>1 DEF WokenFor, GoesOn, Shielded
<1>. QED
  BY <1>2, <1>3, <1>4

\* A call leaves an operation in the kernel and waits for it.
LEMMA PendKeeps ==
  ASSUME IoInv, NEW d \in Dirs, Windows, pc[d] = "idle", Pend(d),
         pc' = [pc EXCEPT ![d] = "waiting"], link' \in {link, "trying"},
         link # "fresh" \/ link' = "trying",
         link' = "trying" /\ open => Connecting /\ (link = "trying" \/ d = "write"),
         UNCHANGED <<platform, peer, inbuf, sent, room, taken, edges, packets, open, held, ready,
                     cancelled, told, outcome, misled, givenUp>>
  PROVE  IoInv'
<1>. USE Lengths DEF IoInv, InWait, Connecting, Windows
<1>. DEFINE o == [dir |-> d, st |-> "pending", n |-> 0, aborting |-> FALSE, freed |-> FALSE]
<1>1. /\ ops' = Append(ops, o) /\ op' = [op EXCEPT ![d] = Len(ops) + 1]
      /\ o \in Operations /\ o.dir = d /\ o.st = "pending" /\ o.n = 0 /\ ~o.freed
  BY DEF Pend, Operations
<1>. HIDE DEF o
<1>2. /\ ops' \in Seq(Operations) /\ Len(ops') = Len(ops) + 1 /\ ops'[Len(ops) + 1] = o
      /\ \A k \in 1 .. Len(ops) : ops'[k] = ops[k]
  BY <1>1, AppendProperties DEF IoType
<1>3. IoType'
  BY <1>1, <1>2, SMTT(60) DEF IoType, Places
<1>4. op[d] = 0 /\ d \notin ready
  BY DEF Owned, WokenFor, GoesOn
<1>5. /\ op'[d] = Len(ops) + 1 /\ pc'[d] = "waiting"
      /\ \A e \in Dirs : e # d => op'[e] = op[e] /\ pc'[e] = pc[e]
  BY <1>1 DEF IoType
<1>6. Owned'
  <2>1. \A e \in Dirs :
          /\ op'[e] \in 0 .. Len(ops')
          /\ op'[e] # 0 <=> Windows /\ pc'[e] \in {"waiting", "settling", "givingUp"}
          /\ op'[e] # 0 => ops'[op'[e]].dir = e /\ ~ops'[op'[e]].freed
    BY <1>1, <1>2, <1>4, <1>5 DEF Owned
  <2>2. \A i \in 1 .. Len(ops') :
          /\ ~ops'[i].freed => op'[ops'[i].dir] = i
          /\ ops'[i].st # "done" => ops'[i].n = 0
    <3>. SUFFICES ASSUME NEW i \in 1 .. Len(ops')
         PROVE  /\ ~ops'[i].freed => op'[ops'[i].dir] = i
                /\ ops'[i].st # "done" => ops'[i].n = 0
      OBVIOUS
    <3>1. CASE i = Len(ops) + 1
      BY <1>1, <1>2, <1>5, <3>1
    <3>2. CASE i \in 1 .. Len(ops)
      <4>1. ops'[i] = ops[i] /\ ops[i].dir \in Dirs /\ i # 0
        BY <1>2, <3>2 DEF Operations
      <4>2. ~ops[i].freed => op[ops[i].dir] = i /\ ops[i].dir # d
        BY <1>4, <3>2, <4>1 DEF Owned
      <4>3. ops[i].st # "done" => ops[i].n = 0
        BY <3>2 DEF Owned
      <4>. QED  BY <1>5, <4>1, <4>2, <4>3
    <3>. QED  BY <1>2, <3>1, <3>2
  <2>3. Windows' /\ link' = "trying" /\ open' =>
          Connecting' /\ op'["write"] # 0 /\ ops'[op'["write"]].st # "done"
    BY <1>1, <1>2, <1>5 DEF Owned, Dirs
  <2>4. link' # "fresh"
    OBVIOUS
  <2>. QED  BY <2>1, <2>2, <2>3, <2>4 DEF Owned
<1>7. GaveUp' /\ BuffersOutliveCalls'
  BY <1>1, <1>2, <1>5 DEF GaveUp, BuffersOutliveCalls
<1>8. WokenFor'
  <2>1. \A k \in 1 .. Len(packets') :
          packets'[k] \in 1 .. Len(ops') /\ ops'[packets'[k]].st # "pending"
    BY <1>2 DEF WokenFor, GoesOn
  <2>2. \A e \in ready' :
          /\ e \in Dirs /\ e \in ready /\ pc'[e] = pc[e]
          /\ InWait(e) => ops'[op'[e]] = ops[op[e]]
    BY <1>2, <1>4, <1>5 DEF Owned, IoType
  <2>3. \A e \in ready' : GoesOn(e)'
    <3>. SUFFICES ASSUME NEW e \in ready'
         PROVE  GoesOn(e)'
      OBVIOUS
    <3>1. GoesOn(e)
      BY DEF WokenFor, GoesOn
    <3>2. platform' = platform /\ cancelled' = cancelled /\ misled' = misled
      OBVIOUS
    <3>3. pc'[e] = pc[e]
      BY <2>2, Zenon
    <3>4. InWait(e) => ops'[op'[e]] = ops[op[e]]
      BY <2>2, Zenon
    <3>5. CASE InWait(e)
      <4>1. ops'[op'[e]] = ops[op[e]]
        BY <3>4, <3>5
      <4>. QED  BY <3>1, <3>2, <3>3, <4>1 DEF GoesOn
    <3>6. CASE ~InWait(e)
      BY <3>1, <3>3, <3>6 DEF GoesOn
    <3>. QED  BY <3>5, <3>6
  <2>. QED  BY <2>1, <2>3 DEF WokenFor, GoesOn
<1>9. NothingLost'
  <2>1. InFlight("read")' = InFlight("read") /\ InFlight("write")' = InFlight("write")
    BY <1>1, <1>2, <1>4, <1>5 DEF InFlight, Owned, Dirs
  <2>. QED  BY <2>1 DEF NothingLost
<1>. QED
  BY <1>3, <1>6, <1>7, <1>8, <1>9

\* A call that has to wait, without an operation and with one.
LEMMA CallKeeps ==
  ASSUME IoInv, NEW d \in Dirs, CallUnix(d) \/ CallWindows(d)
  PROVE  IoInv'
<1>. USE DEF Begin, CanCall, kernelVars, busVars, Windows
<1>1. CASE CallUnix(d)
  BY <1>1 DEF CallUnix, IoInv, IoType, Owned, GaveUp, WokenFor, GoesOn, BuffersOutliveCalls, NothingLost,
              InWait, InFlight, Connecting, Places
<1>2. CASE CallWindows(d)
  BY <1>2, PendKeeps DEF CallWindows, IoInv, Owned
<1>. QED
  BY <1>1, <1>2

\* A call is answered at once: what it moved is held over the pause.
LEMMA AnswerKeeps == ASSUME IoInv, NEW d \in Dirs, CallAnswered(d) PROVE IoInv'
<1>. USE DEF IoInv, InWait, Connecting, Windows, busVars, CanCall
<1>1. /\ pc[d] = "idle" /\ outcome["write"] # "none" /\ open
      /\ UNCHANGED <<platform, busVars, open, misled, givenUp>>
  BY DEF CallAnswered
<1>2. op[d] = 0 /\ d \notin ready
  BY <1>1 DEF Owned, WokenFor, GoesOn
<1>3. CASE Fails(d) /\ UNCHANGED <<kernelVars, pc, held, op, ready, cancelled, told>>
           /\ outcome' = [outcome EXCEPT ![d] = "error"]
  BY <1>1, <1>3 DEF kernelVars, IoType, Owned, GaveUp, WokenFor, GoesOn, BuffersOutliveCalls,
                    NothingLost, InFlight
<1>4. CASE /\ Transfer(d) /\ Begin(d, "paused") /\ held' = [held EXCEPT ![d] = Amount(d)]
           /\ ready' = ready \cup {d} /\ UNCHANGED op
  <2>1. /\ pc' = [pc EXCEPT ![d] = "paused"] /\ UNCHANGED <<cancelled, told, outcome>>
        /\ UNCHANGED <<link, peer, sent>>
    BY <1>4 DEF Begin, Transfer
  <2>2. /\ Amount(d) \in Nat
        /\ (d = "read" => Amount(d) <= inbuf) /\ (d = "write" => Amount(d) <= room)
    BY AmountNat
  <2>3. /\ inbuf' = (IF d = "read" THEN inbuf - Amount(d) ELSE inbuf)
        /\ room' = (IF d = "write" THEN room - Amount(d) ELSE room)
        /\ taken' = (IF d = "write" THEN taken + Amount(d) ELSE taken)
    BY <1>4 DEF Transfer
  <2>4. /\ pc'[d] = "paused" /\ held'[d] = Amount(d)
        /\ \A e \in Dirs : e # d => pc'[e] = pc[e] /\ held'[e] = held[e]
    BY <1>4, <2>1 DEF IoType
  <2>5. IoType'
    <3>1. inbuf' \in Nat /\ room' \in Nat /\ taken' \in Nat
      BY <2>2, <2>3, SMTT(60) DEF IoType
    <3>. QED  BY <1>1, <1>4, <2>1, <2>2, <3>1 DEF IoType, Places
  <2>6. Owned' /\ GaveUp'
    BY <1>1, <1>2, <1>4, <2>1, <2>4 DEF Owned, GaveUp
  <2>7. WokenFor' /\ BuffersOutliveCalls'
    BY <1>1, <1>4, <2>1, <2>4 DEF WokenFor, GoesOn, BuffersOutliveCalls
  <2>8. NothingLost'
    <3>1. /\ InFlight(d) = 0 /\ InFlight(d)' = Amount(d)
          /\ \A e \in Dirs : e # d => InFlight(e)' = InFlight(e)
      BY <1>1, <1>2, <1>4, <2>4 DEF InFlight
    <3>2. told["read"] \in Nat /\ told["write"] \in Nat /\ inbuf \in Nat /\ taken \in Nat
      BY DEF IoType, Dirs
    <3>3. CASE d = "read"
      BY <1>1, <2>1, <2>2, <2>3, <3>1, <3>2, <3>3 DEF NothingLost, Dirs
    <3>4. CASE d = "write"
      BY <1>1, <2>1, <2>2, <2>3, <3>1, <3>2, <3>4 DEF NothingLost, Dirs
    <3>. QED  BY <3>3, <3>4 DEF Dirs
  <2>. QED  BY <2>5, <2>6, <2>7, <2>8
<1>. QED
  BY <1>1, <1>3, <1>4 DEF CallAnswered

\* The operation of a call that ends, if there is one, is freed and nothing else happens
\* to operations and packets, save that one more may be of it.
Freed(d) ==
  /\ ops' \in Seq(Operations) /\ Len(ops') = Len(ops) /\ packets' \in Seq(Nat)
  /\ \A i \in 1 .. Len(ops) : i # op[d] => ops'[i] = ops[i]
  /\ op[d] # 0 =>
       /\ ops'[op[d]].dir = d /\ ops'[op[d]].freed
       /\ ops'[op[d]].st # "done" => ops'[op[d]].n = 0
       /\ ops'[op[d]].st = "pending" => misled
  /\ \A k \in 1 .. Len(packets') :
       packets'[k] \in 1 .. Len(ops) /\ ops'[packets'[k]].st # "pending"

\* A call ends, and with it its operation.
LEMMA Finished ==
  ASSUME IoInv, NEW d \in Dirs, NEW how, how # "none", NEW n \in Nat, Finish(d, how, n),
         Freed(d),
         Windows /\ link' = "trying" /\ open' => link = "trying" /\ open /\ d # "write",
         link' = "fresh" => link = "fresh" /\ ~open',
         UNCHANGED <<platform, misled, givenUp>>
  PROVE  /\ pc' \in [Dirs -> Places] /\ held' \in [Dirs -> Nat] /\ told' \in [Dirs -> Nat]
         /\ op' \in [Dirs -> Nat] /\ ready' \subseteq Dirs /\ cancelled' \subseteq Dirs
         /\ DOMAIN outcome' = Dirs /\ open' \in BOOLEAN
         /\ Owned' /\ GaveUp' /\ WokenFor' /\ BuffersOutliveCalls'
         /\ told'[d] = told[d] + n /\ InFlight(d)' = 0
         /\ \A e \in Dirs : e # d => told'[e] = told[e] /\ InFlight(e)' = InFlight(e)
<1>. USE Lengths DEF IoInv, Windows, InWait, Connecting, Freed
<1>1. /\ pc' = [pc EXCEPT ![d] = "idle"] /\ outcome' = [outcome EXCEPT ![d] = how]
      /\ told' = [told EXCEPT ![d] = @ + n] /\ ready' = ready \ {d}
      /\ op' = [op EXCEPT ![d] = 0] /\ held' = [held EXCEPT ![d] = 0]
      /\ cancelled' = cancelled \ {d} /\ open' = (open /\ ~(Connecting /\ how # "ok"))
  BY DEF Finish
<1>2. /\ pc' \in [Dirs -> Places] /\ held' \in [Dirs -> Nat] /\ told' \in [Dirs -> Nat]
      /\ op' \in [Dirs -> Nat] /\ ready' \subseteq Dirs /\ cancelled' \subseteq Dirs
      /\ DOMAIN outcome' = Dirs /\ open' \in BOOLEAN
  BY <1>1 DEF IoType, Places
<1>3. /\ pc'[d] = "idle" /\ op'[d] = 0 /\ told'[d] = told[d] + n
      /\ \A e \in Dirs : e # d =>
           pc'[e] = pc[e] /\ op'[e] = op[e] /\ told'[e] = told[e] /\ held'[e] = held[e]
  BY <1>1 DEF IoType
<1>4. \A e \in Dirs : e # d /\ op[e] # 0 =>
        op[e] \in 1 .. Len(ops) /\ op[e] # op[d] /\ ops'[op[e]] = ops[op[e]]
  BY DEF Owned
<1>5. Owned'
  <2>1. \A e \in Dirs :
          /\ op'[e] \in 0 .. Len(ops')
          /\ op'[e] # 0 <=> Windows' /\ InWait(e)'
          /\ op'[e] # 0 => ops'[op'[e]].dir = e /\ ~ops'[op'[e]].freed
    BY <1>3, <1>4 DEF Owned
  <2>2. \A i \in 1 .. Len(ops') :
          /\ ~ops'[i].freed => op'[ops'[i].dir] = i
          /\ ops'[i].st # "done" => ops'[i].n = 0
    <3>. SUFFICES ASSUME NEW i \in 1 .. Len(ops)
         PROVE  /\ ~ops'[i].freed => op'[ops'[i].dir] = i
                /\ ops'[i].st # "done" => ops'[i].n = 0
      OBVIOUS
    <3>1. CASE i = op[d]
      BY <3>1
    <3>2. CASE i # op[d]
      <4>1. ops'[i] = ops[i] /\ ops[i].dir \in Dirs
        BY <3>2 DEF Operations
      <4>2. ~ops[i].freed => op[ops[i].dir] = i /\ ops[i].dir # d
        BY <3>2 DEF Owned
      <4>3. ops[i].st # "done" => ops[i].n = 0
        BY DEF Owned
      <4>. QED  BY <1>3, <4>1, <4>2, <4>3
    <3>. QED  BY <3>1, <3>2
  <2>3. Windows' /\ link' = "trying" /\ open' =>
          Connecting' /\ op'["write"] # 0 /\ ops'[op'["write"]].st # "done"
    <3>. SUFFICES ASSUME Windows, link' = "trying", open'
         PROVE  Connecting' /\ op'["write"] # 0 /\ ops'[op'["write"]].st # "done"
      OBVIOUS
    <3>1. /\ d # "write" /\ "write" \in Dirs /\ Connecting
          /\ op["write"] # 0 /\ ops[op["write"]].st # "done"
      BY DEF Owned, Dirs
    <3>2. outcome'["write"] = outcome["write"]
      BY <1>1, <3>1 DEF IoType
    <3>. QED  BY <1>3, <1>4, <3>1, <3>2
  <2>4. link' = "fresh" => (open' => Connecting') /\ \A e \in Dirs : pc'[e] = "idle"
    BY <1>3 DEF Owned
  <2>. QED  BY <2>1, <2>2, <2>3, <2>4 DEF Owned
<1>6. GaveUp'
  BY <1>3 DEF GaveUp
<1>7. WokenFor'
  <2>1. \A e \in ready' : GoesOn(e)'
    <3>. SUFFICES ASSUME NEW e \in ready'
         PROVE  GoesOn(e)'
      OBVIOUS
    <3>1. e \in Dirs /\ e # d /\ e \in ready /\ (e \in cancelled' <=> e \in cancelled)
      BY <1>1 DEF IoType
    <3>2. GoesOn(e) /\ pc'[e] = pc[e]
      BY <1>3, <3>1 DEF WokenFor
    <3>3. CASE Windows /\ InWait(e)
      <4>1. ops'[op'[e]] = ops[op[e]]
        BY <1>3, <1>4, <3>1, <3>3 DEF Owned
      <4>. QED  BY <3>1, <3>2, <3>3, <4>1 DEF GoesOn
    <3>4. CASE ~(Windows /\ InWait(e))
      BY <3>1, <3>2, <3>4 DEF GoesOn
    <3>. QED  BY <3>3, <3>4
  <2>. QED  BY <2>1 DEF WokenFor
<1>8. BuffersOutliveCalls'
  BY DEF BuffersOutliveCalls
<1>9. InFlight(d)' = 0 /\ \A e \in Dirs : e # d => InFlight(e)' = InFlight(e)
  BY <1>3, <1>4 DEF InFlight
<1>. QED
  BY <1>2, <1>3, <1>5, <1>6, <1>7, <1>8, <1>9

\* The caller is told of what its call moved.
LEMMA FinishKeeps ==
  ASSUME IoInv, NEW d \in Dirs, NEW how, how # "none", NEW n \in Nat, Finish(d, how, n),
         Freed(d), misled \/ givenUp \/ n = InFlight(d),
         Windows /\ link' = "trying" /\ open' => link = "trying" /\ open /\ d # "write",
         link' = "fresh" => link = "fresh" /\ ~open',
         link' \in {"fresh", "trying", "up", "refused"},
         UNCHANGED <<platform, peer, inbuf, sent, room, taken, edges, misled, givenUp>>
  PROVE  IoInv'
<1>1. /\ pc' \in [Dirs -> Places] /\ held' \in [Dirs -> Nat] /\ told' \in [Dirs -> Nat]
      /\ op' \in [Dirs -> Nat] /\ ready' \subseteq Dirs /\ cancelled' \subseteq Dirs
      /\ DOMAIN outcome' = Dirs /\ open' \in BOOLEAN
      /\ Owned' /\ GaveUp' /\ WokenFor' /\ BuffersOutliveCalls'
      /\ told'[d] = told[d] + n /\ InFlight(d)' = 0
      /\ \A e \in Dirs : e # d => told'[e] = told[e] /\ InFlight(e)' = InFlight(e)
  BY Finished
<1>2. IoType'
  BY <1>1 DEF IoInv, IoType, Freed
<1>3. NothingLost'
  <2>. SUFFICES ASSUME ~misled, ~givenUp
       PROVE  told'["read"] + InFlight("read")' + inbuf = sent
              /\ told'["write"] + InFlight("write")' = taken
    BY DEF NothingLost
  <2>1. /\ told["read"] + InFlight("read") + inbuf = sent
        /\ told["write"] + InFlight("write") = taken
    BY DEF IoInv, NothingLost
  <2>2. told["read"] \in Nat /\ told["write"] \in Nat /\ n = InFlight(d)
    BY DEF IoInv, IoType, Dirs
  <2>3. CASE d = "read"
    BY <1>1, <2>1, <2>2, <2>3 DEF Dirs
  <2>4. CASE d = "write"
    BY <1>1, <2>1, <2>2, <2>4 DEF Dirs
  <2>. QED  BY <2>3, <2>4 DEF Dirs
<1>. QED
  BY <1>1, <1>2, <1>3 DEF IoInv

\* A call without an operation.
LEMMA NoneFreed ==
  ASSUME IoInv, NEW d \in Dirs, op[d] = 0, UNCHANGED <<ops, packets>>
  PROVE  Freed(d)
BY Lengths DEF IoInv, IoType, WokenFor, Freed

\* A call with one.
LEMMA OneFreed ==
  ASSUME IoInv, NEW d \in Dirs, op[d] # 0, NEW o \in Operations, o.dir = d,
         o.st # "done" => o.n = 0,
         o.st = "pending" => misled /\ ops[op[d]].st = "pending",
         ops' = [ops EXCEPT ![op[d]] = [o EXCEPT !.freed = TRUE]],
         packets' = packets \/ (packets' = Append(packets, op[d]) /\ o.st # "pending")
  PROVE  Freed(d)
<1>. USE Lengths DEF IoInv
<1>1. PICK i \in 1 .. Len(ops) : i = op[d]
  BY DEF Owned
<1>2. PICK p \in Operations : p = [o EXCEPT !.freed = TRUE]
  BY DEF Operations
<1>3. p.dir = d /\ p.freed /\ p.st = o.st /\ p.n = o.n
  BY <1>2 DEF Operations
<1>4. /\ ops' \in Seq(Operations) /\ Len(ops') = Len(ops) /\ ops'[i] = p
      /\ \A k \in 1 .. Len(ops) : k # i => ops'[k] = ops[k]
  BY <1>1, <1>2 DEF IoType
<1>5. /\ packets' \in Seq(Nat)
      /\ \A k \in 1 .. Len(packets') :
           packets'[k] \in 1 .. Len(ops) /\ ops'[packets'[k]].st # "pending"
  <2>1. \A k \in 1 .. Len(packets) :
          packets[k] \in 1 .. Len(ops) /\ ops'[packets[k]].st # "pending"
    BY <1>1, <1>3, <1>4 DEF WokenFor
  <2>2. CASE packets' = packets
    BY <2>1, <2>2 DEF IoType
  <2>3. CASE packets' = Append(packets, op[d]) /\ o.st # "pending"
    <3>1. /\ packets' \in Seq(Nat) /\ Len(packets') = Len(packets) + 1
          /\ packets'[Len(packets) + 1] = i
          /\ \A k \in 1 .. Len(packets) : packets'[k] = packets[k]
      BY <1>1, <2>3, AppendProperties DEF IoType
    <3>. QED  BY <1>3, <1>4, <2>1, <2>3, <3>1
  <2>. QED  BY <2>2, <2>3
<1>. QED
  BY <1>1, <1>3, <1>4, <1>5 DEF Freed

\* The socket is connected, refused, or being connected.
LEMMA ConnectKeeps == ASSUME IoInv, ConnectUnix \/ ConnectWindows PROVE IoInv'
<1>. DEFINE w == "write"
<1>1. /\ w \in Dirs /\ link = "fresh" /\ pc[w] = "idle" /\ op[w] = 0 /\ InFlight(w) = 0
      /\ UNCHANGED <<platform, peer, inbuf, sent, room, taken, edges, packets, misled, givenUp>>
  BY DEF ConnectUnix, ConnectWindows, busVars, IoInv, Owned, InWait, InFlight, Dirs
<1>2. CASE ConnectUnix
  <2>1. ~Windows /\ UNCHANGED <<ops, packets>>
    BY <1>2 DEF ConnectUnix, busVars
  <2>2. Freed(w)
    BY <1>1, <2>1, NoneFreed
  <2>3. ASSUME NEW how \in {"ok", "error"}, Finish(w, how, 0), link' \in {"up", "refused"}
        PROVE  IoInv'
    BY <1>1, <2>1, <2>2, <2>3, FinishKeeps
  <2>4. CASE /\ link' = "trying" /\ pc' = [pc EXCEPT ![w] = "waiting"]
             /\ UNCHANGED <<open, held, op, ready, cancelled, told, outcome, calls>>
    BY <1>1, <2>1, <2>4 DEF IoInv, IoType, Owned, GaveUp, WokenFor, GoesOn, BuffersOutliveCalls,
              NothingLost, InWait, InFlight, Connecting, Places, Windows
  <2>. QED  BY <1>2, <2>3, <2>4 DEF ConnectUnix
<1>3. CASE ConnectWindows
  <2>1. Windows /\ Connecting
    BY <1>3 DEF ConnectWindows
  <2>2. ASSUME NEW how \in {"ok", "error"}, Finish(w, how, 0), UNCHANGED ops,
               link' \in {"fresh", "up", "refused"}, link' = "fresh" => how = "error"
        PROVE  IoInv'
    <3>1. Freed(w)
      BY <1>1, <2>2, NoneFreed
    <3>2. link' = "fresh" => ~open'
      BY <2>1, <2>2 DEF Finish
    <3>. QED  BY <1>1, <2>2, <3>1, <3>2, FinishKeeps
  <2>3. CASE link' = "trying" /\ Pend(w) /\ pc' = [pc EXCEPT ![w] = "waiting"]
             /\ UNCHANGED <<open, held, ready, cancelled, told, outcome, calls>>
    BY <1>1, <2>1, <2>3, PendKeeps
  <2>. QED  BY <1>3, <2>2, <2>3 DEF ConnectWindows, SetupConnected
<1>. QED
  BY <1>2, <1>3

\* A call that was answered at once returns behind its pause.
LEMMA PausedKeeps ==
  ASSUME IoInv, NEW d \in Dirs, ResumePaused(d), UNCHANGED <<platform, edges, misled>>
  PROVE  IoInv'
<1>1. /\ pc[d] = "paused" /\ Finish(d, "ok", held[d])
      /\ UNCHANGED <<kernelVars, ops, packets, givenUp>>
  BY DEF ResumePaused, BrokenOff, Shielded
<1>2. op[d] = 0 /\ held[d] \in Nat /\ held[d] = InFlight(d)
  BY <1>1 DEF IoInv, IoType, Owned, InWait, InFlight
<1>3. Freed(d)
  BY <1>1, <1>2, NoneFreed
<1>4. /\ link' = link /\ link # "fresh" /\ link \in {"fresh", "trying", "up", "refused"}
      /\ Windows /\ link' = "trying" /\ open' => open /\ d # "write"
  BY <1>1, <1>2 DEF IoInv, IoType, Owned, kernelVars, Finish
<1>. HIDE DEF IoInv
<1>. QED
  BY <1>1, <1>2, <1>3, <1>4, FinishKeeps DEF kernelVars

\* A task goes on after its wait and makes the call again.
LEMMA ResumeUnixKeeps ==
  ASSUME IoInv, NEW d \in Dirs, ResumeUnix(d), UNCHANGED <<platform, edges, misled>>
  PROVE  IoInv'
<1>1. /\ ~Windows /\ pc[d] = "waiting" /\ UNCHANGED <<ops, packets, givenUp>>
  BY DEF ResumeUnix
<1>2. op[d] = 0 /\ InFlight(d) = 0 /\ link # "fresh"
      /\ link \in {"fresh", "trying", "up", "refused"}
  BY <1>1 DEF IoInv, IoType, Owned, InFlight
<1>3. Freed(d)
  BY <1>1, <1>2, NoneFreed
<1>4. ASSUME NEW how \in {"ok", "error", "cancelled", "again"}, Finish(d, how, 0),
             UNCHANGED kernelVars
      PROVE  IoInv'
  BY <1>1, <1>2, <1>3, <1>4, FinishKeeps DEF kernelVars
<1>5. CASE Transfer(d) /\ Finish(d, "ok", Amount(d))
  <2>1. /\ Amount(d) \in Nat
        /\ (d = "read" => Amount(d) <= inbuf) /\ (d = "write" => Amount(d) <= room)
    BY AmountNat
  <2>2. /\ inbuf' = (IF d = "read" THEN inbuf - Amount(d) ELSE inbuf)
        /\ room' = (IF d = "write" THEN room - Amount(d) ELSE room)
        /\ taken' = (IF d = "write" THEN taken + Amount(d) ELSE taken)
        /\ UNCHANGED <<link, peer, sent>>
    BY <1>5 DEF Transfer
  <2>3. /\ pc' \in [Dirs -> Places] /\ held' \in [Dirs -> Nat] /\ told' \in [Dirs -> Nat]
        /\ op' \in [Dirs -> Nat] /\ ready' \subseteq Dirs /\ cancelled' \subseteq Dirs
        /\ DOMAIN outcome' = Dirs /\ open' \in BOOLEAN
        /\ Owned' /\ GaveUp' /\ WokenFor' /\ BuffersOutliveCalls'
        /\ told'[d] = told[d] + Amount(d) /\ InFlight(d)' = 0
        /\ \A e \in Dirs : e # d => told'[e] = told[e] /\ InFlight(e)' = InFlight(e)
    BY <1>1, <1>2, <1>3, <1>5, <2>1, <2>2, Finished
  <2>4. IoType'
    <3>1. inbuf' \in Nat /\ room' \in Nat /\ taken' \in Nat
      BY <2>1, <2>2, SMTT(60) DEF IoInv, IoType
    <3>. QED  BY <1>1, <2>2, <2>3, <3>1 DEF IoInv, IoType
  <2>5. NothingLost'
    <3>. SUFFICES ASSUME ~misled, ~givenUp
         PROVE  told'["read"] + InFlight("read")' + inbuf' = sent
                /\ told'["write"] + InFlight("write")' = taken'
      BY <1>1, <2>2 DEF NothingLost
    <3>1. /\ told["read"] + InFlight("read") + inbuf = sent
          /\ told["write"] + InFlight("write") = taken
      BY DEF IoInv, NothingLost
    <3>2. told["read"] \in Nat /\ told["write"] \in Nat /\ inbuf \in Nat /\ taken \in Nat
      BY DEF IoInv, IoType, Dirs
    <3>3. CASE d = "read"
      BY <1>2, <2>1, <2>2, <2>3, <3>1, <3>2, <3>3 DEF Dirs
    <3>4. CASE d = "write"
      BY <1>2, <2>1, <2>2, <2>3, <3>1, <3>2, <3>4 DEF Dirs
    <3>. QED  BY <3>3, <3>4 DEF Dirs
  <2>. QED  BY <2>3, <2>4, <2>5 DEF IoInv
<1>. QED
  BY <1>4, <1>5 DEF ResumeUnix

\* The result of an operation that is over is taken, and its memory freed.
LEMMA StatusKeeps ==
  ASSUME IoInv, NEW d \in Dirs, Windows, InWait(d), Status(d),
         ops[op[d]].st = "pending" => misled,
         UNCHANGED <<platform, edges, misled, kernelVars>>
  PROVE  IoInv'
<1>. DEFINE o == ops[op[d]]
<1>1. /\ op[d] # 0 /\ op[d] \in 1 .. Len(ops) /\ o \in Operations /\ o.dir = d
      /\ o.st # "done" => o.n = 0
  BY Lengths DEF IoInv, Owned
<1>2. PICK how \in {"ok", "error", "cancelled", "incomplete"} :
        /\ Finish(d, how, o.n) /\ (how = "ok" => o.st = "done")
  BY DEF Status
<1>3. /\ ops' = [ops EXCEPT ![op[d]] = [o EXCEPT !.freed = TRUE]]
      /\ UNCHANGED <<packets, givenUp>>
  BY <1>1 DEF Status, FreeFrom
<1>4. Freed(d)
  BY <1>1, <1>3, OneFreed
<1>5. o.n \in Nat /\ o.n = InFlight(d)
  BY <1>1 DEF InWait, InFlight, Operations
<1>6. /\ link' = link /\ link # "fresh" /\ link \in {"fresh", "trying", "up", "refused"}
      /\ link' = "trying" /\ open' => open /\ d # "write"
  BY <1>1, <1>2 DEF IoInv, IoType, Owned, InWait, kernelVars, Finish
<1>. QED
  BY <1>2, <1>3, <1>4, <1>5, <1>6, FinishKeeps DEF kernelVars

\* A task that was cancelled goes on waiting for its operation.
LEMMA WaitOnKeeps ==
  ASSUME IoInv, NEW d \in Dirs, Windows, pc[d] = "waiting", NEW where,
         \/ where = "settling" /\ ops' = [ops EXCEPT ![op[d]].aborting = TRUE] /\ UNCHANGED givenUp
         \/ where = "givingUp" /\ givenUp' = TRUE /\ UNCHANGED ops,
         WaitOn(d, where), UNCHANGED <<platform, edges, misled, kernelVars>>
  PROVE  IoInv'
<1>. USE Lengths DEF IoInv, Windows, InWait, Connecting, kernelVars
<1>1. /\ pc' = [pc EXCEPT ![d] = where] /\ ready' = ready \ {d}
      /\ where \in {"settling", "givingUp"}
      /\ UNCHANGED <<packets, open, held, op, cancelled, told, outcome>>
  BY DEF WaitOn
<1>2. /\ ops' \in Seq(Operations) /\ Len(ops') = Len(ops)
      /\ \A i \in 1 .. Len(ops) :
           /\ ops'[i].dir = ops[i].dir /\ ops'[i].st = ops[i].st
           /\ ops'[i].n = ops[i].n /\ ops'[i].freed = ops[i].freed
  <2>1. op[d] \in 1 .. Len(ops)
    BY DEF Owned
  <2>2. CASE UNCHANGED ops
    BY <2>2 DEF IoType
  <2>3. CASE ops' = [ops EXCEPT ![op[d]].aborting = TRUE]
    <3>1. PICK p \in Operations : p = [ops[op[d]] EXCEPT !.aborting = TRUE]
      BY <2>1, ZenonT(60) DEF Operations
    <3>2. /\ p.dir = ops[op[d]].dir /\ p.st = ops[op[d]].st
          /\ p.n = ops[op[d]].n /\ p.freed = ops[op[d]].freed
      BY <2>1, <3>1 DEF Operations
    <3>3. ops' = [ops EXCEPT ![op[d]] = p]
      BY <2>1, <2>3, <3>1 DEF IoType
    <3>. QED  BY <2>1, <3>2, <3>3, SMTT(60) DEF IoType
  <2>. QED  BY <2>2, <2>3
<1>3. /\ pc'[d] = where
      /\ \A e \in Dirs : e # d => pc'[e] = pc[e]
  BY <1>1 DEF IoType
<1>4. IoType'
  BY <1>1, <1>2 DEF IoType, Places
<1>5. Owned'
  <2>1. \A e \in Dirs :
          /\ op'[e] \in 0 .. Len(ops')
          /\ op'[e] # 0 <=> Windows' /\ InWait(e)'
          /\ op'[e] # 0 => ops'[op'[e]].dir = e /\ ~ops'[op'[e]].freed
    BY <1>1, <1>2, <1>3 DEF Owned
  <2>2. \A i \in 1 .. Len(ops') :
          /\ ~ops'[i].freed => op'[ops'[i].dir] = i
          /\ ops'[i].st # "done" => ops'[i].n = 0
    BY <1>1, <1>2 DEF Owned
  <2>3. Windows' /\ link' = "trying" /\ open' =>
          Connecting' /\ op'["write"] # 0 /\ ops'[op'["write"]].st # "done"
    BY <1>1, <1>2 DEF Owned, Dirs
  <2>4. link' # "fresh"
    BY DEF Owned
  <2>. QED  BY <2>1, <2>2, <2>3, <2>4 DEF Owned
<1>6. GaveUp'
  BY <1>1, <1>3 DEF GaveUp
<1>7. WokenFor'
  <2>1. \A k \in 1 .. Len(packets') :
          packets'[k] \in 1 .. Len(ops') /\ ops'[packets'[k]].st # "pending"
    BY <1>1, <1>2 DEF WokenFor
  <2>2. \A e \in ready' : GoesOn(e)'
    <3>. SUFFICES ASSUME NEW e \in ready'
         PROVE  GoesOn(e)'
      OBVIOUS
    <3>1. /\ e \in Dirs /\ e \in ready /\ pc'[e] = pc[e] /\ op'[e] = op[e]
          /\ cancelled' = cancelled
      BY <1>1, <1>3 DEF IoType
    <3>2. GoesOn(e)
      BY <3>1 DEF WokenFor
    <3>3. CASE InWait(e)
      <4>1. ops'[op'[e]].st = ops[op[e]].st
        BY <1>2, <3>1, <3>3 DEF Owned
      <4>. QED  BY <3>1, <3>2, <3>3, <4>1 DEF GoesOn
    <3>4. CASE ~InWait(e)
      BY <3>1, <3>2, <3>4 DEF GoesOn
    <3>. QED  BY <3>3, <3>4
  <2>. QED  BY <2>1, <2>2 DEF WokenFor
<1>8. BuffersOutliveCalls'
  BY <1>1, <1>2 DEF BuffersOutliveCalls
<1>9. NothingLost'
  <2>1. InFlight("read")' = InFlight("read") /\ InFlight("write")' = InFlight("write")
    BY <1>1, <1>2, <1>3 DEF InFlight, Owned, Dirs
  <2>2. givenUp => givenUp'
    OBVIOUS
  <2>. QED  BY <1>1, <2>1, <2>2 DEF NothingLost
<1>. QED
  BY <1>4, <1>5, <1>6, <1>7, <1>8, <1>9

\* A task of Windows goes on: with its result, with its cancellation, or in vain.
LEMMA ResumeWindowsKeeps ==
  ASSUME IoInv, NEW d \in Dirs, d \in ready, ResumeWindows(d),
         UNCHANGED <<platform, edges, misled>>
  PROVE  IoInv'
<1>1. Windows /\ UNCHANGED kernelVars
  BY DEF ResumeWindows
<1>2. /\ InWait(d) => op[d] # 0 /\ op[d] \in 1 .. Len(ops) /\ ops[op[d]].dir = d
                      /\ ops[op[d]] \in Operations /\ link # "fresh"
      /\ link \in {"fresh", "trying", "up", "refused"}
  BY <1>1, Lengths DEF IoInv, IoType, Owned, InWait
<1>3. InWait(d) /\ (pc[d] = "waiting" => d \notin cancelled) =>
        (ops[op[d]].st = "pending" => misled)
  BY <1>1 DEF IoInv, WokenFor, GoesOn
<1>4. CASE InWait(d) /\ (ops[op[d]].st = "pending" => misled) /\ Status(d)
  BY <1>1, <1>4, StatusKeeps
<1>5. CASE /\ pc[d] = "waiting" /\ ops[op[d]].st = "pending" /\ Finish(d, "cancelled", 0)
           /\ ops' = FreeFrom([ops EXCEPT ![op[d]].st = "aborted"], d)
           /\ packets' = Append(packets, op[d]) /\ UNCHANGED givenUp
  <2>1. op[d] # 0 /\ op[d] \in 1 .. Len(ops) /\ ops[op[d]] \in Operations
        /\ ops[op[d]].dir = d /\ link # "fresh"
    BY <1>2, <1>5 DEF InWait
  <2>2. PICK o \in Operations : o = [ops[op[d]] EXCEPT !.st = "aborted"]
    BY <2>1 DEF Operations
  <2>3. o.dir = d /\ o.st = "aborted" /\ o.n = 0
    BY <1>5, <2>1, <2>2 DEF Operations, IoInv, Owned
  <2>4. ops' = [ops EXCEPT ![op[d]] = [o EXCEPT !.freed = TRUE]]
    BY <1>5, <2>1, <2>2 DEF FreeFrom, IoInv, IoType
  <2>5. Freed(d)
    BY <1>5, <2>1, <2>3, <2>4, OneFreed
  <2>6. InFlight(d) = 0
    BY <1>5 DEF InFlight
  <2>7. Windows /\ link' = "trying" /\ open' => link = "trying" /\ open /\ d # "write"
    BY <1>1, <1>5 DEF IoInv, Owned, kernelVars, Finish
  <2>. QED  BY <1>1, <1>2, <1>5, <2>1, <2>5, <2>6, <2>7, FinishKeeps DEF kernelVars
<1>6. CASE /\ pc[d] = "waiting" /\ WaitOn(d, "settling") /\ UNCHANGED givenUp
           /\ ops' = [ops EXCEPT ![op[d]].aborting = TRUE]
  BY <1>1, <1>6, WaitOnKeeps
<1>7. CASE pc[d] = "waiting" /\ WaitOn(d, "givingUp") /\ givenUp' = TRUE /\ UNCHANGED ops
  BY <1>1, <1>7, WaitOnKeeps
<1>8. CASE /\ pc[d] = "givingUp" /\ Finish(d, "error", 0)
           /\ ops' = FreeFrom(ops, d) /\ UNCHANGED <<packets, givenUp>>
  <2>1. /\ op[d] # 0 /\ op[d] \in 1 .. Len(ops) /\ ops[op[d]] \in Operations
        /\ ops[op[d]].dir = d /\ link # "fresh"
        /\ ops[op[d]].st = "pending" => misled
    BY <1>2, <1>3, <1>8 DEF InWait
  <2>2. ops' = [ops EXCEPT ![op[d]] = [ops[op[d]] EXCEPT !.freed = TRUE]]
    BY <1>8, <2>1 DEF FreeFrom
  <2>3. ops[op[d]].st # "done" => ops[op[d]].n = 0
    BY <2>1 DEF IoInv, Owned
  <2>4. Freed(d)
    BY <1>8, <2>1, <2>2, <2>3, OneFreed
  <2>5. givenUp
    BY <1>8 DEF IoInv, GaveUp
  <2>6. Windows /\ link' = "trying" /\ open' => link = "trying" /\ open /\ d # "write"
    BY <1>1, <1>8 DEF IoInv, Owned, kernelVars, Finish
  <2>. QED  BY <1>1, <1>2, <1>8, <2>1, <2>4, <2>5, <2>6, FinishKeeps DEF kernelVars
<1>. QED
  <2>1. CASE pc[d] = "waiting" /\ d \in cancelled /\ CancelIoResult(d)
    BY <1>4, <1>5, <1>6, <1>7, <2>1 DEF CancelIoResult, InWait
  <2>2. CASE pc[d] = "waiting" /\ d \notin cancelled /\ Status(d)
    BY <1>3, <1>4, <2>2 DEF InWait
  <2>3. CASE pc[d] = "settling" /\ Status(d)
    BY <1>3, <1>4, <2>3 DEF InWait
  <2>. QED  BY <1>8, <2>1, <2>2, <2>3 DEF ResumeWindows

\* A task goes on.
LEMMA ResumeKeeps == ASSUME IoInv, NEW d \in Dirs, Resume(d) PROVE IoInv'
BY PausedKeeps, ResumeUnixKeeps, ResumeWindowsKeeps DEF Resume

\* A new socket.
LEMMA IoInit == Init => IoInv
<1>. SUFFICES ASSUME Init
     PROVE  IoInv
  OBVIOUS
<1>1. ops = << >> /\ packets = << >> /\ Len(ops) = 0 /\ Len(packets) = 0
  BY DEF Init
<1>2. IoType
  <2>1. inbuf \in Nat /\ sent \in Int /\ room \in Nat /\ taken \in Nat
    BY IoAssumption DEF Init
  <2>2. ops \in Seq(Operations) /\ packets \in Seq(Nat)
    BY <1>1
  <2>3. /\ pc \in [Dirs -> Places] /\ held \in [Dirs -> Nat] /\ told \in [Dirs -> Nat]
        /\ op \in [Dirs -> Nat] /\ DOMAIN outcome = Dirs
    BY DEF Init, Places
  <2>4. /\ platform \in Platforms /\ edges \subseteq Dirs
        /\ link \in {"fresh", "trying", "up", "refused"} /\ peer \in {"open", "fin", "rst"}
        /\ ready \subseteq Dirs /\ cancelled \subseteq Dirs
    BY DEF Init, InitialEdges
  <2>5. open \in BOOLEAN /\ misled \in BOOLEAN /\ givenUp \in BOOLEAN
    BY DEF Init
  <2>. QED  BY <2>1, <2>2, <2>3, <2>4, <2>5 DEF IoType
<1>3. Owned /\ GaveUp /\ WokenFor /\ BuffersOutliveCalls
  BY <1>1 DEF Init, Owned, GaveUp, WokenFor, BuffersOutliveCalls, InWait, Connecting, Dirs
<1>4. NothingLost
  BY <1>1 DEF Init, NothingLost, InFlight, Dirs
<1>. QED
  BY <1>2, <1>3, <1>4 DEF IoInv

\* Every step keeps the invariant.
LEMMA IoStep == IoInv /\ [Next]_vars => IoInv'
<1>. SUFFICES ASSUME IoInv, [Next]_vars
     PROVE  IoInv'
  OBVIOUS
<1>1. CASE Kernel
  BY <1>1, PeerKeeps, LinkKeeps, CompleteKeeps, AbortKeeps DEF Kernel
<1>2. CASE ConnectUnix \/ ConnectWindows
  BY <1>2, ConnectKeeps
<1>3. CASE PollUnix \/ PollWindows \/ Close
  BY <1>3, PollUnixKeeps, PollWindowsKeeps, CloseKeeps
<1>4. ASSUME NEW d \in Dirs,
             CallAnswered(d) \/ CallUnix(d) \/ CallWindows(d) \/ Cancel(d) \/ Resume(d)
      PROVE  IoInv'
  BY <1>4, AnswerKeeps, CallKeeps, CancelKeeps, ResumeKeeps
<1>5. CASE UNCHANGED vars
  BY <1>5, SMTT(60)
  DEF vars, kernelVars, busVars, taskVars, IoInv, IoType, Owned, GaveUp, WokenFor,
              GoesOn, BuffersOutliveCalls, NothingLost, InWait, InFlight, Connecting, Windows
<1>. QED
  BY <1>1, <1>2, <1>3, <1>4, <1>5 DEF Next

\* The invariant holds in every behaviour.
LEMMA IoHolds == Spec => []IoInv
<1>1. Init => IoInv
  BY IoInit
<1>2. IoInv /\ [Next]_vars => IoInv'
  BY IoStep
<1>. QED
  BY <1>1, <1>2, PTL DEF Spec

\* However calls are cancelled (Coroutine::cancel, CancelIoEx), their callers are told of
\* every byte that moved, and of no other.
THEOREM EveryByteIsTold == Spec => []NothingLost
<1>1. IoInv => NothingLost
  BY DEF IoInv
<1>. QED
  BY <1>1, IoHolds, PTL

\* An operation that the kernel still holds has its memory (make_io_result,
\* moonbitlang_async_free_io_result).
THEOREM KernelHoldsLiveMemory == Spec => []BuffersOutliveCalls
<1>1. IoInv => BuffersOutliveCalls
  BY DEF IoInv
<1>. QED
  BY <1>1, IoHolds, PTL

------------------------------------------------------------------------------
\* A task that was woken to call again has a socket that answers, or, while it
\* connects, an attempt that is over.
WokenWell(d) ==
  d \in ready /\ pc[d] = "waiting" /\ d \notin cancelled /\ open =>
    IF Connecting THEN link \in {"up", "refused"}
    ELSE Ready(d) \/ (platform = "linux" /\ d = "write" /\ peer # "open")

\* Nobody reads or writes before the connect is over, and the peer does nothing before
\* the connection is there.
ConnectFirst ==
  /\ Connecting => pc["read"] = "idle" /\ pc["write"] # "paused" /\ open
  /\ link # "up" => peer = "open"
  /\ ~Windows => ops = << >>
  /\ Windows /\ Connecting /\ op["write"] # 0 /\ ops[op["write"]].st = "done" => link = "up"

HonestInv ==
  /\ WakesAreHonest
  /\ ConnectFirst
  /\ ~Windows => \A d \in Dirs : WokenWell(d)

\* The socket changes while the tasks stand still.
LEMMA KernelHonest == ASSUME IoInv, HonestInv, Kernel PROVE HonestInv'
<1>1. UNCHANGED <<platform, open, pc, held, op, ready, cancelled, told, outcome, calls, misled>>
  BY DEF Kernel, PeerSends, PeerTakes, PeerLeaves, LinkSettles, Completes, Aborts, taskVars
<1>2. inbuf \in Nat /\ room \in Nat
  BY DEF IoInv, IoType
<1>3. CASE PeerSends \/ PeerTakes \/ PeerLeaves
  <2>1. link = "up" /\ link' = link /\ ops' = ops /\ (peer # "open" => peer' # "open")
    BY <1>3 DEF PeerSends, PeerTakes, PeerLeaves
  <2>2. \A d \in Dirs : Ready(d) => Ready(d)'
    BY <1>2, <1>3, <2>1 DEF PeerSends, PeerTakes, PeerLeaves, Ready, Dirs
  <2>3. ASSUME NEW d \in Dirs, ~Windows PROVE WokenWell(d)'
    BY <1>1, <2>1, <2>2, <2>3 DEF HonestInv, WokenWell, Connecting
  <2>4. WakesAreHonest' /\ ConnectFirst'
    BY <1>1, <2>1 DEF HonestInv, WakesAreHonest, ConnectFirst, Connecting, Windows
  <2>5. QED
    BY <1>1, <2>3, <2>4 DEF HonestInv, Windows
<1>4. CASE LinkSettles
  <2>1. link = "trying" /\ open /\ link' \in {"up", "refused"} /\ peer' = peer
        /\ Connecting /\ peer = "open"
    BY <1>4 DEF LinkSettles, HonestInv, WakesAreHonest, ConnectFirst
  <2>2. Windows => /\ op["write"] \in 1 .. Len(ops)
                   /\ ops' = [ops EXCEPT ![op["write"]].st =
                                IF link' = "up" THEN "done" ELSE "failed"]
    <3>1. op["write"] \in 0 .. Len(ops) /\ (Windows => op["write"] # 0)
      BY <2>1 DEF IoInv, Owned, Dirs
    <3>2. QED
      BY <1>4, <3>1, Lengths DEF LinkSettles
  <2>3. Windows => ops'[op["write"]].st = IF link' = "up" THEN "done" ELSE "failed"
    <3>1. SUFFICES ASSUME Windows PROVE ops'[op["write"]].st = IF link' = "up" THEN "done" ELSE "failed"
      OBVIOUS
    <3>2. PICK k : k = op["write"]
      OBVIOUS
    <3>3. k \in DOMAIN ops /\ ops[k] \in Operations
      BY <2>2, <3>1, <3>2, Lengths, LenProperties DEF IoInv, IoType
    <3>4. ops' = [ops EXCEPT ![k].st = IF link' = "up" THEN "done" ELSE "failed"]
      BY <2>2, <3>1, <3>2
    <3>5. ops'[k].st = IF link' = "up" THEN "done" ELSE "failed"
      BY <3>3, <3>4 DEF Operations
    <3>6. QED
      BY <3>2, <3>5
  <2>4. ~Windows => ops' = ops
    BY <1>4 DEF LinkSettles
  <2>5. ConnectFirst'
    BY <1>1, <2>1, <2>3, <2>4 DEF HonestInv, ConnectFirst, Connecting, Windows
  <2>6. WakesAreHonest'
    BY <1>1, <2>1 DEF HonestInv, WakesAreHonest, Connecting
  <2>7. \A d \in Dirs : WokenWell(d)'
    BY <1>1, <2>1 DEF WokenWell, Connecting
  <2>8. QED
    BY <2>5, <2>6, <2>7 DEF HonestInv
<1>5. ASSUME NEW i \in 1 .. Len(ops), Completes(i) \/ Aborts(i) PROVE HonestInv'
  <2>1. Windows
    BY <1>5, LenProperties, EmptySeq DEF HonestInv, ConnectFirst
  <2>2. peer' = peer /\ link' = link /\ (Completes(i) => link = "up")
    BY <1>5 DEF Completes, Aborts, Transfer, kernelVars
  <2>3. ASSUME NEW k \in 1 .. Len(ops), k # i \/ Aborts(i), ops'[k].st = "done"
        PROVE  ops[k].st = "done"
    <3>1. i \in DOMAIN ops /\ k \in DOMAIN ops /\ ops[i] \in Operations /\ ops[k] \in Operations
      BY Lengths, LenProperties DEF IoInv, IoType
    <3>2. CASE k # i
      BY <1>5, <2>3, <3>1, <3>2 DEF Completes, Aborts
    <3>3. CASE k = i /\ Aborts(i)
      BY <2>3, <3>1, <3>3 DEF Aborts, Operations
    <3>4. QED
      BY <2>3, <3>2, <3>3
  <2>4. op["write"] # 0 => op["write"] \in 1 .. Len(ops)
    BY Lengths DEF IoInv, Owned, Dirs
  <2>5. ConnectFirst'
    BY <1>1, <1>5, <2>1, <2>2, <2>3, <2>4 DEF HonestInv, ConnectFirst, Connecting, Windows
  <2>6. WakesAreHonest'
    BY <1>1, <2>2 DEF HonestInv, WakesAreHonest, Connecting
  <2>7. QED
    BY <1>1, <2>1, <2>5, <2>6 DEF HonestInv, Windows
<1>6. QED
  BY <1>3, <1>4, <1>5 DEF Kernel

\* The bus wakes only those it has something for.
LEMMA PollHonest == ASSUME IoInv, HonestInv, PollUnix \/ PollWindows PROVE HonestInv'
<1>1. UNCHANGED <<platform, kernelVars, ops, open, pc, held, op, cancelled, told, outcome, calls>>
      /\ (misled => misled')
  <2>1. UNCHANGED <<platform, kernelVars, ops, open, pc, held, op, cancelled, told, outcome, calls>>
    BY DEF PollUnix, PollWindows
  <2>2. misled => misled'
    BY Zenon DEF PollUnix, PollWindows
  <2>3. QED
    BY <2>1, <2>2, Zenon
<1>2. UNCHANGED <<link, peer, inbuf, room>>
  BY <1>1 DEF kernelVars
<1>3. WakesAreHonest' /\ ConnectFirst'
  BY <1>1, <1>2 DEF HonestInv, WakesAreHonest, ConnectFirst, Connecting, Windows
<1>4. ASSUME ~Windows, NEW d \in Dirs PROVE WokenWell(d)'
  <2>1. PollUnix
    BY <1>4 DEF PollWindows
  <2>2. ready' = ready \cup Woken(Events) /\ link # "fresh" /\ link \in {"fresh", "trying", "up", "refused"}
    BY <2>1 DEF PollUnix, IoInv, IoType
  <2>3. CASE d \in ready
    BY <1>1, <1>2, <1>4, <2>3 DEF HonestInv, WokenWell, Connecting, Ready
  <2>4. CASE d \in Events /\ platform = "linux"
    <3>1. Ready(d) \/ HungUp
      BY <2>4 DEF Events, EpollEvents
    <3>2. ~Connecting /\ open => link = "up"
      BY DEF HonestInv, WakesAreHonest
    <3>3. Connecting => link \in {"up", "refused"}
      BY <2>2, <3>1 DEF Ready, HungUp, HonestInv, ConnectFirst
    <3>4. ~Connecting /\ open => Ready(d) \/ (d = "write" /\ peer # "open")
      BY <3>1, <3>2 DEF Ready, HungUp, Dirs
    <3>5. QED
      BY <1>1, <1>2, <2>4, <3>3, <3>4 DEF WokenWell, Connecting, Ready
  <2>5. CASE d \in Events /\ platform # "linux"
    <3>1. Ready(d)
      BY <2>5 DEF Events, KqueueEvents
    <3>2. link # "up" => link = "refused"
      BY <3>1 DEF Ready
    <3>3. QED
      BY <1>1, <1>2, <3>1, <3>2 DEF WokenWell, Connecting, Ready
  <2>6. QED
    BY <1>1, <2>2, <2>3, <2>4, <2>5 DEF WokenWell, Woken
<1>5. QED
  BY <1>1, <1>3, <1>4 DEF HonestInv, Windows

\* A call that ends honestly leaves the other task's wait as it was.
LEMMA FinishHonest ==
  ASSUME IoInv, HonestInv, NEW d \in Dirs,
         NEW how \in {"ok", "error", "cancelled", "again", "incomplete"}, NEW n,
         Finish(d, how, n),
         how = "again" => platform = "linux" /\ d = "write" /\ peer # "open",
         how = "incomplete" => misled,
         Connecting => d = "write",
         Connecting /\ how = "ok" => link' = "up",
         ~Connecting => link' = link,
         link' # "up" => peer = "open",
         UNCHANGED <<platform, peer, misled>>,
         ~Windows => ops' = ops,
         \A e \in Dirs : e # d /\ link = "up" /\ Ready(e) => Ready(e)'
  PROVE  HonestInv'
<1>1. /\ pc' = [pc EXCEPT ![d] = "idle"] /\ outcome' = [outcome EXCEPT ![d] = how]
      /\ ready' = ready \ {d} /\ cancelled' = cancelled \ {d}
      /\ open' = (open /\ ~(Connecting /\ how # "ok"))
  BY DEF Finish
<1>2. /\ outcome'[d] = how /\ pc'[d] = "idle"
      /\ \A e \in Dirs : e # d => outcome'[e] = outcome[e] /\ pc'[e] = pc[e]
  BY <1>1 DEF IoInv, IoType
<1>3. ~Connecting'
  BY <1>2 DEF Connecting, Dirs
<1>4. WakesAreHonest'
  <2>1. \A e \in Dirs :
          /\ outcome'[e] = "again" => platform' = "linux" /\ e = "write" /\ peer' # "open"
          /\ outcome'[e] = "incomplete" => misled'
    BY <1>2 DEF HonestInv, WakesAreHonest
  <2>2. open' => link' = "up"
    BY <1>1 DEF HonestInv, WakesAreHonest
  <2>3. QED
    BY <2>1, <2>2 DEF WakesAreHonest
<1>5. ConnectFirst'
  BY <1>3 DEF HonestInv, ConnectFirst, Windows
<1>6. ASSUME ~Windows, NEW e \in Dirs PROVE WokenWell(e)'
  <2>1. CASE e = d
    BY <1>1, <2>1 DEF WokenWell
  <2>2. CASE e # d /\ Connecting
    BY <1>2, <2>2 DEF HonestInv, ConnectFirst, WokenWell, Dirs
  <2>3. CASE e # d /\ ~Connecting
    <3>1. open' => open /\ link = "up"
      BY <1>1, <2>3 DEF HonestInv, WakesAreHonest
    <3>2. open' /\ e \in ready' /\ pc'[e] = "waiting" /\ e \notin cancelled' =>
            Ready(e) \/ (platform = "linux" /\ e = "write" /\ peer # "open")
      BY <1>1, <1>2, <1>6, <2>3, <3>1 DEF HonestInv, WokenWell
    <3>3. QED
      BY <1>3, <2>3, <3>1, <3>2 DEF WokenWell
  <2>4. QED
    BY <2>1, <2>2, <2>3
<1>7. QED
  BY <1>4, <1>5, <1>6 DEF HonestInv, Windows

\* A connect ends with a connection or with its socket closed.
LEMMA ConnectHonest == ASSUME IoInv, HonestInv, ConnectUnix \/ ConnectWindows PROVE HonestInv'
<1>1. link = "fresh" /\ UNCHANGED <<platform, peer, inbuf, room, misled>> /\ peer = "open"
      /\ (~Windows => ops' = ops)
  BY DEF ConnectUnix, ConnectWindows, HonestInv, ConnectFirst, busVars
<1>2. (open => Connecting) /\ \A d \in Dirs : pc[d] = "idle" /\ d \notin ready
  BY <1>1 DEF IoInv, Owned, WokenFor, GoesOn
<1>3. CASE \E how \in {"ok", "error"} : Finish("write", how, 0) /\ (how = "ok" => link' = "up")
  <2>1. PICK how \in {"ok", "error"} : Finish("write", how, 0) /\ (how = "ok" => link' = "up")
    BY <1>3
  <2>2. CASE Connecting
    BY <1>1, <2>1, <2>2, FinishHonest DEF Dirs
  <2>3. CASE ~Connecting
    <3>1. ~open
      BY <1>2, <2>3
    <3>2. /\ pc' = [pc EXCEPT !["write"] = "idle"] /\ outcome' = [outcome EXCEPT !["write"] = how]
          /\ ready' = ready \ {"write"} /\ open' = FALSE
      BY <2>1, <3>1 DEF Finish
    <3>3. WakesAreHonest'
      BY <1>1, <3>2 DEF HonestInv, WakesAreHonest, IoInv, IoType, Dirs
    <3>4. ConnectFirst'
      BY <1>1, <3>2 DEF HonestInv, ConnectFirst, IoInv, IoType, Connecting, Dirs, Windows
    <3>5. QED
      BY <1>2, <3>2, <3>3, <3>4 DEF HonestInv, WokenWell
  <2>4. QED
    BY <2>2, <2>3
<1>4. CASE link' = "trying" /\ pc' = [pc EXCEPT !["write"] = "waiting"]
           /\ UNCHANGED <<open, held, ready, cancelled, told, outcome, calls>>
           /\ (Windows => Pend("write") /\ Connecting)
  <2>1. ConnectFirst'
    <3>1. Connecting => pc'["read"] = "idle" /\ pc'["write"] # "paused" /\ open'
      BY <1>2, <1>4 DEF HonestInv, ConnectFirst, IoInv, IoType, Dirs
    <3>2. Windows => ops'[op'["write"]].st = "pending"
      <4>1. SUFFICES ASSUME Windows PROVE ops'[op'["write"]].st = "pending"
        OBVIOUS
      <4>2. ops' = Append(ops, [dir |-> "write", st |-> "pending", n |-> 0,
                                aborting |-> FALSE, freed |-> FALSE])
            /\ op'["write"] = Len(ops) + 1
        BY <1>4, <4>1 DEF Pend, IoInv, IoType, Dirs
      <4>3. ops'[Len(ops) + 1].st = "pending"
        BY <4>2, AppendProperties DEF IoInv, IoType, Operations, Dirs
      <4>4. QED
        BY <4>2, <4>3
    <3>3. QED
      BY <1>1, <1>4, <3>1, <3>2 DEF HonestInv, ConnectFirst, Connecting, Windows
  <2>2. WakesAreHonest'
    BY <1>1, <1>2, <1>4 DEF HonestInv, WakesAreHonest, Connecting
  <2>3. QED
    BY <1>2, <1>4, <2>1, <2>2 DEF HonestInv, WokenWell
<1>5. QED
  <2>1. CASE ConnectUnix
    BY <1>3, <1>4, <2>1 DEF ConnectUnix
  <2>2. CASE ConnectWindows
    BY <1>3, <1>4, <2>2 DEF ConnectWindows, SetupConnected
  <2>3. QED
    BY <2>1, <2>2

\* A call that has to wait is not among those that were woken.
LEMMA CallHonest ==
  ASSUME IoInv, HonestInv, NEW d \in Dirs, CallUnix(d) \/ CallWindows(d)
  PROVE  HonestInv'
<1>1. /\ pc[d] = "idle" /\ ~Connecting /\ open /\ pc' = [pc EXCEPT ![d] = "waiting"]
      /\ UNCHANGED <<platform, kernelVars, open, ready, cancelled, outcome, misled>>
      /\ (~Windows => ops' = ops)
  BY DEF CallUnix, CallWindows, Begin, CanCall, busVars
<1>2. UNCHANGED <<link, peer, inbuf, room>>
  BY <1>1 DEF kernelVars
<1>3. d \notin ready
  BY <1>1 DEF IoInv, WokenFor, GoesOn
<1>4. WakesAreHonest' /\ ConnectFirst'
  BY <1>1, <1>2 DEF HonestInv, WakesAreHonest, ConnectFirst, Connecting, Windows
<1>5. ASSUME ~Windows, NEW e \in Dirs PROVE WokenWell(e)'
  <2>1. CASE e = d
    BY <1>1, <1>3, <2>1 DEF WokenWell
  <2>2. CASE e # d
    BY <1>1, <1>2, <1>5, <2>2 DEF HonestInv, WokenWell, Connecting, Ready, IoInv, IoType
  <2>3. QED
    BY <2>1, <2>2
<1>6. QED
  BY <1>1, <1>4, <1>5 DEF HonestInv, Windows

\* A call that is answered at once takes nothing from the other task.
LEMMA AnswerHonest ==
  ASSUME IoInv, HonestInv, NEW d \in Dirs, CallAnswered(d)
  PROVE  HonestInv'
<1>1. /\ pc[d] = "idle" /\ ~Connecting /\ open
      /\ UNCHANGED <<platform, ops, link, peer, open, cancelled, misled>>
  BY DEF CallAnswered, CanCall, Begin, Transfer, busVars, kernelVars
<1>2. /\ outcome' \in {outcome, [outcome EXCEPT ![d] = "error"]}
      /\ pc' \in {pc, [pc EXCEPT ![d] = "paused"]}
      /\ ready' \in {ready, ready \cup {d}}
      /\ UNCHANGED op
  BY DEF CallAnswered, Begin
<1>3. \A e \in Dirs : e # d => (Ready(e) <=> Ready(e)')
  BY <1>1 DEF CallAnswered, Transfer, Ready, Dirs, kernelVars
<1>4. ~Connecting'
  BY <1>1, <1>2 DEF Connecting, IoInv, IoType, Dirs
<1>5. WakesAreHonest'
  BY <1>1, <1>2, <1>4 DEF HonestInv, WakesAreHonest, IoInv, IoType
<1>6. ConnectFirst'
  BY <1>1, <1>4 DEF HonestInv, ConnectFirst, Windows
<1>7. ASSUME ~Windows, NEW e \in Dirs PROVE WokenWell(e)'
  <2>1. CASE e = d
    BY <1>1, <1>2, <2>1 DEF WokenWell, IoInv, IoType
  <2>2. CASE e # d
    BY <1>1, <1>2, <1>3, <1>4, <1>7, <2>2 DEF HonestInv, WokenWell, IoInv, IoType
  <2>3. QED
    BY <2>1, <2>2
<1>8. QED
  BY <1>1, <1>5, <1>6, <1>7 DEF HonestInv, Windows

\* To cancel, or to close, wakes nobody for a call.
LEMMA CancelHonest ==
  ASSUME IoInv, HonestInv, (\E d \in Dirs : Cancel(d)) \/ Close
  PROVE  HonestInv'
<1>1. UNCHANGED <<platform, kernelVars, ops, pc, op, outcome, misled>>
  BY DEF Cancel, Close, busVars, taskVars
<1>2. UNCHANGED <<link, peer, inbuf, room>>
  BY <1>1 DEF kernelVars
<1>3. open' => open
  BY DEF Cancel, Close
<1>4. Connecting' => open' = open
  BY <1>1 DEF Cancel, Close, Connecting
<1>5. WakesAreHonest' /\ ConnectFirst'
  BY <1>1, <1>2, <1>3, <1>4 DEF HonestInv, WakesAreHonest, ConnectFirst, Connecting, Windows
<1>6. \A d \in Dirs : d \in ready' /\ d \notin cancelled' => d \in ready /\ d \notin cancelled
  BY DEF Cancel, Close, taskVars
<1>7. ASSUME ~Windows, NEW d \in Dirs PROVE WokenWell(d)'
  BY <1>1, <1>2, <1>3, <1>6, <1>7 DEF HonestInv, WokenWell, Connecting, Ready
<1>8. QED
  BY <1>1, <1>5, <1>7 DEF HonestInv, Windows

\* A task that goes on has what it was woken for.
LEMMA ResumeHonest ==
  ASSUME IoInv, HonestInv, NEW d \in Dirs, Resume(d)
  PROVE  HonestInv'
<1>1. d \in ready /\ UNCHANGED <<platform, misled>> /\ GoesOn(d) /\ pc[d] # "idle"
  BY DEF Resume, IoInv, WokenFor, GoesOn
<1>2. Connecting => d = "write" /\ open
  BY <1>1 DEF HonestInv, ConnectFirst, Dirs
<1>3. link' # "up" /\ link' = link => peer = "open"
  BY DEF HonestInv, ConnectFirst
<1>4. CASE ResumePaused(d)
  <2>1. pc[d] = "paused" /\ UNCHANGED <<kernelVars, ops>>
        /\ \E how \in {"ok", "cancelled"}, n \in {0, held[d]} : Finish(d, how, n)
    BY <1>4 DEF ResumePaused
  <2>2. ~Connecting
    BY <1>2, <2>1 DEF HonestInv, ConnectFirst
  <2>3. UNCHANGED <<link, peer, inbuf, room>>
    BY <2>1 DEF kernelVars
  <2>4. \A e \in Dirs : Ready(e) => Ready(e)'
    BY <2>3 DEF Ready
  <2>5. QED
    BY <1>1, <1>3, <2>1, <2>2, <2>3, <2>4, FinishHonest
<1>5. CASE ResumeUnix(d)
  <2>1. ~Windows /\ pc[d] = "waiting" /\ ops' = ops /\ UNCHANGED <<link, peer>>
    BY <1>5 DEF ResumeUnix, Transfer, kernelVars
  <2>2. \A e \in Dirs : e # d /\ Ready(e) => Ready(e)'
    BY <1>5, <2>1 DEF ResumeUnix, Transfer, kernelVars, Ready, Dirs
  <2>3. d \notin cancelled /\ open =>
          IF Connecting THEN link \in {"up", "refused"}
          ELSE Ready(d) \/ (platform = "linux" /\ d = "write" /\ peer # "open")
    BY <1>1, <2>1 DEF HonestInv, WokenWell
  <2>4. PICK how \in {"ok", "error", "cancelled", "again", "incomplete"}, n \in {0, Amount(d)} :
          /\ Finish(d, how, n)
          /\ how = "again" => d \notin cancelled /\ ~Connecting /\ open /\ ~Ready(d)
          /\ how = "ok" /\ Connecting => d \notin cancelled /\ ~SocketError
          /\ how # "incomplete"
    BY <1>5 DEF ResumeUnix
  <2>5. Connecting /\ how = "ok" => link' = "up"
    BY <1>2, <2>1, <2>3, <2>4 DEF SocketError
  <2>6. QED
    BY <1>1, <1>2, <1>3, <2>1, <2>2, <2>3, <2>4, <2>5, FinishHonest
<1>6. CASE ResumeWindows(d)
  <2>1. Windows /\ UNCHANGED kernelVars /\ InWait(d)
    BY <1>6 DEF ResumeWindows, InWait
  <2>2. UNCHANGED <<link, peer, inbuf, room>>
    BY <2>1 DEF kernelVars
  <2>3. \A e \in Dirs : Ready(e) => Ready(e)'
    BY <2>2 DEF Ready
  <2>4. op[d] # 0 /\ op[d] \in 1 .. Len(ops) /\ ops[op[d]] \in Operations
    BY <2>1, Lengths DEF IoInv, Owned
  <2>5. Connecting /\ ops[op[d]].st = "done" => link = "up"
    BY <1>2, <2>1, <2>4 DEF HonestInv, ConnectFirst
  <2>6. ASSUME NEW how \in {"ok", "error", "cancelled", "incomplete"}, NEW n, Finish(d, how, n),
               how = "incomplete" => misled, how = "ok" => ops[op[d]].st = "done"
        PROVE  HonestInv'
    BY <1>1, <1>2, <1>3, <2>1, <2>2, <2>3, <2>5, <2>6, FinishHonest
  <2>7. ASSUME Status(d), ops[op[d]].st # "pending" \/ misled PROVE HonestInv'
    <3>1. PICK how : /\ Finish(d, how, ops[op[d]].n)
                     /\ how = CASE ops[op[d]].st = "done" -> "ok"
                               [] ops[op[d]].st = "failed" -> "error"
                               [] ops[op[d]].st = "aborted" -> "cancelled"
                               [] OTHER -> "incomplete"
      BY <2>7 DEF Status
    <3>2. ops[op[d]].st \in {"pending", "done", "failed", "aborted"}
      BY <2>4 DEF Operations
    <3>3. /\ how \in {"ok", "error", "cancelled", "incomplete"}
          /\ how = "incomplete" => ops[op[d]].st = "pending"
          /\ how = "ok" => ops[op[d]].st = "done"
      BY <3>1, <3>2
    <3>4. QED
      BY <2>6, <2>7, <3>1, <3>3
  <2>8. ASSUME NEW where \in {"settling", "givingUp"}, WaitOn(d, where),
               ops' = ops \/ ops' = [ops EXCEPT ![op[d]].aborting = TRUE]
        PROVE  HonestInv'
    <3>1. pc' = [pc EXCEPT ![d] = where] /\ ready' = ready \ {d}
          /\ UNCHANGED <<open, op, outcome>>
      BY <2>8 DEF WaitOn
    <3>2. ASSUME NEW k \in 1 .. Len(ops) PROVE ops'[k].st = ops[k].st
      <4>1. PICK i \in 1 .. Len(ops) : i = op[d]
        BY <2>4
      <4>2. k \in DOMAIN ops /\ ops[k] \in Operations
        BY Lengths, LenProperties DEF IoInv, IoType
      <4>3. ops' = ops \/ ops' = [ops EXCEPT ![i].aborting = TRUE]
        BY <2>8, <4>1
      <4>4. QED
        BY <4>2, <4>3 DEF Operations
    <3>3. WakesAreHonest'
      BY <1>1, <2>2, <3>1 DEF HonestInv, WakesAreHonest, Connecting
    <3>4. op["write"] # 0 => op["write"] \in 1 .. Len(ops)
      BY Lengths DEF IoInv, Owned, Dirs
    <3>5. ConnectFirst'
      BY <1>1, <1>2, <2>1, <2>2, <2>8, <3>1, <3>2, <3>4
      DEF HonestInv, ConnectFirst, Connecting, Windows, IoInv, IoType, Dirs
    <3>6. QED
      BY <1>1, <2>1, <3>3, <3>5 DEF HonestInv, Windows
  <2>9. CASE pc[d] = "waiting" /\ d \in cancelled /\ CancelIoResult(d)
    BY <2>6, <2>7, <2>8, <2>9 DEF CancelIoResult
  <2>10. CASE (pc[d] = "waiting" /\ d \notin cancelled /\ Status(d))
              \/ (pc[d] = "settling" /\ Status(d))
    BY <1>1, <2>1, <2>7, <2>10 DEF GoesOn
  <2>11. CASE pc[d] = "givingUp" /\ Finish(d, "error", 0)
    BY <2>6, <2>11
  <2>12. QED
    BY <1>6, <2>9, <2>10, <2>11 DEF ResumeWindows
<1>7. QED
  BY <1>4, <1>5, <1>6 DEF Resume

\* A wait is over only when the call can be answered, and a connect that succeeds
\* has a connection (wait_read, wait_write, wait_for_connect, SO_ERROR).
THEOREM WakesAreAlwaysHonest == Spec => []WakesAreHonest
<1>1. Init => HonestInv
  BY DEF Init, HonestInv, WakesAreHonest, ConnectFirst, WokenWell, Connecting, Dirs
<1>2. IoInv /\ HonestInv /\ [Next]_vars => HonestInv'
  <2>. SUFFICES ASSUME IoInv, HonestInv, [Next]_vars PROVE HonestInv'
    OBVIOUS
  <2>1. CASE UNCHANGED vars
    BY <2>1 DEF vars, kernelVars, busVars, taskVars, HonestInv, WakesAreHonest, ConnectFirst,
                WokenWell, Connecting, Windows, Ready
  <2>2. QED
    BY <2>1, KernelHonest, PollHonest, ConnectHonest, CallHonest, AnswerHonest, CancelHonest,
       ResumeHonest DEF Next
<1>3. HonestInv => WakesAreHonest
  BY DEF HonestInv
<1>4. QED
  BY <1>1, <1>2, <1>3, IoHolds, PTL DEF Spec
==============================================================================
