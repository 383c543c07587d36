------------------------------ MODULE S7Client ------------------------------
(***************************************************************************)
(* chunked_read and chunked_write of a connected S7Client over the channel  *)
(* of S7Channel, against the memory of one data block of the PLC, which     *)
(* other clients of the PLC write too.                                      *)
(*                                                                         *)
(* A byte of memory is the mark of who wrote it: the number of the call     *)
(* (0 initially, negative for others and for bytes that are nobody's data)  *)
(* and the address it was meant for.                                        *)
(***************************************************************************)
EXTENDS S7Wire, FiniteSets

CONSTANTS
  Pdus,        \* the PDU sizes connect() may have negotiated
  MaxPdu,      \* MAX_PDU of protocol/constant.mbt, 960
  DbLen,       \* the bytes of the data block
  Calls,       \* the ranges of the calls: [kind, start, len]
  MaxCalls,    \* bound on the number of calls
  MaxForeign,  \* bound on the writes of other clients
  MixedAreas   \* the areas a PLC may store rubbish at when it completes a
               \* torn request with the bytes of the next one

ASSUME PdusAssumption == Pdus \subseteq Nat
ASSUME MaxPduAssumption == MaxPdu \in Nat
ASSUME DbLenAssumption == DbLen \in Nat
ASSUME CallsAssumption ==
  Calls \subseteq [kind : {"read", "write"}, start : Nat, len : Nat]
ASSUME BoundsAssumption == MaxCalls \in Nat /\ MaxForeign \in Nat

Addr == 0 .. DbLen - 1

ASSUME MixedAreasAssumption == MixedAreas \subseteq SUBSET Addr

Mark == [by : Int, at : Nat]

\* A request as the PLC decodes it: the addresses, and for a write the call
\* whose bytes it carries.
Request == [kind : {"read", "write"}, at : Nat, len : Nat, by : Nat]

\* A response as the client can tell them apart: a read response with its
\* payload, a write acknowledgement, an item error.
Response == [kind : {"data", "ack", "refused"}, bytes : Seq(Mark)]

VARIABLES
  phase, seqno, request, queue, unread, garbled, taken, failures,
  pdu,         \* pdu_size of the client
  mem,         \* the data block
  op,          \* the call in progress, or the last one
  callNo,      \* its number
  pc,          \* "idle", or "loop" inside chunked_read / chunked_write
  off,         \* the bytes of the range already exchanged
  result,      \* what chunked_read has collected
  outcome,     \* what the last call returned
  foreign,     \* the writes of other clients so far
  seen,        \* history: the values each address had during the call
  landed,      \* history: the addresses the PLC wrote for the call
  stale        \* history: the call took a response of another request

INSTANCE S7Channel WITH Requests <- Request, Responses <- Response

channel   == <<phase, seqno, request, queue, unread, garbled, taken, failures>>
callVars  == <<op, callNo, pc, off, result, outcome>>
histVars  == <<seen, landed, stale>>
plcMemory == <<mem, foreign>>
vars == <<channel, pdu, callVars, plcMemory, histVars>>

Outcomes == {"none", "ok", "item_not_found", "too_big", "failed", "rejected"}

Init ==
  /\ request = [kind |-> "read", at |-> 0, len |-> 0, by |-> 0]
  /\ ChanInit
  /\ pdu \in Pdus
  /\ mem = [a \in Addr |-> [by |-> 0, at |-> a]]
  /\ op \in Calls
  /\ callNo = 0
  /\ pc = "idle"
  /\ off = 0
  /\ result = <<>>
  /\ outcome = "none"
  /\ foreign = 0
  /\ seen = [a \in Addr |-> {mem[a]}]
  /\ landed = {}
  /\ stale = FALSE

-----------------------------------------------------------------------------
\* ag_read/ag_write and the like: the call enters its loop.
StartCall(c) ==
  /\ pc = "idle"
  /\ callNo < MaxCalls
  /\ op' = c
  /\ callNo' = callNo + 1
  /\ pc' = "loop"
  /\ off' = 0
  /\ result' = <<>>
  /\ outcome' = "none"
  /\ seen' = [a \in Addr |-> {mem[a]}]
  /\ landed' = {}
  /\ stale' = FALSE
  /\ UNCHANGED <<channel, pdu, plcMemory>>

Overhead(kind) == IF kind = "read" THEN ReadOverhead ELSE WriteOverhead
ChunkSize == Chunk(op.len - off, MaxChunk(pdu, Overhead(op.kind)))

\* build_read_pdu and build_write_pdu refuse a frame of more than MAX_PDU.
TooBig == op.kind = "write" /\ WriteHeaders + ChunkSize > MaxPdu

Return(res) ==
  /\ pc' = "idle"
  /\ outcome' = res
  /\ UNCHANGED <<op, callNo>>

\* Mutation: every chunk is requested from the start of the range.
SendFirstChunk ==
  /\ pc = "loop"
  /\ off < op.len
  /\ ~TooBig
  /\ Send([kind |-> op.kind, at |-> op.start, len |-> ChunkSize, by |-> callNo])
  /\ UNCHANGED <<pdu, callVars, plcMemory, histVars>>

\* Mutation: a chunk that cannot be built is tried again.
RetryChunk ==
  /\ pc = "loop"
  /\ phase = "idle"
  /\ off < op.len
  /\ TooBig
  /\ UNCHANGED vars

\* The next chunk is requested.
SendChunk ==
  /\ pc = "loop"
  /\ off < op.len
  /\ ~TooBig
  /\ Send([kind |-> op.kind, at |-> op.start + off, len |-> ChunkSize,
           by |-> callNo])
  /\ UNCHANGED <<pdu, callVars, plcMemory, histVars>>

RefuseChunk ==
  /\ pc = "loop"
  /\ phase = "idle"
  /\ off < op.len
  /\ TooBig
  /\ Return("too_big")
  /\ UNCHANGED <<channel, pdu, off, result, plcMemory, histVars>>

\* Every chunk was exchanged; a read that got no byte at all is an error.
Finish ==
  /\ pc = "loop"
  /\ phase = "idle"
  /\ off = op.len
  /\ Return(IF op.kind = "read" /\ result = <<>> THEN "item_not_found"
            ELSE "ok")
  /\ UNCHANGED <<channel, pdu, off, result, plcMemory, histVars>>

ChunkWritten ==
  /\ Written
  /\ UNCHANGED <<pdu, callVars, plcMemory, histVars>>

\* send_raw or receive returns an error: so does the call, at once.
ExchangeFails ==
  /\ SendFails \/ ReceiveFails
  /\ Return("failed")
  /\ UNCHANGED <<pdu, off, result, plcMemory, histVars>>

\* Mutation: the return code of a write is not looked at.
AcceptedUnseen(resp) == op.kind = "read" => resp.kind = "data"

\* parse_response takes a read response only; exec_write looks for the
\* return code, which a read response has at the same place.
Accepted(resp) ==
  IF op.kind = "read" THEN resp.kind = "data" ELSE resp.kind # "refused"

AcceptChunk ==
  /\ Take
  /\ LET resp == Head(unread).resp
     IN /\ Accepted(resp)
        /\ result' = IF op.kind = "read" THEN result \o resp.bytes ELSE result
  /\ off' = off + ChunkSize
  /\ stale' = (stale \/ taken' # seqno)
  /\ UNCHANGED <<pdu, op, callNo, pc, outcome, plcMemory, seen, landed>>

RejectChunk ==
  /\ Take
  /\ ~Accepted(Head(unread).resp)
  /\ Return("rejected")
  /\ stale' = (stale \/ taken' # seqno)
  /\ UNCHANGED <<pdu, off, result, plcMemory, seen, landed>>

\* Bytes that are no response: whether they pass for one is up to the bytes.
Junk == [by |-> -(MaxForeign + 1), at |-> 0]

Misread ==
  /\ TakeGarbage
  /\ stale' = TRUE
  /\ \/ /\ Return("rejected")
        /\ UNCHANGED <<off, result>>
     \/ /\ off' = off + ChunkSize
        /\ result' = IF op.kind = "read" THEN Append(result, Junk) ELSE result
        /\ UNCHANGED <<op, callNo, pc, outcome>>
  /\ UNCHANGED <<pdu, plcMemory, seen, landed>>

-----------------------------------------------------------------------------
(***************************************************************************)
(* The PLC.  The simulator cuts a read at the end of the data block, drops  *)
(* the bytes of a write beyond it and acknowledges them all the same; a     *)
(* real PLC refuses the item.                                               *)
(***************************************************************************)
Covers(req) == {a \in Addr : a \in req.at .. req.at + req.len - 1}

ReadPayload(req) ==
  [i \in 1 .. Cardinality(Covers(req)) |-> mem[req.at + i - 1]]

PlcReads(k) ==
  /\ queue # <<>>
  /\ queue[1].whole
  /\ LET req == queue[1].req
     IN /\ req.kind = "read"
        /\ Answer(k, [kind |-> "data", bytes |-> ReadPayload(req)])
  /\ UNCHANGED <<pdu, callVars, plcMemory, histVars>>

\* The first n bytes of a write, and rubbish in an area, become the memory.
Stores(req, n, area) ==
  LET range   == req.at .. req.at + n - 1
      written == [a \in Addr |-> IF a \in area THEN Junk
                                 ELSE IF a \in range
                                      THEN [by |-> req.by, at |-> a]
                                      ELSE mem[a]]
  IN /\ mem' = written
     /\ seen' = [a \in Addr |-> seen[a] \cup {written[a]}]
     /\ landed' = IF req.by = callNo THEN landed \cup range ELSE landed

PlcWrites(k) ==
  /\ queue # <<>>
  /\ queue[1].whole
  /\ LET req == queue[1].req
     IN /\ req.kind = "write"
        /\ Answer(k, [kind |-> "ack", bytes |-> <<>>])
        /\ Stores(req, req.len, {})
  /\ UNCHANGED <<pdu, callVars, foreign, stale>>

\* A torn request is answered with what could be made of it.  A write stores
\* the bytes of its payload that came; and when the requests behind it were
\* taken for its rest, whatever their bytes mean in that place.
Misanswers == [kind : {"data"}, bytes : {<<>>, <<Junk>>}]
              \cup [kind : {"ack"}, bytes : {<<>>}]

PlcMisreads(k, n) ==
  /\ queue # <<>>
  /\ ~queue[1].whole
  /\ \E resp \in Misanswers : Answer(k, resp)
  /\ LET req == queue[1].req
     IN /\ n \in 0 .. (IF req.kind = "write" THEN req.len ELSE 0)
        /\ \E area \in IF k = 1 THEN {{}} ELSE MixedAreas :
             Stores(req, n, area)
  /\ UNCHANGED <<pdu, callVars, foreign, stale>>

PlcOverlooks(k) ==
  /\ Overlook(k)
  /\ UNCHANGED <<pdu, callVars, plcMemory, histVars>>

PlcRefuses(k) ==
  /\ Answer(k, [kind |-> "refused", bytes |-> <<>>])
  /\ UNCHANGED <<pdu, callVars, plcMemory, histVars>>

\* Another client of the PLC, or its program, writes one byte.
ForeignWrite(a) ==
  /\ foreign < MaxForeign
  /\ foreign' = foreign + 1
  /\ mem' = [mem EXCEPT ![a] = [by |-> -(foreign + 1), at |-> a]]
  /\ seen' = [seen EXCEPT ![a] = @ \cup {mem'[a]}]
  /\ UNCHANGED <<channel, pdu, callVars, landed, stale>>

Client ==
  \/ SendChunk
  \/ RefuseChunk
  \/ Finish
  \/ ChunkWritten
  \/ ExchangeFails
  \/ AcceptChunk
  \/ RejectChunk
  \/ Misread

Plc ==
  \E k \in DOMAIN queue :
    \/ PlcReads(k)
    \/ PlcWrites(k)
    \/ PlcRefuses(k)
    \/ \E n \in 0 .. queue[1].req.len : PlcMisreads(k, n)
    \/ PlcOverlooks(k)

Next ==
  \/ \E c \in Calls : StartCall(c)
  \/ Client
  \/ Plc
  \/ \E a \in Addr : ForeignWrite(a)

\* The client's coroutine runs and the timers of its exchanges fire.
Fairness ==
  WF_vars(SendChunk \/ RefuseChunk \/ Finish \/ ExchangeFails)

Spec == Init /\ [][Next]_vars /\ Fairness

-----------------------------------------------------------------------------
Span(n) == {op.start + i : i \in 0 .. n - 1}
InDb == Span(op.len) \subseteq Addr
Returned(kind, res) == pc = "idle" /\ op.kind = kind /\ outcome = res

(***************************************************************************)
(* Byte i of what a read returns is a value address start + i had during    *)
(* the call, through every split into chunks; and a read inside the data    *)
(* block returns as many bytes as were asked for.  (Bytes of different      *)
(* chunks may be of different moments.)                                     *)
(***************************************************************************)
ReadOf(res) ==
  /\ \A i \in 1 .. Len(res) :
       /\ op.start + i - 1 \in Addr
       /\ res[i] \in seen[op.start + i - 1]
  /\ InDb => Len(res) = op.len

ReadIsFaithful == Returned("read", "ok") /\ ~stale => ReadOf(result)

(***************************************************************************)
(* What the PLC stored of the write in progress is a prefix of its range:   *)
(* all that was acknowledged, and at most the one chunk that is in flight   *)
(* or in doubt.  Only of the chunk a call failed in may a part be stored;   *)
(* when the call returned Ok it is all of the range.                        *)
(***************************************************************************)
WriteIsPrefix ==
  op.kind = "write" /\ ~stale =>
    /\ \/ landed \in {Span(off), Span(off + ChunkSize)}
       \/ /\ outcome = "failed"
          /\ \E n \in 0 .. ChunkSize : landed = Span(off + n)
    /\ outcome = "ok" => landed = Span(op.len)

(***************************************************************************)
(* Writes land in the order of the calls: a chunk of a failed call that     *)
(* lands late never overwrites a byte of a later call on the connection,    *)
(* nor does what the PLC makes of a torn one destroy a byte of the call in  *)
(* progress.                                                                *)
(***************************************************************************)
WritesInOrder ==
  [][\A a \in Addr :
       /\ mem'[a].by >= 0 /\ mem[a].by >= 0 => mem'[a].by >= mem[a].by
       /\ mem'[a] = Junk /\ mem[a] # Junk => mem[a].by < callNo]_vars

(***************************************************************************)
(* As long as no exchange of the connection failed, every response is the   *)
(* response to the request of its own exchange, and nothing but the data of *)
(* a client is ever stored.                                                 *)
(***************************************************************************)
StaleOnlyAfterFailure ==
  failures = 0 => ~stale /\ \A a \in Addr : mem[a] # Junk

(***************************************************************************)
(* Every call returns, whatever the PLC does and whatever PDU size was      *)
(* negotiated.                                                              *)
(***************************************************************************)
EveryCallReturns == pc = "loop" ~> pc = "idle"
=============================================================================
