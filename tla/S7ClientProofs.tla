---------------------------- MODULE S7ClientProofs --------------------------
(***************************************************************************)
(* Proofs about S7Client, for every set of calls and PDU sizes, every       *)
(* length of the data block and any number of calls and foreign writes:     *)
(* reads return what the memory held, writes land as prefixes and in the    *)
(* order of the calls, and no response is another's before a first failure. *)
(***************************************************************************)
EXTENDS S7Client, SequenceTheorems, FiniteSetTheorems, TLAPS

NumberedRequest == [no : Nat, req : Request, whole : BOOLEAN]
NumberedResponse == [no : Nat, resp : Response]

ChannelType ==
  /\ phase \in {"idle", "sending", "waiting"}
  /\ seqno \in Nat
  /\ request \in Request
  /\ queue \in Seq(NumberedRequest)
  /\ unread \in Seq(NumberedResponse)
  /\ garbled \in BOOLEAN
  /\ failures \in Nat

CallType ==
  /\ pdu \in Nat
  /\ op \in [kind : {"read", "write"}, start : Nat, len : Nat]
  /\ callNo \in Nat
  /\ pc \in {"idle", "loop"}
  /\ off \in 0 .. op.len
  /\ result \in Seq(Mark)
  /\ stale \in BOOLEAN

MemoryType ==
  /\ mem \in [Addr -> Mark]
  /\ foreign \in Nat
  /\ seen \in [Addr -> SUBSET Mark]
  /\ \A a \in Addr : mem[a] \in seen[a]

\* The numbers of requests and responses grow along the channel.
NumbersGrow ==
  /\ \A i \in 1 .. Len(queue) :
       /\ queue[i].no <= seqno
       /\ phase = "sending" => queue[i].no < seqno
  /\ \A i \in 1 .. Len(unread) :
       /\ unread[i].no <= seqno
       /\ phase = "sending" => unread[i].no < seqno
  /\ \A i \in 1 .. Len(unread), j \in 1 .. Len(queue) :
       unread[i].no < queue[j].no
  /\ \A i, j \in 1 .. Len(queue) : i < j => queue[i].no < queue[j].no

\* And so do the numbers of the calls, from the memory to the client.
CallsGrow ==
  /\ request.by <= callNo
  /\ \A i \in 1 .. Len(queue) : queue[i].req.by <= request.by
  /\ \A i, j \in 1 .. Len(queue) : i < j => queue[i].req.by <= queue[j].req.by
  /\ \A a \in Addr : mem[a].by <= request.by
  /\ \A a \in Addr, i \in 1 .. Len(queue) : mem[a].by <= queue[i].req.by

\* Before a first failure there is the one request, or its response.
InStep ==
  failures = 0 =>
    /\ ~garbled
    /\ ~stale
    /\ Len(queue) + Len(unread) <= IF phase = "waiting" THEN 1 ELSE 0
    /\ \A i \in 1 .. Len(unread) : unread[i].no = seqno
    /\ \A i \in 1 .. Len(queue) : queue[i].no = seqno

\* A torn request is of a call that failed: of an earlier one than what is
\* queued behind it.  Before a first failure there is none, and no rubbish.
TornIsOver ==
  /\ \A i \in 1 .. Len(queue) :
       ~queue[i].whole => queue[i].req.by < callNo \/ outcome = "failed"
  /\ \A i, j \in 1 .. Len(queue) :
       i < j /\ ~queue[i].whole => queue[i].req.by < queue[j].req.by
  /\ failures = 0 => /\ \A i \in 1 .. Len(queue) : queue[i].whole
                     /\ \A a \in Addr : mem[a] # Junk

\* The request of the chunk the call is at.
Current == [kind |-> op.kind, at |-> op.start + off, len |-> ChunkSize,
            by |-> callNo]

\* What the PLC still has of the call is that chunk.
ChunkAsked ==
  /\ pc = "idle" => phase = "idle"
  /\ pc = "loop" => outcome = "none"
  /\ outcome = "ok" => off = op.len
  /\ phase # "idle" => request = Current
  /\ \A i \in 1 .. Len(queue) : queue[i].no = seqno => queue[i].req = request
  /\ ~stale => \A i \in 1 .. Len(queue) :
       queue[i].req.by = callNo =>
         /\ queue[i].req = Current
         /\ pc = "loop" => phase = "waiting"

\* Own(i): unread response i answers the request the call waits on.
Own(i) == phase = "waiting" /\ unread[i].no = seqno

ChunkLands ==
  op.kind = "write" /\ ~stale =>
    /\ \/ landed \in {Span(off), Span(off + ChunkSize)}
       \/ /\ outcome = "failed"
          /\ \E n \in 0 .. ChunkSize : landed = Span(off + n)
    /\ \A i \in 1 .. Len(unread) :
         Own(i) /\ unread[i].resp.kind # "refused" =>
           landed = Span(off + ChunkSize)

\* The bytes of a range that are in the data block.
Inside(at, len) ==
  IF at + len <= DbLen THEN len ELSE IF at < DbLen THEN DbLen - at ELSE 0

\* bytes are among the values of the addresses from at on.
SeenFrom(values, bytes, at, len) ==
  /\ Len(bytes) = Inside(at, len)
  /\ \A i \in 1 .. Len(bytes) :
       /\ at + i - 1 \in Addr
       /\ bytes[i] \in values[at + i - 1]

ChunkRead ==
  op.kind = "read" /\ ~stale =>
    /\ SeenFrom(seen, result, op.start, off)
    /\ \A i \in 1 .. Len(unread) :
         Own(i) /\ unread[i].resp.kind = "data" =>
           SeenFrom(seen, unread[i].resp.bytes, op.start + off, ChunkSize)

ClientType == ChannelType /\ CallType /\ MemoryType

ClientInv ==
  /\ ClientType
  /\ NumbersGrow
  /\ CallsGrow
  /\ InStep
  /\ ChunkAsked
  /\ TornIsOver
  /\ ChunkLands
  /\ ChunkRead

-----------------------------------------------------------------------------
(***************************************************************************)
(* Dropping the first k elements shifts the rest.                           *)
(***************************************************************************)
LEMMA DropFirst ==
  ASSUME NEW S, NEW s \in Seq(S), NEW k \in 1 .. Len(s)
  PROVE  /\ SubSeq(s, k + 1, Len(s)) \in Seq(S)
         /\ Len(SubSeq(s, k + 1, Len(s))) = Len(s) - k
         /\ \A i \in 1 .. Len(s) - k : SubSeq(s, k + 1, Len(s))[i] = s[k + i]
<1>1. Len(s) \in Nat /\ \A i \in k + 1 .. Len(s) : s[i] \in S
  BY LenProperties, ElementOfSeq
<1>2. /\ SubSeq(s, k + 1, Len(s)) \in Seq(S)
      /\ Len(SubSeq(s, k + 1, Len(s)))
           = IF k + 1 <= Len(s) THEN Len(s) - (k + 1) + 1 ELSE 0
      /\ \A i \in 1 .. Len(s) - (k + 1) + 1 :
           SubSeq(s, k + 1, Len(s))[i] = s[k + 1 + i - 1]
  BY <1>1, k + 1 \in Int, Len(s) \in Int, SubSeqProperties
<1>. QED
  BY <1>1, <1>2

(***************************************************************************)
(* A chunk (SendChunk) is a part of what is left of the range, and the      *)
(* empty one when nothing is left.                                          *)
(***************************************************************************)
LEMMA ChunkFits ==
  ASSUME CallType
  PROVE  /\ ChunkSize \in Nat
         /\ off + ChunkSize \in 0 .. op.len
         /\ off = op.len => ChunkSize = 0
<1>1. op.len \in Nat /\ off \in Int /\ 0 <= off /\ off <= op.len /\ pdu \in Nat
  BY DEF CallType
<1>2. \A h \in {ReadOverhead, WriteOverhead} :
        MaxChunk(pdu, h) \in Nat /\ MaxChunk(pdu, h) > 0
  BY <1>1 DEF MaxChunk, ReadOverhead, WriteOverhead, FallbackChunk
<1>3. Overhead(op.kind) \in {ReadOverhead, WriteOverhead}
  BY DEF Overhead
<1>4. PICK m \in Nat : m > 0 /\ m = MaxChunk(pdu, Overhead(op.kind))
  BY <1>2, <1>3
<1>. QED
  BY <1>1, <1>4 DEF ChunkSize, Chunk

(***************************************************************************)
(* What a request covers of the data block (Covers) is as long as Inside    *)
(* says.                                                                    *)
(***************************************************************************)
LEMMA CoversSize ==
  ASSUME NEW req \in Request
  PROVE  /\ Inside(req.at, req.len) \in Nat
         /\ Cardinality(Covers(req)) = Inside(req.at, req.len)
         /\ \A i \in 1 .. Inside(req.at, req.len) : req.at + i - 1 \in Covers(req)
         /\ Covers(req) \subseteq Addr
<1>1. req.at \in Nat /\ req.len \in Nat /\ DbLen \in Nat
  BY DbLenAssumption DEF Request
<1>2. PICK n \in Nat : n = Inside(req.at, req.len)
  BY <1>1 DEF Inside
<1>3. Covers(req) = req.at .. req.at + n - 1
  BY <1>1, <1>2 DEF Inside, Covers, Addr
<1>4. Cardinality(Covers(req)) = n
  <2>1. PICK last \in Int : last = req.at + n - 1
    BY <1>1, <1>2
  <2>2. Cardinality(req.at .. last)
          = IF req.at > last THEN 0 ELSE last - req.at + 1
    BY <1>1, req.at \in Int, FS_Interval
  <2>. QED  BY <1>1, <1>3, <2>1, <2>2
<1>. QED
  BY <1>1, <1>2, <1>3, <1>4 DEF Covers

(***************************************************************************)
(* The payload the simulator sends (ReadPayload): the bytes of the block    *)
(* that the request covers.                                                 *)
(***************************************************************************)
LEMMA Payload ==
  ASSUME MemoryType, NEW req \in Request
  PROVE  /\ ReadPayload(req) \in Seq(Mark)
         /\ SeenFrom(seen, ReadPayload(req), req.at, req.len)
<1>1. PICK n \in Nat : n = Inside(req.at, req.len)
  BY CoversSize
<1>2. ReadPayload(req) = [i \in 1 .. n |-> mem[req.at + i - 1]]
  BY <1>1, CoversSize DEF ReadPayload
<1>3. \A i \in 1 .. n : req.at + i - 1 \in Addr
  BY <1>1, CoversSize
<1>4. \A i \in 1 .. n : /\ mem[req.at + i - 1] \in Mark
                        /\ mem[req.at + i - 1] \in seen[req.at + i - 1]
  BY <1>3 DEF MemoryType
<1>5. ReadPayload(req) \in Seq(Mark) /\ Len(ReadPayload(req)) = n
  BY <1>2, <1>4
<1>. QED
  BY <1>1, <1>2, <1>3, <1>4, <1>5 DEF SeenFrom

-----------------------------------------------------------------------------
(***************************************************************************)
(* What travels through the channel is numbered requests and responses.     *)
(***************************************************************************)
LEMMA Entries ==
  ASSUME ChannelType
  PROVE  /\ seqno \in Nat /\ Len(queue) \in Nat /\ Len(unread) \in Nat
         /\ \A i \in 1 .. Len(queue) : /\ queue[i].no \in Nat
                                       /\ queue[i].req \in Request
                                       /\ queue[i].req.by \in Nat
                                       /\ queue[i].whole \in BOOLEAN
         /\ \A i \in 1 .. Len(unread) : /\ unread[i].no \in Nat
                                        /\ unread[i].resp \in Response
         /\ queue # <<>> => 1 \in 1 .. Len(queue)
<1>1. /\ queue \in Seq(NumberedRequest) /\ Len(queue) \in Nat
      /\ unread \in Seq(NumberedResponse) /\ Len(unread) \in Nat
  BY LenProperties DEF ChannelType
<1>2. \A i \in 1 .. Len(queue) : queue[i] \in NumberedRequest
  BY <1>1, ElementOfSeq
<1>3. \A i \in 1 .. Len(unread) : unread[i] \in NumberedResponse
  BY <1>1, ElementOfSeq
<1>4. queue # <<>> => 1 \in 1 .. Len(queue)
  BY <1>1, EmptySeq
<1>. QED
  BY <1>1, <1>2, <1>3, <1>4 DEF ChannelType, NumberedRequest, NumberedResponse, Request

(***************************************************************************)
(* How requests and responses move: a request that is sent goes to the end  *)
(* of the queue or is lost.                                                 *)
(***************************************************************************)
LEMMA Delivery ==
  ASSUME ChannelType, queue' \in {queue, Delivered(TRUE), Delivered(FALSE)}
  PROVE  /\ queue' \in Seq(NumberedRequest)
         /\ Len(queue') \in {Len(queue), Len(queue) + 1}
         /\ \A j \in 1 .. Len(queue') :
              \/ j \in 1 .. Len(queue) /\ queue'[j] = queue[j]
              \/ /\ j = Len(queue) + 1
                 /\ queue'[j].no = seqno /\ queue'[j].req = request
                 /\ queue' \in {queue, Delivered(TRUE)} => queue'[j].whole
<1>1. queue \in Seq(NumberedRequest) /\ Len(queue) \in Nat
  BY LenProperties DEF ChannelType
<1>2. CASE queue' = queue
  BY <1>1, <1>2
<1>3. ASSUME NEW whole \in BOOLEAN, queue' = Delivered(whole)
      PROVE  /\ queue' \in Seq(NumberedRequest)
             /\ Len(queue') = Len(queue) + 1
             /\ \A j \in 1 .. Len(queue') :
                  \/ j \in 1 .. Len(queue) /\ queue'[j] = queue[j]
                  \/ /\ j = Len(queue) + 1
                     /\ queue'[j].no = seqno /\ queue'[j].req = request
                     /\ queue'[j].whole = whole
  <2>. DEFINE entry == [no |-> seqno, req |-> request, whole |-> whole]
  <2>1. entry \in NumberedRequest
    BY DEF ChannelType, NumberedRequest
  <2>2. queue' = Append(queue, entry)
    BY <1>3 DEF Delivered
  <2>3. entry.no = seqno /\ entry.req = request /\ entry.whole = whole
    OBVIOUS
  <2>. HIDE DEF entry
  <2>. QED  BY <1>1, <2>1, <2>2, <2>3, AppendProperties
<1>4. ASSUME queue' \in {queue, Delivered(TRUE)}, queue' = Delivered(FALSE),
             queue' # queue
      PROVE  FALSE
  <2>1. queue'[Len(queue) + 1].whole = TRUE /\ queue'[Len(queue) + 1].whole = FALSE
    <3>1. Len(queue) + 1 \in 1 .. Len(queue) + 1 /\ Len(queue) + 1 \notin 1 .. Len(queue)
      BY <1>1
    <3>2. queue' = Delivered(TRUE)
      BY <1>4
    <3>. QED  BY <1>3, <1>4, <3>1, <3>2
  <2>. QED  BY <2>1
<1>. QED
  BY <1>1, <1>2, <1>3, <1>4

(***************************************************************************)
(* What is left of the responses was there before.                          *)
(***************************************************************************)
LEMMA Receipt ==
  ASSUME ChannelType,
         \/ unread' = unread
         \/ unread # <<>> /\ unread' = Tail(unread)
         \/ unread' = <<>>
  PROVE  /\ unread' \in Seq(NumberedResponse)
         /\ Len(unread') <= Len(unread)
         /\ \A i \in 1 .. Len(unread') :
              \E j \in 1 .. Len(unread) : unread'[i] = unread[j]
<1>1. unread \in Seq(NumberedResponse) /\ Len(unread) \in Nat
  BY LenProperties DEF ChannelType
<1>2. CASE unread' = unread
  BY <1>1, <1>2
<1>3. CASE unread # <<>> /\ unread' = Tail(unread)
  BY <1>1, <1>3, HeadTailProperties
<1>4. CASE unread' = <<>>
  BY <1>1, <1>4, EmptySeq
<1>. QED
  BY <1>2, <1>3, <1>4

(***************************************************************************)
(* The response that is taken is the oldest one.                            *)
(***************************************************************************)
LEMMA Taking ==
  ASSUME ChannelType, Take
  PROVE  /\ 1 \in 1 .. Len(unread)
         /\ Head(unread) = unread[1]
         /\ unread[1] \in NumberedResponse
         /\ Len(unread') = Len(unread) - 1
<1>1. unread # <<>> /\ unread' = Tail(unread)
  BY DEF Take
<1>2. unread \in Seq(NumberedResponse)
  BY DEF ChannelType
<1>. QED
  BY <1>1, <1>2, HeadTailProperties, EmptySeq, LenProperties

Handles(k, resp) == Answer(k, resp) \/ Overlook(k)

(***************************************************************************)
(* The PLC is done with its k oldest requests: it answers the first of them *)
(* or makes nothing of it.  That drops all k and adds at most one response. *)
(***************************************************************************)
LEMMA Answering ==
  ASSUME ChannelType, NEW k, NEW resp \in Response, Handles(k, resp)
  PROVE  /\ UNCHANGED <<phase, seqno, request, garbled, taken, failures>>
         /\ 1 \in 1 .. Len(queue) /\ k \in 1 .. Len(queue)
         /\ queue[1] \in NumberedRequest
         /\ queue' \in Seq(NumberedRequest)
         /\ Len(queue') = Len(queue) - k
         /\ \A j \in 1 .. Len(queue') :
              k + j \in 1 .. Len(queue) /\ queue'[j] = queue[k + j]
         /\ unread' \in Seq(NumberedResponse)
         /\ Len(unread') \in {Len(unread), Len(unread) + 1}
         /\ \A i \in 1 .. Len(unread') :
              \/ i \in 1 .. Len(unread) /\ unread'[i] = unread[i]
              \/ unread'[i] = [no |-> queue[1].no, resp |-> resp]
<1>1. /\ queue \in Seq(NumberedRequest) /\ Len(queue) \in Nat
      /\ unread \in Seq(NumberedResponse) /\ Len(unread) \in Nat
  BY LenProperties DEF ChannelType
<1>2. k \in 1 .. Len(queue) /\ 1 \in 1 .. Len(queue)
  BY <1>1 DEF Handles, Answer, Overlook
<1>3. queue[1] \in NumberedRequest
  BY <1>1, <1>2, ElementOfSeq
<1>4. /\ queue' \in Seq(NumberedRequest)
      /\ Len(queue') = Len(queue) - k
      /\ \A j \in 1 .. Len(queue) - k : queue'[j] = queue[k + j]
  BY <1>1, <1>2, DropFirst DEF Handles, Answer, Overlook
<1>5. /\ unread' \in Seq(NumberedResponse)
      /\ Len(unread') \in {Len(unread), Len(unread) + 1}
      /\ \A i \in 1 .. Len(unread') :
           \/ i \in 1 .. Len(unread) /\ unread'[i] = unread[i]
           \/ unread'[i] = [no |-> queue[1].no, resp |-> resp]
  <2>1. [no |-> queue[1].no, resp |-> resp] \in NumberedResponse
    BY <1>3 DEF NumberedRequest, NumberedResponse
  <2>2. CASE garbled \/ Overlook(k)
    BY <1>1, <2>2 DEF Handles, Answer, Overlook
  <2>3. CASE ~garbled /\ Answer(k, resp)
    <3>1. unread' = Append(unread, [no |-> queue[1].no, resp |-> resp])
      BY <2>3 DEF Answer
    <3>. QED  BY <1>1, <2>1, <3>1, AppendProperties
  <2>. QED  BY <2>2, <2>3 DEF Handles
<1>6. \A j \in 1 .. Len(queue') : k + j \in 1 .. Len(queue)
  BY <1>1, <1>2, <1>4
<1>7. UNCHANGED <<phase, seqno, request, garbled, taken, failures>>
  BY DEF Handles, Answer, Overlook
<1>. QED
  BY <1>1, <1>2, <1>3, <1>4, <1>5, <1>6, <1>7

\* A step of the channel that the PLC takes.
PlcAnswers == \E k \in DOMAIN queue, resp \in Response : Handles(k, resp)

\* The ways the PLC has to be done with k requests.
PlcHandles(k) ==
  \/ PlcReads(k)
  \/ PlcWrites(k)
  \/ PlcRefuses(k)
  \/ \E n : PlcMisreads(k, n)
  \/ PlcOverlooks(k)

(***************************************************************************)
(* Rubbish is a mark of nobody's, neither a call's nor another client's.    *)
(***************************************************************************)
LEMMA JunkMark == Junk \in Mark /\ Junk.by < 0 /\ Junk.by < -MaxForeign
BY BoundsAssumption DEF Junk, Mark

(***************************************************************************)
(* Whatever the PLC does with a request is a step of the channel, and       *)
(* leaves the client alone.                                                 *)
(***************************************************************************)
LEMMA PlcStep ==
  ASSUME ClientType, Plc
  PROVE  /\ PlcAnswers
         /\ UNCHANGED <<pdu, op, callNo, pc, off, result, outcome, foreign, stale>>
<1>1. PICK k \in DOMAIN queue : PlcHandles(k)
  BY DEF Plc, PlcHandles
<1>2. queue # <<>> => queue[1] \in NumberedRequest
  BY ElementOfSeq, EmptySeq, LenProperties DEF ClientType, ChannelType
<1>3. CASE PlcReads(k)
  <2>1. queue[1].req \in Request
    BY <1>2, <1>3 DEF PlcReads, NumberedRequest
  <2>2. [kind |-> "data", bytes |-> ReadPayload(queue[1].req)] \in Response
    BY <2>1, Payload DEF Response, ClientType
  <2>. QED  BY <1>3, <2>2 DEF PlcReads, PlcAnswers, Handles, callVars, plcMemory, histVars
<1>4. CASE PlcWrites(k) \/ PlcRefuses(k)
  <2>1. /\ [kind |-> "ack", bytes |-> <<>>] \in Response
        /\ [kind |-> "refused", bytes |-> <<>>] \in Response
    BY EmptySeq DEF Response
  <2>. QED
    BY <1>4, <2>1 DEF PlcWrites, PlcRefuses, PlcAnswers, Handles, callVars, plcMemory,
                      histVars
<1>5. CASE \E n : PlcMisreads(k, n)
  <2>1. PICK resp \in Misanswers : Answer(k, resp)
    BY <1>5 DEF PlcMisreads
  <2>2. resp \in Response
    <3>1. <<>> \in Seq(Mark) /\ <<Junk>> \in Seq(Mark)
      BY JunkMark, EmptySeq
    <3>. QED  BY <3>1 DEF Misanswers, Response
  <2>3. PlcAnswers
    BY <2>1, <2>2 DEF PlcAnswers, Handles
  <2>. QED  BY <1>5, <2>3 DEF PlcMisreads, callVars
<1>6. CASE PlcOverlooks(k)
  <2>1. [kind |-> "refused", bytes |-> <<>>] \in Response
    BY EmptySeq DEF Response
  <2>. QED
    BY <1>6, <2>1 DEF PlcOverlooks, PlcAnswers, Handles, callVars, plcMemory, histVars
<1>. QED  BY <1>1, <1>3, <1>4, <1>5, <1>6 DEF PlcHandles

(***************************************************************************)
(* What the PLC stores for a request (Stores): the request's marks and, in  *)
(* an area, rubbish; and what is stored is seen.                            *)
(***************************************************************************)
LEMMA Storing ==
  ASSUME MemoryType, NEW req \in Request, NEW n, NEW area, Stores(req, n, area)
  PROVE  /\ mem' \in [Addr -> Mark]
         /\ seen' = [a \in Addr |-> seen[a] \cup {mem'[a]}]
         /\ \A a \in Addr :
              \/ mem'[a] = mem[a]
              \/ mem'[a].by = req.by
              \/ /\ mem'[a] = Junk
                 /\ a \in area
<1>1. \A a \in Addr : [by |-> req.by, at |-> a] \in Mark
  BY DEF Request, Mark, Addr
<1>2. mem' \in [Addr -> Mark]
  BY <1>1, JunkMark DEF Stores, MemoryType
<1>3. seen' = [a \in Addr |-> seen[a] \cup {mem'[a]}]
  BY DEF Stores
<1>4. \A a \in Addr :
         \/ mem'[a] = mem[a]
         \/ mem'[a] = [by |-> req.by, at |-> a]
         \/ /\ mem'[a] = Junk
            /\ a \in area
  BY DEF Stores
<1>. QED  BY <1>2, <1>3, <1>4

-----------------------------------------------------------------------------
(***************************************************************************)
(* Every step keeps the types.                                              *)
(***************************************************************************)
LEMMA ChannelTypeStep ==
  ASSUME ClientType, [Next]_vars
  PROVE  ChannelType'
<1>. USE DEF ClientType
<1>1. CASE \E c \in Calls : StartCall(c)
  BY <1>1 DEF StartCall, ChannelType, channel
<1>2. CASE SendChunk
  <2>1. Current \in Request
    <3>1. ChunkSize \in Nat /\ op.start + off \in Nat /\ callNo \in Nat
      BY ChunkFits DEF CallType
    <3>. QED  BY <3>1 DEF Current, Request, CallType
  <2>. QED  BY <1>2, <2>1 DEF SendChunk, Send, Current, ChannelType
<1>3. CASE RefuseChunk \/ Finish
  BY <1>3 DEF RefuseChunk, Finish, ChannelType, channel
<1>4. CASE ChunkWritten
  <2>1. queue' \in Seq(NumberedRequest)
    BY <1>4, Delivery DEF ChunkWritten, Written
  <2>. QED  BY <1>4, <2>1 DEF ChunkWritten, Written, ChannelType
<1>5. CASE ExchangeFails /\ SendFails
  <2>1. queue' \in Seq(NumberedRequest)
    BY <1>5, Delivery DEF SendFails
  <2>. QED  BY <1>5, <2>1 DEF SendFails, Failed, ChannelType
<1>6. CASE ExchangeFails /\ ReceiveFails
  <2>1. unread' \in Seq(NumberedResponse)
    BY <1>6, Receipt DEF ReceiveFails
  <2>2. garbled' \in BOOLEAN
    BY <1>6 DEF ReceiveFails, ChannelType
  <2>3. UNCHANGED <<queue, seqno, request>> /\ phase' = "idle" /\ failures' \in Nat
    BY <1>6 DEF ReceiveFails, Failed, ChannelType
  <2>. QED  BY <2>1, <2>2, <2>3 DEF ChannelType
<1>7. CASE AcceptChunk \/ RejectChunk
  <2>1. Take
    BY <1>7 DEF AcceptChunk, RejectChunk
  <2>2. unread' \in Seq(NumberedResponse)
    BY <2>1, Receipt DEF Take
  <2>. QED  BY <2>1, <2>2 DEF Take, ChannelType
<1>8. CASE Misread
  BY <1>8 DEF Misread, TakeGarbage, ChannelType
<1>9. CASE Plc
  <2>1. PICK k \in DOMAIN queue, resp \in Response : Handles(k, resp)
    BY <1>9, PlcStep DEF PlcAnswers
  <2>. QED  BY <2>1, Answering DEF ChannelType
<1>10. CASE \E a \in Addr : ForeignWrite(a)
  BY <1>10 DEF ForeignWrite, ChannelType, channel
<1>11. CASE UNCHANGED vars
  BY <1>11 DEF vars, ChannelType, channel
<1>. QED
  BY <1>1, <1>2, <1>3, <1>4, <1>5, <1>6, <1>7, <1>8, <1>9, <1>10, <1>11
     DEF Next, Client, ExchangeFails

(***************************************************************************)
(* A call keeps its types: never past the end of its range (AcceptChunk).   *)
(***************************************************************************)
LEMMA CallTypeStep ==
  ASSUME ClientType, [Next]_vars
  PROVE  CallType'
<1>. USE DEF ClientType
<1>1. CASE \E c \in Calls : StartCall(c)
  <2>1. PICK c \in Calls : StartCall(c)
    BY <1>1
  <2>2. c \in [kind : {"read", "write"}, start : Nat, len : Nat]
    BY CallsAssumption
  <2>3. op' = c /\ off' = 0 /\ off' \in 0 .. c.len
    BY <2>1, <2>2 DEF StartCall
  <2>4. result' \in Seq(Mark)
    BY <2>1, EmptySeq DEF StartCall
  <2>5. callNo' \in Nat /\ pc' = "loop" /\ stale' = FALSE /\ pdu' = pdu
    BY <2>1 DEF StartCall, CallType
  <2>. QED  BY <2>2, <2>3, <2>4, <2>5 DEF CallType
<1>2. CASE SendChunk \/ ChunkWritten
  BY <1>2 DEF SendChunk, ChunkWritten, CallType, callVars, histVars
<1>3. CASE RefuseChunk \/ Finish \/ ExchangeFails
  BY <1>3 DEF RefuseChunk, Finish, ExchangeFails, Return, CallType, histVars
<1>4. CASE AcceptChunk
  <2>1. off' \in 0 .. op.len
    BY <1>4, ChunkFits DEF AcceptChunk
  <2>2. result' \in Seq(Mark)
    <3>1. Head(unread).resp \in Response
      BY <1>4, Taking DEF AcceptChunk, NumberedResponse
    <3>2. Head(unread).resp.bytes \in Seq(Mark) /\ result \in Seq(Mark)
      BY <3>1 DEF Response, CallType
    <3>3. result \o Head(unread).resp.bytes \in Seq(Mark)
      BY <3>2, ConcatProperties
    <3>. QED  BY <1>4, <3>2, <3>3 DEF AcceptChunk
  <2>3. stale' \in BOOLEAN
    BY <1>4 DEF AcceptChunk
  <2>. QED  BY <1>4, <2>1, <2>2, <2>3 DEF AcceptChunk, CallType
<1>5. CASE RejectChunk
  <2>1. stale' \in BOOLEAN
    BY <1>5 DEF RejectChunk
  <2>. QED  BY <1>5, <2>1 DEF RejectChunk, Return, CallType
<1>6. CASE Misread
  <2>1. off' \in 0 .. op.len
    BY <1>6, ChunkFits DEF Misread, CallType
  <2>2. result' \in Seq(Mark)
    <3>1. Junk \in Mark /\ result \in Seq(Mark)
      BY BoundsAssumption DEF Junk, Mark, CallType
    <3>2. Append(result, Junk) \in Seq(Mark)
      BY <3>1, AppendProperties
    <3>. QED  BY <1>6, <3>1, <3>2 DEF Misread
  <2>. QED  BY <1>6, <2>1, <2>2 DEF Misread, Return, CallType
<1>7. CASE Plc
  BY <1>7, PlcStep DEF CallType
<1>8. CASE \E a \in Addr : ForeignWrite(a)
  BY <1>8 DEF ForeignWrite, CallType, callVars
<1>9. CASE UNCHANGED vars
  BY <1>9 DEF vars, CallType, callVars, histVars
<1>. QED
  BY <1>1, <1>2, <1>3, <1>4, <1>5, <1>6, <1>7, <1>8, <1>9 DEF Next, Client

(***************************************************************************)
(* The PLC's block keeps its types, and its present value is among the seen. *)
(***************************************************************************)
LEMMA MemoryTypeStep ==
  ASSUME ClientType, [Next]_vars
  PROVE  MemoryType'
<1>. USE DEF ClientType
<1>1. CASE \E c \in Calls : StartCall(c)
  BY <1>1 DEF StartCall, MemoryType, plcMemory
<1>2. CASE Client
  BY <1>2 DEF Client, SendChunk, RefuseChunk, Finish, ChunkWritten, ExchangeFails,
              AcceptChunk, RejectChunk, Misread, MemoryType, plcMemory, histVars
<1>3. CASE Plc
  <2>1. PICK k \in DOMAIN queue : PlcHandles(k)
    BY <1>3 DEF Plc, PlcHandles
  <2>2. CASE PlcReads(k) \/ PlcRefuses(k) \/ PlcOverlooks(k)
    BY <2>2 DEF PlcReads, PlcRefuses, PlcOverlooks, MemoryType, plcMemory, histVars
  <2>3. CASE PlcWrites(k) \/ \E n : PlcMisreads(k, n)
    <3>1. queue[1].req \in Request
      BY <2>3, Entries DEF PlcWrites, PlcMisreads
    <3>2. PICK n, area : Stores(queue[1].req, n, area)
      BY <2>3 DEF PlcWrites, PlcMisreads
    <3>3. /\ mem' \in [Addr -> Mark]
          /\ seen' = [a \in Addr |-> seen[a] \cup {mem'[a]}]
      BY <3>1, <3>2, Storing
    <3>4. foreign' = foreign
      BY <2>3 DEF PlcWrites, PlcMisreads
    <3>. QED  BY <3>3, <3>4 DEF MemoryType
  <2>. QED  BY <2>1, <2>2, <2>3 DEF PlcHandles
<1>4. CASE \E a \in Addr : ForeignWrite(a)
  <2>1. PICK a \in Addr : ForeignWrite(a)
    BY <1>4
  <2>2. [by |-> -(foreign + 1), at |-> a] \in Mark
    BY DEF MemoryType, Mark, Addr
  <2>3. mem' \in [Addr -> Mark] /\ \A b \in Addr : b # a => mem'[b] = mem[b]
    BY <2>1, <2>2 DEF ForeignWrite, MemoryType
  <2>4. seen' = [seen EXCEPT ![a] = seen[a] \cup {mem'[a]}]
    BY <2>1 DEF ForeignWrite
  <2>5. foreign' \in Nat
    BY <2>1 DEF ForeignWrite, MemoryType
  <2>. QED  BY <2>1, <2>3, <2>4, <2>5 DEF MemoryType
<1>5. CASE UNCHANGED vars
  BY <1>5 DEF vars, MemoryType, plcMemory, histVars
<1>. QED
  BY <1>1, <1>2, <1>3, <1>4, <1>5 DEF Next

(***************************************************************************)
(* All of the types, step by step.                                          *)
(***************************************************************************)
LEMMA ClientTypeStep ==
  ASSUME ClientType, [Next]_vars
  PROVE  ClientType'
BY ChannelTypeStep, CallTypeStep, MemoryTypeStep DEF ClientType

-----------------------------------------------------------------------------
(***************************************************************************)
(* Numbers keep growing along the channel.                                  *)
(***************************************************************************)
LEMMA NumbersGrowStep ==
  ASSUME ClientType, NumbersGrow, [Next]_vars
  PROVE  NumbersGrow'
<1>c. ChannelType
  BY DEF ClientType
<1>0. /\ seqno \in Nat /\ Len(queue) \in Nat /\ Len(unread) \in Nat
      /\ \A i \in 1 .. Len(queue) : queue[i].no \in Nat
      /\ \A i \in 1 .. Len(unread) : unread[i].no \in Nat
  BY <1>c, Entries
<1>1. CASE UNCHANGED channel
  BY <1>1 DEF channel, NumbersGrow
<1>2. ASSUME NEW req, Send(req)
      PROVE  NumbersGrow'
  BY <1>0, <1>2 DEF Send, NumbersGrow
<1>3. CASE Written \/ SendFails
  <2>1. phase = "sending" /\ phase' # "sending" /\ UNCHANGED <<seqno, unread>>
    BY <1>3 DEF Written, SendFails, Failed
  <2>2. \A j \in 1 .. Len(queue') :
          \/ j \in 1 .. Len(queue) /\ queue'[j] = queue[j]
          \/ j = Len(queue) + 1 /\ queue'[j].no = seqno
    BY <1>3, <1>c, Delivery DEF Written, SendFails
  <2>3. Len(queue') \in {Len(queue), Len(queue) + 1}
    BY <1>3, <1>c, Delivery DEF Written, SendFails
  <2>4. \A j \in 1 .. Len(queue') :
          /\ queue'[j].no <= seqno
          /\ \A i \in 1 .. Len(unread) : unread[i].no < queue'[j].no
    BY <1>0, <2>1, <2>2 DEF NumbersGrow
  <2>5. ASSUME NEW i \in 1 .. Len(queue'), NEW j \in 1 .. Len(queue'), i < j
        PROVE  queue'[i].no < queue'[j].no
    <3>1. i \in 1 .. Len(queue) /\ queue'[i].no = queue[i].no
      <4>1. i \in 1 .. Len(queue) /\ i # Len(queue) + 1
        BY <1>0, <2>3, <2>5
      <4>2. queue'[i] = queue[i]
        BY <2>2, <4>1
      <4>. QED  BY <4>1, <4>2
    <3>2. CASE j \in 1 .. Len(queue) /\ queue'[j] = queue[j]
      BY <2>5, <3>1, <3>2 DEF NumbersGrow
    <3>3. CASE queue'[j].no = seqno
      BY <2>1, <3>1, <3>3 DEF NumbersGrow
    <3>. QED  BY <2>2, <3>2, <3>3
  <2>. QED  BY <2>1, <2>4, <2>5 DEF NumbersGrow
<1>4. CASE Take \/ ReceiveFails
  <2>1. phase' = "idle" /\ UNCHANGED <<seqno, queue>>
    BY <1>4 DEF Take, ReceiveFails, Failed
  <2>2. \A i \in 1 .. Len(unread') : \E j \in 1 .. Len(unread) : unread'[i] = unread[j]
    BY <1>4, <1>c, Receipt DEF Take, ReceiveFails
  <2>. QED  BY <1>0, <2>1, <2>2 DEF NumbersGrow
<1>5. CASE TakeGarbage
  BY <1>5 DEF TakeGarbage, NumbersGrow
<1>6. CASE PlcAnswers
  <2>1. PICK k \in DOMAIN queue, resp \in Response : Handles(k, resp)
    BY <1>6 DEF PlcAnswers
  <2>2. UNCHANGED <<phase, seqno>>
    BY <1>c, <2>1, Answering
  <2>3. /\ 1 \in 1 .. Len(queue) /\ k \in 1 .. Len(queue)
        /\ Len(queue') = Len(queue) - k
        /\ \A j \in 1 .. Len(queue') :
             k + j \in 1 .. Len(queue) /\ queue'[j] = queue[k + j]
    BY <1>c, <2>1, Answering
  <2>4. \A i \in 1 .. Len(unread') :
          \/ i \in 1 .. Len(unread) /\ unread'[i] = unread[i]
          \/ unread'[i] = [no |-> queue[1].no, resp |-> resp]
    BY <1>c, <2>1, Answering
  <2>5. \A i \in 1 .. Len(unread') :
          \/ i \in 1 .. Len(unread) /\ unread'[i].no = unread[i].no
          \/ unread'[i].no = queue[1].no
    BY <2>4
  <2>6. \A j \in 1 .. Len(queue') :
          k + j > 1 /\ k + j \in 1 .. Len(queue) /\ queue'[j].no = queue[k + j].no
    BY <1>0, <2>3
  <2>7. \A i \in 1 .. Len(unread') : /\ unread'[i].no <= seqno
                                     /\ phase = "sending" => unread'[i].no < seqno
    BY <2>3, <2>5 DEF NumbersGrow
  <2>8. \A i \in 1 .. Len(unread'), j \in 1 .. Len(queue') :
          unread'[i].no < queue'[j].no
    BY <2>3, <2>5, <2>6 DEF NumbersGrow
  <2>9. \A j \in 1 .. Len(queue') : /\ queue'[j].no <= seqno
                                    /\ phase = "sending" => queue'[j].no < seqno
    BY <2>6 DEF NumbersGrow
  <2>10. \A i, j \in 1 .. Len(queue') : i < j => queue'[i].no < queue'[j].no
    <3>1. \A i, j \in 1 .. Len(queue') : i < j => k + i < k + j
      BY <1>0, <2>3
    <3>. QED  BY <2>6, <3>1 DEF NumbersGrow
  <2>. QED  BY <2>2, <2>7, <2>8, <2>9, <2>10 DEF NumbersGrow
<1>7. \/ UNCHANGED channel \/ \E req : Send(req) \/ Written \/ SendFails
      \/ Take \/ ReceiveFails \/ TakeGarbage \/ PlcAnswers
  BY PlcStep DEF Next, Client, StartCall, SendChunk, RefuseChunk, Finish, ChunkWritten,
     ExchangeFails, AcceptChunk, RejectChunk, Misread, ForeignWrite, vars
<1>. QED
  BY <1>1, <1>2, <1>3, <1>4, <1>5, <1>6, <1>7

(***************************************************************************)
(* What a step writes to memory: another client's mark (ForeignWrite), the  *)
(* marks of the oldest request (PlcWrites, PlcMisreads), or rubbish when    *)
(* that one is torn and taken with others.                                  *)
(***************************************************************************)
LEMMA MemoryStep ==
  ASSUME ClientType, [Next]_vars, NEW a \in Addr
  PROVE  \/ mem'[a] = mem[a]
         \/ mem'[a].by < 0 /\ mem'[a] # Junk
         \/ Plc /\ queue # <<>> /\ mem'[a].by = queue[1].req.by
         \/ /\ Plc /\ mem'[a] = Junk
            /\ ~queue[1].whole
            /\ Len(queue) > 1
<1>1. CASE \E c \in Calls : StartCall(c)
  BY <1>1 DEF StartCall, plcMemory
<1>2. CASE Client
  BY <1>2 DEF Client, SendChunk, RefuseChunk, Finish, ChunkWritten, ExchangeFails,
              AcceptChunk, RejectChunk, Misread, plcMemory
<1>3. CASE Plc
  <2>1. PICK k \in DOMAIN queue : PlcHandles(k)
    BY <1>3 DEF Plc, PlcHandles
  <2>2. CASE PlcReads(k) \/ PlcRefuses(k) \/ PlcOverlooks(k)
    BY <2>2 DEF PlcReads, PlcRefuses, PlcOverlooks, plcMemory
  <2>3. CASE PlcWrites(k) \/ \E n : PlcMisreads(k, n)
    <3>1. queue # <<>> /\ queue[1].req \in Request
      BY <2>3, Entries DEF PlcWrites, PlcMisreads, ClientType
    <3>2. PICK n, area : /\ Stores(queue[1].req, n, area)
                         /\ area # {} => k # 1 /\ ~queue[1].whole
      BY <2>3 DEF PlcWrites, PlcMisreads
    <3>3. \/ mem'[a] = mem[a]
          \/ mem'[a].by = queue[1].req.by
          \/ /\ mem'[a] = Junk
             /\ a \in area
      BY <3>1, <3>2, Storing DEF ClientType
    <3>4. k # 1 => Len(queue) > 1
      BY Entries DEF ClientType, ChannelType
    <3>. QED  BY <1>3, <3>1, <3>2, <3>3, <3>4
  <2>. QED  BY <2>1, <2>2, <2>3 DEF PlcHandles
<1>4. ASSUME NEW b \in Addr, ForeignWrite(b)
      PROVE  mem'[a] = mem[a] \/ (mem'[a].by < 0 /\ mem'[a] # Junk)
  <2>1. /\ foreign \in Nat /\ foreign < MaxForeign /\ MaxForeign \in Nat
        /\ \/ mem'[a] = mem[a]
           \/ mem'[a] = [by |-> -(foreign + 1), at |-> b]
    BY <1>4, BoundsAssumption DEF ForeignWrite, ClientType, MemoryType
  <2>2. -(foreign + 1) < 0 /\ -(foreign + 1) # -(MaxForeign + 1)
    BY <2>1
  <2>. QED  BY <2>1, <2>2 DEF Junk
<1>5. CASE UNCHANGED vars
  BY <1>5 DEF vars, plcMemory
<1>. QED
  BY <1>1, <1>2, <1>3, <1>4, <1>5 DEF Next

(***************************************************************************)
(* Whose bytes are in memory, in the queue, in the request: in this order.  *)
(***************************************************************************)
LEMMA CallsGrowStep ==
  ASSUME ClientType, CallsGrow, [Next]_vars
  PROVE  CallsGrow'
<1>c. ChannelType /\ callNo \in Nat /\ request.by \in Nat
  BY DEF ClientType, ChannelType, CallType, Request
<1>0. /\ Len(queue) \in Nat
      /\ \A i \in 1 .. Len(queue) : queue[i].req.by \in Nat
  BY <1>c, Entries
<1>m. \A a \in Addr : mem[a].by \in Int
  BY DEF ClientType, MemoryType, Mark
<1>1. CASE UNCHANGED <<queue, request>> /\ callNo' \in {callNo, callNo + 1}
           /\ \A a \in Addr : mem'[a] = mem[a] \/ mem'[a].by < 0
  <2>1. request'.by <= callNo'
    BY <1>1, <1>c DEF CallsGrow
  <2>2. ASSUME NEW a \in Addr
        PROVE  /\ mem'[a].by <= request'.by
               /\ \A i \in 1 .. Len(queue') : mem'[a].by <= queue'[i].req.by
    <3>1. CASE mem'[a] = mem[a]
      BY <1>1, <3>1 DEF CallsGrow
    <3>2. CASE mem'[a].by < 0
      <4>. DEFINE by == mem'[a].by
      <4>1. by < 0 => by <= request.by /\ \A i \in 1 .. Len(queue) : by <= queue[i].req.by
        <5>1. by \in Int
          BY ClientTypeStep DEF ClientType, MemoryType, Mark
        <5>. HIDE DEF by
        <5>. QED  BY <1>0, <1>c, <5>1
      <4>. QED  BY <1>1, <3>2, <4>1
    <3>. QED  BY <1>1, <3>1, <3>2
  <2>. QED  BY <1>1, <2>1, <2>2 DEF CallsGrow
<1>2. CASE SendChunk
  <2>1. request'.by = callNo /\ UNCHANGED <<queue, mem, callNo>>
    BY <1>2 DEF SendChunk, Send, callVars, plcMemory
  <2>. QED  BY <1>c, <1>0, <1>m, <2>1 DEF CallsGrow
<1>3. CASE (Written \/ SendFails) /\ UNCHANGED <<callNo, mem>>
  <2>1. UNCHANGED request
    BY <1>3 DEF Written, SendFails, Failed
  <2>2. \A j \in 1 .. Len(queue') :
          \/ j \in 1 .. Len(queue) /\ queue'[j].req.by = queue[j].req.by
          \/ j = Len(queue) + 1 /\ queue'[j].req.by = request.by
    BY <1>3, <1>c, Delivery DEF Written, SendFails
  <2>3. Len(queue') \in {Len(queue), Len(queue) + 1}
    BY <1>3, <1>c, Delivery DEF Written, SendFails
  <2>4. \A j \in 1 .. Len(queue') :
          /\ queue'[j].req.by <= request.by
          /\ \A a \in Addr : mem[a].by <= queue'[j].req.by
    BY <1>c, <2>2 DEF CallsGrow
  <2>5. ASSUME NEW i \in 1 .. Len(queue'), NEW j \in 1 .. Len(queue'), i < j
        PROVE  queue'[i].req.by <= queue'[j].req.by
    <3>1. i \in 1 .. Len(queue) /\ queue'[i].req.by = queue[i].req.by
      BY <1>0, <2>2, <2>3, <2>5
    <3>2. CASE j \in 1 .. Len(queue) /\ queue'[j].req.by = queue[j].req.by
      BY <2>5, <3>1, <3>2 DEF CallsGrow
    <3>3. CASE queue'[j].req.by = request.by
      BY <3>1, <3>3 DEF CallsGrow
    <3>. QED  BY <2>2, <3>2, <3>3
  <2>. QED  BY <1>3, <2>1, <2>4, <2>5 DEF CallsGrow
<1>4. CASE Plc
  <2>1. PICK k \in DOMAIN queue, resp \in Response : Handles(k, resp)
    BY <1>4, PlcStep DEF PlcAnswers
  <2>2. UNCHANGED <<request, callNo>>
    BY <1>4, <1>c, <2>1, PlcStep, Answering
  <2>3. /\ 1 \in 1 .. Len(queue) /\ k \in 1 .. Len(queue)
        /\ \A j \in 1 .. Len(queue') :
             k + j \in 1 .. Len(queue) /\ queue'[j] = queue[k + j]
    BY <1>c, <2>1, Answering
  <2>4. \A j \in 1 .. Len(queue') :
          k + j > 1 /\ k + j \in 1 .. Len(queue) /\ queue'[j].req.by = queue[k + j].req.by
    BY <1>0, <2>3
  <2>5. \A i, j \in 1 .. Len(queue') : i < j => k + i < k + j
    BY <1>0, <2>3
  <2>6. \A i, j \in 1 .. Len(queue') : i < j => queue'[i].req.by <= queue'[j].req.by
    BY <2>4, <2>5 DEF CallsGrow
  <2>7. \A j \in 1 .. Len(queue') : /\ queue'[j].req.by <= request.by
                                    /\ queue[1].req.by <= queue'[j].req.by
    BY <2>3, <2>4 DEF CallsGrow
  <2>8. \A a \in Addr :
          \/ mem'[a].by = mem[a].by
          \/ mem'[a].by = queue[1].req.by
          \/ (mem'[a].by \in Int /\ mem'[a].by < 0)
    <3>1. \A a \in Addr : mem'[a].by \in Int
      BY ClientTypeStep DEF ClientType, MemoryType, Mark
    <3>2. Junk.by < 0
      BY JunkMark
    <3>3. ASSUME NEW a \in Addr
          PROVE  \/ mem'[a] = mem[a]
                 \/ mem'[a].by < 0
                 \/ mem'[a].by = queue[1].req.by
      BY <3>2, MemoryStep
    <3>. QED  BY <3>1, <3>3
  <2>9. ASSUME NEW a \in Addr
        PROVE  /\ mem'[a].by <= request.by
               /\ \A j \in 1 .. Len(queue') : mem'[a].by <= queue'[j].req.by
    <3>1. CASE mem'[a].by = mem[a].by
      BY <2>4, <3>1 DEF CallsGrow
    <3>2. CASE mem'[a].by = queue[1].req.by
      BY <2>3, <2>7, <3>2 DEF CallsGrow
    <3>3. CASE mem'[a].by \in Int /\ mem'[a].by < 0
      <4>. DEFINE by == mem'[a].by
      <4>1. by \in Int /\ by < 0
        BY <3>3
      <4>2. \A j \in 1 .. Len(queue') : queue'[j].req.by \in Nat
        BY <1>0, <2>4
      <4>. HIDE DEF by
      <4>3. by <= request.by /\ \A j \in 1 .. Len(queue') : by <= queue'[j].req.by
        BY <1>c, <4>1, <4>2
      <4>. QED  BY <4>3 DEF by
    <3>. QED  BY <2>8, <3>1, <3>2, <3>3
  <2>10. request.by <= callNo
    BY DEF CallsGrow
  <2>. QED  BY <2>2, <2>6, <2>7, <2>9, <2>10 DEF CallsGrow
<1>5. CASE ~Plc /\ ~SendChunk
  <2>1. \A a \in Addr : mem'[a] = mem[a] \/ mem'[a].by < 0
    BY <1>5, MemoryStep
  <2>2. \/ UNCHANGED <<queue, request>> /\ callNo' \in {callNo, callNo + 1}
        \/ (Written \/ SendFails) /\ UNCHANGED <<callNo, mem>>
    BY <1>5 DEF Next, Client, StartCall, RefuseChunk, Finish, ChunkWritten,
       ExchangeFails, AcceptChunk, RejectChunk, Misread, ForeignWrite, vars,
       channel, callVars, plcMemory, Return, Take, TakeGarbage, ReceiveFails, Failed
  <2>. QED  BY <1>1, <1>3, <2>1, <2>2
<1>. QED
  BY <1>2, <1>4, <1>5

(***************************************************************************)
(* Before the first failure the exchanges do not overlap.                   *)
(***************************************************************************)
LEMMA InStepStep ==
  ASSUME ClientType, NumbersGrow, InStep, [Next]_vars
  PROVE  InStep'
<1>c. ChannelType /\ failures \in Nat
  BY DEF ClientType, ChannelType
<1>0. /\ Len(queue) \in Nat /\ Len(unread) \in Nat /\ seqno \in Nat
  BY <1>c, Entries
<1>1. CASE UNCHANGED channel /\ (stale' = stale \/ stale' = FALSE)
  BY <1>1 DEF channel, InStep
<1>2. CASE SendChunk
  <2>1. failures = 0 => Len(queue) = 0 /\ Len(unread) = 0
    BY <1>0, <1>2 DEF SendChunk, Send, InStep
  <2>. QED  BY <1>0, <1>2, <2>1 DEF SendChunk, Send, InStep, histVars
<1>3. CASE ChunkWritten
  <2>1. /\ phase = "sending" /\ phase' = "waiting"
        /\ UNCHANGED <<seqno, unread, failures, garbled, stale>>
    BY <1>3 DEF ChunkWritten, Written, histVars
  <2>2. /\ Len(queue') \in {Len(queue), Len(queue) + 1}
        /\ \A j \in 1 .. Len(queue') :
              \/ j \in 1 .. Len(queue) /\ queue'[j] = queue[j]
              \/ j = Len(queue) + 1 /\ queue'[j].no = seqno
    BY <1>3, <1>c, Delivery DEF ChunkWritten, Written
  <2>. QED  BY <1>0, <2>1, <2>2 DEF InStep
<1>4. CASE ExchangeFails
  <2>1. failures' = failures + 1
    BY <1>4 DEF ExchangeFails, SendFails, ReceiveFails, Failed
  <2>. QED  BY <1>c, <2>1 DEF InStep
<1>5. CASE AcceptChunk \/ RejectChunk
  <2>1. Take /\ stale' = (stale \/ unread[1].no # seqno)
    <3>1. Take
      BY <1>5 DEF AcceptChunk, RejectChunk
    <3>2. taken' = unread[1].no
      BY <1>c, <3>1, Taking DEF Take
    <3>. QED  BY <1>5, <3>1, <3>2 DEF AcceptChunk, RejectChunk
  <2>2. /\ 1 \in 1 .. Len(unread) /\ Len(unread') = Len(unread) - 1
    BY <1>c, <2>1, Taking
  <2>3. phase = "waiting" /\ UNCHANGED <<seqno, queue, failures, garbled>>
    BY <2>1 DEF Take
  <2>4. failures = 0 => Len(queue) = 0 /\ Len(unread') = 0 /\ ~garbled
    BY <1>0, <2>2, <2>3 DEF InStep
  <2>5. failures = 0 => ~stale'
    <3>1. failures = 0 => ~stale /\ unread[1].no = seqno
      BY <2>2 DEF InStep
    <3>. QED  BY <2>1, <3>1
  <2>. QED  BY <1>0, <2>3, <2>4, <2>5 DEF InStep
<1>6. CASE Misread
  BY <1>6, <1>c DEF Misread, TakeGarbage, InStep
<1>7. CASE Plc
  <2>1. PICK k \in DOMAIN queue, resp \in Response : Handles(k, resp)
    BY <1>7, PlcStep DEF PlcAnswers
  <2>2. UNCHANGED <<phase, seqno, failures, garbled, stale>>
    BY <1>7, <1>c, <2>1, PlcStep, Answering
  <2>3. /\ 1 \in 1 .. Len(queue) /\ k \in 1 .. Len(queue)
        /\ Len(queue') = Len(queue) - k
        /\ Len(unread') \in {Len(unread), Len(unread) + 1}
    BY <1>c, <2>1, Answering
  <2>4. \A i \in 1 .. Len(unread') :
          \/ i \in 1 .. Len(unread) /\ unread'[i] = unread[i]
          \/ unread'[i].no = queue[1].no
    <3>1. \A i \in 1 .. Len(unread') :
            \/ i \in 1 .. Len(unread) /\ unread'[i] = unread[i]
            \/ unread'[i] = [no |-> queue[1].no, resp |-> resp]
      BY <1>c, <2>1, Answering
    <3>. QED  BY <3>1
  <2>5. CASE failures = 0
    <3>1. Len(queue') = 0 /\ Len(unread') <= 1 /\ phase = "waiting"
      BY <1>0, <2>3, <2>5 DEF InStep
    <3>2. \A i \in 1 .. Len(unread') : unread'[i].no = seqno
      BY <2>3, <2>4, <2>5 DEF InStep
    <3>. QED  BY <2>2, <2>5, <3>1, <3>2 DEF InStep
  <2>6. CASE failures # 0
    BY <2>2, <2>6 DEF InStep
  <2>. QED  BY <2>5, <2>6
<1>8. \/ UNCHANGED channel /\ (stale' = stale \/ stale' = FALSE)
      \/ SendChunk \/ ChunkWritten \/ ExchangeFails
      \/ AcceptChunk \/ RejectChunk \/ Misread \/ Plc
  BY DEF Next, Client, StartCall, RefuseChunk, Finish, ForeignWrite, vars, histVars
<1>. QED
  BY <1>1, <1>2, <1>3, <1>4, <1>5, <1>6, <1>7, <1>8

-----------------------------------------------------------------------------
(***************************************************************************)
(* Whatever leaves the call where it is leaves the request of its chunk.    *)
(***************************************************************************)
LEMMA SameChunk ==
  ASSUME UNCHANGED <<op, off, callNo, pdu>>
  PROVE  Current' = Current /\ ChunkSize' = ChunkSize
BY DEF Current, ChunkSize

(***************************************************************************)
(* An own response that is taken was the last thing the PLC had (so that    *)
(* nothing of the chunk is on its way any more).                            *)
(***************************************************************************)
LEMMA OwnIsLast ==
  ASSUME ClientType, NumbersGrow, AcceptChunk, ~stale'
  PROVE  /\ ~stale /\ unread[1].no = seqno /\ Len(queue) = 0
<1>1. ChannelType /\ Take /\ stale' = (stale \/ taken' # seqno)
  BY DEF AcceptChunk, ClientType
<1>2. 1 \in 1 .. Len(unread) /\ taken' = unread[1].no
  BY <1>1, Taking DEF Take
<1>3. /\ Len(queue) \in Nat /\ seqno \in Nat
      /\ \A i \in 1 .. Len(queue) : queue[i].no \in Nat
  BY <1>1, Entries
<1>4. ~stale /\ unread[1].no = seqno
  BY <1>1, <1>2
<1>5. Len(queue) # 0 => 1 \in 1 .. Len(queue)
  BY <1>3
<1>6. Len(queue) # 0 => seqno < queue[1].no /\ queue[1].no <= seqno
  BY <1>2, <1>4, <1>5 DEF NumbersGrow
<1>. QED
  BY <1>3, <1>4, <1>5, <1>6

(***************************************************************************)
(* Every step keeps what the PLC has of the call to the one chunk.          *)
(***************************************************************************)
LEMMA ChunkAskedStep ==
  ASSUME ClientType, NumbersGrow, CallsGrow, ChunkAsked, [Next]_vars
  PROVE  ChunkAsked'
<1>c. ChannelType /\ seqno \in Nat /\ callNo \in Nat /\ request.by \in Nat
  BY DEF ClientType, ChannelType, CallType, Request
<1>0. /\ Len(queue) \in Nat
      /\ \A i \in 1 .. Len(queue) : queue[i].no \in Nat /\ queue[i].req.by \in Nat
  BY <1>c, Entries
<1>1. CASE \E c \in Calls : StartCall(c)
  <2>1. \A i \in 1 .. Len(queue) : queue[i].req.by # callNo + 1
    BY <1>c, <1>0 DEF CallsGrow
  <2>. QED  BY <1>1, <2>1 DEF StartCall, ChunkAsked, channel
<1>2. CASE SendChunk
  <2>1. UNCHANGED <<op, off, callNo, pdu>> /\ request' = Current
    BY <1>2 DEF SendChunk, Send, callVars, Current
  <2>2. \A i \in 1 .. Len(queue) : queue[i].no # seqno + 1
    BY <1>c, <1>0 DEF NumbersGrow
  <2>3. ~stale => \A i \in 1 .. Len(queue) : queue[i].req.by # callNo
    BY <1>2 DEF SendChunk, Send, ChunkAsked
  <2>. QED
    BY <1>2, <2>1, <2>2, <2>3, SameChunk
       DEF SendChunk, Send, ChunkAsked, callVars, histVars
<1>3. CASE RefuseChunk \/ Finish
  <2>1. Current' = Current
    BY <1>3, SameChunk DEF RefuseChunk, Finish, Return
  <2>. QED
    BY <1>3, <2>1 DEF RefuseChunk, Finish, Return, ChunkAsked, channel, histVars
<1>4. CASE ChunkWritten \/ (ExchangeFails /\ SendFails)
  <2>1. /\ UNCHANGED <<op, off, callNo, pdu, request, seqno, stale>>
        /\ phase = "sending" /\ pc = "loop" /\ outcome = "none"
        /\ \/ phase' = "waiting" /\ UNCHANGED <<pc, outcome>>
           \/ phase' = "idle" /\ pc' = "idle" /\ outcome' = "failed"
    BY <1>4, <1>c DEF ChunkWritten, ExchangeFails, Written, SendFails, Failed, Return,
       callVars, histVars, ChunkAsked, ClientType, CallType
  <2>2. \A j \in 1 .. Len(queue') :
          \/ j \in 1 .. Len(queue) /\ queue'[j] = queue[j]
          \/ queue'[j].no = seqno /\ queue'[j].req = request
    <3>1. \A j \in 1 .. Len(queue') :
            \/ j \in 1 .. Len(queue) /\ queue'[j] = queue[j]
            \/ queue'[j].no = seqno /\ queue'[j].req = request
      BY <1>4, <1>c, Delivery DEF ChunkWritten, Written, SendFails
    <3>. QED  BY <3>1
  <2>3. request = Current /\ Current' = Current
    BY <2>1, SameChunk DEF ChunkAsked
  <2>. QED  BY <2>1, <2>2, <2>3 DEF ChunkAsked
<1>5. CASE (ExchangeFails /\ ReceiveFails) \/ RejectChunk
  <2>1. /\ UNCHANGED <<op, off, callNo, pdu, request, seqno, queue>>
        /\ stale' = FALSE => stale = FALSE
        /\ phase' = "idle" /\ pc' = "idle" /\ outcome' \in {"failed", "rejected"}
    BY <1>5 DEF RejectChunk, Take, ExchangeFails, ReceiveFails, Failed, Return,
       histVars, ClientType, CallType
  <2>2. Current' = Current
    BY <2>1, SameChunk
  <2>3. stale' \in BOOLEAN
    BY ClientTypeStep DEF ClientType, CallType
  <2>. QED  BY <2>1, <2>2, <2>3 DEF ChunkAsked, ClientType, CallType
<1>6. CASE AcceptChunk
  <2>1. /\ UNCHANGED <<op, pc, outcome, request, seqno, queue, callNo>>
        /\ phase = "waiting" /\ phase' = "idle"
    BY <1>6 DEF AcceptChunk, Take
  <2>2. pc = "loop" /\ outcome = "none"
    BY <2>1 DEF ChunkAsked, ClientType, CallType
  <2>3. ~stale' => Len(queue) = 0
    BY <1>6, OwnIsLast
  <2>. QED  BY <2>1, <2>2, <2>3 DEF ChunkAsked
<1>7. CASE Misread
  <2>1. /\ UNCHANGED <<op, request, seqno, queue, callNo>>
        /\ phase = "waiting" /\ phase' = "idle" /\ stale' = TRUE
        /\ \/ pc' = "idle" /\ outcome' = "rejected"
           \/ UNCHANGED <<pc, outcome>>
    BY <1>7 DEF Misread, TakeGarbage, Return
  <2>2. pc = "loop" /\ outcome = "none"
    BY <2>1 DEF ChunkAsked, ClientType, CallType
  <2>. QED  BY <2>1, <2>2 DEF ChunkAsked
<1>8. CASE Plc
  <2>1. PICK k \in DOMAIN queue, resp \in Response : Handles(k, resp)
    BY <1>8, PlcStep DEF PlcAnswers
  <2>2. /\ UNCHANGED <<op, off, callNo, pdu, pc, outcome, stale>>
        /\ UNCHANGED <<phase, request, seqno>>
    BY <1>8, <1>c, <2>1, PlcStep, Answering
  <2>3. \A j \in 1 .. Len(queue') :
          k + j \in 1 .. Len(queue) /\ queue'[j] = queue[k + j]
    BY <1>c, <2>1, Answering
  <2>4. Current' = Current
    BY <2>2, SameChunk
  <2>. QED  BY <2>2, <2>3, <2>4 DEF ChunkAsked
<1>9. CASE \E a \in Addr : ForeignWrite(a)
  <2>1. UNCHANGED <<channel, callVars, pdu, stale>>
    BY <1>9 DEF ForeignWrite
  <2>2. Current' = Current
    BY <2>1, SameChunk DEF callVars
  <2>. QED  BY <2>1, <2>2 DEF ChunkAsked, channel, callVars
<1>10. CASE UNCHANGED vars
  <2>1. Current' = Current
    BY <1>10, SameChunk DEF vars, callVars
  <2>. QED  BY <1>10, <2>1 DEF ChunkAsked, vars, channel, callVars, histVars
<1>. QED
  BY <1>1, <1>2, <1>3, <1>4, <1>5, <1>6, <1>7, <1>8, <1>9, <1>10
     DEF Next, Client, ExchangeFails

(***************************************************************************)
(* A torn request is of a call that is over: the client gives a call up     *)
(* with the write that was cut short (ExchangeFails).                       *)
(***************************************************************************)
LEMMA TornIsOverStep ==
  ASSUME ClientType, CallsGrow, ChunkAsked, TornIsOver, [Next]_vars
  PROVE  TornIsOver'
<1>c. ChannelType /\ callNo \in Nat /\ request.by \in Nat /\ failures \in Nat
  BY DEF ClientType, ChannelType, CallType, Request
<1>0. /\ Len(queue) \in Nat
      /\ \A i \in 1 .. Len(queue) : queue[i].req.by \in Nat
  BY <1>c, Entries
<1>1. CASE \E c \in Calls : StartCall(c)
  <2>1. \A i \in 1 .. Len(queue) : queue[i].req.by < callNo + 1
    BY <1>c, <1>0 DEF CallsGrow
  <2>. QED  BY <1>1, <2>1 DEF StartCall, TornIsOver, channel, plcMemory
<1>2. CASE ChunkWritten \/ (ExchangeFails /\ SendFails)
  <2>1. /\ phase = "sending" /\ pc = "loop" /\ outcome = "none"
        /\ request = Current /\ request.by = callNo /\ callNo' = callNo
    <3>1. phase = "sending" /\ callNo' = callNo
      BY <1>2 DEF ChunkWritten, Written, ExchangeFails, SendFails, Return, callVars
    <3>2. pc = "loop" /\ outcome = "none" /\ request = Current
      BY <3>1 DEF ChunkAsked, ClientType, CallType
    <3>. QED  BY <3>1, <3>2 DEF Current
  <2>2. \A i \in 1 .. Len(queue) : ~queue[i].whole => queue[i].req.by < callNo
    BY <2>1 DEF TornIsOver
  <2>3. /\ Len(queue') \in {Len(queue), Len(queue) + 1}
        /\ \A j \in 1 .. Len(queue') :
             \/ j \in 1 .. Len(queue) /\ queue'[j] = queue[j]
             \/ /\ j = Len(queue) + 1
                /\ queue'[j].req = request
                /\ ChunkWritten => queue'[j].whole
    BY <1>2, <1>c, Delivery DEF ChunkWritten, Written, SendFails
  <2>4. ASSUME NEW i \in 1 .. Len(queue'), ~queue'[i].whole
        PROVE  queue'[i].req.by < callNo \/ outcome' = "failed"
    BY <1>2, <2>2, <2>3, <2>4 DEF ExchangeFails, Return
  <2>5. ASSUME NEW i \in 1 .. Len(queue'), NEW j \in 1 .. Len(queue'), i < j,
               ~queue'[i].whole
        PROVE  queue'[i].req.by < queue'[j].req.by
    <3>1. i \in 1 .. Len(queue) /\ queue'[i] = queue[i]
      BY <1>0, <2>3, <2>5
    <3>2. CASE j \in 1 .. Len(queue) /\ queue'[j] = queue[j]
      BY <2>5, <3>1, <3>2 DEF TornIsOver
    <3>3. CASE queue'[j].req = request
      BY <2>1, <2>2, <2>5, <3>1, <3>3
    <3>. QED  BY <2>3, <3>2, <3>3
  <2>6. failures' = 0 => /\ \A i \in 1 .. Len(queue') : queue'[i].whole
                         /\ \A a \in Addr : mem'[a] # Junk
    <3>1. CASE ChunkWritten
      BY <2>3, <3>1 DEF ChunkWritten, Written, TornIsOver, plcMemory
    <3>2. CASE SendFails
      BY <1>c, <3>2 DEF SendFails, Failed
    <3>. QED  BY <1>2, <3>1, <3>2
  <2>. QED  BY <2>1, <2>4, <2>5, <2>6 DEF TornIsOver
<1>3. CASE ExchangeFails /\ ReceiveFails
  <2>1. /\ UNCHANGED <<queue, callNo>> /\ outcome' = "failed"
        /\ failures' = failures + 1
    BY <1>3 DEF ExchangeFails, ReceiveFails, Failed, Return
  <2>. QED  BY <1>c, <2>1 DEF TornIsOver
<1>4. CASE Plc
  <2>1. PICK k \in DOMAIN queue, resp \in Response : Handles(k, resp)
    BY <1>4, PlcStep DEF PlcAnswers
  <2>2. UNCHANGED <<callNo, outcome, failures>>
    BY <1>4, <1>c, <2>1, PlcStep, Answering
  <2>3. /\ 1 \in 1 .. Len(queue) /\ k \in 1 .. Len(queue)
        /\ \A j \in 1 .. Len(queue') :
             k + j \in 1 .. Len(queue) /\ queue'[j] = queue[k + j]
    BY <1>c, <2>1, Answering
  <2>4. \A i, j \in 1 .. Len(queue') : i < j => k + i < k + j
    BY <1>0, <2>3
  <2>5. \A i \in 1 .. Len(queue') :
          ~queue'[i].whole => queue'[i].req.by < callNo \/ outcome = "failed"
    BY <2>3 DEF TornIsOver
  <2>6. \A i, j \in 1 .. Len(queue') :
          i < j /\ ~queue'[i].whole => queue'[i].req.by < queue'[j].req.by
    BY <2>3, <2>4 DEF TornIsOver
  <2>7. failures = 0 => \A i \in 1 .. Len(queue') : queue'[i].whole
    BY <2>3 DEF TornIsOver
  <2>8. ASSUME failures = 0, NEW a \in Addr PROVE mem'[a] # Junk
    <3>1. queue[1].whole /\ mem[a] # Junk
      BY <2>3, <2>8 DEF TornIsOver
    <3>2. mem'[a].by = queue[1].req.by => mem'[a] # Junk
      BY <1>0, <2>3, JunkMark
    <3>. QED  BY <3>1, <3>2, MemoryStep
  <2>. QED  BY <2>2, <2>5, <2>6, <2>7, <2>8 DEF TornIsOver
<1>5. CASE \/ SendChunk \/ RefuseChunk \/ Finish \/ AcceptChunk \/ RejectChunk
           \/ Misread \/ UNCHANGED vars \/ \E a \in Addr : ForeignWrite(a)
  <2>1. UNCHANGED <<queue, callNo, failures>>
    BY <1>5 DEF SendChunk, Send, RefuseChunk, Finish, AcceptChunk, RejectChunk, Take,
       Misread, TakeGarbage, ForeignWrite, Return, vars, channel, callVars
  <2>2. outcome = "failed" => outcome' = "failed"
    <3>1. CASE SendChunk \/ UNCHANGED vars \/ \E a \in Addr : ForeignWrite(a)
      BY <3>1 DEF SendChunk, ForeignWrite, vars, callVars
    <3>2. CASE RefuseChunk \/ Finish \/ AcceptChunk \/ RejectChunk \/ Misread
      BY <3>2 DEF RefuseChunk, Finish, AcceptChunk, RejectChunk, Misread, Take,
         TakeGarbage, ChunkAsked, ClientType, CallType
    <3>. QED  BY <1>5, <3>1, <3>2
  <2>3. \A a \in Addr : mem'[a] = mem[a] \/ mem'[a] # Junk
    <3>1. CASE \E b \in Addr : ForeignWrite(b)
      <4>1. foreign \in Nat /\ foreign < MaxForeign /\ MaxForeign \in Nat
        BY <3>1, BoundsAssumption DEF ForeignWrite, ClientType, MemoryType
      <4>2. -(foreign + 1) # -(MaxForeign + 1)
        BY <4>1
      <4>. QED  BY <3>1, <4>2 DEF ForeignWrite, ClientType, MemoryType, Junk
    <3>2. CASE ~ \E b \in Addr : ForeignWrite(b)
      BY <1>5, <3>2 DEF SendChunk, RefuseChunk, Finish, AcceptChunk, RejectChunk,
         Misread, plcMemory, vars
    <3>. QED  BY <3>1, <3>2
  <2>. QED  BY <2>1, <2>2, <2>3 DEF TornIsOver
<1>. QED
  BY <1>1, <1>2, <1>3, <1>4, <1>5 DEF Next, Client, ExchangeFails

-----------------------------------------------------------------------------
(***************************************************************************)
(* Writing bytes of the chunk again changes nothing: the prefix (Span) goes  *)
(* as far as most of it was written.                                        *)
(***************************************************************************)
LEMMA SpanGrows ==
  ASSUME CallType
  PROVE  \A n, m \in 0 .. ChunkSize :
           Span(off + n) \cup (op.start + off .. op.start + off + m - 1)
             = Span(off + (IF n < m THEN m ELSE n))
<1>1. op.start \in Nat /\ off \in Nat /\ ChunkSize \in Nat
  BY ChunkFits DEF CallType
<1>2. PICK lo \in Nat, done \in Nat, size \in Nat :
        lo = op.start /\ done = off /\ size = ChunkSize
  BY <1>1
<1>3. \A n : Span(n) = {lo + i : i \in 0 .. n - 1}
  BY <1>2 DEF Span
<1>4. \A n \in Nat : {lo + i : i \in 0 .. n - 1} = lo .. lo + n - 1
  <2>1. ASSUME NEW n \in Nat, NEW a \in lo .. lo + n - 1
        PROVE  a \in {lo + i : i \in 0 .. n - 1}
    <3>1. a - lo \in 0 .. n - 1 /\ a = lo + (a - lo)
      OBVIOUS
    <3>. QED  BY <3>1
  <2>2. \A n \in Nat : \A i \in 0 .. n - 1 : lo + i \in lo .. lo + n - 1
    OBVIOUS
  <2>3. ASSUME NEW n \in Nat
        PROVE  {lo + i : i \in 0 .. n - 1} = lo .. lo + n - 1
    <3>1. {lo + i : i \in 0 .. n - 1} \subseteq lo .. lo + n - 1
      BY <2>2, Zenon
    <3>2. lo .. lo + n - 1 \subseteq {lo + i : i \in 0 .. n - 1}
      BY <2>1, Zenon
    <3>. QED  BY <3>1, <3>2, Zenon
  <2>. QED  BY <2>3
<1>5. ASSUME NEW n \in 0 .. size, NEW m \in 0 .. size
      PROVE  Span(done + n) \cup (lo + done .. lo + done + m - 1)
               = Span(done + (IF n < m THEN m ELSE n))
  <2>1. PICK most \in Nat : most = IF n < m THEN m ELSE n
    OBVIOUS
  <2>2. (lo .. lo + (done + n) - 1) \cup (lo + done .. lo + done + m - 1)
          = lo .. lo + (done + most) - 1
    BY <2>1
  <2>3. /\ Span(done + n) = lo .. lo + (done + n) - 1
        /\ Span(done + most) = lo .. lo + (done + most) - 1
    BY <1>3, <1>4, done + n \in Nat, done + most \in Nat
  <2>. QED  BY <2>1, <2>2, <2>3
<1>. QED
  BY <1>2, <1>5

(***************************************************************************)
(* The own response of an exchange, after an answer of the PLC, is one it   *)
(* had or the answer to the request of the chunk.                           *)
(***************************************************************************)
LEMMA OwnAnswer ==
  ASSUME ClientType, ChunkAsked, NEW k, NEW resp \in Response, Handles(k, resp),
         NEW i \in 1 .. Len(unread'), Own(i)'
  PROVE  \/ i \in 1 .. Len(unread) /\ unread'[i] = unread[i] /\ Own(i)
         \/ queue[1].req = Current /\ unread'[i].resp = resp
<1>1. /\ phase = "waiting" /\ UNCHANGED <<phase, seqno>>
  BY Answering DEF ClientType, Own
<1>2. /\ 1 \in 1 .. Len(queue)
      /\ \/ i \in 1 .. Len(unread) /\ unread'[i] = unread[i]
         \/ unread'[i] = [no |-> queue[1].no, resp |-> resp]
  BY Answering DEF ClientType
<1>3. CASE i \in 1 .. Len(unread) /\ unread'[i] = unread[i]
  BY <1>1, <1>3 DEF Own
<1>4. CASE unread'[i] = [no |-> queue[1].no, resp |-> resp]
  <2>1. queue[1].no = seqno
    BY <1>1, <1>4 DEF Own
  <2>2. queue[1].req = Current
    BY <1>1, <1>2, <2>1 DEF ChunkAsked
  <2>. QED  BY <1>4, <2>2
<1>. QED
  BY <1>2, <1>3, <1>4

\* The call and the memory stay as they are, and no own response is new.
Passing ==
  /\ UNCHANGED <<op, off, pdu, callNo, result, landed, seen>>
  /\ outcome = "failed" => outcome' = "failed"
  /\ ~stale' => ~stale
  /\ \A i \in 1 .. Len(unread') : Own(i)' =>
       i \in 1 .. Len(unread) /\ unread'[i] = unread[i] /\ Own(i)

(***************************************************************************)
(* The steps that ask, wait, give up or return keep chunks and bytes.       *)
(***************************************************************************)
LEMMA PassingStep ==
  ASSUME ClientType, NumbersGrow, ChunkLands, ChunkRead, Passing
  PROVE  ChunkLands' /\ ChunkRead'
<1>1. ChunkSize' = ChunkSize
  BY SameChunk DEF Passing
<1>2. \A n : Span(n)' = Span(n)
  BY DEF Passing, Span
<1>3. ChunkLands'
  BY <1>1, <1>2 DEF Passing, ChunkLands
<1>4. ChunkRead'
  BY <1>1 DEF Passing, ChunkRead
<1>. QED
  BY <1>3, <1>4

(***************************************************************************)
(* Bytes that were seen stay seen.                                          *)
(***************************************************************************)
LEMMA StillSeen ==
  ASSUME ChunkRead, op.kind = "read", ~stale,
         \A a \in Addr : seen[a] \subseteq seen'[a]
  PROVE  /\ SeenFrom(seen', result, op.start, off)
         /\ \A i \in 1 .. Len(unread) :
              Own(i) /\ unread[i].resp.kind = "data" =>
                SeenFrom(seen', unread[i].resp.bytes, op.start + off, ChunkSize)
BY DEF ChunkRead, SeenFrom

(***************************************************************************)
(* Reading a range and the chunk behind it reads the longer range, also     *)
(* where the range leaves the data block (PlcReads cuts the chunk).         *)
(***************************************************************************)
LEMMA ReadOn ==
  ASSUME CallType, MemoryType, NEW bytes \in Seq(Mark),
         SeenFrom(seen, result, op.start, off),
         SeenFrom(seen, bytes, op.start + off, ChunkSize)
  PROVE  SeenFrom(seen, result \o bytes, op.start, off + ChunkSize)
<1>1. PICK lo \in Nat, done \in Nat, size \in Nat :
        lo = op.start /\ done = off /\ size = ChunkSize
  BY ChunkFits DEF CallType
<1>2. DbLen \in Nat /\ result \in Seq(Mark)
  BY DbLenAssumption DEF CallType
<1>3. PICK m \in Nat, n \in Nat : m = Len(result) /\ n = Len(bytes)
  BY <1>2, LenProperties
<1>4. /\ m = Inside(lo, done) /\ n = Inside(lo + done, size)
      /\ \A i \in 1 .. m : lo + i - 1 \in Addr /\ result[i] \in seen[lo + i - 1]
      /\ \A i \in 1 .. n : /\ lo + done + i - 1 \in Addr
                           /\ bytes[i] \in seen[lo + done + i - 1]
  BY <1>1, <1>3 DEF SeenFrom
<1>5. m + n = Inside(lo, done + size) /\ (n # 0 => m = done)
  BY <1>2, <1>4 DEF Inside
<1>6. /\ Len(result \o bytes) = m + n
      /\ \A i \in 1 .. m + n :
           (result \o bytes)[i] = IF i <= m THEN result[i] ELSE bytes[i - m]
  BY <1>2, <1>3, ConcatProperties
<1>7. ASSUME NEW i \in 1 .. m + n
      PROVE  lo + i - 1 \in Addr /\ (result \o bytes)[i] \in seen[lo + i - 1]
  <2>1. CASE i \in 1 .. m
    BY <1>4, <1>6, <2>1
  <2>2. CASE i > m
    <3>1. PICK j \in 1 .. n : j = i - m
      BY <2>2
    <3>2. lo + done + j - 1 = lo + i - 1
      BY <1>5, <3>1
    <3>3. (result \o bytes)[i] = bytes[j]
      BY <1>6, <2>2, <3>1
    <3>. QED  BY <1>4, <3>1, <3>2, <3>3
  <2>. QED  BY <1>3, <2>1, <2>2
<1>. QED
  BY <1>1, <1>5, <1>6, <1>7 DEF SeenFrom

(***************************************************************************)
(* A new call (StartCall) starts with an empty prefix.                      *)
(***************************************************************************)
LEMMA StartCallStep ==
  ASSUME ClientType, ChunkAsked, NEW c \in Calls, StartCall(c)
  PROVE  ChunkLands' /\ ChunkRead'
<1>1. \A i : ~Own(i)'
  BY DEF StartCall, ChunkAsked, channel, Own
<1>2. /\ op' = c /\ c.start \in Nat /\ off' = 0 /\ result' = <<>> /\ landed' = {}
  BY CallsAssumption DEF StartCall
<1>3. ChunkLands'
  <2>1. Span(off)' = {}
    BY <1>2 DEF Span
  <2>. QED  BY <1>1, <1>2, <2>1 DEF ChunkLands
<1>4. ChunkRead'
  <2>1. Inside(c.start, 0) = 0
    BY <1>2, DbLenAssumption DEF Inside
  <2>2. SeenFrom(seen', result', c.start, 0)
    BY <1>2, <2>1 DEF SeenFrom
  <2>. QED  BY <1>1, <1>2, <2>2 DEF ChunkRead
<1>. QED
  BY <1>3, <1>4

(***************************************************************************)
(* An accepted response moves the prefix on by its chunk (AcceptChunk).     *)
(***************************************************************************)
LEMMA AcceptChunkStep ==
  ASSUME ClientType, NumbersGrow, ChunkAsked, ChunkLands, ChunkRead, AcceptChunk
  PROVE  ChunkLands' /\ ChunkRead'
<1>1. /\ UNCHANGED <<op, pdu, callNo, landed, seen>>
      /\ off' = off + ChunkSize /\ phase = "waiting" /\ phase' = "idle"
  BY DEF AcceptChunk, Take
<1>2. \A i : ~Own(i)'
  BY <1>1 DEF Own
<1>3. ChannelType /\ Take
  BY DEF ClientType, AcceptChunk
<1>4. 1 \in 1 .. Len(unread) /\ Head(unread) = unread[1] /\ unread[1] \in NumberedResponse
  BY <1>3, Taking
<1>5. ~stale' => ~stale /\ Own(1)
  BY <1>1, OwnIsLast DEF Own
<1>6. ChunkLands'
  <2>1. op.kind = "write" => unread[1].resp.kind # "refused"
    BY <1>4 DEF AcceptChunk, Accepted
  <2>2. op.kind = "write" /\ ~stale' => landed = Span(off + ChunkSize)
    BY <1>4, <1>5, <2>1 DEF ChunkLands
  <2>3. Span(off)' = Span(off + ChunkSize)
    BY <1>1 DEF Span
  <2>. QED  BY <1>1, <1>2, <2>2, <2>3 DEF ChunkLands
<1>7. ChunkRead'
  <2>1. CASE op.kind = "read" /\ ~stale'
    <3>1. unread[1].resp.kind = "data"
      BY <1>4, <2>1 DEF AcceptChunk, Accepted
    <3>2. /\ SeenFrom(seen, result, op.start, off)
          /\ SeenFrom(seen, unread[1].resp.bytes, op.start + off, ChunkSize)
      BY <1>4, <1>5, <2>1, <3>1 DEF ChunkRead
    <3>3. unread[1].resp.bytes \in Seq(Mark)
      BY <1>4 DEF NumberedResponse, Response
    <3>4. SeenFrom(seen, result \o unread[1].resp.bytes, op.start, off + ChunkSize)
      BY <3>2, <3>3, ReadOn DEF ClientType
    <3>5. result' = result \o unread[1].resp.bytes
      BY <1>4, <2>1 DEF AcceptChunk
    <3>. QED  BY <1>1, <1>2, <3>4, <3>5 DEF ChunkRead
  <2>2. CASE op.kind # "read" \/ stale'
    BY <1>1, <2>2 DEF ChunkRead
  <2>. QED  BY <2>1, <2>2
<1>. QED
  BY <1>6, <1>7

(***************************************************************************)
(* A read the PLC answers: the values are those of this moment (PlcReads).  *)
(***************************************************************************)
LEMMA PlcReadsStep ==
  ASSUME ClientType, NumbersGrow, ChunkAsked, ChunkLands, ChunkRead,
         NEW k \in DOMAIN queue, PlcReads(k)
  PROVE  ChunkLands' /\ ChunkRead'
<1>. DEFINE data == [kind |-> "data", bytes |-> ReadPayload(queue[1].req)]
<1>1. /\ UNCHANGED <<op, off, pdu, callNo, result, outcome, landed, seen, stale>>
      /\ queue # <<>> /\ queue[1].req.kind = "read" /\ Answer(k, data)
  BY DEF PlcReads, callVars, histVars
<1>2. queue[1].req \in Request
  BY <1>1, Entries DEF ClientType
<1>3. /\ data \in Response
      /\ SeenFrom(seen, data.bytes, queue[1].req.at, queue[1].req.len)
  BY <1>2, Payload DEF Response, ClientType
<1>4. \A i \in 1 .. Len(unread') : Own(i)' =>
        \/ i \in 1 .. Len(unread) /\ unread'[i] = unread[i] /\ Own(i)
        \/ queue[1].req = Current /\ unread'[i].resp = data
  BY <1>1, <1>3, OwnAnswer DEF Handles
<1>5. queue[1].req = Current =>
        /\ op.kind = "read"
        /\ SeenFrom(seen, data.bytes, op.start + off, ChunkSize)
  BY <1>1, <1>3 DEF Current
<1>6. ChunkSize' = ChunkSize /\ \A n : Span(n)' = Span(n)
  BY <1>1, SameChunk DEF Span
<1>. HIDE DEF data
<1>7. ChunkLands'
  BY <1>1, <1>4, <1>5, <1>6 DEF ChunkLands
<1>8. ChunkRead'
  BY <1>1, <1>4, <1>5, <1>6 DEF ChunkRead
<1>. QED
  BY <1>7, <1>8

(***************************************************************************)
(* A refused item: nothing lands and nothing is read (PlcRefuses).          *)
(***************************************************************************)
LEMMA PlcRefusesStep ==
  ASSUME ClientType, NumbersGrow, ChunkAsked, ChunkLands, ChunkRead,
         NEW k \in DOMAIN queue, PlcRefuses(k)
  PROVE  ChunkLands' /\ ChunkRead'
<1>1. /\ UNCHANGED <<op, off, pdu, callNo, result, outcome, landed, seen, stale>>
      /\ Answer(k, [kind |-> "refused", bytes |-> <<>>])
  BY DEF PlcRefuses, callVars, histVars
<1>2. [kind |-> "refused", bytes |-> <<>>] \in Response
  BY EmptySeq DEF Response
<1>3. \A i \in 1 .. Len(unread') : Own(i)' =>
        \/ i \in 1 .. Len(unread) /\ unread'[i] = unread[i] /\ Own(i)
        \/ unread'[i].resp.kind = "refused"
  BY <1>1, <1>2, OwnAnswer DEF Handles
<1>4. ChunkSize' = ChunkSize /\ \A n : Span(n)' = Span(n)
  BY <1>1, SameChunk DEF Span
<1>5. ChunkLands'
  BY <1>1, <1>3, <1>4 DEF ChunkLands
<1>6. ChunkRead'
  BY <1>1, <1>3, <1>4 DEF ChunkRead
<1>. QED
  BY <1>5, <1>6

(***************************************************************************)
(* A write the PLC carries out lands the chunk of the call (PlcWrites).     *)
(***************************************************************************)
LEMMA PlcWritesStep ==
  ASSUME ClientType, NumbersGrow, ChunkAsked, ChunkLands, ChunkRead,
         NEW k \in DOMAIN queue, PlcWrites(k)
  PROVE  ChunkLands' /\ ChunkRead'
<1>. DEFINE req == queue[1].req
            ack == [kind |-> "ack", bytes |-> <<>>]
<1>1. /\ UNCHANGED <<op, off, pdu, callNo, result, outcome, stale>>
      /\ queue # <<>> /\ Answer(k, ack)
      /\ landed' = IF req.by = callNo
                   THEN landed \cup (req.at .. req.at + req.len - 1) ELSE landed
  BY DEF PlcWrites, Stores, callVars
<1>2. \A a \in Addr : seen[a] \subseteq seen'[a]
  BY DEF PlcWrites, Stores
<1>3. ack \in Response
  BY EmptySeq DEF Response
<1>4. \A i \in 1 .. Len(unread') : Own(i)' =>
        \/ i \in 1 .. Len(unread) /\ unread'[i] = unread[i] /\ Own(i)
        \/ req = Current /\ unread'[i].resp = ack
  BY <1>1, <1>3, OwnAnswer DEF Handles
<1>5. ChunkSize' = ChunkSize /\ \A n : Span(n)' = Span(n)
  BY <1>1, SameChunk DEF Span
<1>6. 1 \in 1 .. Len(queue)
  BY <1>1, Entries DEF ClientType
<1>7. ~stale /\ req.by = callNo => req = Current
  BY <1>6 DEF ChunkAsked
<1>8. ChunkLands'
  <2>1. CASE op.kind = "write" /\ ~stale
    <3>0. off \in Nat /\ ChunkSize \in Nat
      BY ChunkFits DEF ClientType, CallType
    <3>1. PICK n \in 0 .. ChunkSize : landed = Span(off + n)
      BY <2>1, <3>0, off + 0 = off, 0 \in 0 .. ChunkSize, ChunkSize \in 0 .. ChunkSize
         DEF ChunkLands
    <3>2. req = Current => landed' = Span(off + ChunkSize)
      <4>1. req = Current =>
              landed' = landed \cup (op.start + off .. op.start + off + ChunkSize - 1)
        BY <1>1 DEF Current
      <4>2. ~(n < ChunkSize) => n = ChunkSize
        BY <3>0
      <4>3. Span(off + n) \cup (op.start + off .. op.start + off + ChunkSize - 1)
              = Span(off + ChunkSize)
        BY <3>0, <4>2, SpanGrows, ChunkSize \in 0 .. ChunkSize DEF ClientType
      <4>. QED  BY <3>1, <4>1, <4>3
    <3>3. req # Current => landed' = landed
      BY <1>1, <1>7, <2>1
    <3>4. \/ landed' \in {Span(off), Span(off + ChunkSize)}
          \/ /\ outcome = "failed"
             /\ \E m \in 0 .. ChunkSize : landed' = Span(off + m)
      BY <2>1, <3>2, <3>3 DEF ChunkLands
    <3>5. ASSUME NEW i \in 1 .. Len(unread'), Own(i)',
                 unread'[i].resp.kind # "refused"
          PROVE  landed' = Span(off + ChunkSize)
      <4>1. CASE i \in 1 .. Len(unread) /\ unread'[i] = unread[i] /\ Own(i)
        <5>1. landed = Span(off + ChunkSize)
          BY <2>1, <3>5, <4>1 DEF ChunkLands
        <5>. QED  BY <3>2, <3>3, <5>1
      <4>2. CASE req = Current
        BY <3>2, <4>2
      <4>. QED  BY <1>4, <3>5, <4>1, <4>2
    <3>. QED  BY <1>1, <1>5, <3>4, <3>5 DEF ChunkLands
  <2>2. CASE op.kind # "write" \/ stale
    BY <1>1, <2>2 DEF ChunkLands
  <2>. QED  BY <2>1, <2>2
<1>9. ChunkRead'
  <2>1. CASE op.kind = "read" /\ ~stale
    <3>1. /\ SeenFrom(seen', result, op.start, off)
          /\ \A i \in 1 .. Len(unread) :
               Own(i) /\ unread[i].resp.kind = "data" =>
                 SeenFrom(seen', unread[i].resp.bytes, op.start + off, ChunkSize)
      BY <1>2, <2>1, StillSeen
    <3>2. ack.kind = "ack"
      OBVIOUS
    <3>. HIDE DEF ack, req
    <3>. QED  BY <1>1, <1>4, <1>5, <3>1, <3>2 DEF ChunkRead
  <2>2. CASE op.kind # "read" \/ stale
    BY <1>1, <2>2 DEF ChunkRead
  <2>. QED  BY <2>1, <2>2
<1>. QED
  BY <1>8, <1>9

(***************************************************************************)
(* A torn request is no longer waited for: what the PLC makes of it         *)
(* (PlcMisreads) lands a part of the chunk its call failed in.              *)
(***************************************************************************)
LEMMA PlcMisreadsStep ==
  ASSUME ClientType, NumbersGrow, ChunkAsked, TornIsOver, ChunkLands, ChunkRead,
         NEW k \in DOMAIN queue, NEW n, PlcMisreads(k, n)
  PROVE  ChunkLands' /\ ChunkRead'
<1>. DEFINE req == queue[1].req
<1>1. /\ UNCHANGED <<op, off, pdu, callNo, pc, result, outcome, stale>>
      /\ queue # <<>> /\ ~queue[1].whole
      /\ n \in 0 .. (IF req.kind = "write" THEN req.len ELSE 0)
      /\ landed' = IF req.by = callNo
                   THEN landed \cup (req.at .. req.at + n - 1) ELSE landed
      /\ \A a \in Addr : seen[a] \subseteq seen'[a]
  BY DEF PlcMisreads, Stores, callVars
<1>2. PICK resp \in Response : Answer(k, resp)
  <2>1. <<>> \in Seq(Mark) /\ <<Junk>> \in Seq(Mark)
    BY JunkMark, EmptySeq
  <2>. QED  BY <2>1 DEF PlcMisreads, Misanswers, Response
<1>3. 1 \in 1 .. Len(queue)
  BY <1>1, Entries DEF ClientType
<1>4. callNo \in Nat
  BY DEF ClientType, CallType
<1>5. req.by = callNo => outcome = "failed"
  BY <1>1, <1>3, <1>4 DEF TornIsOver
<1>6. \A i \in 1 .. Len(unread') : Own(i)' =>
        i \in 1 .. Len(unread) /\ unread'[i] = unread[i] /\ Own(i)
  <2>1. phase = "waiting" => outcome = "none"
    BY DEF ChunkAsked, ClientType, CallType
  <2>2. req = Current => phase # "waiting"
    BY <1>5, <2>1 DEF Current
  <2>3. phase' = phase
    BY <1>2 DEF Answer
  <2>. QED  BY <1>2, <2>2, <2>3, OwnAnswer DEF Handles, Own
<1>7. ChunkSize' = ChunkSize /\ \A m : Span(m)' = Span(m)
  BY <1>1, SameChunk DEF Span
<1>8. ChunkLands'
  <2>1. CASE op.kind = "write" /\ ~stale /\ req.by = callNo
    <3>0. off \in Nat /\ ChunkSize \in Nat
      BY ChunkFits DEF ClientType, CallType
    <3>1. PICK m \in 0 .. ChunkSize : landed = Span(off + m)
      BY <2>1, <3>0, off + 0 = off, 0 \in 0 .. ChunkSize, ChunkSize \in 0 .. ChunkSize
         DEF ChunkLands
    <3>2. req = Current
      BY <1>3, <2>1 DEF ChunkAsked
    <3>3. /\ n \in 0 .. ChunkSize
          /\ landed' = landed \cup (op.start + off .. op.start + off + n - 1)
      BY <1>1, <2>1, <3>2 DEF Current
    <3>4. landed' = Span(off + (IF m < n THEN n ELSE m))
      BY <3>1, <3>3, SpanGrows DEF ClientType
    <3>5. \E most \in 0 .. ChunkSize : landed' = Span(off + most)
      BY <3>1, <3>3, <3>4
    <3>6. \A i : ~Own(i)'
      <4>1. outcome = "failed" /\ phase' = phase
        BY <1>2, <1>5, <2>1 DEF Answer
      <4>. QED  BY <4>1 DEF Own, ChunkAsked, ClientType, CallType
    <3>. QED  BY <1>1, <1>5, <1>7, <2>1, <3>5, <3>6 DEF ChunkLands
  <2>2. CASE op.kind = "write" /\ ~stale /\ req.by # callNo
    <3>1. landed' = landed
      BY <1>1, <2>2
    <3>. QED  BY <1>1, <1>6, <1>7, <3>1 DEF ChunkLands
  <2>3. CASE op.kind # "write" \/ stale
    BY <1>1, <2>3 DEF ChunkLands
  <2>. QED  BY <2>1, <2>2, <2>3
<1>9. ChunkRead'
  <2>1. CASE op.kind = "read" /\ ~stale
    <3>1. /\ SeenFrom(seen', result, op.start, off)
          /\ \A i \in 1 .. Len(unread) :
               Own(i) /\ unread[i].resp.kind = "data" =>
                 SeenFrom(seen', unread[i].resp.bytes, op.start + off, ChunkSize)
      BY <1>1, <2>1, StillSeen
    <3>. QED  BY <1>1, <1>6, <1>7, <3>1 DEF ChunkRead
  <2>2. CASE op.kind # "read" \/ stale
    BY <1>1, <2>2 DEF ChunkRead
  <2>. QED  BY <2>1, <2>2
<1>. QED
  BY <1>8, <1>9

(***************************************************************************)
(* Another client's write adds a value that was seen (ForeignWrite).        *)
(***************************************************************************)
LEMMA ForeignWriteStep ==
  ASSUME ClientType, ChunkLands, ChunkRead, NEW a \in Addr, ForeignWrite(a)
  PROVE  ChunkLands' /\ ChunkRead'
<1>1. /\ UNCHANGED <<channel, op, off, pdu, callNo, result, outcome, landed, stale>>
      /\ \A b \in Addr : seen[b] \subseteq seen'[b]
  BY DEF ForeignWrite, callVars, ClientType, MemoryType
<1>2. ChunkSize' = ChunkSize /\ \A n : Span(n)' = Span(n)
  BY <1>1, SameChunk DEF Span
<1>3. UNCHANGED unread /\ \A i : Own(i)' = Own(i)
  BY <1>1 DEF channel, Own
<1>4. ChunkLands'
  BY <1>1, <1>2, <1>3 DEF ChunkLands
<1>5. ChunkRead'
  <2>1. CASE op.kind = "read" /\ ~stale
    BY <1>1, <1>2, <1>3, <2>1, StillSeen DEF ChunkRead
  <2>2. CASE op.kind # "read" \/ stale
    BY <1>1, <2>2 DEF ChunkRead
  <2>. QED  BY <2>1, <2>2
<1>. QED
  BY <1>4, <1>5

(***************************************************************************)
(* Every step keeps the chunks that landed a prefix, and the bytes of a     *)
(* read true.                                                               *)
(***************************************************************************)
LEMMA ChunkStep ==
  ASSUME ClientType, NumbersGrow, ChunkAsked, TornIsOver, ChunkLands, ChunkRead,
         [Next]_vars
  PROVE  ChunkLands' /\ ChunkRead'
<1>1. CASE \E c \in Calls : StartCall(c)
  BY <1>1, StartCallStep
<1>2. CASE SendChunk \/ RefuseChunk \/ Finish \/ ExchangeFails \/ RejectChunk
  <2>1. /\ phase' \in {"idle", "sending"} \/ UNCHANGED channel
        /\ UNCHANGED <<op, off, pdu, callNo, result, landed, seen>>
        /\ ~stale' => ~stale
    <3>1. CASE SendChunk
      BY <3>1 DEF SendChunk, Send, callVars, histVars
    <3>2. CASE RefuseChunk \/ Finish
      BY <3>2 DEF RefuseChunk, Finish, Return, histVars
    <3>3. CASE ExchangeFails
      BY <3>3 DEF ExchangeFails, SendFails, ReceiveFails, Failed, Return, histVars
    <3>4. CASE RejectChunk
      <4>1. ~stale' => ~stale
        BY <3>4 DEF RejectChunk
      <4>. QED  BY <3>4, <4>1 DEF RejectChunk, Take, Return
    <3>. QED  BY <1>2, <3>1, <3>2, <3>3, <3>4
  <2>2. outcome = "failed" => outcome' = "failed"
    BY <1>2 DEF SendChunk, RefuseChunk, Finish, ExchangeFails, RejectChunk, Take,
       Return, callVars, ChunkAsked, ClientType, CallType
  <2>3. Passing
    BY <2>1, <2>2 DEF Passing, Own, channel
  <2>. QED  BY <2>3, PassingStep
<1>3. CASE ChunkWritten
  <2>1. \A i \in 1 .. Len(unread) : unread[i].no # seqno
    <3>1. seqno \in Nat /\ \A i \in 1 .. Len(unread) : unread[i].no \in Nat
      BY Entries DEF ClientType
    <3>. QED  BY <1>3, <3>1 DEF ChunkWritten, Written, NumbersGrow
  <2>2. Passing
    BY <1>3, <2>1 DEF ChunkWritten, Written, callVars, histVars, Passing, Own
  <2>. QED  BY <2>2, PassingStep
<1>4. CASE AcceptChunk
  BY <1>4, AcceptChunkStep
<1>5. CASE Misread
  BY <1>5 DEF Misread, ChunkLands, ChunkRead
<1>6. CASE Plc
  <2>1. PICK k \in DOMAIN queue : PlcHandles(k)
    BY <1>6 DEF Plc, PlcHandles
  <2>2. CASE PlcOverlooks(k)
    <3>1. Passing
      BY <2>2 DEF PlcOverlooks, Overlook, callVars, plcMemory, histVars, Passing, Own
    <3>. QED  BY <3>1, PassingStep
  <2>. QED
    BY <2>1, <2>2, PlcReadsStep, PlcWritesStep, PlcRefusesStep, PlcMisreadsStep
       DEF PlcHandles
<1>7. CASE \E a \in Addr : ForeignWrite(a)
  BY <1>7, ForeignWriteStep
<1>8. CASE UNCHANGED vars
  <2>1. Passing
    BY <1>8 DEF vars, channel, callVars, histVars, Passing, Own
  <2>. QED  BY <2>1, PassingStep
<1>. QED
  BY <1>1, <1>2, <1>3, <1>4, <1>5, <1>6, <1>7, <1>8 DEF Next, Client

-----------------------------------------------------------------------------
(***************************************************************************)
(* The invariant holds initially.                                           *)
(***************************************************************************)
LEMMA ClientInvInit ==
  ASSUME Init
  PROVE  ClientInv
<1>. USE DEF Init, ChanInit
<1>1. ChannelType
  <2>1. request \in Request
    BY DEF Request
  <2>. QED  BY <2>1, EmptySeq DEF ChannelType
<1>2. CallType
  <2>1. op \in [kind : {"read", "write"}, start : Nat, len : Nat]
    BY CallsAssumption
  <2>2. pdu \in Nat /\ op.len \in Nat
    BY <2>1, PdusAssumption
  <2>3. off \in 0 .. op.len
    BY <2>2
  <2>4. result \in Seq(Mark)
    BY EmptySeq
  <2>. QED  BY <2>1, <2>2, <2>3, <2>4 DEF CallType
<1>3. MemoryType
  <2>1. \A a \in Addr : [by |-> 0, at |-> a] \in Mark
    BY DEF Addr, Mark
  <2>. QED  BY <2>1 DEF MemoryType
<1>4. Len(queue) = 0 /\ Len(unread) = 0
  OBVIOUS
<1>5. NumbersGrow /\ CallsGrow
  BY <1>4 DEF NumbersGrow, CallsGrow
<1>6. InStep
  BY <1>4 DEF InStep
<1>7. ChunkAsked
  BY <1>4 DEF ChunkAsked
<1>t. TornIsOver
  BY <1>4, JunkMark DEF TornIsOver
<1>8. ChunkLands
  <2>1. Span(off) = {}
    BY DEF Span
  <2>. QED  BY <1>4, <2>1 DEF ChunkLands
<1>9. ChunkRead
  <2>1. Inside(op.start, 0) = 0
    BY <1>2, DbLenAssumption DEF Inside, CallType
  <2>. QED  BY <1>4, <2>1 DEF ChunkRead, SeenFrom
<1>. QED
  BY <1>1, <1>2, <1>3, <1>5, <1>6, <1>7, <1>t, <1>8, <1>9 DEF ClientInv, ClientType

(***************************************************************************)
(* Every step keeps the invariant.                                          *)
(***************************************************************************)
LEMMA ClientInvStep ==
  ASSUME ClientInv, [Next]_vars
  PROVE  ClientInv'
BY ClientTypeStep, NumbersGrowStep, CallsGrowStep, InStepStep, ChunkAskedStep,
   TornIsOverStep, ChunkStep
   DEF ClientInv

(***************************************************************************)
(* So it always holds.                                                      *)
(***************************************************************************)
LEMMA ClientInvCorrect == Spec => []ClientInv
BY ClientInvInit, ClientInvStep, PTL DEF Spec

(***************************************************************************)
(* StaleOnlyAfterFailure, for any number of calls: without a failure no     *)
(* exchange of chunked_read or chunked_write takes another's response.      *)
(***************************************************************************)
THEOREM NoFailureNoStale == Spec => []StaleOnlyAfterFailure
<1>1. ClientInv => StaleOnlyAfterFailure
  BY DEF ClientInv, InStep, TornIsOver, StaleOnlyAfterFailure
<1>. QED
  BY <1>1, ClientInvCorrect, PTL

(***************************************************************************)
(* WriteIsPrefix, for every range, PDU size and length of the block: what   *)
(* chunked_write stored is a prefix of the range, the whole of it on Ok.    *)
(***************************************************************************)
THEOREM WritesArePrefixes == Spec => []WriteIsPrefix
<1>1. ClientInv => WriteIsPrefix
  <2>1. SUFFICES ASSUME ClientInv, op.kind = "write", ~stale
                 PROVE  outcome = "ok" => landed = Span(op.len)
    BY DEF WriteIsPrefix, ClientInv, ChunkLands
  <2>2. outcome = "ok" => landed \in {Span(off), Span(off + ChunkSize)}
    BY <2>1 DEF ClientInv, ChunkLands
  <2>3. outcome = "ok" => off = op.len /\ off + ChunkSize = op.len
    BY <2>1, ChunkFits DEF ClientInv, ClientType, CallType, ChunkAsked
  <2>. QED  BY <2>2, <2>3
<1>. QED
  BY <1>1, ClientInvCorrect, PTL

(***************************************************************************)
(* ReadIsFaithful, for every range, PDU size and length of the block: byte  *)
(* i of what chunked_read returns is a value its address had meanwhile.     *)
(***************************************************************************)
THEOREM ReadsAreFaithful == Spec => []ReadIsFaithful
<1>1. ClientInv => ReadIsFaithful
  <2>1. SUFFICES ASSUME ClientInv, op.kind = "read", outcome = "ok", ~stale
                 PROVE  ReadOf(result)
    BY DEF ReadIsFaithful, Returned
  <2>2. off = op.len /\ SeenFrom(seen, result, op.start, op.len)
    BY <2>1 DEF ClientInv, ChunkAsked, ChunkRead
  <2>3. InDb => Inside(op.start, op.len) = op.len
    <3>1. op.start \in Nat /\ op.len \in Nat /\ DbLen \in Nat
      BY <2>1, DbLenAssumption DEF ClientInv, ClientType, CallType
    <3>2. CASE op.len = 0
      BY <3>1, <3>2 DEF Inside
    <3>3. CASE op.len # 0
      <4>1. op.len - 1 \in 0 .. op.len - 1
        BY <3>1, <3>3
      <4>2. InDb => op.start + (op.len - 1) \in Addr
        BY <4>1 DEF InDb, Span
      <4>. QED  BY <3>1, <4>2 DEF Addr, Inside
    <3>. QED  BY <3>2, <3>3
  <2>. QED  BY <2>2, <2>3 DEF SeenFrom, ReadOf
<1>. QED
  BY <1>1, ClientInvCorrect, PTL

(***************************************************************************)
(* WritesInOrder, for any number of calls: a late chunk of a failed call    *)
(* never overwrites a byte of a later one on the same connection, and the   *)
(* rubbish of a torn one no byte of the call in progress.                   *)
(***************************************************************************)
THEOREM WritesLandInOrder == Spec => WritesInOrder
<1>1. ASSUME ClientInv, [Next]_vars, NEW a \in Addr
      PROVE  /\ mem'[a].by >= 0 /\ mem[a].by >= 0 => mem'[a].by >= mem[a].by
             /\ mem'[a] = Junk /\ mem[a] # Junk => mem[a].by < callNo
  <2>1. ClientType /\ CallsGrow /\ TornIsOver
    BY <1>1 DEF ClientInv
  <2>2. mem[a].by \in Int /\ mem'[a].by \in Int /\ callNo \in Nat /\ request.by \in Nat
    BY <1>1, <2>1, ClientTypeStep
       DEF ClientType, MemoryType, Mark, CallType, ChannelType, Request
  <2>3. Len(queue) \in Nat /\ \A i \in 1 .. Len(queue) : queue[i].req.by \in Nat
    BY <2>1, Entries DEF ClientType
  <2>4. CASE mem'[a] = mem[a]
    BY <2>2, <2>4
  <2>5. CASE mem'[a].by < 0 /\ mem'[a] # Junk
    BY <2>2, <2>5
  <2>6. CASE queue # <<>> /\ mem'[a].by = queue[1].req.by
    <3>1. 1 \in 1 .. Len(queue)
      BY <2>1, <2>6, Entries DEF ClientType
    <3>2. mem[a].by <= queue[1].req.by /\ queue[1].req.by \in Nat
      BY <2>1, <2>3, <3>1 DEF CallsGrow
    <3>3. mem'[a] # Junk
      BY <2>6, <3>2, JunkMark
    <3>. QED  BY <2>2, <2>6, <3>2, <3>3
  <2>7. CASE mem'[a] = Junk /\ ~queue[1].whole /\ Len(queue) > 1
    <3>1. 1 \in 1 .. Len(queue) /\ 2 \in 1 .. Len(queue)
      BY <2>3, <2>7
    <3>2. /\ mem[a].by <= queue[1].req.by
          /\ queue[1].req.by < queue[2].req.by
          /\ queue[2].req.by <= request.by
          /\ request.by <= callNo
      BY <2>1, <2>7, <3>1 DEF CallsGrow, TornIsOver
    <3>3. mem'[a].by < 0
      BY <2>7, JunkMark
    <3>. QED  BY <2>2, <2>3, <3>1, <3>2, <3>3
  <2>. QED  BY <1>1, <2>1, <2>4, <2>5, <2>6, <2>7, MemoryStep
<1>2. ClientInv /\ [Next]_vars =>
        [\A a \in Addr :
           /\ mem'[a].by >= 0 /\ mem[a].by >= 0 => mem'[a].by >= mem[a].by
           /\ mem'[a] = Junk /\ mem[a] # Junk => mem[a].by < callNo]_vars
  BY <1>1
<1>. QED
  BY <1>2, ClientInvCorrect, PTL DEF Spec, WritesInOrder

-----------------------------------------------------------------------------
(***************************************************************************)
(* The client and its PLC use the channel as S7Channel describes it: what   *)
(* is proved of the channel holds of theirs.                                *)
(***************************************************************************)
Channel == INSTANCE S7ChannelProofs WITH Requests <- Request, Responses <- Response

\* Every step of the client, of its PLC and of others is one of the channel or leaves it alone.
LEMMA ChannelStep ==
  ASSUME ClientType, [Next]_vars
  PROVE  [ChanNext]_chanVars
<1>1. ASSUME NEW c \in Calls, StartCall(c) PROVE UNCHANGED chanVars
  BY <1>1 DEF StartCall, channel, chanVars
<1>2. CASE SendChunk
  <2>1. [kind |-> op.kind, at |-> op.start + off, len |-> ChunkSize, by |-> callNo] \in Request
    <3>1. ChunkSize \in Nat
      BY ChunkFits DEF ClientType
    <3>2. QED
      BY <3>1 DEF ClientType, CallType, Request
  <2>2. QED
    BY <1>2, <2>1 DEF SendChunk, ChanNext
<1>3. CASE RefuseChunk \/ Finish
  BY <1>3 DEF RefuseChunk, Finish, channel, chanVars
<1>4. CASE ChunkWritten
  BY <1>4 DEF ChunkWritten, ChanNext
<1>5. CASE ExchangeFails
  BY <1>5 DEF ExchangeFails, ChanNext
<1>6. CASE AcceptChunk \/ RejectChunk
  BY <1>6 DEF AcceptChunk, RejectChunk, ChanNext
<1>7. CASE Misread
  BY <1>7 DEF Misread, ChanNext
<1>8. CASE Plc
  BY <1>8, PlcStep DEF PlcAnswers, Handles, ChanNext
<1>9. ASSUME NEW a \in Addr, ForeignWrite(a) PROVE UNCHANGED chanVars
  BY <1>9 DEF ForeignWrite, channel, chanVars
<1>10. CASE UNCHANGED vars
  BY <1>10 DEF vars, channel, chanVars
<1>11. QED
  BY <1>1, <1>2, <1>3, <1>4, <1>5, <1>6, <1>7, <1>8, <1>9, <1>10 DEF Next, Client

\* Channel is the instance of S7Channel that clients work on.
LEMMA SameChannel ==
  /\ ChanInit => Channel!ChanInit
  /\ [ChanNext]_chanVars => [Channel!ChanNext]_(Channel!chanVars)
<1>1. ChanInit => Channel!ChanInit
  BY DEF ChanInit, Channel!ChanInit
<1>2. ChanNext => Channel!ChanNext
  BY DEF ChanNext, Channel!ChanNext, Send, Written, SendFails, Take, ReceiveFails,
         TakeGarbage, Answer, Overlook, Delivered, Failed,
         Channel!Send, Channel!Written, Channel!SendFails, Channel!Take,
         Channel!ReceiveFails, Channel!TakeGarbage,
         Channel!Answer, Channel!Overlook, Channel!Delivered, Channel!Failed
<1>3. UNCHANGED chanVars => UNCHANGED Channel!chanVars
  BY DEF chanVars, Channel!chanVars
<1>4. QED
  BY <1>1, <1>2, <1>3

(***************************************************************************)
(* A client that reads and writes takes each step of an exchange as the     *)
(* channel allows it, and the PLC answers with responses of the channel:    *)
(* every behaviour is one of the channel.                                   *)
(***************************************************************************)
THEOREM ClientKeepsToChannel == Spec => ChanSpec
<1>1. Init => ChanInit
  BY DEF Init
<1>2. ClientInv /\ [Next]_vars => [ChanNext]_chanVars
  BY ChannelStep DEF ClientInv
<1>3. QED
  BY <1>1, <1>2, ClientInvCorrect, PTL DEF Spec, ChanSpec

(***************************************************************************)
(* StalenessBounded for a client that reads and writes: the response that   *)
(* an exchange takes is never early, and late by the failed exchanges of    *)
(* the connection at most.                                                  *)
(***************************************************************************)
THEOREM ClientStalenessIsBounded == Spec => []StalenessBounded
<1>1. ChanSpec => Channel!ChanSpec
  BY SameChannel, PTL DEF ChanSpec, Channel!ChanSpec
<1>2. Channel!ChanSpec => []Channel!StalenessBounded
  BY Channel!ResponsesAreBoundedlyStale
<1>3. Channel!StalenessBounded => StalenessBounded
  BY DEF Channel!StalenessBounded, StalenessBounded
<1>4. QED
  BY <1>1, <1>2, <1>3, ClientKeepsToChannel, PTL

(***************************************************************************)
(* OwnResponseMeansInStep for a client that reads and writes: after an      *)
(* exchange that took its own response the connection holds nothing of an   *)
(* earlier one.                                                             *)
(***************************************************************************)
THEOREM ClientIsInStepAfterOwn == Spec => []OwnResponseMeansInStep
<1>1. ChanSpec => Channel!ChanSpec
  BY SameChannel, PTL DEF ChanSpec, Channel!ChanSpec
<1>2. Channel!ChanSpec => []Channel!OwnResponseMeansInStep
  BY Channel!InStepAfterOwnResponse
<1>3. Channel!OwnResponseMeansInStep => OwnResponseMeansInStep
  BY DEF Channel!OwnResponseMeansInStep, OwnResponseMeansInStep
<1>4. QED
  BY <1>1, <1>2, <1>3, ClientKeepsToChannel, PTL

=============================================================================
