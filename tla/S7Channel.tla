------------------------------ MODULE S7Channel -----------------------------
(***************************************************************************)
(* What a connected TcpConnection promises the client above it: requests   *)
(* and whole responses travel in order, one exchange at a time, until a     *)
(* read is interrupted inside a frame.  Every exchange may also fail: a     *)
(* failed one may leave its response behind for the next, and a write that  *)
(* was cut short leaves a torn request, which the PLC completes with the    *)
(* bytes of the requests behind it or drops.                                *)
(* S7Transport implements this channel over a byte stream; S7Client is      *)
(* built on it.                                                             *)
(***************************************************************************)
EXTENDS Integers, Sequences

CONSTANTS
  Requests,    \* what the client may send
  Responses    \* what the PLC may answer

VARIABLES
  phase,       \* of the exchange: "idle", "sending" or "waiting"
  seqno,       \* the number of the latest exchange
  request,     \* its request
  queue,       \* numbered requests the PLC has and did not look at yet, and
               \* whether the whole of each was written
  unread,      \* numbered responses nobody has taken
  garbled,     \* the reader no longer knows where a frame starts
  taken,       \* the number of the request the last exchange got a response
               \* to, or 0 when it failed
  failures     \* history: the exchanges that ended without a response

chanVars == <<phase, seqno, request, queue, unread, garbled, taken, failures>>

Phases == {"idle", "sending", "waiting"}
SeqNo  == Nat \ {0}

ChanTypeOK ==
  /\ phase \in Phases
  /\ seqno \in Nat
  /\ request \in Requests
  /\ queue \in Seq([no : SeqNo, req : Requests, whole : BOOLEAN])
  /\ unread \in Seq([no : SeqNo, resp : Responses])
  /\ garbled \in BOOLEAN
  /\ taken \in Nat
  /\ failures \in Nat
  /\ phase # "idle" => seqno # 0

ChanInit ==
  /\ phase = "idle"
  /\ seqno = 0
  /\ request \in Requests
  /\ queue = <<>>
  /\ unread = <<>>
  /\ garbled = FALSE
  /\ taken = 0
  /\ failures = 0

\* Mutation: requests that wait to be sent are kept on a stack.
DeliveredFirst(whole) ==
  <<[no |-> seqno, req |-> request, whole |-> whole]>> \o queue

Delivered(whole) ==
  Append(queue, [no |-> seqno, req |-> request, whole |-> whole])

Send(req) ==
  /\ phase = "idle"
  /\ phase' = "sending"
  /\ seqno' = seqno + 1
  /\ request' = req
  /\ UNCHANGED <<queue, unread, garbled, taken, failures>>

\* The request is written; whether a dying PLC still gets it is open.
Written ==
  /\ phase = "sending"
  /\ phase' = "waiting"
  /\ queue' \in {queue, Delivered(TRUE)}
  /\ UNCHANGED <<seqno, request, unread, garbled, taken, failures>>

Failed ==
  /\ phase' = "idle"
  /\ taken' = 0
  /\ failures' = failures + 1
  /\ UNCHANGED <<seqno, request>>

\* The write fails or is interrupted: the PLC has nothing of the request,
\* some of its bytes, or all of them.
SendFails ==
  /\ phase = "sending"
  /\ queue' \in {queue, Delivered(TRUE), Delivered(FALSE)}
  /\ Failed
  /\ UNCHANGED <<unread, garbled>>

\* Mutation: the response stays in the receive buffer.
TakeLeavesResponse ==
  /\ phase = "waiting"
  /\ ~garbled
  /\ unread # <<>>
  /\ phase' = "idle"
  /\ taken' = Head(unread).no
  /\ UNCHANGED <<seqno, request, queue, unread, garbled, failures>>

\* The oldest response is returned, whichever request it answers.
Take ==
  /\ phase = "waiting"
  /\ ~garbled
  /\ unread # <<>>
  /\ phase' = "idle"
  /\ unread' = Tail(unread)
  /\ taken' = Head(unread).no
  /\ UNCHANGED <<seqno, request, queue, garbled, failures>>

\* The read fails or is interrupted: before a response, after all of one,
\* or inside one, and then the rest of the stream cannot be framed any more.
ReceiveFails ==
  /\ phase = "waiting"
  /\ \/ UNCHANGED <<unread, garbled>>
     \/ unread # <<>> /\ unread' = Tail(unread) /\ UNCHANGED garbled
     \/ garbled' = TRUE /\ unread' = <<>>
  /\ Failed
  /\ UNCHANGED queue

\* On a garbled stream a read may also return bytes that are no response.
TakeGarbage ==
  /\ phase = "waiting"
  /\ garbled
  /\ phase' = "idle"
  /\ taken' = 0
  /\ UNCHANGED <<seqno, request, queue, unread, garbled, failures>>

\* Mutation: the request that was answered is looked at once more.
AnswerKeepsRequest(k, resp) ==
  /\ k \in 1 .. Len(queue)
  /\ queue' = SubSeq(queue, k, Len(queue))
  /\ unread' = IF garbled THEN unread
               ELSE Append(unread, [no |-> queue[1].no, resp |-> resp])
  /\ UNCHANGED <<phase, seqno, request, garbled, taken, failures>>

\* The PLC answers the oldest of the k requests it received together; a torn
\* one it takes with the bytes behind it.
Answer(k, resp) ==
  /\ k \in 1 .. Len(queue)
  /\ queue' = SubSeq(queue, k + 1, Len(queue))
  /\ unread' = IF garbled THEN unread
               ELSE Append(unread, [no |-> queue[1].no, resp |-> resp])
  /\ UNCHANGED <<phase, seqno, request, garbled, taken, failures>>

\* What there is of a torn request passes for none, or for one the PLC cannot
\* make out: it is dropped with the k - 1 requests received with it.
Overlook(k) ==
  /\ k \in 1 .. Len(queue)
  /\ ~queue[1].whole
  /\ queue' = SubSeq(queue, k + 1, Len(queue))
  /\ UNCHANGED <<phase, seqno, request, unread, garbled, taken, failures>>

ChanNext ==
  \/ \E req \in Requests : Send(req)
  \/ Written
  \/ SendFails
  \/ Take
  \/ ReceiveFails
  \/ TakeGarbage
  \/ \E k \in DOMAIN queue, resp \in Responses : Answer(k, resp)
  \/ \E k \in DOMAIN queue : Overlook(k)

ChanSpec == ChanInit /\ [][ChanNext]_chanVars

(***************************************************************************)
(* Responses carry no usable reference: pdu_ref is constant and never       *)
(* compared, so a response goes to whichever exchange reads next.  It is    *)
(* late by the failed exchanges at most, and never early.                   *)
(***************************************************************************)
StalenessBounded ==
  taken # 0 /\ phase = "idle" => taken <= seqno /\ seqno - taken <= failures

(***************************************************************************)
(* A connection that timed out is in step again as soon as one exchange     *)
(* gets its own response: nothing older is left, neither a request the PLC  *)
(* may still carry out nor a response a later exchange would take.          *)
(***************************************************************************)
OwnResponseMeansInStep ==
  taken # 0 /\ phase = "idle" /\ taken = seqno => queue = <<>> /\ unread = <<>>
=============================================================================
