----------------------------- MODULE S7Transport ----------------------------
(***************************************************************************)
(* TcpConnection after connect() (transport/tcp.mbt): one request/response *)
(* exchange at a time over the byte stream of a TCP socket, every write    *)
(* and every read raced against a timer, and a peer that answers late or   *)
(* not at all.                                                             *)
(*                                                                         *)
(* The stream towards the client is the concatenation of the frames in     *)
(* sent; a position in it is a frame number and an offset into that frame. *)
(* Consuming is byte by byte, so that every way TCP can segment a frame    *)
(* and every instant at which the timer can fire is a behaviour.           *)
(***************************************************************************)
EXTENDS S7Wire

CONSTANTS
  Frames,      \* the frames the PLC may answer with, as sequences of bytes
  MaxCalls     \* bound on the number of exchanges started

ASSUME FramesAssumption ==
  /\ Frames # {}
  /\ \A frame \in Frames : WellFramed(frame)
ASSUME MaxCallsAssumption == MaxCalls \in Nat

VARIABLES
  sock,        \* "open", or "closed" once disconnect() ran
  peer,        \* "up", or "gone" once the PLC closed or reset the connection
  plcIn,       \* the requests the PLC has received and not yet looked at, and
               \* whether the whole of each was written
  sent,        \* every frame the PLC sent, with the request it answers
  pos,         \* the next byte of the stream the client will consume
  call,        \* where the exchange in progress is
  from,        \* where the read_tpkt in progress started
  hdr,         \* the header bytes read_exactly(4) has received
  need,        \* the bytes the current read_exactly still waits for
  cur,         \* the number of the latest exchange
  outcome,     \* how the last exchange ended, and what it handed out
  abandoned,   \* history: the exchanges that ended without a frame
  cut          \* history: a read was ended from outside, inside a frame

vars == <<sock, peer, plcIn, sent, pos, call, from, hdr, need, cur,
          outcome, abandoned, cut>>

plcVars  == <<peer, plcIn, sent>>
readVars == <<pos, from, hdr, need>>

Position == [frame : Nat \ {0}, offset : Nat]
Numbered == [no : Nat \ {0}, resp : Frames]
Received == [no : Nat \ {0}, whole : BOOLEAN]
Endings  == {"ok", "transport_error", "timeout", "cancelled",
             "bad_tpkt", "bad_length", "connection_closed"}
Start    == [frame |-> 1, offset |-> 0]
Reading  == {"header", "body"}

TypeOK ==
  /\ sock \in {"open", "closed"}
  /\ peer \in {"up", "gone"}
  /\ plcIn \in Seq(Received)
  /\ sent \in Seq(Numbered)
  /\ pos \in Position
  /\ call \in {"idle", "write"} \cup Reading
  /\ from \in Position
  /\ hdr \in Seq(Byte)
  /\ need \in Nat
  /\ cur \in Nat
  /\ call # "idle" => cur # 0
  /\ outcome \in [kind : Endings \cup {"none"}, start : Position]
  /\ abandoned \in Nat
  /\ cut \in BOOLEAN

Init ==
  /\ sock = "open"
  /\ peer = "up"
  /\ plcIn = <<>>
  /\ sent = <<>>
  /\ pos = Start
  /\ call = "idle"
  /\ from = Start
  /\ hdr = <<>>
  /\ need = 0
  /\ cur = 0
  /\ outcome = [kind |-> "none", start |-> Start]
  /\ abandoned = 0
  /\ cut = FALSE

-----------------------------------------------------------------------------
(***************************************************************************)
(* The exchange ends.  Only the return value tells the caller how: the      *)
(* socket, the bytes already consumed and the request already delivered     *)
(* stay as they are.                                                        *)
(***************************************************************************)
Return(kind) ==
  /\ call' = "idle"
  /\ outcome' = [kind |-> kind, start |-> from]
  /\ abandoned' = IF kind = "ok" THEN abandoned ELSE abandoned + 1

\* A read that is ended from outside in the middle of a frame leaves its rest.
LeaveStream ==
  /\ cut' = (cut \/ pos.offset # 0)
  /\ UNCHANGED readVars

\* send(), or send_raw() followed by receive(): the request is written.
StartExchange ==
  /\ call = "idle"
  /\ cur < MaxCalls
  /\ cur' = cur + 1
  /\ call' = "write"
  /\ UNCHANGED <<sock, plcVars, readVars, outcome, abandoned, cut>>

\* Mutation: a write that was cut short is sent again from its start.
DeliverAgain(whole) ==
  LET request == [no |-> cur, whole |-> whole]
  IN plcIn' = IF peer = "up" THEN plcIn \o <<request, request>> ELSE plcIn

\* Mutation: what is written overtakes what was written before.
DeliverFirst(whole) ==
  plcIn' = IF peer = "up" THEN <<[no |-> cur, whole |-> whole]>> \o plcIn
           ELSE plcIn

\* The PLC has the request, or only its first bytes; a peer that is gone no
\* longer takes any.
Deliver(whole) ==
  plcIn' = IF peer = "up" THEN Append(plcIn, [no |-> cur, whole |-> whole])
           ELSE plcIn

\* A write that ends early: write_all loops over write_once, so that nothing
\* was sent, a part of the request, or all of it.
DeliverSome == UNCHANGED plcIn \/ \E whole \in BOOLEAN : Deliver(whole)

\* write_all() returned Ok: read_tpkt() asks for the four header bytes.
WriteDone ==
  /\ call = "write"
  /\ sock = "open"
  /\ Deliver(TRUE)
  /\ call' = "header"
  /\ from' = pos
  /\ hdr' = <<>>
  /\ need' = TpktLen
  /\ UNCHANGED <<sock, peer, sent, pos, cur, outcome, abandoned, cut>>

\* write_all() caught an error of the socket.
WriteFails ==
  /\ call = "write"
  /\ sock = "closed" \/ peer = "gone"
  /\ DeliverSome
  /\ Return("transport_error")
  /\ UNCHANGED <<sock, peer, sent, readVars, cur, cut>>

\* The timer or a cancellation ends the write; what was sent stays sent.
WriteInterrupted(why) ==
  /\ call = "write"
  /\ DeliverSome
  /\ Return(why)
  /\ UNCHANGED <<sock, peer, sent, readVars, cur, cut>>

-----------------------------------------------------------------------------
Available == pos.frame <= Len(sent)
NextByte  == sent[pos.frame].resp[pos.offset + 1]

Advance(p) ==
  IF p.offset + 1 = Len(sent[p.frame].resp)
  THEN [frame |-> p.frame + 1, offset |-> 0]
  ELSE [p EXCEPT !.offset = @ + 1]

\* read_exactly receives one more byte; a closed descriptor gives none.
ReadByte ==
  /\ call \in Reading
  /\ need > 0
  /\ sock = "open"
  /\ Available
  /\ need' = need - 1
  /\ hdr' = IF call = "header" THEN Append(hdr, NextByte) ELSE hdr
  /\ pos' = Advance(pos)
  /\ UNCHANGED <<sock, plcVars, call, from, cur, outcome, abandoned, cut>>

\* The header is complete: refuse it, or ask for the rest of the frame.
BadTpkt ==
  /\ call = "header"
  /\ need = 0
  /\ hdr[1] # TpktVersion
  /\ Return("bad_tpkt")
  /\ UNCHANGED <<sock, plcVars, readVars, cur, cut>>

BadLength ==
  /\ call = "header"
  /\ need = 0
  /\ hdr[1] = TpktVersion
  /\ TpktTotal(hdr) < TpktLen
  /\ Return("bad_length")
  /\ UNCHANGED <<sock, plcVars, readVars, cur, cut>>

\* Mutation: the lower bound of the length field is not checked.
HeaderUnchecked ==
  /\ call = "header"
  /\ need = 0
  /\ hdr[1] = TpktVersion
  /\ call' = "body"
  /\ need' = TpktTotal(hdr) - TpktLen
  /\ UNCHANGED <<sock, plcVars, pos, from, hdr, cur, outcome, abandoned, cut>>

\* Mutation: the length field is taken for the length of the rest.
HeaderCountedTwice ==
  /\ call = "header"
  /\ need = 0
  /\ hdr[1] = TpktVersion
  /\ TpktTotal(hdr) >= TpktLen
  /\ call' = "body"
  /\ need' = TpktTotal(hdr)
  /\ UNCHANGED <<sock, plcVars, pos, from, hdr, cur, outcome, abandoned, cut>>

HeaderDone ==
  /\ call = "header"
  /\ need = 0
  /\ hdr[1] = TpktVersion
  /\ TpktTotal(hdr) >= TpktLen
  /\ call' = "body"
  /\ need' = TpktTotal(hdr) - TpktLen
  /\ UNCHANGED <<sock, plcVars, pos, from, hdr, cur, outcome, abandoned, cut>>

\* The whole frame was received and is handed to the caller.
BodyDone ==
  /\ call = "body"
  /\ need = 0
  /\ Return("ok")
  /\ UNCHANGED <<sock, plcVars, readVars, cur, cut>>

\* read_tpkt() caught an error: end of stream, reset, closed descriptor.
ReadFails ==
  /\ call \in Reading
  /\ need > 0
  /\ sock = "closed" \/ peer = "gone"
  /\ Return("connection_closed")
  /\ LeaveStream
  /\ UNCHANGED <<sock, plcVars, cur>>

\* The timer or a cancellation wins, even over a frame just completed: what
\* was consumed is dropped with the local buffer of read_exactly.
ReadInterrupted(why) ==
  /\ call \in Reading
  /\ Return(why)
  /\ LeaveStream
  /\ UNCHANGED <<sock, plcVars, cur>>

\* Mutation: no timer runs while a request is written.
TimeoutOfReads == ReadInterrupted("timeout")

Timeout == WriteInterrupted("timeout") \/ ReadInterrupted("timeout")
Cancel  == WriteInterrupted("cancelled") \/ ReadInterrupted("cancelled")

\* disconnect(), which another task may call during an exchange.
Disconnect ==
  /\ sock = "open"
  /\ sock' = "closed"
  /\ UNCHANGED <<plcVars, readVars, call, cur, outcome, abandoned, cut>>

-----------------------------------------------------------------------------
(***************************************************************************)
(* The PLC: s7_sim.py takes one recv() as one request, so that k requests   *)
(* that arrived together get the answer to the first of them only.  A torn  *)
(* request it takes with the bytes behind it.                               *)
(***************************************************************************)
PlcAnswers(k, frame) ==
  /\ peer = "up"
  /\ k \in 1 .. Len(plcIn)
  /\ sent' = Append(sent, [no |-> plcIn[1].no, resp |-> frame])
  /\ plcIn' = SubSeq(plcIn, k + 1, Len(plcIn))
  /\ UNCHANGED <<sock, peer, readVars, call, cur, outcome, abandoned, cut>>

\* Or it makes nothing of the bytes and drops all k.
PlcOverlooks(k) ==
  /\ peer = "up"
  /\ k \in 1 .. Len(plcIn)
  /\ ~plcIn[1].whole
  /\ plcIn' = SubSeq(plcIn, k + 1, Len(plcIn))
  /\ UNCHANGED <<sock, peer, sent, readVars, call, cur, outcome, abandoned,
                 cut>>

PlcGone ==
  /\ peer = "up"
  /\ peer' = "gone"
  /\ UNCHANGED <<sock, plcIn, sent, readVars, call, cur, outcome, abandoned,
                 cut>>

Next ==
  \/ StartExchange
  \/ WriteDone
  \/ WriteFails
  \/ ReadByte
  \/ BadTpkt
  \/ BadLength
  \/ HeaderDone
  \/ BodyDone
  \/ ReadFails
  \/ Timeout
  \/ Cancel
  \/ Disconnect
  \/ \E k \in 1 .. MaxCalls, frame \in Frames : PlcAnswers(k, frame)
  \/ \E k \in 1 .. MaxCalls : PlcOverlooks(k)
  \/ PlcGone

\* The event loop runs the timers; nothing else is promised, neither that
\* the PLC answers nor that the network delivers.
Fairness == WF_vars(Timeout)

Spec == Init /\ [][Next]_vars /\ Fairness

-----------------------------------------------------------------------------
(***************************************************************************)
(* Unless a read was interrupted inside a frame, receive() hands out whole  *)
(* frames: every read starts at a frame, a header is never refused, and an  *)
(* Ok answer spans exactly one frame, however TCP segments the stream and   *)
(* however many calls timed out in between.                                 *)
(***************************************************************************)
WholeFrames ==
  ~cut => /\ call = "idle" => pos.offset = 0
          /\ outcome.kind \notin {"bad_tpkt", "bad_length"}
          /\ outcome.kind = "ok" =>
               /\ outcome.start.frame <= Len(sent)
               /\ outcome.start.offset = 0
               /\ call = "idle" => pos.frame = outcome.start.frame + 1

(***************************************************************************)
(* Every exchange returns, even if the PLC never answers or stops in the    *)
(* middle of a frame: write and read each run under a timer.                *)
(***************************************************************************)
EveryCallReturns == call # "idle" ~> call = "idle"

(***************************************************************************)
(* What the comment of read_tpkt and the README say of framing: every read  *)
(* starts at the first byte of a frame.                                     *)
(***************************************************************************)
ReadsStartAtFrames == call \in Reading => from.offset = 0

(***************************************************************************)
(* The byte stream implements the channel the client relies on: a frame     *)
(* counts as unread until the read that consumes it returns, and a read     *)
(* that ends inside a frame garbles the channel.                            *)
(***************************************************************************)
FirstUnread == IF call \in Reading THEN from.frame ELSE pos.frame

ChanPhase ==
  IF call = "idle" THEN "idle" ELSE
  IF call = "write" THEN "sending" ELSE "waiting"

ChanQueue ==
  [i \in DOMAIN plcIn |->
     [no |-> plcIn[i].no, req |-> "request", whole |-> plcIn[i].whole]]

ChanUnread == IF cut THEN <<>> ELSE SubSeq(sent, FirstUnread, Len(sent))

ChanTaken ==
  IF outcome.kind = "ok" /\ ~cut THEN sent[outcome.start.frame].no ELSE 0

Chan == INSTANCE S7Channel WITH
  Requests  <- {"request"},
  Responses <- Frames,
  phase     <- ChanPhase,
  seqno     <- cur,
  request   <- "request",
  queue     <- ChanQueue,
  unread    <- ChanUnread,
  garbled   <- cut,
  taken     <- ChanTaken,
  failures  <- abandoned

ImplementsChannel == Chan!ChanSpec

(***************************************************************************)
(* Nothing in a response is compared with the request (pdu_ref is constant),*)
(* so that it goes to whichever exchange reads next: it is late by the      *)
(* failed exchanges at most, and never early, torn requests included.       *)
(***************************************************************************)
StreamStaleness == Chan!StalenessBounded

(***************************************************************************)
(* A connection that timed out is in step again as soon as one exchange     *)
(* gets its own response: neither a request, whole or torn, nor a response  *)
(* is left on the way.                                                      *)
(***************************************************************************)
StreamInStep == Chan!OwnResponseMeansInStep
=============================================================================
