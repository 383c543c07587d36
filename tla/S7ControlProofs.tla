---------------------------- MODULE S7ControlProofs -------------------------
(***************************************************************************)
(* Proofs about S7Control, for every set of operations, stop codes and      *)
(* fragment lengths and any number of calls and turns of the switch: what   *)
(* status, control and list calls return is true, and no control request    *)
(* is carried out late.                                                     *)
(***************************************************************************)
EXTENDS S7Control, SequenceTheorems, TLAPS

NumberedRequest == [no : Nat, req : Request, whole : BOOLEAN]
NumberedResponse == [no : Nat, resp : Response]

ChannelType ==
  /\ phase \in {"idle", "sending", "waiting"}
  /\ seqno \in Nat
  /\ request \in Request
  /\ queue \in Seq(NumberedRequest)
  /\ unread \in Seq(NumberedResponse)

CallType ==
  /\ op \in Controls \cup {"status", "cpu_info", "cp_info"}
  /\ callNo \in Nat
  /\ pc \in {"idle", "first", "next"}
  /\ info \in Seq([data : Fragment, len : Int])
  /\ carriedOut \in Nat
  /\ confirmed \in Nat
  /\ stale \in BOOLEAN
  /\ mode \in Modes
  /\ mode \in modes
  /\ reading \in Fragment

\* The numbers of requests and responses grow along the channel.
NumbersGrow ==
  /\ \A i \in 1 .. Len(queue) :
       /\ queue[i].no <= seqno
       /\ phase = "sending" => queue[i].no < seqno
  /\ \A i \in 1 .. Len(unread) :
       /\ unread[i].no <= seqno
       /\ phase = "sending" => unread[i].no < seqno
  /\ \A i \in 1 .. Len(unread), j \in 1 .. Len(queue) :
       unread[i].no < queue[j].no
  /\ \A i, j \in 1 .. Len(queue) : i < j => queue[i].no < queue[j].no

\* Pending(req): a control request that is neither confirmed nor carried out.
Pending(req) ==
  req.kind \in Controls => confirmed < req.by /\ carriedOut < req.by

\* The control requests on their way are pending, in the order of the calls.
ControlsGrow ==
  /\ confirmed <= callNo
  /\ carriedOut <= callNo
  /\ request.by <= callNo
  /\ phase = "sending" => Pending(request)
  /\ \A i \in 1 .. Len(queue) :
       /\ queue[i].req.by <= request.by
       /\ phase = "sending" /\ request.kind \in Controls =>
            queue[i].req.by < request.by
       /\ Pending(queue[i].req)
  /\ \A i, j \in 1 .. Len(queue) :
       i < j /\ queue[j].req.kind \in Controls =>
         queue[i].req.by < queue[j].req.by

\* The request of the exchange the call is in.
Current == [kind |-> IF pc = "next" THEN "next" ELSE op, by |-> callNo]

CallAsked ==
  /\ pc = "idle" => phase = "idle"
  /\ pc # "idle" => outcome = "none"
  /\ pc = "next" => op = "cpu_info"
  /\ phase # "idle" => request = Current
  /\ \A i \in 1 .. Len(queue) : queue[i].no = seqno => queue[i].req = request
  /\ ~stale /\ pc = "idle" /\ outcome \notin {"none", "failed"} => Len(queue) = 0

\* Own response i is unread: it answers the request the call waits on.
Unread(i) == phase = "waiting" /\ unread[i].no = seqno

StatusKnown ==
  op = "status" /\ ~stale =>
    /\ outcome \in Modes => outcome \in modes
    /\ \A i \in 1 .. Len(unread) :
         Unread(i) /\ StatusResult(unread[i].resp) \in Modes =>
           StatusResult(unread[i].resp) \in modes

\* res is what a control call may return now.
Honest(res) ==
  /\ res = "ok" => carriedOut = callNo
  /\ res = "job_pending" => Target(op) \in modes /\ carriedOut # callNo

ControlKnown ==
  op \in Controls /\ ~stale =>
    /\ Honest(outcome)
    /\ \A i \in 1 .. Len(unread) :
         Unread(i) => Honest(ControlResult(op, unread[i].resp))

\* The fragments come in order, and the PLC goes on after the last one.
ListKnown ==
  op \in {"cpu_info", "cp_info"} /\ ~stale =>
    /\ \A i \in 1 .. Len(info) : info[i].data = [list |-> op, part |-> i]
    /\ outcome = "ok" => Length(info) >= Enough(op)
    /\ pc = "first" => Len(info) = 0
    /\ pc = "next" =>
         /\ Len(info) = 1
         /\ phase # "waiting" => Len(queue) = 0
         /\ phase # "waiting" \/ Len(queue) # 0 =>
              reading = [list |-> op, part |-> 1]
         /\ \A i \in 1 .. Len(queue) : queue[i].no = seqno
    /\ \A i \in 1 .. Len(unread) :
         Unread(i) /\ IsList(unread[i].resp) =>
           /\ unread[i].resp.data = reading
           /\ reading = [list |-> op, part |-> Len(info) + 1]

ControlType == ChannelType /\ CallType

ControlInv ==
  /\ ControlType
  /\ NumbersGrow
  /\ ControlsGrow
  /\ CallAsked
  /\ StatusKnown
  /\ ControlKnown
  /\ ListKnown

-----------------------------------------------------------------------------
(***************************************************************************)
(* Dropping the first k elements shifts the rest.                           *)
(***************************************************************************)
LEMMA DropFirst ==
  ASSUME NEW S, NEW s \in Seq(S), NEW k \in 1 .. Len(s)
  PROVE  /\ SubSeq(s, k + 1, Len(s)) \in Seq(S)
         /\ Len(SubSeq(s, k + 1, Len(s))) = Len(s) - k
         /\ \A i \in 1 .. Len(s) - k : SubSeq(s, k + 1, Len(s))[i] = s[k + i]
<1>1. Len(s) \in Nat /\ \A i \in k + 1 .. Len(s) : s[i] \in S
  BY LenProperties, ElementOfSeq
<1>2. /\ SubSeq(s, k + 1, Len(s)) \in Seq(S)
      /\ Len(SubSeq(s, k + 1, Len(s)))
           = IF k + 1 <= Len(s) THEN Len(s) - (k + 1) + 1 ELSE 0
      /\ \A i \in 1 .. Len(s) - (k + 1) + 1 :
           SubSeq(s, k + 1, Len(s))[i] = s[k + 1 + i - 1]
  BY <1>1, k + 1 \in Int, Len(s) \in Int, SubSeqProperties
<1>. QED
  BY <1>1, <1>2

(***************************************************************************)
(* What travels through the channel is numbered requests and responses.     *)
(***************************************************************************)
LEMMA Entries ==
  ASSUME ChannelType
  PROVE  /\ seqno \in Nat /\ Len(queue) \in Nat /\ Len(unread) \in Nat
         /\ \A i \in 1 .. Len(queue) : /\ queue[i].no \in Nat
                                       /\ queue[i].req \in Request
                                       /\ queue[i].req.by \in Nat
         /\ \A i \in 1 .. Len(unread) : /\ unread[i].no \in Nat
                                        /\ unread[i].resp \in Response
         /\ queue # <<>> => 1 \in 1 .. Len(queue)
<1>1. /\ queue \in Seq(NumberedRequest) /\ Len(queue) \in Nat
      /\ unread \in Seq(NumberedResponse) /\ Len(unread) \in Nat
  BY LenProperties DEF ChannelType
<1>2. \A i \in 1 .. Len(queue) : queue[i] \in NumberedRequest
  BY <1>1, ElementOfSeq
<1>3. \A i \in 1 .. Len(unread) : unread[i] \in NumberedResponse
  BY <1>1, ElementOfSeq
<1>4. queue # <<>> => 1 \in 1 .. Len(queue)
  BY <1>1, EmptySeq
<1>. QED
  BY <1>1, <1>2, <1>3, <1>4 DEF ChannelType, NumberedRequest, NumberedResponse, Request

(***************************************************************************)
(* How requests and responses move: a request that is sent goes to the end  *)
(* of the queue or is lost.                                                 *)
(***************************************************************************)
LEMMA Delivery ==
  ASSUME ChannelType, queue' \in {queue, Delivered(TRUE), Delivered(FALSE)}
  PROVE  /\ queue' \in Seq(NumberedRequest)
         /\ Len(queue') \in {Len(queue), Len(queue) + 1}
         /\ \A j \in 1 .. Len(queue') :
              \/ j \in 1 .. Len(queue) /\ queue'[j] = queue[j]
              \/ /\ j = Len(queue) + 1
                 /\ queue'[j].no = seqno /\ queue'[j].req = request
                 /\ queue' \in {queue, Delivered(TRUE)} => queue'[j].whole
<1>1. queue \in Seq(NumberedRequest) /\ Len(queue) \in Nat
  BY LenProperties DEF ChannelType
<1>2. CASE queue' = queue
  BY <1>1, <1>2
<1>3. ASSUME NEW whole \in BOOLEAN, queue' = Delivered(whole)
      PROVE  /\ queue' \in Seq(NumberedRequest)
             /\ Len(queue') = Len(queue) + 1
             /\ \A j \in 1 .. Len(queue') :
                  \/ j \in 1 .. Len(queue) /\ queue'[j] = queue[j]
                  \/ /\ j = Len(queue) + 1
                     /\ queue'[j].no = seqno /\ queue'[j].req = request
                     /\ queue'[j].whole = whole
  <2>. DEFINE entry == [no |-> seqno, req |-> request, whole |-> whole]
  <2>1. entry \in NumberedRequest
    BY DEF ChannelType, NumberedRequest
  <2>2. queue' = Append(queue, entry)
    BY <1>3 DEF Delivered
  <2>3. entry.no = seqno /\ entry.req = request /\ entry.whole = whole
    OBVIOUS
  <2>. HIDE DEF entry
  <2>. QED  BY <1>1, <2>1, <2>2, <2>3, AppendProperties
<1>4. ASSUME queue' \in {queue, Delivered(TRUE)}, queue' = Delivered(FALSE),
             queue' # queue
      PROVE  FALSE
  <2>1. queue'[Len(queue) + 1].whole = TRUE /\ queue'[Len(queue) + 1].whole = FALSE
    <3>1. Len(queue) + 1 \in 1 .. Len(queue) + 1 /\ Len(queue) + 1 \notin 1 .. Len(queue)
      BY <1>1
    <3>2. queue' = Delivered(TRUE)
      BY <1>4
    <3>. QED  BY <1>3, <1>4, <3>1, <3>2
  <2>. QED  BY <2>1
<1>. QED
  BY <1>1, <1>2, <1>3, <1>4

(***************************************************************************)
(* What is left of the responses was there before.                          *)
(***************************************************************************)
LEMMA Receipt ==
  ASSUME ChannelType,
         \/ unread' = unread
         \/ unread # <<>> /\ unread' = Tail(unread)
         \/ unread' = <<>>
  PROVE  /\ unread' \in Seq(NumberedResponse)
         /\ Len(unread') <= Len(unread)
         /\ \A i \in 1 .. Len(unread') :
              \E j \in 1 .. Len(unread) : unread'[i] = unread[j]
<1>1. unread \in Seq(NumberedResponse) /\ Len(unread) \in Nat
  BY LenProperties DEF ChannelType
<1>2. CASE unread' = unread
  BY <1>1, <1>2
<1>3. CASE unread # <<>> /\ unread' = Tail(unread)
  BY <1>1, <1>3, HeadTailProperties
<1>4. CASE unread' = <<>>
  BY <1>1, <1>4, EmptySeq
<1>. QED
  BY <1>2, <1>3, <1>4

(***************************************************************************)
(* The response that is taken is the oldest one.                            *)
(***************************************************************************)
LEMMA Taking ==
  ASSUME ChannelType, Take
  PROVE  /\ 1 \in 1 .. Len(unread)
         /\ Head(unread) = unread[1]
         /\ unread[1] \in NumberedResponse
         /\ Len(unread') = Len(unread) - 1
<1>1. unread # <<>> /\ unread' = Tail(unread)
  BY DEF Take
<1>2. unread \in Seq(NumberedResponse)
  BY DEF ChannelType
<1>. QED
  BY <1>1, <1>2, HeadTailProperties, EmptySeq, LenProperties

Handles(k, resp) == Answer(k, resp) \/ Overlook(k)

(***************************************************************************)
(* The PLC is done with its k oldest requests: it answers the first of them *)
(* or makes nothing of it.  That drops all k and adds at most one response. *)
(***************************************************************************)
LEMMA Answering ==
  ASSUME ChannelType, NEW k, NEW resp \in Response, Handles(k, resp)
  PROVE  /\ UNCHANGED <<phase, seqno, request, garbled, taken, failures>>
         /\ 1 \in 1 .. Len(queue) /\ k \in 1 .. Len(queue)
         /\ queue[1] \in NumberedRequest
         /\ queue' \in Seq(NumberedRequest)
         /\ Len(queue') = Len(queue) - k
         /\ \A j \in 1 .. Len(queue') :
              k + j \in 1 .. Len(queue) /\ queue'[j] = queue[k + j]
         /\ unread' \in Seq(NumberedResponse)
         /\ Len(unread') \in {Len(unread), Len(unread) + 1}
         /\ \A i \in 1 .. Len(unread') :
              \/ i \in 1 .. Len(unread) /\ unread'[i] = unread[i]
              \/ unread'[i] = [no |-> queue[1].no, resp |-> resp]
<1>1. /\ queue \in Seq(NumberedRequest) /\ Len(queue) \in Nat
      /\ unread \in Seq(NumberedResponse) /\ Len(unread) \in Nat
  BY LenProperties DEF ChannelType
<1>2. k \in 1 .. Len(queue) /\ 1 \in 1 .. Len(queue)
  BY <1>1 DEF Handles, Answer, Overlook
<1>3. queue[1] \in NumberedRequest
  BY <1>1, <1>2, ElementOfSeq
<1>4. /\ queue' \in Seq(NumberedRequest)
      /\ Len(queue') = Len(queue) - k
      /\ \A j \in 1 .. Len(queue) - k : queue'[j] = queue[k + j]
  BY <1>1, <1>2, DropFirst DEF Handles, Answer, Overlook
<1>5. /\ unread' \in Seq(NumberedResponse)
      /\ Len(unread') \in {Len(unread), Len(unread) + 1}
      /\ \A i \in 1 .. Len(unread') :
           \/ i \in 1 .. Len(unread) /\ unread'[i] = unread[i]
           \/ unread'[i] = [no |-> queue[1].no, resp |-> resp]
  <2>1. [no |-> queue[1].no, resp |-> resp] \in NumberedResponse
    BY <1>3 DEF NumberedRequest, NumberedResponse
  <2>2. CASE garbled \/ Overlook(k)
    BY <1>1, <2>2 DEF Handles, Answer, Overlook
  <2>3. CASE ~garbled /\ Answer(k, resp)
    <3>1. unread' = Append(unread, [no |-> queue[1].no, resp |-> resp])
      BY <2>3 DEF Answer
    <3>. QED  BY <1>1, <2>1, <3>1, AppendProperties
  <2>. QED  BY <2>2, <2>3 DEF Handles
<1>6. \A j \in 1 .. Len(queue') : k + j \in 1 .. Len(queue)
  BY <1>1, <1>2, <1>4
<1>7. UNCHANGED <<phase, seqno, request, garbled, taken, failures>>
  BY DEF Handles, Answer, Overlook
<1>. QED
  BY <1>1, <1>2, <1>3, <1>4, <1>5, <1>6, <1>7

\* A step of the channel that the PLC takes.
PlcAnswers == \E k \in DOMAIN queue, resp \in Response : Handles(k, resp)

(***************************************************************************)
(* The responses of the PLC are responses of the channel.                   *)
(***************************************************************************)
LEMMA PlcResponses ==
  /\ \A kind : \A sub \in Nat : CtrlResp(FunctionCode(kind), sub) \in Response
  /\ \A code \in 0 .. 255 : StatusResp(code) \in Response
  /\ \A data \in Fragment : \A len \in Nat, code \in 0 .. 255 :
       ListResp(data, len, code) \in Response
  /\ Refusal \in Response
<1>1. NoData \in Fragment
  BY DEF NoData, Fragment
<1>. QED
  BY <1>1 DEF CtrlResp, FunctionCode, StatusResp, ListResp, Refusal, Response

\* The ways the PLC has to be done with k requests.
PlcHandles(k) ==
  \/ PlcControls(k)
  \/ PlcTellsStatus(k)
  \/ PlcSendsList(k)
  \/ PlcRefuses(k)
  \/ PlcOverlooks(k)

(***************************************************************************)
(* Whatever the PLC does with a request is a step of the channel.           *)
(***************************************************************************)
LEMMA PlcHandler ==
  ASSUME ControlType, NEW k, PlcHandles(k)
  PROVE  (\E resp \in Response : Handles(k, resp)) /\ reading' \in Fragment
<1>1. CASE PlcControls(k)
  <2>1. PICK sub \in Nat : Answer(k, CtrlResp(FunctionCode(queue[1].req.kind), sub))
    <3>1. (IF mode # Target(queue[1].req.kind) THEN 0
           ELSE AlreadyCode(queue[1].req.kind)) \in Nat
      BY DEF AlreadyCode
    <3>. QED  BY <1>1, <3>1 DEF PlcControls
  <2>2. CtrlResp(FunctionCode(queue[1].req.kind), sub) \in Response
    BY PlcResponses
  <2>. QED
    BY <1>1, <2>1, <2>2 DEF PlcControls, Handles, ControlType, CallType
<1>2. CASE PlcTellsStatus(k)
  <2>1. PICK code \in IF mode = "run" THEN {RunCode} ELSE StopCodes :
          Answer(k, StatusResp(code))
    BY <1>2 DEF PlcTellsStatus
  <2>2. StatusResp(code) \in Response
    BY StopCodesAssumption, PlcResponses DEF RunCode
  <2>. QED
    BY <1>2, <2>1, <2>2 DEF PlcTellsStatus, Handles, plcVars, ControlType, CallType
<1>3. CASE PlcSendsList(k)
  <2>1. reading' \in Fragment
    BY <1>3 DEF PlcSendsList, Fragment, ControlType, CallType
  <2>2. PICK len \in FragmentLens, code \in PayloadBytes :
          Answer(k, ListResp(reading', len, code))
    BY <1>3 DEF PlcSendsList
  <2>3. ListResp(reading', len, code) \in Response
    BY <2>1, FragmentLensAssumption, PlcResponses DEF PayloadBytes, RunCode
  <2>. QED  BY <2>1, <2>2, <2>3 DEF Handles
<1>4. CASE PlcRefuses(k) \/ PlcOverlooks(k)
  BY <1>4, PlcResponses
     DEF PlcRefuses, PlcOverlooks, Handles, plcVars, ControlType, CallType
<1>. QED
  BY <1>1, <1>2, <1>3, <1>4 DEF PlcHandles

(***************************************************************************)
(* The same of any step of the PLC.                                         *)
(***************************************************************************)
LEMMA PlcStep ==
  ASSUME ControlType, Plc
  PROVE  PlcAnswers /\ reading' \in Fragment
BY PlcHandler DEF Plc, PlcHandles, PlcAnswers

-----------------------------------------------------------------------------
(***************************************************************************)
(* Every step keeps the types.                                              *)
(***************************************************************************)
LEMMA ChannelTypeStep ==
  ASSUME ControlType, [Next]_vars
  PROVE  ChannelType'
<1>. USE DEF ControlType
<1>1. CASE \E kind \in Ops : StartCall(kind)
  <2>1. PICK kind \in Ops : StartCall(kind)
    BY <1>1
  <2>2. callNo' \in Nat
    BY <2>1 DEF StartCall, CallType
  <2>3. [kind |-> kind, by |-> callNo'] \in Request
    BY <2>2, OpsAssumption DEF Request
  <2>. QED  BY <2>1, <2>3 DEF StartCall, Send, ChannelType
<1>2. CASE SendNext
  <2>1. [kind |-> "next", by |-> callNo] \in Request
    BY DEF Request, CallType
  <2>. QED  BY <1>2, <2>1 DEF SendNext, Send, ChannelType
<1>3. CASE RequestWritten
  <2>1. queue' \in Seq(NumberedRequest)
    BY <1>3, Delivery DEF RequestWritten, Written
  <2>. QED  BY <1>3, <2>1 DEF RequestWritten, Written, ChannelType
<1>4. CASE ExchangeFails /\ SendFails
  <2>1. queue' \in Seq(NumberedRequest)
    BY <1>4, Delivery DEF SendFails
  <2>. QED  BY <1>4, <2>1 DEF SendFails, Failed, ChannelType
<1>5. CASE ExchangeFails /\ ReceiveFails
  <2>1. unread' \in Seq(NumberedResponse)
    BY <1>5, Receipt DEF ReceiveFails
  <2>2. UNCHANGED <<queue, seqno, request>> /\ phase' = "idle"
    BY <1>5 DEF ReceiveFails, Failed
  <2>. QED  BY <2>1, <2>2 DEF ChannelType
<1>6. CASE Take
  <2>1. unread' \in Seq(NumberedResponse)
    BY <1>6, Receipt DEF Take
  <2>. QED  BY <1>6, <2>1 DEF Take, ChannelType
<1>7. CASE Misread
  BY <1>7 DEF Misread, TakeGarbage, ChannelType
<1>8. CASE Plc
  <2>1. PICK k \in DOMAIN queue, resp \in Response : Handles(k, resp)
    BY <1>8, PlcStep DEF PlcAnswers
  <2>. QED  BY <2>1, Answering DEF ChannelType
<1>9. CASE SwitchTurned \/ UNCHANGED vars
  BY <1>9 DEF SwitchTurned, vars, ChannelType, channel
<1>. QED
  BY <1>1, <1>2, <1>3, <1>4, <1>5, <1>6, <1>7, <1>8, <1>9
     DEF Next, Client, ExchangeFails, ControlReturns, StatusReturns, InfoReturns,
         FragmentShort, Received

(***************************************************************************)
(* What a fragment adds to the list (parse_szl_first).                      *)
(***************************************************************************)
LEMMA Collecting ==
  ASSUME ControlType, Take
  PROVE  LET resp == Head(unread).resp
         IN /\ Collected(resp) \in Seq([data : Fragment, len : Int])
            /\ Len(Collected(resp)) = Len(info) + 1
            /\ \A i \in 1 .. Len(info) : Collected(resp)[i] = info[i]
            /\ Collected(resp)[Len(info) + 1].data = resp.data
<1>1. Head(unread).resp \in Response
  BY Taking DEF ControlType, NumberedResponse
<1>2. info \in Seq([data : Fragment, len : Int])
  BY DEF ControlType, CallType
<1>3. [data |-> Head(unread).resp.data, len |-> Head(unread).resp.len - 41]
        \in [data : Fragment, len : Int]
  BY <1>1 DEF Response
<1>. QED
  BY <1>2, <1>3, AppendProperties DEF Collected

(***************************************************************************)
(* A call keeps its types, and the mode of the PLC is among those of the    *)
(* call.                                                                    *)
(***************************************************************************)
LEMMA CallTypeStep ==
  ASSUME ControlType, [Next]_vars
  PROVE  CallType'
<1>. USE DEF ControlType
<1>1. CASE \E kind \in Ops : StartCall(kind)
  <2>1. PICK kind \in Ops : StartCall(kind)
    BY <1>1
  <2>2. kind \in Controls \cup {"status", "cpu_info", "cp_info"}
    BY OpsAssumption
  <2>3. info' \in Seq([data : Fragment, len : Int])
    BY <2>1, EmptySeq DEF StartCall
  <2>4. /\ op' = kind /\ callNo' \in Nat /\ pc' = "first" /\ stale' = FALSE
        /\ mode' \in Modes /\ mode' \in modes'
        /\ UNCHANGED <<reading, carriedOut, confirmed>>
    BY <2>1 DEF StartCall, CallType, plcVars
  <2>. QED  BY <2>2, <2>3, <2>4 DEF CallType
<1>2. CASE RequestWritten \/ ExchangeFails \/ SendNext
  <2>1. /\ UNCHANGED <<op, callNo, info, plcVars, histVars>>
        /\ pc' \in {pc, "idle"}
    BY <1>2 DEF RequestWritten, ExchangeFails, SendNext, Return, callVars
  <2>. QED  BY <2>1 DEF CallType, plcVars, histVars
<1>3. CASE Received /\ UNCHANGED <<op, callNo>> /\ pc' \in {"idle", "next"}
           /\ info' \in {info, Collected(Head(unread).resp)}
  <2>1. info' \in Seq([data : Fragment, len : Int])
    BY <1>3, Collecting DEF Received, CallType
  <2>2. stale' \in BOOLEAN /\ confirmed' \in Nat
    BY <1>3 DEF Received, CallType
  <2>. QED  BY <1>3, <2>1, <2>2 DEF Received, CallType, plcVars
<1>4. CASE Misread
  <2>1. info' \in Seq([data : Fragment, len : Int])
    <3>1. [data |-> NoData, len |-> 1] \in [data : Fragment, len : Int]
      BY DEF NoData, Fragment
    <3>2. <<[data |-> NoData, len |-> 1]>> \in Seq([data : Fragment, len : Int])
      BY <3>1
    <3>3. info' \in {info, <<[data |-> NoData, len |-> 1]>>}
      BY <1>4 DEF Misread
    <3>. QED  BY <3>2, <3>3 DEF CallType
  <2>2. UNCHANGED <<op, callNo>> /\ pc' \in {"idle", "next"} /\ stale' = TRUE
    BY <1>4 DEF Misread, Return
  <2>. QED  BY <1>4, <2>1, <2>2 DEF Misread, CallType, plcVars
<1>5. CASE Plc
  <2>1. PICK k \in DOMAIN queue : PlcHandles(k)
    BY <1>5 DEF Plc, PlcHandles
  <2>2. reading' \in Fragment
    BY <1>5, PlcStep
  <2>3. CASE PlcControls(k)
    <3>1. queue[1].req.by \in Nat
      BY <2>3, Entries DEF PlcControls
    <3>2. mode' \in Modes /\ mode' \in modes' /\ carriedOut' \in Nat
      BY <2>3, <3>1 DEF PlcControls, ToMode, CallType, Target, Modes
    <3>. QED  BY <2>2, <2>3, <3>2 DEF PlcControls, CallType, callVars
  <2>4. CASE PlcTellsStatus(k) \/ PlcSendsList(k) \/ PlcRefuses(k) \/ PlcOverlooks(k)
    BY <2>2, <2>4 DEF PlcTellsStatus, PlcSendsList, PlcRefuses, PlcOverlooks, CallType,
       callVars, plcVars, histVars
  <2>. QED  BY <2>1, <2>3, <2>4 DEF PlcHandles
<1>6. CASE SwitchTurned
  BY <1>6 DEF SwitchTurned, ToMode, CallType, callVars
<1>7. CASE UNCHANGED vars
  BY <1>7 DEF vars, CallType, callVars, plcVars, histVars
<1>8. ControlReturns \/ StatusReturns \/ InfoReturns \/ FragmentShort =>
        /\ Received /\ UNCHANGED <<op, callNo>> /\ pc' \in {"idle", "next"}
        /\ info' \in {info, Collected(Head(unread).resp)}
  BY DEF ControlReturns, StatusReturns, InfoReturns, FragmentShort, Return
<1>. QED
  BY <1>1, <1>2, <1>3, <1>4, <1>5, <1>6, <1>7, <1>8 DEF Next, Client

(***************************************************************************)
(* All of the types, step by step.                                          *)
(***************************************************************************)
LEMMA ControlTypeStep ==
  ASSUME ControlType, [Next]_vars
  PROVE  ControlType'
BY ChannelTypeStep, CallTypeStep DEF ControlType

-----------------------------------------------------------------------------
(***************************************************************************)
(* Numbers keep growing along the channel.                                  *)
(***************************************************************************)
LEMMA NumbersGrowStep ==
  ASSUME ControlType, NumbersGrow, [Next]_vars
  PROVE  NumbersGrow'
<1>c. ChannelType
  BY DEF ControlType
<1>0. /\ seqno \in Nat /\ Len(queue) \in Nat /\ Len(unread) \in Nat
      /\ \A i \in 1 .. Len(queue) : queue[i].no \in Nat
      /\ \A i \in 1 .. Len(unread) : unread[i].no \in Nat
  BY <1>c, Entries
<1>1. CASE UNCHANGED channel
  BY <1>1 DEF channel, NumbersGrow
<1>2. ASSUME NEW req, Send(req)
      PROVE  NumbersGrow'
  BY <1>0, <1>2 DEF Send, NumbersGrow
<1>3. CASE Written \/ SendFails
  <2>1. phase = "sending" /\ phase' # "sending" /\ UNCHANGED <<seqno, unread>>
    BY <1>3 DEF Written, SendFails, Failed
  <2>2. \A j \in 1 .. Len(queue') :
          \/ j \in 1 .. Len(queue) /\ queue'[j] = queue[j]
          \/ j = Len(queue) + 1 /\ queue'[j].no = seqno
    BY <1>3, <1>c, Delivery DEF Written, SendFails
  <2>3. Len(queue') \in {Len(queue), Len(queue) + 1}
    BY <1>3, <1>c, Delivery DEF Written, SendFails
  <2>4. \A j \in 1 .. Len(queue') :
          /\ queue'[j].no <= seqno
          /\ \A i \in 1 .. Len(unread) : unread[i].no < queue'[j].no
    <3>1. \A j \in 1 .. Len(queue') :
            \/ j \in 1 .. Len(queue) /\ queue'[j].no = queue[j].no
            \/ queue'[j].no = seqno
      BY <2>2
    <3>. QED  BY <1>0, <2>1, <3>1 DEF NumbersGrow
  <2>5. ASSUME NEW i \in 1 .. Len(queue'), NEW j \in 1 .. Len(queue'), i < j
        PROVE  queue'[i].no < queue'[j].no
    <3>1. i \in 1 .. Len(queue) /\ queue'[i].no = queue[i].no
      <4>1. i \in 1 .. Len(queue) /\ i # Len(queue) + 1
        BY <1>0, <2>3, <2>5
      <4>2. queue'[i] = queue[i]
        BY <2>2, <4>1
      <4>. QED  BY <4>1, <4>2
    <3>2. CASE j \in 1 .. Len(queue) /\ queue'[j] = queue[j]
      BY <2>5, <3>1, <3>2 DEF NumbersGrow
    <3>3. CASE queue'[j].no = seqno
      BY <2>1, <3>1, <3>3 DEF NumbersGrow
    <3>. QED  BY <2>2, <3>2, <3>3
  <2>. QED  BY <2>1, <2>4, <2>5 DEF NumbersGrow
<1>4. CASE Take \/ ReceiveFails
  <2>1. phase' = "idle" /\ UNCHANGED <<seqno, queue>>
    BY <1>4 DEF Take, ReceiveFails, Failed
  <2>2. \A i \in 1 .. Len(unread') : \E j \in 1 .. Len(unread) : unread'[i] = unread[j]
    BY <1>4, <1>c, Receipt DEF Take, ReceiveFails
  <2>. QED  BY <1>0, <2>1, <2>2 DEF NumbersGrow
<1>5. CASE TakeGarbage
  BY <1>5 DEF TakeGarbage, NumbersGrow
<1>6. CASE PlcAnswers
  <2>1. PICK k \in DOMAIN queue, resp \in Response : Handles(k, resp)
    BY <1>6 DEF PlcAnswers
  <2>2. UNCHANGED <<phase, seqno>>
    BY <1>c, <2>1, Answering
  <2>3. /\ 1 \in 1 .. Len(queue) /\ k \in 1 .. Len(queue)
        /\ Len(queue') = Len(queue) - k
        /\ \A j \in 1 .. Len(queue') :
             k + j \in 1 .. Len(queue) /\ queue'[j] = queue[k + j]
    BY <1>c, <2>1, Answering
  <2>4. \A i \in 1 .. Len(unread') :
          \/ i \in 1 .. Len(unread) /\ unread'[i] = unread[i]
          \/ unread'[i] = [no |-> queue[1].no, resp |-> resp]
    BY <1>c, <2>1, Answering
  <2>5. \A i \in 1 .. Len(unread') :
          \/ i \in 1 .. Len(unread) /\ unread'[i].no = unread[i].no
          \/ unread'[i].no = queue[1].no
    BY <2>4
  <2>6. \A j \in 1 .. Len(queue') :
          k + j > 1 /\ k + j \in 1 .. Len(queue) /\ queue'[j].no = queue[k + j].no
    BY <1>0, <2>3
  <2>7. \A i \in 1 .. Len(unread') : /\ unread'[i].no <= seqno
                                     /\ phase = "sending" => unread'[i].no < seqno
    BY <2>3, <2>5 DEF NumbersGrow
  <2>8. \A i \in 1 .. Len(unread'), j \in 1 .. Len(queue') :
          unread'[i].no < queue'[j].no
    BY <2>3, <2>5, <2>6 DEF NumbersGrow
  <2>9. \A j \in 1 .. Len(queue') : /\ queue'[j].no <= seqno
                                    /\ phase = "sending" => queue'[j].no < seqno
    BY <2>6 DEF NumbersGrow
  <2>10. \A i, j \in 1 .. Len(queue') : i < j => queue'[i].no < queue'[j].no
    <3>1. \A i, j \in 1 .. Len(queue') : i < j => k + i < k + j
      BY <1>0, <2>3
    <3>. QED  BY <2>6, <3>1 DEF NumbersGrow
  <2>. QED  BY <2>2, <2>7, <2>8, <2>9, <2>10 DEF NumbersGrow
<1>7. \/ UNCHANGED channel \/ \E req : Send(req) \/ Written \/ SendFails
      \/ Take \/ ReceiveFails \/ TakeGarbage \/ PlcAnswers
  BY PlcStep DEF Next, Client, StartCall, RequestWritten, ExchangeFails,
     ControlReturns, StatusReturns, InfoReturns, FragmentShort, Received, SendNext,
     Misread, SwitchTurned, vars
<1>. QED
  BY <1>1, <1>2, <1>3, <1>4, <1>5, <1>6, <1>7

(***************************************************************************)
(* The control requests on their way stay pending, in the order of calls.   *)
(***************************************************************************)
LEMMA ControlsGrowStep ==
  ASSUME ControlType, NumbersGrow, ControlsGrow, CallAsked, [Next]_vars
  PROVE  ControlsGrow'
<1>c. /\ ChannelType /\ callNo \in Nat /\ request.by \in Nat
      /\ confirmed \in Nat /\ carriedOut \in Nat
  BY DEF ControlType, ChannelType, CallType, Request
<1>0. /\ Len(queue) \in Nat /\ seqno \in Nat
      /\ \A i \in 1 .. Len(queue) : queue[i].req.by \in Nat /\ queue[i].no \in Nat
  BY <1>c, Entries
<1>1. CASE \E kind \in Ops : StartCall(kind)
  <2>1. /\ UNCHANGED <<queue, confirmed, carriedOut>> /\ callNo' = callNo + 1
        /\ request'.by = callNo + 1
    BY <1>1 DEF StartCall, Send
  <2>2. \A i \in 1 .. Len(queue) : queue[i].req.by < callNo + 1
    BY <1>c, <1>0 DEF ControlsGrow
  <2>3. confirmed < callNo + 1 /\ carriedOut < callNo + 1
    BY <1>c DEF ControlsGrow
  <2>4. Pending(request)' /\ \A i \in 1 .. Len(queue') : Pending(queue[i].req)'
    BY <2>1, <2>3 DEF ControlsGrow, Pending
  <2>5. \A i \in 1 .. Len(queue') :
          /\ queue'[i].req.by < request'.by
          /\ queue'[i].req.by <= request'.by
    BY <1>c, <1>0, <2>1, <2>2
  <2>6. confirmed' <= callNo' /\ carriedOut' <= callNo' /\ request'.by <= callNo'
    BY <1>c, <2>1, <2>3
  <2>7. \A i, j \in 1 .. Len(queue') :
          i < j /\ queue'[j].req.kind \in Controls =>
            queue'[i].req.by < queue'[j].req.by
    BY <2>1 DEF ControlsGrow
  <2>. QED  BY <2>4, <2>5, <2>6, <2>7 DEF ControlsGrow
<1>2. CASE SendNext
  <2>1. /\ UNCHANGED <<queue, confirmed, carriedOut, callNo>>
        /\ request'.by = callNo /\ request'.kind \notin Controls
    BY <1>2 DEF SendNext, Send, callVars, histVars, Controls
  <2>. QED  BY <1>c, <1>0, <2>1 DEF ControlsGrow, Pending
<1>3. CASE RequestWritten \/ (ExchangeFails /\ SendFails)
  <2>1. /\ UNCHANGED <<request, callNo, confirmed, carriedOut>>
        /\ phase = "sending" /\ phase' # "sending"
    BY <1>3 DEF RequestWritten, ExchangeFails, Written, SendFails, Failed, Return,
       callVars, histVars
  <2>2. \A j \in 1 .. Len(queue') :
          \/ j \in 1 .. Len(queue) /\ queue'[j] = queue[j]
          \/ j = Len(queue) + 1 /\ queue'[j].req = request
    <3>1. \A j \in 1 .. Len(queue') :
            \/ j \in 1 .. Len(queue) /\ queue'[j] = queue[j]
            \/ j = Len(queue) + 1 /\ queue'[j].no = seqno /\ queue'[j].req = request
      BY <1>3, <1>c, Delivery DEF RequestWritten, Written, SendFails
    <3>. QED  BY <3>1
  <2>3. Len(queue') \in {Len(queue), Len(queue) + 1}
    BY <1>3, <1>c, Delivery DEF RequestWritten, Written, SendFails
  <2>4. ASSUME NEW j \in 1 .. Len(queue')
        PROVE  queue'[j].req.by <= request.by /\ Pending(queue'[j].req)
    <3>1. CASE j \in 1 .. Len(queue) /\ queue'[j] = queue[j]
      BY <3>1 DEF ControlsGrow
    <3>2. CASE queue'[j].req = request
      BY <1>c, <2>1, <3>2 DEF ControlsGrow
    <3>. QED  BY <2>2, <3>1, <3>2
  <2>5. ASSUME NEW i \in 1 .. Len(queue'), NEW j \in 1 .. Len(queue'), i < j,
               queue'[j].req.kind \in Controls
        PROVE  queue'[i].req.by < queue'[j].req.by
    <3>1. i \in 1 .. Len(queue) /\ queue'[i] = queue[i]
      BY <1>0, <2>2, <2>3, <2>5
    <3>2. CASE j \in 1 .. Len(queue) /\ queue'[j] = queue[j]
      BY <2>5, <3>1, <3>2 DEF ControlsGrow
    <3>3. CASE queue'[j].req = request
      BY <2>1, <2>5, <3>1, <3>3 DEF ControlsGrow
    <3>. QED  BY <2>2, <3>2, <3>3
  <2>6. \A j \in 1 .. Len(queue') : Pending(queue[j].req)'
    BY <2>1, <2>4 DEF Pending
  <2>7. confirmed <= callNo /\ carriedOut <= callNo /\ request.by <= callNo
    BY DEF ControlsGrow
  <2>. QED  BY <2>1, <2>4, <2>5, <2>6, <2>7 DEF ControlsGrow
<1>4. CASE Received /\ UNCHANGED callNo
  <2>1. /\ UNCHANGED <<queue, request, callNo, carriedOut>> /\ phase' = "idle"
        /\ confirmed' \in {confirmed, callNo} /\ phase = "waiting"
        /\ confirmed' # confirmed => taken' = seqno
    BY <1>4 DEF Received, Take
  <2>2. CASE confirmed' = confirmed
    BY <2>1, <2>2 DEF ControlsGrow, Pending
  <2>3. CASE taken' = seqno
    <3>1. 1 \in 1 .. Len(unread) /\ unread[1].no = seqno
      BY <1>c, <1>4, <2>3, Taking DEF Received, Take
    <3>2. Len(queue) # 0 => 1 \in 1 .. Len(queue)
      BY <1>0
    <3>3. Len(queue) = 0
      BY <1>0, <3>1, <3>2 DEF NumbersGrow
    <3>. QED  BY <1>c, <2>1, <3>3 DEF ControlsGrow
  <2>. QED  BY <2>1, <2>2, <2>3
<1>5. CASE Plc
  <2>1. PICK k \in DOMAIN queue : PlcHandles(k)
    BY <1>5 DEF Plc, PlcHandles
  <2>2. \E resp \in Response : Handles(k, resp)
    BY <1>c, <2>1, PlcHandler DEF ControlType
  <2>3. UNCHANGED <<phase, request, callNo, confirmed>>
    BY <2>1 DEF PlcHandles, PlcControls, PlcTellsStatus, PlcSendsList, PlcRefuses,
       PlcOverlooks, Answer, Overlook, callVars, histVars
  <2>4. /\ 1 \in 1 .. Len(queue) /\ k \in 1 .. Len(queue)
        /\ \A j \in 1 .. Len(queue') :
             k + j \in 1 .. Len(queue) /\ queue'[j] = queue[k + j]
    BY <1>c, <2>2, Answering
  <2>5. /\ carriedOut' \in {carriedOut, queue[1].req.by}
        /\ carriedOut' # carriedOut => queue[1].req.kind \in Controls
    BY <2>1 DEF PlcHandles, PlcControls, PlcTellsStatus, PlcSendsList, PlcRefuses,
       PlcOverlooks, histVars
  <2>6. \A i, j \in 1 .. Len(queue') : 1 < k + j /\ (i < j => k + i < k + j)
    BY <1>0, <2>4
  <2>7. ASSUME NEW j \in 1 .. Len(queue')
        PROVE  Pending(queue[j].req)'
    <3>1. Pending(queue[k + j].req)
      BY <2>4 DEF ControlsGrow
    <3>2. queue[k + j].req.kind \in Controls => queue[1].req.by < queue[k + j].req.by
      BY <2>4, <2>6 DEF ControlsGrow
    <3>. QED  BY <2>3, <2>4, <2>5, <3>1, <3>2 DEF Pending
  <2>8. carriedOut' <= callNo /\ (phase = "sending" => Pending(request)')
    <3>1. queue[1].req.by <= request.by /\ request.by <= callNo
      BY <2>4 DEF ControlsGrow
    <3>2. phase = "sending" /\ request.kind \in Controls => queue[1].req.by < request.by
      BY <2>4 DEF ControlsGrow
    <3>. QED  BY <1>c, <1>0, <2>3, <2>4, <2>5, <3>1, <3>2 DEF ControlsGrow, Pending
  <2>9. \A j \in 1 .. Len(queue') :
          /\ queue'[j].req.by <= request.by
          /\ phase = "sending" /\ request.kind \in Controls =>
               queue'[j].req.by < request.by
    BY <2>4 DEF ControlsGrow
  <2>10. \A i, j \in 1 .. Len(queue') :
           i < j /\ queue'[j].req.kind \in Controls =>
             queue'[i].req.by < queue'[j].req.by
    BY <2>4, <2>6 DEF ControlsGrow
  <2>11. confirmed <= callNo /\ request.by <= callNo
    BY DEF ControlsGrow
  <2>. QED  BY <2>3, <2>7, <2>8, <2>9, <2>10, <2>11 DEF ControlsGrow
<1>6. CASE /\ UNCHANGED <<queue, request, callNo, confirmed, carriedOut>>
           /\ phase' \in {phase, "idle"}
  BY <1>6 DEF ControlsGrow, Pending
<1>7. \/ \E kind \in Ops : StartCall(kind)
      \/ SendNext \/ RequestWritten \/ (ExchangeFails /\ SendFails)
      \/ Received /\ UNCHANGED callNo
      \/ Plc
      \/ /\ UNCHANGED <<queue, request, callNo, confirmed, carriedOut>>
         /\ phase' \in {phase, "idle"}
  <2>1. CASE ExchangeFails /\ ReceiveFails
    BY <2>1 DEF ExchangeFails, ReceiveFails, Failed, Return, histVars
  <2>2. CASE Misread
    BY <2>2 DEF Misread, TakeGarbage, Return
  <2>3. CASE SwitchTurned \/ UNCHANGED vars
    BY <2>3 DEF SwitchTurned, vars, channel, callVars, histVars
  <2>4. CASE ControlReturns \/ StatusReturns \/ InfoReturns \/ FragmentShort
    BY <2>4 DEF ControlReturns, StatusReturns, InfoReturns, FragmentShort, Return
  <2>. QED  BY <2>1, <2>2, <2>3, <2>4 DEF Next, Client, ExchangeFails
<1>. QED
  BY <1>1, <1>2, <1>3, <1>4, <1>5, <1>6, <1>7

(***************************************************************************)
(* An own response that is taken was the last thing the PLC had.            *)
(***************************************************************************)
LEMMA OwnIsLast ==
  ASSUME ControlType, NumbersGrow, Received, ~stale'
  PROVE  /\ ~stale /\ Unread(1) /\ 1 \in 1 .. Len(unread)
         /\ Head(unread) = unread[1] /\ Len(queue) = 0
<1>1. ChannelType /\ Take /\ stale' = (stale \/ taken' # seqno)
  BY DEF Received, ControlType
<1>2. /\ 1 \in 1 .. Len(unread) /\ Head(unread) = unread[1]
      /\ taken' = unread[1].no /\ phase = "waiting"
  BY <1>1, Taking DEF Take
<1>3. /\ Len(queue) \in Nat /\ seqno \in Nat
      /\ \A i \in 1 .. Len(queue) : queue[i].no \in Nat
  BY <1>1, Entries
<1>4. ~stale /\ unread[1].no = seqno
  BY <1>1, <1>2
<1>5. Len(queue) # 0 => 1 \in 1 .. Len(queue)
  BY <1>3
<1>6. Len(queue) # 0 => seqno < queue[1].no /\ queue[1].no <= seqno
  BY <1>2, <1>4, <1>5 DEF NumbersGrow
<1>. QED
  BY <1>2, <1>3, <1>4, <1>5, <1>6 DEF Unread

(***************************************************************************)
(* Every step keeps what the PLC has of the call to the one request.        *)
(***************************************************************************)
LEMMA CallAskedStep ==
  ASSUME ControlType, NumbersGrow, CallAsked, [Next]_vars
  PROVE  CallAsked'
<1>c. ChannelType /\ seqno \in Nat /\ pc \in {"idle", "first", "next"}
  BY DEF ControlType, ChannelType, CallType
<1>0. /\ Len(queue) \in Nat /\ \A i \in 1 .. Len(queue) : queue[i].no \in Nat
  BY <1>c, Entries
<1>n. \A i \in 1 .. Len(queue) : queue[i].no # seqno + 1
  BY <1>c, <1>0 DEF NumbersGrow
<1>1. CASE \E kind \in Ops : StartCall(kind)
  BY <1>1, <1>n DEF StartCall, Send, CallAsked, Current
<1>2. CASE SendNext
  <2>1. /\ UNCHANGED <<op, callNo, pc, outcome, queue, stale>> /\ pc = "next"
        /\ request' = [kind |-> "next", by |-> callNo] /\ seqno' = seqno + 1
    BY <1>2 DEF SendNext, Send, callVars, histVars
  <2>. QED  BY <1>n, <2>1 DEF CallAsked, Current
<1>3. CASE RequestWritten \/ (ExchangeFails /\ SendFails)
  <2>1. /\ UNCHANGED <<op, callNo, request, seqno, stale>>
        /\ phase = "sending" /\ pc # "idle" /\ outcome = "none"
        /\ \/ phase' = "waiting" /\ UNCHANGED <<pc, outcome>>
           \/ phase' = "idle" /\ pc' = "idle" /\ outcome' = "failed"
    BY <1>3 DEF RequestWritten, ExchangeFails, Written, SendFails, Failed, Return,
       callVars, histVars, CallAsked
  <2>2. \A j \in 1 .. Len(queue') :
          \/ j \in 1 .. Len(queue) /\ queue'[j] = queue[j]
          \/ queue'[j].no = seqno /\ queue'[j].req = request
    <3>1. \A j \in 1 .. Len(queue') :
            \/ j \in 1 .. Len(queue) /\ queue'[j] = queue[j]
            \/ j = Len(queue) + 1 /\ queue'[j].no = seqno /\ queue'[j].req = request
      BY <1>3, <1>c, Delivery DEF RequestWritten, Written, SendFails
    <3>. QED  BY <3>1
  <2>. QED  BY <2>1, <2>2 DEF CallAsked, Current
<1>4. CASE ExchangeFails /\ ReceiveFails
  BY <1>4 DEF ExchangeFails, ReceiveFails, Failed, Return, histVars, CallAsked
<1>5. CASE Received /\ UNCHANGED op
           /\ (pc' = "idle" \/ (pc' = "next" /\ op = "cpu_info" /\ UNCHANGED outcome))
  <2>1. /\ UNCHANGED <<request, seqno, queue>>
        /\ phase = "waiting" /\ phase' = "idle"
    BY <1>5 DEF Received, Take
  <2>2. pc # "idle" /\ outcome = "none"
    BY <2>1 DEF CallAsked
  <2>3. ~stale' => Len(queue) = 0
    BY <1>5, OwnIsLast
  <2>. QED  BY <1>5, <2>1, <2>2, <2>3 DEF CallAsked
<1>6. CASE Misread
  <2>1. /\ UNCHANGED <<request, seqno, queue>>
        /\ phase = "waiting" /\ phase' = "idle" /\ stale' = TRUE
        /\ pc' = "idle" \/ (op' = "cpu_info" /\ UNCHANGED outcome)
    BY <1>6 DEF Misread, TakeGarbage, Return
  <2>2. pc # "idle" /\ outcome = "none"
    BY <2>1 DEF CallAsked
  <2>. QED  BY <2>1, <2>2 DEF CallAsked
<1>7. CASE Plc
  <2>1. PICK k \in DOMAIN queue, resp \in Response : Handles(k, resp)
    BY <1>7, PlcStep DEF PlcAnswers
  <2>2. UNCHANGED <<op, callNo, pc, outcome, stale, phase, request, seqno>>
    BY <1>7, <1>c, <2>1, Answering
       DEF Plc, PlcControls, PlcTellsStatus, PlcSendsList, PlcRefuses, PlcOverlooks,
           callVars, histVars
  <2>3. /\ k \in 1 .. Len(queue) /\ Len(queue') = Len(queue) - k
        /\ \A j \in 1 .. Len(queue') :
             k + j \in 1 .. Len(queue) /\ queue'[j] = queue[k + j]
    BY <1>c, <2>1, Answering
  <2>4. Len(queue) # 0
    BY <1>0, <2>3
  <2>. QED  BY <2>2, <2>3, <2>4 DEF CallAsked, Current
<1>8. CASE SwitchTurned \/ UNCHANGED vars
  BY <1>8 DEF SwitchTurned, vars, channel, callVars, histVars, CallAsked, Current
<1>9. ControlReturns \/ StatusReturns \/ InfoReturns \/ FragmentShort =>
        /\ Received /\ UNCHANGED op
        /\ (pc' = "idle" \/ (pc' = "next" /\ op = "cpu_info" /\ UNCHANGED outcome))
  BY DEF ControlReturns, StatusReturns, InfoReturns, FragmentShort, Return
<1>. QED
  BY <1>1, <1>2, <1>3, <1>4, <1>5, <1>6, <1>7, <1>8, <1>9
     DEF Next, Client, ExchangeFails

-----------------------------------------------------------------------------
(***************************************************************************)
(* The own response of an exchange, after an answer of the PLC, is that     *)
(* answer, to the request of the exchange.                                  *)
(***************************************************************************)
LEMMA OwnAnswer ==
  ASSUME ControlType, NumbersGrow, CallAsked,
         NEW k, NEW resp \in Response, Handles(k, resp),
         NEW i \in 1 .. Len(unread'), Unread(i)'
  PROVE  queue[1].req = Current /\ unread'[i].resp = resp
<1>1. phase = "waiting" /\ UNCHANGED <<phase, seqno>>
  BY Answering DEF Unread, ControlType
<1>2. /\ 1 \in 1 .. Len(queue)
      /\ \/ i \in 1 .. Len(unread) /\ unread'[i] = unread[i]
         \/ unread'[i] = [no |-> queue[1].no, resp |-> resp]
  BY Answering DEF ControlType
<1>3. queue[1].no \in Nat /\ seqno \in Nat
  BY <1>2, Entries DEF ControlType
<1>4. ~(i \in 1 .. Len(unread) /\ unread'[i] = unread[i])
  <2>1. SUFFICES ASSUME i \in 1 .. Len(unread), unread'[i] = unread[i]
                 PROVE  FALSE
    OBVIOUS
  <2>2. unread[i].no = seqno
    BY <1>1, <2>1 DEF Unread
  <2>3. seqno < queue[1].no /\ queue[1].no <= seqno
    BY <1>2, <2>1, <2>2 DEF NumbersGrow
  <2>. QED  BY <1>3, <2>3
<1>5. queue[1].no = seqno
  BY <1>1, <1>2, <1>4 DEF Unread
<1>. QED
  BY <1>1, <1>2, <1>4, <1>5 DEF CallAsked

(***************************************************************************)
(* Once a call returned a result of its own, the PLC has nothing of it any  *)
(* more.                                                                    *)
(***************************************************************************)
LEMMA OpenCall ==
  ASSUME ControlType, CallAsked, NEW k, NEW resp \in Response, Handles(k, resp), ~stale
  PROVE  outcome \in {"none", "failed"}
<1>1. Len(queue) # 0
  <2>1. 1 \in 1 .. Len(queue)
    BY Answering DEF ControlType
  <2>. QED  BY <2>1
<1>2. pc \in {"idle", "first", "next"}
  BY DEF ControlType, CallType
<1>. QED
  BY <1>1, <1>2 DEF CallAsked

(***************************************************************************)
(* plc_status (StatusKnown), step by step.                                  *)
(***************************************************************************)
LEMMA StatusKnownStep ==
  ASSUME ControlType, NumbersGrow, CallAsked, StatusKnown, [Next]_vars
  PROVE  StatusKnown'
<1>1. CASE \E kind \in Ops : StartCall(kind)
  <2>1. phase' = "sending" /\ outcome' = "none"
    BY <1>1 DEF StartCall, Send
  <2>. QED  BY <2>1 DEF StatusKnown, Unread, Modes
<1>2. CASE /\ phase' \in {"idle", "sending"} /\ UNCHANGED <<op, modes>>
           /\ ~stale' => ~stale
           /\ outcome' \in {outcome, "failed"}
  BY <1>2 DEF StatusKnown, Unread, Modes
<1>3. CASE RequestWritten
  <2>1. seqno \in Nat /\ \A i \in 1 .. Len(unread) : unread[i].no \in Nat
    BY Entries DEF ControlType
  <2>2. \A i \in 1 .. Len(unread) : unread[i].no # seqno
    BY <1>3, <2>1 DEF RequestWritten, Written, NumbersGrow
  <2>. QED
    BY <1>3, <2>2 DEF RequestWritten, Written, StatusKnown, Unread, callVars, histVars
<1>4. CASE StatusReturns
  <2>1. /\ Received /\ outcome' = StatusResult(Head(unread).resp)
        /\ phase' = "idle" /\ UNCHANGED <<op, modes>>
    BY <1>4 DEF StatusReturns, Received, Take, Return
  <2>2. ~stale' => ~stale /\ Unread(1) /\ 1 \in 1 .. Len(unread) /\ Head(unread) = unread[1]
    BY <2>1, OwnIsLast
  <2>. QED  BY <2>1, <2>2 DEF StatusKnown, Unread
<1>5. CASE op # "status" /\ UNCHANGED op
  BY <1>5 DEF StatusKnown
<1>6. CASE Misread
  BY <1>6 DEF Misread, StatusKnown
<1>7. CASE Plc /\ op = "status" /\ ~stale
  <2>1. PICK k \in DOMAIN queue : PlcHandles(k)
    BY <1>7 DEF Plc, PlcHandles
  <2>2. UNCHANGED <<op, outcome, stale>> /\ modes \subseteq modes'
    BY <2>1 DEF PlcHandles, PlcControls, PlcTellsStatus, PlcSendsList, PlcRefuses,
       PlcOverlooks, ToMode, callVars, histVars
  <2>3. outcome' \notin Modes
    BY <1>7, <2>1, <2>2, PlcHandler, OpenCall DEF Modes
  <2>4. ASSUME NEW i \in 1 .. Len(unread'), Unread(i)',
               StatusResult(unread'[i].resp) \in Modes
        PROVE  StatusResult(unread'[i].resp) \in modes'
    <3>1. PICK resp \in Response : Handles(k, resp)
      BY <2>1, PlcHandler
    <3>2. queue[1].req.kind \in {"status", "next"} /\ (pc # "next")
      BY <1>7, <2>4, <3>1, OwnAnswer DEF Current, CallAsked
    <3>3. queue[1].req.kind = "status"
      BY <1>7, <2>4, <3>1, <3>2, OwnAnswer DEF Current
    <3>4. CASE PlcTellsStatus(k)
      <4>1. PICK code \in IF mode = "run" THEN {RunCode} ELSE StopCodes :
              Answer(k, StatusResp(code))
        BY <3>4 DEF PlcTellsStatus
      <4>2. StatusResp(code) \in Response
        <5>1. code \in 0 .. 255
          BY <4>1, StopCodesAssumption DEF RunCode
        <5>. QED  BY <5>1, PlcResponses
      <4>3. unread'[i].resp = StatusResp(code)
        BY <2>4, <4>1, <4>2, OwnAnswer DEF Handles
      <4>4. StatusResult(StatusResp(code)) =
              IF code = RunCode THEN "run" ELSE IF code = 7 THEN "stop" ELSE "unknown"
        BY DEF StatusResult, StatusResp, RunCode
      <4>5. mode \in modes /\ mode \in Modes
        BY DEF ControlType, CallType
      <4>6. StatusResult(StatusResp(code)) \in {mode, "unknown"}
        BY <4>1, <4>4, <4>5, StopCodesAssumption DEF Modes
      <4>. QED  BY <2>2, <2>4, <4>3, <4>5, <4>6 DEF Modes
    <3>5. CASE PlcRefuses(k) \/ PlcOverlooks(k)
      <4>1. unread'[i].resp = Refusal
        BY <2>4, <3>5, PlcResponses, OwnAnswer
           DEF PlcRefuses, PlcOverlooks, Handles
      <4>. QED  BY <2>4, <4>1 DEF StatusResult, Refusal, Modes
    <3>. QED
      BY <2>1, <3>3, <3>4, <3>5 DEF PlcHandles, PlcControls, PlcSendsList, Controls
  <2>. QED  BY <2>2, <2>3, <2>4 DEF StatusKnown
<1>8. CASE Plc /\ (op # "status" \/ stale)
  <2>1. UNCHANGED <<op, stale>>
    BY <1>8 DEF Plc, PlcControls, PlcTellsStatus, PlcSendsList, PlcRefuses,
       PlcOverlooks, callVars, histVars
  <2>. QED  BY <1>8, <2>1 DEF StatusKnown
<1>9. CASE SwitchTurned \/ UNCHANGED vars
  <2>1. UNCHANGED <<channel, op, outcome, stale>> /\ modes \subseteq modes'
    BY <1>9 DEF SwitchTurned, ToMode, vars, callVars, histVars
  <2>. QED  BY <2>1 DEF StatusKnown, Unread, channel
<1>10. ASSUME ExchangeFails \/ SendNext
       PROVE  /\ phase' \in {"idle", "sending"} /\ UNCHANGED <<op, modes>>
              /\ ~stale' => ~stale
              /\ outcome' \in {outcome, "failed"}
  <2>1. CASE ExchangeFails
    <3>1. phase' = "idle" /\ UNCHANGED <<op, callNo>> /\ outcome' = "failed"
      BY <2>1 DEF ExchangeFails, SendFails, ReceiveFails, Failed, Return
    <3>. QED  BY <2>1, <3>1 DEF ExchangeFails, histVars
  <2>2. CASE SendNext
    BY <2>2 DEF SendNext, Send, callVars, histVars
  <2>. QED  BY <1>10, <2>1, <2>2
<1>11. ControlReturns \/ InfoReturns \/ FragmentShort => op # "status" /\ UNCHANGED op
  BY DEF ControlReturns, InfoReturns, FragmentShort, Return, Controls
<1>. QED
  BY <1>1, <1>2, <1>3, <1>4, <1>5, <1>6, <1>7, <1>8, <1>9, <1>10, <1>11 DEF Next, Client

(***************************************************************************)
(* Control calls (ControlKnown), step by step.                              *)
(***************************************************************************)
LEMMA ControlKnownStep ==
  ASSUME ControlType, NumbersGrow, ControlsGrow, CallAsked, ControlKnown, [Next]_vars
  PROVE  ControlKnown'
<1>1. CASE \E kind \in Ops : StartCall(kind)
  <2>1. phase' = "sending" /\ outcome' = "none"
    BY <1>1 DEF StartCall, Send
  <2>. QED  BY <2>1 DEF ControlKnown, Honest, Unread
<1>2. CASE /\ phase' \in {"idle", "sending"}
           /\ UNCHANGED <<op, modes, carriedOut, callNo>>
           /\ ~stale' => ~stale
           /\ outcome' \in {outcome, "failed"}
  BY <1>2 DEF ControlKnown, Honest, Unread
<1>3. CASE RequestWritten
  <2>1. seqno \in Nat /\ \A i \in 1 .. Len(unread) : unread[i].no \in Nat
    BY Entries DEF ControlType
  <2>2. \A i \in 1 .. Len(unread) : unread[i].no # seqno
    BY <1>3, <2>1 DEF RequestWritten, Written, NumbersGrow
  <2>. QED
    BY <1>3, <2>2 DEF RequestWritten, Written, ControlKnown, Honest, Unread,
       callVars, histVars
<1>4. CASE ControlReturns
  <2>1. /\ Received /\ outcome' = ControlResult(op, Head(unread).resp)
        /\ phase' = "idle" /\ UNCHANGED <<op, modes, carriedOut, callNo>>
    BY <1>4 DEF ControlReturns, Received, Take, Return
  <2>2. ~stale' => ~stale /\ Unread(1) /\ 1 \in 1 .. Len(unread) /\ Head(unread) = unread[1]
    BY <2>1, OwnIsLast
  <2>. QED  BY <2>1, <2>2 DEF ControlKnown, Honest, Unread
<1>5. CASE op \notin Controls /\ UNCHANGED op
  BY <1>5 DEF ControlKnown
<1>6. CASE Misread
  BY <1>6 DEF Misread, ControlKnown
<1>7. CASE Plc /\ op \in Controls /\ ~stale
  <2>1. PICK k \in DOMAIN queue : PlcHandles(k)
    BY <1>7 DEF Plc, PlcHandles
  <2>2. UNCHANGED <<op, outcome, stale, callNo>>
    BY <2>1 DEF PlcHandles, PlcControls, PlcTellsStatus, PlcSendsList, PlcRefuses,
       PlcOverlooks, callVars, histVars
  <2>3. Honest(outcome)'
    BY <1>7, <2>1, <2>2, PlcHandler, OpenCall DEF Honest
  <2>4. ASSUME NEW i \in 1 .. Len(unread'), Unread(i)'
        PROVE  Honest(ControlResult(op, unread[i].resp))'
    <3>1. PICK resp \in Response : Handles(k, resp)
      BY <2>1, PlcHandler
    <3>2. queue[1].req = [kind |-> op, by |-> callNo] /\ 1 \in 1 .. Len(queue)
      <4>1. pc # "next"
        BY <1>7 DEF CallAsked, Controls
      <4>2. queue[1].req = Current
        BY <2>4, <3>1, OwnAnswer
      <4>3. 1 \in 1 .. Len(queue)
        BY <3>1, Answering DEF ControlType
      <4>. QED  BY <4>1, <4>2, <4>3 DEF Current
    <3>3. CASE PlcControls(k)
      <4>. DEFINE sub == IF mode # Target(op) THEN 0 ELSE AlreadyCode(op)
      <4>1. Answer(k, CtrlResp(FunctionCode(op), sub))
        BY <3>2, <3>3 DEF PlcControls
      <4>2. CtrlResp(FunctionCode(op), sub) \in Response
        <5>1. sub \in Nat
          BY DEF AlreadyCode
        <5>. QED  BY <5>1, PlcResponses
      <4>3. unread'[i].resp = CtrlResp(FunctionCode(op), sub)
        BY <2>4, <4>1, <4>2, OwnAnswer DEF Handles
      <4>4. ControlResult(op, CtrlResp(FunctionCode(op), sub)) =
              IF mode # Target(op) THEN "ok" ELSE "job_pending"
        BY DEF ControlResult, CtrlResp, AlreadyCode
      <4>5. /\ carriedOut' = IF mode # Target(op) THEN callNo ELSE carriedOut
            /\ Target(op) \in modes'
        BY <3>2, <3>3 DEF PlcControls, ToMode
      <4>6. carriedOut # callNo
        <5>1. carriedOut < callNo
          BY <1>7, <3>2 DEF ControlsGrow, Pending
        <5>2. carriedOut \in Nat /\ callNo \in Nat
          BY DEF ControlType, CallType
        <5>. QED  BY <5>1, <5>2
      <4>7. op' = op /\ callNo' = callNo
        BY <2>2
      <4>. HIDE DEF sub
      <4>. QED  BY <4>3, <4>4, <4>5, <4>6, <4>7 DEF Honest
    <3>4. CASE PlcRefuses(k) \/ PlcOverlooks(k)
      <4>1. unread'[i].resp = Refusal
        BY <2>4, <3>4, PlcResponses, OwnAnswer
           DEF PlcRefuses, PlcOverlooks, Handles
      <4>2. ControlResult(op, Refusal) = "rejected"
        BY DEF ControlResult, Refusal, FunctionCode
      <4>. QED  BY <2>2, <4>1, <4>2 DEF Honest
    <3>. QED
      BY <1>7, <2>1, <3>2, <3>3, <3>4 DEF PlcHandles, PlcTellsStatus, PlcSendsList, Controls
  <2>. QED  BY <2>2, <2>3, <2>4 DEF ControlKnown
<1>8. CASE Plc /\ (op \notin Controls \/ stale)
  <2>1. UNCHANGED <<op, stale>>
    BY <1>8 DEF Plc, PlcControls, PlcTellsStatus, PlcSendsList, PlcRefuses,
       PlcOverlooks, callVars, histVars
  <2>. QED  BY <1>8, <2>1 DEF ControlKnown
<1>9. CASE SwitchTurned \/ UNCHANGED vars
  <2>1. /\ UNCHANGED <<channel, op, outcome, stale, callNo, carriedOut>>
        /\ modes \subseteq modes'
    BY <1>9 DEF SwitchTurned, ToMode, vars, callVars, histVars
  <2>. QED  BY <2>1 DEF ControlKnown, Honest, Unread, channel
<1>10. ASSUME ExchangeFails \/ SendNext
       PROVE  /\ phase' \in {"idle", "sending"}
              /\ UNCHANGED <<op, modes, carriedOut, callNo>>
              /\ ~stale' => ~stale
              /\ outcome' \in {outcome, "failed"}
  <2>1. CASE ExchangeFails
    <3>1. phase' = "idle" /\ UNCHANGED <<op, callNo>> /\ outcome' = "failed"
      BY <2>1 DEF ExchangeFails, SendFails, ReceiveFails, Failed, Return
    <3>. QED  BY <2>1, <3>1 DEF ExchangeFails, histVars
  <2>2. CASE SendNext
    BY <2>2 DEF SendNext, Send, callVars, histVars
  <2>. QED  BY <1>10, <2>1, <2>2
<1>11. StatusReturns \/ InfoReturns \/ FragmentShort => op \notin Controls /\ UNCHANGED op
  BY DEF StatusReturns, InfoReturns, FragmentShort, Return, Controls
<1>. QED
  BY <1>1, <1>2, <1>3, <1>4, <1>5, <1>6, <1>7, <1>8, <1>9, <1>10, <1>11 DEF Next, Client

(***************************************************************************)
(* List calls (ListKnown), step by step.                                    *)
(***************************************************************************)
LEMMA ListKnownStep ==
  ASSUME ControlType, NumbersGrow, CallAsked, ListKnown, [Next]_vars
  PROVE  ListKnown'
<1>. DEFINE Lists == {"cpu_info", "cp_info"}
<1>t. /\ Len(queue) \in Nat /\ seqno \in Nat /\ Len(info) \in Nat
      /\ \A i \in 1 .. Len(queue) : queue[i].no \in Nat
      /\ \A i \in 1 .. Len(unread) : unread[i].no \in Nat
  BY Entries, LenProperties DEF ControlType, CallType
<1>1. CASE \E kind \in Ops : StartCall(kind)
  <2>1. phase' = "sending" /\ outcome' = "none" /\ info' = <<>> /\ pc' = "first"
    BY <1>1 DEF StartCall, Send
  <2>. QED  BY <2>1 DEF ListKnown, Unread
<1>2. CASE SendNext
  <2>1. /\ phase = "idle" /\ phase' = "sending"
        /\ UNCHANGED <<op, info, pc, outcome, stale, queue, reading>>
    BY <1>2 DEF SendNext, Send, callVars, plcVars, histVars
  <2>. QED  BY <2>1, <1>t DEF ListKnown, Unread
<1>3. CASE RequestWritten
  <2>1. /\ phase = "sending" /\ phase' = "waiting"
        /\ UNCHANGED <<op, info, pc, outcome, stale, unread, seqno, reading>>
    BY <1>3 DEF RequestWritten, Written, callVars, plcVars, histVars
  <2>2. \A i \in 1 .. Len(unread) : unread[i].no # seqno
    BY <1>t, <2>1 DEF NumbersGrow
  <2>3. \A j \in 1 .. Len(queue') :
          \/ j \in 1 .. Len(queue)
          \/ queue'[j].no = seqno
    <3>1. \A j \in 1 .. Len(queue') :
            \/ j \in 1 .. Len(queue) /\ queue'[j] = queue[j]
            \/ j = Len(queue) + 1 /\ queue'[j].no = seqno /\ queue'[j].req = request
      BY <1>3, Delivery DEF RequestWritten, Written, ControlType
    <3>. QED  BY <3>1
  <2>4. op \in Lists /\ ~stale /\ pc = "next" =>
          \A j \in 1 .. Len(queue') : queue'[j].no = seqno
    BY <1>t, <2>1, <2>3 DEF ListKnown
  <2>. QED  BY <1>t, <2>1, <2>2, <2>4 DEF ListKnown, Unread
<1>4. CASE ExchangeFails
  <2>1. /\ phase' = "idle" /\ pc' = "idle" /\ outcome' = "failed"
        /\ UNCHANGED <<op, info, stale>>
    BY <1>4 DEF ExchangeFails, SendFails, ReceiveFails, Failed, Return, histVars
  <2>. QED  BY <2>1 DEF ListKnown, Unread
<1>5. CASE op \notin Lists /\ UNCHANGED op
  BY <1>5 DEF ListKnown
<1>6. CASE InfoReturns \/ FragmentShort
  <2>. DEFINE resp == Head(unread).resp
  <2>1. /\ Received /\ Take /\ phase' = "idle" /\ UNCHANGED <<op, queue, reading>>
    BY <1>6 DEF InfoReturns, FragmentShort, Received, Take, Return, plcVars
  <2>2. CASE op \in Lists /\ ~stale'
    <3>1. /\ ~stale /\ Unread(1) /\ 1 \in 1 .. Len(unread) /\ resp = unread[1].resp
          /\ Len(queue) = 0
      BY <2>1, <2>2, OwnIsLast
    <3>2. IsList(resp) => /\ resp.data = reading
                          /\ reading = [list |-> op, part |-> Len(info) + 1]
      BY <2>2, <3>1 DEF ListKnown
    <3>3. \A i \in 1 .. Len(info) : info[i].data = [list |-> op, part |-> i]
      BY <2>2, <3>1 DEF ListKnown
    <3>4. /\ Len(Collected(resp)) = Len(info) + 1
          /\ \A i \in 1 .. Len(info) : Collected(resp)[i] = info[i]
          /\ Collected(resp)[Len(info) + 1].data = resp.data
      BY <2>1, Collecting
    <3>5. IsList(resp) => \A i \in 1 .. Len(info) + 1 :
            Collected(resp)[i].data = [list |-> op, part |-> i]
      BY <1>t, <3>2, <3>3, <3>4
    <3>6. CASE InfoReturns
      <4>1. /\ pc' = "idle"
            /\ info' = IF IsList(resp) THEN Collected(resp) ELSE info
            /\ outcome' = IF IsList(resp) /\ Length(Collected(resp)) >= Enough(op)
                          THEN "ok" ELSE "rejected"
        BY <3>6 DEF InfoReturns, Return
      <4>2. \A i \in 1 .. Len(info') : info'[i].data = [list |-> op, part |-> i]
        BY <3>3, <3>4, <3>5, <4>1
      <4>3. outcome' = "ok" => Length(info') >= Enough(op)
        BY <4>1
      <4>. HIDE DEF resp
      <4>. QED  BY <2>1, <4>1, <4>2, <4>3 DEF ListKnown, Unread
    <3>7. CASE FragmentShort
      <4>1. /\ pc = "first" /\ pc' = "next" /\ IsList(resp) /\ info' = Collected(resp)
            /\ outcome' = outcome
        BY <3>7 DEF FragmentShort
      <4>2. Len(info) = 0 /\ outcome = "none"
        BY <2>2, <3>1, <4>1 DEF ListKnown, CallAsked
      <4>3. /\ Len(info') = 1 /\ reading = [list |-> op, part |-> 1]
            /\ \A i \in 1 .. Len(info') : info'[i].data = [list |-> op, part |-> i]
        BY <3>2, <3>4, <3>5, <4>1, <4>2
      <4>. HIDE DEF resp
      <4>. QED  BY <2>1, <3>1, <4>1, <4>2, <4>3 DEF ListKnown, Unread
    <3>. QED  BY <1>6, <3>6, <3>7
  <2>3. CASE op \notin Lists \/ stale'
    BY <2>1, <2>3 DEF ListKnown
  <2>. QED  BY <2>2, <2>3
<1>7. CASE Misread
  BY <1>7 DEF Misread, ListKnown
<1>8. CASE Plc /\ op \in Lists /\ ~stale
  <2>1. PICK k \in DOMAIN queue : PlcHandles(k)
    BY <1>8 DEF Plc, PlcHandles
  <2>2. PICK resp \in Response : Handles(k, resp)
    BY <2>1, PlcHandler
  <2>3. /\ UNCHANGED <<op, info, pc, outcome, stale, phase, seqno>>
        /\ ~PlcSendsList(k) => UNCHANGED reading
    BY <2>1, <2>2, Answering
       DEF PlcHandles, PlcControls, PlcTellsStatus, PlcSendsList, PlcRefuses,
           PlcOverlooks, callVars, plcVars, histVars, ControlType
  <2>4. /\ 1 \in 1 .. Len(queue) /\ k \in 1 .. Len(queue)
        /\ Len(queue') = Len(queue) - k
        /\ \A j \in 1 .. Len(queue') :
             k + j \in 1 .. Len(queue) /\ queue'[j] = queue[k + j]
    BY <2>2, Answering DEF ControlType
  <2>5. outcome \in {"none", "failed"}
    BY <1>8, <2>2, OpenCall
  <2>6. pc = "next" => /\ Len(info) = 1 /\ phase = "waiting" /\ Len(queue') = 0
                       /\ reading = [list |-> op, part |-> 1]
    <3>1. pc = "next" => /\ Len(info) = 1 /\ phase = "waiting"
                         /\ reading = [list |-> op, part |-> 1]
                         /\ \A i \in 1 .. Len(queue) : queue[i].no = seqno
      BY <1>8, <1>t, <2>4 DEF ListKnown
    <3>2. ASSUME pc = "next", 2 \in 1 .. Len(queue)
          PROVE  FALSE
      <4>1. queue[1].no < queue[2].no
        BY <2>4, <3>2 DEF NumbersGrow
      <4>2. queue[1].no = seqno /\ queue[2].no = seqno
        BY <2>4, <3>1, <3>2
      <4>. QED  BY <1>t, <4>1, <4>2
    <3>. QED  BY <1>t, <2>4, <3>1, <3>2
  <2>7. ASSUME NEW i \in 1 .. Len(unread'), Unread(i)', IsList(unread'[i].resp)
        PROVE  /\ unread'[i].resp.data = reading'
               /\ reading' = [list |-> op, part |-> Len(info) + 1]
    <3>1. queue[1].req.kind = IF pc = "next" THEN "next" ELSE op
      BY <2>2, <2>7, OwnAnswer DEF Current
    <3>2. pc = "first"  \/ pc = "next"
      <4>1. phase = "waiting"
        BY <2>3, <2>7 DEF Unread
      <4>. QED  BY <4>1 DEF CallAsked, ControlType, CallType
    <3>3. CASE PlcSendsList(k)
      <4>1. PICK len \in FragmentLens, code \in PayloadBytes :
              Answer(k, ListResp(reading', len, code))
        BY <3>3 DEF PlcSendsList
      <4>2. ListResp(reading', len, code) \in Response
        <5>1. len \in Nat /\ code \in 0 .. 255
          BY FragmentLensAssumption DEF PayloadBytes, RunCode
        <5>2. reading' \in Fragment
          BY <2>1, PlcHandler
        <5>. QED  BY <5>1, <5>2, PlcResponses
      <4>3. unread'[i].resp.data = reading'
        <5>1. unread'[i].resp = ListResp(reading', len, code)
          BY <2>7, <4>1, <4>2, OwnAnswer DEF Handles
        <5>. QED  BY <5>1 DEF ListResp
      <4>4. CASE pc = "next"
        <5>1. reading' = [reading EXCEPT !.part = reading.part + 1]
          BY <3>1, <3>3, <4>4 DEF PlcSendsList
        <5>2. reading' = [list |-> op, part |-> 2]
          BY <2>6, <4>4, <5>1
        <5>3. Len(info) = 1
          BY <2>6, <4>4
        <5>4. reading' = [list |-> op, part |-> Len(info) + 1]
          BY <5>2, <5>3
        <5>. QED  BY <4>3, <5>4
      <4>5. CASE pc = "first"
        <5>1. reading' = [list |-> op, part |-> 1]
          BY <1>8, <3>1, <3>3, <4>5 DEF PlcSendsList
        <5>2. Len(info) = 0
          BY <1>8, <4>5 DEF ListKnown
        <5>. QED  BY <4>3, <5>1, <5>2
      <4>. QED  BY <3>2, <4>4, <4>5
    <3>4. CASE PlcRefuses(k) \/ PlcOverlooks(k)
      <4>1. unread'[i].resp = Refusal
        BY <2>7, <3>4, PlcResponses, OwnAnswer
           DEF PlcRefuses, PlcOverlooks, Handles
      <4>. QED  BY <2>7, <4>1 DEF IsList, Refusal
    <3>. QED
      BY <1>8, <2>1, <3>1, <3>3, <3>4 DEF PlcHandles, PlcTellsStatus, PlcControls, Controls
  <2>8. /\ \A i \in 1 .. Len(info') : info'[i].data = [list |-> op', part |-> i]
        /\ outcome' # "ok"
        /\ pc' = "first" => Len(info') = 0
    BY <1>8, <2>3, <2>5 DEF ListKnown
  <2>9. pc' = "next" => /\ Len(info') = 1 /\ phase' = "waiting" /\ Len(queue') = 0
    BY <2>3, <2>6
  <2>. QED  BY <2>3, <2>7, <2>8, <2>9 DEF ListKnown
<1>9. CASE Plc /\ (op \notin Lists \/ stale)
  <2>1. UNCHANGED <<op, stale>>
    BY <1>9 DEF Plc, PlcControls, PlcTellsStatus, PlcSendsList, PlcRefuses,
       PlcOverlooks, callVars, histVars
  <2>. QED  BY <1>9, <2>1 DEF ListKnown
<1>10. CASE SwitchTurned \/ UNCHANGED vars
  <2>1. UNCHANGED <<channel, op, info, pc, outcome, stale, reading>>
    BY <1>10 DEF SwitchTurned, vars, callVars, plcVars, histVars
  <2>. QED  BY <2>1 DEF ListKnown, Unread, channel
<1>11. StatusReturns \/ ControlReturns => op \notin Lists /\ UNCHANGED op
  BY DEF StatusReturns, ControlReturns, Return, Controls
<1>. QED
  BY <1>1, <1>2, <1>3, <1>4, <1>5, <1>6, <1>7, <1>8, <1>9, <1>10, <1>11 DEF Next, Client

-----------------------------------------------------------------------------
(***************************************************************************)
(* The invariant holds initially.                                           *)
(***************************************************************************)
LEMMA ControlInvInit ==
  ASSUME Init
  PROVE  ControlInv
<1>. USE DEF Init, ChanInit
<1>1. ChannelType
  <2>1. request \in Request
    BY DEF Request
  <2>. QED  BY <2>1, EmptySeq DEF ChannelType
<1>2. CallType
  <2>1. op \in Controls \cup {"status", "cpu_info", "cp_info"}
    BY OpsAssumption
  <2>2. info \in Seq([data : Fragment, len : Int])
    BY EmptySeq
  <2>3. reading \in Fragment
    BY DEF NoData, Fragment
  <2>. QED  BY <2>1, <2>2, <2>3 DEF CallType
<1>3. Len(queue) = 0 /\ Len(unread) = 0 /\ Len(info) = 0
  OBVIOUS
<1>4. NumbersGrow /\ ControlsGrow
  BY <1>3 DEF NumbersGrow, ControlsGrow
<1>5. CallAsked /\ StatusKnown /\ ControlKnown
  BY <1>3 DEF CallAsked, StatusKnown, ControlKnown, Honest, Modes
<1>6. ListKnown
  BY <1>3 DEF ListKnown
<1>. QED
  BY <1>1, <1>2, <1>4, <1>5, <1>6 DEF ControlInv, ControlType

(***************************************************************************)
(* Every step keeps the invariant.                                          *)
(***************************************************************************)
LEMMA ControlInvStep ==
  ASSUME ControlInv, [Next]_vars
  PROVE  ControlInv'
BY ControlTypeStep, NumbersGrowStep, ControlsGrowStep, CallAskedStep,
   StatusKnownStep, ControlKnownStep, ListKnownStep DEF ControlInv

(***************************************************************************)
(* So it always holds.                                                      *)
(***************************************************************************)
LEMMA ControlInvCorrect == Spec => []ControlInv
BY ControlInvInit, ControlInvStep, PTL DEF Spec

(***************************************************************************)
(* StatusWasTrue, for every set of stop codes: plc_status returns a mode    *)
(* the PLC was in during the call.                                          *)
(***************************************************************************)
THEOREM StatusIsTrue == Spec => []StatusWasTrue
<1>1. ControlInv => StatusWasTrue
  BY DEF ControlInv, StatusKnown, StatusWasTrue, Own
<1>. QED
  BY <1>1, ControlInvCorrect, PTL

(***************************************************************************)
(* ControlTookEffect, for any number of calls and turns of the switch:      *)
(* plc_start, plc_stop and plc_restart return Ok when they changed the      *)
(* mode themselves, JobPending when they found it so.                       *)
(***************************************************************************)
THEOREM ControlsTakeEffect == Spec => []ControlTookEffect
<1>1. ControlInv => ControlTookEffect
  BY DEF ControlInv, ControlKnown, Honest, ControlTookEffect, Own
<1>. QED
  BY <1>1, ControlInvCorrect, PTL

(***************************************************************************)
(* InfoIsWhole, for every set of fragment lengths: the list cpu_info and    *)
(* cp_info parse is long enough and its fragments are the PLC's, in order.  *)
(***************************************************************************)
THEOREM InfosAreWhole == Spec => []InfoIsWhole
<1>1. ControlInv => InfoIsWhole
  <2>1. SUFFICES ASSUME ControlInv, op \in {"cpu_info", "cp_info"}, ~stale,
                        outcome = "ok"
                 PROVE  /\ Length(info) >= Enough(op)
                        /\ \A i \in DOMAIN info :
                             info[i].data = [list |-> op, part |-> i]
    BY DEF InfoIsWhole, Own
  <2>2. DOMAIN info = 1 .. Len(info)
    BY <2>1, LenProperties DEF ControlInv, ControlType, CallType
  <2>. QED  BY <2>1, <2>2 DEF ControlInv, ListKnown
<1>. QED
  BY <1>1, ControlInvCorrect, PTL

(***************************************************************************)
(* NoLateControl, for any number of calls: once a call got its own          *)
(* response, no control request of an earlier call changes the mode.        *)
(***************************************************************************)
THEOREM NoControlIsLate == Spec => NoLateControl
<1>1. ControlInv /\ [Next]_vars =>
        [carriedOut' # carriedOut => carriedOut' > confirmed]_vars
  <2>1. SUFFICES ASSUME ControlInv, [Next]_vars, carriedOut' # carriedOut
                 PROVE  carriedOut' > confirmed
    OBVIOUS
  <2>2. ControlType /\ ControlsGrow
    BY <2>1 DEF ControlInv
  <2>3. PICK k \in DOMAIN queue : PlcControls(k)
    BY <2>1 DEF Next, Client, Plc, StartCall, RequestWritten, ExchangeFails,
       ControlReturns, StatusReturns, InfoReturns, FragmentShort, Received, SendNext,
       Misread, PlcTellsStatus, PlcSendsList, PlcRefuses, PlcOverlooks,
       SwitchTurned, vars, histVars
  <2>4. 1 \in 1 .. Len(queue) /\ queue[1].req.by \in Nat /\ confirmed \in Nat
    BY <2>2, <2>3, Entries DEF PlcControls, ControlType, CallType
  <2>5. queue[1].req.kind \in Controls /\ carriedOut' = queue[1].req.by
    BY <2>1, <2>3 DEF PlcControls
  <2>6. confirmed < queue[1].req.by
    BY <2>2, <2>4, <2>5 DEF ControlsGrow, Pending
  <2>. QED  BY <2>4, <2>5, <2>6
<1>. QED
  BY <1>1, ControlInvCorrect, PTL DEF Spec, NoLateControl

-----------------------------------------------------------------------------
(***************************************************************************)
(* The client and its PLC use the channel as S7Channel describes it: what   *)
(* is proved of the channel holds of theirs.                                *)
(***************************************************************************)
Channel == INSTANCE S7ChannelProofs WITH Requests <- Request, Responses <- Response

\* Every step of the client, of its PLC and of others is one of the channel or leaves it alone.
LEMMA ChannelStep ==
  ASSUME ControlType, [Next]_vars
  PROVE  [ChanNext]_chanVars
<1>1. ASSUME NEW kind \in Ops, StartCall(kind) PROVE ChanNext
  <2>1. [kind |-> kind, by |-> callNo'] \in Request
    BY <1>1, OpsAssumption DEF StartCall, ControlType, CallType, Request
  <2>2. QED
    BY <1>1, <2>1 DEF StartCall, ChanNext
<1>2. CASE SendNext
  <2>1. [kind |-> "next", by |-> callNo] \in Request
    BY DEF ControlType, CallType, Request
  <2>2. QED
    BY <1>2, <2>1 DEF SendNext, ChanNext
<1>3. CASE RequestWritten
  BY <1>3 DEF RequestWritten, ChanNext
<1>4. CASE ExchangeFails
  BY <1>4 DEF ExchangeFails, ChanNext
<1>5. CASE ControlReturns \/ StatusReturns \/ InfoReturns \/ FragmentShort
  <2>1. Take
    BY <1>5 DEF ControlReturns, StatusReturns, InfoReturns, FragmentShort, Received
  <2>2. QED
    BY <2>1 DEF ChanNext
<1>6. CASE Misread
  BY <1>6 DEF Misread, ChanNext
<1>7. CASE Plc
  BY <1>7, PlcStep DEF PlcAnswers, Handles, ChanNext
<1>8. CASE SwitchTurned
  BY <1>8 DEF SwitchTurned, channel, chanVars
<1>9. CASE UNCHANGED vars
  BY <1>9 DEF vars, channel, chanVars
<1>10. QED
  BY <1>1, <1>2, <1>3, <1>4, <1>5, <1>6, <1>7, <1>8, <1>9 DEF Next, Client

\* Channel is the instance of S7Channel that clients work on.
LEMMA SameChannel ==
  /\ ChanInit => Channel!ChanInit
  /\ [ChanNext]_chanVars => [Channel!ChanNext]_(Channel!chanVars)
<1>1. ChanInit => Channel!ChanInit
  BY DEF ChanInit, Channel!ChanInit
<1>2. ChanNext => Channel!ChanNext
  BY DEF ChanNext, Channel!ChanNext, Send, Written, SendFails, Take, ReceiveFails,
         TakeGarbage, Answer, Overlook, Delivered, Failed,
         Channel!Send, Channel!Written, Channel!SendFails, Channel!Take,
         Channel!ReceiveFails, Channel!TakeGarbage,
         Channel!Answer, Channel!Overlook, Channel!Delivered, Channel!Failed
<1>3. UNCHANGED chanVars => UNCHANGED Channel!chanVars
  BY DEF chanVars, Channel!chanVars
<1>4. QED
  BY <1>1, <1>2, <1>3

(***************************************************************************)
(* A client that controls the PLC takes each step of an exchange as the     *)
(* channel allows it, and the PLC answers with responses of the channel:    *)
(* every behaviour is one of the channel.                                   *)
(***************************************************************************)
THEOREM ControlKeepsToChannel == Spec => ChanSpec
<1>1. Init => ChanInit
  BY DEF Init
<1>2. ControlInv /\ [Next]_vars => [ChanNext]_chanVars
  BY ChannelStep DEF ControlInv
<1>3. QED
  BY <1>1, <1>2, ControlInvCorrect, PTL DEF Spec, ChanSpec

(***************************************************************************)
(* StalenessBounded for a client that controls the PLC: the response that   *)
(* an exchange takes is never early, and late by the failed exchanges of    *)
(* the connection at most.                                                  *)
(***************************************************************************)
THEOREM ControlStalenessIsBounded == Spec => []StalenessBounded
<1>1. ChanSpec => Channel!ChanSpec
  BY SameChannel, PTL DEF ChanSpec, Channel!ChanSpec
<1>2. Channel!ChanSpec => []Channel!StalenessBounded
  BY Channel!ResponsesAreBoundedlyStale
<1>3. Channel!StalenessBounded => StalenessBounded
  BY DEF Channel!StalenessBounded, StalenessBounded
<1>4. QED
  BY <1>1, <1>2, <1>3, ControlKeepsToChannel, PTL

(***************************************************************************)
(* OwnResponseMeansInStep for a client that controls the PLC: after an      *)
(* exchange that took its own response the connection holds nothing of an   *)
(* earlier one.                                                             *)
(***************************************************************************)
THEOREM ControlIsInStepAfterOwn == Spec => []OwnResponseMeansInStep
<1>1. ChanSpec => Channel!ChanSpec
  BY SameChannel, PTL DEF ChanSpec, Channel!ChanSpec
<1>2. Channel!ChanSpec => []Channel!OwnResponseMeansInStep
  BY Channel!InStepAfterOwnResponse
<1>3. Channel!OwnResponseMeansInStep => OwnResponseMeansInStep
  BY DEF Channel!OwnResponseMeansInStep, OwnResponseMeansInStep
<1>4. QED
  BY <1>1, <1>2, <1>3, ControlKeepsToChannel, PTL

=============================================================================
