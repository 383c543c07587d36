------------------------------ MODULE S7Control -----------------------------
(***************************************************************************)
(* plc_start, plc_stop, plc_restart, plc_status, cpu_info and cp_info of a  *)
(* connected S7Client over the channel of S7Channel, against the operating  *)
(* mode and the system status lists (SZL) of the PLC.                       *)
(*                                                                         *)
(* The parsers look at fixed offsets of whatever frame came, so a response  *)
(* is what is found there: its length, the function code at 17 and the      *)
(* sub-code at 18, the status byte at 44, and the list fragment from 41 on. *)
(***************************************************************************)
EXTENDS Integers, Sequences, Functions

CONSTANTS
  Ops,           \* the operations the caller may call
  StopCodes,     \* the status bytes of a PLC in STOP
  FragmentLens,  \* the lengths of the list fragments the PLC sends
  MaxCalls,      \* bound on the number of calls
  MaxSwitches    \* bound on the turns of the mode switch of the PLC

Controls == {"start", "restart", "stop"}

\* The status byte of a PLC in RUN.
RunCode == 8

ASSUME OpsAssumption ==
  Ops \subseteq Controls \cup {"status", "cpu_info", "cp_info"}
ASSUME StopCodesAssumption ==
  StopCodes # {} /\ StopCodes \subseteq (0 .. 255) \ {RunCode}
ASSUME FragmentLensAssumption == FragmentLens \subseteq Nat
ASSUME BoundsAssumption == MaxCalls \in Nat /\ MaxSwitches \in Nat

\* The function code and the sub-code for "already so" of a control request.
FunctionCode(kind) == IF kind = "stop" THEN 41 ELSE 40
AlreadyCode(kind) == IF kind = "stop" THEN 7 ELSE 2
Target(kind) == IF kind = "stop" THEN "stop" ELSE "run"

Request == [kind : Controls \cup {"status", "cpu_info", "cp_info", "next"},
            by : Nat]
Fragment == [list : {"none", "cpu_info", "cp_info"}, part : Nat]
Response == [len : Nat, fn : Nat, sub : Nat, code : Nat, data : Fragment]

NoData == [list |-> "none", part |-> 0]

\* Byte 44 of a list response is payload: it may look like a status or not.
PayloadBytes == {0, RunCode}

CtrlResp(fn, sub) ==
  [len |-> 20, fn |-> fn, sub |-> sub, code |-> 0, data |-> NoData]
StatusResp(code) ==
  [len |-> 45, fn |-> 0, sub |-> 1, code |-> code, data |-> NoData]
ListResp(data, len, code) ==
  [len |-> 41 + len, fn |-> 0, sub |-> 1, code |-> code, data |-> data]
\* What the simulator answers to a request it does not know.
Refusal == [len |-> 35, fn |-> 0, sub |-> 0, code |-> 0, data |-> NoData]

VARIABLES
  phase, seqno, request, queue, unread, garbled, taken, failures,
  op,          \* the operation in progress, or the last one
  callNo,      \* its number
  pc,          \* "idle", or the exchange it is in: "first" or "next"
  info,        \* the list fragments collected, with their lengths
  outcome,     \* what the last call returned
  mode,        \* operating mode of the PLC
  reading,     \* the list fragment the PLC sent last
  switches,    \* the turns of the mode switch so far
  modes,       \* history: the modes the PLC was in during the call
  carriedOut,  \* history: the last call that changed the mode
  confirmed,   \* history: the last call whose response was its own
  stale        \* history: the call took a response of another request

INSTANCE S7Channel WITH Requests <- Request, Responses <- Response

channel  == <<phase, seqno, request, queue, unread, garbled, taken, failures>>
callVars == <<op, callNo, pc, info, outcome>>
plcVars  == <<mode, reading, switches>>
histVars == <<modes, carriedOut, confirmed, stale>>
vars     == <<channel, callVars, plcVars, histVars>>

Modes == {"run", "stop"}
Outcomes == {"none", "ok", "run", "stop", "unknown", "job_pending", "failed",
             "rejected"}

Init ==
  /\ request = [kind |-> "status", by |-> 0]
  /\ ChanInit
  /\ op \in Ops
  /\ callNo = 0
  /\ pc = "idle"
  /\ info = <<>>
  /\ outcome = "none"
  /\ mode \in Modes
  /\ reading = NoData
  /\ switches = 0
  /\ modes = {mode}
  /\ carriedOut = 0
  /\ confirmed = 0
  /\ stale = FALSE

-----------------------------------------------------------------------------
\* The operation sends its request (send_raw).
StartCall(kind) ==
  /\ pc = "idle"
  /\ callNo < MaxCalls
  /\ op' = kind
  /\ callNo' = callNo + 1
  /\ pc' = "first"
  /\ info' = <<>>
  /\ outcome' = "none"
  /\ Send([kind |-> kind, by |-> callNo'])
  /\ modes' = {mode}
  /\ stale' = FALSE
  /\ UNCHANGED <<plcVars, carriedOut, confirmed>>

RequestWritten ==
  /\ Written
  /\ UNCHANGED <<callVars, plcVars, histVars>>

Return(res) ==
  /\ pc' = "idle"
  /\ outcome' = res
  /\ UNCHANGED <<op, callNo>>

\* send_raw or receive returns an error: so does the call.
ExchangeFails ==
  /\ SendFails \/ ReceiveFails
  /\ Return("failed")
  /\ UNCHANGED <<info, plcVars, histVars>>

\* receive() returns a frame, of whichever request.
Received ==
  /\ Take
  /\ stale' = (stale \/ taken' # seqno)
  /\ confirmed' = IF taken' = seqno THEN callNo ELSE confirmed
  /\ UNCHANGED <<plcVars, modes, carriedOut>>

\* Mutation: the sub-code is not looked at.
ControlConfirmed(kind, resp) ==
  IF resp.len < 19 \/ resp.fn # FunctionCode(kind) THEN "rejected" ELSE "ok"

\* parse_plc_ctrl_resp
ControlResult(kind, resp) ==
  IF resp.len < 19 \/ resp.fn # FunctionCode(kind) THEN "rejected"
  ELSE IF resp.sub = AlreadyCode(kind) THEN "job_pending" ELSE "ok"

ControlReturns ==
  /\ op \in Controls
  /\ Received
  /\ Return(ControlResult(op, Head(unread).resp))
  /\ UNCHANGED info

\* Mutation: whatever is not the code of STOP is taken for RUN.
RunUnlessStop(resp) ==
  IF resp.len < 45 THEN "rejected" ELSE IF resp.code = 7 THEN "stop" ELSE "run"

\* parse_plc_status
StatusResult(resp) ==
  IF resp.len < 45 THEN "rejected"
  ELSE CASE resp.code = RunCode -> "run"
         [] resp.code = 7 -> "stop"
         [] OTHER -> "unknown"

StatusReturns ==
  /\ op = "status"
  /\ Received
  /\ Return(StatusResult(Head(unread).resp))
  /\ UNCHANGED info

\* parse_szl_first takes everything from offset 41 on; parse_cpu_info and
\* parse_cp_info want enough of it.
IsList(resp) == resp.len >= 42
Collected(resp) == Append(info, [data |-> resp.data, len |-> resp.len - 41])
Length(frags) == FoldFunction(+, 0, [i \in DOMAIN frags |-> frags[i].len])
Enough(kind) == IF kind = "cpu_info" THEN 205 ELSE 14

InfoReturns ==
  /\ op \in {"cpu_info", "cp_info"}
  /\ Received
  /\ LET resp == Head(unread).resp
         complete == Length(Collected(resp)) >= Enough(op)
     IN /\ IsList(resp) /\ ~complete => op = "cp_info" \/ pc = "next"
        /\ info' = IF IsList(resp) THEN Collected(resp) ELSE info
        /\ Return(IF IsList(resp) /\ complete THEN "ok" ELSE "rejected")

\* szl_read() of a first fragment that is too short: it will ask for one more.
FragmentShort ==
  /\ op = "cpu_info"
  /\ pc = "first"
  /\ Received
  /\ LET resp == Head(unread).resp
     IN /\ IsList(resp)
        /\ Length(Collected(resp)) < Enough(op)
        /\ info' = Collected(resp)
  /\ pc' = "next"
  /\ UNCHANGED <<op, callNo, outcome>>

\* Mutation: the list is requested again instead of its next fragment.
SendFirstAgain ==
  /\ pc = "next"
  /\ Len(info) = 1
  /\ Send([kind |-> op, by |-> callNo])
  /\ UNCHANGED <<callVars, plcVars, histVars>>

SendNext ==
  /\ pc = "next"
  /\ Len(info) = 1
  /\ Send([kind |-> "next", by |-> callNo])
  /\ UNCHANGED <<callVars, plcVars, histVars>>

\* Bytes of a stream out of step: what they pass for is up to the bytes.
PassesFor ==
  CASE op \in Controls -> {"ok", "job_pending", "rejected"}
    [] op = "status"   -> {"run", "stop", "unknown", "rejected"}
    [] OTHER           -> {"ok", "rejected"}

Misread ==
  /\ TakeGarbage
  /\ stale' = TRUE
  /\ \/ \E res \in PassesFor : Return(res)
        /\ UNCHANGED info
     \/ /\ op = "cpu_info"
        /\ pc = "first"
        /\ pc' = "next"
        /\ info' = <<[data |-> NoData, len |-> 1]>>
        /\ UNCHANGED <<op, callNo, outcome>>
  /\ UNCHANGED <<plcVars, modes, carriedOut, confirmed>>

-----------------------------------------------------------------------------
(***************************************************************************)
(* The PLC as the client's codes describe it (the simulator knows status    *)
(* and list requests only and refuses the rest): a control request changes  *)
(* the mode or says that the PLC is in it already; a list is sent in        *)
(* fragments, the first on request, each further one on a "next".  A torn   *)
(* request is taken for the one it began as, refused, or dropped.           *)
(***************************************************************************)
ToMode(m) ==
  /\ mode' = m
  /\ modes' = modes \cup {m}

PlcControls(k) ==
  /\ queue # <<>>
  /\ LET req == queue[1].req
         changes == mode # Target(req.kind)
     IN /\ req.kind \in Controls
        /\ Answer(k, CtrlResp(FunctionCode(req.kind),
                              IF changes THEN 0 ELSE AlreadyCode(req.kind)))
        /\ ToMode(Target(req.kind))
        /\ carriedOut' = IF changes THEN req.by ELSE carriedOut
  /\ UNCHANGED <<callVars, reading, switches, confirmed, stale>>

PlcTellsStatus(k) ==
  /\ queue # <<>>
  /\ queue[1].req.kind = "status"
  /\ \E code \in IF mode = "run" THEN {RunCode} ELSE StopCodes :
       Answer(k, StatusResp(code))
  /\ UNCHANGED <<callVars, plcVars, histVars>>

PlcSendsList(k) ==
  /\ queue # <<>>
  /\ LET kind == queue[1].req.kind
     IN \/ kind \in {"cpu_info", "cp_info"}
           /\ reading' = [list |-> kind, part |-> 1]
        \/ kind = "next" /\ reading # NoData
           /\ reading' = [reading EXCEPT !.part = @ + 1]
  /\ \E len \in FragmentLens, code \in PayloadBytes :
       Answer(k, ListResp(reading', len, code))
  /\ UNCHANGED <<callVars, mode, switches, histVars>>

PlcRefuses(k) ==
  /\ Answer(k, Refusal)
  /\ UNCHANGED <<callVars, plcVars, histVars>>

PlcOverlooks(k) ==
  /\ Overlook(k)
  /\ UNCHANGED <<callVars, plcVars, histVars>>

\* The mode switch at the PLC, or another client.
SwitchTurned ==
  /\ switches < MaxSwitches
  /\ switches' = switches + 1
  /\ \E m \in Modes \ {mode} : ToMode(m)
  /\ UNCHANGED <<channel, callVars, reading, carriedOut, confirmed, stale>>

Client ==
  \/ RequestWritten
  \/ ExchangeFails
  \/ ControlReturns
  \/ StatusReturns
  \/ InfoReturns
  \/ FragmentShort
  \/ SendNext
  \/ Misread

Plc ==
  \E k \in DOMAIN queue :
    \/ PlcControls(k)
    \/ PlcTellsStatus(k)
    \/ PlcSendsList(k)
    \/ PlcRefuses(k)
    \/ PlcOverlooks(k)

Next ==
  \/ \E kind \in Ops : StartCall(kind)
  \/ Client
  \/ Plc
  \/ SwitchTurned

Spec == Init /\ [][Next]_vars

-----------------------------------------------------------------------------
Own(kinds) == op \in kinds /\ pc = "idle" /\ ~stale

(***************************************************************************)
(* What plc_status returns was the mode of the PLC at some moment of the    *)
(* call, unless it took the response of an earlier request.                 *)
(***************************************************************************)
StatusWasTrue == Own({"status"}) /\ outcome \in Modes => outcome \in modes

(***************************************************************************)
(* A control call that returns Ok changed the mode of the PLC itself, and   *)
(* one that returns JobPending found the PLC in the mode it asks for and    *)
(* changed nothing: so a retry after a timeout tells what the lost attempt  *)
(* did.                                                                     *)
(***************************************************************************)
ControlTookEffect ==
  Own(Controls) =>
    /\ outcome = "ok" => carriedOut = callNo
    /\ outcome = "job_pending" => Target(op) \in modes /\ carriedOut # callNo

(***************************************************************************)
(* Once a call got its own response, no control request of an earlier call  *)
(* changes the mode any more, however late the PLC gets to it.              *)
(***************************************************************************)
NoLateControl == [][carriedOut' # carriedOut => carriedOut' > confirmed]_vars

(***************************************************************************)
(* cpu_info and cp_info parse a list of the PLC that is the one they asked  *)
(* for, its fragments in order and none of them missing or twice.           *)
(***************************************************************************)
InfoIsWhole ==
  Own({"cpu_info", "cp_info"}) /\ outcome = "ok" =>
    /\ Length(info) >= Enough(op)
    /\ \A i \in DOMAIN info : info[i].data = [list |-> op, part |-> i]
=============================================================================
