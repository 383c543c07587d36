------------------------------ MODULE S7Connect -----------------------------
(***************************************************************************)
(* The life of connections: S7Client::connect and TcpConnection::connect    *)
(* (TCP connect, COTP Connection Request and Confirm, S7 Setup              *)
(* Communication, each under the connect timeout) against the connection    *)
(* handler of the PLC, and disconnect.  An S7Client value never changes:    *)
(* connect returns a new one, which is its socket here.                     *)
(***************************************************************************)
EXTENDS S7Wire, FiniteSets

CONSTANTS
  MaxSockets,  \* bound on the sockets opened
  PlcPdus,     \* the PDU sizes the PLC may announce
  SetupLens    \* the lengths of its S7 answers to a Setup request

ASSUME MaxSocketsAssumption == MaxSockets \in Nat
ASSUME PlcPdusAssumption == PlcPdus \subseteq Nat
ASSUME SetupLensAssumption == SetupLens \subseteq Nat

Socket == 1 .. MaxSockets

VARIABLES
  step,        \* of the connect in progress, "idle" if there is none
  last,        \* the number of the latest socket
  sock,        \* per socket: "unused", "open" or "closed"
  plc,         \* per socket: state of the PLC's handler for it
  toPlc,       \* per socket: what the client sent and the PLC did not read
  toClient,    \* per socket: what the PLC sent and the client did not read
  clients,     \* the sockets of the connected clients connect() returned
  pduSize,     \* per socket: pdu_size of its client
  outcome,     \* what the last connect returned
  announced,   \* history: per socket, the S7 answer to its Setup request
  orphans      \* history: open sockets that connect() returned without

vars == <<step, last, sock, plc, toPlc, toClient, clients, pduSize, outcome,
          announced, orphans>>

Handshake == {"send_cr", "await_cc", "send_setup", "await_setup"}
\* The S7 answers to a Setup request: an agreement, or an error-class refusal.
Setup == [kind : {"setup"}, len : SetupLens, pdu : PlcPdus]
Refusal == [kind : {"refusal"}, len : SetupLens, pdu : PlcPdus]
ConnectionConfirm == [kind |-> "CC", len |-> 22, pdu |-> 0]
OtherTpdu == [kind |-> "other", len |-> 11, pdu |-> 0]
NoSetup == [kind |-> "none", len |-> 0, pdu |-> 0]

Outcomes == {"none", "ok", "failed", "timeout", "closed", "invalid_pdu",
             "already_connected", "cancelled"}

DefaultPdu == 480

Init ==
  /\ step = "idle"
  /\ last = 0
  /\ sock = [s \in Socket |-> "unused"]
  /\ plc = [s \in Socket |-> "none"]
  /\ toPlc = [s \in Socket |-> <<>>]
  /\ toClient = [s \in Socket |-> <<>>]
  /\ clients = {}
  /\ pduSize = [s \in Socket |-> DefaultPdu]
  /\ outcome = "none"
  /\ announced = [s \in Socket |-> NoSetup]
  /\ orphans = {}

-----------------------------------------------------------------------------
PlcSide == <<plc, toPlc, toClient, announced>>

Return(res) ==
  /\ step' = "idle"
  /\ outcome' = res

\* connect() of a client that is not connected, as often as the caller likes.
Connect ==
  /\ step = "idle"
  /\ last < MaxSockets
  /\ last' = last + 1
  /\ step' = "tcp"
  /\ outcome' = "none"
  /\ UNCHANGED <<sock, PlcSide, clients, pduSize, orphans>>

\* connect() of a client that connect() returned.
ConnectAgain ==
  /\ step = "idle"
  /\ clients # {}
  /\ Return("already_connected")
  /\ UNCHANGED <<last, sock, PlcSide, clients, pduSize, orphans>>

\* A connection attempt of connect_to_host() succeeds: the PLC accepted and
\* started a handler.  The caller has not been resumed yet.
TcpConnected ==
  /\ step = "tcp"
  /\ step' = "tcp_done"
  /\ sock' = [sock EXCEPT ![last] = "open"]
  /\ plc' = [plc EXCEPT ![last] = "COTP"]
  /\ UNCHANGED <<last, toPlc, toClient, announced, clients, pduSize, outcome,
                 orphans>>

\* connect() is resumed with the socket.
TcpHandedOver ==
  /\ step = "tcp_done"
  /\ step' = "send_cr"
  /\ UNCHANGED <<last, sock, PlcSide, clients, pduSize, outcome, orphans>>

\* connect_to_host() fails or is interrupted, and closes what it opened; the
\* PLC may have accepted the connection by then.
TcpGivesUp(res) ==
  /\ step = "tcp"
  /\ Return(res)
  /\ sock' = [sock EXCEPT ![last] = "closed"]
  /\ plc' \in {plc, [plc EXCEPT ![last] = "COTP"]}
  /\ UNCHANGED <<last, toPlc, toClient, announced, clients, pduSize, orphans>>

\* The timer or a cancellation comes when connect_to_host() has the socket as
\* its value and nothing to catch: the task group's result is None, or the
\* error, and the value is dropped with its socket open.
TcpOutrun(res) ==
  /\ step = "tcp_done"
  /\ Return(res)
  /\ orphans' = orphans \cup {last}
  /\ UNCHANGED <<last, sock, PlcSide, clients, pduSize>>

TcpFails == TcpGivesUp("failed")
TcpTimeout == TcpGivesUp("timeout") \/ TcpOutrun("timeout")

-----------------------------------------------------------------------------
\* Mutation: a failed handshake leaves its socket open.
AbandonOpen(res) ==
  /\ Return(res)
  /\ UNCHANGED <<last, sock, plc, toPlc, announced, clients, pduSize, orphans>>

\* negotiate() returned an error, or None came first: close the socket.
Abandon(res) ==
  /\ Return(res)
  /\ sock' = [sock EXCEPT ![last] = "closed"]
  /\ UNCHANGED <<last, plc, toPlc, announced, clients, pduSize, orphans>>

Say(from, msg, to) ==
  /\ step = from
  /\ step' = to
  /\ toPlc' = [toPlc EXCEPT ![last] = Append(@, msg)]
  /\ UNCHANGED <<last, sock, plc, toClient, announced, clients, pduSize,
                 outcome, orphans>>

SendCr == Say("send_cr", "CR", "await_cc")
SendSetup == Say("send_setup", "SETUP", "await_setup")

\* read_tpkt() of the handshake: the next frame the PLC sent.
Heard(from) ==
  /\ step = from
  /\ toClient[last] # <<>>
  /\ toClient' = [toClient EXCEPT ![last] = Tail(@)]

\* parse_cotp_cc
ConfirmOk(msg) == msg.len >= 7 /\ msg.kind = "CC"

ReceiveCc ==
  /\ Heard("await_cc")
  /\ ConfirmOk(Head(toClient[last]))
  /\ step' = "send_setup"
  /\ UNCHANGED <<last, sock, plc, toPlc, announced, clients, pduSize, outcome,
                 orphans>>

RefuseCc ==
  /\ Heard("await_cc")
  /\ ~ConfirmOk(Head(toClient[last]))
  /\ Abandon("invalid_pdu")

\* parse_setup_resp: an S7 header, whatever it says (find_s7 masks the error
\* flag); 28 bytes or more carry the PDU size at 25 and 26.
SetupOk(msg) == msg.len >= 22 /\ msg.kind \in {"setup", "refusal"}
NegotiatedPdu(msg) == IF msg.len >= 28 THEN msg.pdu ELSE DefaultPdu

ReceiveSetup ==
  /\ Heard("await_setup")
  /\ SetupOk(Head(toClient[last]))
  /\ Return("ok")
  /\ pduSize' = [pduSize EXCEPT ![last] = NegotiatedPdu(Head(toClient[last]))]
  /\ clients' = clients \cup {last}
  /\ UNCHANGED <<last, sock, plc, toPlc, announced, orphans>>

RefuseSetup ==
  /\ Heard("await_setup")
  /\ ~SetupOk(Head(toClient[last]))
  /\ Abandon("invalid_pdu")

\* The PLC closed or reset the connection during the handshake.
PlcLost ==
  /\ step \in Handshake
  /\ plc[last] = "ended"
  /\ Abandon("closed")
  /\ UNCHANGED toClient

\* Mutation: without a Setup response connect() goes on with the default.
TimeoutFallsBack ==
  /\ step = "await_setup"
  /\ Return("ok")
  /\ clients' = clients \cup {last}
  /\ UNCHANGED <<last, sock, PlcSide, pduSize, orphans>>

\* Mutation: only the reads of the handshake are under the timer.
TimeoutOfReads ==
  /\ step \in {"await_cc", "await_setup"}
  /\ Abandon("timeout")
  /\ UNCHANGED toClient

NegotiationTimeout ==
  /\ step \in Handshake
  /\ Abandon("timeout")
  /\ UNCHANGED toClient

\* A cancellation from outside is raised out of connect(): nothing closes
\* the socket and nobody has it any more.
CancelConnect ==
  \/ TcpGivesUp("cancelled")
  \/ TcpOutrun("cancelled")
  \/ /\ step \in Handshake
     /\ Return("cancelled")
     /\ orphans' = orphans \cup {last}
     /\ UNCHANGED <<last, sock, PlcSide, clients, pduSize>>

\* disconnect() of a connected client; closing twice does nothing.
Disconnect(s) ==
  /\ s \in clients
  /\ sock' = [sock EXCEPT ![s] = "closed"]
  /\ UNCHANGED <<step, last, PlcSide, clients, pduSize, outcome, orphans>>

-----------------------------------------------------------------------------
(***************************************************************************)
(* The PLC: handle_client() of s7_sim.py, one thread per connection, which  *)
(* always agrees.  A real PLC may also refuse or answer something else.     *)
(***************************************************************************)
Hears(s, state, msg) ==
  /\ plc[s] = state
  /\ toPlc[s] # <<>>
  /\ Head(toPlc[s]) = msg
  /\ toPlc' = [toPlc EXCEPT ![s] = Tail(@)]

Answers(s, msg, state) ==
  /\ toClient' = [toClient EXCEPT ![s] = Append(@, msg)]
  /\ plc' = [plc EXCEPT ![s] = state]
  /\ UNCHANGED <<step, last, sock, clients, pduSize, outcome, orphans>>

PlcConfirms(s, msg) ==
  /\ Hears(s, "COTP", "CR")
  /\ Answers(s, msg, "SETUP")
  /\ UNCHANGED announced

PlcSetsUp(s, msg) ==
  /\ Hears(s, "SETUP", "SETUP")
  /\ Answers(s, msg, "READY")
  /\ announced' = [announced EXCEPT ![s] = msg]

\* The PLC refuses the setup, and would take another one.
PlcRefusesSetup(s, msg) ==
  /\ Hears(s, "SETUP", "SETUP")
  /\ Answers(s, msg, "SETUP")
  /\ announced' = IF msg \in Refusal THEN [announced EXCEPT ![s] = msg] ELSE announced

\* Mutation: the end of the stream is noticed after the handshake only.
ReadySeesClose(s) ==
  /\ plc[s] = "READY"
  /\ sock[s] = "closed"
  /\ toPlc[s] = <<>>
  /\ plc' = [plc EXCEPT ![s] = "ended"]
  /\ UNCHANGED <<step, last, sock, toPlc, toClient, clients, pduSize, outcome,
                 announced, orphans>>

\* recv() returns nothing once the client closed and all was read.
PlcSeesClose(s) ==
  /\ plc[s] \in {"COTP", "SETUP", "READY"}
  /\ sock[s] = "closed"
  /\ toPlc[s] = <<>>
  /\ plc' = [plc EXCEPT ![s] = "ended"]
  /\ UNCHANGED <<step, last, sock, toPlc, toClient, clients, pduSize, outcome,
                 announced, orphans>>

\* The PLC closes on its own, or on data it does not expect.
PlcCloses(s) ==
  /\ plc[s] \in {"COTP", "SETUP", "READY"}
  /\ plc' = [plc EXCEPT ![s] = "ended"]
  /\ UNCHANGED <<step, last, sock, toPlc, toClient, clients, pduSize, outcome,
                 announced, orphans>>

Timer == TcpTimeout \/ NegotiationTimeout

Handler(s) ==
  \/ \E msg \in {ConnectionConfirm, OtherTpdu} : PlcConfirms(s, msg)
  \/ \E msg \in Setup : PlcSetsUp(s, msg)
  \/ \E msg \in Refusal \cup {OtherTpdu} : PlcRefusesSetup(s, msg)
  \/ PlcSeesClose(s)

Next ==
  \/ Connect
  \/ ConnectAgain
  \/ TcpConnected
  \/ TcpHandedOver
  \/ TcpFails
  \/ Timer
  \/ SendCr
  \/ ReceiveCc
  \/ RefuseCc
  \/ SendSetup
  \/ ReceiveSetup
  \/ RefuseSetup
  \/ PlcLost
  \/ CancelConnect
  \/ \E s \in Socket : Disconnect(s) \/ Handler(s) \/ PlcCloses(s)

\* The event loop runs the timer, the operating system the PLC's threads.
Fairness ==
  /\ WF_vars(Timer)
  /\ \A s \in Socket : WF_vars(Handler(s))

Spec == Init /\ [][Next]_vars /\ Fairness

-----------------------------------------------------------------------------
(***************************************************************************)
(* No socket is lost: one that is open belongs to the connect in progress   *)
(* or to a client the caller has, whatever made a connect fail.  Two cases  *)
(* are excepted, and only they: a handshake cancelled from outside, and the *)
(* timer or a cancellation that comes when the TCP connection has just been *)
(* made and connect() was not resumed yet (TimedOutIsClosed).               *)
(***************************************************************************)
NoSocketLost ==
  \A s \in Socket : sock[s] = "open" =>
    \/ step # "idle" /\ s = last
    \/ s \in clients
    \/ s \in orphans

(***************************************************************************)
(* What happy_eyeball.mbt:83-85 says of a cancelled connect_to_host(), and  *)
(* the connect timer cancels it: "a connection attempt succeeded just       *)
(* before the cancellation.  We need to properly close the result in this   *)
(* case."  It does so as long as connect_to_host() itself is there to be    *)
(* cancelled: a connect() that timed out would leave no socket open.        *)
(***************************************************************************)
TimedOutIsClosed ==
  step = "idle" /\ outcome = "timeout" => sock[last] # "open"

(***************************************************************************)
(* connect() succeeds only after the COTP handshake on that very connection *)
(* and an S7 answer to its Setup request there.  It keeps nothing of the    *)
(* handshake unread that a later exchange would take for its response, and  *)
(* the client works with the PDU size of that answer, or with the default   *)
(* if the answer is shorter than 28 bytes.  An answer that agrees finds the *)
(* PLC ready.  (One that refuses, of 22 bytes or more, passes for one that  *)
(* agrees, and the 27 bytes that an agreement needs announce nothing to     *)
(* parse_setup_resp: the property says which size is used, not that it is   *)
(* the PLC's.)                                                              *)
(***************************************************************************)
OkMeansReady ==
  \A s \in clients :
    /\ announced[s] # NoSetup
    /\ announced[s].kind = "setup" => plc[s] \in {"READY", "ended"}
    /\ toPlc[s] = <<>> /\ toClient[s] = <<>>
    /\ pduSize[s] = IF announced[s].len >= 28 THEN announced[s].pdu ELSE DefaultPdu

(***************************************************************************)
(* Every connect returns, at whatever step the PLC stops answering.         *)
(***************************************************************************)
ConnectReturns == step # "idle" ~> step = "idle"

(***************************************************************************)
(* A connection that connect() gave up or disconnect() closed is ended by   *)
(* the PLC too: no half-open session stays behind.                          *)
(***************************************************************************)
ClosedIsReleased ==
  \A s \in Socket : sock[s] = "closed" ~> plc[s] \in {"none", "ended"}

=============================================================================
