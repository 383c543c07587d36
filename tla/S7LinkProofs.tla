---------------------------- MODULE S7LinkProofs ----------------------------
(***************************************************************************)
(* Proofs about a connection and what comes over it.  About S7Connect, for  *)
(* any number of connects, PDU sizes and Setup responses: no socket is      *)
(* lost, and connect succeeds only after the whole handshake of the         *)
(* connection it returns.  About the STRING of S7Fields, for every text     *)
(* and every chunk size: which characters come back, and from where.  About *)
(* its numbers, for all widths: that they keep their value.                 *)
(***************************************************************************)
EXTENDS S7Connect, S7Fields, SequenceTheorems,
        WellFoundedInduction, NaturalsInduction, TLAPS

Steps == {"idle", "tcp", "tcp_done"} \cup Handshake

ConnectType ==
  /\ step \in Steps
  /\ last \in Nat /\ last <= MaxSockets
  /\ step # "idle" => last >= 1
  /\ sock \in [Socket -> {"unused", "open", "closed"}]
  /\ plc \in [Socket -> {"none", "COTP", "SETUP", "READY", "ended"}]
  /\ DOMAIN toPlc = Socket /\ DOMAIN toClient = Socket
  /\ DOMAIN announced = Socket /\ DOMAIN pduSize = Socket
  /\ clients \subseteq Socket

\* Nothing has happened on a socket.
Fresh(s) ==
  /\ sock[s] = "unused" /\ plc[s] = "none"
  /\ toPlc[s] = <<>> /\ toClient[s] = <<>>
  /\ announced[s] = NoSetup /\ s \notin clients

\* The request is still with the PLC, or its answer with the client.
Asked(s, tpdu, state) ==
  toPlc[s] = <<tpdu>> /\ toClient[s] = <<>> /\ plc[s] \in {state, "ended"}
Silent(s, state) ==
  toPlc[s] = <<>> /\ toClient[s] = <<>> /\ plc[s] \in {state, "ended"}

\* The PLC answered the Setup request: it agreed, refused, or said something
\* else, which announces nothing.
Replied(s) ==
  /\ toPlc[s] = <<>>
  /\ \/ /\ announced[s] \in Setup /\ toClient[s] = <<announced[s]>>
        /\ plc[s] \in {"READY", "ended"}
     \/ announced[s] \in Refusal /\ toClient[s] = <<announced[s]>>
     \/ announced[s] = NoSetup /\ toClient[s] = <<OtherTpdu>>

\* How far a handshake has come, at both of its ends.
Stage(s) ==
  /\ s \notin clients
  /\ step \in {"tcp_done", "send_cr", "await_cc", "send_setup"} =>
       announced[s] = NoSetup
  /\ step \in {"tcp_done", "send_cr"} => Silent(s, "COTP")
  /\ step = "await_cc" =>
       \/ Asked(s, "CR", "COTP")
       \/ /\ toPlc[s] = <<>> /\ plc[s] \in {"SETUP", "ended"}
          /\ \E msg \in {ConnectionConfirm, OtherTpdu} : toClient[s] = <<msg>>
  /\ step = "send_setup" => Silent(s, "SETUP")
  /\ step = "await_setup" =>
       \/ Asked(s, "SETUP", "SETUP") /\ announced[s] = NoSetup
       \/ Replied(s)

(***************************************************************************)
(* The invariant behind OkMeansReady: beside it, the two ends of the        *)
(* handshake in progress agree on how far it has come, and the sockets to   *)
(* come are untouched.                                                      *)
(***************************************************************************)
ConnectInv ==
  /\ ConnectType
  /\ \A s \in Socket : s > last \/ (step = "tcp" /\ s = last) => Fresh(s)
  /\ step \in Handshake \cup {"tcp_done"} => Stage(last)
  /\ OkMeansReady

\* It holds before the first connect.
LEMMA ConnectInit == Init => ConnectInv
BY MaxSocketsAssumption
DEF Init, ConnectInv, ConnectType, Steps, Fresh, OkMeansReady, Handshake, Socket

\* Nothing is taken of a queue of one element but that one.
LEMMA OneElement ==
  ASSUME NEW m
  PROVE  Head(<<m>>) = m /\ Tail(<<m>>) = <<>> /\ <<m>> # <<>> /\ Append(<<>>, m) = <<m>>
OBVIOUS

\* What the answers to a Setup request are told apart by.
LEMMA Kinds ==
  /\ \A msg \in Setup : msg.kind = "setup" /\ msg # NoSetup
  /\ \A msg \in Refusal : msg.kind = "refusal" /\ msg # NoSetup
  /\ OtherTpdu.kind = "other"
BY DEF NoSetup, OtherTpdu, Setup, Refusal

(***************************************************************************)
(* Every step of the client, the PLC and their timers keeps it.             *)
(***************************************************************************)
LEMMA ConnectStep == ConnectInv /\ [Next]_vars => ConnectInv'
<1>. SUFFICES ASSUME ConnectInv, [Next]_vars PROVE ConnectInv'
  OBVIOUS
<1>. USE MaxSocketsAssumption, OneElement
     DEF ConnectInv, ConnectType, Steps, Handshake, Socket, Fresh, OkMeansReady, PlcSide
<1>1. CASE Connect
  BY <1>1 DEF Connect
<1>2. CASE ConnectAgain
  BY <1>2 DEF ConnectAgain, Return
<1>3. CASE TcpConnected
  BY <1>3 DEF TcpConnected, Stage, Silent
<1>4. ASSUME NEW res, TcpGivesUp(res) PROVE ConnectInv'
  BY <1>4 DEF TcpGivesUp, Return
<1>19. CASE TcpHandedOver
  BY <1>19 DEF TcpHandedOver, Stage, Silent
<1>20. ASSUME NEW res, TcpOutrun(res) PROVE ConnectInv'
  BY <1>20 DEF TcpOutrun, Return
<1>5. ASSUME NEW res, Abandon(res), step \in Handshake,
             \/ toClient' = toClient
             \/ toClient' = [toClient EXCEPT ![last] = Tail(@)]
      PROVE  ConnectInv'
  <2>1. /\ step' = "idle" /\ sock' = [sock EXCEPT ![last] = "closed"]
        /\ UNCHANGED <<last, plc, toPlc, announced, clients, pduSize>>
        /\ last \in Socket /\ last \notin clients
    BY <1>5 DEF Abandon, Return, Stage
  <2>2. /\ DOMAIN toClient' = Socket
        /\ \A s \in Socket : s # last => toClient'[s] = toClient[s] /\ sock'[s] = sock[s]
    BY <1>5, <2>1
  <2>3. ConnectType'
    BY <2>1, <2>2
  <2>4. OkMeansReady'
    BY <2>1, <2>2
  <2>5. \A s \in Socket : s > last => Fresh(s)'
    BY <2>1, <2>2
  <2>. QED  BY <2>1, <2>3, <2>4, <2>5
<1>6. CASE SendCr
  BY <1>6 DEF SendCr, Say, Stage, Silent, Asked
<1>7. CASE SendSetup
  BY <1>7 DEF SendSetup, Say, Stage, Silent, Asked
<1>8. CASE ReceiveCc
  <2>1. /\ last \in Socket /\ step = "await_cc" /\ step' = "send_setup"
        /\ toClient' = [toClient EXCEPT ![last] = Tail(@)]
        /\ UNCHANGED <<last, sock, plc, toPlc, clients, pduSize, announced>>
    BY <1>8 DEF ReceiveCc, Heard
  <2>2. PICK msg : /\ toClient[last] = <<msg>> /\ toPlc[last] = <<>>
                   /\ plc[last] \in {"SETUP", "ended"}
    BY <1>8 DEF ReceiveCc, Heard, Stage, Asked
  <2>3. /\ DOMAIN toClient' = Socket
        /\ \A s \in Socket : toClient'[s] = IF s = last THEN <<>> ELSE toClient[s]
    BY <2>1, <2>2
  <2>4. Stage(last)'
    BY <2>1, <2>2, <2>3 DEF Stage, Silent
  <2>. QED  BY <2>1, <2>3, <2>4
<1>9. CASE ReceiveSetup
  <2>1. /\ last \in Socket /\ step = "await_setup" /\ step' = "idle"
        /\ toClient' = [toClient EXCEPT ![last] = Tail(@)]
        /\ pduSize' = [pduSize EXCEPT ![last] = NegotiatedPdu(Head(toClient[last]))]
        /\ clients' = clients \cup {last}
        /\ UNCHANGED <<last, sock, plc, toPlc, announced>>
    BY <1>9 DEF ReceiveSetup, Heard, Return
  <2>2. /\ toPlc[last] = <<>> /\ toClient[last] = <<announced[last]>>
        /\ \/ announced[last] \in Setup /\ plc[last] \in {"READY", "ended"}
           \/ announced[last] \in Refusal
    <3>1. Replied(last)
      BY <1>9, <2>1 DEF ReceiveSetup, Heard, Stage, Asked
    <3>2. toClient[last] # <<OtherTpdu>>
      BY <1>9, Kinds DEF ReceiveSetup, SetupOk
    <3>. QED  BY <3>1, <3>2 DEF Replied
  <2>3. /\ DOMAIN toClient' = Socket
        /\ \A s \in Socket : toClient'[s] = IF s = last THEN <<>> ELSE toClient[s]
    BY <2>1, <2>2
  <2>4. pduSize'[last] =
          IF announced[last].len >= 28 THEN announced[last].pdu ELSE DefaultPdu
    BY <2>1, <2>2 DEF NegotiatedPdu
  <2>6. /\ announced[last] # NoSetup
        /\ announced[last].kind = "setup" => plc[last] \in {"READY", "ended"}
    BY <2>2, Kinds
  <2>5. OkMeansReady'
    BY <2>1, <2>2, <2>3, <2>4, <2>6
  <2>. QED  BY <2>1, <2>3, <2>5, SMTT(60)
<1>10. ASSUME step \in Handshake, Return("cancelled"),
              UNCHANGED <<last, sock, PlcSide, clients, pduSize>>
       PROVE  ConnectInv'
  BY <1>10 DEF Return
<1>11. ASSUME NEW s \in Socket, Disconnect(s) PROVE ConnectInv'
  BY <1>11 DEF Disconnect, Stage, Silent, Asked, Replied
<1>12. ASSUME NEW s \in Socket, NEW msg \in {ConnectionConfirm, OtherTpdu}, PlcConfirms(s, msg)
       PROVE  ConnectInv'
  <2>1. /\ plc[s] = "COTP" /\ toPlc[s] # <<>> /\ Head(toPlc[s]) = "CR"
        /\ toPlc' = [toPlc EXCEPT ![s] = Tail(@)]
        /\ toClient' = [toClient EXCEPT ![s] = Append(@, msg)]
        /\ plc' = [plc EXCEPT ![s] = "SETUP"]
        /\ UNCHANGED <<step, last, sock, clients, pduSize, announced>>
    BY <1>12 DEF PlcConfirms, Hears, Answers
  <2>2. s \notin clients /\ s <= last /\ ~(step = "tcp" /\ s = last)
    BY <2>1
  <2>3. CASE step \in Handshake \cup {"tcp_done"} /\ s = last
    <3>1. step = "await_cc" /\ toPlc[s] = <<"CR">> /\ toClient[s] = <<>>
      BY <2>1, <2>3 DEF Stage, Silent, Asked, Replied
    <3>2. toPlc'[s] = <<>> /\ toClient'[s] = <<msg>> /\ plc'[s] = "SETUP"
      BY <2>1, <3>1
    <3>3. Stage(last)'
      BY <2>1, <2>3, <3>1, <3>2 DEF Stage
    <3>. QED  BY <2>1, <2>2, <3>3
  <2>4. CASE ~(step \in Handshake \cup {"tcp_done"} /\ s = last)
    <3>1. step' \in Handshake \cup {"tcp_done"} => Stage(last)'
      BY <2>1, <2>4, SMTT(60) DEF Stage, Silent, Asked, Replied
    <3>. QED  BY <2>1, <2>2, <3>1, ZenonT(60)
  <2>. QED  BY <2>3, <2>4
<1>13. ASSUME NEW s \in Socket, NEW msg,
              \/ msg \in Setup /\ PlcSetsUp(s, msg)
              \/ msg \in Refusal \cup {OtherTpdu} /\ PlcRefusesSetup(s, msg)
       PROVE  ConnectInv'
  <2>1. /\ plc[s] = "SETUP" /\ toPlc[s] # <<>> /\ Head(toPlc[s]) = "SETUP"
        /\ toPlc' = [toPlc EXCEPT ![s] = Tail(@)]
        /\ toClient' = [toClient EXCEPT ![s] = Append(@, msg)]
        /\ plc' = [plc EXCEPT ![s] = IF msg \in Setup THEN "READY" ELSE "SETUP"]
        /\ DOMAIN announced' = Socket
        /\ \A k \in Socket :
             announced'[k] = IF k = s /\ msg # OtherTpdu THEN msg ELSE announced[k]
        /\ UNCHANGED <<step, last, sock, clients, pduSize>>
    <3>1. CASE msg \in Setup /\ PlcSetsUp(s, msg)
      <4>1. msg # OtherTpdu
        BY <3>1, Kinds
      <4>. QED  BY <3>1, <4>1 DEF PlcSetsUp, Hears, Answers
    <3>2. CASE msg \in Refusal \cup {OtherTpdu} /\ PlcRefusesSetup(s, msg)
      <4>1. msg \notin Setup /\ (msg \in Refusal <=> msg # OtherTpdu)
        BY <3>2, Kinds
      <4>2. /\ DOMAIN announced' = Socket
            /\ \A k \in Socket :
                 announced'[k] = IF k = s /\ msg # OtherTpdu THEN msg ELSE announced[k]
        BY <3>2, <4>1 DEF PlcRefusesSetup
      <4>. QED  BY <3>2, <4>1, <4>2 DEF PlcRefusesSetup, Hears, Answers
    <3>. QED  BY <1>13, <3>1, <3>2
  <2>2. s \notin clients /\ s <= last /\ ~(step = "tcp" /\ s = last)
    BY <2>1
  <2>3. CASE step \in Handshake \cup {"tcp_done"} /\ s = last
    <3>1. /\ step = "await_setup" /\ toPlc[s] = <<"SETUP">> /\ toClient[s] = <<>>
          /\ announced[s] = NoSetup
      BY <2>1, <2>3 DEF Stage, Silent, Asked, Replied
    <3>2. /\ toPlc'[s] = <<>> /\ toClient'[s] = <<msg>>
          /\ plc'[s] = IF msg \in Setup THEN "READY" ELSE "SETUP"
          /\ announced'[s] = IF msg = OtherTpdu THEN NoSetup ELSE msg
      BY <2>1, <3>1
    <3>5. \/ msg \in Setup /\ msg # OtherTpdu
          \/ msg \in Refusal /\ msg # OtherTpdu
          \/ msg = OtherTpdu
      BY <1>13, Kinds
    <3>3. Replied(last)'
      <4>1. last' = last /\ last = s
        BY <2>1, <2>3
      <4>2. CASE msg = OtherTpdu
        BY <3>2, <4>1, <4>2 DEF Replied
      <4>3. CASE msg # OtherTpdu
        BY <3>2, <3>5, <4>1, <4>3 DEF Replied
      <4>. QED  BY <4>2, <4>3
    <3>4. Stage(last)'
      BY <2>1, <2>3, <3>1, <3>3 DEF Stage
    <3>. QED  BY <2>1, <2>2, <3>4
  <2>4. CASE ~(step \in Handshake \cup {"tcp_done"} /\ s = last)
    <3>1. step' \in Handshake \cup {"tcp_done"} => Stage(last)'
      <4>. SUFFICES ASSUME step \in Handshake \cup {"tcp_done"} PROVE Stage(last)'
        BY <2>1
      <4>1. /\ last # s /\ toPlc'[last] = toPlc[last] /\ toClient'[last] = toClient[last]
            /\ plc'[last] = plc[last] /\ announced'[last] = announced[last]
        BY <2>1, <2>4
      <4>. QED  BY <2>1, <4>1, SMTT(60) DEF Stage, Silent, Asked, Replied
    <3>. QED  BY <2>1, <2>2, <3>1, ZenonT(60)
  <2>. QED  BY <2>3, <2>4
<1>14. ASSUME NEW s \in Socket, PlcSeesClose(s) \/ PlcCloses(s) PROVE ConnectInv'
  <2>1. /\ plc[s] \in {"COTP", "SETUP", "READY"} /\ plc' = [plc EXCEPT ![s] = "ended"]
        /\ UNCHANGED <<step, last, sock, toPlc, toClient, clients, pduSize, announced>>
    BY <1>14 DEF PlcSeesClose, PlcCloses
  <2>2. s <= last /\ ~(step = "tcp" /\ s = last)
    BY <2>1
  <2>3. step' \in Handshake \cup {"tcp_done"} => Stage(last)'
    BY <2>1 DEF Stage, Silent, Asked, Replied
  <2>. QED  BY <2>1, <2>2, <2>3
<1>15. CASE UNCHANGED vars
  BY <1>15 DEF vars, Stage, Silent, Asked, Replied
<1>. HIDE DEF ConnectInv, Handshake, Socket
<1>16. CASE TcpFails \/ Timer \/ RefuseCc \/ RefuseSetup \/ PlcLost
  BY <1>4, <1>5, <1>16, <1>20
  DEF TcpFails, Timer, TcpTimeout, NegotiationTimeout, RefuseCc, RefuseSetup, Heard, PlcLost,
      Handshake
<1>17. CASE CancelConnect
  BY <1>4, <1>10, <1>17, <1>20 DEF CancelConnect
<1>18. ASSUME NEW s \in Socket, Handler(s) PROVE ConnectInv'
  BY <1>12, <1>13, <1>14, <1>18 DEF Handler
<1>. QED
  BY <1>1, <1>2, <1>3, <1>6, <1>7, <1>8, <1>9, <1>11, <1>14, <1>15, <1>16, <1>17, <1>18, <1>19
  DEF Next

(***************************************************************************)
(* connect succeeds only after an S7 answer to the Setup request on the     *)
(* very connection it returns, with the PDU size of that answer; the PLC is *)
(* ready if it agreed, and nothing of the handshake is left to be read.     *)
(***************************************************************************)
THEOREM ConnectMeansReady == Spec => []OkMeansReady
<1>1. ConnectInv => OkMeansReady
  BY DEF ConnectInv
<1>. QED
  BY ConnectInit, ConnectStep, <1>1, PTL DEF Spec

\* NoSocketLost with the types of what it speaks of.
SocketInv == step \in Steps /\ NoSocketLost /\ sock \in [Socket -> {"unused", "open", "closed"}]

(***************************************************************************)
(* An open socket belongs to the connect in progress, to a client, to a     *)
(* handshake that was cancelled, or to a TCP connection that was made just  *)
(* as the timer or a cancellation came.                                     *)
(***************************************************************************)
THEOREM SocketsAreKept == Spec => []NoSocketLost
<1>1. Init => SocketInv
  BY DEF Init, SocketInv, Steps, NoSocketLost
<1>2. SocketInv /\ [Next]_vars => SocketInv'
  <2>. SUFFICES ASSUME SocketInv, [Next]_vars PROVE SocketInv'
    OBVIOUS
  <2>. USE DEF SocketInv, Steps, Handshake, NoSocketLost
  <2>1. CASE Connect
    BY <2>1 DEF Connect
  <2>2. CASE ConnectAgain
    BY <2>2 DEF ConnectAgain, Return
  <2>3. CASE TcpConnected
    BY <2>3 DEF TcpConnected
  <2>4. ASSUME NEW res, TcpGivesUp(res) PROVE SocketInv'
    BY <2>4 DEF TcpGivesUp, Return
  <2>13. CASE TcpHandedOver
    BY <2>13 DEF TcpHandedOver
  <2>14. ASSUME NEW res, TcpOutrun(res) PROVE SocketInv'
    BY <2>14 DEF TcpOutrun, Return
  <2>5. ASSUME NEW res, Abandon(res) PROVE SocketInv'
    BY <2>5 DEF Abandon, Return
  <2>6. CASE SendCr \/ SendSetup
    BY <2>6 DEF SendCr, SendSetup, Say
  <2>7. CASE ReceiveCc
    BY <2>7 DEF ReceiveCc, Heard
  <2>8. CASE ReceiveSetup
    BY <2>8 DEF ReceiveSetup, Return
  <2>9. CASE CancelConnect
    BY <2>4, <2>9, <2>14 DEF CancelConnect, Return
  <2>10. ASSUME NEW s \in Socket, Disconnect(s) PROVE SocketInv'
    BY <2>10 DEF Disconnect
  <2>11. CASE UNCHANGED <<step, last, sock, clients, orphans>>
    BY <2>11
  <2>. QED
    BY <2>1, <2>2, <2>3, <2>4, <2>5, <2>6, <2>7, <2>8, <2>9, <2>10, <2>11, <2>13, <2>14
    DEF Next, TcpFails, Timer, TcpTimeout, NegotiationTimeout, RefuseCc, RefuseSetup, PlcLost,
        Handler, PlcConfirms, PlcSetsUp, PlcRefusesSetup, PlcSeesClose, PlcCloses, Answers, vars
<1>3. SocketInv => NoSocketLost
  BY DEF SocketInv
<1>. QED
  BY <1>1, <1>2, <1>3, PTL DEF Spec
------------------------------------------------------------------------------
(***************************************************************************)
(* Induction over the natural numbers, on sets, as the order on Nat is      *)
(* well-founded: a set of numbers that is not empty has a smallest element  *)
(* ...                                                                      *)
(***************************************************************************)
LEMMA Smallest ==
  ASSUME NEW T, T \subseteq Nat, T # {}
  PROVE  \E k \in T : \A m \in T : k <= m
<1>1. PICK x \in T : \A y \in T : ~ (<<y, x>> \in OpToRel(<,Nat))
  BY NatLessThanWellFounded, WFMin
<1>2. \A y, z \in Nat : <<y, z>> \in OpToRel(<,Nat) <=> y < z
  BY DEF OpToRel
<1>3. ASSUME NEW y \in T PROVE x <= y
  <2>1. x \in Nat /\ y \in Nat
    OBVIOUS
  <2>2. ~(y < x)
    BY <1>1, <1>2, <2>1, Zenon
  <2>3. QED
    BY <2>1, <2>2
<1>4. QED
  BY <1>3

\* ... and a set with 0 and the successors of its numbers has all of them.
LEMMA Upward ==
  ASSUME NEW S, 0 \in S, \A k \in Nat : k \in S => k + 1 \in S
  PROVE  Nat \subseteq S
<1>1. SUFFICES ASSUME NEW k \in Nat, k \notin S PROVE FALSE
  OBVIOUS
<1>2. PICK T : T = {m \in Nat : m \notin S}
  OBVIOUS
<1>3. PICK k1 \in T : \A m \in T : k1 <= m
  BY <1>1, <1>2, Smallest
<1>4. k1 # 0 /\ k1 \in Nat /\ k1 \notin S
  BY <1>2
<1>5. k1 - 1 \in Nat /\ ~(k1 <= k1 - 1) /\ (k1 - 1) + 1 = k1
  BY <1>4
<1>6. k1 - 1 \in S
  BY <1>2, <1>3, <1>5
<1>7. QED
  BY <1>4, <1>5, <1>6

------------------------------------------------------------------------------
(***************************************************************************)
(* FlattenSeq by its recursion: f holds the concatenation of the first i    *)
(* sequences for each i ...                                                 *)
(***************************************************************************)
Joined(seqs, f, i) == IF i = 1 THEN seqs[i] ELSE f[i - 1] \o seqs[i]

\* ... there is such an f, of every length ...
LEMMA JoinedExists ==
  ASSUME NEW seqs, NEW m \in Nat
  PROVE  \E f : f = [i \in 1 .. m |-> Joined(seqs, f, i)]
<1> DEFINE S == {k \in Nat : \E f : f = [i \in 1 .. k |-> Joined(seqs, f, i)]}
<1>1. 0 \in S
  <2>1. \A f : [i \in 1 .. 0 |-> Joined(seqs, f, i)] = <<>>
    OBVIOUS
  <2>2. QED
    BY <2>1
<1>2. ASSUME NEW k \in Nat, k \in S PROVE k + 1 \in S
  <2>1. PICK f : f = [i \in 1 .. k |-> Joined(seqs, f, i)]
    BY <1>2
  <2>2. PICK g : g = [i \in 1 .. k + 1 |-> IF i <= k THEN f[i] ELSE Joined(seqs, f, i)]
    OBVIOUS
  <2>3. ASSUME NEW i \in 1 .. k + 1 PROVE g[i] = Joined(seqs, g, i)
    <3>1. CASE i = 1
      BY <2>1, <2>2, <3>1 DEF Joined
    <3>2. CASE i # 1
      <4>1. i - 1 \in 1 .. k /\ g[i - 1] = f[i - 1]
        BY <2>2, <3>2
      <4>2. g[i] = Joined(seqs, f, i)
        BY <2>1, <2>2
      <4>3. QED
        BY <4>1, <4>2 DEF Joined
    <3>3. QED
      BY <3>1, <3>2
  <2>4. g = [i \in 1 .. k + 1 |-> Joined(seqs, g, i)]
    BY <2>2, <2>3
  <2>5. QED
    BY <2>4
<1>3. Nat \subseteq S
  BY <1>1, <1>2, Upward
<1>4. QED
  BY <1>3

\* ... and FlattenSeq returns what it holds for all of them.
LEMMA FlattenUnfolds ==
  ASSUME NEW seqs, Len(seqs) \in Nat \ {0}
  PROVE  \E f : f = [i \in 1 .. Len(seqs) |-> Joined(seqs, f, i)] /\ FlattenSeq(seqs) = f[Len(seqs)]
<1>1. \E f : f = [i \in 1 .. Len(seqs) |-> Joined(seqs, f, i)]
  BY JoinedExists
<1>2. QED
  BY <1>1 DEF FlattenSeq, Joined

------------------------------------------------------------------------------
(***************************************************************************)
(* decode_utf8 by its recursion: f holds what is decoded from place i on.   *)
(***************************************************************************)
Decoded(bytes, f, i) ==
  IF i > Len(bytes) THEN <<>>
  ELSE LET next == i + Called(bytes[i])
       IN  IF next <= Len(bytes) + 1
           THEN <<SubSeq(bytes, i, next - 1)>> \o f[next]
           ELSE f[i + 1]

\* There is such an f from every place to the end; by induction from the end,
\* as it is defined from later places.
LEMMA DecodedExists ==
  ASSUME NEW bytes, Len(bytes) \in Nat, \A i \in 1 .. Len(bytes) : Called(bytes[i]) \in 1 .. 4,
         NEW m \in 0 .. Len(bytes)
  PROVE  \E f : f = [i \in Len(bytes) + 1 - m .. Len(bytes) + 1 |-> Decoded(bytes, f, i)]
<1> DEFINE N == Len(bytes)
<1> DEFINE S == {k \in Nat : k <= N => \E f : f = [i \in N + 1 - k .. N + 1 |-> Decoded(bytes, f, i)]}
<1> HIDE DEF N
<1>0. N \in Nat /\ Len(bytes) = N
  BY DEF N
<1>1. 0 \in S
  <2>1. PICK f : f = [i \in N + 1 .. N + 1 |-> <<>>]
    OBVIOUS
  <2>2. \A i \in N + 1 .. N + 1 : Decoded(bytes, f, i) = <<>>
    BY <1>0 DEF Decoded
  <2>3. f = [i \in N + 1 - 0 .. N + 1 |-> Decoded(bytes, f, i)]
    BY <1>0, <2>1, <2>2
  <2>4. QED
    BY <2>3
<1>2. ASSUME NEW k \in Nat, k \in S PROVE k + 1 \in S
  <2>0. SUFFICES ASSUME k + 1 <= N
                 PROVE  \E g : g = [i \in N + 1 - (k + 1) .. N + 1 |-> Decoded(bytes, g, i)]
    OBVIOUS
  <2>1. PICK f : f = [i \in N + 1 - k .. N + 1 |-> Decoded(bytes, f, i)]
    BY <1>2, <2>0, <1>0
  <2>2. PICK g : g = [i \in N - k .. N + 1 |-> IF i >= N + 1 - k THEN f[i] ELSE Decoded(bytes, f, i)]
    OBVIOUS
  <2>3. ASSUME NEW i \in N - k .. N + 1 PROVE g[i] = Decoded(bytes, g, i)
    <3>0. i \in 1 .. N + 1 /\ k \in Nat
      BY <1>0, <2>0
    <3>1. g[i] = Decoded(bytes, f, i)
      <4>1. i >= N + 1 - k => i \in N + 1 - k .. N + 1
        BY <1>0, <3>0
      <4>2. g[i] = IF i >= N + 1 - k THEN f[i] ELSE Decoded(bytes, f, i)
        BY <2>2, Zenon
      <4>3. i \in N + 1 - k .. N + 1 => f[i] = Decoded(bytes, f, i)
        BY <2>1, Zenon
      <4>4. QED
        BY <4>1, <4>2, <4>3, Zenon
    <3>2. CASE i = N + 1
      BY <3>1, <3>2, <1>0 DEF Decoded
    <3>3. CASE i # N + 1
      <4>1. i + 1 \in N + 1 - k .. N + 1 /\ ~(i > N) /\ i \in 1 .. N
        BY <3>0, <3>3, <1>0
      <4>2. Called(bytes[i]) \in 1 .. 4
        BY <4>1, <1>0
      <4>3. i + Called(bytes[i]) <= N + 1 => i + Called(bytes[i]) \in N + 1 - k .. N + 1
        BY <4>1, <4>2, <1>0
      <4>4. \A j \in N + 1 - k .. N + 1 : g[j] = f[j]
        BY <2>2, <1>0, <2>0
      <4>5. QED
        BY <3>1, <4>1, <4>3, <4>4, <1>0 DEF Decoded
    <3>4. QED
      BY <3>2, <3>3
  <2>4. N + 1 - (k + 1) = N - k
    BY <1>0
  <2>5. g = [i \in N - k .. N + 1 |-> Decoded(bytes, g, i)]
    BY <2>2, <2>3
  <2>6. QED
    BY <2>4, <2>5
<1>3. Nat \subseteq S
  BY <1>1, <1>2, Upward
<1>4. m \in S /\ m <= N
  BY <1>3, <1>0
<1>5. QED
  BY <1>4, <1>0

\* decode_utf8 returns what it holds for the first place.
LEMMA DecodeUnfolds ==
  ASSUME NEW bytes, Len(bytes) \in Nat, \A i \in 1 .. Len(bytes) : Called(bytes[i]) \in 1 .. 4
  PROVE  \E f : f = [i \in 1 .. Len(bytes) + 1 |-> Decoded(bytes, f, i)] /\ decode_utf8(bytes) = f[1]
<1>1. \E f : f = [i \in 1 .. Len(bytes) + 1 |-> Decoded(bytes, f, i)]
  <2>1. Len(bytes) + 1 - Len(bytes) = 1 /\ Len(bytes) \in 0 .. Len(bytes)
    OBVIOUS
  <2>2. QED
    BY <2>1, DecodedExists
<1>2. decode_utf8(bytes) =
        (CHOOSE f : f = [i \in 1 .. Len(bytes) + 1 |-> Decoded(bytes, f, i)])[1]
  BY DEF decode_utf8, Decoded
<1>3. QED
  BY <1>1, <1>2

------------------------------------------------------------------------------
(***************************************************************************)
(* One more sequence is one more at the end of what FlattenSeq returns.     *)
(***************************************************************************)
LEMMA FlattenAppend ==
  ASSUME NEW S, NEW seqs \in Seq(Seq(S)), NEW s \in Seq(S)
  PROVE  /\ FlattenSeq(seqs) \in Seq(S)
         /\ FlattenSeq(Append(seqs, s)) = FlattenSeq(seqs) \o s
<1>1. PICK N \in Nat : N = Len(seqs)
  OBVIOUS
<1>2. PICK more : more = Append(seqs, s)
  OBVIOUS
<1>3. /\ more \in Seq(Seq(S)) /\ Len(more) = N + 1 /\ more[N + 1] = s
      /\ \A i \in 1 .. N : more[i] = seqs[i] /\ seqs[i] \in Seq(S)
  BY <1>1, <1>2
<1>4. PICK g : g = [i \in 1 .. N + 1 |-> Joined(more, g, i)] /\ FlattenSeq(more) = g[N + 1]
  <2>1. Len(more) \in Nat \ {0}
    BY <1>3
  <2>2. QED
    BY <1>3, <2>1, FlattenUnfolds
<1>5. CASE N = 0
  <2>1. seqs = <<>>
    BY <1>1, <1>5, EmptySeq
  <2>2. FlattenSeq(seqs) = <<>>
    BY <1>1, <1>5, <2>1 DEF FlattenSeq
  <2>3. g[1] = more[1]
    BY <1>4, <1>5 DEF Joined
  <2>4. FlattenSeq(more) = s
    BY <1>3, <1>4, <1>5, <2>3
  <2>5. <<>> \o s = s /\ <<>> \in Seq(S)
    OBVIOUS
  <2>6. QED
    BY <1>2, <2>2, <2>4, <2>5
<1>6. CASE N # 0
  <2>1. PICK f : f = [i \in 1 .. N |-> Joined(seqs, f, i)] /\ FlattenSeq(seqs) = f[N]
    <3>1. Len(seqs) \in Nat \ {0}
      BY <1>1, <1>6
    <3>2. QED
      BY <1>1, <3>1, FlattenUnfolds
  <2> DEFINE T == {k \in Nat : k \in 1 .. N => f[k] = g[k] /\ f[k] \in Seq(S)}
  <2>2. 0 \in T
    OBVIOUS
  <2>3. ASSUME NEW k \in Nat, k \in T PROVE k + 1 \in T
    <3>0. SUFFICES ASSUME k + 1 \in 1 .. N PROVE f[k + 1] = g[k + 1] /\ f[k + 1] \in Seq(S)
      OBVIOUS
    <3>1. f[k + 1] = Joined(seqs, f, k + 1) /\ g[k + 1] = Joined(more, g, k + 1)
      <4>1. k + 1 \in 1 .. N + 1
        BY <3>0
      <4>2. QED
        BY <1>4, <2>1, <3>0, <4>1
    <3>2. CASE k = 0
      BY <1>3, <3>0, <3>1, <3>2 DEF Joined
    <3>3. CASE k # 0
      <4>1. k \in 1 .. N /\ (k + 1) - 1 = k /\ k + 1 # 1
        BY <3>0, <3>3
      <4>2. f[k] = g[k] /\ f[k] \in Seq(S)
        BY <2>3, <4>1
      <4>3. f[k + 1] = f[k] \o seqs[k + 1] /\ g[k + 1] = g[k] \o more[k + 1]
        BY <3>1, <4>1 DEF Joined
      <4>4. seqs[k + 1] \in Seq(S) /\ more[k + 1] = seqs[k + 1]
        BY <1>3, <3>0
      <4>5. f[k] \o seqs[k + 1] \in Seq(S)
        BY <4>2, <4>4
      <4>6. QED
        BY <4>2, <4>3, <4>4, <4>5
    <3>4. QED
      BY <3>2, <3>3
  <2>4. Nat \subseteq T
    <3> HIDE DEF T
    <3>1. QED
      BY <2>2, <2>3, Upward
  <2>5. f[N] = g[N] /\ f[N] \in Seq(S)
    BY <1>6, <2>4
  <2>6. g[N + 1] = g[N] \o s
    <3>1. N + 1 # 1 /\ (N + 1) - 1 = N /\ N + 1 \in 1 .. N + 1
      BY <1>6
    <3>2. g[N + 1] = Joined(more, g, N + 1)
      BY <1>4, <3>1
    <3>3. QED
      BY <1>3, <3>1, <3>2 DEF Joined
  <2>7. QED
    BY <1>2, <1>4, <2>1, <2>5, <2>6
<1>7. QED
  BY <1>5, <1>6

\* The bytes of the characters.
Code(c, k) == [char |-> c.name, width |-> Width(c), part |-> k]
Codes == {Code(c, k) : c \in Alphabet, k \in 1 .. 4}

\* Whichever leads, decode_utf8 takes 1 to 4 bytes with it.
LEMMA CodesAreBytes ==
  \A b \in Codes : b.part \in 1 .. 4 /\ b.width \in 1 .. 4 /\ Called(b) \in 1 .. 4 /\ b # Other
BY AlphabetAssumption DEF Codes, Code, Called, Other, Width

\* The encoding of a character: its parts in their order.
LEMMA EncodingIs ==
  ASSUME NEW c \in Alphabet
  PROVE  /\ Width(c) \in 1 .. 4
         /\ Encoding(c) \in Seq(Codes)
         /\ Len(Encoding(c)) = Width(c)
         /\ \A k \in 1 .. Width(c) :
              Encoding(c)[k].part = k /\ Encoding(c)[k].width = Width(c)
<1>1. Width(c) \in 1 .. 4
  BY AlphabetAssumption DEF Width
<1>2. Encoding(c) = [k \in 1 .. Width(c) |-> Code(c, k)]
  BY DEF Encoding, Code
<1>3. \A k \in 1 .. Width(c) : Code(c, k) \in Codes
  <2>1. TAKE k \in 1 .. Width(c)
  <2>2. k \in 1 .. 4
    BY <1>1
  <2>3. QED
    BY <2>2 DEF Codes
<1>4. Encoding(c) \in [1 .. Width(c) -> Codes]
  BY <1>2, <1>3
<1>5. Encoding(c) \in Seq(Codes) /\ Len(Encoding(c)) = Width(c)
  BY <1>1, <1>4
<1>6. QED
  BY <1>1, <1>2, <1>5 DEF Code

\* The characters of a text, one by one.
LEMMA CharactersAre ==
  ASSUME NEW t \in Seq(Alphabet)
  PROVE  /\ Characters(t) \in Seq(Seq(Codes)) /\ Len(Characters(t)) = Len(t)
         /\ \A k \in 1 .. Len(t) : Characters(t)[k] = Encoding(t[k])
<1>1. DOMAIN t = 1 .. Len(t) /\ \A k \in 1 .. Len(t) : t[k] \in Alphabet
  OBVIOUS
<1>2. \A k \in 1 .. Len(t) : Encoding(t[k]) \in Seq(Codes)
  BY <1>1, EncodingIs
<1>3. QED
  BY <1>1, <1>2 DEF Characters

\* A character at the end of a text is its encoding at the end of the bytes.
LEMMA BytesAppend ==
  ASSUME NEW t \in Seq(Alphabet), NEW c \in Alphabet
  PROVE  Bytes(t) \in Seq(Codes) /\ Bytes(Append(t, c)) = Bytes(t) \o Encoding(c)
<1>1. PICK more : more = Append(t, c)
  OBVIOUS
<1>2. more \in Seq(Alphabet) /\ Len(more) = Len(t) + 1 /\ more[Len(t) + 1] = c
      /\ \A k \in 1 .. Len(t) : more[k] = t[k]
  BY <1>1
<1>3. Characters(more) = Append(Characters(t), Encoding(c))
  <2>1. Characters(t) \in Seq(Seq(Codes)) /\ Characters(more) \in Seq(Seq(Codes))
        /\ Len(Characters(t)) = Len(t) /\ Len(Characters(more)) = Len(t) + 1
    BY <1>2, CharactersAre
  <2>0. /\ \A k \in 1 .. Len(more) : Characters(more)[k] = Encoding(more[k])
        /\ \A k \in 1 .. Len(t) : Characters(t)[k] = Encoding(t[k])
    BY <1>2, CharactersAre
  <2>2. \A k \in 1 .. Len(t) : Characters(more)[k] = Characters(t)[k]
    BY <1>2, <2>0
  <2>3. Characters(more)[Len(t) + 1] = Encoding(c)
    BY <1>2, <2>0
  <2>4. Encoding(c) \in Seq(Codes)
    BY EncodingIs
  <2>5. QED
    BY <2>1, <2>2, <2>3, <2>4
<1>4. FlattenSeq(Characters(t)) \in Seq(Codes)
      /\ FlattenSeq(Append(Characters(t), Encoding(c))) = FlattenSeq(Characters(t)) \o Encoding(c)
  BY CharactersAre, EncodingIs, FlattenAppend
<1>5. QED
  BY <1>1, <1>3, <1>4 DEF Bytes, Characters

\* The empty text has no bytes.
LEMMA BytesOfNone == Bytes(<<>>) = <<>>
BY DEF Bytes, FlattenSeq

------------------------------------------------------------------------------
(***************************************************************************)
(* How many bytes the first m characters of a text take.                    *)
(***************************************************************************)
Upto(t, m) == Len(Bytes(SubSeq(t, 1, m)))

\* A prefix that is one character longer has the encoding of that one more.
LEMMA PrefixGrows ==
  ASSUME NEW t \in Seq(Alphabet), NEW m \in 0 .. Len(t) - 1
  PROVE  /\ SubSeq(t, 1, m) \in Seq(Alphabet) /\ t[m + 1] \in Alphabet
         /\ SubSeq(t, 1, m + 1) = Append(SubSeq(t, 1, m), t[m + 1])
         /\ Bytes(SubSeq(t, 1, m)) \in Seq(Codes)
         /\ Bytes(SubSeq(t, 1, m + 1)) = Bytes(SubSeq(t, 1, m)) \o Encoding(t[m + 1])
<1>1. t[m + 1] \in Alphabet /\ SubSeq(t, 1, m) \in Seq(Alphabet)
      /\ SubSeq(t, 1, m + 1) \in Seq(Alphabet)
  OBVIOUS
<1>2. /\ Len(SubSeq(t, 1, m)) = m /\ Len(SubSeq(t, 1, m + 1)) = m + 1
      /\ \A i \in 1 .. m : SubSeq(t, 1, m)[i] = t[i]
      /\ \A i \in 1 .. m + 1 : SubSeq(t, 1, m + 1)[i] = t[i]
  OBVIOUS
<1>3. SubSeq(t, 1, m + 1) = Append(SubSeq(t, 1, m), t[m + 1])
  BY <1>1, <1>2
<1>4. QED
  BY <1>1, <1>3, BytesAppend

\* The places at which the characters start are sums of widths.
LEMMA UptoGrows ==
  ASSUME NEW t \in Seq(Alphabet)
  PROVE  /\ Upto(t, 0) = 0
         /\ \A m \in 0 .. Len(t) : Bytes(SubSeq(t, 1, m)) \in Seq(Codes) /\ Upto(t, m) \in Nat
         /\ \A m \in 0 .. Len(t) - 1 :
              Width(t[m + 1]) \in 1 .. 4 /\ Upto(t, m + 1) = Upto(t, m) + Width(t[m + 1])
<1>1. SubSeq(t, 1, 0) = <<>>
  OBVIOUS
<1>2. Bytes(SubSeq(t, 1, 0)) = <<>> /\ Upto(t, 0) = 0
  <2>1. Bytes(SubSeq(t, 1, 0)) = <<>>
    BY <1>1, BytesOfNone, Zenon
  <2>2. Upto(t, 0) = Len(<<>>)
    BY <2>1, Zenon DEF Upto
  <2>3. QED
    BY <2>1, <2>2
<1>3. ASSUME NEW m \in 0 .. Len(t) - 1
      PROVE  /\ Bytes(SubSeq(t, 1, m + 1)) \in Seq(Codes)
             /\ Width(t[m + 1]) \in 1 .. 4 /\ Upto(t, m + 1) = Upto(t, m) + Width(t[m + 1])
  <2>1. Bytes(SubSeq(t, 1, m)) \in Seq(Codes) /\ t[m + 1] \in Alphabet
        /\ Bytes(SubSeq(t, 1, m + 1)) = Bytes(SubSeq(t, 1, m)) \o Encoding(t[m + 1])
    BY PrefixGrows
  <2>2. Encoding(t[m + 1]) \in Seq(Codes) /\ Len(Encoding(t[m + 1])) = Width(t[m + 1])
        /\ Width(t[m + 1]) \in 1 .. 4
    BY <2>1, EncodingIs
  <2>3. PICK b, e : b = Bytes(SubSeq(t, 1, m)) /\ e = Encoding(t[m + 1])
    OBVIOUS
  <2>4. b \o e \in Seq(Codes) /\ Len(b \o e) = Len(b) + Len(e)
    BY <2>1, <2>2, <2>3
  <2>5. Bytes(SubSeq(t, 1, m + 1)) = b \o e /\ Upto(t, m + 1) = Len(b \o e) /\ Upto(t, m) = Len(b)
    BY <2>1, <2>3, Zenon DEF Upto
  <2>6. QED
    BY <2>2, <2>3, <2>4, <2>5
<1>4. ASSUME NEW m \in 0 .. Len(t) PROVE Bytes(SubSeq(t, 1, m)) \in Seq(Codes)
  <2>1. CASE m = 0
    <3>1. <<>> \in Seq(Codes)
      OBVIOUS
    <3>2. QED
      BY <1>2, <2>1, <3>1, Zenon
  <2>2. CASE m # 0
    <3>1. m - 1 \in 0 .. Len(t) - 1 /\ (m - 1) + 1 = m
      BY <2>2
    <3>2. QED
      BY <1>3, <3>1
  <2>3. QED
    BY <2>1, <2>2
<1>5. QED
  BY <1>2, <1>3, <1>4 DEF Upto

\* The elements of a concatenation.
LEMMA Concatenated ==
  ASSUME NEW S, NEW a \in Seq(S), NEW b \in Seq(S)
  PROVE  /\ a \o b \in Seq(S) /\ Len(a \o b) = Len(a) + Len(b)
         /\ \A k \in 1 .. Len(a) + Len(b) :
              (a \o b)[k] = IF k <= Len(a) THEN a[k] ELSE b[k - Len(a)]
OBVIOUS

\* In the bytes of a prefix every character of it is at its place.
LEMMA BytesPlaces ==
  ASSUME NEW t \in Seq(Alphabet)
  PROVE  \A j \in 0 .. Len(t) : \A m \in 0 .. j - 1 :
           /\ Upto(t, m + 1) <= Upto(t, j)
           /\ \A k \in 1 .. Width(t[m + 1]) :
                Bytes(SubSeq(t, 1, j))[Upto(t, m) + k] = Encoding(t[m + 1])[k]
<1> DEFINE Placed(j) ==
      \A m \in 0 .. j - 1 :
        /\ Upto(t, m + 1) <= Upto(t, j)
        /\ \A k \in 1 .. Width(t[m + 1]) :
             Bytes(SubSeq(t, 1, j))[Upto(t, m) + k] = Encoding(t[m + 1])[k]
<1> DEFINE S == {j \in Nat : j <= Len(t) => Placed(j)}
<1>1. 0 \in S
  OBVIOUS
<1>2. ASSUME NEW j \in Nat, j \in S PROVE j + 1 \in S
  <2>0. SUFFICES ASSUME j + 1 <= Len(t) PROVE Placed(j + 1)
    OBVIOUS
  <2>1. Placed(j) /\ j \in 0 .. Len(t) - 1
    BY <1>2, <2>0
  <2>2. PICK b, e : b = Bytes(SubSeq(t, 1, j)) /\ e = Encoding(t[j + 1])
    OBVIOUS
  <2>3. /\ b \in Seq(Codes) /\ Bytes(SubSeq(t, 1, j + 1)) = b \o e /\ t[j + 1] \in Alphabet
        /\ Len(b) = Upto(t, j)
    BY <2>1, <2>2, PrefixGrows DEF Upto
  <2>4. e \in Seq(Codes) /\ Len(e) = Width(t[j + 1])
    BY <2>2, <2>3, EncodingIs
  <2>5. \A i \in 1 .. Len(b) + Len(e) : (b \o e)[i] = IF i <= Len(b) THEN b[i] ELSE e[i - Len(b)]
    BY <2>3, <2>4, Concatenated, Zenon
  <2>6. ASSUME NEW m \in 0 .. (j + 1) - 1
        PROVE  /\ Upto(t, m + 1) <= Upto(t, j + 1)
               /\ \A k \in 1 .. Width(t[m + 1]) :
                    (b \o e)[Upto(t, m) + k] = Encoding(t[m + 1])[k]
    <3>1. m \in 0 .. Len(t) - 1 /\ m \in 0 .. Len(t)
      BY <2>1
    <3>2. Upto(t, m) \in Nat /\ Upto(t, m + 1) = Upto(t, m) + Width(t[m + 1])
          /\ Width(t[m + 1]) \in 1 .. 4
      BY <3>1, UptoGrows
    <3>3. Upto(t, j) \in Nat /\ Upto(t, j + 1) = Upto(t, j) + Width(t[j + 1])
          /\ Width(t[j + 1]) \in 1 .. 4
      BY <2>1, UptoGrows
    <3>4. CASE m = j
      <4>1. \A k \in 1 .. Width(t[j + 1]) : (b \o e)[Upto(t, j) + k] = e[k]
        <5>1. Len(b) = Upto(t, j) /\ Len(b) \in Nat /\ Len(e) = Width(t[j + 1])
          BY <2>3, <2>4
        <5>2. ASSUME NEW k \in 1 .. Width(t[j + 1])  PROVE (b \o e)[Upto(t, j) + k] = e[k]
          <6>1. Upto(t, j) + k \in 1 .. Len(b) + Len(e) /\ ~(Upto(t, j) + k <= Len(b))
                /\ (Upto(t, j) + k) - Len(b) = k
            BY <3>3, <5>1, <5>2
          <6>2. QED
            BY <2>5, <6>1, Zenon
        <5>3. QED
          BY <5>2
      <4>2. Upto(t, j + 1) <= Upto(t, j + 1)
        BY <3>3
      <4>3. QED
        BY <2>2, <3>4, <4>1, <4>2, Zenon
    <3>5. CASE m # j
      <4>1. m \in 0 .. j - 1
        BY <3>5
      <4>2. Upto(t, m + 1) <= Upto(t, j)
            /\ \A k \in 1 .. Width(t[m + 1]) : b[Upto(t, m) + k] = Encoding(t[m + 1])[k]
        BY <2>1, <2>2, <4>1
      <4>3. ASSUME NEW k \in 1 .. Width(t[m + 1])
            PROVE  (b \o e)[Upto(t, m) + k] = b[Upto(t, m) + k]
        <5>1. Len(b) \in Nat /\ Len(e) \in Nat /\ Upto(t, m) + k <= Upto(t, j)
          BY <2>3, <2>4, <3>2, <3>3, <4>2, SMTT(60)
        <5>2. Upto(t, m) + k \in 1 .. Len(b) + Len(e) /\ Upto(t, m) + k <= Len(b)
          BY <2>3, <3>2, <3>3, <5>1, SMTT(60)
        <5>3. QED
          BY <2>5, <5>2, Zenon
      <4>4. Upto(t, m + 1) <= Upto(t, j + 1)
        BY <3>2, <3>3, <4>2, SMTT(60)
      <4>5. QED
        BY <4>2, <4>3, <4>4, Zenon
    <3>6. QED
      BY <3>4, <3>5
  <2>7. QED
    BY <2>3, <2>6, Zenon
<1>3. Nat \subseteq S
  <2> HIDE DEF S
  <2>1. QED
    BY <1>1, <1>2, Upward
<1>4. QED
  BY <1>3, SMTT(60)

\* A longer prefix takes no fewer bytes.
LEMMA UptoMonotone ==
  ASSUME NEW t \in Seq(Alphabet), NEW m \in 0 .. Len(t), NEW j \in m .. Len(t)
  PROVE  Upto(t, m) \in Nat /\ Upto(t, j) \in Nat /\ Upto(t, m) <= Upto(t, j)
<1>1. Upto(t, m) \in Nat /\ Upto(t, j) \in Nat
  BY UptoGrows
<1>2. CASE m = j
  BY <1>1, <1>2
<1>3. CASE m # j
  <2>1. m \in 0 .. j - 1 /\ j \in 0 .. Len(t) /\ m \in 0 .. Len(t) - 1
    BY <1>3
  <2>2. Upto(t, m + 1) <= Upto(t, j)
    BY <2>1, BytesPlaces
  <2>3. Upto(t, m + 1) = Upto(t, m) + Width(t[m + 1]) /\ Width(t[m + 1]) \in 1 .. 4
    BY <2>1, UptoGrows
  <2>4. QED
    BY <1>1, <2>2, <2>3
<1>4. QED
  BY <1>2, <1>3

\* What fits is the prefix after which the next character does not.
LEMMA FittingIs ==
  ASSUME NEW t \in Seq(Alphabet), NEW size_ \in Nat
  PROVE  \E p \in 0 .. Len(t) :
           /\ Fitting(t, size_) = SubSeq(t, 1, p)
           /\ Upto(t, p) <= size_
           /\ p < Len(t) => Upto(t, p + 1) > size_
<1> DEFINE T == {m \in 0 .. Len(t) : m = Len(t) \/ Upto(t, m + 1) > size_}
<1>1. PICK p \in T : \A m \in T : p <= m
  <2>1. T \subseteq Nat /\ Len(t) \in T
    OBVIOUS
  <2>2. QED
    BY <2>1, Smallest
<1>2. p \in 0 .. Len(t) /\ (p < Len(t) => Upto(t, p + 1) > size_)
  OBVIOUS
<1>3. Upto(t, p) <= size_
  <2>1. CASE p = 0
    BY <2>1, UptoGrows
  <2>2. CASE p # 0
    <3>1. p - 1 \in 0 .. Len(t) /\ p - 1 # Len(t) /\ ~(p <= p - 1) /\ (p - 1) + 1 = p
      BY <1>2, <2>2
    <3>2. ~(Upto(t, p) > size_)
      BY <1>1, <3>1
    <3>3. Upto(t, p) \in Nat
      BY <1>2, UptoGrows
    <3>4. QED
      BY <3>2, <3>3
  <2>3. QED
    BY <2>1, <2>2
<1>4. \A l \in 0 .. Len(t) : Upto(t, l) <= size_ => l <= p
  <2>1. SUFFICES ASSUME NEW l \in 0 .. Len(t), l > p PROVE Upto(t, l) > size_
    BY <1>2, UptoGrows
  <2>2. p + 1 \in 0 .. Len(t) /\ l \in p + 1 .. Len(t) /\ p < Len(t)
    BY <1>2, <2>1
  <2>3. Upto(t, p + 1) \in Nat /\ Upto(t, l) \in Nat /\ Upto(t, p + 1) <= Upto(t, l)
    BY <2>2, UptoMonotone
  <2>4. QED
    BY <1>2, <2>2, <2>3
<1> DEFINE Fits(q) ==
      /\ Len(Bytes(q)) <= size_
      /\ \A r \in Prefixes(t) : Len(Bytes(r)) <= size_ => Len(r) <= Len(q)
<1>5. Prefixes(t) = {SubSeq(t, 1, l) : l \in 0 .. Len(t)}
  BY DEF Prefixes
<1>6. \A l \in 0 .. Len(t) : Len(SubSeq(t, 1, l)) = l /\ Len(Bytes(SubSeq(t, 1, l))) = Upto(t, l)
  BY DEF Upto
<1>7. SubSeq(t, 1, p) \in Prefixes(t) /\ Fits(SubSeq(t, 1, p))
  BY <1>2, <1>3, <1>4, <1>5, <1>6
<1>8. \A q \in Prefixes(t) : Fits(q) => q = SubSeq(t, 1, p)
  <2>1. SUFFICES ASSUME NEW l \in 0 .. Len(t), Fits(SubSeq(t, 1, l)) PROVE l = p
    BY <1>5
  <2>2. p <= l
    BY <1>2, <1>3, <1>6, <1>7, <2>1
  <2>3. l <= p
    BY <1>4, <1>6, <2>1
  <2>4. QED
    BY <1>2, <2>2, <2>3
<1>9. Fitting(t, size_) = CHOOSE q \in Prefixes(t) : Fits(q)
  BY DEF Fitting
<1>10. Fitting(t, size_) = SubSeq(t, 1, p)
  <2> HIDE DEF Fits
  <2>1. QED
    BY <1>7, <1>8, <1>9
<1>11. QED
  BY <1>2, <1>3, <1>10

------------------------------------------------------------------------------
(***************************************************************************)
(* The bytes D decoded from every place on, and a D that starts with the    *)
(* first p characters of t.                                                 *)
(***************************************************************************)
Decodes(D, f) == f = [i \in 1 .. Len(D) + 1 |-> Decoded(D, f, i)]
StartsWith(D, t, p) ==
  \A m \in 0 .. p - 1 : \A k \in 1 .. Width(t[m + 1]) :
    D[Upto(t, m) + k] = Encoding(t[m + 1])[k]

\* One step of the decoder: a character, or a byte that is skipped.
LEMMA DecodesAt ==
  ASSUME NEW D \in Seq(Codes), NEW f, Decodes(D, f), NEW i \in 1 .. Len(D) + 1
  PROVE  /\ i = Len(D) + 1 => f[i] = <<>>
         /\ i <= Len(D) =>
              /\ Called(D[i]) \in 1 .. 4
              /\ \A next : next = i + Called(D[i]) =>
                   /\ next <= Len(D) + 1 => f[i] = <<SubSeq(D, i, next - 1)>> \o f[next]
                   /\ next > Len(D) + 1 => f[i] = f[i + 1]
<1>1. f[i] = Decoded(D, f, i)
  BY DEF Decodes
<1>2. i <= Len(D) => D[i] \in Codes
  OBVIOUS
<1>3. i <= Len(D) => Called(D[i]) \in 1 .. 4
  BY <1>2, CodesAreBytes
<1>4. CASE i = Len(D) + 1
  <2>1. i > Len(D) /\ ~(i <= Len(D))
    BY <1>4
  <2>2. QED
    BY <1>1, <2>1 DEF Decoded
<1>5. CASE i <= Len(D)
  <2>1. ~(i > Len(D)) /\ i # Len(D) + 1
    BY <1>5
  <2>2. ASSUME NEW next, next = i + Called(D[i])
        PROVE  /\ next <= Len(D) + 1 => f[i] = <<SubSeq(D, i, next - 1)>> \o f[next]
               /\ next > Len(D) + 1 => f[i] = f[i + 1]
    <3>1. f[i] = IF next <= Len(D) + 1 THEN <<SubSeq(D, i, next - 1)>> \o f[next] ELSE f[i + 1]
      BY <1>1, <2>1, <2>2, Zenon DEF Decoded
    <3>2. next > Len(D) + 1 => ~(next <= Len(D) + 1)
      BY <1>3, <1>5, <2>2
    <3>3. next <= Len(D) + 1 => f[i] = <<SubSeq(D, i, next - 1)>> \o f[next]
      BY <3>1, Zenon
    <3>4. next > Len(D) + 1 => f[i] = f[i + 1]
      BY <3>1, <3>2, Zenon
    <3>5. QED
      BY <3>3, <3>4, Zenon
  <2>3. QED
    BY <1>3, <1>5, <2>1, <2>2, Zenon
<1>6. QED
  BY <1>4, <1>5

\* One element in front of the rest of a sequence, before something else.
LEMMA ConsSubSeq ==
  ASSUME NEW S
  PROVE  \A C, rest \in Seq(S) : \A m \in 0 .. Len(C) - 1 :
    <<C[m + 1]>> \o (SubSeq(C, m + 2, Len(C)) \o rest) = SubSeq(C, m + 1, Len(C)) \o rest
<1>0. SUFFICES ASSUME NEW C, NEW rest, NEW m,
                      C \in Seq(S), rest \in Seq(S), m \in 0 .. Len(C) - 1
      PROVE  <<C[m + 1]>> \o (SubSeq(C, m + 2, Len(C)) \o rest) = SubSeq(C, m + 1, Len(C)) \o rest
  OBVIOUS
<1>1. PICK hd, tl, all : hd = <<C[m + 1]>> /\ tl = SubSeq(C, m + 2, Len(C)) /\ all = SubSeq(C, m + 1, Len(C))
  OBVIOUS
<1>2. hd \in Seq(S) /\ tl \in Seq(S) /\ all \in Seq(S)
  BY <1>0, <1>1
<1>3. hd \o tl = all
  <2>1. Len(hd) = 1 /\ hd[1] = C[m + 1]
    BY <1>0, <1>1
  <2>2. Len(tl) = Len(C) - (m + 1) /\ \A k \in 1 .. Len(tl) : tl[k] = C[m + 1 + k]
    BY <1>0, <1>1
  <2>3. Len(all) = Len(C) - m /\ \A k \in 1 .. Len(all) : all[k] = C[m + k]
    BY <1>0, <1>1
  <2>8. /\ hd \o tl \in Seq(S) /\ Len(hd \o tl) = Len(hd) + Len(tl)
        /\ \A k \in 1 .. Len(hd) + Len(tl) :
             (hd \o tl)[k] = IF k <= Len(hd) THEN hd[k] ELSE tl[k - Len(hd)]
    BY <1>2, Concatenated, Zenon
  <2>9. Len(C) \in Nat /\ Len(tl) \in Nat /\ Len(all) \in Nat
    BY <1>0, <1>2
  <2>4. Len(hd \o tl) = Len(all)
    BY <1>0, <2>1, <2>2, <2>3, <2>8, <2>9
  <2>5. ASSUME NEW k \in 1 .. Len(all) PROVE (hd \o tl)[k] = all[k]
    <3>1. (hd \o tl)[k] = IF k <= Len(hd) THEN hd[k] ELSE tl[k - Len(hd)]
      <4>1. k \in 1 .. Len(hd) + Len(tl)
        BY <2>4, <2>8
      <4>2. QED
        BY <2>8, <4>1, Zenon
    <3>2. CASE k = 1
      BY <2>1, <2>3, <3>1, <3>2
    <3>3. CASE k # 1
      <4>1. k - 1 \in 1 .. Len(tl) /\ m + 1 + (k - 1) = m + k /\ ~(k <= 1)
        BY <1>0, <2>2, <2>3, <3>3
      <4>2. tl[k - 1] = C[m + k]
        BY <2>2, <4>1
      <4>3. QED
        BY <2>1, <2>3, <3>1, <4>1, <4>2
    <3>4. QED
      BY <3>2, <3>3
  <2>6. QED
    BY <1>2, <2>4, <2>5, <2>8, SeqEqual, Zenon
<1>4. hd \o (tl \o rest) = all \o rest
  <2>0. hd \in Seq(S) /\ tl \in Seq(S) /\ rest \in Seq(S)
    BY <1>0, <1>2
  <2>1. (hd \o tl) \o rest = hd \o (tl \o rest)
    BY <2>0
  <2>2. QED
    BY <1>3, <2>1, Zenon
<1>5. QED
  BY <1>1, <1>4, Zenon

(***************************************************************************)
(* Bytes that start with whole characters decode to these and to what the   *)
(* rest decodes to; by induction from the last of them to the first.        *)
(***************************************************************************)
LEMMA DecodesWhole ==
  ASSUME NEW t \in Seq(Alphabet), NEW p \in 0 .. Len(t),
         NEW D \in Seq(Codes), NEW f, Decodes(D, f),
         Upto(t, p) <= Len(D), StartsWith(D, t, p),
         NEW rest \in Seq(Seq(Codes)), f[Upto(t, p) + 1] = rest
  PROVE  f[1] = Characters(SubSeq(t, 1, p)) \o rest
<1>1. PICK C : C = Characters(SubSeq(t, 1, p))
  OBVIOUS
<1>2. C \in Seq(Seq(Codes)) /\ Len(C) = p /\ \A k \in 1 .. p : C[k] = Encoding(t[k])
  <2>1. SubSeq(t, 1, p) \in Seq(Alphabet) /\ Len(SubSeq(t, 1, p)) = p
        /\ \A k \in 1 .. p : SubSeq(t, 1, p)[k] = t[k]
    OBVIOUS
  <2>2. /\ C \in Seq(Seq(Codes)) /\ Len(C) = Len(SubSeq(t, 1, p))
        /\ \A k \in 1 .. Len(SubSeq(t, 1, p)) : C[k] = Encoding(SubSeq(t, 1, p)[k])
    BY <1>1, <2>1, CharactersAre, Zenon
  <2>3. QED
    BY <2>1, <2>2
<1> DEFINE Ends(m) == f[Upto(t, m) + 1] = SubSeq(C, m + 1, p) \o rest
<1> DEFINE S == {j \in Nat : j <= p => Ends(p - j)}
<1>3. 0 \in S
  <2>1. SubSeq(C, p + 1, p) = <<>> /\ <<>> \o rest = rest
    BY <1>2
  <2>2. Ends(p)
    BY <2>1
  <2>3. p - 0 = p
    OBVIOUS
  <2> HIDE DEF Ends
  <2>4. QED
    BY <2>2, <2>3
<1>4. ASSUME NEW j \in Nat, j \in S PROVE j + 1 \in S
  <2> HIDE DEF Ends
  <2>0. SUFFICES ASSUME j + 1 <= p PROVE Ends(p - (j + 1))
    OBVIOUS
  <2>1. PICK m \in 0 .. p - 1 : m = p - (j + 1)
    BY <2>0
  <2>2. p - j = m + 1 /\ m \in 0 .. Len(t) - 1 /\ m + 1 \in 0 .. Len(t) /\ p \in m + 1 .. Len(t)
        /\ m \in 0 .. Len(t)
    BY <2>1
  <2>3. f[Upto(t, m + 1) + 1] = SubSeq(C, m + 2, p) \o rest
    <3>1. Ends(m + 1)
      BY <1>4, <2>0, <2>2
    <3>2. (m + 1) + 1 = m + 2
      OBVIOUS
    <3>3. QED
      BY <3>1, <3>2 DEF Ends
  <2>4. PICK i, W : i = Upto(t, m) + 1 /\ W = Width(t[m + 1])
    OBVIOUS
  <2>5. /\ i \in Nat \ {0} /\ W \in 1 .. 4 /\ Upto(t, m + 1) + 1 = i + W /\ t[m + 1] \in Alphabet
        /\ i + W <= Len(D) + 1
    <3>1. Upto(t, m) \in Nat /\ W \in 1 .. 4 /\ Upto(t, m + 1) = Upto(t, m) + W
      BY <2>2, <2>4, UptoGrows
    <3>2. Upto(t, m + 1) <= Upto(t, p) /\ Upto(t, p) \in Nat
      BY <2>2, UptoMonotone
    <3>3. Upto(t, m + 1) <= Len(D)
      <4>1. Len(D) \in Nat
        OBVIOUS
      <4>2. QED
        BY <3>1, <3>2, <4>1
    <3>4. t[m + 1] \in Alphabet
      BY <2>2
    <3>5. QED
      BY <2>4, <3>1, <3>3, <3>4, SMTT(60)
  <2>6. PICK e : e = Encoding(t[m + 1])
    OBVIOUS
  <2>7. e \in Seq(Codes) /\ Len(e) = W /\ e[1].part = 1 /\ e[1].width = W
    <3>1. e \in Seq(Codes) /\ Len(e) = W
          /\ \A k \in 1 .. W : e[k].part = k /\ e[k].width = W
      BY <2>4, <2>5, <2>6, EncodingIs
    <3>2. 1 \in 1 .. W
      BY <2>5
    <3>3. QED
      BY <3>1, <3>2
  <2>8. \A k \in 1 .. W : D[i + k - 1] = e[k]
    <3>1. TAKE k \in 1 .. W
    <3>2. D[Upto(t, m) + k] = e[k]
      BY <2>1, <2>4, <2>6 DEF StartsWith
    <3>3. i + k - 1 = Upto(t, m) + k
      BY <2>2, <2>4, UptoGrows, SMTT(60)
    <3>4. QED
      BY <3>2, <3>3, Zenon
  <2>9. i \in 1 .. Len(D) /\ D[i] = e[1]
    BY <2>5, <2>8
  <2>10. Called(D[i]) = W
    <3>1. ~(1 > 1)
      OBVIOUS
    <3>2. QED
      BY <2>7, <2>9, <3>1, Zenon DEF Called
  <2>20. PICK next : next = i + W
    OBVIOUS
  <2>11. f[i] = <<SubSeq(D, i, next - 1)>> \o f[next]
    <3>1. i \in 1 .. Len(D) + 1 /\ i <= Len(D)
      BY <2>9
    <3>2. \A nx : nx = i + W =>
            (nx <= Len(D) + 1 => f[i] = <<SubSeq(D, i, nx - 1)>> \o f[nx])
      <4>1. D \in Seq(Codes) /\ Decodes(D, f)
        OBVIOUS
      <4>2. \A nx : nx = i + Called(D[i]) =>
              (nx <= Len(D) + 1 => f[i] = <<SubSeq(D, i, nx - 1)>> \o f[nx])
        BY <3>1, <4>1, DecodesAt, SMTT(60)
      <4>3. QED
        BY <2>10, <4>2, Zenon
    <3>3. next <= Len(D) + 1
      BY <2>5, <2>20
    <3>4. QED
      BY <2>20, <3>2, <3>3, Zenon
  <2>12. SubSeq(D, i, next - 1) = e
    <3>1. PICK u : u = SubSeq(D, i, next - 1)
      OBVIOUS
    <3>2. u \in Seq(Codes) /\ Len(u) = W /\ \A k \in 1 .. W : u[k] = D[i + k - 1]
      BY <2>5, <2>9, <2>20, <3>1
    <3>3. Len(u) = Len(e) /\ \A k \in 1 .. Len(u) : u[k] = e[k]
      BY <2>7, <2>8, <3>2
    <3>4. u = e
      BY <2>7, <3>2, <3>3, SeqEqual
    <3>5. QED
      BY <3>1, <3>4
  <2>13. e = C[m + 1]
    BY <1>2, <2>1, <2>6
  <2>14. f[i] = <<C[m + 1]>> \o (SubSeq(C, m + 2, p) \o rest)
    BY <2>3, <2>5, <2>20, <2>11, <2>12, <2>13
  <2>15. f[i] = SubSeq(C, m + 1, p) \o rest
    <3>1. m \in 0 .. Len(C) - 1
      BY <1>2, <2>1
    <3>2. <<C[m + 1]>> \o (SubSeq(C, m + 2, Len(C)) \o rest) = SubSeq(C, m + 1, Len(C)) \o rest
      BY <1>2, <3>1, ConsSubSeq, ZenonT(60)
    <3>3. QED
      BY <1>2, <2>14, <3>2, Zenon
  <2>19. Ends(m)
    BY <2>4, <2>15, Zenon DEF Ends
  <2>21. QED
    BY <2>1, <2>19, Zenon
<1>5. Nat \subseteq S
  <2> HIDE DEF S
  <2>1. QED
    BY <1>3, <1>4, Upward
<1>6. Ends(0)
  <2> HIDE DEF Ends
  <2>1. p \in Nat /\ p <= p /\ p - p = 0
    OBVIOUS
  <2>2. QED
    BY <1>5, <2>1, Zenon
<1>7. Upto(t, 0) + 1 = 1 /\ 0 + 1 = 1 /\ SubSeq(C, 1, p) = C
  BY <1>2, UptoGrows
<1>8. QED
  BY <1>1, <1>6, <1>7, Zenon

\* D ends, after q bytes, with the first r of a character c.
EndsCut(D, c, q, r) ==
  Len(D) = q + r /\ \A k \in 1 .. r : D[q + k] = Encoding(c)[k]

(***************************************************************************)
(* A character of which the end is missing decodes to nothing: every byte   *)
(* of it is skipped.  Only the second of three bytes, of a character of     *)
(* four, finds one behind it and passes for a character of two.             *)
(***************************************************************************)
LEMMA DecodesRest ==
  ASSUME NEW c \in Alphabet, NEW D \in Seq(Codes), NEW f, Decodes(D, f),
         NEW q \in Nat, NEW r \in 0 .. Width(c) - 1, EndsCut(D, c, q, r)
  PROVE  \/ f[q + 1] = <<>>
         \/ r = 3 /\ Width(c) = 4 /\ f[q + 1] = <<SubSeq(D, q + 2, q + 3)>>
<1>1. Len(D) = q + r /\ \A k \in 1 .. r : D[q + k] = Encoding(c)[k]
  BY DEF EndsCut
<1>2. Width(c) \in 1 .. 4
  BY EncodingIs
<1>3. \A k \in 1 .. r : D[q + k].part = k /\ D[q + k].width = Width(c)
  <2>1. TAKE k \in 1 .. r
  <2>2. k \in 1 .. Width(c) /\ D[q + k] = Encoding(c)[k]
    BY <1>1, <1>2
  <2>3. QED
    BY <2>2, EncodingIs
<1>4. f[q + r + 1] = <<>>
  <2>1. q + r + 1 \in 1 .. Len(D) + 1 /\ q + r + 1 = Len(D) + 1
    BY <1>1, <1>2
  <2>2. QED
    BY <2>1, DecodesAt
<1>5. \A k \in 1 .. r :
        \A next : next = q + k + Called(D[q + k]) =>
          /\ next <= Len(D) + 1 => f[q + k] = <<SubSeq(D, q + k, next - 1)>> \o f[next]
          /\ next > Len(D) + 1 => f[q + k] = f[q + k + 1]
  <2>1. TAKE k \in 1 .. r
  <2>2. q + k \in 1 .. Len(D) + 1 /\ q + k <= Len(D)
    BY <1>1, <1>2
  <2>3. QED
    BY <2>2, DecodesAt
<1>6. r >= 1 => Called(D[q + 1]) = Width(c)
  BY <1>2, <1>3 DEF Called
<1>7. r >= 2 => Called(D[q + 2]) = 2
  BY <1>2, <1>3 DEF Called
<1>8. r >= 3 => Called(D[q + 3]) = 2
  BY <1>2, <1>3 DEF Called
<1>9. r >= 1 => f[q + 1] = f[q + 2]
  <2>1. SUFFICES ASSUME r >= 1 PROVE f[q + 1] = f[q + 2]
    OBVIOUS
  <2>2. 1 \in 1 .. r /\ q + 1 + 1 = q + 2 /\ q + 1 + Width(c) > Len(D) + 1
    BY <1>1, <1>2, <2>1
  <2>3. QED
    BY <1>5, <1>6, <2>1, <2>2
<1>10. CASE r = 0
  BY <1>4, <1>10
<1>11. CASE r = 1
  BY <1>4, <1>9, <1>11
<1>12. CASE r = 2
  <2>1. 2 \in 1 .. r /\ q + 4 = q + 2 + Called(D[q + 2]) /\ q + 4 > Len(D) + 1
    BY <1>1, <1>7, <1>12
  <2>2. f[q + 2] = f[q + 2 + 1]
    BY <1>5, <2>1
  <2>3. q + 2 + 1 = q + r + 1 /\ r >= 1
    BY <1>12
  <2>4. QED
    BY <1>4, <1>9, <2>2, <2>3
<1>13. CASE r = 3
  <2>1. Width(c) = 4
    BY <1>2, <1>13
  <2>15. PICK next : next = q + 4
    OBVIOUS
  <2>2. f[q + 2] = <<SubSeq(D, q + 2, next - 1)>> \o f[next]
    <3>1. 2 \in 1 .. r /\ next = q + 2 + Called(D[q + 2]) /\ next <= Len(D) + 1
      BY <1>1, <1>7, <1>13, <2>15
    <3>2. QED
      BY <1>5, <3>1, Zenon
  <2>3. f[next] = <<>> /\ next - 1 = q + 3
    BY <1>4, <1>13, <2>15
  <2>4. <<SubSeq(D, q + 2, q + 3)>> \o <<>> = <<SubSeq(D, q + 2, q + 3)>>
    OBVIOUS
  <2>5. QED
    <3>1. f[q + 1] = f[q + 2]
      BY <1>9, <1>13
    <3>2. QED
      BY <1>13, <2>1, <2>2, <2>3, <2>4, <3>1, Zenon
<1>14. r \in 0 .. 3
  BY <1>2
<1>15. QED
  BY <1>10, <1>11, <1>12, <1>13, <1>14

\* The characters that fit, or also the false one of a character of four
\* bytes cut after three.
FitsBut(chars, t, room) ==
  \/ chars = Characters(Fitting(t, room))
  \/ CutsFour(t, room) /\ chars # <<>> /\ Front(chars) = Characters(Fitting(t, room))

(***************************************************************************)
(* encode_s7_string cuts the UTF-8 of a text at any byte; decode_utf8       *)
(* returns from the bytes that are left the characters that fit, for every  *)
(* text of characters of 1 to 4 bytes and every room.  The exception is a   *)
(* character of four bytes of which three are left.                         *)
(***************************************************************************)
THEOREM DecodesWhatFits ==
  ASSUME NEW t \in Seq(Alphabet), NEW room \in Nat
  PROVE  FitsBut(decode_utf8(SubSeq(Bytes(t), 1, Least(room, Len(Bytes(t))))), t, room)
<1>1. PICK p \in 0 .. Len(t) :
        /\ Fitting(t, room) = SubSeq(t, 1, p)
        /\ Upto(t, p) <= room
        /\ p < Len(t) => Upto(t, p + 1) > room
  BY FittingIs
<1>2. PICK all : all = Bytes(t)
  OBVIOUS
<1>3. all = Bytes(SubSeq(t, 1, Len(t))) /\ all \in Seq(Codes) /\ Len(all) = Upto(t, Len(t))
  <2>1. SubSeq(t, 1, Len(t)) = t /\ Len(t) \in 0 .. Len(t)
    OBVIOUS
  <2>2. all = Bytes(SubSeq(t, 1, Len(t)))
    BY <1>2, <2>1
  <2>3. Bytes(SubSeq(t, 1, Len(t))) \in Seq(Codes)
    BY <2>1, UptoGrows
  <2>4. QED
    BY <2>2, <2>3 DEF Upto
<1>4. PICK q, len : q = Upto(t, p) /\ len = Least(room, Len(all))
  OBVIOUS
<1>5. q \in Nat /\ len \in Nat /\ len <= Len(all) /\ q <= len /\ len <= room
      /\ (p = Len(t) => len = q)
      /\ (p < Len(t) => len = room /\ Width(t[p + 1]) \in 1 .. 4 /\ room < q + Width(t[p + 1])
                        /\ q + Width(t[p + 1]) <= Len(all))
  <2>1. Upto(t, p) \in Nat /\ Upto(t, Len(t)) \in Nat /\ Upto(t, p) <= Upto(t, Len(t))
    BY UptoMonotone
  <2>2. CASE p = Len(t)
    BY <1>1, <1>3, <1>4, <2>1, <2>2 DEF Least
  <2>3. CASE p < Len(t)
    <3>1. p + 1 \in 0 .. Len(t) /\ Len(t) \in p + 1 .. Len(t) /\ p \in 0 .. Len(t) - 1
      BY <2>3
    <3>2. Upto(t, p + 1) \in Nat /\ Upto(t, p + 1) <= Upto(t, Len(t))
      BY <3>1, UptoMonotone
    <3>3. Upto(t, p + 1) = Upto(t, p) + Width(t[p + 1]) /\ Width(t[p + 1]) \in 1 .. 4
      BY <3>1, UptoGrows
    <3>4. QED
      BY <1>1, <1>3, <1>4, <2>1, <2>3, <3>2, <3>3 DEF Least
  <2>4. QED
    BY <2>2, <2>3
<1>6. PICK D : D = SubSeq(all, 1, len)
  OBVIOUS
<1>7. D \in Seq(Codes) /\ Len(D) = len /\ \A k \in 1 .. len : D[k] = all[k]
  BY <1>3, <1>5, <1>6
<1>8. PICK f : Decodes(D, f) /\ decode_utf8(D) = f[1]
  <2>1. Len(D) \in Nat /\ \A i \in 1 .. Len(D) : Called(D[i]) \in 1 .. 4
    BY <1>7, CodesAreBytes
  <2>2. QED
    BY <2>1, DecodeUnfolds DEF Decodes
<1>9. ASSUME NEW m \in 0 .. Len(t) - 1, NEW k \in 1 .. Width(t[m + 1]), Upto(t, m) + k <= len
      PROVE  D[Upto(t, m) + k] = Encoding(t[m + 1])[k]
  <2>1. Len(t) \in 0 .. Len(t) /\ m \in 0 .. Len(t) /\ Width(t[m + 1]) \in 1 .. 4
        /\ Upto(t, m) \in Nat
    <3>1. Len(t) \in 0 .. Len(t) /\ m \in 0 .. Len(t)
      OBVIOUS
    <3>2. QED
      BY <3>1, UptoGrows
  <2>2. all[Upto(t, m) + k] = Encoding(t[m + 1])[k]
    BY <1>3, <2>1, BytesPlaces
  <2>3. Upto(t, m) + k \in 1 .. len
    BY <1>5, <1>9, <2>1
  <2>4. QED
    BY <1>7, <2>2, <2>3
<1>10. StartsWith(D, t, p)
  <2>1. SUFFICES ASSUME NEW m \in 0 .. p - 1, NEW k \in 1 .. Width(t[m + 1])
                 PROVE  D[Upto(t, m) + k] = Encoding(t[m + 1])[k]
    BY DEF StartsWith
  <2>2. m \in 0 .. Len(t) - 1 /\ m + 1 \in 0 .. Len(t) /\ p \in m + 1 .. Len(t) /\ m \in 0 .. Len(t)
    OBVIOUS
  <2>3. Upto(t, m + 1) <= Upto(t, p) /\ Upto(t, m + 1) \in Nat /\ Upto(t, m) \in Nat
    BY <2>2, UptoMonotone, UptoGrows
  <2>4. Upto(t, m + 1) = Upto(t, m) + Width(t[m + 1]) /\ Width(t[m + 1]) \in 1 .. 4
    BY <2>2, UptoGrows
  <2>5. Upto(t, m) + k <= len
    BY <1>4, <1>5, <2>3, <2>4, SMTT(60)
  <2>6. QED
    BY <1>9, <2>2, <2>5
<1>11. \/ f[q + 1] = <<>>
       \/ /\ CutsFour(t, room)
          /\ f[q + 1] = <<SubSeq(D, q + 2, q + 3)>> /\ SubSeq(D, q + 2, q + 3) \in Seq(Codes)
  <2>1. CASE p = Len(t)
    <3>1. q + 1 = Len(D) + 1 /\ q + 1 \in 1 .. Len(D) + 1
      BY <1>5, <1>7, <2>1
    <3>2. QED
      BY <1>7, <1>8, <3>1, DecodesAt
  <2>2. CASE p < Len(t)
    <3>1. PICK c, r : c = t[p + 1] /\ r = room - q
      OBVIOUS
    <3>2. c \in Alphabet /\ r \in 0 .. Width(c) - 1 /\ Len(D) = q + r /\ Width(c) \in 1 .. 4
      BY <1>5, <1>7, <2>2, <3>1
    <3>3. \A k \in 1 .. r : D[q + k] = Encoding(c)[k]
      <4>1. TAKE k \in 1 .. r
      <4>2. p \in 0 .. Len(t) - 1 /\ k \in 1 .. Width(t[p + 1]) /\ Upto(t, p) + k <= len
        <5>1. p \in 0 .. Len(t) - 1
          BY <2>2
        <5>2. k \in 1 .. Width(c) /\ q + k <= len
          BY <1>5, <1>7, <3>2
        <5>3. QED
          BY <1>4, <3>1, <5>1, <5>2
      <4>3. QED
        BY <1>4, <1>9, <3>1, <4>2
    <3>4. \/ f[q + 1] = <<>>
          \/ r = 3 /\ Width(c) = 4 /\ f[q + 1] = <<SubSeq(D, q + 2, q + 3)>>
      <4>1. q \in Nat /\ D \in Seq(Codes) /\ Decodes(D, f)
        BY <1>5, <1>7, <1>8
      <4>2. c \in Alphabet /\ r \in 0 .. Width(c) - 1 /\ EndsCut(D, c, q, r)
        BY <3>2, <3>3 DEF EndsCut
      <4>3. QED
        BY <4>1, <4>2, DecodesRest
    <3>5. r = 3 /\ Width(c) = 4 => CutsFour(t, room)
      <4>1. SUFFICES ASSUME r = 3, Width(c) = 4 PROVE CutsFour(t, room)
        OBVIOUS
      <4>2. Len(SubSeq(t, 1, p)) = p /\ Len(Bytes(SubSeq(t, 1, p))) = q
        BY <1>4 DEF Upto
      <4>3. QED
        BY <1>1, <2>2, <3>1, <4>1, <4>2 DEF CutsFour
    <3>6. r = 3 => SubSeq(D, q + 2, q + 3) \in Seq(Codes)
      BY <1>5, <1>7, <3>2
    <3>7. QED
      BY <3>4, <3>5, <3>6
  <2>3. QED
    BY <2>1, <2>2
<1>12. PICK rest : rest = f[q + 1]
  OBVIOUS
<1>13. rest \in Seq(Seq(Codes))
  <2>1. CASE rest = <<>>
    BY <2>1
  <2>2. CASE rest = <<SubSeq(D, q + 2, q + 3)>> /\ SubSeq(D, q + 2, q + 3) \in Seq(Codes)
    <3>1. PICK x : x = SubSeq(D, q + 2, q + 3)
      OBVIOUS
    <3>2. x \in Seq(Codes) /\ rest = <<x>>
      BY <2>2, <3>1
    <3>3. QED
      BY <3>2
  <2>3. QED
    BY <1>11, <1>12, <2>1, <2>2, Zenon
<1>14. PICK C : C = Characters(SubSeq(t, 1, p))
  OBVIOUS
<1>15. C \in Seq(Seq(Codes))
  <2>1. SubSeq(t, 1, p) \in Seq(Alphabet)
    OBVIOUS
  <2>2. QED
    BY <1>14, <2>1, CharactersAre
<1>16. f[1] = C \o rest
  <2>1. p \in 0 .. Len(t) /\ D \in Seq(Codes) /\ Decodes(D, f)
    BY <1>4, <1>5, <1>7, <1>8
  <2>2. Upto(t, p) <= Len(D) /\ StartsWith(D, t, p)
    BY <1>4, <1>5, <1>7, <1>8, <1>10
  <2>3. f[Upto(t, p) + 1] = rest
    BY <1>4, <1>12
  <2>4. f[1] = Characters(SubSeq(t, 1, p)) \o rest
    BY <1>13, <2>1, <2>2, <2>3, DecodesWhole, SMTT(120)
  <2>5. QED
    BY <1>14, <2>4, Zenon
<1>17. CASE rest = <<>>
  <2>1. C \o <<>> = C
    BY <1>15
  <2>2. f[1] = Characters(Fitting(t, room))
    BY <1>1, <1>14, <1>16, <1>17, <2>1
  <2>3. QED
    BY <1>2, <1>4, <1>6, <1>8, <2>2, Zenon DEF FitsBut
<1>18. CASE /\ CutsFour(t, room)
            /\ rest = <<SubSeq(D, q + 2, q + 3)>> /\ SubSeq(D, q + 2, q + 3) \in Seq(Codes)
  <2>1. PICK x : x = SubSeq(D, q + 2, q + 3)
    OBVIOUS
  <2>2. x \in Seq(Codes) /\ rest = <<x>>
    BY <1>18, <2>1
  <2>3. C \o <<x>> # <<>> /\ Front(C \o <<x>>) = C
    BY <1>15, <2>2 DEF Front
  <2>4. f[1] # <<>> /\ Front(f[1]) = Characters(Fitting(t, room))
    BY <1>1, <1>14, <1>16, <2>2, <2>3
  <2>5. QED
    BY <1>2, <1>4, <1>6, <1>8, <1>18, <2>4, Zenon DEF FitsBut
<1>19. QED
  BY <1>11, <1>12, <1>17, <1>18

------------------------------------------------------------------------------
(***************************************************************************)
(* What a read returns.  The bytes of the STRING after its two lengths ...  *)
(***************************************************************************)
InText == Codes \cup {Nul}

\* ... are none of those behind it ...
LEMMA InTextIs == \A b \in InText : Called(b) \in 1 .. 4 /\ b # Other
BY CodesAreBytes DEF InText, Nul, Other, Called

\* ... and decode_utf8 makes of any of them sequences of just such bytes.
LEMMA DecodeStays ==
  ASSUME NEW D \in Seq(InText)
  PROVE  decode_utf8(D) \in Seq(Seq(InText))
<1>1. PICK N \in Nat : N = Len(D)
  OBVIOUS
<1>2. Len(D) \in Nat /\ \A i \in 1 .. Len(D) : Called(D[i]) \in 1 .. 4
  BY InTextIs
<1>3. PICK f : f = [i \in 1 .. Len(D) + 1 |-> Decoded(D, f, i)] /\ decode_utf8(D) = f[1]
  BY <1>2, DecodeUnfolds
<1>4. \A i \in 1 .. N + 1 : f[i] = Decoded(D, f, i)
  BY <1>1, <1>3
<1> DEFINE T == {j \in Nat : j <= N => \A i \in N + 1 - j .. N + 1 : f[i] \in Seq(Seq(InText))}
<1>5. 0 \in T
  <2>1. SUFFICES ASSUME NEW i \in N + 1 - 0 .. N + 1 PROVE f[i] \in Seq(Seq(InText))
    OBVIOUS
  <2>2. i \in 1 .. N + 1 /\ i > Len(D)
    BY <1>1
  <2>3. f[i] = <<>>
    BY <1>4, <2>2 DEF Decoded
  <2>4. QED
    BY <2>3
<1>6. ASSUME NEW j \in Nat, j \in T PROVE j + 1 \in T
  <2>1. SUFFICES ASSUME j + 1 <= N, NEW i \in N + 1 - (j + 1) .. N + 1
                 PROVE  f[i] \in Seq(Seq(InText))
    OBVIOUS
  <2>2. \A k \in N + 1 - j .. N + 1 : f[k] \in Seq(Seq(InText))
    BY <1>6, <2>1
  <2>3. CASE i \in N + 1 - j .. N + 1
    BY <2>2, <2>3
  <2>4. CASE i \notin N + 1 - j .. N + 1
    <3>1. i = N - j /\ i \in 1 .. N /\ i \in 1 .. N + 1 /\ ~(i > Len(D)) /\ i + 1 \in N + 1 - j .. N + 1
      BY <1>1, <2>1, <2>4
    <3>2. PICK next : next = i + Called(D[i])
      OBVIOUS
    <3>3. f[i] = IF next <= Len(D) + 1 THEN <<SubSeq(D, i, next - 1)>> \o f[next] ELSE f[i + 1]
      BY <1>4, <3>1, <3>2, Zenon DEF Decoded
    <3>4. Called(D[i]) \in 1 .. 4
      BY <1>1, <1>2, <3>1
    <3>5. CASE next <= Len(D) + 1
      <4>1. next \in N + 1 - j .. N + 1
        BY <1>1, <3>1, <3>2, <3>4, <3>5
      <4>2. f[next] \in Seq(Seq(InText))
        BY <2>2, <4>1
      <4>3. PICK x, y : x = SubSeq(D, i, next - 1) /\ y = f[next]
        OBVIOUS
      <4>4. x \in Seq(InText)
        <5>1. PICK hi : hi = next - 1
          OBVIOUS
        <5>2. i \in Int /\ hi \in Int /\ \A k \in i .. hi : D[k] \in InText
          BY <1>1, <3>1, <3>2, <3>4, <3>5, <5>1
        <5>3. SubSeq(D, i, hi) \in Seq(InText)
          BY <5>2, SubSeqProperties
        <5>4. QED
          BY <4>3, <5>1, <5>3
      <4>5. <<x>> \o y \in Seq(Seq(InText))
        BY <4>2, <4>3, <4>4
      <4>6. f[i] = <<x>> \o y
        BY <3>3, <3>5, <4>3
      <4>7. QED
        BY <4>5, <4>6
    <3>6. CASE ~(next <= Len(D) + 1)
      <4>1. f[i] = f[i + 1]
        BY <3>3, <3>6, Zenon
      <4>2. QED
        BY <2>2, <3>1, <4>1
    <3>7. QED
      BY <3>5, <3>6
  <2>5. QED
    BY <2>3, <2>4
<1>7. Nat \subseteq T
  <2> HIDE DEF T
  <2>1. QED
    BY <1>5, <1>6, Upward
<1>8. f[1] \in Seq(Seq(InText))
  <2>1. \A i \in N + 1 - N .. N + 1 : f[i] \in Seq(Seq(InText))
    <3>1. N \in T
      <4> HIDE DEF T
      <4>1. QED
        BY <1>7
    <3>2. QED
      BY <3>1
  <2>2. 1 \in N + 1 - N .. N + 1
    OBVIOUS
  <2>3. QED
    BY <2>1, <2>2, Zenon
<1>9. QED
  BY <1>3, <1>8

\* The bytes of the block.
Cells == InText \cup {Other} \cup {Count(k) : k \in 0 .. 255}

\* The lengths, as numbers.
LEMMA LensIs == MaxLen \in 0 .. 254 /\ MaxLen \in Nat /\ Beyond \in Nat
BY LensAssumption

\* Some bytes from the start of the block, as far as they go: the length is
\* in bounds, and bytes of texts are where the STRING is.
WellShaped(s) ==
  /\ s \in Seq(Cells)
  /\ Len(s) >= 2 => s[2].part \in 0 .. MaxLen
  /\ \A k \in 3 .. 2 + MaxLen : k <= Len(s) => s[k] \in InText

\* The STRING in s is t, as far as it fits, whatever is behind it.
Holds(s, t) ==
  /\ s[2] = Count(Least(MaxLen, Len(Bytes(t))))
  /\ \A k \in 1 .. Least(MaxLen, Len(Bytes(t))) : s[2 + k] = Bytes(t)[k]

\* No byte from behind the STRING is in what was returned.
Spared(chars) == \A i \in DOMAIN chars : \A k \in DOMAIN chars[i] : chars[i][k] # Other

\* The bytes of a text are bytes of its characters.
LEMMA BytesOfText ==
  ASSUME NEW t \in Seq(Alphabet)
  PROVE  Bytes(t) \in Seq(Codes)
<1>1. SubSeq(t, 1, Len(t)) = t /\ Len(t) \in 0 .. Len(t)
  OBVIOUS
<1>2. Bytes(SubSeq(t, 1, Len(t))) \in Seq(Codes)
  BY <1>1, UptoGrows
<1>3. QED
  BY <1>1, <1>2

(***************************************************************************)
(* decode_s7_string stays within the length in the STRING, and so within    *)
(* the STRING, with whatever number of bytes it is called: the second part  *)
(* of NeighbourUntouched.                                                   *)
(***************************************************************************)
LEMMA ReadsNothingBehind ==
  ASSUME NEW s, WellShaped(s), Len(s) >= 2
  PROVE  Spared(decode_s7_string(s))
<1>1. s \in Seq(Cells) /\ s[2].part \in 0 .. MaxLen /\ MaxLen \in Nat
      /\ \A k \in 3 .. 2 + MaxLen : k <= Len(s) => s[k] \in InText
  BY LensIs, Zenon DEF WellShaped
<1>2. PICK c : c = Least(s[2].part, Len(s) - 2)
  OBVIOUS
<1>3. c \in 0 .. MaxLen /\ c <= Len(s) - 2
  BY <1>1, <1>2 DEF Least
<1>4. SubSeq(s, 3, 2 + c) \in Seq(InText)
  <2>1. \A k \in 3 .. 2 + c : s[k] \in InText
    BY <1>1, <1>3
  <2>2. 3 \in Int /\ 2 + c \in Int
    BY <1>3
  <2>3. QED
    BY <2>1, <2>2, SubSeqProperties
<1>5. decode_s7_string(s) \in Seq(Seq(InText))
  BY <1>2, <1>4, DecodeStays DEF decode_s7_string
<1>6. QED
  BY <1>5, InTextIs DEF Spared

(***************************************************************************)
(* decode_s7_string of the first bytes of a STRING that holds t returns of  *)
(* t what fits into them: the heart of ReadBack.                            *)
(***************************************************************************)
LEMMA ReadsBack ==
  ASSUME NEW s \in Seq(Cells), NEW t \in Seq(Alphabet), Holds(s, t),
         NEW sz \in 2 .. Len(s), 2 + MaxLen <= Len(s)
  PROVE  FitsBut(decode_s7_string(SubSeq(s, 1, sz)), t, Least(MaxLen, sz - 2))
<1>1. PICK all, L, d : all = Bytes(t) /\ L = Len(all) /\ d = SubSeq(s, 1, sz)
  OBVIOUS
<1>2. all \in Seq(Codes) /\ L \in Nat /\ MaxLen \in 0 .. 254
  BY <1>1, BytesOfText, LensIs
<1>3. d \in Seq(Cells) /\ Len(d) = sz /\ \A k \in 1 .. sz : d[k] = s[k]
  BY <1>1
<1>4. d[2].part = Least(MaxLen, L)
  <2>1. d[2] = Count(Least(MaxLen, L))
    BY <1>1, <1>3 DEF Holds
  <2>2. Least(MaxLen, L) \in 0 .. 254
    BY <1>2 DEF Least
  <2>3. Least(MaxLen, L) % 256 = Least(MaxLen, L)
    <3>1. \A x \in 0 .. 254 : x % 256 = x
      OBVIOUS
    <3>2. QED
      BY <2>2, <3>1, Zenon
  <2>4. QED
    BY <2>1, <2>3 DEF Count
<1>5. PICK room, c : room = Least(MaxLen, sz - 2) /\ c = Least(room, L)
  OBVIOUS
<1>6. room \in Nat /\ c \in 0 .. MaxLen /\ c <= sz - 2 /\ c <= L /\ c <= Least(MaxLen, L)
      /\ c = Least(Least(MaxLen, L), sz - 2)
  BY <1>2, <1>5 DEF Least
<1>7. SubSeq(d, 3, 2 + c) = SubSeq(all, 1, c)
  <2>1. PICK x, y : x = SubSeq(d, 3, 2 + c) /\ y = SubSeq(all, 1, c)
    OBVIOUS
  <2>2. x \in Seq(Cells) /\ Len(x) = c /\ \A k \in 1 .. c : x[k] = d[2 + k]
    BY <1>3, <1>6, <2>1, SMTT(60)
  <2>3. y \in Seq(Codes) /\ Len(y) = c /\ \A k \in 1 .. c : y[k] = all[k]
    <3>1. 1 .. c \subseteq 1 .. L /\ c \in Nat
      BY <1>2, <1>6
    <3>2. all \in Seq(Codes) /\ Len(all) = L
      BY <1>1, <1>2
    <3>3. QED
      BY <1>6, <2>1, <3>1, <3>2
  <2>4. \A k \in 1 .. c : d[2 + k] = all[k]
    <3>1. TAKE k \in 1 .. c
    <3>2. k \in 1 .. Least(MaxLen, L) /\ 2 + k \in 1 .. sz
      BY <1>2, <1>6 DEF Least
    <3>3. QED
      BY <1>1, <1>3, <3>2 DEF Holds
  <2>5. y \in Seq(Cells)
    BY <2>3 DEF Cells, InText
  <2>6. \A k \in 1 .. Len(x) : x[k] = y[k]
    BY <2>2, <2>3, <2>4
  <2>7. Len(x) = Len(y)
    BY <2>2, <2>3
  <2>8. x = y
    BY <2>2, <2>5, <2>6, <2>7, SeqEqual
  <2>9. QED
    BY <2>1, <2>8
<1>8. decode_s7_string(d) = decode_utf8(SubSeq(all, 1, c))
  BY <1>3, <1>4, <1>6, <1>7 DEF decode_s7_string
<1>9. FitsBut(decode_utf8(SubSeq(all, 1, c)), t, room)
  BY <1>1, <1>5, <1>6, DecodesWhatFits
<1>10. QED
  BY <1>1, <1>5, <1>8, <1>9

(***************************************************************************)
(* What StringField::to_bytes makes of a text is the shape of the STRING,   *)
(* and holds the text.                                                      *)
(***************************************************************************)
LEMMA ImageIs ==
  ASSUME NEW t \in Seq(Alphabet)
  PROVE  /\ WellShaped(to_bytes(MaxLen, t)) /\ Len(to_bytes(MaxLen, t)) = 2 + MaxLen
         /\ Holds(to_bytes(MaxLen, t), t)
<1>1. PICK all, L, c : all = Bytes(t) /\ L = Len(all) /\ c = Least(MaxLen, L)
  OBVIOUS
<1>2. all \in Seq(Codes) /\ L \in Nat /\ MaxLen \in 0 .. 254 /\ c \in 0 .. MaxLen /\ c <= L
  BY <1>1, BytesOfText, LensIs DEF Least
<1>3. PICK b, body : b = encode_s7_string(MaxLen, t) /\ body = SubSeq(all, 1, c)
  OBVIOUS
<1>4. body \in Seq(Codes) /\ Len(body) = c /\ \A k \in 1 .. c : body[k] = all[k]
  BY <1>1, <1>2, <1>3
<1>5. b = <<Count(MaxLen), Count(c)>> \o body
  BY <1>1, <1>3 DEF encode_s7_string
<1>6. body \in Seq(Cells) /\ Count(MaxLen) \in Cells /\ Count(c) \in Cells /\ Nul \in Cells
  <2>1. Codes \subseteq Cells /\ Nul \in Cells /\ \A k \in 0 .. 255 : Count(k) \in Cells
    BY Zenon DEF Cells, InText
  <2>2. MaxLen \in 0 .. 255 /\ c \in 0 .. 255
    BY <1>2
  <2>3. \A k \in 1 .. Len(body) : body[k] \in Cells
    <3>1. \A k \in 1 .. Len(body) : body[k] \in Codes
      BY <1>4, ElementOfSeq, Zenon
    <3>2. QED
      BY <2>1, <3>1, Zenon
  <2>4. body \in Seq(Cells)
    BY <1>4, <2>3
  <2>5. QED
    BY <2>1, <2>2, <2>4, Zenon
<1>7. PICK head : head = <<Count(MaxLen), Count(c)>>
  OBVIOUS
<1>8. head \in Seq(Cells) /\ Len(head) = 2 /\ head[2] = Count(c)
  BY <1>6, <1>7
<1>9. b \in Seq(Cells) /\ Len(b) = 2 + c /\ b[2] = Count(c) /\ \A k \in 1 .. c : b[2 + k] = all[k]
  <2>1. /\ head \o body \in Seq(Cells) /\ Len(head \o body) = 2 + c
        /\ \A k \in 1 .. 2 + c : (head \o body)[k] = IF k <= 2 THEN head[k] ELSE body[k - 2]
    <3>1. /\ head \o body \in Seq(Cells) /\ Len(head \o body) = Len(head) + Len(body)
          /\ \A k \in 1 .. Len(head) + Len(body) :
               (head \o body)[k] = IF k <= Len(head) THEN head[k] ELSE body[k - Len(head)]
      BY <1>6, <1>8, Concatenated, Zenon
    <3>2. QED
      BY <1>4, <1>8, <3>1, Zenon
  <2>2. b = head \o body
    BY <1>5, <1>7
  <2>3. QED
    BY <1>2, <1>4, <1>8, <2>1, <2>2
<1>10. PICK rest : rest = [k \in 1 .. MaxLen + 2 - Len(b) |-> Nul]
  OBVIOUS
<1>11. rest \in Seq(Cells) /\ Len(rest) = MaxLen - c /\ \A k \in 1 .. MaxLen - c : rest[k] = Nul
  <2>1. PICK n0 : n0 = MaxLen + 2 - Len(b)
    OBVIOUS
  <2>2. n0 = MaxLen - c /\ n0 \in Nat
    BY <1>2, <1>9, <2>1
  <2>3. rest = [k \in 1 .. n0 |-> Nul]
    BY <1>10, <2>1, Zenon
  <2>4. rest \in Seq(Cells) /\ Len(rest) = n0 /\ \A k \in 1 .. n0 : rest[k] = Nul
    BY <1>6, <2>2, <2>3
  <2>5. QED
    BY <2>2, <2>4, Zenon
<1>12. PICK im : im = to_bytes(MaxLen, t)
  OBVIOUS
<1>13. im = b \o rest
  BY <1>3, <1>10, <1>12 DEF to_bytes
<1>14. /\ im \in Seq(Cells) /\ Len(im) = 2 + MaxLen
       /\ \A k \in 1 .. 2 + MaxLen : im[k] = IF k <= 2 + c THEN b[k] ELSE rest[k - (2 + c)]
  <2>1. /\ b \o rest \in Seq(Cells) /\ Len(b \o rest) = Len(b) + Len(rest)
        /\ \A k \in 1 .. Len(b) + Len(rest) :
             (b \o rest)[k] = IF k <= Len(b) THEN b[k] ELSE rest[k - Len(b)]
    BY <1>9, <1>11, Concatenated, Zenon
  <2>2. Len(b) = 2 + c /\ Len(b) + Len(rest) = 2 + MaxLen
    BY <1>2, <1>9, <1>11
  <2>3. QED
    BY <1>13, <2>1, <2>2, Zenon
<1>15. im[2] = Count(c) /\ \A k \in 1 .. c : im[2 + k] = all[k]
  BY <1>2, <1>9, <1>14
<1>16. \A k \in 3 .. 2 + MaxLen : im[k] \in InText
  <2>1. TAKE k \in 3 .. 2 + MaxLen
  <2>2. CASE k <= 2 + c
    <3>1. k - 2 \in 1 .. c /\ 2 + (k - 2) = k
      BY <1>2, <2>2
    <3>2. im[k] = all[k - 2] /\ k - 2 \in 1 .. L
      BY <1>2, <1>15, <3>1
    <3>3. QED
      BY <1>1, <1>2, <3>2 DEF InText
  <2>3. CASE ~(k <= 2 + c)
    <3>1. k \in 1 .. 2 + MaxLen /\ k - (2 + c) \in 1 .. MaxLen - c
      BY <1>2, <2>3
    <3>2. im[k] = Nul
      BY <1>11, <1>14, <2>3, <3>1
    <3>3. QED
      BY <3>2 DEF InText
  <2>4. QED
    BY <2>2, <2>3
<1>17. im[2].part = c
  <2>1. c % 256 = c
    BY <1>2
  <2>2. QED
    BY <1>15, <2>1 DEF Count
<1>18. WellShaped(im)
  BY <1>2, <1>14, <1>16, <1>17 DEF WellShaped
<1>19. Holds(im, t)
  BY <1>1, <1>15 DEF Holds
<1>20. QED
  BY <1>12, <1>14, <1>18, <1>19

(***************************************************************************)
(* The invariant behind ReadBack and NeighbourUntouched.  Beside the two:   *)
(* the STRING is well-shaped though it be torn, it holds the text unless it *)
(* is torn, and while nobody assigned since the call began, the chunks      *)
(* written are in the block and the chunks read are those of the block.     *)
(***************************************************************************)
StringInv ==
  /\ WellShaped(mem) /\ Len(mem) = 2 + MaxLen + Beyond
  /\ \A k \in 3 + MaxLen .. Len(mem) : mem[k] = Other
  /\ arg \in Seq(Alphabet) /\ text \in Seq(Alphabet)
  /\ torn \in BOOLEAN /\ steady \in BOOLEAN
  /\ ~torn => Holds(mem, text)
  /\ pc = "writing" =>
       /\ data = to_bytes(MaxLen, arg) /\ off \in 0 .. Len(data)
       /\ steady => \A k \in 1 .. off : mem[k] = data[k]
  /\ pc = "reading" =>
       /\ size \in 2 .. Len(mem)
       /\ WellShaped(data) /\ Len(data) <= size
       /\ steady => \A k \in 1 .. Len(data) : data[k] = mem[k]
  /\ Spared(returned.chars)
  /\ ReadBack

\* Nothing returned holds nothing from behind.
LEMMA SparedNone == Spared(<<>>)
BY DEF Spared

\* What a STRING holds depends on its own bytes only.
LEMMA HoldsSame ==
  ASSUME NEW s, NEW s2, NEW t \in Seq(Alphabet), Holds(s, t),
         \A k \in 1 .. 2 + MaxLen : s2[k] = s[k]
  PROVE  Holds(s2, t)
<1>1. MaxLen \in Nat /\ Len(Bytes(t)) \in Nat
  <2>1. Bytes(t) \in Seq(Codes)
    BY BytesOfText
  <2>2. QED
    BY <2>1, LensIs
<1>2. PICK c : c = Least(MaxLen, Len(Bytes(t)))
  OBVIOUS
<1>3. c \in 0 .. MaxLen
  BY <1>1, <1>2 DEF Least
<1>4. s[2] = Count(c) /\ \A k \in 1 .. c : s[2 + k] = Bytes(t)[k]
  BY <1>2 DEF Holds
<1>5. s2[2] = s[2] /\ \A k \in 1 .. c : s2[2 + k] = s[2 + k]
  BY <1>1, <1>3
<1>6. s2[2] = Count(c) /\ \A k \in 1 .. c : s2[2 + k] = Bytes(t)[k]
  BY <1>4, <1>5
<1>7. QED
  BY <1>2, <1>6 DEF Holds

\* Bytes that are, place by place, those of one well-shaped block or of
\* another are well-shaped: a torn STRING still is.
LEMMA ShapedMix ==
  ASSUME NEW a, NEW b, NEW s, WellShaped(a), WellShaped(b), s \in Seq(Cells),
         \A k \in 1 .. Len(s) : (k <= Len(a) /\ s[k] = a[k]) \/ (k <= Len(b) /\ s[k] = b[k])
  PROVE  WellShaped(s)
<1>1. MaxLen \in Nat /\ Len(s) \in Nat /\ Len(a) \in Nat /\ Len(b) \in Nat
  BY LensIs DEF WellShaped
<1>2. Len(s) >= 2 => s[2].part \in 0 .. MaxLen
  <2>1. Len(s) >= 2 => 2 \in 1 .. Len(s)
    BY <1>1
  <2>2. QED
    BY <1>1, <2>1 DEF WellShaped
<1>3. ASSUME NEW k \in 3 .. 2 + MaxLen, k <= Len(s) PROVE s[k] \in InText
  <2>1. k \in 1 .. Len(s)
    BY <1>1, <1>3
  <2>2. QED
    BY <2>1 DEF WellShaped
<1>4. QED
  BY <1>2, <1>3 DEF WellShaped

\* The STRING that the PLC declares is empty and holds the empty text.
LEMMA StringInitInv == StringInit => StringInv
<1> SUFFICES ASSUME StringInit PROVE StringInv
  OBVIOUS
<1>0. MaxLen \in 0 .. 254 /\ Beyond \in Nat
  BY LensIs
<1>1. PICK a, b, c : /\ a = <<Count(MaxLen), Count(0)>>
                     /\ b = [k \in 1 .. MaxLen |-> Nul] /\ c = [k \in 1 .. Beyond |-> Other]
  OBVIOUS
<1>2. mem = (a \o b) \o c
  BY <1>1 DEF StringInit
<1>3. Count(MaxLen) \in Cells /\ Count(0) \in Cells /\ Nul \in Cells /\ Other \in Cells
  BY <1>0 DEF Cells, InText
<1>4. a \in Seq(Cells) /\ Len(a) = 2 /\ a[2] = Count(0)
  BY <1>1, <1>3
<1>5. b \in Seq(Cells) /\ Len(b) = MaxLen /\ \A k \in 1 .. MaxLen : b[k] = Nul
  BY <1>0, <1>1, <1>3
<1>6. c \in Seq(Cells) /\ Len(c) = Beyond /\ \A k \in 1 .. Beyond : c[k] = Other
  BY <1>0, <1>1, <1>3
<1>7. PICK ab : ab = a \o b
  OBVIOUS
<1>8. /\ ab \in Seq(Cells) /\ Len(ab) = 2 + MaxLen
      /\ \A k \in 1 .. 2 + MaxLen : ab[k] = IF k <= 2 THEN a[k] ELSE b[k - 2]
  <2>1. /\ a \o b \in Seq(Cells) /\ Len(a \o b) = Len(a) + Len(b)
        /\ \A k \in 1 .. Len(a) + Len(b) : (a \o b)[k] = IF k <= Len(a) THEN a[k] ELSE b[k - Len(a)]
    BY <1>4, <1>5, Concatenated, Zenon
  <2>2. QED
    BY <1>4, <1>5, <1>7, <2>1, Zenon
<1>9. /\ mem \in Seq(Cells) /\ Len(mem) = 2 + MaxLen + Beyond
      /\ \A k \in 1 .. 2 + MaxLen + Beyond : mem[k] = IF k <= 2 + MaxLen THEN ab[k] ELSE c[k - (2 + MaxLen)]
  <2>1. /\ ab \o c \in Seq(Cells) /\ Len(ab \o c) = Len(ab) + Len(c)
        /\ \A k \in 1 .. Len(ab) + Len(c) : (ab \o c)[k] = IF k <= Len(ab) THEN ab[k] ELSE c[k - Len(ab)]
    BY <1>6, <1>8, Concatenated, Zenon
  <2>2. mem = ab \o c
    BY <1>2, <1>7, Zenon
  <2>3. QED
    BY <1>6, <1>8, <2>1, <2>2, Zenon
<1>10. \A k \in 3 + MaxLen .. Len(mem) : mem[k] = Other
  <2>1. TAKE k \in 3 + MaxLen .. Len(mem)
  <2>2. k \in 1 .. 2 + MaxLen + Beyond /\ ~(k <= 2 + MaxLen) /\ k - (2 + MaxLen) \in 1 .. Beyond
    BY <1>0, <1>9
  <2>3. QED
    BY <1>6, <1>9, <2>2
<1>11. mem[2] = Count(0) /\ Count(0).part = 0
  BY <1>0, <1>4, <1>8, <1>9 DEF Count
<1>12. \A k \in 3 .. 2 + MaxLen : mem[k] \in InText
  <2>1. TAKE k \in 3 .. 2 + MaxLen
  <2>2. k \in 1 .. 2 + MaxLen + Beyond /\ k \in 1 .. 2 + MaxLen /\ k <= 2 + MaxLen /\ ~(k <= 2)
        /\ k - 2 \in 1 .. MaxLen
    BY <1>0
  <2>3. mem[k] = Nul
    BY <1>5, <1>8, <1>9, <2>2
  <2>4. QED
    BY <2>3 DEF InText
<1>13. WellShaped(mem)
  <2>1. mem \in Seq(Cells)
    BY <1>9
  <2>2. mem[2].part = 0 /\ 0 \in 0 .. MaxLen
    BY <1>0, <1>11
  <2>3. QED
    BY <1>12, <2>1, <2>2, Zenon DEF WellShaped
<1>14. Holds(mem, <<>>)
  <2>1. Len(Bytes(<<>>)) = Len(<<>>)
    BY BytesOfNone
  <2>2. Least(MaxLen, Len(Bytes(<<>>))) = 0
    BY <1>0, <2>1 DEF Least
  <2>3. QED
    BY <1>11, <2>2 DEF Holds
<1>15. Spared(returned.chars) /\ ReadBack
  BY SparedNone DEF StringInit, None, ReadBack, QuietRead
<1>16. QED
  <2>1. arg \in Seq(Alphabet) /\ text \in Seq(Alphabet) /\ torn \in BOOLEAN /\ steady \in BOOLEAN
    <3>1. arg = <<>> /\ text = <<>> /\ torn = FALSE /\ steady = FALSE
      BY DEF StringInit
    <3>2. <<>> \in Seq(Alphabet)
      OBVIOUS
    <3>3. QED
      BY <3>1, <3>2, Zenon
  <2>2. pc # "writing" /\ pc # "reading"
    BY DEF StringInit
  <2>3. Holds(mem, text)
    BY <1>14 DEF StringInit
  <2>4. QED
    BY <1>9, <1>10, <1>13, <1>15, <2>1, <2>2, <2>3, Zenon DEF StringInv

------------------------------------------------------------------------------
(***************************************************************************)
(* The steps.  A write begins with its image and with no chunk stored.      *)
(***************************************************************************)
LEMMA CallWriteKeeps ==
  ASSUME StringInv, NEW t \in Texts, CallWrite(t)
  PROVE  StringInv'
<1>1. t \in Seq(Alphabet)
  BY TextsAssumption
<1>2. /\ WellShaped(mem)' /\ (Len(mem) = 2 + MaxLen + Beyond)'
      /\ (\A k \in 3 + MaxLen .. Len(mem) : mem[k] = Other)'
      /\ (text \in Seq(Alphabet))' /\ (torn \in BOOLEAN)' /\ (~torn => Holds(mem, text))'
  BY DEF StringInv, CallWrite, WellShaped, Holds
<1>3. arg' = t /\ steady' = TRUE /\ pc' = "writing" /\ returned' = None
      /\ data' = to_bytes(MaxLen, t) /\ off' = 0
  BY DEF CallWrite, Begin
<1>4. (/\ data = to_bytes(MaxLen, arg) /\ off \in 0 .. Len(data)
       /\ steady => \A k \in 1 .. off : mem[k] = data[k])'
  <2>1. Len(data') = 2 + MaxLen /\ MaxLen \in Nat
    BY <1>1, <1>3, ImageIs, LensIs
  <2>2. off' \in 0 .. Len(data') /\ \A k \in 1 .. off' : FALSE
    BY <1>3, <2>1
  <2>3. QED
    BY <1>3, <2>2
<1>5. pc' # "reading" /\ (arg \in Seq(Alphabet))' /\ (steady \in BOOLEAN)'
  BY <1>1, <1>3
<1>6. Spared(returned.chars)' /\ ReadBack'
  BY <1>3, SparedNone DEF None, ReadBack, QuietRead, Spared
<1>7. QED
  BY <1>2, <1>4, <1>5, <1>6, Zenon DEF StringInv

\* A chunk ends where the image ends, or before.
LEMMA SizeIs ==
  ASSUME StringInv, pc = "writing"
  PROVE  Size \in Nat /\ Size \in 0 .. Len(data) - off
<1>1. data = to_bytes(MaxLen, arg) /\ off \in 0 .. Len(data) /\ arg \in Seq(Alphabet)
  BY DEF StringInv
<1>2. Len(data) = 2 + MaxLen /\ MaxLen \in Nat
  <2>1. Len(to_bytes(MaxLen, arg)) = 2 + MaxLen
    BY <1>1, ImageIs
  <2>2. QED
    BY <1>1, <2>1, LensIs, Zenon
<1>3. QED
  BY <1>1, <1>2, ChunksAssumption DEF Size, Chunk

\* What the PLC stores of a chunk, whoever hears of it: the block stays well-
\* shaped, and holds the text of the call after the last byte.
LEMMA StoreKeeps ==
  ASSUME StringInv, pc = "writing", NEW bytes \in 0 .. Size, Store(bytes)
  PROVE  /\ WellShaped(mem)' /\ (Len(mem) = 2 + MaxLen + Beyond)'
         /\ (\A k \in 3 + MaxLen .. Len(mem) : mem[k] = Other)'
         /\ (text \in Seq(Alphabet))' /\ (torn \in BOOLEAN)' /\ (~torn => Holds(mem, text))'
         /\ off + bytes \in off .. Len(data) /\ Len(data) \in Nat /\ off \in 0 .. Len(data)
         /\ steady => \A k \in 1 .. off + bytes : mem'[k] = data[k]
         /\ off + bytes # Len(data) => torn'
<1>1. /\ data = to_bytes(MaxLen, arg) /\ off \in 0 .. Len(data) /\ arg \in Seq(Alphabet)
      /\ steady => \A k \in 1 .. off : mem[k] = data[k]
  BY DEF StringInv
<1>2. WellShaped(data) /\ Len(data) = 2 + MaxLen /\ Holds(data, arg) /\ data \in Seq(Cells)
      /\ MaxLen \in Nat /\ Beyond \in Nat
  <2>1. /\ WellShaped(to_bytes(MaxLen, arg)) /\ Len(to_bytes(MaxLen, arg)) = 2 + MaxLen
        /\ Holds(to_bytes(MaxLen, arg), arg)
    BY <1>1, ImageIs
  <2>2. WellShaped(data) /\ Len(data) = 2 + MaxLen /\ Holds(data, arg)
    BY <1>1, <2>1, Zenon
  <2>3. QED
    BY <2>2, LensIs, Zenon DEF WellShaped
<1>3. WellShaped(mem) /\ Len(mem) = 2 + MaxLen + Beyond /\ mem \in Seq(Cells)
      /\ \A k \in 3 + MaxLen .. Len(mem) : mem[k] = Other
  BY DEF StringInv, WellShaped
<1>4. Size \in Nat /\ Size \in 0 .. Len(data) - off
  BY SizeIs
<1>5. PICK hi : hi = off + bytes
  OBVIOUS
<1>6. hi \in off .. Len(data)
  BY <1>1, <1>2, <1>4, <1>5
<1>7. mem' = [k \in DOMAIN mem |-> IF k \in off + 1 .. hi THEN data[k] ELSE mem[k]]
  BY <1>5 DEF Store
<1>8. mem' \in Seq(Cells) /\ Len(mem') = 2 + MaxLen + Beyond
      /\ \A k \in 1 .. 2 + MaxLen + Beyond :
           mem'[k] = IF k \in off + 1 .. hi THEN data[k] ELSE mem[k]
  BY <1>1, <1>2, <1>3, <1>6, <1>7
<1>9. WellShaped(mem')
  <2>1. ASSUME NEW k \in 1 .. Len(mem')
        PROVE  (k <= Len(data) /\ mem'[k] = data[k]) \/ (k <= Len(mem) /\ mem'[k] = mem[k])
    BY <1>1, <1>2, <1>3, <1>6, <1>8
  <2>2. QED
    BY <1>2, <1>3, <1>8, <2>1, ShapedMix
<1>10. \A k \in 3 + MaxLen .. Len(mem') : mem'[k] = Other
  <2>1. TAKE k \in 3 + MaxLen .. Len(mem')
  <2>2. k \in 1 .. 2 + MaxLen + Beyond /\ k \notin off + 1 .. hi /\ k \in 3 + MaxLen .. Len(mem)
    BY <1>1, <1>2, <1>3, <1>6, <1>8
  <2>3. QED
    BY <1>3, <1>8, <2>2
<1>11. steady \/ off = 0 => \A k \in 1 .. hi : mem'[k] = data[k]
  <2>1. SUFFICES ASSUME steady \/ off = 0, NEW k \in 1 .. hi PROVE mem'[k] = data[k]
    OBVIOUS
  <2>2. k \in 1 .. 2 + MaxLen + Beyond
    BY <1>2, <1>6
  <2>3. CASE k \in off + 1 .. hi
    BY <1>8, <2>2, <2>3
  <2>4. CASE k \notin off + 1 .. hi
    <3>1. k \in 1 .. off /\ off # 0
      BY <1>1, <1>6, <2>4
    <3>2. QED
      BY <1>1, <1>8, <2>1, <2>2, <2>4, <3>1
  <2>5. QED
    BY <2>3, <2>4
<1>12. text' = arg /\ torn' = ~(hi = Len(data) /\ (steady \/ off = 0))
  BY <1>5 DEF Store
<1>13. ~torn' => Holds(mem', text')
  <2>1. SUFFICES ASSUME ~torn' PROVE Holds(mem', arg)
    BY <1>12
  <2>2. \A k \in 1 .. 2 + MaxLen : mem'[k] = data[k]
    BY <1>2, <1>11, <1>12, <2>1
  <2>3. QED
    BY <1>1, <1>2, <2>2, HoldsSame
<1>14. (torn' \in BOOLEAN) /\ (hi # Len(data) => torn')
  BY <1>12
<1>15. Len(data) \in Nat
  BY <1>2
<1>16. steady => \A k \in 1 .. hi : mem'[k] = data[k]
  BY <1>11
<1>17. text' \in Seq(Alphabet)
  BY <1>1, <1>12
<1>18. QED
  BY <1>1, <1>5, <1>6, <1>8, <1>9, <1>10, <1>13, <1>14, <1>15, <1>16, <1>17, Zenon

\* The next chunk of a write, or its last.
LEMMA WriteNextKeeps ==
  ASSUME StringInv, WriteNext
  PROVE  StringInv'
<1>1. pc = "writing" /\ Store(Size) /\ off' = off + Size
      /\ arg' = arg /\ data' = data /\ size' = size /\ steady' = steady
  BY DEF WriteNext
<1>2. /\ WellShaped(mem)' /\ (Len(mem) = 2 + MaxLen + Beyond)'
      /\ (\A k \in 3 + MaxLen .. Len(mem) : mem[k] = Other)'
      /\ (text \in Seq(Alphabet))' /\ (torn \in BOOLEAN)' /\ (~torn => Holds(mem, text))'
      /\ off + Size \in off .. Len(data) /\ Len(data) \in Nat /\ off \in 0 .. Len(data)
      /\ steady => \A k \in 1 .. off + Size : mem'[k] = data[k]
      /\ off + Size # Len(data) => torn'
  <2>1. Size \in 0 .. Size
    BY <1>1, SizeIs
  <2>2. QED
    BY <1>1, <2>1, StoreKeeps
<1>3. arg \in Seq(Alphabet) /\ steady \in BOOLEAN /\ data = to_bytes(MaxLen, arg)
  BY <1>1 DEF StringInv
<1>4. (/\ data = to_bytes(MaxLen, arg) /\ off \in 0 .. Len(data)
       /\ steady => \A k \in 1 .. off : mem[k] = data[k])'
  <2>1. off + Size \in 0 .. Len(data)
    BY <1>2
  <2>2. QED
    BY <1>1, <1>2, <1>3, <2>1
<1>5. pc' # "reading" /\ (returned' = Done \/ (returned' = returned /\ off' # Len(data)))
  BY <1>1 DEF WriteNext
<1>6. Spared(returned.chars)' /\ ReadBack'
  <2>1. CASE returned' = Done
    BY <2>1, SparedNone DEF Done, ReadBack, QuietRead, Spared
  <2>2. CASE returned' = returned /\ off' # Len(data)
    <3>1. torn'
      BY <1>1, <1>2, <2>2
    <3>2. QED
      BY <2>2, <3>1 DEF StringInv, ReadBack, QuietRead, Spared
  <2>3. QED
    BY <1>5, <2>1, <2>2
<1>7. (arg \in Seq(Alphabet))' /\ (steady \in BOOLEAN)'
  BY <1>1, <1>3
<1>8. QED
  BY <1>2, <1>4, <1>5, <1>6, <1>7, Zenon DEF StringInv

\* A write that fails, before or after its chunk was stored.
LEMMA WriteFailsKeeps ==
  ASSUME StringInv, WriteFails
  PROVE  StringInv'
<1>1. pc = "writing" /\ pc' = "idle" /\ returned' = CallFailed /\ arg' = arg /\ steady' = steady
      /\ ((\E bytes \in 1 .. Size : Store(bytes)) \/ UNCHANGED <<mem, text, torn>>)
  BY DEF WriteFails
<1>2. /\ WellShaped(mem)' /\ (Len(mem) = 2 + MaxLen + Beyond)'
      /\ (\A k \in 3 + MaxLen .. Len(mem) : mem[k] = Other)'
      /\ (text \in Seq(Alphabet))' /\ (torn \in BOOLEAN)' /\ (~torn => Holds(mem, text))'
  <2>1. CASE \E bytes \in 1 .. Size : Store(bytes)
    <3>1. PICK bytes \in 1 .. Size : Store(bytes)
      BY <2>1
    <3>2. bytes \in 0 .. Size
      BY <1>1, <3>1, SizeIs
    <3>3. QED
      BY <1>1, <3>1, <3>2, StoreKeeps
  <2>2. CASE UNCHANGED <<mem, text, torn>>
    BY <2>2 DEF StringInv, WellShaped, Holds
  <2>3. QED
    BY <1>1, <2>1, <2>2
<1>3. pc' # "writing" /\ pc' # "reading"
  BY <1>1
<1>4. (arg \in Seq(Alphabet))' /\ (steady \in BOOLEAN)'
  BY <1>1 DEF StringInv
<1>5. Spared(returned.chars)' /\ ReadBack'
  BY <1>1, SparedNone DEF CallFailed, ReadBack, QuietRead, Spared
<1>6. QED
  BY <1>2, <1>3, <1>4, <1>5, Zenon DEF StringInv

\* A read begins with nothing read.
LEMMA CallReadKeeps ==
  ASSUME StringInv, NEW r \in ReadLens, CallRead(r)
  PROVE  StringInv'
<1>1. /\ WellShaped(mem)' /\ (Len(mem) = 2 + MaxLen + Beyond)'
      /\ (\A k \in 3 + MaxLen .. Len(mem) : mem[k] = Other)'
      /\ (text \in Seq(Alphabet))' /\ (torn \in BOOLEAN)' /\ (~torn => Holds(mem, text))'
      /\ (arg \in Seq(Alphabet))'
  BY DEF StringInv, CallRead, WellShaped, Holds
<1>2. pc' = "reading" /\ data' = <<>> /\ size' = r + 2 /\ returned' = None /\ steady' = TRUE
      /\ mem' = mem
  BY DEF CallRead, Begin
<1>3. r \in Nat /\ r <= MaxLen + Beyond /\ MaxLen \in Nat /\ Beyond \in Nat
  BY LensAssumption, LensIs
<1>4. (/\ size \in 2 .. Len(mem)
       /\ WellShaped(data) /\ Len(data) <= size
       /\ steady => \A k \in 1 .. Len(data) : data[k] = mem[k])'
  <2>1. WellShaped(<<>>)
    BY <1>3 DEF WellShaped
  <2>2. size' \in 2 .. Len(mem')
    BY <1>1, <1>2, <1>3
  <2>3. Len(data') = 0
    BY <1>2
  <2>4. Len(data') <= size' /\ \A k \in 1 .. Len(data') : FALSE
    BY <2>2, <2>3
  <2>5. WellShaped(data')
    BY <1>2, <2>1
  <2>6. QED
    BY <2>2, <2>4, <2>5
<1>5. Spared(returned.chars)' /\ ReadBack'
  BY <1>2, SparedNone DEF None, ReadBack, QuietRead, Spared
<1>6. pc' # "writing" /\ (steady \in BOOLEAN)'
  BY <1>2
<1>7. QED
  BY <1>1, <1>4, <1>5, <1>6, Zenon DEF StringInv

\* The next chunk of a read; the last one decodes what was read.
LEMMA ReadNextKeeps ==
  ASSUME StringInv, ReadNext
  PROVE  StringInv'
<1>1. pc = "reading" /\ mem' = mem /\ arg' = arg /\ size' = size /\ text' = text /\ torn' = torn
      /\ steady' = steady
  BY DEF ReadNext
<1>2. /\ size \in 2 .. Len(mem) /\ Len(mem) = 2 + MaxLen + Beyond /\ MaxLen \in Nat /\ Beyond \in Nat
      /\ WellShaped(mem) /\ WellShaped(data) /\ mem \in Seq(Cells) /\ data \in Seq(Cells)
      /\ Len(data) \in Nat /\ Len(data) <= size
      /\ steady => \A k \in 1 .. Len(data) : data[k] = mem[k]
  BY <1>1, LensIs DEF StringInv, WellShaped
<1>3. PICK more : more = Chunk(size - Len(data), ReadChunk)
  OBVIOUS
<1>4. more \in 0 .. size - Len(data)
  BY <1>2, <1>3, ChunksAssumption DEF Chunk
<1>5. PICK part, got : part = SubSeq(mem, Len(data) + 1, Len(data) + more) /\ got = data \o part
  OBVIOUS
<1>6. part \in Seq(Cells) /\ Len(part) = more /\ \A k \in 1 .. more : part[k] = mem[Len(data) + k]
  <2>1. PICK lo, hi : lo = Len(data) + 1 /\ hi = Len(data) + more
    OBVIOUS
  <2>2. lo \in Int /\ hi \in Int /\ \A k \in lo .. hi : mem[k] \in Cells
    BY <1>2, <1>4, <2>1
  <2>3. /\ SubSeq(mem, lo, hi) \in Seq(Cells)
        /\ Len(SubSeq(mem, lo, hi)) = IF lo <= hi THEN hi - lo + 1 ELSE 0
        /\ \A k \in 1 .. hi - lo + 1 : SubSeq(mem, lo, hi)[k] = mem[lo + k - 1]
    BY <2>2, SubSeqProperties
  <2>4. part = SubSeq(mem, lo, hi)
    BY <1>5, <2>1
  <2>5. Len(part) = more
    BY <1>2, <1>4, <2>1, <2>3, <2>4
  <2>6. ASSUME NEW k \in 1 .. more PROVE part[k] = mem[Len(data) + k]
    <3>1. k \in 1 .. hi - lo + 1 /\ lo + k - 1 = Len(data) + k
      BY <1>2, <1>4, <2>1
    <3>2. QED
      BY <2>3, <2>4, <3>1
  <2>7. QED
    BY <2>3, <2>4, <2>5, <2>6
<1>7. /\ got \in Seq(Cells) /\ Len(got) = Len(data) + more
      /\ \A k \in 1 .. Len(data) + more : got[k] = IF k <= Len(data) THEN data[k] ELSE part[k - Len(data)]
  <2>1. /\ data \o part \in Seq(Cells) /\ Len(data \o part) = Len(data) + Len(part)
        /\ \A k \in 1 .. Len(data) + Len(part) :
             (data \o part)[k] = IF k <= Len(data) THEN data[k] ELSE part[k - Len(data)]
    BY <1>2, <1>6, Concatenated, Zenon
  <2>2. QED
    BY <1>5, <1>6, <2>1, Zenon
<1>8. \A k \in 1 .. Len(got) : (k <= Len(data) /\ got[k] = data[k]) \/ (k <= Len(mem) /\ got[k] = mem[k])
  <2>1. TAKE k \in 1 .. Len(got)
  <2>2. CASE k <= Len(data)
    BY <1>7, <2>2
  <2>3. CASE ~(k <= Len(data))
    <3>1. k - Len(data) \in 1 .. more /\ Len(data) + (k - Len(data)) = k /\ k <= Len(mem)
      BY <1>2, <1>4, <1>7, <2>3
    <3>2. QED
      BY <1>6, <1>7, <2>3, <3>1
  <2>4. QED
    BY <2>2, <2>3
<1>9. WellShaped(got)
  BY <1>2, <1>7, <1>8, ShapedMix
<1>10. Len(got) <= size /\ Len(got) \in Nat
  BY <1>2, <1>4, <1>7
<1>11. steady => \A k \in 1 .. Len(got) : got[k] = mem[k]
  BY <1>2, <1>8, <1>10
<1>12. /\ data' = got
       /\ \/ Len(got) = size /\ pc' = "idle" /\ returned' = TextRead(decode_s7_string(got))
          \/ pc' = pc /\ returned' = returned
  BY <1>3, <1>5 DEF ReadNext
<1>13. /\ WellShaped(mem)' /\ (Len(mem) = 2 + MaxLen + Beyond)'
       /\ (\A k \in 3 + MaxLen .. Len(mem) : mem[k] = Other)'
       /\ (arg \in Seq(Alphabet))' /\ (text \in Seq(Alphabet))'
       /\ (torn \in BOOLEAN)' /\ (steady \in BOOLEAN)' /\ (~torn => Holds(mem, text))'
  BY <1>1 DEF StringInv, WellShaped, Holds
<1>14. pc' # "writing"
  BY <1>1, <1>12
<1>15. (/\ size \in 2 .. Len(mem)
        /\ WellShaped(data) /\ Len(data) <= size
        /\ steady => \A k \in 1 .. Len(data) : data[k] = mem[k])'
  BY <1>1, <1>2, <1>9, <1>10, <1>11, <1>12
<1>16. CASE pc' = pc /\ returned' = returned
  <2>1. Spared(returned.chars)' /\ ReadBack'
    BY <1>1, <1>16 DEF StringInv, Spared, ReadBack, QuietRead, Readable
  <2>2. QED
    BY <1>13, <1>14, <1>15, <2>1, Zenon DEF StringInv
<1>17. CASE Len(got) = size /\ pc' = "idle" /\ returned' = TextRead(decode_s7_string(got))
  <2>1. PICK chars : chars = decode_s7_string(got)
    OBVIOUS
  <2>2. returned'.chars = chars /\ returned'.kind = "read"
    BY <1>17, <2>1 DEF TextRead
  <2>3. Spared(chars)
    <3>1. Len(got) >= 2
      BY <1>2, <1>17
    <3>2. QED
      BY <1>9, <2>1, <3>1, ReadsNothingBehind
  <2>4. ASSUME steady, ~torn PROVE FitsBut(chars, text, Readable)
    <3>1. PICK whole : whole = SubSeq(mem, 1, size)
      OBVIOUS
    <3>2. whole \in Seq(Cells) /\ Len(whole) = size /\ \A k \in 1 .. size : whole[k] = mem[k]
      BY <1>2, <3>1
    <3>3. Len(got) = Len(whole) /\ \A k \in 1 .. Len(got) : got[k] = whole[k]
      BY <1>11, <1>17, <2>4, <3>2
    <3>4. got = whole
      BY <1>7, <3>2, <3>3, SeqEqual
    <3>5. Holds(mem, text) /\ text \in Seq(Alphabet)
      BY <2>4 DEF StringInv
    <3>6. 2 + MaxLen <= Len(mem)
      BY <1>2
    <3>7. FitsBut(decode_s7_string(SubSeq(mem, 1, size)), text, Least(MaxLen, size - 2))
      BY <1>2, <3>5, <3>6, ReadsBack
    <3>8. QED
      BY <2>1, <3>1, <3>4, <3>7, Zenon DEF Readable
  <2>5. ReadBack'
    <3>1. SUFFICES ASSUME QuietRead' PROVE (FitsBut(returned.chars, text, Readable))'
      BY DEF ReadBack, FitsBut
    <3>2. steady /\ ~torn
      BY <1>1, <3>1 DEF QuietRead
    <3>3. FitsBut(chars, text, Readable)
      BY <2>4, <3>2
    <3>4. Readable' = Readable
      BY <1>1 DEF Readable
    <3>5. QED
      BY <1>1, <2>2, <3>3, <3>4 DEF FitsBut
  <2>6. Spared(returned.chars)'
    BY <2>2, <2>3 DEF Spared
  <2>7. QED
    BY <1>13, <1>14, <1>15, <2>5, <2>6, Zenon DEF StringInv
<1>18. QED
  BY <1>12, <1>16, <1>17

\* A read that fails returns nothing.
LEMMA ReadFailsKeeps ==
  ASSUME StringInv, ReadFails
  PROVE  StringInv'
<1>1. pc' = "idle" /\ returned' = CallFailed
      /\ UNCHANGED <<mem, arg, data, off, size, text, torn, steady>>
  BY DEF ReadFails
<1>2. /\ WellShaped(mem)' /\ (Len(mem) = 2 + MaxLen + Beyond)'
      /\ (\A k \in 3 + MaxLen .. Len(mem) : mem[k] = Other)'
      /\ (arg \in Seq(Alphabet))' /\ (text \in Seq(Alphabet))'
      /\ (torn \in BOOLEAN)' /\ (steady \in BOOLEAN)' /\ (~torn => Holds(mem, text))'
  BY <1>1 DEF StringInv, WellShaped, Holds
<1>3. Spared(returned.chars)' /\ ReadBack'
  BY <1>1, SparedNone DEF CallFailed, ReadBack, QuietRead, Spared
<1>4. pc' # "writing" /\ pc' # "reading"
  BY <1>1
<1>5. QED
  BY <1>2, <1>3, <1>4, Zenon DEF StringInv

\* The program of the PLC assigns a text that fits; a call that is under way
\* is no longer steady.
LEMMA AssignKeeps ==
  ASSUME StringInv, NEW t \in PlcTexts, Assign(t)
  PROVE  StringInv'
<1>1. PICK all, L : all = Bytes(t) /\ L = Len(all)
  OBVIOUS
<1>2. t \in Seq(Alphabet) /\ all \in Seq(Codes) /\ L \in 0 .. MaxLen /\ MaxLen \in 0 .. 254 /\ Beyond \in Nat
  BY <1>1, TextsAssumption, BytesOfText, LensIs
<1>3. /\ mem \in Seq(Cells) /\ Len(mem) = 2 + MaxLen + Beyond /\ WellShaped(mem)
      /\ \A k \in 3 + MaxLen .. Len(mem) : mem[k] = Other
  BY DEF StringInv, WellShaped
<1>4. mem' = [k \in DOMAIN mem |-> CASE k = 2 -> Count(L)
                                     [] k \in 3 .. 2 + L -> all[k - 2]
                                     [] OTHER -> mem[k]]
  BY <1>1 DEF Assign
<1>5. Count(L) \in Cells /\ Count(L).part = L
  <2>1. \A x \in 0 .. 254 : x % 256 = x
    OBVIOUS
  <2>2. L % 256 = L /\ L \in 0 .. 255
    BY <1>2, <2>1
  <2>3. QED
    BY <2>2 DEF Cells, Count
<1>6. \A k \in 1 .. 2 + MaxLen + Beyond :
        /\ k = 2 => mem'[k] = Count(L)
        /\ k \in 3 .. 2 + L => mem'[k] = all[k - 2] /\ mem'[k] \in Codes
        /\ k # 2 /\ k \notin 3 .. 2 + L => mem'[k] = mem[k]
  <2>1. TAKE k \in 1 .. 2 + MaxLen + Beyond
  <2>2. k \in DOMAIN mem
    BY <1>3
  <2>3. mem'[k] = CASE k = 2 -> Count(L) [] k \in 3 .. 2 + L -> all[k - 2] [] OTHER -> mem[k]
    BY <1>4, <2>2
  <2>4. k \in 3 .. 2 + L => k # 2 /\ all[k - 2] \in Codes
    BY <1>1, <1>2
  <2>5. QED
    BY <2>3, <2>4
<1>7. mem' \in Seq(Cells) /\ Len(mem') = 2 + MaxLen + Beyond
  <2>1. DOMAIN mem = 1 .. 2 + MaxLen + Beyond /\ \A k \in DOMAIN mem : mem[k] \in Cells
    BY <1>3
  <2>2. \A k \in 1 .. 2 + MaxLen + Beyond : mem'[k] \in Cells
    BY <1>5, <1>6, <2>1 DEF Cells, InText
  <2>3. mem' = [k \in 1 .. 2 + MaxLen + Beyond |-> mem'[k]]
    BY <1>4, <2>1
  <2>4. 2 + MaxLen + Beyond \in Nat
    BY <1>2
  <2>5. QED
    BY <2>2, <2>3, <2>4
<1>8. \A k \in 3 + MaxLen .. Len(mem') : mem'[k] = Other
  <2>1. TAKE k \in 3 + MaxLen .. Len(mem')
  <2>2. k \in 1 .. 2 + MaxLen + Beyond /\ k # 2 /\ k \notin 3 .. 2 + L /\ k \in 3 + MaxLen .. Len(mem)
    BY <1>2, <1>3, <1>7
  <2>3. QED
    BY <1>3, <1>6, <2>2
<1>9. WellShaped(mem')
  <2>1. mem'[2] = Count(L)
    BY <1>2, <1>6
  <2>2. ASSUME NEW k \in 3 .. 2 + MaxLen PROVE mem'[k] \in InText
    <3>1. k \in 1 .. 2 + MaxLen + Beyond /\ k # 2 /\ k <= Len(mem)
      BY <1>2, <1>3
    <3>2. CASE k \in 3 .. 2 + L
      BY <1>6, <3>1, <3>2 DEF InText
    <3>3. CASE k \notin 3 .. 2 + L
      BY <1>3, <1>6, <3>1, <3>3 DEF WellShaped
    <3>4. QED
      BY <3>2, <3>3
  <2>3. QED
    BY <1>2, <1>5, <1>7, <2>1, <2>2 DEF WellShaped
<1>10. Holds(mem', t)
  <2>1. Least(MaxLen, Len(Bytes(t))) = L
    BY <1>1, <1>2 DEF Least
  <2>2. mem'[2] = Count(L)
    BY <1>2, <1>6
  <2>3. ASSUME NEW k \in 1 .. L PROVE mem'[2 + k] = all[k]
    <3>1. 2 + k \in 1 .. 2 + MaxLen + Beyond /\ 2 + k \in 3 .. 2 + L /\ (2 + k) - 2 = k
      BY <1>2
    <3>2. QED
      BY <1>6, <3>1
  <2>4. QED
    BY <1>1, <2>1, <2>2, <2>3, Zenon DEF Holds
<1>11. text' = t /\ torn' = FALSE /\ steady' = FALSE /\ UNCHANGED <<pc, arg, data, off, size, returned>>
  BY DEF Assign
<1>12. /\ (text \in Seq(Alphabet))' /\ (torn \in BOOLEAN)' /\ (steady \in BOOLEAN)'
       /\ (arg \in Seq(Alphabet))' /\ (~torn => Holds(mem, text))'
  BY <1>2, <1>10, <1>11 DEF StringInv
<1>13. (pc = "writing" =>
         /\ data = to_bytes(MaxLen, arg) /\ off \in 0 .. Len(data)
         /\ steady => \A k \in 1 .. off : mem[k] = data[k])'
  BY <1>11 DEF StringInv
<1>14. (pc = "reading" =>
         /\ size \in 2 .. Len(mem)
         /\ WellShaped(data) /\ Len(data) <= size
         /\ steady => \A k \in 1 .. Len(data) : data[k] = mem[k])'
  BY <1>3, <1>7, <1>11 DEF StringInv, WellShaped
<1>15. Spared(returned.chars)' /\ ReadBack'
  BY <1>11 DEF StringInv, Spared, ReadBack, QuietRead
<1>16. QED
  BY <1>7, <1>8, <1>9, <1>12, <1>13, <1>14, <1>15, Zenon DEF StringInv

\* Every step of a STRING keeps the invariant.
LEMMA StringStep ==
  ASSUME StringInv, StringNext \/ UNCHANGED stringVars
  PROVE  StringInv'
<1>1. CASE UNCHANGED stringVars
  <2>1. /\ WellShaped(mem)' /\ (Len(mem) = 2 + MaxLen + Beyond)'
        /\ (\A k \in 3 + MaxLen .. Len(mem) : mem[k] = Other)'
        /\ (arg \in Seq(Alphabet))' /\ (text \in Seq(Alphabet))'
        /\ (torn \in BOOLEAN)' /\ (steady \in BOOLEAN)' /\ (~torn => Holds(mem, text))'
    BY <1>1 DEF StringInv, stringVars, WellShaped, Holds
  <2>2. (pc = "writing" =>
          /\ data = to_bytes(MaxLen, arg) /\ off \in 0 .. Len(data)
          /\ steady => \A k \in 1 .. off : mem[k] = data[k])'
    BY <1>1 DEF StringInv, stringVars
  <2>3. (pc = "reading" =>
          /\ size \in 2 .. Len(mem)
          /\ WellShaped(data) /\ Len(data) <= size
          /\ steady => \A k \in 1 .. Len(data) : data[k] = mem[k])'
    BY <1>1 DEF StringInv, stringVars, WellShaped
  <2>4. Spared(returned.chars)' /\ ReadBack'
    BY <1>1 DEF StringInv, stringVars, Spared, ReadBack, QuietRead, Readable
  <2>5. QED
    BY <2>1, <2>2, <2>3, <2>4, Zenon DEF StringInv
<1>2. CASE StringNext
  BY <1>2, CallWriteKeeps, CallReadKeeps, WriteNextKeeps, WriteFailsKeeps, ReadNextKeeps, ReadFailsKeeps,
     AssignKeeps DEF StringNext
<1>3. QED
  BY <1>1, <1>2

(***************************************************************************)
(* StringInv in every state of a field, for every alphabet of characters of *)
(* 1 to 4 bytes, all texts, every declared length up to 254, every read     *)
(* length that stays within the block, all chunk sizes, and any number of   *)
(* calls and assignments; the steps of a number leave it alone.             *)
(***************************************************************************)
THEOREM StringInvariant == FieldSpec => []StringInv
<1>1. FieldInit => StringInv
  BY StringInitInv DEF FieldInit
<1>2. StringInv /\ [FieldNext]_fieldVars => StringInv'
  <2>1. SUFFICES ASSUME StringInv, [FieldNext]_fieldVars PROVE StringInv'
    OBVIOUS
  <2>2. StringNext \/ UNCHANGED stringVars
    BY <2>1 DEF FieldNext, fieldVars
  <2>3. QED
    BY <2>1, <2>2, StringStep
<1>3. QED
  BY <1>1, <1>2, PTL DEF FieldSpec

(***************************************************************************)
(* ReadBack in every behaviour: ag_read_string returns of a STRING that     *)
(* holds one text and is left alone meanwhile the characters that fit,      *)
(* however the chunks cut it, and nothing else but what a cut character of  *)
(* four bytes leaves.                                                       *)
(***************************************************************************)
THEOREM TextsComeBack == FieldSpec => []ReadBack
<1>1. StringInv => ReadBack
  BY DEF StringInv
<1>2. QED
  BY <1>1, StringInvariant, PTL

(***************************************************************************)
(* NeighbourUntouched in every behaviour: ag_write_string stores nothing    *)
(* behind the STRING, and ag_read_string returns nothing from there though  *)
(* it be called with a length that reaches there.                           *)
(***************************************************************************)
THEOREM NeighbourStaysUntouched == FieldSpec => []NeighbourUntouched
<1>1. StringInv => NeighbourUntouched
  BY DEF StringInv, NeighbourUntouched, Spared
<1>2. QED
  BY <1>1, StringInvariant, PTL

-----------------------------------------------------------------------------
(***************************************************************************)
(* The numbers of S7Float.  First powers of two: TwoTo is a function, and   *)
(* what its recursion makes of it is proved by the same induction.          *)
(***************************************************************************)
\* The recursion of TwoTo, and its solutions up to m.
Doubled(f, k) == IF k = 0 THEN 1 ELSE 2 * f[k - 1]
PowersTo(f, m) == f = [k \in 0 .. m |-> Doubled(f, k)]

\* The recursion of TwoTo has a solution up to each number.
LEMMA PowersExist == \A m \in Nat : \E f : PowersTo(f, m)
<1> DEFINE S == {m \in Nat : \E f : PowersTo(f, m)}
<1>1. 0 \in S
  <2>1. PICK f : f = [k \in 0 .. 0 |-> 1]
    OBVIOUS
  <2>2. f = [k \in 0 .. 0 |-> Doubled(f, k)]
    BY <2>1 DEF Doubled
  <2>3. QED
    BY <2>2 DEF PowersTo
<1>2. ASSUME NEW m \in Nat, m \in S PROVE m + 1 \in S
  <2>1. PICK f : f = [k \in 0 .. m |-> Doubled(f, k)]
    BY <1>2 DEF PowersTo
  <2>2. PICK g : g = [k \in 0 .. m + 1 |-> IF k <= m THEN f[k] ELSE 2 * f[m]]
    OBVIOUS
  <2>3. ASSUME NEW k \in 0 .. m + 1 PROVE g[k] = Doubled(g, k)
    <3>1. CASE k = 0
      <4>1. g[k] = f[k] /\ f[k] = Doubled(f, k)
        BY <2>1, <2>2, <3>1
      <4>2. QED
        BY <3>1, <4>1 DEF Doubled
    <3>2. CASE k # 0
      <4>1. k - 1 \in 0 .. m /\ k - 1 \in 0 .. m + 1 /\ k - 1 <= m
        BY <3>2
      <4>2. g[k - 1] = f[k - 1]
        BY <2>2, <4>1
      <4>3. CASE k <= m
        <5>1. k \in 0 .. m
          BY <4>3
        <5>2. g[k] = f[k] /\ f[k] = Doubled(f, k)
          BY <2>1, <2>2, <4>3, <5>1
        <5>3. QED
          BY <3>2, <4>2, <5>2 DEF Doubled
      <4>4. CASE ~(k <= m)
        <5>1. k - 1 = m
          BY <4>4
        <5>2. g[k] = 2 * f[m]
          BY <2>2, <4>4
        <5>3. QED
          BY <3>2, <4>2, <5>1, <5>2 DEF Doubled
      <4>5. QED
        BY <4>3, <4>4
    <3>3. QED
      BY <3>1, <3>2
  <2>4. g = [k \in 0 .. m + 1 |-> Doubled(g, k)]
    BY <2>2, <2>3
  <2>5. QED
    BY <2>4 DEF PowersTo
<1>3. Nat \subseteq S
  <2> HIDE DEF S
  <2>1. QED
    BY <1>1, <1>2, Upward
<1>4. QED
  BY <1>3

\* Two of these solutions agree as far as both go.
LEMMA PowersAgree ==
  ASSUME NEW m \in Nat, NEW f, PowersTo(f, m), NEW l \in Nat, NEW g, PowersTo(g, l)
  PROVE  \A k \in Nat : k <= m /\ k <= l => f[k] = g[k]
<1> DEFINE S == {k \in Nat : k <= m /\ k <= l => f[k] = g[k]}
<1>1. /\ \A k \in Nat : k <= m => f[k] = Doubled(f, k)
      /\ \A k \in Nat : k <= l => g[k] = Doubled(g, k)
  <2>1. /\ f = [j \in 0 .. m |-> Doubled(f, j)]
        /\ g = [j \in 0 .. l |-> Doubled(g, j)]
    BY DEF PowersTo
  <2>2. \A k \in 0 .. m : f[k] = Doubled(f, k)
    BY <2>1, Zenon
  <2>3. \A k \in 0 .. l : g[k] = Doubled(g, k)
    BY <2>1, Zenon
  <2>4. QED
    BY <2>2, <2>3
<1>2. 0 \in S
  BY <1>1 DEF Doubled
<1>3. ASSUME NEW k \in Nat, k \in S PROVE k + 1 \in S
  <2>1. SUFFICES ASSUME k + 1 <= m, k + 1 <= l PROVE f[k + 1] = g[k + 1]
    OBVIOUS
  <2>2. f[k] = g[k]
    BY <1>3, <2>1
  <2>3. f[k + 1] = Doubled(f, k + 1) /\ g[k + 1] = Doubled(g, k + 1)
    BY <1>1, <2>1
  <2>4. k + 1 # 0 /\ (k + 1) - 1 = k
    OBVIOUS
  <2>5. QED
    BY <2>2, <2>3, <2>4, Zenon DEF Doubled
<1>4. Nat \subseteq S
  <2> HIDE DEF S
  <2>1. QED
    BY <1>2, <1>3, Upward
<1>5. QED
  BY <1>4

\* TwoTo is what its recursive definition says: the solutions up to each
\* number make one on all of them.
LEMMA PowersUnfold == TwoTo = [k \in Nat |-> Doubled(TwoTo, k)]
<1>1. PICK h : h = [k \in Nat |-> (CHOOSE g : PowersTo(g, k))[k]]
  OBVIOUS
<1>2. ASSUME NEW k \in Nat PROVE h[k] = Doubled(h, k)
  <2>1. PICK g : g = (CHOOSE x : PowersTo(x, k))
    OBVIOUS
  <2>2. PowersTo(g, k) /\ h[k] = g[k]
    BY <1>1, <2>1, PowersExist
  <2>3. g[k] = Doubled(g, k)
    BY <2>2 DEF PowersTo
  <2>4. CASE k = 0
    BY <2>2, <2>3, <2>4 DEF Doubled
  <2>5. CASE k # 0
    <3>1. k - 1 \in Nat /\ k - 1 <= k - 1 /\ k - 1 <= k
      BY <2>5
    <3>2. PICK f : f = (CHOOSE x : PowersTo(x, k - 1))
      OBVIOUS
    <3>3. PowersTo(f, k - 1) /\ h[k - 1] = f[k - 1]
      BY <1>1, <3>1, <3>2, PowersExist
    <3>4. \A j \in Nat : j <= k - 1 /\ j <= k => f[j] = g[j]
      <4>1. k - 1 \in Nat /\ k \in Nat /\ PowersTo(f, k - 1) /\ PowersTo(g, k)
        BY <2>2, <3>1, <3>3
      <4>2. QED
        BY <4>1, PowersAgree
    <3>5. QED
      <4>1. f[k - 1] = g[k - 1]
        BY <3>1, <3>4
      <4>2. QED
        BY <2>2, <2>3, <2>5, <3>3, <4>1, Zenon DEF Doubled
  <2>6. QED
    BY <2>4, <2>5
<1>3. h = [k \in Nat |-> Doubled(h, k)]
  <2>1. DOMAIN h = Nat /\ h = [k \in DOMAIN h |-> h[k]]
    BY <1>1
  <2>2. QED
    BY <1>2, <2>1, Zenon
<1>4. \E f : f = [k \in Nat |-> Doubled(f, k)]
  BY <1>3, Zenon
<1>5. TwoTo = CHOOSE f : f = [k \in Nat |-> Doubled(f, k)]
  BY Zenon DEF TwoTo, Doubled
<1>6. QED
  BY <1>4, <1>5, Zenon

\* What is used of TwoTo: its two equations, and that its values are positive
\* natural numbers.
LEMMA Powers ==
  /\ TwoTo[0] = 1
  /\ \A k \in Nat : TwoTo[k + 1] = 2 * TwoTo[k]
  /\ \A k \in Nat : TwoTo[k] \in Nat /\ TwoTo[k] >= 1
<1>1. \A k \in Nat : TwoTo[k] = Doubled(TwoTo, k)
  <2>1. PICK f : f = TwoTo
    OBVIOUS
  <2>2. f = [k \in Nat |-> Doubled(f, k)]
    BY <2>1, PowersUnfold, Zenon
  <2>3. ASSUME NEW k \in Nat PROVE f[k] = Doubled(f, k)
    BY <2>2, Zenon
  <2>4. QED
    BY <2>1, <2>3, Zenon
<1>2. TwoTo[0] = 1
  BY <1>1 DEF Doubled
<1>3. ASSUME NEW k \in Nat PROVE TwoTo[k + 1] = 2 * TwoTo[k]
  <2>1. k + 1 \in Nat /\ k + 1 # 0 /\ (k + 1) - 1 = k
    OBVIOUS
  <2>2. QED
    BY <1>1, <2>1, Zenon DEF Doubled
<1> DEFINE S == {k \in Nat : TwoTo[k] \in Nat /\ TwoTo[k] >= 1}
<1>4. 0 \in S
  BY <1>2
<1>5. \A k \in Nat : k \in S => k + 1 \in S
  BY <1>3
<1>6. Nat \subseteq S
  <2> HIDE DEF S
  <2>1. QED
    BY <1>4, <1>5, Upward
<1>7. QED
  BY <1>2, <1>3, <1>6

\* The power of a sum is the product of the powers.
LEMMA PowersMultiply ==
  ASSUME NEW j \in Nat
  PROVE  \A k \in Nat : TwoTo[j + k] = TwoTo[j] * TwoTo[k]
<1> DEFINE S == {k \in Nat : TwoTo[j + k] = TwoTo[j] * TwoTo[k]}
<1>1. 0 \in S
  BY Powers
<1>2. ASSUME NEW k \in Nat, k \in S PROVE k + 1 \in S
  <2>1. PICK a, b : a = TwoTo[j] /\ b = TwoTo[k]
    OBVIOUS
  <2>2. a \in Nat /\ b \in Nat
    BY <2>1, Powers
  <2>3. TwoTo[j + (k + 1)] = 2 * TwoTo[j + k]
    <3>1. j + k \in Nat /\ j + (k + 1) = (j + k) + 1
      OBVIOUS
    <3>2. QED
      BY <3>1, Powers
  <2>4. TwoTo[j + k] = a * b /\ TwoTo[k + 1] = 2 * b
    BY <1>2, <2>1, Powers
  <2>5. 2 * (a * b) = a * (2 * b)
    BY <2>2
  <2>6. TwoTo[j + (k + 1)] = TwoTo[j] * TwoTo[k + 1]
    BY <2>1, <2>3, <2>4, <2>5, Zenon
  <2>7. QED
    BY <2>6
<1>3. Nat \subseteq S
  <2> HIDE DEF S
  <2>1. QED
    BY <1>1, <1>2, Upward
<1>4. QED
  BY <1>3

\* Products with a natural number keep the order.
LEMMA Scaled ==
  ASSUME NEW a \in Int, NEW b \in Int, NEW c \in Nat, a <= b
  PROVE  a * c <= b * c
OBVIOUS

\* A greater exponent has no smaller power,
LEMMA PowersGrow ==
  ASSUME NEW j \in Nat, NEW k \in Nat, j <= k
  PROVE  TwoTo[j] <= TwoTo[k]
<1>1. k - j \in Nat /\ j + (k - j) = k
  OBVIOUS
<1>2. PICK a, b : a = TwoTo[j] /\ b = TwoTo[k - j]
  OBVIOUS
<1>3. a \in Nat /\ b \in Nat /\ b >= 1
  BY <1>1, <1>2, Powers
<1>4. TwoTo[k] = a * b
  BY <1>1, <1>2, PowersMultiply
<1>5. 1 * a <= b * a /\ b * a = a * b
  BY <1>3, Scaled
<1>6. QED
  BY <1>2, <1>3, <1>4, <1>5

-----------------------------------------------------------------------------
(***************************************************************************)
(* The widths of the types, and the arithmetic of rounding.                *)
(***************************************************************************)
\* What is used of the widths of exponents and mantissas.
LEMMA WidthsAre ==
  /\ E32 \in Nat /\ M32 \in Nat /\ E64 \in Nat /\ MH \in Nat /\ ML \in Nat
  /\ P \in Nat /\ P - M32 \in Nat /\ P - M32 >= 1 /\ P = MH + ML
  /\ E32 >= 2 /\ E64 >= E32 + 1 /\ MH >= 1 /\ ML >= 1
<1>1. /\ E32 \in Nat \ {0} /\ M32 \in Nat \ {0} /\ E64 \in Nat \ {0}
      /\ MH \in Nat \ {0} /\ ML \in Nat \ {0}
  BY WidthsAssumption
<1>2. E32 > 1 /\ M32 < MH + ML /\ E32 < E64
  BY WidthsAssumption
<1>3. QED
  BY <1>1, <1>2 DEF P

\* A mantissa of a REAL, shifted to that of a Double, fills it.
LEMMA MantissasFit ==
  /\ TwoTo[P] \in Nat /\ TwoTo[M32] \in Nat /\ TwoTo[P - M32] \in Nat
  /\ TwoTo[P] >= 1 /\ TwoTo[M32] >= 1 /\ TwoTo[P - M32] >= 1
  /\ TwoTo[M32] * TwoTo[P - M32] = TwoTo[P]
  /\ TwoTo[P + 1] = 2 * TwoTo[P]
  /\ TwoTo[P - P] = 1
<1>1. M32 + (P - M32) = P /\ P - P = 0
  BY WidthsAre
<1>2. TwoTo[M32 + (P - M32)] = TwoTo[M32] * TwoTo[P - M32]
  BY WidthsAre, PowersMultiply
<1>3. TwoTo[M32] \in Nat /\ TwoTo[P - M32] \in Nat /\ TwoTo[M32] >= 1 /\ TwoTo[P - M32] >= 1
  BY WidthsAre, Powers
<1>4. TwoTo[P] \in Nat /\ TwoTo[P] >= 1 /\ TwoTo[P + 1] = 2 * TwoTo[P] /\ TwoTo[P - P] = 1
  BY <1>1, WidthsAre, Powers
<1>5. QED
  BY <1>1, <1>2, <1>3, <1>4

\* The low word of an LREAL has at most half of its mantissa.
LEMMA WordsFit ==
  /\ TwoTo[ML] \in Nat /\ TwoTo[MH] \in Nat /\ TwoTo[ML - 1] \in Nat
  /\ TwoTo[ML] = 2 * TwoTo[ML - 1]
  /\ TwoTo[ML - 1] >= 1
  /\ TwoTo[P] >= 2 * TwoTo[ML]
<1>1. ML - 1 \in Nat /\ (ML - 1) + 1 = ML /\ P = MH + ML
  BY WidthsAre
<1>2. TwoTo[1] = 2
  <2>1. TwoTo[0 + 1] = 2 * TwoTo[0]
    BY Powers
  <2>2. QED
    BY <2>1, Powers
<1>3. PICK a, b : a = TwoTo[MH] /\ b = TwoTo[ML]
  OBVIOUS
<1>4. a \in Nat /\ b \in Nat /\ a >= 2
  BY <1>2, <1>3, WidthsAre, Powers, PowersGrow
<1>5. TwoTo[P] = a * b
  BY <1>1, <1>3, WidthsAre, PowersMultiply
<1>6. 2 * b <= a * b
  BY <1>4, Scaled
<1>7. QED
  BY <1>1, <1>3, <1>4, <1>5, <1>6, WidthsAre, Powers

\* The exponents of a type are those around its bias, and a Double has them
\* all.
LEMMA BiasesAre ==
  ASSUME NEW t \in Types
  PROVE  /\ ExpBits(t) \in Nat /\ Bias(ExpBits(t)) \in Nat
         /\ Bias(ExpBits(t)) >= 1
         /\ Bias(ExpBits(t)) <= Bias(E64) /\ Bias(E64) \in Nat
         /\ TwoTo[ExpBits(t)] = 2 * Bias(ExpBits(t)) + 2
         /\ TwoTo[ExpBits(t) + 1] = 4 * Bias(ExpBits(t)) + 4
<1>1. PICK x : x = ExpBits(t)
  OBVIOUS
<1>2. x \in Nat /\ x >= 2 /\ x <= E64
  BY <1>1, WidthsAre DEF ExpBits, Types
<1>3. x - 1 \in Nat /\ (x - 1) + 1 = x /\ x - 1 >= 1 /\ E64 - 1 \in Nat /\ x - 1 <= E64 - 1
  BY <1>2, WidthsAre
<1>4. TwoTo[1] = 2
  <2>1. TwoTo[0 + 1] = 2 * TwoTo[0]
    BY Powers
  <2>2. QED
    BY <2>1, Powers
<1>5. TwoTo[x - 1] >= 2 /\ TwoTo[x - 1] <= TwoTo[E64 - 1]
  BY <1>3, <1>4, PowersGrow
<1>6. TwoTo[x] = 2 * TwoTo[x - 1] /\ TwoTo[x + 1] = 2 * TwoTo[x] /\ TwoTo[x - 1] \in Nat
      /\ TwoTo[E64 - 1] \in Nat
  BY <1>2, <1>3, Powers
<1>7. QED
  BY <1>1, <1>2, <1>5, <1>6 DEF Bias

\* What is rounded is at most half of the unit away.
LEMMA HalvesRoundUp ==
  ASSUME NEW x \in Nat, NEW d \in Nat, d >= 1
  PROVE  /\ Rounded(x, d) \in Nat
         /\ 2 * (d * Rounded(x, d)) <= 2 * x + d
         /\ 2 * x + d < 2 * (d * Rounded(x, d)) + 2 * d
<1>1. PICK a, b : a = 2 * x + d /\ b = 2 * d
  OBVIOUS
<1>2. a \in Nat /\ b \in Nat /\ b >= 1
  BY <1>1
<1>3. a \div b \in Nat /\ b * (a \div b) <= a /\ a < b * (a \div b) + b
  BY <1>2
<1>4. PICK r : r = a \div b
  OBVIOUS
<1>5. Rounded(x, d) = r
  BY <1>1, <1>4 DEF Rounded
<1>6. b * r = 2 * (d * r)
  BY <1>1, <1>3, <1>4
<1>7. QED
  BY <1>1, <1>3, <1>4, <1>5, <1>6

\* A multiple of the unit is not rounded at all.
LEMMA MultiplesStay ==
  ASSUME NEW k \in Nat, NEW d \in Nat, d >= 1
  PROVE  Rounded(k * d, d) = k
<1>1. PICK x, r : x = k * d /\ r = Rounded(x, d)
  OBVIOUS
<1>2. x \in Nat
  BY <1>1
<1>3. r \in Nat /\ 2 * (d * r) <= 2 * x + d /\ 2 * x + d < 2 * (d * r) + 2 * d
  BY <1>1, <1>2, HalvesRoundUp
<1>4. CASE k + 1 <= r
  <2>1. (k + 1) * d <= r * d
    BY <1>3, <1>4, Scaled
  <2>2. (k + 1) * d = x + d /\ r * d = d * r
    BY <1>1, <1>3
  <2>3. QED
    BY <1>2, <1>3, <2>1, <2>2
<1>5. CASE r + 1 <= k
  <2>1. (r + 1) * d <= k * d
    BY <1>3, <1>5, Scaled
  <2>2. (r + 1) * d = d * r + d
    BY <1>3
  <2>3. PICK y : y = d * r
    OBVIOUS
  <2>4. y \in Nat
    BY <1>3, <2>3
  <2>5. QED
    BY <1>1, <1>2, <1>3, <2>1, <2>2, <2>3, <2>4
<1>6. QED
  BY <1>1, <1>3, <1>4, <1>5

\* The distance of two natural numbers.
Gap(x, y) == IF x > y THEN x - y ELSE y - x

\* With q at most half of d away from k, and w at least half of d * u away
\* from k * u, q * u is at least as near to k * u as w is.
LEMMA NearerThan ==
  ASSUME NEW q \in Nat, NEW k \in Nat, NEW u \in Nat, NEW d \in Nat, NEW w \in Nat,
         2 * (q - k) <= d, 2 * (k - q) <= d,
         \/ d * u <= 2 * (w - k * u)
         \/ d * u <= 2 * (k * u - w)
  PROVE  Gap(q * u, k * u) <= Gap(w, k * u)
<1>1. PICK x, y, z : x = q * u /\ y = k * u /\ z = d * u
  OBVIOUS
<1>2. x \in Nat /\ y \in Nat /\ z \in Nat
  BY <1>1
<1>3. 2 * x - 2 * y <= z
  <2>1. (2 * (q - k)) * u <= d * u
    BY Scaled
  <2>2. (2 * (q - k)) * u = 2 * (q * u) - 2 * (k * u)
    OBVIOUS
  <2>3. QED
    BY <1>1, <2>1, <2>2
<1>4. 2 * y - 2 * x <= z
  <2>1. (2 * (k - q)) * u <= d * u
    BY Scaled
  <2>2. (2 * (k - q)) * u = 2 * (k * u) - 2 * (q * u)
    OBVIOUS
  <2>3. QED
    BY <1>1, <2>1, <2>2
<1>5. z <= 2 * (w - y) \/ z <= 2 * (y - w)
  BY <1>1
<1>6. Gap(x, y) <= Gap(w, y)
  BY <1>2, <1>3, <1>4, <1>5 DEF Gap
<1>7. QED
  BY <1>1, <1>6

\* Rounding the mantissa finds, among those of its binade, a nearest one, and
\* unless it carries it stays there.
LEMMA RoundedIsNearest ==
  ASSUME NEW a \in Nat, NEW c \in Nat, NEW d \in Nat, c * d = a, d >= 1,
         NEW m \in a .. 2 * a - 1, d < 2 * (2 * a - m),
         NEW r, r = Rounded(m - a, d)
  PROVE  /\ r \in 0 .. c - 1
         /\ 2 * ((c + r) * d - m) <= d /\ 2 * (m - (c + r) * d) <= d
         /\ \A k \in 0 .. c - 1 :
              \/ k = r
              \/ d <= 2 * ((c + k) * d - m)
              \/ d <= 2 * (m - (c + k) * d)
<1>1. PICK x, y : x = m - a /\ y = d * r
  OBVIOUS
<1>2. x \in Nat /\ m = x + a
  BY <1>1
<1>3. r \in Nat /\ 2 * y <= 2 * x + d /\ 2 * x + d < 2 * y + 2 * d
  BY <1>1, <1>2, HalvesRoundUp
<1>4. y \in Nat /\ r * d = y
  BY <1>1, <1>3
<1>5. ASSUME NEW k \in Nat PROVE (c + k) * d = a + k * d
  OBVIOUS
<1>6. (c + r) * d = a + y
  BY <1>3, <1>4, <1>5
<1>7. r \in 0 .. c - 1
  <2>1. SUFFICES ASSUME c <= r PROVE FALSE
    BY <1>3
  <2>2. c * d <= r * d
    BY <1>3, <2>1, Scaled
  <2>3. QED
    BY <1>2, <1>3, <1>4, <2>2
<1>8. ASSUME NEW k \in 0 .. c - 1, k # r
      PROVE  d <= 2 * ((c + k) * d - m) \/ d <= 2 * (m - (c + k) * d)
  <2>1. PICK z : z = k * d
    OBVIOUS
  <2>2. z \in Nat /\ (c + k) * d = a + z
    BY <1>5, <2>1
  <2>3. CASE r + 1 <= k
    <3>1. (r + 1) * d <= k * d
      BY <1>3, <2>3, Scaled
    <3>2. (r + 1) * d = r * d + d
      BY <1>3
    <3>3. QED
      BY <1>2, <1>3, <1>4, <2>1, <2>2, <3>1, <3>2
  <2>4. CASE k + 1 <= r
    <3>1. (k + 1) * d <= r * d /\ (k + 1) * d = z + d
      BY <1>3, <2>1, <2>4, Scaled
    <3>2. QED
      BY <1>2, <1>3, <1>4, <2>1, <2>2, <3>1
  <2>5. QED
    BY <1>3, <1>8, <2>3, <2>4
<1>9. QED
  BY <1>2, <1>3, <1>4, <1>6, <1>7, <1>8

\* and at least twice the power when it is not the same.
LEMMA PowersOfOrder ==
  ASSUME NEW j \in Nat, NEW k \in Nat, j < k
  PROVE  2 * TwoTo[j] <= TwoTo[k]
<1>1. j + 1 \in Nat /\ j + 1 <= k
  OBVIOUS
<1>2. TwoTo[j + 1] <= TwoTo[k]
  BY <1>1, PowersGrow
<1>3. QED
  BY <1>2, Powers

\* Mantissas of another binade, the next one above or any below, are at least
\* half a unit away from one that rounding does not carry to the next.
LEMMA OtherBinadesAreFarther ==
  ASSUME NEW a \in Nat, NEW c \in Nat, NEW d \in Nat, c * d = a,
         NEW m \in a .. 2 * a - 1, d < 2 * (2 * a - m),
         NEW k \in 0 .. c - 1, NEW u \in Nat, NEW u1 \in Nat,
         2 * u1 <= u \/ 2 * u <= u1
  PROVE  \/ d * u <= 2 * ((c + k) * d * u1 - m * u)
         \/ d * u <= 2 * (m * u - (c + k) * d * u1)
<1>1. PICK b : b = (c + k) * d
  OBVIOUS
<1>2. b \in Nat /\ a <= b /\ b <= 2 * a - d
  <2>1. c * d <= (c + k) * d
    BY Scaled
  <2>2. (c + k + 1) * d <= (2 * c) * d
    BY Scaled
  <2>3. (c + k + 1) * d = b + d /\ (2 * c) * d = 2 * a
    BY <1>1
  <2>4. b \in Nat
    BY <1>1
  <2>5. QED
    BY <1>1, <2>1, <2>2, <2>3, <2>4
<1>3. CASE 2 * u1 <= u
  <2>1. b * (2 * u1) <= b * u
    BY <1>2, <1>3, Scaled
  <2>2. b * u <= (2 * m - d) * u
    <3>1. b <= 2 * m - d /\ 2 * m - d \in Int
      BY <1>2
    <3>2. QED
      BY <1>2, <3>1, Scaled
  <2>3. (2 * m - d) * u = 2 * (m * u) - d * u
    OBVIOUS
  <2>4. b * (2 * u1) = 2 * (b * u1)
    BY <1>2
  <2>5. PICK x, y, z, w : x = b * u /\ y = b * u1 /\ z = m * u /\ w = d * u
    OBVIOUS
  <2>6. x \in Nat /\ y \in Nat /\ z \in Nat /\ w \in Nat
    BY <1>2, <2>5
  <2>7. w <= 2 * (z - y)
    BY <2>1, <2>2, <2>3, <2>4, <2>5, <2>6
  <2>8. QED
    BY <1>1, <2>5, <2>7
<1>4. CASE 2 * u <= u1
  <2>1. b * (2 * u) <= b * u1
    BY <1>2, <1>4, Scaled
  <2>2. (d + 2 * m) * u <= (4 * a) * u
    BY Scaled
  <2>3. (4 * a) * u <= (4 * b) * u
    BY <1>2, Scaled
  <2>4. (d + 2 * m) * u = d * u + 2 * (m * u)
    OBVIOUS
  <2>5. b * (2 * u) = 2 * (b * u) /\ (4 * b) * u = 4 * (b * u)
    BY <1>2
  <2>6. PICK x, y, z, w : x = b * u /\ y = b * u1 /\ z = m * u /\ w = d * u
    OBVIOUS
  <2>7. x \in Nat /\ y \in Nat /\ z \in Nat /\ w \in Nat
    BY <1>2, <2>6
  <2>8. w <= 2 * (y - z)
    BY <2>1, <2>2, <2>3, <2>4, <2>5, <2>6, <2>7
  <2>9. QED
    BY <1>1, <2>6, <2>8
<1>5. QED
  BY <1>3, <1>4

-----------------------------------------------------------------------------
(***************************************************************************)
(* What f32_to_bytes and f64_to_bytes make of a Double.                    *)
(***************************************************************************)
\* The conversions of either type, and what the properties say of them,
\* without the variables.
ReadOf(t, b) == IF t = "REAL" THEN f32_from_bytes(b) ELSE f64_from_bytes(b)
WrittenOf(t, d, k) == IF t = "REAL" THEN f32_to_bytes(d, k) ELSE f64_to_bytes(d, k)
LowBelow(t, b) == t = "LREAL" => b.man % TwoTo[ML] < TwoTo[ML - 1]
NearestTo(t, b, d) ==
  /\ IsNormal(t, b) /\ b.neg = d.neg
  /\ \A c \in Bits(t) : IsNormal(t, c) =>
       Distance(Meaning(t, b), d) <= Distance(Meaning(t, c), d)
Mantissas == TwoTo[P] .. TwoTo[P + 1] - 1

\* MantissasFit for both types: a Double has the precision of an LREAL.
LEMMA MantissaBits ==
  ASSUME NEW t \in Types
  PROVE  /\ TwoTo[ManBits(t)] \in Nat /\ TwoTo[P - ManBits(t)] \in Nat
         /\ TwoTo[ManBits(t)] >= 1 /\ TwoTo[P - ManBits(t)] >= 1
         /\ TwoTo[ManBits(t)] * TwoTo[P - ManBits(t)] = TwoTo[P]
<1>1. CASE t = "REAL"
  BY <1>1, MantissasFit DEF ManBits
<1>2. CASE t = "LREAL"
  BY <1>2, MantissasFit DEF ManBits
<1>3. QED
  BY <1>1, <1>2 DEF Types

\* Whatever exponent is packed, the outcome is a combination of bits of the
\* type;
LEMMA PackedInBits ==
  ASSUME NEW t \in Types, NEW neg \in BOOLEAN, NEW eb \in Int,
         NEW man \in 0 .. TwoTo[ManBits(t)] - 1
  PROVE  Packed(t, neg, eb, man) \in Bits(t)
<1>1. PICK x, s : x = eb % TwoTo[ExpBits(t)]
                  /\ s = (neg \/ eb % TwoTo[ExpBits(t) + 1] >= TwoTo[ExpBits(t)])
  OBVIOUS
<1>2. s \in BOOLEAN
  BY <1>1
<1>3. x \in 0 .. TwoTo[ExpBits(t)] - 1
  <2>1. PICK y : y = TwoTo[ExpBits(t)]
    OBVIOUS
  <2>2. y \in Nat /\ y >= 1
    BY <2>1, BiasesAre
  <2>3. QED
    BY <1>1, <2>1, <2>2
<1>4. Packed(t, neg, eb, man) = [neg |-> s, exp |-> x, man |-> man]
  BY <1>1, Zenon DEF Packed
<1>5. PICK xs, ms : xs = 0 .. TwoTo[ExpBits(t)] - 1 /\ ms = 0 .. TwoTo[ManBits(t)] - 1
  OBVIOUS
<1>6. [neg |-> s, exp |-> x, man |-> man] \in [neg : BOOLEAN, exp : xs, man : ms]
  BY <1>2, <1>3, <1>5
<1>7. QED
  BY <1>4, <1>5, <1>6, Zenon DEF Bits

\* an exponent that fits stays what it is and leaves the sign alone.
LEMMA PackedFits ==
  ASSUME NEW t \in Types, NEW neg \in BOOLEAN, NEW eb \in 0 .. TwoTo[ExpBits(t)] - 1, NEW man
  PROVE  Packed(t, neg, eb, man) = [neg |-> neg, exp |-> eb, man |-> man]
<1>1. PICK y, z : y = TwoTo[ExpBits(t)] /\ z = TwoTo[ExpBits(t) + 1]
  OBVIOUS
<1>2. y \in Nat /\ z \in Nat /\ y >= 1 /\ z = 2 * y
  BY <1>1, BiasesAre
<1>3. eb % y = eb /\ eb % z = eb /\ ~(eb >= y)
  BY <1>1, <1>2
<1>4. (neg \/ eb % z >= y) = neg
  BY <1>3
<1>5. QED
  BY <1>1, <1>3, <1>4, Zenon DEF Packed

\* What f32_to_bytes and f64_to_bytes pack, with n from ilog2_floor.
LEMMA WrittenMantissa ==
  ASSUME NEW t \in Types, NEW neg \in BOOLEAN, NEW m \in Mantissas, NEW e \in Int, NEW k \in Int
  PROVE  \E man \in 0 .. TwoTo[ManBits(t)] - 1 :
           /\ WrittenOf(t, Finite(neg, m, e), k) = Packed(t, neg, k + Bias(ExpBits(t)), man)
           /\ t = "REAL" =>
                man = Rounded(m - TwoTo[P], TwoTo[P - M32]) % TwoTo[M32]
           /\ t = "LREAL" => man = m - TwoTo[P]
<1>1. m - TwoTo[P] \in 0 .. TwoTo[P] - 1
  BY MantissasFit DEF Mantissas
<1>2. Finite(neg, m, e).neg = neg /\ Finite(neg, m, e).m = m
  BY Zenon DEF Finite
<1>3. CASE t = "REAL"
  <2>1. PICK man : man = Rounded(m - TwoTo[P], TwoTo[P - M32]) % TwoTo[M32]
    OBVIOUS
  <2>2. man \in 0 .. TwoTo[M32] - 1
    <3>1. PICK r, c : r = Rounded(m - TwoTo[P], TwoTo[P - M32]) /\ c = TwoTo[M32]
      OBVIOUS
    <3>2. c \in Nat /\ c >= 1
      BY <3>1, MantissasFit
    <3>3. r \in Nat
      <4>1. PICK x, d : x = m - TwoTo[P] /\ d = TwoTo[P - M32]
        OBVIOUS
      <4>2. x \in Nat /\ d \in Nat /\ d >= 1
        BY <1>1, <4>1, MantissasFit
      <4>3. QED
        BY <3>1, <4>1, <4>2, HalvesRoundUp
    <3>4. r % c \in 0 .. c - 1
      BY <3>2, <3>3
    <3>5. QED
      BY <2>1, <3>1, <3>4, Zenon
  <2>3. WrittenOf(t, Finite(neg, m, e), k) = Packed(t, neg, k + Bias(ExpBits(t)), man)
    BY <1>2, <1>3, <2>1, Zenon DEF WrittenOf, f32_to_bytes, ExpBits
  <2>4. ManBits(t) = M32
    BY <1>3 DEF ManBits
  <2>5. t # "LREAL"
    BY <1>3
  <2>6. QED
    BY <2>1, <2>2, <2>3, <2>4, <2>5, Zenon
<1>4. CASE t = "LREAL"
  <2>1. t # "REAL"
    BY <1>4
  <2>2. WrittenOf(t, Finite(neg, m, e), k) = Packed(t, neg, k + Bias(ExpBits(t)), m - TwoTo[P])
    BY <1>2, <1>4, <2>1, Zenon DEF WrittenOf, f64_to_bytes, ExpBits
  <2>3. ManBits(t) = P
    BY <2>1 DEF ManBits
  <2>4. QED
    BY <1>1, <2>1, <2>2, <2>3, Zenon
<1>5. QED
  BY <1>3, <1>4, Zenon DEF Types

\* A finite Double other than zero is written as bits of the type.
LEMMA WrittenInBits ==
  ASSUME NEW t \in Types, NEW neg \in BOOLEAN, NEW m \in Mantissas, NEW e \in Int, NEW k \in Int
  PROVE  WrittenOf(t, Finite(neg, m, e), k) \in Bits(t)
<1>1. PICK man \in 0 .. TwoTo[ManBits(t)] - 1 :
        WrittenOf(t, Finite(neg, m, e), k) = Packed(t, neg, k + Bias(ExpBits(t)), man)
  BY WrittenMantissa
<1>2. k + Bias(ExpBits(t)) \in Int
  BY BiasesAre
<1>3. QED
  BY <1>1, <1>2, PackedInBits, Zenon

\* The distance of two finite numbers, in units of the smallest.
LEMMA DistanceOfFinite ==
  ASSUME NEW neg, NEW m, NEW e, NEW neg1, NEW m1, NEW e1
  PROVE  Distance(Finite(neg, m, e), Finite(neg1, m1, e1)) =
           Gap(m * TwoTo[e + Bias(E64)], m1 * TwoTo[e1 + Bias(E64)])
<1>1. /\ Magnitude(Finite(neg, m, e)) = m * TwoTo[e + Bias(E64)]
      /\ Magnitude(Finite(neg1, m1, e1)) = m1 * TwoTo[e1 + Bias(E64)]
  BY Zenon DEF Magnitude, Finite
<1>2. QED
  BY <1>1, Zenon DEF Distance, Gap

\* The meaning of normal bits.
LEMMA MeaningOfNormal ==
  ASSUME NEW t \in Types, NEW b, IsNormal(t, b)
  PROVE  Meaning(t, b) =
           Finite(b.neg, (TwoTo[ManBits(t)] + b.man) * TwoTo[P - ManBits(t)],
                  b.exp - Bias(ExpBits(t)))
<1>1. ~IsZero(b)
  BY DEF IsNormal, IsZero
<1>2. ~IsSpecial(t, b)
  <2>1. TwoTo[ExpBits(t)] \in Int
    BY BiasesAre
  <2>2. QED
    BY <2>1 DEF IsNormal, IsSpecial
<1>3. QED
  BY <1>1, <1>2, Zenon DEF Meaning

\* The parts of the bits, and that they are all there is.
LEMMA BitsAre ==
  ASSUME NEW t, NEW b \in Bits(t)
  PROVE  /\ b.neg \in BOOLEAN /\ b.exp \in 0 .. TwoTo[ExpBits(t)] - 1
         /\ b.man \in 0 .. TwoTo[ManBits(t)] - 1
         /\ b = [neg |-> b.neg, exp |-> b.exp, man |-> b.man]
BY DEF Bits

\* A Double in the range of the type whose rounding stays in its binade is
\* written as normal bits of its sign, and no normal bits mean a nearer
\* number.
LEMMA NearestIsWritten ==
  ASSUME NEW t \in Types, NEW neg \in BOOLEAN, NEW m \in Mantissas,
         NEW e \in 1 - Bias(ExpBits(t)) .. Bias(ExpBits(t)),
         t = "REAL" => TwoTo[P - M32] < 2 * (2 * TwoTo[P] - m)
  PROVE  NearestTo(t, WrittenOf(t, Finite(neg, m, e), e), Finite(neg, m, e))
<1>1. PICK d, b : d = Finite(neg, m, e) /\ b = WrittenOf(t, d, e)
  OBVIOUS
<1>2. PICK man \in 0 .. TwoTo[ManBits(t)] - 1 :
        /\ b = Packed(t, neg, e + Bias(ExpBits(t)), man)
        /\ t = "REAL" => man = Rounded(m - TwoTo[P], TwoTo[P - M32]) % TwoTo[M32]
        /\ t = "LREAL" => man = m - TwoTo[P]
  BY <1>1, WrittenMantissa
<1>3. PICK eb : eb = e + Bias(ExpBits(t))
  OBVIOUS
<1>4. /\ eb \in 1 .. TwoTo[ExpBits(t)] - 2 /\ eb \in 0 .. TwoTo[ExpBits(t)] - 1
      /\ eb - Bias(ExpBits(t)) = e /\ e \in Int /\ e + Bias(E64) \in Nat
  <2>1. PICK x, y, z : x = Bias(ExpBits(t)) /\ y = Bias(E64) /\ z = TwoTo[ExpBits(t)]
    OBVIOUS
  <2>2. x \in Nat /\ y \in Nat /\ x <= y /\ z = 2 * x + 2 /\ e \in 1 - x .. x /\ eb = e + x
    BY <1>3, <2>1, BiasesAre
  <2>3. eb \in 1 .. z - 2 /\ eb \in 0 .. z - 1 /\ eb - x = e /\ e \in Int /\ e + y \in Nat
    BY <2>2
  <2>4. QED
    BY <2>1, <2>3
<1>5. b = [neg |-> neg, exp |-> eb, man |-> man]
  BY <1>2, <1>3, <1>4, PackedFits
<1>6. b.neg = neg /\ b.exp = eb /\ b.man = man
  BY <1>5, Zenon
<1>7. IsNormal(t, b)
  BY <1>4, <1>6, Zenon DEF IsNormal
<1>8. d.neg = neg
  BY <1>1, Zenon DEF Finite
<1>9. PICK a, c, g, u : a = TwoTo[P] /\ c = TwoTo[ManBits(t)] /\ g = TwoTo[P - ManBits(t)]
                        /\ u = TwoTo[e + Bias(E64)]
  OBVIOUS
<1>10. a \in Nat /\ c \in Nat /\ g \in Nat /\ u \in Nat /\ g >= 1 /\ c >= 1 /\ c * g = a
       /\ m \in a .. 2 * a - 1
  BY <1>4, <1>9, MantissaBits, MantissasFit, Powers DEF Mantissas
<1>11. Meaning(t, b) = Finite(neg, (c + man) * g, e)
  BY <1>4, <1>6, <1>7, <1>9, MeaningOfNormal
<1>12. PICK q : q = (c + man) * g
  OBVIOUS
<1>13. /\ q \in Nat /\ 2 * (q - m) <= g /\ 2 * (m - q) <= g
       /\ \A k \in 0 .. c - 1 : k = man \/ g <= 2 * ((c + k) * g - m) \/ g <= 2 * (m - (c + k) * g)
       /\ t = "LREAL" => q = m
  <2>1. CASE t = "REAL"
    <3>1. PICK r : r = Rounded(m - a, g)
      OBVIOUS
    <3>2. g = TwoTo[P - M32] /\ c = TwoTo[M32] /\ g < 2 * (2 * a - m)
      BY <1>9, <2>1 DEF ManBits
    <3>3. /\ r \in 0 .. c - 1
          /\ 2 * ((c + r) * g - m) <= g /\ 2 * (m - (c + r) * g) <= g
          /\ \A k \in 0 .. c - 1 : \/ k = r
                                   \/ g <= 2 * ((c + k) * g - m)
                                   \/ g <= 2 * (m - (c + k) * g)
      BY <1>10, <3>1, <3>2, RoundedIsNearest, ZenonT(60)
    <3>4. man = r % c
      BY <1>2, <1>9, <2>1, <3>1, <3>2
    <3>5. man = r
      BY <1>10, <3>3, <3>4
    <3>6. q \in Nat
      BY <1>10, <1>12, <3>3, <3>5
    <3>7. t # "LREAL"
      BY <2>1
    <3>8. QED
      BY <1>12, <3>3, <3>5, <3>6, <3>7
  <2>2. CASE t = "LREAL"
    <3>1. c = a /\ g = 1 /\ man = m - a
      BY <1>2, <1>9, <2>2, MantissasFit DEF ManBits
    <3>2. q = m
      BY <1>10, <1>12, <3>1
    <3>3. ASSUME NEW k \in 0 .. c - 1, k # man
          PROVE  g <= 2 * ((c + k) * g - m) \/ g <= 2 * (m - (c + k) * g)
      BY <1>10, <3>1, <3>3
    <3>4. QED
      BY <1>10, <3>1, <3>2, <3>3
  <2>3. QED
    BY <2>1, <2>2 DEF Types
<1>14. ASSUME NEW x \in Bits(t), IsNormal(t, x)
       PROVE  Distance(Meaning(t, b), d) <= Distance(Meaning(t, x), d)
  <2>1. PICK k, e1 : k = x.man /\ e1 = x.exp - Bias(ExpBits(t))
    OBVIOUS
  <2>2. k \in 0 .. c - 1 /\ e1 \in Int /\ e1 + Bias(E64) \in Nat
    <3>1. k \in 0 .. c - 1
      BY <1>9, <2>1, BitsAre
    <3>2. x.exp \in 1 .. TwoTo[ExpBits(t)] - 2
      BY <1>14 DEF IsNormal
    <3>3. PICK j, y, z, xe : /\ j = Bias(ExpBits(t)) /\ y = Bias(E64) /\ z = TwoTo[ExpBits(t)]
                            /\ xe = x.exp
      OBVIOUS
    <3>4. j \in Nat /\ y \in Nat /\ j <= y /\ z = 2 * j + 2 /\ xe \in 1 .. z - 2 /\ e1 = xe - j
      BY <2>1, <3>2, <3>3, BiasesAre
    <3>5. e1 \in Int /\ e1 + y \in Nat
      BY <3>4
    <3>6. QED
      BY <3>1, <3>3, <3>5
  <2>3. PICK u1 : u1 = TwoTo[e1 + Bias(E64)]
    OBVIOUS
  <2>4. u1 \in Nat
    BY <2>2, <2>3, Powers
  <2>5. Meaning(t, x) = Finite(x.neg, (c + k) * g, e1)
    BY <1>9, <1>14, <2>1, MeaningOfNormal
  <2>6. Distance(Meaning(t, x), d) = Gap((c + k) * g * u1, m * u)
    BY <1>1, <1>9, <2>3, <2>5, DistanceOfFinite
  <2>7. Distance(Meaning(t, b), d) = Gap(q * u, m * u)
    BY <1>1, <1>9, <1>11, <1>12, DistanceOfFinite
  <2>8. Gap(q * u, m * u) <= Gap((c + k) * g * u1, m * u)
    <3>1. PICK w : w = (c + k) * g * u1
      OBVIOUS
    <3>2. w \in Nat
      BY <1>10, <2>2, <2>4, <3>1
    <3>3. m \in Nat /\ q \in Nat /\ u \in Nat /\ g \in Nat /\ 2 * (q - m) <= g /\ 2 * (m - q) <= g
      BY <1>10, <1>13
    <3>4. CASE q = m
      BY <1>10, <3>1, <3>2, <3>4 DEF Gap
    <3>5. CASE q # m /\ e1 = e
      <4>1. u1 = u
        BY <1>9, <2>3, <3>5
      <4>2. CASE k = man
        <5>1. w = q * u
          BY <1>12, <3>1, <4>1, <4>2
        <5>2. Gap(w, m * u) = Gap(w, m * u) /\ Gap(w, m * u) \in Int
          BY <1>10, <3>2 DEF Gap
        <5>3. QED
          BY <3>1, <5>1, <5>2
      <4>3. CASE k # man
        <5>1. PICK z : z = (c + k) * g
          OBVIOUS
        <5>2. z \in Nat
          BY <1>10, <2>2, <5>1
        <5>3. g <= 2 * (z - m) \/ g <= 2 * (m - z)
          BY <1>13, <2>2, <4>3, <5>1
        <5>4. w = z * u
          BY <3>1, <4>1, <5>1
        <5>5. g * u <= 2 * (w - m * u) \/ g * u <= 2 * (m * u - w)
          <6>1. CASE g <= 2 * (z - m)
            <7>1. g * u <= (2 * (z - m)) * u
              BY <1>10, <5>2, <6>1, Scaled
            <7>2. (2 * (z - m)) * u = 2 * (z * u - m * u)
              BY <1>10, <5>2
            <7>3. QED
              BY <5>4, <7>1, <7>2
          <6>2. CASE g <= 2 * (m - z)
            <7>1. g * u <= (2 * (m - z)) * u
              BY <1>10, <5>2, <6>2, Scaled
            <7>2. (2 * (m - z)) * u = 2 * (m * u - z * u)
              BY <1>10, <5>2
            <7>3. QED
              BY <5>4, <7>1, <7>2
          <6>3. QED
            BY <5>3, <6>1, <6>2
        <5>6. QED
          BY <1>10, <1>13, <3>1, <3>2, <3>3, <5>5, NearerThan
      <4>4. QED
        BY <4>2, <4>3
    <3>6. CASE q # m /\ e1 # e
      <4>1. t = "REAL"
        BY <1>13, <3>6 DEF Types
      <4>2. g < 2 * (2 * a - m)
        BY <1>9, <4>1 DEF ManBits
      <4>3. 2 * u1 <= u \/ 2 * u <= u1
        <5>1. PICK j, l : j = e1 + Bias(E64) /\ l = e + Bias(E64)
          OBVIOUS
        <5>2. j \in Nat /\ l \in Nat /\ u1 = TwoTo[j] /\ u = TwoTo[l]
          BY <1>4, <1>9, <2>2, <2>3, <5>1
        <5>3. j < l \/ l < j
          BY <1>4, <2>2, <3>6, <5>1, BiasesAre
        <5>4. QED
          BY <5>2, <5>3, PowersOfOrder
      <4>4. g * u <= 2 * (w - m * u) \/ g * u <= 2 * (m * u - w)
        BY <1>10, <2>2, <2>4, <3>1, <4>2, <4>3, OtherBinadesAreFarther
      <4>5. QED
        BY <1>10, <1>13, <3>1, <3>2, <3>3, <4>4, NearerThan
    <3>7. QED
      BY <3>4, <3>5, <3>6
  <2>9. QED
    BY <2>6, <2>7, <2>8
<1>15. NearestTo(t, b, d)
  BY <1>6, <1>7, <1>8, <1>14, Zenon DEF NearestTo
<1>16. QED
  BY <1>1, <1>15

-----------------------------------------------------------------------------
(***************************************************************************)
(* What f32_from_bytes and f64_from_bytes make of bits.                    *)
(***************************************************************************)
\* The cases of f32_from_bytes and f64_from_bytes.
LEMMA ReadIs ==
  ASSUME NEW t \in Types, NEW b \in Bits(t)
  PROVE  /\ IsZero(b) => ReadOf(t, b) = Zero
         /\ ~IsZero(b) /\ IsSpecial(t, b) => ReadOf(t, b) = Infinity(b.neg)
         /\ ~IsZero(b) /\ ~IsSpecial(t, b) /\ t = "REAL" =>
              ReadOf(t, b) = Finite(b.neg, TwoTo[P] + b.man * TwoTo[P - M32],
                                    b.exp - Bias(ExpBits(t)))
         /\ ~IsZero(b) /\ ~IsSpecial(t, b) /\ t = "LREAL" =>
              ReadOf(t, b) =
                Normal(b.neg,
                       TwoTo[P] + (b.man \div TwoTo[ML]) * TwoTo[ML]
                         + SignedLow(b.man % TwoTo[ML]),
                       b.exp - Bias(ExpBits(t)))
<1>1. ~(IsZero(b) /\ IsSpecial(t, b))
  <2>1. PICK x, y : x = TwoTo[ExpBits(t)] /\ y = b.exp
    OBVIOUS
  <2>2. x \in Nat /\ x >= 4
    BY <2>1, BiasesAre
  <2>3. QED
    BY <2>1, <2>2 DEF IsZero, IsSpecial
<1>2. CASE t = "REAL"
  <2>1. ReadOf(t, b) = f32_from_bytes(b) /\ ExpBits(t) = E32 /\ t # "LREAL"
    BY <1>2 DEF ReadOf, ExpBits
  <2>2. IsZero(b) => f32_from_bytes(b) = Zero
    BY <1>1, <1>2, Zenon DEF f32_from_bytes
  <2>3. ~IsZero(b) /\ IsSpecial(t, b) => f32_from_bytes(b) = Infinity(b.neg)
    BY <1>1, <1>2, Zenon DEF f32_from_bytes
  <2>4. ~IsZero(b) /\ ~IsSpecial(t, b) =>
          f32_from_bytes(b) =
            Finite(b.neg, TwoTo[P] + b.man * TwoTo[P - M32], b.exp - Bias(E32))
    BY <1>1, <1>2, Zenon DEF f32_from_bytes
  <2>5. QED
    BY <2>1, <2>2, <2>3, <2>4, Zenon
<1>3. CASE t = "LREAL"
  <2>1. ReadOf(t, b) = f64_from_bytes(b) /\ ExpBits(t) = E64 /\ t # "REAL"
    BY <1>3 DEF ReadOf, ExpBits
  <2>2. IsZero(b) => f64_from_bytes(b) = Zero
    BY <1>1, <1>3, Zenon DEF f64_from_bytes
  <2>3. ~IsZero(b) /\ IsSpecial(t, b) => f64_from_bytes(b) = Infinity(b.neg)
    BY <1>1, <1>3, Zenon DEF f64_from_bytes
  <2>4. ~IsZero(b) /\ ~IsSpecial(t, b) =>
          f64_from_bytes(b) =
            Normal(b.neg,
                   TwoTo[P] + (b.man \div TwoTo[ML]) * TwoTo[ML] + SignedLow(b.man % TwoTo[ML]),
                   b.exp - Bias(E64))
    BY <1>1, <1>3, Zenon DEF f64_from_bytes
  <2>5. QED
    BY <2>1, <2>2, <2>3, <2>4, Zenon
<1>4. QED
  BY <1>2, <1>3, Zenon DEF Types

\* The signed low word takes at most half a word from the mantissa, and
\* nothing when its top bit is not set.
LEMMA LowWord ==
  ASSUME NEW man \in 0 .. TwoTo[P] - 1
  PROVE  /\ (man \div TwoTo[ML]) * TwoTo[ML] + SignedLow(man % TwoTo[ML]) \in Int
         /\ 2 * ((man \div TwoTo[ML]) * TwoTo[ML] + SignedLow(man % TwoTo[ML])) >= - TwoTo[ML]
         /\ (man \div TwoTo[ML]) * TwoTo[ML] + SignedLow(man % TwoTo[ML]) <= man
         /\ man % TwoTo[ML] < TwoTo[ML - 1] =>
              (man \div TwoTo[ML]) * TwoTo[ML] + SignedLow(man % TwoTo[ML]) = man
<1>1. PICK l, h, q, r : l = TwoTo[ML] /\ h = TwoTo[ML - 1] /\ q = man \div l /\ r = man % l
  OBVIOUS
<1>2. l \in Nat /\ h \in Nat /\ l = 2 * h /\ h >= 1 /\ man \in Nat
  BY <1>1, WordsFit, MantissasFit
<1>3. q \in Nat /\ r \in 0 .. l - 1
  BY <1>1, <1>2
<1>4. man = l * q + r
  <2>1. l \in Nat /\ l >= 1 /\ man \in Nat
    BY <1>2
  <2>2. q = man \div l /\ r = man % l
    BY <1>1
  <2>3. QED
    BY <2>1, <2>2
<1>5. l * q = q * l /\ q * l \in Nat
  BY <1>2, <1>3
<1>6. PICK x : x = q * l
  OBVIOUS
<1>7. SignedLow(r) = IF r >= h THEN r - l ELSE r
  BY <1>1 DEF SignedLow
<1>8. /\ x + SignedLow(r) \in Int
      /\ 2 * (x + SignedLow(r)) >= - l
      /\ x + SignedLow(r) <= man
      /\ r < h => x + SignedLow(r) = man
  BY <1>2, <1>3, <1>4, <1>5, <1>6, <1>7
<1>9. QED
  BY <1>1, <1>6, <1>8

\* What is neither zero nor special is read as a finite number of the
\* precision of a Double, and as that of the PLC when the low word has no top
\* bit.
LEMMA ReadNumbers ==
  ASSUME NEW t \in Types, NEW b \in Bits(t), ~IsZero(b), ~IsSpecial(t, b)
  PROVE  \E m \in Mantissas, e \in Int :
           /\ ReadOf(t, b) = Finite(b.neg, m, e)
           /\ LowBelow(t, b) =>
                /\ e = b.exp - Bias(ExpBits(t))
                /\ m = (TwoTo[ManBits(t)] + b.man) * TwoTo[P - ManBits(t)]
                /\ m = TwoTo[P] + b.man * TwoTo[P - ManBits(t)]
<1>1. PICK a, e : a = TwoTo[P] /\ e = b.exp - Bias(ExpBits(t))
  OBVIOUS
<1>2. a \in Nat /\ a >= 1 /\ Mantissas = a .. 2 * a - 1
  BY <1>1, MantissasFit DEF Mantissas
<1>3. e \in Int
  <2>1. Bias(ExpBits(t)) \in Nat /\ b.exp \in Int
    BY BiasesAre, BitsAre
  <2>2. QED
    BY <1>1, <2>1
<1>4. CASE t = "REAL"
  <2>1. PICK c, d, k : c = TwoTo[M32] /\ d = TwoTo[P - M32] /\ k = b.man
    OBVIOUS
  <2>2. ManBits(t) = M32
    BY <1>4 DEF ManBits
  <2>3. c \in Nat /\ d \in Nat /\ c * d = a /\ k \in 0 .. c - 1
    BY <1>1, <2>1, <2>2, MantissasFit, BitsAre
  <2>4. (c + k) * d = a + k * d /\ k * d \in Nat
    BY <2>3
  <2>5. k * d <= a - 1
    <3>1. CASE d = 0
      BY <1>1, <2>1, <3>1, MantissasFit
    <3>2. CASE d # 0
      <4>1. (k + 1) * d <= c * d /\ (k + 1) * d = k * d + d
        BY <2>3, Scaled
      <4>2. QED
        BY <1>2, <2>3, <2>4, <3>2, <4>1
    <3>3. QED
      BY <3>1, <3>2
  <2>6. a + k * d \in Mantissas
    BY <1>2, <2>4, <2>5
  <2>7. ReadOf(t, b) = Finite(b.neg, a + k * d, e)
    BY <1>1, <1>4, <2>1, ReadIs
  <2>8. QED
    BY <1>1, <1>3, <2>1, <2>2, <2>4, <2>6, <2>7
<1>5. CASE t = "LREAL"
  <2>1. PICK k, s : k = b.man
                    /\ s = (b.man \div TwoTo[ML]) * TwoTo[ML] + SignedLow(b.man % TwoTo[ML])
    OBVIOUS
  <2>2. ManBits(t) = P
    BY <1>5 DEF ManBits
  <2>3. k \in 0 .. a - 1
    BY <1>1, <2>1, <2>2, BitsAre
  <2>4. s \in Int /\ 2 * s >= - a /\ s <= k /\ (LowBelow(t, b) => s = k)
    <3>1. PICK l : l = TwoTo[ML]
      OBVIOUS
    <3>2. s \in Int /\ 2 * s >= - l /\ s <= k /\ (k % l < TwoTo[ML - 1] => s = k)
      BY <1>1, <2>1, <2>3, <3>1, LowWord
    <3>3. l \in Nat /\ a >= 2 * l
      BY <1>1, <3>1, WordsFit
    <3>4. LowBelow(t, b) => k % l < TwoTo[ML - 1]
      BY <1>5, <2>1, <3>1 DEF LowBelow
    <3>5. QED
      BY <1>2, <3>2, <3>3, <3>4
  <2>5. ReadOf(t, b) = Normal(b.neg, a + s, e)
    <3>1. TwoTo[P] + (b.man \div TwoTo[ML]) * TwoTo[ML] + SignedLow(b.man % TwoTo[ML]) = a + s
      <4>1. PICK x, y : x = (b.man \div TwoTo[ML]) * TwoTo[ML] /\ y = SignedLow(b.man % TwoTo[ML])
        OBVIOUS
      <4>2. x \in Int /\ y \in Int
        <5>1. PICK l, h : l = TwoTo[ML] /\ h = TwoTo[ML - 1]
          OBVIOUS
        <5>2. l \in Nat /\ l >= 1 /\ k \in Nat
          BY <2>3, <5>1, WidthsAre, Powers
        <5>3. (k \div l) * l \in Int /\ k % l \in Int
          BY <5>2
        <5>4. QED
          BY <2>1, <4>1, <5>1, <5>2, <5>3 DEF SignedLow
      <4>3. QED
        BY <1>1, <1>2, <2>1, <4>1, <4>2
    <3>2. QED
      BY <1>1, <1>5, <3>1, ReadIs
  <2>6. CASE a + s >= a
    <3>1. Normal(b.neg, a + s, e) = Finite(b.neg, a + s, e)
      BY <1>1, <1>2, <2>4, <2>6 DEF Normal
    <3>2. a + s \in Mantissas
      BY <1>2, <2>3, <2>4, <2>6
    <3>3. LowBelow(t, b) => /\ a + s = (TwoTo[ManBits(t)] + b.man) * TwoTo[P - ManBits(t)]
                            /\ a + s = TwoTo[P] + b.man * TwoTo[P - ManBits(t)]
      BY <1>1, <1>2, <2>1, <2>2, <2>3, <2>4, MantissasFit, SMTT(60)
    <3>4. QED
      BY <1>1, <1>3, <2>5, <3>1, <3>2, <3>3
  <2>7. CASE ~(a + s >= a)
    <3>1. Normal(b.neg, a + s, e) = Finite(b.neg, 2 * (a + s), e - 1)
      BY <1>1, <1>2, <2>4, <2>7 DEF Normal
    <3>2. 2 * (a + s) \in Mantissas
      BY <1>2, <2>3, <2>4, <2>7
    <3>3. ~LowBelow(t, b)
      BY <1>2, <2>3, <2>4, <2>7
    <3>4. QED
      BY <1>3, <2>5, <3>1, <3>2, <3>3
  <2>8. QED
    BY <2>6, <2>7
<1>6. QED
  BY <1>4, <1>5 DEF Types

\* What the PLC stored as a number is read as that number.
LEMMA ReadKeepsMeaning ==
  ASSUME NEW t \in Types, NEW b \in Bits(t), Meaning(t, b) # Nothing, LowBelow(t, b)
  PROVE  ReadOf(t, b) = Meaning(t, b)
<1>1. CASE IsNormal(t, b)
  <2>1. ~IsZero(b) /\ ~IsSpecial(t, b)
    <3>1. TwoTo[ExpBits(t)] \in Int
      BY BiasesAre
    <3>2. QED
      BY <1>1, <3>1 DEF IsNormal, IsZero, IsSpecial
  <2>2. QED
    BY <1>1, <2>1, MeaningOfNormal, ReadNumbers
<1>2. CASE ~IsNormal(t, b) /\ IsZero(b)
  <2>1. ~IsSpecial(t, b)
    BY <1>2, BiasesAre DEF IsZero, IsSpecial
  <2>2. Meaning(t, b) = Zero
    BY <1>2, <2>1, Zenon DEF Meaning
  <2>3. QED
    BY <1>2, <2>2, ReadIs
<1>3. CASE ~IsNormal(t, b) /\ ~IsZero(b)
  <2>1. IsSpecial(t, b) /\ Meaning(t, b) = Infinity(b.neg)
    BY <1>3, Zenon DEF Meaning
  <2>2. QED
    BY <1>3, <2>1, ReadIs
<1>4. QED
  BY <1>1, <1>2, <1>3

\* Bits that are read as a finite number are what is written of it, the
\* subnormal ones of a REAL included.
LEMMA WrittenBack ==
  ASSUME NEW t \in Types, NEW c \in Bits(t), LowBelow(t, c),
         NEW neg \in BOOLEAN, NEW m \in Mantissas, NEW e \in Int,
         ReadOf(t, c) = Finite(neg, m, e)
  PROVE  WrittenOf(t, Finite(neg, m, e), e) = c
<1>1. ~IsZero(c) /\ ~IsSpecial(t, c)
  BY ReadIs DEF Finite, Zero, Infinity
<1>2. PICK m1 \in Mantissas, e1 \in Int :
        /\ ReadOf(t, c) = Finite(c.neg, m1, e1)
        /\ e1 = c.exp - Bias(ExpBits(t))
        /\ m1 = TwoTo[P] + c.man * TwoTo[P - ManBits(t)]
  BY <1>1, ReadNumbers
<1>3. neg = c.neg /\ m1 = m /\ e1 = e
  <2>1. /\ Finite(neg, m, e).neg = neg /\ Finite(neg, m, e).m = m /\ Finite(neg, m, e).e = e
        /\ Finite(c.neg, m1, e1).neg = c.neg /\ Finite(c.neg, m1, e1).m = m1
        /\ Finite(c.neg, m1, e1).e = e1
    BY Zenon DEF Finite
  <2>2. QED
    BY <1>2, <2>1, Zenon
<1>4. PICK man \in 0 .. TwoTo[ManBits(t)] - 1 :
        /\ WrittenOf(t, Finite(neg, m, e), e) = Packed(t, neg, e + Bias(ExpBits(t)), man)
        /\ t = "REAL" => man = Rounded(m - TwoTo[P], TwoTo[P - M32]) % TwoTo[M32]
        /\ t = "LREAL" => man = m - TwoTo[P]
  BY WrittenMantissa
<1>5. e + Bias(ExpBits(t)) = c.exp /\ c.exp \in 0 .. TwoTo[ExpBits(t)] - 1
  BY <1>2, <1>3, BiasesAre, BitsAre
<1>6. man = c.man
  <2>1. PICK a, d, k : a = TwoTo[P] /\ d = TwoTo[P - ManBits(t)] /\ k = c.man
    OBVIOUS
  <2>2. a \in Nat /\ d \in Nat /\ d >= 1 /\ k \in 0 .. TwoTo[ManBits(t)] - 1 /\ m = a + k * d
    BY <1>2, <1>3, <2>1, MantissaBits, MantissasFit, BitsAre
  <2>3. k \in Nat /\ k * d \in Nat /\ m - a = k * d
    BY <2>2, MantissaBits
  <2>4. CASE t = "REAL"
    <3>1. ManBits(t) = M32
      BY <2>4 DEF ManBits
    <3>2. Rounded(m - a, d) = k
      BY <2>2, <2>3, MultiplesStay
    <3>3. man = k % TwoTo[M32]
      BY <1>4, <2>1, <2>4, <3>1, <3>2
    <3>4. QED
      BY <2>1, <2>2, <3>1, <3>3, MantissasFit
  <2>5. CASE t = "LREAL"
    <3>1. d = 1
      BY <2>1, <2>5, MantissasFit DEF ManBits
    <3>2. QED
      BY <1>4, <2>1, <2>2, <2>3, <2>5, <3>1
  <2>6. QED
    BY <2>4, <2>5 DEF Types
<1>7. Packed(t, neg, c.exp, man) = [neg |-> neg, exp |-> c.exp, man |-> man]
  BY <1>5, PackedFits
<1>8. c = [neg |-> c.neg, exp |-> c.exp, man |-> c.man]
  BY BitsAre
<1>9. QED
  BY <1>3, <1>4, <1>5, <1>6, <1>7, <1>8, Zenon

-----------------------------------------------------------------------------
(***************************************************************************)
(* The invariant of a float field, and its steps.                          *)
(***************************************************************************)
\* The Doubles of the host, whatever their exponent.
IsNumber(d) ==
  \/ d = Zero
  \/ \E neg \in BOOLEAN : d = Infinity(neg)
  \/ \E neg \in BOOLEAN, m \in Mantissas, e \in Int : d = Finite(neg, m, e)

\* The types of the variables of a float field;
FloatState ==
  /\ type \in Types
  /\ bits \in Bits(type)
  /\ IsNumber(value)
  /\ v \in Int /\ n \in Int
  /\ loop \in {"idle", "log"}
\* ilog2_floor halves or doubles v and counts, so that both make the exponent
\* it was called with;
LogCounts ==
  loop = "log" =>
    /\ value # Zero /\ relation = "none"
    /\ value.kind = "finite" => v + n = value.e
\* what is read, and what was read before it is written back, comes from bits
\* of the type.
ReadRelates ==
  /\ relation = "read" => bits \in Variables(type) /\ value = ReadOf(type, bits)
  /\ before # Nothing => before \in Variables(type) /\ value = ReadOf(type, before)
\* The invariant behind both properties of S7Float.
FloatInv ==
  /\ FloatState
  /\ LogCounts
  /\ ReadRelates
  /\ NumbersKeepTheirValue
  /\ WriteBackKeeps

\* Zero, infinities and finite numbers are told apart.
LEMMA KindsDiffer ==
  /\ Zero.kind = "zero"
  /\ \A neg : Infinity(neg).kind = "infinity" /\ Infinity(neg) # Zero
  /\ \A neg, m, e : Finite(neg, m, e).kind = "finite" /\ Finite(neg, m, e) # Zero
BY DEF Zero, Infinity, Finite

\* The variables of a type are combinations of its bits.
LEMMA VariablesAreBits == \A t : Variables(t) \subseteq Bits(t)
BY DEF Variables

\* Four or eight zero bytes are bits of either type.
LEMMA ZeroBytesAreBits == ASSUME NEW t \in Types PROVE ZeroBytes \in Bits(t)
<1>1. 0 \in 0 .. TwoTo[ExpBits(t)] - 1
  BY BiasesAre
<1>2. 0 \in 0 .. TwoTo[ManBits(t)] - 1
  BY MantissaBits
<1>3. PICK xs, ms : xs = 0 .. TwoTo[ExpBits(t)] - 1 /\ ms = 0 .. TwoTo[ManBits(t)] - 1
  OBVIOUS
<1>4. [neg |-> FALSE, exp |-> 0, man |-> 0] \in [neg : BOOLEAN, exp : xs, man : ms]
  BY <1>1, <1>2, <1>3
<1>5. QED
  BY <1>3, <1>4, Zenon DEF Bits, ZeroBytes

\* Reading makes a Double of all bits.
LEMMA ReadIsNumber ==
  ASSUME NEW t \in Types, NEW b \in Bits(t)
  PROVE  IsNumber(ReadOf(t, b))
<1>1. b.neg \in BOOLEAN
  BY BitsAre
<1>2. CASE IsZero(b)
  BY <1>2, ReadIs DEF IsNumber
<1>3. CASE ~IsZero(b) /\ IsSpecial(t, b)
  <2>1. ReadOf(t, b) = Infinity(b.neg)
    BY <1>3, ReadIs
  <2>2. QED
    BY <1>1, <2>1, Zenon DEF IsNumber
<1>4. CASE ~IsZero(b) /\ ~IsSpecial(t, b)
  <2>1. PICK m \in Mantissas, e \in Int : ReadOf(t, b) = Finite(b.neg, m, e)
    BY <1>4, ReadNumbers
  <2>2. QED
    BY <1>1, <2>1, Zenon DEF IsNumber
<1>5. QED
  BY <1>2, <1>3, <1>4

\* Only the zeros of the PLC are read as zero.
LEMMA ZeroIsRead ==
  ASSUME NEW t \in Types, NEW b \in Bits(t), ReadOf(t, b) = Zero
  PROVE  IsZero(b)
<1>1. SUFFICES ASSUME ~IsZero(b) PROVE FALSE
  OBVIOUS
<1>2. CASE IsSpecial(t, b)
  BY <1>1, <1>2, ReadIs, KindsDiffer
<1>3. CASE ~IsSpecial(t, b)
  BY <1>1, <1>3, ReadNumbers, KindsDiffer
<1>4. QED
  BY <1>2, <1>3

\* A float field starts in FloatInv,
LEMMA FloatInvInit == FloatInit => FloatInv
<1> SUFFICES ASSUME FloatInit PROVE FloatInv
  OBVIOUS
<1>1. type \in Types /\ bits = ZeroBytes /\ value = Zero /\ loop = "idle"
      /\ v = 0 /\ n = 0 /\ relation = "none" /\ before = Nothing
  BY DEF FloatInit
<1>2. FloatState
  BY <1>1, ZeroBytesAreBits DEF FloatState, IsNumber
<1>3. LogCounts /\ ReadRelates
  BY <1>1 DEF LogCounts, ReadRelates
<1>4. NumbersKeepTheirValue /\ WriteBackKeeps
  BY <1>1 DEF NumbersKeepTheirValue, WriteBackKeeps
<1>5. QED
  BY <1>2, <1>3, <1>4 DEF FloatInv

\* and every step of the PLC, the application and the conversion keeps it.
LEMMA FloatInvNext == FloatInv /\ [FloatNext]_floatVars => FloatInv'
<1> SUFFICES ASSUME FloatInv, [FloatNext]_floatVars PROVE FloatInv'
  OBVIOUS
<1>0. FloatState /\ LogCounts /\ ReadRelates /\ NumbersKeepTheirValue /\ WriteBackKeeps
  BY DEF FloatInv
<1>1. type \in Types /\ bits \in Bits(type) /\ IsNumber(value) /\ v \in Int /\ n \in Int
      /\ loop \in {"idle", "log"}
  BY <1>0 DEF FloatState
<1>2. ASSUME relation' = "none", FloatState', LogCounts', ReadRelates' PROVE FloatInv'
  <2>1. NumbersKeepTheirValue' /\ WriteBackKeeps'
    BY <1>2 DEF NumbersKeepTheirValue, WriteBackKeeps
  <2>2. QED
    BY <1>2, <2>1 DEF FloatInv
<1>3. ASSUME NEW b \in Variables(type), Program(b) PROVE FloatInv'
  <2>1. bits' = b /\ relation' = "none" /\ before' = Nothing
        /\ UNCHANGED <<type, value, loop, v, n>> /\ loop = "idle"
    BY <1>3 DEF Program
  <2>2. FloatState'
    BY <1>1, <2>1, VariablesAreBits DEF FloatState, IsNumber
  <2>3. LogCounts' /\ ReadRelates'
    BY <2>1 DEF LogCounts, ReadRelates
  <2>4. QED
    BY <1>2, <2>1, <2>2, <2>3
<1>4. ASSUME ReadField PROVE FloatInv'
  <2>1. bits \in Variables(type) /\ value' = ReadOf(type, bits)
        /\ relation' = "read" /\ before' = bits
        /\ UNCHANGED <<type, bits, loop, v, n>> /\ loop = "idle"
    BY <1>4 DEF ReadField, ReadOf
  <2>2. IsNumber(ReadOf(type, bits))
    BY <1>1, ReadIsNumber
  <2>3. FloatState'
    <3>1. IsNumber(value')
      BY <2>1, <2>2, Zenon
    <3>2. QED
      BY <1>1, <2>1, <3>1 DEF FloatState, IsNumber
  <2>4. LogCounts' /\ ReadRelates'
    BY <2>1 DEF LogCounts, ReadRelates
  <2>5. NumbersKeepTheirValue'
    <3>1. (Meaning(type, bits) # Nothing /\ LowBelow(type, bits))
             => ReadOf(type, bits) = Meaning(type, bits)
      BY <1>1, ReadKeepsMeaning
    <3>2. LowIsPositive(bits)' => LowBelow(type, bits)
      BY <2>1 DEF LowIsPositive, LowBelow
    <3>3. Meaning(type, bits)' = Meaning(type, bits)
      BY <2>1 DEF Meaning, IsNormal
    <3>4. QED
      BY <2>1, <3>1, <3>2, <3>3 DEF NumbersKeepTheirValue
  <2>6. WriteBackKeeps'
    BY <2>1 DEF WriteBackKeeps
  <2>7. QED
    BY <2>3, <2>4, <2>5, <2>6 DEF FloatInv
<1>5. ASSUME NEW d \in Doubles, Compute(d) PROVE FloatInv'
  <2>1. value' = d /\ relation' = "none" /\ before' = Nothing
        /\ UNCHANGED <<type, bits, loop, v, n>> /\ loop = "idle"
    BY <1>5 DEF Compute
  <2>2. IsNumber(d)
    BY DEF Doubles, IsNumber, Mantissas
  <2>3. FloatState'
    BY <1>1, <2>1, <2>2 DEF FloatState, IsNumber
  <2>4. LogCounts' /\ ReadRelates'
    BY <2>1 DEF LogCounts, ReadRelates
  <2>5. QED
    BY <1>2, <2>1, <2>3, <2>4
<1>6. ASSUME ToBytesOfZero PROVE FloatInv'
  <2>1. value = Zero /\ bits' = ZeroBytes /\ relation' = "write" /\ loop = "idle"
        /\ UNCHANGED <<type, value, loop, v, n, before>>
    BY <1>6 DEF ToBytesOfZero
  <2>2. FloatState'
    BY <1>1, <2>1, ZeroBytesAreBits DEF FloatState, IsNumber
  <2>3. LogCounts' /\ ReadRelates'
    BY <1>0, <2>1 DEF LogCounts, ReadRelates
  <2>4. NumbersKeepTheirValue'
    <3>1. value'.kind # "finite"
      BY <2>1, KindsDiffer
    <3>2. QED
      BY <2>1, <3>1 DEF NumbersKeepTheirValue, InRange
  <2>5. WriteBackKeeps'
    <3>1. SUFFICES ASSUME before # Nothing PROVE IsZero(before)
      BY <2>1 DEF WriteBackKeeps, IsZero
    <3>2. before \in Bits(type) /\ ReadOf(type, before) = Zero
      BY <1>0, <2>1, <3>1, VariablesAreBits DEF ReadRelates
    <3>3. QED
      BY <1>1, <3>2, ZeroIsRead
  <2>6. QED
    BY <2>2, <2>3, <2>4, <2>5 DEF FloatInv
<1>7. ASSUME ToBytes PROVE FloatInv'
  <2>1. loop' = "log" /\ value # Zero /\ n' = 0 /\ relation' = "none"
        /\ v' = (IF value.kind = "finite" THEN value.e ELSE 0)
        /\ UNCHANGED <<type, bits, value, before>>
    BY <1>7 DEF ToBytes
  <2>2. v' \in Int /\ (value.kind = "finite" => v' + n' = value.e)
    <3>1. CASE value.kind = "finite"
      <4>1. PICK neg \in BOOLEAN, m \in Mantissas, e \in Int : value = Finite(neg, m, e)
        BY <1>1, <3>1, KindsDiffer DEF IsNumber
      <4>2. value.e = e
        BY <4>1 DEF Finite
      <4>3. QED
        BY <2>1, <3>1, <4>2
    <3>2. CASE value.kind # "finite"
      BY <2>1, <3>2
    <3>3. QED
      BY <3>1, <3>2
  <2>3. FloatState'
    BY <1>1, <2>1, <2>2 DEF FloatState, IsNumber
  <2>4. LogCounts' /\ ReadRelates'
    BY <1>0, <2>1, <2>2 DEF LogCounts, ReadRelates
  <2>5. QED
    BY <1>2, <2>1, <2>3, <2>4
<1>8. ASSUME Halve \/ Twice PROVE FloatInv'
  <2>1. loop = "log" /\ UNCHANGED <<type, bits, value, loop, relation, before>>
        /\ v' \in Int /\ n' \in Int /\ v' + n' = v + n
    BY <1>1, <1>8 DEF Halve, Twice
  <2>2. relation = "none" /\ (value.kind = "finite" => v' + n' = value.e) /\ value # Zero
    BY <1>0, <2>1 DEF LogCounts
  <2>3. FloatState'
    BY <1>1, <2>1 DEF FloatState, IsNumber
  <2>4. LogCounts' /\ ReadRelates'
    BY <1>0, <2>1, <2>2 DEF LogCounts, ReadRelates
  <2>5. QED
    BY <1>2, <2>1, <2>2, <2>3, <2>4
<1>9. ASSUME Write PROVE FloatInv'
  <2>1. loop = "log" /\ value.kind # "infinity" /\ v = 0
        /\ bits' = WrittenOf(type, value, n) /\ loop' = "idle" /\ relation' = "write"
        /\ UNCHANGED <<type, value, v, n, before>>
    BY <1>9 DEF Write, WrittenOf, IsInfinity
  <2>2. value # Zero /\ (value.kind = "finite" => v + n = value.e)
    BY <1>0, <2>1 DEF LogCounts
  <2>3. PICK neg \in BOOLEAN, m \in Mantissas, e \in Int : value = Finite(neg, m, e)
    BY <1>1, <2>1, <2>2, KindsDiffer DEF IsNumber
  <2>4. value.kind = "finite" /\ value.m = m /\ value.e = e
    BY <2>3 DEF Finite
  <2>5. n = e
    BY <1>1, <2>1, <2>2, <2>4
  <2>6. PICK t, b : t = type /\ b = WrittenOf(t, Finite(neg, m, e), e)
    OBVIOUS
  <2>7. bits' = b /\ type' = t /\ value' = Finite(neg, m, e) /\ t \in Types /\ b \in Bits(t)
    BY <1>1, <2>1, <2>3, <2>5, <2>6, WrittenInBits
  <2>8. FloatState'
    BY <1>1, <2>1, <2>6, <2>7 DEF FloatState, IsNumber
  <2>9. LogCounts' /\ ReadRelates'
    BY <1>0, <2>1 DEF LogCounts, ReadRelates
  <2>10. NumbersKeepTheirValue'
    <3>1. SUFFICES ASSUME InRange', ~Carries' PROVE Nearest'
      BY <2>1 DEF NumbersKeepTheirValue
    <3>2. e \in 1 - Bias(ExpBits(t)) .. Bias(ExpBits(t))
      BY <2>1, <2>4, <2>7, <3>1 DEF InRange
    <3>3. t = "REAL" => TwoTo[P - M32] < 2 * (2 * TwoTo[P] - m)
      <4>1. t = "REAL" => ~(2 * (TwoTo[P + 1] - m) <= TwoTo[P - M32])
        BY <2>1, <2>4, <2>7, <3>1 DEF Carries, ManBits
      <4>2. QED
        BY <4>1, MantissasFit DEF Mantissas
    <3>4. NearestTo(t, b, Finite(neg, m, e))
      BY <2>6, <2>7, <3>2, <3>3, NearestIsWritten
    <3>5. QED
      BY <2>7, <3>4, Zenon DEF Nearest, NearestTo
  <2>11. WriteBackKeeps'
    <3>1. SUFFICES ASSUME before # Nothing, LowIsPositive(before)' PROVE bits' = before
      BY <2>1 DEF WriteBackKeeps
    <3>2. before \in Bits(t) /\ ReadOf(t, before) = Finite(neg, m, e)
      BY <1>0, <2>3, <2>6, <3>1, VariablesAreBits DEF ReadRelates
    <3>3. LowBelow(t, before)
      BY <2>1, <2>6, <3>1 DEF LowIsPositive, LowBelow
    <3>4. QED
      BY <2>6, <2>7, <3>2, <3>3, WrittenBack
  <2>12. QED
    BY <2>8, <2>9, <2>10, <2>11 DEF FloatInv
<1>10. ASSUME UNCHANGED floatVars PROVE FloatInv'
  <2>1. UNCHANGED <<type, bits, value, loop, v, n, relation, before>>
    BY <1>10 DEF floatVars
  <2>2. FloatState' /\ LogCounts' /\ ReadRelates'
    BY <1>0, <2>1 DEF FloatState, LogCounts, ReadRelates, IsNumber
  <2>3. NumbersKeepTheirValue' /\ WriteBackKeeps'
    BY <1>0, <2>1 DEF NumbersKeepTheirValue, WriteBackKeeps, LowIsPositive, InRange, Carries,
                      Nearest, Meaning, IsNormal
  <2>4. QED
    BY <2>2, <2>3 DEF FloatInv
<1>11. QED
  BY <1>3, <1>4, <1>5, <1>6, <1>7, <1>8, <1>9, <1>10 DEF FloatNext

(***************************************************************************)
(* In every behaviour of a field, of whatever widths, the bits are of the  *)
(* type, the Double is one of the precision of the host, the loops of      *)
(* ilog2_floor arrive at its exponent, and a Double that was read is what  *)
(* f32_from_bytes or f64_from_bytes makes of the bits it came from.        *)
(***************************************************************************)
THEOREM FloatInvariant == FieldSpec => []FloatInv
<1>1. FieldInit => FloatInv
  BY FloatInvInit DEF FieldInit
<1>2. FloatInv /\ [FieldNext]_fieldVars => FloatInv'
  BY FloatInvNext DEF FieldNext, fieldVars
<1>3. QED
  BY <1>1, <1>2, PTL DEF FieldSpec

(***************************************************************************)
(* NumbersKeepTheirValue for all widths of exponents and mantissas, those  *)
(* of IEEE 754 that field.mbt uses among them: a number that is read is    *)
(* the number the PLC stored, and what is written is a nearest number of   *)
(* the type.                                                               *)
(***************************************************************************)
THEOREM NumbersAlwaysKeepTheirValue == FieldSpec => []NumbersKeepTheirValue
<1>1. FloatInv => NumbersKeepTheirValue
  BY DEF FloatInv
<1>2. QED
  BY <1>1, FloatInvariant, PTL

(***************************************************************************)
(* WriteBackKeeps for all widths: reading a field and writing it back      *)
(* leaves the bits of the PLC alone.                                       *)
(***************************************************************************)
THEOREM WriteBackAlwaysKeeps == FieldSpec => []WriteBackKeeps
<1>1. FloatInv => WriteBackKeeps
  BY DEF FloatInv
<1>2. QED
  BY <1>1, FloatInvariant, PTL
=============================================================================
