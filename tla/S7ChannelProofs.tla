--------------------------- MODULE S7ChannelProofs ---------------------------
(***************************************************************************)
(* Proofs about S7Channel, for every set of requests and responses and any  *)
(* number of exchanges: how late a response can be, and that an exchange    *)
(* which gets its own response finds the connection in step.                *)
(* S7TransportProofs instantiates this module with the byte stream.         *)
(***************************************************************************)
EXTENDS S7Channel, SequenceTheorems, TLAPS

(***************************************************************************)
(* Dropping the first k elements shifts the rest.                           *)
(***************************************************************************)
LEMMA DropFirst ==
  ASSUME NEW S, NEW s \in Seq(S), NEW k \in 1 .. Len(s)
  PROVE  /\ SubSeq(s, k + 1, Len(s)) \in Seq(S)
         /\ Len(SubSeq(s, k + 1, Len(s))) = Len(s) - k
         /\ \A i \in 1 .. Len(s) - k : SubSeq(s, k + 1, Len(s))[i] = s[k + i]
<1>1. Len(s) \in Nat /\ \A i \in k + 1 .. Len(s) : s[i] \in S
  BY LenProperties, ElementOfSeq
<1>2. /\ SubSeq(s, k + 1, Len(s)) \in Seq(S)
      /\ Len(SubSeq(s, k + 1, Len(s)))
           = IF k + 1 <= Len(s) THEN Len(s) - (k + 1) + 1 ELSE 0
      /\ \A i \in 1 .. Len(s) - (k + 1) + 1 :
           SubSeq(s, k + 1, Len(s))[i] = s[k + 1 + i - 1]
  BY <1>1, k + 1 \in Int, Len(s) \in Int, SubSeqProperties
<1>. QED
  BY <1>1, <1>2

(***************************************************************************)
(* Every step of the channel keeps it well-typed.                           *)
(***************************************************************************)
LEMMA ChanTypeStep ==
  ASSUME ChanTypeOK, [ChanNext]_chanVars
  PROVE  ChanTypeOK'
<1>. USE DEF ChanTypeOK, Phases
<1>1. ASSUME phase # "idle"
      PROVE  \A whole \in BOOLEAN :
               Delivered(whole) \in Seq([no : SeqNo, req : Requests, whole : BOOLEAN])
  BY <1>1 DEF Delivered, SeqNo
<1>2. ASSUME NEW req \in Requests, Send(req)  PROVE ChanTypeOK'
  BY <1>2 DEF Send
<1>3. CASE Written
  BY <1>1, <1>3 DEF Written
<1>4. CASE SendFails
  <2>1. queue' \in Seq([no : SeqNo, req : Requests, whole : BOOLEAN])
    BY <1>1, <1>4 DEF SendFails
  <2>. QED  BY <1>4, <2>1 DEF SendFails, Failed
<1>5. CASE Take
  <2>1. unread # <<>>
    BY <1>5 DEF Take
  <2>2. /\ Head(unread) \in [no : SeqNo, resp : Responses]
        /\ Tail(unread) \in Seq([no : SeqNo, resp : Responses])
    BY <2>1, HeadTailProperties
  <2>3. Head(unread).no \in Nat
    BY <2>2 DEF SeqNo
  <2>. QED  BY <1>5, <2>2, <2>3 DEF Take
<1>6. CASE ReceiveFails
  <2>1. unread' \in Seq([no : SeqNo, resp : Responses])
    <3>1. unread # <<>> => Tail(unread) \in Seq([no : SeqNo, resp : Responses])
      BY HeadTailProperties
    <3>2. <<>> \in Seq([no : SeqNo, resp : Responses])
      BY EmptySeq
    <3>. QED  BY <1>6, <3>1, <3>2 DEF ReceiveFails
  <2>2. garbled' \in BOOLEAN
    BY <1>6 DEF ReceiveFails
  <2>. QED  BY <1>6, <2>1, <2>2 DEF ReceiveFails, Failed
<1>7. CASE TakeGarbage
  BY <1>7 DEF TakeGarbage
<1>8. ASSUME NEW k \in DOMAIN queue, NEW resp \in Responses, Answer(k, resp)
      PROVE  ChanTypeOK'
  <2>1. queue' \in Seq([no : SeqNo, req : Requests, whole : BOOLEAN])
    BY <1>8, DropFirst DEF Answer
  <2>2. unread' \in Seq([no : SeqNo, resp : Responses])
    <3>1. queue[1] \in [no : SeqNo, req : Requests, whole : BOOLEAN]
      BY <1>8, 1 \in 1 .. Len(queue), ElementOfSeq DEF Answer
    <3>2. [no |-> queue[1].no, resp |-> resp] \in [no : SeqNo, resp : Responses]
      BY <3>1
    <3>. QED  BY <3>2, <1>8, AppendProperties DEF Answer
  <2>. QED  BY <1>8, <2>1, <2>2 DEF Answer
<1>9. ASSUME NEW k \in DOMAIN queue, Overlook(k)
      PROVE  ChanTypeOK'
  BY <1>9, DropFirst DEF Overlook
<1>10. CASE UNCHANGED chanVars
  BY <1>10 DEF chanVars
<1>. QED
  BY <1>2, <1>3, <1>4, <1>5, <1>6, <1>7, <1>8, <1>9, <1>10 DEF ChanNext

(***************************************************************************)
(* The channel starts well-typed.                                           *)
(***************************************************************************)
LEMMA ChanTypeInit ==
  ASSUME ChanInit
  PROVE  ChanTypeOK
<1>1. /\ <<>> \in Seq([no : SeqNo, req : Requests, whole : BOOLEAN])
      /\ <<>> \in Seq([no : SeqNo, resp : Responses])
  BY EmptySeq
<1>2. /\ queue \in Seq([no : SeqNo, req : Requests, whole : BOOLEAN])
      /\ unread \in Seq([no : SeqNo, resp : Responses])
  BY <1>1 DEF ChanInit
<1>3. /\ phase = "idle" /\ seqno = 0 /\ request \in Requests
      /\ garbled = FALSE /\ taken = 0 /\ failures = 0
  BY DEF ChanInit
<1>. QED  BY <1>2, <1>3 DEF ChanTypeOK, Phases

(***************************************************************************)
(* The channel is well-typed whatever the client and the PLC do.            *)
(***************************************************************************)
THEOREM ChanTypeCorrect == ChanSpec => []ChanTypeOK
<1>1. ChanInit => ChanTypeOK
  BY ChanTypeInit
<1>2. ChanTypeOK /\ [ChanNext]_chanVars => ChanTypeOK'
  BY ChanTypeStep
<1>. QED
  BY <1>1, <1>2, PTL DEF ChanSpec

-----------------------------------------------------------------------------
(***************************************************************************)
(* The inductive invariant.  Answered counts the exchanges that ended with  *)
(* a response; as long as the stream can be framed, the i-th response that  *)
(* nobody has read answers request Answered + i or a later one, and no more *)
(* requests are under way than exchanges failed, plus the one in progress.  *)
(***************************************************************************)
Busy     == IF phase = "idle" THEN 0 ELSE 1
Waiting  == IF phase = "waiting" THEN 1 ELSE 0
Answered == seqno - Busy - failures

NotTooLate ==
  ~garbled =>
    /\ \A i \in 1 .. Len(unread) : unread[i].no >= Answered + i
    /\ \A i \in 1 .. Len(queue) :
         queue[i].no >= Answered + Len(unread) + i
    /\ Len(unread) + Len(queue) <= failures + Waiting

\* Responses and requests stand in the order of the exchanges, the responses
\* first, and none is of an exchange whose request is not written yet.
InOrder ==
  /\ \A i, j \in 1 .. Len(unread) : i < j => unread[i].no < unread[j].no
  /\ \A i, j \in 1 .. Len(queue) : i < j => queue[i].no < queue[j].no
  /\ \A i \in 1 .. Len(unread), j \in 1 .. Len(queue) :
       unread[i].no < queue[j].no

LastWritten == IF phase = "sending" THEN seqno - 1 ELSE seqno

NotEarly ==
  /\ \A i \in 1 .. Len(unread) : unread[i].no <= LastWritten
  /\ \A i \in 1 .. Len(queue) : queue[i].no <= LastWritten

\* What the last exchange took is older than all that is still under way.
TakenIsOldest ==
  phase = "idle" /\ taken # 0 =>
    /\ taken <= seqno
    /\ seqno - taken <= failures
    /\ \A i \in 1 .. Len(unread) : taken < unread[i].no
    /\ \A i \in 1 .. Len(queue) : taken < queue[i].no

ChanInv ==
  /\ ChanTypeOK
  /\ NotTooLate
  /\ InOrder
  /\ NotEarly
  /\ TakenIsOldest

(***************************************************************************)
(* The numbers in a queue of numbered records are natural numbers.          *)
(***************************************************************************)
LEMMA Numbered ==
  ASSUME NEW R, NEW s \in Seq(R), \A r \in R : r.no \in SeqNo
  PROVE  Len(s) \in Nat /\ \A i \in 1 .. Len(s) : s[i].no \in Nat
BY LenProperties, ElementOfSeq DEF SeqNo

(***************************************************************************)
(* What the write of a request does to the requests under way.              *)
(***************************************************************************)
LEMMA DeliveredProperties ==
  ASSUME ChanTypeOK, phase # "idle", NEW whole \in BOOLEAN
  PROVE  /\ Len(Delivered(whole)) = Len(queue) + 1
         /\ \A i \in 1 .. Len(queue) : Delivered(whole)[i] = queue[i]
         /\ Delivered(whole)[Len(queue) + 1].no = seqno
<1>1. [no |-> seqno, req |-> request, whole |-> whole]
        \in [no : SeqNo, req : Requests, whole : BOOLEAN]
  BY DEF ChanTypeOK, SeqNo
<1>. QED
  BY <1>1, AppendProperties DEF Delivered, ChanTypeOK

(***************************************************************************)
(* Every step keeps the invariant.                                          *)
(***************************************************************************)
LEMMA ChanInvStep ==
  ASSUME ChanInv, [ChanNext]_chanVars
  PROVE  ChanInv'
<1>1. ChanTypeOK'
  BY ChanTypeStep DEF ChanInv
<1>. SUFFICES ASSUME ChanTypeOK, NotTooLate, InOrder, NotEarly, TakenIsOldest
              PROVE  NotTooLate' /\ InOrder' /\ NotEarly' /\ TakenIsOldest'
  BY <1>1 DEF ChanInv
<1>2. /\ Len(unread) \in Nat /\ Len(queue) \in Nat
      /\ \A i \in 1 .. Len(unread) : unread[i].no \in Nat
      /\ \A i \in 1 .. Len(queue) : queue[i].no \in Nat
  <2>1. /\ \A r \in [no : SeqNo, req : Requests, whole : BOOLEAN] : r.no \in SeqNo
        /\ \A r \in [no : SeqNo, resp : Responses] : r.no \in SeqNo
    OBVIOUS
  <2>. QED  BY <2>1, Numbered DEF ChanTypeOK
<1>4. /\ seqno \in Nat /\ taken \in Nat /\ failures \in Nat
      /\ garbled \in BOOLEAN
  BY DEF ChanTypeOK
<1>5. ASSUME NEW req \in Requests, Send(req)
      PROVE  NotTooLate' /\ InOrder' /\ NotEarly' /\ TakenIsOldest'
  BY <1>2, <1>4, <1>5
  DEF Send, NotTooLate, InOrder, NotEarly, TakenIsOldest, Answered, Busy, Waiting,
      LastWritten
<1>6. ASSUME phase # "idle", queue' \in {queue, Delivered(TRUE), Delivered(FALSE)},
             unread' = unread, garbled' = garbled, seqno' = seqno,
             \/ phase = "sending" /\ phase' = "waiting"
                /\ failures' = failures /\ taken' = taken
             \/ phase = "sending" /\ phase' = "idle"
                /\ failures' = failures + 1 /\ taken' = 0
      PROVE  NotTooLate' /\ InOrder' /\ NotEarly' /\ TakenIsOldest'
  <2>1. CASE queue' = queue
    <3>1. NotTooLate'
      BY <1>2, <1>4, <1>6, <2>1, SMTT(60)
      DEF NotTooLate, Answered, Busy, Waiting
    <3>2. InOrder' /\ NotEarly'
      BY <1>2, <1>4, <1>6, <2>1 DEF InOrder, NotEarly, LastWritten
    <3>3. TakenIsOldest'
      BY <1>2, <1>4, <1>6, <2>1 DEF TakenIsOldest, Answered, Busy, Waiting
    <3>. QED  BY <3>1, <3>2, <3>3
  <2>2. ASSUME NEW whole \in BOOLEAN, queue' = Delivered(whole)
        PROVE  NotTooLate' /\ InOrder' /\ NotEarly' /\ TakenIsOldest'
    <3>1. /\ Len(queue') = Len(queue) + 1
          /\ \A i \in 1 .. Len(queue') :
               queue'[i].no = IF i <= Len(queue) THEN queue[i].no ELSE seqno
      BY <1>2, <1>6, <2>2, DeliveredProperties
    <3>2. NotTooLate'
      BY <1>2, <1>4, <1>6, <3>1, SMTT(60)
      DEF NotTooLate, Answered, Busy, Waiting
    <3>3. InOrder'
      BY <1>2, <1>4, <1>6, <3>1, SMTT(60) DEF InOrder, NotEarly, LastWritten
    <3>4. NotEarly'
      BY <1>2, <1>4, <1>6, <3>1, SMTT(60) DEF NotEarly, LastWritten
    <3>5. TakenIsOldest'
      BY <1>6 DEF TakenIsOldest
    <3>. QED  BY <3>2, <3>3, <3>4, <3>5
  <2>. QED  BY <1>6, <2>1, <2>2
<1>7. CASE Written
  BY <1>6, <1>7 DEF Written
<1>8. CASE SendFails
  BY <1>6, <1>8 DEF SendFails, Failed
<1>9. CASE Take
  <2>1. /\ Len(unread) > 0
        /\ Len(unread') = Len(unread) - 1
        /\ \A i \in 1 .. Len(unread') :
             i + 1 \in 1 .. Len(unread) /\ unread'[i].no = unread[i + 1].no
        /\ taken' = unread[1].no
    <3>1. unread # <<>> /\ unread' = Tail(unread) /\ taken' = Head(unread).no
      BY <1>9 DEF Take
    <3>2. Head(unread) = unread[1]
      OBVIOUS
    <3>. QED  BY <3>1, <3>2, <1>2, EmptySeq, HeadTailProperties DEF ChanTypeOK
  <2>2. NotTooLate'
    BY <1>2, <1>4, <1>9, <2>1 DEF Take, NotTooLate, Answered, Busy, Waiting
  <2>3. InOrder'
    BY <1>2, <1>9, <2>1 DEF Take, InOrder
  <2>4. NotEarly'
    BY <1>2, <1>4, <1>9, <2>1 DEF Take, NotEarly, LastWritten
  <2>5. TakenIsOldest'
    BY <1>2, <1>4, <1>9, <2>1
    DEF Take, TakenIsOldest, NotTooLate, InOrder, NotEarly, Answered, Busy,
        LastWritten
  <2>. QED  BY <2>2, <2>3, <2>4, <2>5
<1>10. CASE ReceiveFails
  <2>. /\ phase = "waiting" /\ phase' = "idle"
       /\ taken' = 0 /\ failures' = failures + 1 /\ seqno' = seqno
       /\ queue' = queue
    BY <1>10 DEF ReceiveFails, Failed
  <2>1. CASE UNCHANGED <<unread, garbled>>
    BY <1>2, <1>4, <2>1
    DEF NotTooLate, InOrder, NotEarly, TakenIsOldest, Answered, Busy, Waiting,
        LastWritten
  <2>2. CASE unread # <<>> /\ unread' = Tail(unread) /\ UNCHANGED garbled
    <3>1. /\ Len(unread) > 0
          /\ Len(unread') = Len(unread) - 1
          /\ \A i \in 1 .. Len(unread') :
               i + 1 \in 1 .. Len(unread) /\ unread'[i].no = unread[i + 1].no
      BY <2>2, <1>2, EmptySeq, HeadTailProperties DEF ChanTypeOK
    <3>2. NotTooLate'
      <4>. SUFFICES ASSUME ~garbled'  PROVE NotTooLate'
        BY DEF NotTooLate
      <4>1. /\ \A i \in 1 .. Len(unread) : unread[i].no >= Answered + i
            /\ \A i \in 1 .. Len(queue) : queue[i].no >= Answered + Len(unread) + i
            /\ Len(unread) + Len(queue) <= failures + Waiting
        BY <2>2 DEF NotTooLate
      <4>2. Answered' = Answered /\ Waiting = 1 /\ Waiting' = 0
        BY <1>2, <1>4 DEF Answered, Busy, Waiting
      <4>3. Answered \in Int /\ Len(unread) \in Nat /\ Len(queue) \in Nat /\ failures \in Nat
            /\ Len(unread') \in Nat
        BY <1>2, <1>4, <3>1 DEF Answered, Busy
      <4>4. ASSUME NEW i \in 1 .. Len(unread')  PROVE unread'[i].no >= Answered' + i
        <5>1. unread[i + 1].no >= Answered + (i + 1) /\ unread'[i].no = unread[i + 1].no
          BY <3>1, <4>1
        <5>2. unread[i + 1].no \in Nat
          BY <1>2, <3>1
        <5>. QED  BY <4>2, <4>3, <5>1, <5>2
      <4>5. ASSUME NEW i \in 1 .. Len(queue')
            PROVE  queue'[i].no >= Answered' + Len(unread') + i
        <5>1. i \in 1 .. Len(queue) /\ queue'[i].no = queue[i].no
          OBVIOUS
        <5>2. queue[i].no >= Answered + Len(unread) + i /\ queue[i].no \in Nat
          BY <1>2, <4>1, <5>1
        <5>. QED  BY <3>1, <4>2, <4>3, <5>1, <5>2
      <4>6. Len(unread') + Len(queue') <= failures' + Waiting'
        BY <3>1, <4>1, <4>2, <4>3
      <4>. QED  BY <4>4, <4>5, <4>6 DEF NotTooLate
    <3>3. InOrder'
      <4>1. ASSUME NEW i \in 1 .. Len(unread'), NEW j \in 1 .. Len(unread'),
                   i < j
            PROVE  unread'[i].no < unread'[j].no
        <5>1. i + 1 \in 1 .. Len(unread) /\ j + 1 \in 1 .. Len(unread)
          BY <3>1
        <5>2. unread[i + 1].no < unread[j + 1].no
          BY <4>1, <5>1 DEF InOrder
        <5>. QED  BY <3>1, <5>2
      <4>2. ASSUME NEW i \in 1 .. Len(unread'), NEW j \in 1 .. Len(queue')
            PROVE  unread'[i].no < queue'[j].no
        <5>1. i + 1 \in 1 .. Len(unread)
          BY <3>1
        <5>2. unread[i + 1].no < queue[j].no
          BY <5>1 DEF InOrder
        <5>. QED  BY <3>1, <5>2
      <4>. QED  BY <4>1, <4>2 DEF InOrder
    <3>4. NotEarly'
      BY <1>2, <1>4, <3>1 DEF NotEarly, LastWritten
    <3>5. TakenIsOldest'
      BY DEF TakenIsOldest
    <3>. QED  BY <3>2, <3>3, <3>4, <3>5
  <2>3. CASE garbled' = TRUE /\ unread' = <<>>
    BY <1>2, <1>4, <2>3
    DEF NotTooLate, InOrder, NotEarly, TakenIsOldest, LastWritten
  <2>. QED  BY <1>10, <2>1, <2>2, <2>3 DEF ReceiveFails
<1>11. CASE TakeGarbage
  BY <1>2, <1>4, <1>11
  DEF TakeGarbage, NotTooLate, InOrder, NotEarly, TakenIsOldest, LastWritten
<1>12. ASSUME NEW k \in DOMAIN queue, NEW resp \in Responses, Answer(k, resp)
       PROVE  NotTooLate' /\ InOrder' /\ NotEarly' /\ TakenIsOldest'
  <2>1. /\ k \in 1 .. Len(queue)
        /\ Len(queue') = Len(queue) - k
        /\ \A i \in 1 .. Len(queue') :
             k + i \in 1 .. Len(queue) /\ queue'[i].no = queue[k + i].no
    BY <1>2, <1>12, DropFirst, SMTT(60) DEF Answer, ChanTypeOK
  <2>. /\ phase' = phase /\ seqno' = seqno /\ failures' = failures
       /\ taken' = taken /\ garbled' = garbled
    BY <1>12 DEF Answer
  <2>2. \A i, j \in 1 .. Len(queue') : i < j => queue'[i].no < queue'[j].no
    <3>1. ASSUME NEW i \in 1 .. Len(queue'), NEW j \in 1 .. Len(queue'), i < j
          PROVE  queue'[i].no < queue'[j].no
      <4>1. k + i \in 1 .. Len(queue) /\ k + j \in 1 .. Len(queue)
        BY <2>1
      <4>2. queue[k + i].no < queue[k + j].no
        BY <3>1, <4>1, <1>2, <2>1, SMTT(60) DEF InOrder
      <4>. QED  BY <2>1, <4>2
    <3>. QED  BY <3>1
  <2>3. CASE garbled
    <3>1. unread' = unread
      BY <1>12, <2>3 DEF Answer
    <3>2. NotTooLate' /\ NotEarly' /\ TakenIsOldest'
      BY <1>2, <1>4, <2>1, <2>3, <3>1
      DEF NotTooLate, NotEarly, TakenIsOldest, LastWritten
    <3>3. InOrder'
      BY <2>1, <3>1, <2>2 DEF InOrder
    <3>. QED  BY <3>2, <3>3
  <2>4. CASE ~garbled
    <3>1. /\ Len(unread') = Len(unread) + 1
          /\ \A i \in 1 .. Len(unread') :
               unread'[i].no = IF i <= Len(unread) THEN unread[i].no
                               ELSE queue[1].no
      <4>1. queue[1] \in [no : SeqNo, req : Requests, whole : BOOLEAN]
        BY <1>2, <2>1, 1 \in 1 .. Len(queue), ElementOfSeq DEF ChanTypeOK
      <4>2. [no |-> queue[1].no, resp |-> resp] \in
              [no : SeqNo, resp : Responses]
        BY <4>1
      <4>. QED
        BY <1>2, <1>12, <2>4, <4>2, AppendProperties DEF Answer, ChanTypeOK
    <3>2. ASSUME NEW i \in 1 .. Len(unread')
          PROVE  \/ i \in 1 .. Len(unread) /\ unread'[i].no = unread[i].no
                 \/ i = Len(unread) + 1 /\ unread'[i].no = queue[1].no
      BY <1>2, <3>1
    <3>3. 1 \in 1 .. Len(queue) /\ k \in Nat /\ k >= 1
      BY <1>2, <2>1
    <3>4. NotTooLate'
      <4>1. Answered' = Answered /\ Waiting' = Waiting /\ Answered \in Int
        BY <1>4 DEF Answered, Busy, Waiting
      <4>2. ASSUME NEW i \in 1 .. Len(unread')
            PROVE  unread'[i].no >= Answered + i
        <5>1. CASE i \in 1 .. Len(unread) /\ unread'[i].no = unread[i].no
          BY <2>4, <5>1 DEF NotTooLate
        <5>2. CASE i = Len(unread) + 1 /\ unread'[i].no = queue[1].no
          <6>1. queue[1].no >= Answered + Len(unread) + 1
            BY <2>4, <3>3 DEF NotTooLate
          <6>. QED  BY <1>2, <4>1, <5>2, <6>1
        <5>. QED  BY <3>2, <5>1, <5>2
      <4>3. ASSUME NEW i \in 1 .. Len(queue')
            PROVE  queue'[i].no >= Answered + Len(unread') + i
        <5>1. k + i \in 1 .. Len(queue) /\ queue'[i].no = queue[k + i].no
          BY <2>1
        <5>2. queue[k + i].no >= Answered + Len(unread) + (k + i)
          BY <2>4, <5>1 DEF NotTooLate
        <5>. QED  BY <1>2, <3>1, <3>3, <4>1, <5>1, <5>2, SMTT(60)
      <4>4. Len(unread') + Len(queue') <= failures + Waiting
        BY <1>2, <1>4, <2>1, <2>4, <3>1, <3>3 DEF NotTooLate, Waiting
      <4>. QED  BY <4>1, <4>2, <4>3, <4>4 DEF NotTooLate
    <3>5. InOrder'
      <4>1. ASSUME NEW i \in 1 .. Len(unread'), NEW j \in 1 .. Len(unread'),
                   i < j
            PROVE  unread'[i].no < unread'[j].no
        <5>1. i \in 1 .. Len(unread) /\ unread'[i].no = unread[i].no
          BY <1>2, <3>1, <4>1
        <5>2. CASE j \in 1 .. Len(unread)
          BY <1>2, <3>1, <4>1, <5>1, <5>2, SMTT(60) DEF InOrder
        <5>3. CASE j = Len(unread) + 1
          BY <3>3, <3>2, <5>1, <5>3, <1>2 DEF InOrder
        <5>. QED  BY <3>2, <5>2, <5>3
      <4>2. ASSUME NEW i \in 1 .. Len(unread'), NEW j \in 1 .. Len(queue')
            PROVE  unread'[i].no < queue'[j].no
        <5>1. /\ k + j \in 1 .. Len(queue) /\ 1 < k + j
              /\ queue'[j].no = queue[k + j].no
          <6>1. j \in Nat /\ j >= 1
            BY <1>2, <2>1
          <6>. QED  BY <2>1, <3>3, <6>1
        <5>2. queue[1].no < queue[k + j].no
          BY <3>3, <5>1 DEF InOrder
        <5>3. CASE i \in 1 .. Len(unread) /\ unread'[i].no = unread[i].no
          BY <5>1, <5>3 DEF InOrder
        <5>4. CASE unread'[i].no = queue[1].no
          BY <5>1, <5>2, <5>4
        <5>. QED  BY <3>2, <5>3, <5>4
      <4>. QED  BY <2>2, <4>1, <4>2 DEF InOrder
    <3>6. NotEarly'
      <4>1. LastWritten' = LastWritten
        BY DEF LastWritten
      <4>2. ASSUME NEW i \in 1 .. Len(unread')
            PROVE  unread'[i].no <= LastWritten
        BY <3>2, <3>3 DEF NotEarly
      <4>3. ASSUME NEW i \in 1 .. Len(queue')
            PROVE  queue'[i].no <= LastWritten
        BY <2>1 DEF NotEarly
      <4>. QED  BY <4>1, <4>2, <4>3 DEF NotEarly
    <3>7. TakenIsOldest'
      <4>. SUFFICES ASSUME phase = "idle", taken # 0
                    PROVE  /\ \A i \in 1 .. Len(unread') : taken < unread'[i].no
                           /\ \A i \in 1 .. Len(queue') : taken < queue'[i].no
        BY DEF TakenIsOldest
      <4>1. ASSUME NEW i \in 1 .. Len(unread')  PROVE taken < unread'[i].no
        BY <3>2, <3>3 DEF TakenIsOldest
      <4>2. ASSUME NEW i \in 1 .. Len(queue')  PROVE taken < queue'[i].no
        BY <2>1 DEF TakenIsOldest
      <4>. QED  BY <4>1, <4>2
    <3>. QED  BY <3>4, <3>5, <3>6, <3>7
  <2>. QED  BY <2>3, <2>4
<1>13. ASSUME NEW k \in DOMAIN queue, Overlook(k)
       PROVE  NotTooLate' /\ InOrder' /\ NotEarly' /\ TakenIsOldest'
  <2>1. /\ k \in 1 .. Len(queue)
        /\ Len(queue') = Len(queue) - k
        /\ \A i \in 1 .. Len(queue') :
             k + i \in 1 .. Len(queue) /\ queue'[i].no = queue[k + i].no
    BY <1>2, <1>13, DropFirst, SMTT(60) DEF Overlook, ChanTypeOK
  <2>. /\ phase' = phase /\ seqno' = seqno /\ failures' = failures
       /\ taken' = taken /\ garbled' = garbled /\ unread' = unread
    BY <1>13 DEF Overlook
  <2>2. NotTooLate'
    <3>. SUFFICES ASSUME ~garbled  PROVE NotTooLate'
      BY DEF NotTooLate
    <3>1. Answered' = Answered /\ Waiting' = Waiting /\ Answered \in Int
      BY <1>4 DEF Answered, Busy, Waiting
    <3>2. ASSUME NEW i \in 1 .. Len(queue')
          PROVE  queue'[i].no >= Answered + Len(unread) + i
      <4>1. queue[k + i].no >= Answered + Len(unread) + (k + i)
        BY <2>1 DEF NotTooLate
      <4>. QED  BY <1>2, <2>1, <3>1, <4>1, SMTT(60)
    <3>3. Len(unread) + Len(queue') <= failures + Waiting
      BY <1>2, <1>4, <2>1 DEF NotTooLate, Waiting
    <3>. QED  BY <3>1, <3>2, <3>3 DEF NotTooLate
  <2>3. InOrder'
    <3>1. ASSUME NEW i \in 1 .. Len(queue'), NEW j \in 1 .. Len(queue'), i < j
          PROVE  queue'[i].no < queue'[j].no
      <4>1. k + i \in 1 .. Len(queue) /\ k + j \in 1 .. Len(queue)
        BY <2>1
      <4>2. queue[k + i].no < queue[k + j].no
        BY <3>1, <4>1, <1>2, <2>1, SMTT(60) DEF InOrder
      <4>. QED  BY <2>1, <4>2
    <3>. QED  BY <2>1, <3>1 DEF InOrder
  <2>4. NotEarly' /\ TakenIsOldest'
    BY <2>1 DEF NotEarly, TakenIsOldest, LastWritten
  <2>. QED  BY <2>2, <2>3, <2>4
<1>14. CASE UNCHANGED chanVars
  BY <1>14
  DEF chanVars, NotTooLate, InOrder, NotEarly, TakenIsOldest, Answered, Busy,
      Waiting, LastWritten
<1>. QED
  BY <1>5, <1>7, <1>8, <1>9, <1>10, <1>11, <1>12, <1>13, <1>14 DEF ChanNext

(***************************************************************************)
(* ChanInv holds in every state of the channel.                             *)
(***************************************************************************)
LEMMA ChanInvCorrect == ChanSpec => []ChanInv
<1>1. ChanInit => ChanInv
  <2>. SUFFICES ASSUME ChanInit  PROVE ChanInv
    OBVIOUS
  <2>1. ChanTypeOK
    BY ChanTypeInit
  <2>2. Len(unread) = 0 /\ Len(queue) = 0 /\ taken = 0 /\ failures = 0
    BY EmptySeq DEF ChanInit
  <2>. QED
    BY <2>1, <2>2
    DEF ChanInv, NotTooLate, InOrder, NotEarly, TakenIsOldest, Waiting
<1>2. ChanInv /\ [ChanNext]_chanVars => ChanInv'
  BY ChanInvStep
<1>. QED
  BY <1>1, <1>2, PTL DEF ChanSpec

(***************************************************************************)
(* A response is never early and late by the failed exchanges at most,      *)
(* however the PLC delays and joins requests.                               *)
(***************************************************************************)
THEOREM ResponsesAreBoundedlyStale == ChanSpec => []StalenessBounded
<1>1. ChanInv => StalenessBounded
  BY DEF ChanInv, TakenIsOldest, StalenessBounded
<1>. QED
  BY <1>1, ChanInvCorrect, PTL

(***************************************************************************)
(* An exchange that got its own response left nothing older behind.         *)
(***************************************************************************)
THEOREM InStepAfterOwnResponse == ChanSpec => []OwnResponseMeansInStep
<1>1. ChanInv => OwnResponseMeansInStep
  <2>. SUFFICES ASSUME ChanInv, taken # 0, phase = "idle", taken = seqno
                PROVE  queue = <<>> /\ unread = <<>>
    BY DEF OwnResponseMeansInStep
  <2>1. Len(unread) \in Nat /\ Len(queue) \in Nat
    BY LenProperties DEF ChanInv, ChanTypeOK
  <2>2. ASSUME Len(unread) > 0  PROVE FALSE
    <3>1. 1 \in 1 .. Len(unread)
      BY <2>1, <2>2
    <3>2. taken < unread[1].no /\ unread[1].no <= seqno
      BY <3>1 DEF ChanInv, TakenIsOldest, NotEarly, LastWritten
    <3>3. unread[1] \in [no : SeqNo, resp : Responses] /\ seqno \in Nat
      BY <3>1, ElementOfSeq DEF ChanInv, ChanTypeOK
    <3>. QED  BY <3>2, <3>3 DEF SeqNo
  <2>3. ASSUME Len(queue) > 0  PROVE FALSE
    <3>1. 1 \in 1 .. Len(queue)
      BY <2>1, <2>3
    <3>2. taken < queue[1].no /\ queue[1].no <= seqno
      BY <3>1 DEF ChanInv, TakenIsOldest, NotEarly, LastWritten
    <3>3. queue[1] \in [no : SeqNo, req : Requests, whole : BOOLEAN] /\ seqno \in Nat
      BY <3>1, ElementOfSeq DEF ChanInv, ChanTypeOK
    <3>. QED  BY <3>2, <3>3 DEF SeqNo
  <2>. QED
    BY <2>1, <2>2, <2>3, EmptySeq DEF ChanInv, ChanTypeOK
<1>. QED
  BY <1>1, ChanInvCorrect, PTL
=============================================================================
