-------------------------- MODULE S7TransportProofs -------------------------
(***************************************************************************)
(* Proofs about S7Transport, for every set of well-formed frames and any    *)
(* number of exchanges: the type invariant, that a stream no read was       *)
(* interrupted in is handed out frame by frame, and that the byte stream    *)
(* implements the channel of S7Channel.                                     *)
(***************************************************************************)
EXTENDS S7Transport, SequenceTheorems, TLAPS

FrameLen(f) == Len(sent[f].resp)

(***************************************************************************)
(* Two conjuncts every state needs for the next byte and the length field   *)
(* to make sense: the position is in the stream or right behind it, and a   *)
(* header has the bytes that were asked for and received.                   *)
(***************************************************************************)
PosInStream ==
  \/ pos.frame <= Len(sent) + 1 /\ pos.offset = 0
  \/ pos.frame <= Len(sent) /\ pos.offset < FrameLen(pos.frame)

HeaderLength == call = "header" => need <= TpktLen /\ Len(hdr) = TpktLen - need

(***************************************************************************)
(* As long as no read was interrupted inside a frame, the position follows  *)
(* from where the read in progress is: a header is read from the first      *)
(* byte of a frame and equals its first bytes, and the length it gives is   *)
(* the length of that frame.                                                *)
(***************************************************************************)
InHeader ==
  ~cut /\ call = "header" =>
    /\ from.offset = 0
    /\ pos = [frame |-> from.frame, offset |-> TpktLen - need]
    /\ \A i \in 1 .. Len(hdr) : hdr[i] = sent[from.frame].resp[i]

InBody ==
  ~cut /\ call = "body" =>
    /\ from.offset = 0
    /\ from.frame <= Len(sent)
    /\ need > 0 => /\ need < FrameLen(from.frame)
                   /\ pos = [frame  |-> from.frame,
                             offset |-> FrameLen(from.frame) - need]
    /\ need = 0 => pos = [frame |-> from.frame + 1, offset |-> 0]

BetweenFrames == ~cut /\ call \notin Reading => pos.offset = 0

HandedOut ==
  ~cut => /\ outcome.kind \notin {"bad_tpkt", "bad_length"}
          /\ outcome.kind = "ok" =>
               /\ outcome.start.frame <= Len(sent)
               /\ outcome.start.offset = 0
               /\ call = "idle" => pos.frame = outcome.start.frame + 1

StreamInv ==
  /\ TypeOK
  /\ PosInStream
  /\ HeaderLength

Inv ==
  /\ StreamInv
  /\ InHeader
  /\ InBody
  /\ BetweenFrames
  /\ HandedOut

-----------------------------------------------------------------------------
(***************************************************************************)
(* Dropping the first k elements shifts the rest.                           *)
(***************************************************************************)
LEMMA DropFirst ==
  ASSUME NEW S, NEW s \in Seq(S), NEW k \in 1 .. Len(s)
  PROVE  /\ SubSeq(s, k + 1, Len(s)) \in Seq(S)
         /\ Len(SubSeq(s, k + 1, Len(s))) = Len(s) - k
         /\ \A i \in 1 .. Len(s) - k : SubSeq(s, k + 1, Len(s))[i] = s[k + i]
<1>1. Len(s) \in Nat /\ \A i \in k + 1 .. Len(s) : s[i] \in S
  BY LenProperties, ElementOfSeq
<1>2. /\ SubSeq(s, k + 1, Len(s)) \in Seq(S)
      /\ Len(SubSeq(s, k + 1, Len(s)))
           = IF k + 1 <= Len(s) THEN Len(s) - (k + 1) + 1 ELSE 0
      /\ \A i \in 1 .. Len(s) - (k + 1) + 1 :
           SubSeq(s, k + 1, Len(s))[i] = s[k + 1 + i - 1]
  BY <1>1, k + 1 \in Int, Len(s) \in Int, SubSeqProperties
<1>. QED
  BY <1>1, <1>2

(***************************************************************************)
(* A frame the PLC sent is one of Frames, well-formed and longer than its   *)
(* header.                                                                  *)
(***************************************************************************)
LEMMA SentFrame ==
  ASSUME TypeOK, NEW f \in 1 .. Len(sent)
  PROVE  /\ sent[f] \in Numbered
         /\ sent[f].resp \in Frames
         /\ sent[f].resp \in Seq(Byte)
         /\ FrameLen(f) \in Nat
         /\ FrameLen(f) >= 7
         /\ sent[f].resp[1] = TpktVersion
         /\ TpktTotal(sent[f].resp) = FrameLen(f)
<1>1. sent[f] \in Numbered
  BY ElementOfSeq DEF TypeOK
<1>2. sent[f].resp \in Frames
  BY <1>1 DEF Numbered
<1>3. WellFramed(sent[f].resp)
  BY <1>2, FramesAssumption
<1>. QED
  BY <1>1, <1>2, <1>3, LenProperties DEF WellFramed, FrameLen, TpktLen

(***************************************************************************)
(* A new frame at the end of the stream leaves the frames before it alone.  *)
(***************************************************************************)
LEMMA SentGrows ==
  ASSUME TypeOK, NEW k, NEW frame \in Frames, PlcAnswers(k, frame)
  PROVE  /\ sent' \in Seq(Numbered)
         /\ Len(sent') = Len(sent) + 1
         /\ \A f \in 1 .. Len(sent) : sent'[f] = sent[f]
         /\ plcIn' \in Seq(Received)
<1>1. k \in 1 .. Len(plcIn) /\ Len(plcIn) \in Nat
  BY LenProperties DEF PlcAnswers, TypeOK
<1>2. plcIn[1] \in Received
  BY <1>1, 1 \in 1 .. Len(plcIn), ElementOfSeq DEF TypeOK
<1>3. [no |-> plcIn[1].no, resp |-> frame] \in Numbered
  BY <1>2 DEF Numbered, Received
<1>4. plcIn' \in Seq(Received)
  BY <1>1, DropFirst DEF PlcAnswers, TypeOK
<1>. QED
  BY <1>3, <1>4, AppendProperties DEF PlcAnswers, TypeOK

(***************************************************************************)
(* The position after a byte: the next offset, or the next frame.           *)
(***************************************************************************)
LEMMA Advanced ==
  ASSUME NEW p \in Position
  PROVE  /\ Advance(p) \in Position
         /\ Advance(p) = IF p.offset + 1 = FrameLen(p.frame)
                         THEN [frame |-> p.frame + 1, offset |-> 0]
                         ELSE [frame |-> p.frame, offset |-> p.offset + 1]
<1>1. /\ p = [frame |-> p.frame, offset |-> p.offset]
      /\ p.frame \in Nat \ {0} /\ p.offset \in Nat
  BY DEF Position
<1>2. [p EXCEPT !.offset = @ + 1] = [frame |-> p.frame, offset |-> p.offset + 1]
  BY <1>1
<1>. QED
  BY <1>1, <1>2 DEF Advance, FrameLen, Position

(***************************************************************************)
(* Every step keeps the types, the position in the stream and the length of *)
(* the header.                                                              *)
(***************************************************************************)
LEMMA StreamInvStep ==
  ASSUME StreamInv, [Next]_vars
  PROVE  StreamInv'
<1>. USE DEF StreamInv, TypeOK, Endings, Reading, TpktLen
<1>1. CASE StartExchange
  BY <1>1 DEF StartExchange, plcVars, readVars, PosInStream, HeaderLength,
              FrameLen
<1>2. ASSUME cur # 0, DeliverSome
      PROVE  plcIn' \in Seq(Received)
  <2>1. plcIn \in Seq(Received) /\ cur \in Nat \ {0}
    BY <1>2
  <2>2. ASSUME NEW whole \in BOOLEAN
        PROVE  Append(plcIn, [no |-> cur, whole |-> whole]) \in Seq(Received)
    <3>1. [no |-> cur, whole |-> whole] \in Received
      BY <2>1 DEF Received
    <3>. QED  BY <2>1, <3>1, AppendProperties
  <2>. QED
    BY <1>2, <2>1, <2>2 DEF DeliverSome, Deliver
<1>3. CASE WriteDone
  <2>1. /\ hdr' = <<>> /\ need' = 4 /\ call' = "header" /\ cur' = cur
        /\ call = "write" /\ pos' = pos /\ from' = pos
        /\ sent' = sent
        /\ UNCHANGED <<sock, peer, outcome, abandoned, cut>>
    BY <1>3 DEF WriteDone
  <2>2. hdr' \in Seq(Byte) /\ Len(hdr') = 0
    BY <2>1, EmptySeq
  <2>3. plcIn' \in Seq(Received)
    BY <1>2, <1>3 DEF WriteDone, DeliverSome
  <2>. QED
    BY <2>1, <2>2, <2>3 DEF PosInStream, HeaderLength, FrameLen
<1>4. CASE WriteFails
  <2>1. plcIn' \in Seq(Received)
    BY <1>2, <1>4 DEF WriteFails
  <2>. QED
    BY <1>4, <2>1 DEF WriteFails, Return, readVars, PosInStream,
                      HeaderLength, FrameLen
<1>5. ASSUME NEW why \in {"timeout", "cancelled"}, WriteInterrupted(why)
      PROVE  StreamInv'
  <2>1. plcIn' \in Seq(Received)
    BY <1>2, <1>5 DEF WriteInterrupted
  <2>. QED
    BY <1>5, <2>1 DEF WriteInterrupted, Return, readVars, PosInStream,
                      HeaderLength, FrameLen
<1>6. CASE ReadByte
  <2>1. pos.frame \in 1 .. Len(sent)
    BY <1>6, LenProperties DEF ReadByte, Available, Position
  <2>. DEFINE frame == sent[pos.frame].resp
  <2>2. /\ frame \in Seq(Byte) /\ Len(frame) \in Nat /\ Len(frame) >= 7
    BY <2>1, SentFrame DEF FrameLen
  <2>3. pos.offset \in Nat /\ pos.offset < Len(frame)
    BY <2>1, <2>2 DEF PosInStream, Position, FrameLen
  <2>4. NextByte \in Byte
    BY <2>2, <2>3, ElementOfSeq, SMTT(60) DEF NextByte
  <2>5. /\ need > 0 /\ need' = need - 1 /\ call' = call /\ sent' = sent
        /\ pos' = Advance(pos)
        /\ hdr' = IF call = "header" THEN Append(hdr, NextByte) ELSE hdr
        /\ UNCHANGED <<sock, peer, plcIn, from, cur, outcome, abandoned, cut>>
    BY <1>6 DEF ReadByte, plcVars
  <2>6. /\ pos' \in Position
        /\ PosInStream'
    <3>1. pos.frame \in Nat \ {0} /\ Len(sent) \in Nat
      BY LenProperties DEF Position
    <3>2. /\ pos' \in Position
          /\ pos' = IF pos.offset + 1 = FrameLen(pos.frame)
                    THEN [frame |-> pos.frame + 1, offset |-> 0]
                    ELSE [frame |-> pos.frame, offset |-> pos.offset + 1]
      BY <2>5, Advanced
    <3>3. /\ FrameLen(pos.frame) \in Nat
          /\ pos.offset < FrameLen(pos.frame)
      BY <2>2, <2>3 DEF FrameLen
    <3>4. PosInStream'
      BY <2>1, <2>3, <2>5, <3>1, <3>2, <3>3, SMTT(60)
      DEF PosInStream, FrameLen
    <3>. QED  BY <3>2, <3>4
  <2>7. /\ hdr' \in Seq(Byte)
        /\ call = "header" => Len(hdr') = Len(hdr) + 1
    BY <2>4, <2>5, AppendProperties
  <2>8. HeaderLength'
    BY <2>5, <2>7 DEF HeaderLength
  <2>. QED  BY <2>5, <2>6, <2>7, <2>8
<1>7. CASE BadTpkt \/ BadLength \/ BodyDone \/ ReadFails
  <2>1. PICK kind \in Endings : Return(kind)
    BY <1>7 DEF BadTpkt, BadLength, BodyDone, ReadFails
  <2>2. UNCHANGED <<sock, plcVars, readVars, cur>> /\ cut' \in BOOLEAN
    BY <1>7 DEF BadTpkt, BadLength, BodyDone, ReadFails, LeaveStream
  <2>. QED
    BY <2>1, <2>2 DEF Return, plcVars, readVars, PosInStream, HeaderLength,
                      FrameLen
<1>8. CASE HeaderDone
  <2>1. need' \in Nat
    <3>1. /\ hdr \in Seq(0 .. 255) /\ Len(hdr) = 4
          /\ TpktTotal(hdr) >= 4 /\ need' = TpktTotal(hdr) - 4
      BY <1>8 DEF HeaderDone, HeaderLength, Byte
    <3>2. hdr[3] \in 0 .. 255 /\ hdr[4] \in 0 .. 255
      BY <3>1, 3 \in 1 .. Len(hdr), 4 \in 1 .. Len(hdr), ElementOfSeq
    <3>3. \A hi, lo \in 0 .. 255 : U16(hi, lo) \in Nat
      BY DEF U16
    <3>4. TpktTotal(hdr) \in Nat
      BY <3>2, <3>3 DEF TpktTotal
    <3>. QED  BY <3>1, <3>4
  <2>. QED
    BY <1>8, <2>1 DEF HeaderDone, plcVars, PosInStream, HeaderLength, FrameLen
<1>9. ASSUME NEW why \in {"timeout", "cancelled"}, ReadInterrupted(why)
      PROVE  StreamInv'
  BY <1>9 DEF ReadInterrupted, Return, LeaveStream, plcVars, readVars,
              PosInStream, HeaderLength, FrameLen
<1>10. CASE Disconnect \/ PlcGone
  BY <1>10 DEF Disconnect, PlcGone, plcVars, readVars, PosInStream,
               HeaderLength, FrameLen
<1>11. ASSUME NEW k, NEW frame \in Frames, PlcAnswers(k, frame)
       PROVE  StreamInv'
  <2>1. /\ sent' \in Seq(Numbered) /\ Len(sent') = Len(sent) + 1
        /\ \A f \in 1 .. Len(sent) : sent'[f] = sent[f]
        /\ plcIn' \in Seq(Received)
    BY <1>11, SentGrows
  <2>2. UNCHANGED <<sock, peer, readVars, call, cur, outcome, abandoned, cut>>
    BY <1>11 DEF PlcAnswers
  <2>3. PosInStream'
    BY <2>1, <2>2, LenProperties DEF PosInStream, FrameLen, readVars, Position
  <2>. QED
    BY <2>1, <2>2, <2>3 DEF readVars, HeaderLength
<1>12. ASSUME NEW k, PlcOverlooks(k)
       PROVE  StreamInv'
  <2>1. plcIn' \in Seq(Received)
    BY <1>12, DropFirst DEF PlcOverlooks
  <2>. QED
    BY <1>12, <2>1 DEF PlcOverlooks, readVars, PosInStream, HeaderLength, FrameLen
<1>13. CASE UNCHANGED vars
  BY <1>13 DEF vars, PosInStream, HeaderLength, FrameLen
<1>. QED
  BY <1>1, <1>3, <1>4, <1>5, <1>6, <1>7, <1>8, <1>9, <1>10, <1>11, <1>12, <1>13
  DEF Next, Timeout, Cancel

(***************************************************************************)
(* Every exchange that ends between two frames, and not with a header the   *)
(* reader refused, keeps the account of what was handed out.                *)
(***************************************************************************)
LEMMA ReturnStep ==
  ASSUME NEW kind \in Endings \ {"bad_tpkt", "bad_length"}, Return(kind),
         Inv, ~cut' => ~cut /\ pos'.offset = 0,
         kind = "ok" /\ ~cut' =>
           /\ from.frame <= Len(sent')
           /\ from.offset = 0
           /\ pos'.frame = from.frame + 1
  PROVE  InHeader' /\ InBody' /\ BetweenFrames' /\ HandedOut'
<1>1. /\ call' = "idle" /\ outcome'.kind = kind /\ outcome'.start = from
  BY DEF Return
<1>2. InHeader' /\ InBody' /\ BetweenFrames'
  BY <1>1 DEF InHeader, InBody, BetweenFrames
<1>3. HandedOut'
  BY <1>1 DEF HandedOut
<1>. QED  BY <1>2, <1>3

(***************************************************************************)
(* A frame under way is in the stream, and a complete header is its header. *)
(***************************************************************************)
LEMMA FrameUnderWay ==
  ASSUME Inv, ~cut, call = "header", need < TpktLen
  PROVE  /\ from.frame \in 1 .. Len(sent)
         /\ need = 0 => /\ hdr[1] = TpktVersion
                        /\ TpktTotal(hdr) = FrameLen(from.frame)
<1>1. /\ need \in Nat /\ from \in Position /\ from.frame \in Nat \ {0}
      /\ Len(sent) \in Nat /\ Len(hdr) = TpktLen - need
  BY LenProperties DEF Inv, StreamInv, TypeOK, Position, HeaderLength
<1>2. pos.frame = from.frame /\ pos.offset = TpktLen - need
  BY DEF Inv, InHeader
<1>3. pos.offset # 0
  BY <1>1, <1>2 DEF TpktLen
<1>4. from.frame \in 1 .. Len(sent)
  BY <1>1, <1>2, <1>3 DEF Inv, StreamInv, PosInStream
<1>5. ASSUME need = 0
      PROVE  hdr[1] = TpktVersion /\ TpktTotal(hdr) = FrameLen(from.frame)
  <2>1. 1 \in 1 .. Len(hdr) /\ 3 \in 1 .. Len(hdr) /\ 4 \in 1 .. Len(hdr)
    BY <1>1, <1>5 DEF TpktLen
  <2>2. \A i \in 1 .. Len(hdr) : hdr[i] = sent[from.frame].resp[i]
    BY DEF Inv, InHeader
  <2>3. /\ sent[from.frame].resp[1] = TpktVersion
        /\ TpktTotal(sent[from.frame].resp) = FrameLen(from.frame)
    BY <1>4, SentFrame DEF Inv, StreamInv
  <2>. QED  BY <2>1, <2>2, <2>3 DEF TpktTotal
<1>. QED  BY <1>4, <1>5

(***************************************************************************)
(* A byte of the header or of the body keeps the reader inside the frame    *)
(* its read started at.                                                     *)
(***************************************************************************)
LEMMA ReadByteStep ==
  ASSUME Inv, ReadByte
  PROVE  InHeader' /\ InBody' /\ BetweenFrames' /\ HandedOut'
<1>1. /\ pos.frame \in 1 .. Len(sent) /\ Len(sent) \in Nat
      /\ pos \in Position /\ pos.offset \in Nat /\ need \in Nat
      /\ from \in Position /\ hdr \in Seq(Byte)
      /\ call \in Reading
  BY LenProperties
  DEF ReadByte, Available, Inv, StreamInv, TypeOK, Position
<1>2. /\ need > 0 /\ need' = need - 1 /\ pos' = Advance(pos)
      /\ call' = call /\ sent' = sent /\ from' = from
      /\ outcome' = outcome /\ cut' = cut
      /\ hdr' = IF call = "header" THEN Append(hdr, NextByte) ELSE hdr
  BY DEF ReadByte, plcVars
<1>3. FrameLen(pos.frame) \in Nat /\ FrameLen(pos.frame) >= 7
  BY <1>1, SentFrame DEF Inv, StreamInv
<1>4. pos' = IF pos.offset + 1 = FrameLen(pos.frame)
             THEN [frame |-> pos.frame + 1, offset |-> 0]
             ELSE [frame |-> pos.frame, offset |-> pos.offset + 1]
  BY <1>1, <1>2, Advanced
<1>5. ASSUME ~cut, call = "header"
      PROVE  InHeader'
  <2>1. /\ from.offset = 0
        /\ pos.frame = from.frame /\ pos.offset = TpktLen - need
        /\ \A i \in 1 .. Len(hdr) : hdr[i] = sent[from.frame].resp[i]
    BY <1>5 DEF Inv, InHeader
  <2>2. need <= TpktLen /\ Len(hdr) = TpktLen - need
    BY <1>5 DEF Inv, StreamInv, HeaderLength
  <2>3. pos' = [frame |-> from.frame, offset |-> TpktLen - need']
    BY <1>1, <1>2, <1>3, <1>4, <2>1, <2>2 DEF TpktLen
  <2>4. /\ Len(hdr') = Len(hdr) + 1
        /\ \A i \in 1 .. Len(hdr) : hdr'[i] = hdr[i]
        /\ hdr'[Len(hdr) + 1] = NextByte
    <3>1. NextByte \in Byte
      <4>1. /\ sent[pos.frame].resp \in Seq(Byte)
            /\ Len(sent[pos.frame].resp) = FrameLen(pos.frame)
        BY <1>1, SentFrame DEF Inv, StreamInv, FrameLen
      <4>2. pos.offset + 1 \in 1 .. Len(sent[pos.frame].resp)
        BY <1>1, <1>2, <1>3, <2>1, <4>1 DEF TpktLen
      <4>. QED  BY <4>1, <4>2, ElementOfSeq DEF NextByte
    <3>. QED  BY <1>1, <1>2, <1>5, <3>1, AppendProperties
  <2>5. NextByte = sent[from.frame].resp[Len(hdr) + 1]
    BY <2>1, <2>2 DEF NextByte
  <2>6. ASSUME NEW i \in 1 .. Len(hdr')
        PROVE  hdr'[i] = sent'[from'.frame].resp[i]
    <3>1. i \in 1 .. Len(hdr) \/ i = Len(hdr) + 1
      BY <1>1, <2>4, LenProperties
    <3>. QED  BY <1>2, <2>1, <2>4, <2>5, <3>1
  <2>. QED  BY <1>2, <2>1, <2>3, <2>6 DEF InHeader
<1>6. ASSUME ~cut, call = "body"
      PROVE  InBody'
  <2>1. /\ from.offset = 0 /\ from.frame <= Len(sent)
        /\ need < FrameLen(from.frame)
        /\ pos.frame = from.frame
        /\ pos.offset = FrameLen(from.frame) - need
    BY <1>2, <1>6 DEF Inv, InBody
  <2>2. CASE need = 1
    <3>1. pos' = [frame |-> from.frame + 1, offset |-> 0] /\ need' = 0
      BY <1>2, <1>3, <1>4, <2>1, <2>2
    <3>. QED  BY <1>2, <2>1, <3>1 DEF InBody
  <2>3. CASE need # 1
    <3>1. /\ pos' = [frame |-> from.frame,
                     offset |-> FrameLen(from.frame) - need']
          /\ need' > 0 /\ need' < FrameLen(from.frame)
      BY <1>1, <1>2, <1>3, <1>4, <2>1, <2>3
    <3>. QED  BY <1>2, <2>1, <3>1 DEF InBody, FrameLen
  <2>. QED  BY <2>2, <2>3
<1>7. InHeader' /\ InBody'
  BY <1>2, <1>5, <1>6 DEF InHeader, InBody
<1>8. BetweenFrames' /\ HandedOut'
  BY <1>1, <1>2 DEF Inv, BetweenFrames, HandedOut, Reading
<1>. QED  BY <1>7, <1>8

(***************************************************************************)
(* Every step keeps the account of where the reader is in the stream.       *)
(***************************************************************************)
LEMMA FramesStep ==
  ASSUME Inv, [Next]_vars
  PROVE  InHeader' /\ InBody' /\ BetweenFrames' /\ HandedOut'
<1>1. CASE \/ StartExchange \/ Disconnect \/ PlcGone
          \/ \E k : PlcOverlooks(k)
          \/ UNCHANGED vars
  <2>1. UNCHANGED <<sent, pos, from, hdr, need, outcome, cut>>
    BY <1>1 DEF StartExchange, Disconnect, PlcGone, PlcOverlooks, vars, plcVars,
                readVars
  <2>2. (call' = call) \/ (call = "idle" /\ call' = "write")
    BY <1>1 DEF StartExchange, Disconnect, PlcGone, PlcOverlooks, vars
  <2>. QED
    BY <2>1, <2>2 DEF Inv, InHeader, InBody, BetweenFrames, HandedOut, FrameLen,
                      Reading
<1>2. CASE WriteDone
  <2>1. /\ call = "write" /\ call' = "header" /\ from' = pos /\ pos' = pos
        /\ hdr' = <<>> /\ need' = TpktLen /\ cut' = cut /\ sent' = sent
        /\ outcome' = outcome
    BY <1>2 DEF WriteDone
  <2>2. pos = [frame |-> pos.frame, offset |-> pos.offset]
    BY DEF Inv, StreamInv, TypeOK, Position
  <2>3. ~cut => pos.offset = 0
    BY <2>1 DEF Inv, BetweenFrames, Reading
  <2>4. Len(hdr') = 0
    BY <2>1, EmptySeq
  <2>5. InHeader'
    BY <2>1, <2>2, <2>3, <2>4 DEF InHeader, TpktLen
  <2>. QED
    BY <2>1, <2>5 DEF Inv, InBody, BetweenFrames, HandedOut, Reading
<1>3. CASE WriteFails
  <2>1. /\ Return("transport_error") /\ UNCHANGED <<pos, cut>>
        /\ ~cut => pos.offset = 0
    BY <1>3 DEF WriteFails, readVars, Inv, BetweenFrames, Reading
  <2>. QED  BY <2>1, ReturnStep DEF Endings
<1>4. ASSUME NEW why \in {"timeout", "cancelled"}, WriteInterrupted(why)
      PROVE  InHeader' /\ InBody' /\ BetweenFrames' /\ HandedOut'
  <2>1. /\ Return(why) /\ UNCHANGED <<pos, cut>>
        /\ ~cut => pos.offset = 0
    BY <1>4 DEF WriteInterrupted, readVars, Inv, BetweenFrames, Reading
  <2>. QED  BY <2>1, ReturnStep DEF Endings
<1>5. CASE ReadByte
  BY <1>5, ReadByteStep
<1>6. CASE BadTpkt \/ BadLength
  <2>1. /\ call = "header" /\ need = 0 /\ cut' = cut
        /\ hdr[1] = TpktVersion => TpktTotal(hdr) < TpktLen
    BY <1>6 DEF BadTpkt, BadLength
  <2>2. CASE cut
    BY <2>1, <2>2 DEF InHeader, InBody, BetweenFrames, HandedOut
  <2>3. CASE ~cut
    <3>1. /\ from.frame \in 1 .. Len(sent)
          /\ hdr[1] = TpktVersion /\ TpktTotal(hdr) = FrameLen(from.frame)
      BY <2>1, <2>3, FrameUnderWay DEF TpktLen
    <3>2. FrameLen(from.frame) \in Nat /\ FrameLen(from.frame) >= 7
      BY <3>1, SentFrame DEF Inv, StreamInv
    <3>. QED  BY <2>1, <3>1, <3>2 DEF TpktLen
  <2>. QED  BY <2>2, <2>3
<1>7. CASE HeaderDone
  <2>1. /\ call = "header" /\ need = 0 /\ call' = "body"
        /\ need' = TpktTotal(hdr) - TpktLen
        /\ UNCHANGED <<sent, pos, from, outcome, cut>>
    BY <1>7 DEF HeaderDone, plcVars
  <2>2. ASSUME ~cut
        PROVE  InBody'
    <3>1. /\ from.frame \in 1 .. Len(sent)
          /\ TpktTotal(hdr) = FrameLen(from.frame)
      BY <2>1, <2>2, FrameUnderWay DEF TpktLen
    <3>2. FrameLen(from.frame) \in Nat /\ FrameLen(from.frame) >= 7
      BY <3>1, SentFrame DEF Inv, StreamInv
    <3>3. /\ from.offset = 0 /\ pos = [frame |-> from.frame, offset |-> 4]
      BY <2>1, <2>2 DEF Inv, InHeader, TpktLen
    <3>4. /\ need' > 0 /\ need' < FrameLen(from.frame)
          /\ 4 = FrameLen(from.frame) - need'
      BY <2>1, <3>1, <3>2 DEF TpktLen
    <3>. QED
      BY <2>1, <3>1, <3>3, <3>4 DEF InBody, FrameLen
  <2>. QED
    BY <2>1, <2>2 DEF Inv, InHeader, InBody, BetweenFrames, HandedOut, Reading
<1>8. CASE BodyDone
  <2>1. /\ call = "body" /\ need = 0 /\ Return("ok")
        /\ UNCHANGED <<cut, pos, sent>>
    BY <1>8 DEF BodyDone, readVars, plcVars
  <2>2. ~cut => /\ from.offset = 0 /\ from.frame <= Len(sent)
                /\ pos.frame = from.frame + 1 /\ pos.offset = 0
    BY <2>1 DEF Inv, InBody
  <2>3. ~cut' => ~cut /\ from.frame <= Len(sent') /\ from.offset = 0
                 /\ pos'.frame = from.frame + 1 /\ pos'.offset = 0
    BY <2>1, <2>2
  <2>. QED  BY <2>1, <2>3, ReturnStep DEF Endings
<1>9. CASE ReadFails
  <2>1. /\ Return("connection_closed")
        /\ cut' = (cut \/ pos.offset # 0) /\ pos' = pos
    BY <1>9 DEF ReadFails, LeaveStream, readVars
  <2>. QED  BY <2>1, ReturnStep DEF Endings
<1>10. ASSUME NEW why \in {"timeout", "cancelled"}, ReadInterrupted(why)
       PROVE  InHeader' /\ InBody' /\ BetweenFrames' /\ HandedOut'
  <2>1. /\ Return(why)
        /\ cut' = (cut \/ pos.offset # 0) /\ pos' = pos
    BY <1>10 DEF ReadInterrupted, LeaveStream, readVars
  <2>. QED  BY <2>1, ReturnStep DEF Endings
<1>11. ASSUME NEW k, NEW frame \in Frames, PlcAnswers(k, frame)
       PROVE  InHeader' /\ InBody' /\ BetweenFrames' /\ HandedOut'
  <2>1. /\ Len(sent') = Len(sent) + 1 /\ Len(sent) \in Nat
        /\ \A f \in 1 .. Len(sent) : sent'[f] = sent[f]
    BY <1>11, SentGrows, LenProperties DEF Inv, StreamInv, TypeOK
  <2>2. UNCHANGED <<pos, from, hdr, need, call, outcome, cut>>
    BY <1>11 DEF PlcAnswers, readVars
  <2>3. /\ from.frame \in Nat \ {0} /\ outcome.start.frame \in Nat \ {0}
        /\ need \in Nat
    BY DEF Inv, StreamInv, TypeOK, Position
  <2>4. InHeader'
    <3>1. CASE cut \/ call # "header"
      BY <2>2, <3>1 DEF InHeader
    <3>2. CASE ~cut /\ call = "header" /\ need < TpktLen
      <4>1. from.frame \in 1 .. Len(sent)
        BY <3>2, FrameUnderWay
      <4>. QED
        BY <2>1, <2>2, <3>2, <4>1 DEF Inv, InHeader
    <3>3. CASE ~cut /\ call = "header" /\ ~(need < TpktLen)
      <4>1. Len(hdr) = 0
        BY <2>3, <3>3 DEF Inv, StreamInv, HeaderLength, TpktLen
      <4>. QED
        BY <2>2, <3>3, <4>1 DEF Inv, InHeader
    <3>. QED  BY <3>1, <3>2, <3>3
  <2>5. InBody'
    BY <2>1, <2>2, <2>3 DEF Inv, InBody, FrameLen
  <2>6. BetweenFrames' /\ HandedOut'
    BY <2>1, <2>2, <2>3 DEF Inv, BetweenFrames, HandedOut
  <2>. QED  BY <2>4, <2>5, <2>6
<1>. QED
  BY <1>1, <1>2, <1>3, <1>4, <1>5, <1>6, <1>7, <1>8, <1>9, <1>10, <1>11
  DEF Next, Timeout, Cancel

(***************************************************************************)
(* The first state: nothing was sent and nothing is being read.             *)
(***************************************************************************)
LEMMA InvInit ==
  ASSUME Init
  PROVE  Inv
<1>1. /\ plcIn \in Seq(Received) /\ sent \in Seq(Numbered)
      /\ hdr \in Seq(Byte) /\ Len(sent) = 0
  BY EmptySeq DEF Init
<1>2. Start \in Position
  BY DEF Start, Position
<1>3. TypeOK
  BY <1>1, <1>2 DEF Init, TypeOK, Endings
<1>4. PosInStream /\ HeaderLength
  BY <1>1 DEF Init, PosInStream, HeaderLength, Start
<1>5. InHeader /\ InBody /\ BetweenFrames /\ HandedOut
  BY DEF Init, InHeader, InBody, BetweenFrames, HandedOut, Start, Reading
<1>. QED  BY <1>3, <1>4, <1>5 DEF Inv, StreamInv

(***************************************************************************)
(* Inv holds in every state of the transport.                               *)
(***************************************************************************)
LEMMA InvCorrect == Spec => []Inv
<1>1. Init => Inv
  BY InvInit
<1>2. Inv /\ [Next]_vars => Inv'
  BY StreamInvStep, FramesStep DEF Inv
<1>. QED  BY <1>1, <1>2, PTL DEF Spec

(***************************************************************************)
(* TcpConnection keeps its types: the header buffer holds bytes, the bytes  *)
(* asked for and the position never go negative.                            *)
(***************************************************************************)
THEOREM TypeCorrect == Spec => []TypeOK
<1>1. Inv => TypeOK
  BY DEF Inv, StreamInv
<1>. QED  BY <1>1, InvCorrect, PTL

(***************************************************************************)
(* read_tpkt hands out whole frames, in order and one per call, for every   *)
(* set of well-formed frames, every segmentation and every timing, as long  *)
(* as no read was interrupted inside a frame.                               *)
(***************************************************************************)
THEOREM WholeFramesCorrect == Spec => []WholeFrames
<1>1. Inv => WholeFrames
  BY DEF Inv, BetweenFrames, HandedOut, WholeFrames, Reading
<1>. QED  BY <1>1, InvCorrect, PTL
-----------------------------------------------------------------------------
(***************************************************************************)
(* What is left of a sequence from one of its elements on begins with that  *)
(* element.                                                                 *)
(***************************************************************************)
LEMMA SuffixHead ==
  ASSUME NEW S, NEW s \in Seq(S), NEW i \in 1 .. Len(s)
  PROVE  /\ SubSeq(s, i, Len(s)) # <<>>
         /\ Head(SubSeq(s, i, Len(s))) = s[i]
         /\ Tail(SubSeq(s, i, Len(s))) = SubSeq(s, i + 1, Len(s))
<1>1. Len(s) \in Nat /\ Len(s) \in i .. Len(s)
  BY LenProperties
<1>2. \A j \in i .. Len(s) : s[j] \in S
  BY <1>1, ElementOfSeq
<1>3. Len(SubSeq(s, i, Len(s))) = Len(s) - i + 1
  BY <1>1, <1>2, i \in Int, Len(s) \in Int, i <= Len(s), SubSeqProperties
<1>4. SubSeq(s, i, Len(s)) # <<>>
  BY <1>1, <1>3, EmptySeq
<1>. QED  BY <1>1, <1>4, HeadTailOfSubSeq

(***************************************************************************)
(* The length and the elements of a suffix.                                 *)
(***************************************************************************)
LEMMA SuffixElements ==
  ASSUME NEW S, NEW s \in Seq(S),
         NEW n \in Nat, Len(s) = n, NEW i \in 1 .. n + 1
  PROVE  /\ SubSeq(s, i, n) \in Seq(S)
         /\ Len(SubSeq(s, i, n)) = n + 1 - i
         /\ \A j \in 1 .. n + 1 - i : SubSeq(s, i, n)[j] = s[i + j - 1]
<1>1. \A j \in i .. n : s[j] \in S
  BY ElementOfSeq
<1>2. /\ SubSeq(s, i, n) \in Seq(S)
      /\ Len(SubSeq(s, i, n)) = IF i <= n THEN n - i + 1 ELSE 0
      /\ \A j \in 1 .. n - i + 1 : SubSeq(s, i, n)[j] = s[i + j - 1]
  BY <1>1, i \in Int, n \in Int, SubSeqProperties
<1>. QED  BY <1>2

(***************************************************************************)
(* An element appended to a sequence is appended to every suffix of it.     *)
(***************************************************************************)
LEMMA SuffixAppend ==
  ASSUME NEW S, NEW s \in Seq(S), NEW e \in S,
         NEW n \in Nat, Len(s) = n, NEW i \in 1 .. n + 1
  PROVE  SubSeq(Append(s, e), i, n + 1) = Append(SubSeq(s, i, n), e)
<1>. DEFINE t == Append(s, e)
            l == SubSeq(t, i, n + 1)
            u == SubSeq(s, i, n)
            r == Append(u, e)
<1>1. /\ t \in Seq(S) /\ Len(t) = n + 1
      /\ \A j \in 1 .. n : t[j] = s[j]
      /\ t[n + 1] = e
  BY AppendProperties
<1>2. /\ u \in Seq(S) /\ Len(u) = n + 1 - i
      /\ \A j \in 1 .. n + 1 - i : u[j] = s[i + j - 1]
  BY SuffixElements
<1>. HIDE DEF t
<1>3. /\ l \in Seq(S) /\ Len(l) = n + 2 - i
      /\ \A j \in 1 .. n + 2 - i : l[j] = t[i + j - 1]
  <2>1. n + 1 \in Nat /\ i \in 1 .. (n + 1) + 1
    OBVIOUS
  <2>. HIDE DEF l
  <2>2. /\ l \in Seq(S) /\ Len(l) = (n + 1) + 1 - i
        /\ \A j \in 1 .. (n + 1) + 1 - i : l[j] = t[i + j - 1]
    BY <1>1, <2>1, SuffixElements DEF l
  <2>. QED  BY <2>2
<1>. HIDE DEF l, u
<1>4. /\ r \in Seq(S) /\ Len(r) = Len(u) + 1
      /\ \A j \in 1 .. Len(u) : r[j] = u[j]
      /\ r[Len(u) + 1] = e
  <2>1. \A v \in Seq(S) :
          /\ Append(v, e) \in Seq(S) /\ Len(Append(v, e)) = Len(v) + 1
          /\ \A j \in 1 .. Len(v) : Append(v, e)[j] = v[j]
          /\ Append(v, e)[Len(v) + 1] = e
    BY AppendProperties
  <2>. QED  BY <1>2, <2>1, Zenon
<1>. HIDE DEF r
<1>5. PICK m \in Nat : m = n + 1 - i
  OBVIOUS
<1>6. /\ Len(u) = m /\ Len(l) = m + 1 /\ Len(r) = m + 1
  BY <1>2, <1>3, <1>4, <1>5
<1>7. ASSUME NEW j \in 1 .. m + 1
      PROVE  l[j] = r[j]
  <2>1. l[j] = t[i + j - 1]
    BY <1>3, <1>5
  <2>2. CASE j = m + 1
    <3>1. l[j] = t[n + 1] /\ r[j] = e
      BY <1>4, <1>5, <1>6, <2>1, <2>2, i + j - 1 = n + 1
    <3>. QED  BY <1>1, <3>1
  <2>3. CASE j # m + 1
    <3>1. j \in 1 .. m /\ i + j - 1 \in 1 .. n
      BY <1>5, <2>3
    <3>2. t[i + j - 1] = s[i + j - 1] /\ u[j] = s[i + j - 1]
      BY <1>1, <1>2, <1>5, <3>1
    <3>3. r[j] = u[j]
      BY <1>4, <1>6, <3>1
    <3>. QED  BY <2>1, <3>2, <3>3
  <2>. QED  BY <2>2, <2>3
<1>8. l = r
  <2>1. \A j \in 1 .. Len(l) : l[j] = r[j]
    BY <1>6, <1>7
  <2>2. Len(l) = Len(r)
    BY <1>6
  <2>. QED  BY <1>3, <1>4, <2>1, <2>2, SeqEqual
<1>. QED  BY <1>8 DEF l, r, u, t

(***************************************************************************)
(* The channel's queue holds, in order, the numbers of the requests the PLC *)
(* received.                                                                *)
(***************************************************************************)
Queued == [no : Nat \ {0}, req : {"request"}, whole : BOOLEAN]

InChannel(r) == [no |-> r.no, req |-> "request", whole |-> r.whole]

Requested(s) == [i \in DOMAIN s |-> InChannel(s[i])]

LEMMA RequestedElements ==
  ASSUME NEW s \in Seq(Received), NEW n \in Nat, Len(s) = n
  PROVE  /\ Requested(s) \in Seq(Queued)
         /\ Len(Requested(s)) = n
         /\ \A i \in 1 .. n : Requested(s)[i] = InChannel(s[i])
<1>1. DOMAIN s = 1 .. n
  BY LenProperties
<1>2. \A i \in 1 .. n : s[i] \in Received
  BY ElementOfSeq
<1>3. Requested(s) \in [1 .. n -> Queued]
  BY <1>1, <1>2 DEF Requested, Queued, InChannel, Received
<1>4. Requested(s) \in Seq(Queued)
  BY <1>3, SeqDef
<1>5. DOMAIN Requested(s) = 1 .. n
  BY <1>3
<1>6. Len(Requested(s)) = n
  BY <1>4, <1>5, LenProperties
<1>. QED  BY <1>1, <1>4, <1>6 DEF Requested

(***************************************************************************)
(* A request delivered is queued behind those before it.                    *)
(***************************************************************************)
LEMMA RequestedAppend ==
  ASSUME NEW s \in Seq(Received), NEW c \in Received
  PROVE  Requested(Append(s, c))
           = Append(Requested(s), InChannel(c))
<1>. DEFINE e == InChannel(c)
            a == Append(Requested(s), e)
            t == Append(s, c)
<1>1. PICK n \in Nat : Len(s) = n
  BY LenProperties
<1>2. e \in Queued
  BY DEF Queued, Received, InChannel
<1>3. /\ t \in Seq(Received) /\ Len(t) = n + 1
      /\ \A i \in 1 .. n : t[i] = s[i]
      /\ t[n + 1] = c
  BY <1>1, AppendProperties
<1>4. /\ Requested(s) \in Seq(Queued) /\ Len(Requested(s)) = n
      /\ \A i \in 1 .. n : Requested(s)[i] = InChannel(s[i])
  BY <1>1, RequestedElements
<1>. HIDE DEF e, t
<1>5. /\ Requested(t) \in Seq(Queued) /\ Len(Requested(t)) = n + 1
      /\ \A i \in 1 .. n + 1 :
           Requested(t)[i] = InChannel(t[i])
  BY <1>3, n + 1 \in Nat, RequestedElements
<1>6. /\ a \in Seq(Queued) /\ Len(a) = n + 1
      /\ \A i \in 1 .. n : a[i] = Requested(s)[i]
      /\ a[n + 1] = e
  BY <1>2, <1>4, AppendProperties
<1>. HIDE DEF a
<1>7. ASSUME NEW i \in 1 .. n + 1
      PROVE  Requested(t)[i] = a[i]
  <2>1. Requested(t)[i] = InChannel(t[i])
    BY <1>5
  <2>2. CASE i = n + 1
    BY <1>3, <1>6, <2>1, <2>2 DEF e
  <2>3. CASE i # n + 1
    <3>1. i \in 1 .. n
      BY <2>3
    <3>. QED  BY <1>3, <1>4, <1>6, <2>1, <3>1
  <2>. QED  BY <2>2, <2>3
<1>8. Requested(t) = a
  <2>1. \A i \in 1 .. Len(Requested(t)) : Requested(t)[i] = a[i]
    BY <1>5, <1>7
  <2>. QED  BY <1>5, <1>6, <2>1, SeqEqual
<1>. QED  BY <1>8 DEF a, e, t

(***************************************************************************)
(* A PLC that answers the first of k requests drops k from the queue.       *)
(***************************************************************************)
LEMMA RequestedSuffix ==
  ASSUME NEW s \in Seq(Received), NEW n \in Nat, Len(s) = n, NEW k \in 1 .. n
  PROVE  Requested(SubSeq(s, k + 1, n)) = SubSeq(Requested(s), k + 1, n)
<1>. DEFINE t == SubSeq(s, k + 1, n)
            d == SubSeq(Requested(s), k + 1, n)
<1>1. PICK m \in Nat : m = n - k
  OBVIOUS
<1>2. /\ Requested(s) \in Seq(Queued) /\ Len(Requested(s)) = n
      /\ \A i \in 1 .. n : Requested(s)[i] = InChannel(s[i])
  BY RequestedElements
<1>3. /\ t \in Seq(Received) /\ Len(t) = m
      /\ \A i \in 1 .. m : t[i] = s[k + i]
  BY <1>1, DropFirst
<1>4. /\ d \in Seq(Queued) /\ Len(d) = m
      /\ \A i \in 1 .. m : d[i] = Requested(s)[k + i]
  BY <1>1, <1>2, DropFirst
<1>. HIDE DEF t, d
<1>5. /\ Requested(t) \in Seq(Queued) /\ Len(Requested(t)) = m
      /\ \A i \in 1 .. m : Requested(t)[i] = InChannel(t[i])
  BY <1>3, RequestedElements
<1>6. ASSUME NEW i \in 1 .. m
      PROVE  Requested(t)[i] = d[i]
  <2>1. k + i \in 1 .. n
    BY <1>1
  <2>. QED  BY <1>2, <1>3, <1>4, <1>5, <2>1
<1>7. Requested(t) = d
  <2>1. \A i \in 1 .. Len(Requested(t)) : Requested(t)[i] = d[i]
    BY <1>5, <1>6
  <2>. QED  BY <1>4, <1>5, <2>1, SeqEqual
<1>. QED  BY <1>7 DEF t, d

-----------------------------------------------------------------------------
(***************************************************************************)
(* What a step of the channel reads of the stream: where the first frame    *)
(* nobody has taken is, and that a frame handed out is one that was sent.   *)
(***************************************************************************)
LEMMA Unread ==
  ASSUME Inv, ~cut
  PROVE  /\ FirstUnread \in 1 .. Len(sent) + 1
         /\ outcome.kind = "ok" => outcome.start.frame \in 1 .. Len(sent)
<1>1. /\ Len(sent) \in Nat /\ pos.frame \in Nat \ {0} /\ pos.offset \in Nat
      /\ from.frame \in Nat \ {0} /\ outcome.start.frame \in Nat \ {0}
  BY LenProperties DEF Inv, StreamInv, TypeOK, Position
<1>2. pos.frame <= Len(sent) + 1
  BY <1>1 DEF Inv, StreamInv, PosInStream
<1>3. call = "header" => from.frame = pos.frame
  BY DEF Inv, InHeader
<1>4. call = "body" => from.frame <= Len(sent)
  BY DEF Inv, InBody
<1>5. outcome.kind = "ok" => outcome.start.frame <= Len(sent)
  BY DEF Inv, HandedOut
<1>6. FirstUnread \in 1 .. Len(sent) + 1
  <2>1. CASE call = "header"
    BY <1>1, <1>2, <1>3, <2>1 DEF FirstUnread, Reading
  <2>2. CASE call = "body"
    BY <1>1, <1>4, <2>2 DEF FirstUnread, Reading
  <2>3. CASE call \notin Reading
    BY <1>1, <1>2, <2>3 DEF FirstUnread
  <2>. QED  BY <2>1, <2>2, <2>3 DEF Reading
<1>. QED  BY <1>1, <1>5, <1>6

(***************************************************************************)
(* The steps the channel does not see.                                      *)
(***************************************************************************)
LEMMA StutterStep ==
  ASSUME ReadByte \/ HeaderDone \/ Disconnect \/ PlcGone \/ UNCHANGED vars
  PROVE  UNCHANGED Chan!chanVars
<1>1. /\ UNCHANGED <<plcIn, sent, from, cur, outcome, abandoned, cut>>
      /\ \/ call' = call
         \/ call \in Reading /\ call' \in Reading
      /\ call \notin Reading => pos' = pos
  BY DEF ReadByte, HeaderDone, Disconnect, PlcGone, vars, plcVars, readVars,
         Reading
<1>2. UNCHANGED <<ChanPhase, FirstUnread>>
  BY <1>1 DEF ChanPhase, FirstUnread, Reading
<1>3. UNCHANGED <<ChanQueue, ChanTaken, ChanUnread>>
  BY <1>1, <1>2 DEF ChanQueue, ChanTaken, ChanUnread
<1>. QED  BY <1>1, <1>2, <1>3 DEF Chan!chanVars

(***************************************************************************)
(* An exchange starts: its request is being sent.                           *)
(***************************************************************************)
LEMMA SendStep ==
  ASSUME StartExchange
  PROVE  Chan!Send("request")
<1>1. /\ call = "idle" /\ call' = "write" /\ cur' = cur + 1
      /\ UNCHANGED <<plcIn, sent, pos, outcome, abandoned, cut>>
  BY DEF StartExchange, plcVars, readVars
<1>2. ChanPhase = "idle" /\ ChanPhase' = "sending" /\ FirstUnread' = FirstUnread
  BY <1>1 DEF ChanPhase, FirstUnread, Reading
<1>3. UNCHANGED <<ChanQueue, ChanTaken, ChanUnread>>
  BY <1>1, <1>2 DEF ChanQueue, ChanTaken, ChanUnread
<1>. QED  BY <1>1, <1>2, <1>3 DEF Chan!Send

(***************************************************************************)
(* A request delivered joins the channel's queue, or the PLC never gets it. *)
(***************************************************************************)
LEMMA QueueStep ==
  ASSUME TypeOK, cur # 0, DeliverSome
  PROVE  /\ ChanQueue' \in {ChanQueue, Chan!Delivered(TRUE), Chan!Delivered(FALSE)}
         /\ Deliver(TRUE) => ChanQueue' \in {ChanQueue, Chan!Delivered(TRUE)}
<1>1. CASE UNCHANGED plcIn
  BY <1>1 DEF ChanQueue
<1>2. ASSUME NEW whole \in BOOLEAN,
             plcIn' = Append(plcIn, [no |-> cur, whole |-> whole])
      PROVE  ChanQueue' = Chan!Delivered(whole)
  <2>. DEFINE r == [no |-> cur, whole |-> whole]
  <2>1. plcIn \in Seq(Received) /\ r \in Received
    BY DEF TypeOK, Received
  <2>2. InChannel(r) = [no |-> cur, req |-> "request", whole |-> whole]
    BY DEF InChannel
  <2>. HIDE DEF r
  <2>3. Requested(Append(plcIn, r)) = Append(Requested(plcIn), InChannel(r))
    BY <2>1, RequestedAppend
  <2>4. /\ ChanQueue = Requested(plcIn)
        /\ ChanQueue' = Requested(plcIn')
    BY DEF ChanQueue, Requested, InChannel
  <2>5. plcIn' = Append(plcIn, r)
    BY <1>2 DEF r
  <2>. QED  BY <2>2, <2>3, <2>4, <2>5 DEF Chan!Delivered
<1>. QED  BY <1>1, <1>2 DEF DeliverSome, Deliver

(***************************************************************************)
(* A request is written and its response is waited for.                     *)
(***************************************************************************)
LEMMA WrittenStep ==
  ASSUME Inv, WriteDone
  PROVE  Chan!Written
<1>1. /\ call = "write" /\ call' = "header" /\ from' = pos /\ pos' = pos
      /\ UNCHANGED <<sent, cur, outcome, abandoned, cut>>
      /\ Deliver(TRUE)
  BY DEF WriteDone
<1>2. /\ ChanPhase = "sending" /\ ChanPhase' = "waiting"
      /\ FirstUnread' = FirstUnread
  BY <1>1 DEF ChanPhase, FirstUnread, Reading
<1>3. TypeOK /\ cur # 0
  BY <1>1 DEF Inv, StreamInv, TypeOK
<1>4. ChanQueue' \in {ChanQueue, Chan!Delivered(TRUE)}
  BY <1>1, <1>3, QueueStep DEF DeliverSome
<1>5. UNCHANGED <<ChanTaken, ChanUnread>>
  BY <1>1, <1>2 DEF ChanTaken, ChanUnread
<1>. QED  BY <1>1, <1>2, <1>4, <1>5 DEF Chan!Written

(***************************************************************************)
(* An exchange that ends without a frame is a failed one of the channel.    *)
(***************************************************************************)
LEMMA FailedStep ==
  ASSUME NEW kind \in Endings \ {"ok"}, Return(kind), UNCHANGED cur
  PROVE  Chan!Failed
<1>1. /\ call' = "idle" /\ outcome'.kind = kind /\ abandoned' = abandoned + 1
  BY DEF Return
<1>2. ChanPhase' = "idle" /\ ChanTaken' = 0
  BY <1>1 DEF ChanPhase, ChanTaken
<1>. QED  BY <1>1, <1>2 DEF Chan!Failed

(***************************************************************************)
(* The write fails or is interrupted.                                       *)
(***************************************************************************)
LEMMA SendFailsStep ==
  ASSUME Inv, NEW kind \in Endings \ {"ok"}, call = "write", Return(kind),
         DeliverSome, UNCHANGED <<sent, pos, cur, cut>>
  PROVE  Chan!SendFails
<1>1. call' = "idle"
  BY DEF Return
<1>2. ChanPhase = "sending" /\ FirstUnread' = FirstUnread
  BY <1>1 DEF ChanPhase, FirstUnread, Reading
<1>3. TypeOK /\ cur # 0
  BY DEF Inv, StreamInv, TypeOK
<1>4. ChanQueue' \in {ChanQueue, Chan!Delivered(TRUE), Chan!Delivered(FALSE)}
  BY <1>3, QueueStep
<1>5. UNCHANGED <<ChanUnread, cut>>
  BY <1>2 DEF ChanUnread
<1>6. Chan!Failed
  BY FailedStep
<1>. QED  BY <1>2, <1>4, <1>5, <1>6 DEF Chan!SendFails

(***************************************************************************)
(* A read returns its frame: the oldest response is taken, or, on a stream  *)
(* out of step, bytes that are no response.                                 *)
(***************************************************************************)
LEMMA TakeStep ==
  ASSUME Inv, BodyDone
  PROVE  Chan!Take \/ Chan!TakeGarbage
<1>1. /\ call = "body" /\ need = 0 /\ call' = "idle"
      /\ outcome'.kind = "ok" /\ outcome'.start = from
      /\ abandoned' = abandoned
      /\ UNCHANGED <<plcIn, sent, pos, from, cur, cut>>
  BY DEF BodyDone, Return, plcVars, readVars
<1>2. ChanPhase = "waiting" /\ ChanPhase' = "idle" /\ UNCHANGED ChanQueue
  BY <1>1 DEF ChanPhase, ChanQueue
<1>3. CASE cut
  <2>1. ChanTaken' = 0 /\ UNCHANGED ChanUnread
    BY <1>1, <1>3 DEF ChanTaken, ChanUnread
  <2>. QED  BY <1>1, <1>2, <1>3, <2>1 DEF Chan!TakeGarbage
<1>4. CASE ~cut
  <2>1. /\ from.frame \in 1 .. Len(sent)
        /\ pos = [frame |-> from.frame + 1, offset |-> 0]
    BY <1>1, <1>4, Unread DEF Inv, InBody, FirstUnread, StreamInv, TypeOK,
                              Position, Reading
  <2>2. sent \in Seq(Numbered)
    BY DEF Inv, StreamInv, TypeOK
  <2>3. /\ ChanUnread = SubSeq(sent, from.frame, Len(sent))
        /\ ChanUnread' = SubSeq(sent, from.frame + 1, Len(sent))
    BY <1>1, <1>4, <2>1 DEF ChanUnread, FirstUnread, Reading
  <2>4. /\ ChanUnread # <<>>
        /\ Head(ChanUnread) = sent[from.frame]
        /\ ChanUnread' = Tail(ChanUnread)
    BY <2>1, <2>2, <2>3, SuffixHead
  <2>5. ChanTaken' = Head(ChanUnread).no
    BY <1>1, <1>4, <2>4 DEF ChanTaken
  <2>. QED  BY <1>1, <1>2, <1>4, <2>4, <2>5 DEF Chan!Take
<1>. QED  BY <1>3, <1>4

(***************************************************************************)
(* A read ends without a frame: before the first byte of one, behind the    *)
(* last, or inside one, and then the stream is out of step.                 *)
(***************************************************************************)
LEMMA ReceiveFailsStep ==
  ASSUME Inv, NEW kind \in Endings \ {"ok"}, call \in Reading, Return(kind),
         cut' = (cut \/ pos.offset # 0), UNCHANGED <<plcIn, sent, pos, cur>>
  PROVE  Chan!ReceiveFails
<1>1. call' = "idle"
  BY DEF Return
<1>2. ChanPhase = "waiting" /\ UNCHANGED ChanQueue
  BY DEF ChanPhase, ChanQueue, Reading
<1>3. Chan!Failed
  BY FailedStep
<1>4. \/ UNCHANGED <<ChanUnread, cut>>
      \/ ChanUnread # <<>> /\ ChanUnread' = Tail(ChanUnread) /\ UNCHANGED cut
      \/ cut' = TRUE /\ ChanUnread' = <<>>
  <2>1. CASE cut
    <3>1. cut' = TRUE
      BY <2>1
    <3>. QED  BY <3>1 DEF ChanUnread
  <2>2. CASE ~cut /\ pos.offset # 0
    <3>1. cut' = TRUE
      BY <2>2
    <3>. QED  BY <3>1 DEF ChanUnread
  <2>3. CASE ~cut /\ pos.offset = 0
    <3>1. cut' = FALSE /\ cut = FALSE
      BY <2>3 DEF Inv, StreamInv, TypeOK
    <3>2. /\ ChanUnread = SubSeq(sent, from.frame, Len(sent))
          /\ ChanUnread' = SubSeq(sent, pos.frame, Len(sent))
      BY <1>1, <3>1 DEF ChanUnread, FirstUnread, Reading
    <3>3. CASE call = "header"
      <4>1. pos.frame = from.frame
        BY <2>3, <3>3 DEF Inv, InHeader
      <4>. QED  BY <3>1, <3>2, <4>1
    <3>4. CASE call = "body"
      <4>1. from.frame \in 1 .. Len(sent) /\ sent \in Seq(Numbered)
            /\ need \in Nat
        BY <2>3, <3>4, Unread DEF Inv, InBody, FirstUnread, StreamInv, TypeOK,
                                  Position, Reading
      <4>2. FrameLen(from.frame) \in Nat
        BY <4>1, SentFrame DEF Inv, StreamInv
      <4>3. need = 0
        <5>1. SUFFICES ASSUME need > 0  PROVE FALSE
          BY <4>1
        <5>2. /\ need < FrameLen(from.frame)
              /\ pos.offset = FrameLen(from.frame) - need
          BY <2>3, <3>4, <5>1 DEF Inv, InBody
        <5>. QED  BY <2>3, <4>1, <4>2, <5>2
      <4>4. pos.frame = from.frame + 1
        BY <2>3, <3>4, <4>3 DEF Inv, InBody
      <4>5. ChanUnread # <<>> /\ ChanUnread' = Tail(ChanUnread)
        BY <3>2, <4>1, <4>4, SuffixHead
      <4>. QED  BY <3>1, <4>5
    <3>. QED  BY <3>3, <3>4 DEF Reading
  <2>. QED  BY <2>1, <2>2, <2>3
<1>. QED  BY <1>2, <1>3, <1>4 DEF Chan!ReceiveFails

(***************************************************************************)
(* A header the reader refuses leaves the channel as it is, out of step.    *)
(***************************************************************************)
LEMMA RefusedStep ==
  ASSUME Inv, Inv', BadTpkt \/ BadLength
  PROVE  Chan!ReceiveFails
<1>1. PICK kind \in {"bad_tpkt", "bad_length"} : Return(kind)
  BY DEF BadTpkt, BadLength
<1>2. /\ call \in Reading
      /\ UNCHANGED <<plcIn, sent, pos, cur, cut>>
  BY DEF BadTpkt, BadLength, plcVars, readVars, Reading
<1>3. cut
  <2>1. outcome'.kind \in {"bad_tpkt", "bad_length"}
    BY <1>1 DEF Return
  <2>. QED  BY <1>2, <2>1 DEF Inv, HandedOut
<1>4. cut' = (cut \/ pos.offset # 0)
  BY <1>2, <1>3
<1>. QED  BY <1>1, <1>2, <1>4, ReceiveFailsStep DEF Endings

(***************************************************************************)
(* The PLC's answer is appended to what nobody has taken.                   *)
(***************************************************************************)
LEMMA AnswerStep ==
  ASSUME Inv, NEW k, NEW frame \in Frames, PlcAnswers(k, frame)
  PROVE  k \in DOMAIN ChanQueue /\ Chan!Answer(k, frame)
<1>. DEFINE e == [no |-> plcIn[1].no, resp |-> frame]
<1>1. /\ plcIn \in Seq(Received) /\ sent \in Seq(Numbered) /\ TypeOK
      /\ k \in 1 .. Len(plcIn)
      /\ sent' = Append(sent, e)
      /\ plcIn' = SubSeq(plcIn, k + 1, Len(plcIn))
      /\ UNCHANGED <<pos, from, call, cur, outcome, abandoned, cut>>
  BY DEF Inv, StreamInv, TypeOK, PlcAnswers, readVars
<1>2. PICK n \in Nat : Len(plcIn) = n
  BY <1>1, LenProperties
<1>3. PICK m \in Nat : Len(sent) = m
  BY <1>1, LenProperties
<1>4. /\ ChanQueue = Requested(plcIn)
      /\ ChanQueue' = Requested(plcIn')
  BY DEF ChanQueue, Requested, InChannel
<1>5. /\ Requested(plcIn) \in Seq(Queued) /\ Len(ChanQueue) = n
      /\ \A i \in 1 .. n : ChanQueue[i] = InChannel(plcIn[i])
  BY <1>1, <1>2, <1>4, RequestedElements
<1>6. 1 \in 1 .. n
  BY <1>1, <1>2
<1>7. ChanQueue[1].no = plcIn[1].no
  BY <1>5, <1>6 DEF InChannel
<1>8. DOMAIN ChanQueue = 1 .. Len(ChanQueue)
  BY <1>4, <1>5, LenProperties
<1>9. ChanQueue' = SubSeq(ChanQueue, k + 1, Len(ChanQueue))
  BY <1>1, <1>2, <1>4, <1>5, RequestedSuffix
<1>10. e \in Numbered
  <2>1. plcIn[1] \in Received
    BY <1>1, <1>2, <1>6, ElementOfSeq
  <2>. QED  BY <1>1, <2>1 DEF Numbered, Received
<1>. HIDE DEF e
<1>11. UNCHANGED <<ChanPhase, FirstUnread>>
  BY <1>1 DEF ChanPhase, FirstUnread
<1>12. ChanUnread' = IF cut THEN ChanUnread ELSE Append(ChanUnread, e)
  <2>1. CASE cut
    BY <1>1, <2>1 DEF ChanUnread
  <2>2. CASE ~cut
    <3>1. FirstUnread \in 1 .. m + 1
      BY <1>3, <2>2, Unread
    <3>2. Len(sent') = m + 1
      BY <1>1, <1>3, <1>10, AppendProperties
    <3>3. SubSeq(Append(sent, e), FirstUnread, m + 1)
            = Append(SubSeq(sent, FirstUnread, m), e)
      BY <1>1, <1>3, <1>10, <3>1, SuffixAppend
    <3>. QED  BY <1>1, <1>3, <1>11, <2>2, <3>2, <3>3 DEF ChanUnread
  <2>. QED  BY <2>1, <2>2
<1>13. UNCHANGED ChanTaken
  <2>1. CASE cut \/ outcome.kind # "ok"
    BY <1>1, <2>1 DEF ChanTaken
  <2>2. CASE ~cut /\ outcome.kind = "ok"
    <3>1. outcome.start.frame \in 1 .. m
      BY <1>3, <2>2, Unread
    <3>2. sent'[outcome.start.frame] = sent[outcome.start.frame]
      BY <1>1, <1>3, <1>10, <3>1, AppendProperties
    <3>. QED  BY <1>1, <2>2, <3>2 DEF ChanTaken
  <2>. QED  BY <2>1, <2>2
<1>14. k \in 1 .. Len(ChanQueue) /\ k \in DOMAIN ChanQueue
  BY <1>1, <1>2, <1>5, <1>8
<1>15. ChanUnread' = IF cut THEN ChanUnread
                     ELSE Append(ChanUnread, [no |-> ChanQueue[1].no,
                                              resp |-> frame])
  BY <1>7, <1>12 DEF e
<1>. QED
  BY <1>1, <1>9, <1>11, <1>13, <1>14, <1>15 DEF Chan!Answer

(***************************************************************************)
(* A torn request the PLC makes nothing of is dropped with those behind it. *)
(***************************************************************************)
LEMMA OverlookStep ==
  ASSUME Inv, NEW k, PlcOverlooks(k)
  PROVE  k \in DOMAIN ChanQueue /\ Chan!Overlook(k)
<1>1. /\ plcIn \in Seq(Received)
      /\ k \in 1 .. Len(plcIn)
      /\ ~plcIn[1].whole
      /\ plcIn' = SubSeq(plcIn, k + 1, Len(plcIn))
      /\ UNCHANGED <<sent, pos, from, call, cur, outcome, abandoned, cut>>
  BY DEF Inv, StreamInv, TypeOK, PlcOverlooks, readVars
<1>2. PICK n \in Nat : Len(plcIn) = n
  BY <1>1, LenProperties
<1>3. /\ ChanQueue = Requested(plcIn)
      /\ ChanQueue' = Requested(plcIn')
  BY DEF ChanQueue, Requested, InChannel
<1>4. /\ Requested(plcIn) \in Seq(Queued) /\ Len(ChanQueue) = n
      /\ \A i \in 1 .. n : ChanQueue[i] = InChannel(plcIn[i])
  BY <1>1, <1>2, <1>3, RequestedElements
<1>5. ~ChanQueue[1].whole
  BY <1>1, <1>2, <1>4, 1 \in 1 .. n DEF InChannel
<1>6. ChanQueue' = SubSeq(ChanQueue, k + 1, Len(ChanQueue))
  BY <1>1, <1>2, <1>3, <1>4, RequestedSuffix
<1>7. k \in 1 .. Len(ChanQueue) /\ k \in DOMAIN ChanQueue
  BY <1>1, <1>2, <1>3, <1>4, LenProperties
<1>8. UNCHANGED <<ChanPhase, ChanUnread, ChanTaken>>
  BY <1>1 DEF ChanPhase, ChanUnread, ChanTaken, FirstUnread
<1>. QED  BY <1>1, <1>5, <1>6, <1>7, <1>8 DEF Chan!Overlook

(***************************************************************************)
(* The first state of the transport is one of the channel.                  *)
(***************************************************************************)
LEMMA ChanInitial ==
  ASSUME Init
  PROVE  Chan!ChanInit
<1>1. /\ plcIn = <<>> /\ sent = <<>> /\ call = "idle" /\ cut = FALSE
      /\ pos.frame = 1 /\ outcome.kind = "none" /\ cur = 0 /\ abandoned = 0
  BY DEF Init, Start
<1>2. ChanPhase = "idle" /\ ChanTaken = 0
  BY <1>1 DEF ChanPhase, ChanTaken
<1>3. ChanQueue = <<>>
  <2>1. plcIn \in Seq(Received) /\ Len(plcIn) = 0
    BY <1>1, EmptySeq
  <2>2. Requested(plcIn) \in Seq(Queued) /\ Len(Requested(plcIn)) = 0
    BY <2>1, 0 \in Nat, RequestedElements
  <2>. QED  BY <2>2, EmptySeq DEF ChanQueue, Requested, InChannel
<1>4. ChanUnread = <<>>
  <2>1. FirstUnread = 1 /\ Len(sent) = 0
    BY <1>1, EmptySeq DEF FirstUnread, Reading
  <2>2. SubSeq(sent, 1, 0) = <<>>
    BY SubSeqEmpty
  <2>. QED  BY <1>1, <2>1, <2>2 DEF ChanUnread
<1>. QED  BY <1>1, <1>2, <1>3, <1>4 DEF Chan!ChanInit

(***************************************************************************)
(* Every step is a step of the channel or none.                             *)
(***************************************************************************)
LEMMA ChanStep ==
  ASSUME Inv, Inv', [Next]_vars
  PROVE  [Chan!ChanNext]_(Chan!chanVars)
<1>1. CASE StartExchange
  <2>1. Chan!Send("request")
    BY <1>1, SendStep
  <2>. QED  BY <2>1 DEF Chan!ChanNext
<1>2. CASE WriteDone
  BY <1>2, WrittenStep DEF Chan!ChanNext
<1>3. CASE WriteFails
  <2>1. Chan!SendFails
    BY <1>3, SendFailsStep DEF WriteFails, Endings, readVars
  <2>. QED  BY <2>1 DEF Chan!ChanNext
<1>4. ASSUME NEW why \in {"timeout", "cancelled"}, WriteInterrupted(why)
      PROVE  Chan!ChanNext
  <2>1. Chan!SendFails
    BY <1>4, SendFailsStep DEF WriteInterrupted, Endings, readVars
  <2>. QED  BY <2>1 DEF Chan!ChanNext
<1>5. CASE BadTpkt \/ BadLength
  <2>1. Chan!ReceiveFails
    BY <1>5, RefusedStep
  <2>. QED  BY <2>1 DEF Chan!ChanNext
<1>6. CASE BodyDone
  BY <1>6, TakeStep DEF Chan!ChanNext
<1>7. CASE ReadFails
  <2>1. Chan!ReceiveFails
    BY <1>7, ReceiveFailsStep DEF ReadFails, LeaveStream, Endings, plcVars,
                                  readVars
  <2>. QED  BY <2>1 DEF Chan!ChanNext
<1>8. ASSUME NEW why \in {"timeout", "cancelled"}, ReadInterrupted(why)
      PROVE  Chan!ChanNext
  <2>1. Chan!ReceiveFails
    BY <1>8, ReceiveFailsStep DEF ReadInterrupted, LeaveStream, Endings,
                                  plcVars, readVars
  <2>. QED  BY <2>1 DEF Chan!ChanNext
<1>9. ASSUME NEW k, NEW frame \in Frames, PlcAnswers(k, frame)
      PROVE  Chan!ChanNext
  <2>1. k \in DOMAIN ChanQueue /\ Chan!Answer(k, frame)
    BY <1>9, AnswerStep
  <2>. QED  BY <2>1 DEF Chan!ChanNext
<1>10. ASSUME NEW k, PlcOverlooks(k)
       PROVE  Chan!ChanNext
  <2>1. k \in DOMAIN ChanQueue /\ Chan!Overlook(k)
    BY <1>10, OverlookStep
  <2>. QED  BY <2>1 DEF Chan!ChanNext
<1>11. CASE ReadByte \/ HeaderDone \/ Disconnect \/ PlcGone \/ UNCHANGED vars
  BY <1>11, StutterStep
<1>. QED
  BY <1>1, <1>2, <1>3, <1>4, <1>5, <1>6, <1>7, <1>8, <1>9, <1>10, <1>11
  DEF Next, Timeout, Cancel

(***************************************************************************)
(* TcpConnection over a byte stream is the channel S7Channel promises the   *)
(* client: for every set of well-formed frames, every segmentation, every   *)
(* instant a timer can fire and any number of exchanges.                    *)
(***************************************************************************)
THEOREM TransportImplementsChannel == Spec => ImplementsChannel
<1>1. Init => Chan!ChanInit
  BY ChanInitial
<1>2. Inv /\ Inv' /\ [Next]_vars => [Chan!ChanNext]_(Chan!chanVars)
  BY ChanStep
<1>. QED
  BY <1>1, <1>2, InvCorrect, PTL DEF Spec, ImplementsChannel, Chan!ChanSpec
-----------------------------------------------------------------------------
\* What is proved of the channel, of the channel that the byte stream is.
Channel == INSTANCE S7ChannelProofs WITH
  Requests  <- {"request"},
  Responses <- Frames,
  phase     <- ChanPhase,
  seqno     <- cur,
  request   <- "request",
  queue     <- ChanQueue,
  unread    <- ChanUnread,
  garbled   <- cut,
  taken     <- ChanTaken,
  failures  <- abandoned

\* Chan of S7Transport and Channel are the same instance of S7Channel.
LEMMA SameChannel ==
  /\ Chan!ChanInit => Channel!ChanInit
  /\ [Chan!ChanNext]_(Chan!chanVars) => [Channel!ChanNext]_(Channel!chanVars)
<1>1. Chan!ChanInit => Channel!ChanInit
  BY DEF Chan!ChanInit, Channel!ChanInit
<1>2. Chan!ChanNext => Channel!ChanNext
  BY DEF Chan!ChanNext, Channel!ChanNext, Chan!Send, Chan!Written, Chan!SendFails,
         Chan!Take, Chan!ReceiveFails, Chan!TakeGarbage, Chan!Answer, Chan!Overlook, Chan!Delivered, Chan!Failed,
         Channel!Send, Channel!Written, Channel!SendFails, Channel!Take,
         Channel!ReceiveFails, Channel!TakeGarbage, Channel!Answer,
         Channel!Overlook, Channel!Delivered, Channel!Failed
<1>3. UNCHANGED Chan!chanVars => UNCHANGED Channel!chanVars
  BY DEF Chan!chanVars, Channel!chanVars
<1>4. QED
  BY <1>1, <1>2, <1>3

(***************************************************************************)
(* A TcpConnection over a byte stream is therefore a behaviour of the       *)
(* channel that S7ChannelProofs proves about.                               *)
(***************************************************************************)
LEMMA TransportIsChannel == Spec => Channel!ChanSpec
<1>1. Spec => Chan!ChanSpec
  BY TransportImplementsChannel DEF ImplementsChannel
<1>2. Chan!ChanSpec => Channel!ChanSpec
  BY SameChannel, PTL DEF Chan!ChanSpec, Channel!ChanSpec
<1>3. QED
  BY <1>1, <1>2, PTL

(***************************************************************************)
(* The response an exchange returns is never early, and late by no more     *)
(* than the exchanges that failed before it: exchange reads whatever bytes  *)
(* come next and checks no number, and this holds for every set of          *)
(* well-formed frames, every segmentation and every instant a timer fires.  *)
(***************************************************************************)
THEOREM StreamBoundsStaleness == Spec => []StreamStaleness
<1>1. Channel!ChanSpec => []Channel!StalenessBounded
  BY Channel!ResponsesAreBoundedlyStale
<1>2. Channel!StalenessBounded => StreamStaleness
  BY DEF Channel!StalenessBounded, Chan!StalenessBounded, StreamStaleness
<1>3. QED
  BY <1>1, <1>2, TransportIsChannel, PTL

(***************************************************************************)
(* An exchange that returns its own response has left nothing older in the  *)
(* socket's buffers or on the network, on either side.                      *)
(***************************************************************************)
THEOREM StreamInStepAfterOwn == Spec => []StreamInStep
<1>1. Channel!ChanSpec => []Channel!OwnResponseMeansInStep
  BY Channel!InStepAfterOwnResponse
<1>2. Channel!OwnResponseMeansInStep => StreamInStep
  BY DEF Channel!OwnResponseMeansInStep, Chan!OwnResponseMeansInStep, StreamInStep
<1>3. QED
  BY <1>1, <1>2, TransportIsChannel, PTL
=============================================================================
