------------------------------- MODULE S7Wire -------------------------------
(***************************************************************************)
(* The arithmetic of the wire format that the S7 client and its transport  *)
(* share: 16-bit fields, the TPKT header, the chunk sizes of large reads    *)
(* and writes, and the lengths of the frames that carry them.  A frame is   *)
(* a sequence of bytes; MoonBit's data[i] is data[i + 1] here.              *)
(***************************************************************************)
EXTENDS Integers, Sequences

Byte == 0 .. 255

\* A big-endian 16-bit field.
U16(hi, lo) == hi * 256 + lo

-----------------------------------------------------------------------------
(***************************************************************************)
(* TPKT: version 3, a reserved byte, the length of the whole frame.         *)
(***************************************************************************)
TpktLen == 4
TpktVersion == 3
TpktTotal(hdr) == U16(hdr[3], hdr[4])

\* A frame whose header describes it and that carries a COTP header too.
WellFramed(frame) ==
  /\ frame \in Seq(Byte)
  /\ Len(frame) >= TpktLen + 3
  /\ frame[1] = TpktVersion
  /\ TpktTotal(frame) = Len(frame)

-----------------------------------------------------------------------------
(***************************************************************************)
(* Large reads and writes are cut into chunks that fit the negotiated PDU   *)
(* (pdu_size); a PDU that leaves no room falls back to 240 bytes.           *)
(***************************************************************************)
ReadOverhead == 23
WriteOverhead == 35
FallbackChunk == 240

MaxChunk(pdu, overhead) ==
  IF pdu > overhead THEN pdu - overhead ELSE FallbackChunk

Chunk(remaining, maxChunk) ==
  IF remaining > maxChunk THEN maxChunk ELSE remaining

\* The bytes of one write request before its payload, without TPKT: COTP,
\* S7 header, one item, the header of its data.
WriteHeaders == 3 + 10 + 14 + 4
=============================================================================
