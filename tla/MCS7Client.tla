----------------------------- MODULE MCS7Client -----------------------------
(***************************************************************************)
(* An instance of S7Client: a data block of four bytes; PDU sizes that give *)
(* reads chunks of three bytes (26) and writes chunks of two (37), or no    *)
(* room for a write (26), so that the fallback of 240 applies; a read of    *)
(* the block, a read that runs over its end, whose second chunk is empty,   *)
(* and a write of two chunks.  A MAX_PDU of 33 leaves a write two bytes of  *)
(* payload, so that build_write_pdu refuses the longer fallback chunk.      *)
(* Rubbish is stored at address 1, inside the first read and the write.     *)
(***************************************************************************)
EXTENDS S7Client

const_Calls ==
  {[kind |-> "read",  start |-> 0, len |-> 4],
   [kind |-> "read",  start |-> 2, len |-> 4],
   [kind |-> "write", start |-> 0, len |-> 3]}
=============================================================================
