--------------------------- MODULE MCS7Transport ----------------------------
(***************************************************************************)
(* An instance of S7Transport with two frames of the simulator: the write   *)
(* acknowledgement (build_write_resp, 22 bytes) and a read response of one  *)
(* byte (build_read_resp, 26 bytes), both with the reference 3 the client   *)
(* always uses.                                                             *)
(***************************************************************************)
EXTENDS S7Transport

\* "03 00 00 16 02 F0 80 32 03 00 00 00 03 00 02 00 01 00 00 05 01 FF"
WriteAck == <<3, 0, 0, 22, 2, 240, 128, 50, 3, 0, 0, 0, 3, 0, 2, 0, 1,
              0, 0, 5, 1, 255>>

\* "03 00 00 1A 02 F0 80 32 03 00 00 00 03 00 04 00 05 00 00 00 00 FF 04 00
\* 01 11": one byte of DB200, 0x11.
ReadResp == <<3, 0, 0, 26, 2, 240, 128, 50, 3, 0, 0, 0, 3, 0, 4, 0, 5,
              0, 0, 0, 0, 255, 4, 0, 1, 17>>

const_Frames == {WriteAck, ReadResp}
=============================================================================
