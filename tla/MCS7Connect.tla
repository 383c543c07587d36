----------------------------- MODULE MCS7Connect ----------------------------
(***************************************************************************)
(* An instance of S7Connect: two sockets; a PLC that announces the 480 of   *)
(* the simulator or the 240 of a small S7-1200, in the 28-byte response of  *)
(* the simulator, the 27-byte one of the standard, or a truncated one.      *)
(***************************************************************************)
EXTENDS S7Connect

const_PlcPdus == {240, 480}
const_SetupLens == {21, 27, 28}
=============================================================================
