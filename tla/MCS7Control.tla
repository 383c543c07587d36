---------------------------- MODULE MCS7Control -----------------------------
(***************************************************************************)
(* An instance of S7Control: list fragments that are too short for          *)
(* cp_info, long enough for it and two of them for cpu_info, or long        *)
(* enough for cpu_info.                                                     *)
(***************************************************************************)
EXTENDS S7Control

const_FragmentLens == {4, 110, 205}
=============================================================================
