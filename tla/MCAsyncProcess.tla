---------------------------- MODULE MCAsyncProcess ----------------------------
(* A child that exits with 0 or 3 or is signalled, on each system and with  *)
(* each handler.                                                            *)
EXTENDS AsyncProcess
==============================================================================
