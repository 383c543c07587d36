----------------------------- MODULE MCAsyncIo -----------------------------
(* Two bytes to read, a send buffer of one byte, calls of one byte, three   *)
(* calls: an operation can follow a cancelled one, two can be in flight, and *)
(* the send buffer fills.                                                   *)
EXTENDS AsyncIo

MCMaxIn == 2
MCRoom == 1
MCChunk == 1
MCMaxCalls == 3
=============================================================================
