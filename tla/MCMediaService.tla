--------------------------- MODULE MCMediaService ---------------------------
(***************************************************************************)
(* An instance of MediaService small enough for TLC: the shutdown protocol *)
(* with a failing read and a stop that times out, and the liveness of the  *)
(* worker.                                                                 *)
(***************************************************************************)
EXTENDS MediaService
=============================================================================
