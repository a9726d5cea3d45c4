------------------------------ MODULE MCMedia ------------------------------
(***************************************************************************)
(* Instances of Media small enough for TLC: a tick of four values, a       *)
(* debounce of one tick and one failing read.  MCMedia.cfg checks what     *)
(* holds, MCMediaWait.cfg the contract of next_wait_ms.                    *)
(***************************************************************************)
EXTENDS Media
=============================================================================
