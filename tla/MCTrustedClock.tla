--------------------------- MODULE MCTrustedClock ---------------------------
(***************************************************************************)
(* TrustedClock with three days of three seconds.                          *)
(***************************************************************************)
EXTENDS TrustedClock
=============================================================================
