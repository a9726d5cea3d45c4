------------------------------ MODULE MCSdSpi ------------------------------
(***************************************************************************)
(* SdSpi with one sector to an operation, for what its timeouts break.     *)
(***************************************************************************)
EXTENDS SdSpi
=============================================================================
