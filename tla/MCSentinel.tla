----------------------------- MODULE MCSentinel -----------------------------
(***************************************************************************)
(* Sentinel with counters that saturate at 2 and a window of two features. *)
(* MCSentinel.cfg checks what holds, MCSentinelSaturation.cfg the errors   *)
(* whose saturation is not noticed.                                        *)
(***************************************************************************)
EXTENDS Sentinel
=============================================================================
