---------------------------- MODULE MCSdDrivers ----------------------------
(***************************************************************************)
(* Either board's driver with transfers of at most two chunks or sectors.  *)
(***************************************************************************)
EXTENDS SdDrivers
=============================================================================
