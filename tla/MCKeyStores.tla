---------------------------- MODULE MCKeyStores ----------------------------
(***************************************************************************)
(* Either board's store with two keys, two ids, four generations and       *)
(* records of two pages.                                                   *)
(***************************************************************************)
EXTENDS KeyStores
=============================================================================
