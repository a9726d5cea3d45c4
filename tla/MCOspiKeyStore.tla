--------------------------- MODULE MCOspiKeyStore ---------------------------
(***************************************************************************)
(* OspiKeyStore alone, with one key: what the documentation says of the    *)
(* readback.                                                               *)
(***************************************************************************)
EXTENDS OspiKeyStore
=============================================================================
