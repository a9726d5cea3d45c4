----------------------------- MODULE KeyStores -----------------------------
(***************************************************************************)
(* The wrapped-key store of either board, NOR flash with a commit word or  *)
(* OSPI flash without one.  The two stores share their state and, but for  *)
(* the readback, what they promise: TypeOK, GenerationsAdjacent,           *)
(* NewestUntouched and RegisterSpec of NorKeyStore.                        *)
(***************************************************************************)
EXTENDS NorKeyStore

CONSTANT Pages

ASSUME PagesAssumption == Pages \in Nat \ {0}

VARIABLES
  board,     \* the board the firmware is built for
  written    \* of OspiKeyStore

Ospi == INSTANCE OspiKeyStore

BoardInit ==
  \/ board = "stm32" /\ Init /\ written = 0
  \/ board = "ra8p1" /\ Ospi!Init

BoardNext ==
  /\ UNCHANGED board
  /\ \/ board = "stm32" /\ Next /\ UNCHANGED written
     \/ board = "ra8p1" /\ Ospi!Next

BoardSpec == BoardInit /\ [][BoardNext]_<<vars, board, written>>

\* With the commit word of the NOR store no record is selected that has not
\* been read back (of the OSPI store see MCOspiKeyStore).
NorSelectedWasReadBack == board = "stm32" => SelectedWasReadBack
=============================================================================
