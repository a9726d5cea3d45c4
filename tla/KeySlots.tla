------------------------------ MODULE KeySlots ------------------------------
(***************************************************************************)
(* The two flash slots of a wrapped-key store and the choice between them, *)
(* which the STM32 NOR store and the RA8P1 OSPI store have in common.  A   *)
(* slot is erased, holds bytes that do not decode (torn), holds a record   *)
(* without its commit word (written; NOR only), or holds a record that     *)
(* decodes (committed).                                                    *)
(***************************************************************************)
EXTENDS Integers

CONSTANTS
  Keys, Ids, NoKey,
  GenMax            \* the last generation (2^32 - 1)

ASSUME SlotsAssumption ==
  /\ NoKey \notin Keys /\ NoKey \notin Ids
  /\ GenMax \in Nat \ {0}

SlotNumbers == {0, 1}

Record == [generation : 1 .. GenMax, id : Ids, key : Keys]
NoRecord == [generation |-> 0, id |-> NoKey, key |-> NoKey]

Slot ==
  [state : {"erased", "torn"}, record : {NoRecord}]
    \cup [state : {"written", "committed"}, record : Record]

Erased == [state |-> "erased", record |-> NoRecord]
Torn == [state |-> "torn", record |-> NoRecord]
Written(r) == [state |-> "written", record |-> r]
Committed(r) == [state |-> "committed", record |-> r]

\* decode: magic, layout, commit word and CRC.
Decodes(slot) == slot.state = "committed"

\* newest: the slot a load selects, -1 for none.
Newest(slots) ==
  CASE ~Decodes(slots[0]) /\ ~Decodes(slots[1]) -> -1
    [] ~Decodes(slots[0]) /\ Decodes(slots[1]) -> 1
    [] Decodes(slots[0]) /\ ~Decodes(slots[1]) -> 0
    [] OTHER -> IF slots[1].record.generation > slots[0].record.generation
                THEN 1 ELSE 0

\* What a load returns.
Selected(slots) ==
  IF Newest(slots) = -1 THEN NoRecord ELSE slots[Newest(slots)].record

\* Mutant: the selected slot itself is overwritten.
TargetSame(slots) == IF Newest(slots) = -1 THEN 0 ELSE Newest(slots)

\* The slot a commit writes: never the one that is selected.
Target(slots) == IF Newest(slots) = -1 THEN 0 ELSE 1 - Newest(slots)

\* Mutant: the generation follows the one that is overwritten.
NextRecordOfTarget(slots, id, key) ==
  [generation |-> slots[Target(slots)].record.generation + 1,
   id |-> id, key |-> key]

NextRecord(slots, id, key) ==
  [generation |-> Selected(slots).generation + 1, id |-> id, key |-> key]

\* Mutant: the last generation may be followed by another.
CommitAllowedForever(slots, id, allow_update) ==
  Newest(slots) # -1 => allow_update /\ id = Selected(slots).id

\* The checks of a commit before it touches the flash: not provisioned yet,
\* or an update of the same id and version that is not out of generations.
CommitAllowed(slots, id, allow_update) ==
  Newest(slots) # -1 =>
    /\ allow_update
    /\ id = Selected(slots).id
    /\ Selected(slots).generation # GenMax
=============================================================================
