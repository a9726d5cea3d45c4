---------------------------- MODULE OspiKeyStore ----------------------------
(***************************************************************************)
(* mtfs_ra8p1_ospi_key_store.c: the wrapped-key store in the RA8P1's OSPI  *)
(* flash.  It has the slots, the choice and the checks of the NOR store,   *)
(* but no commit word: the record is written page by page, and decodes as  *)
(* soon as its last page is in the flash.  Each flash command is followed  *)
(* by a wait for the flash to be ready, which may fail or time out.        *)
(*                                                                         *)
(* As in NorKeyStore one action stands for an operation that fails and for *)
(* a power loss in it.  A wait that times out is taken to leave a flash    *)
(* that has come to rest before the next command.                          *)
(***************************************************************************)
EXTENDS KeySlots

CONSTANT Pages   \* pages of a record (two: 88 bytes in pages of 64)

VARIABLES
  slots,     \* the two sectors
  commit,    \* the commit in progress: control point, target and record
  written,   \* the pages of it that are in the flash
  acked,     \* the record of the last commit that returned OK
  checked    \* history: the slot's record has been read back and compared

vars == <<slots, commit, written, acked, checked>>

NoCommit == [pc |-> "idle", target |-> 0, record |-> NoRecord]

At(point) == commit.pc = point
Store(slot) == slots' = [slots EXCEPT ![commit.target] = slot]
Check(value) == checked' = [checked EXCEPT ![commit.target] = value]

Init ==
  /\ slots \in [SlotNumbers -> {Erased, Torn}]
  /\ commit = NoCommit
  /\ written = 0
  /\ acked = NoRecord
  /\ checked = [s \in SlotNumbers |-> FALSE]

Begin(id, key, allow_update) ==
  /\ At("idle")
  /\ CommitAllowed(slots, id, allow_update)
  /\ commit' = [pc |-> "erase", target |-> Target(slots),
                record |-> NextRecord(slots, id, key)]
  /\ written' = 0
  /\ UNCHANGED <<slots, acked, checked>>

Erase ==
  /\ At("erase")
  /\ commit' = [commit EXCEPT !.pc = "program"]
  /\ \E slot \in {Erased, Torn} : Store(slot)
  /\ Check(FALSE)
  /\ UNCHANGED <<written, acked>>

EraseFails ==
  /\ At("erase") /\ commit' = NoCommit
  /\ \/ UNCHANGED <<slots, checked>>
     \/ \E slot \in {Erased, Torn} : Store(slot) /\ Check(FALSE)
  /\ UNCHANGED <<written, acked>>

\* The flash after one more page; a page that was spoiled spoils the record,
\* an erased sector that takes its first page does not decode yet.
PageOutcomes ==
  LET slot == slots[commit.target]
      good == slot = Erased \/ slot = Written(commit.record)
  IN  {Torn} \cup
      IF ~good THEN {}
      ELSE IF written + 1 = Pages THEN {Committed(commit.record)}
           ELSE {Written(commit.record)}

WritePage ==
  /\ At("program")
  /\ written' = written + 1
  /\ commit' = [commit EXCEPT !.pc = IF written + 1 = Pages THEN "verify"
                                                           ELSE @]
  /\ \E slot \in PageOutcomes : Store(slot)
  /\ UNCHANGED <<acked, checked>>

WriteFails ==
  /\ At("program") /\ commit' = NoCommit
  /\ \/ UNCHANGED slots
     \/ \E slot \in PageOutcomes : Store(slot)
  /\ UNCHANGED <<written, acked, checked>>

\* Mutant: the readback is not compared.
VerifyBlind ==
  /\ At("verify") /\ commit' = NoCommit
  /\ acked' = commit.record
  /\ Check(TRUE)
  /\ UNCHANGED <<slots, written>>

Verify ==
  /\ At("verify") /\ commit' = NoCommit
  /\ slots[commit.target] = Committed(commit.record)
  /\ acked' = commit.record
  /\ Check(TRUE)
  /\ UNCHANGED <<slots, written>>

\* The readback does not decode or match, or power is lost before it.
VerifyFails ==
  /\ At("verify") /\ commit' = NoCommit
  /\ UNCHANGED <<slots, written, acked, checked>>

Next ==
  \/ \E id \in Ids, key \in Keys, allow_update \in BOOLEAN :
       Begin(id, key, allow_update)
  \/ Erase \/ EraseFails \/ WritePage \/ WriteFails \/ Verify \/ VerifyFails

Spec == Init /\ [][Next]_vars

----------------------------------------------------------------------------
(* Properties.                                                             *)

\* docs/applications.md:133: generation N+1 becomes the active slot after it
\* has been read back and committed.
SelectedWasReadBack ==
  At("idle") /\ Newest(slots) # -1 => checked[Newest(slots)]
=============================================================================
