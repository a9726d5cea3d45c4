---------------------------- MODULE NorKeyStore ----------------------------
(***************************************************************************)
(* mtfs_stm32_nor_key_store.c: the wrapped-key store in the STM32's NOR    *)
(* flash.  A commit erases the slot that is not selected, programs the     *)
(* record without its commit word, reads it back, programs the commit word *)
(* and reads the record once more.  Every step may fail, and power may be  *)
(* lost in it; the next load or commit then finds what the flash kept.     *)
(*                                                                         *)
(* A failed operation and a power loss leave the same choices in the flash *)
(* and nothing in RAM that matters, so one action stands for both.  A      *)
(* commit that is refused, and a load, change nothing.                     *)
(***************************************************************************)
EXTENDS KeySlots

VARIABLES
  slots,     \* the two sectors
  commit,    \* the commit in progress: control point, target and record
  acked,     \* the record of the last commit that returned OK
  checked    \* history: the slot's record has been read back and compared

vars == <<slots, commit, acked, checked>>

NoCommit == [pc |-> "idle", target |-> 0, record |-> NoRecord]

At(point) == commit.pc = point
Proceed(point) == commit' = [commit EXCEPT !.pc = point]
Store(slot) == slots' = [slots EXCEPT ![commit.target] = slot]
Check(value) == checked' = [checked EXCEPT ![commit.target] = value]

Init ==
  /\ slots \in [SlotNumbers -> {Erased, Torn}]
  /\ commit = NoCommit
  /\ acked = NoRecord
  /\ checked = [s \in SlotNumbers |-> FALSE]

\* Both slots are scanned and the arguments are checked against the newest.
Begin(id, key, allow_update) ==
  /\ At("idle")
  /\ CommitAllowed(slots, id, allow_update)
  /\ commit' = [pc |-> "erase", target |-> Target(slots),
                record |-> NextRecord(slots, id, key)]
  /\ UNCHANGED <<slots, acked, checked>>

Erase ==
  /\ At("erase") /\ Proceed("program")
  /\ \E slot \in {Erased, Torn} : Store(slot)
  /\ Check(FALSE)
  /\ UNCHANGED acked

EraseFails ==
  /\ At("erase") /\ commit' = NoCommit
  /\ \/ UNCHANGED <<slots, checked>>
     \/ \E slot \in {Erased, Torn} : Store(slot) /\ Check(FALSE)
  /\ UNCHANGED acked

\* What is programmed over a sector: the record, or bytes that do not decode
\* when a cell fails or the sector was not erased.
Programmed(slot) ==
  {Torn} \cup IF slot = Erased THEN {Written(commit.record)} ELSE {}

\* Mutant: the commit word is programmed with the record.
ProgramCommitted ==
  /\ At("program") /\ Proceed("read_back")
  /\ Store(IF slots[commit.target] = Erased
           THEN Committed(commit.record) ELSE Torn)
  /\ UNCHANGED <<acked, checked>>

Program ==
  /\ At("program") /\ Proceed("read_back")
  /\ \E slot \in Programmed(slots[commit.target]) : Store(slot)
  /\ UNCHANGED <<acked, checked>>

ProgramFails ==
  /\ At("program") /\ commit' = NoCommit
  /\ \/ UNCHANGED slots
     \/ \E slot \in Programmed(slots[commit.target]) : Store(slot)
  /\ UNCHANGED <<acked, checked>>

ReadBack ==
  /\ At("read_back") /\ Proceed("commit_word")
  /\ slots[commit.target] = Written(commit.record)
  /\ Check(TRUE)
  /\ UNCHANGED <<slots, acked>>

CommitWord ==
  /\ At("commit_word") /\ Proceed("verify")
  /\ \E slot \in {Committed(commit.record), Torn} : Store(slot)
  /\ UNCHANGED <<acked, checked>>

CommitWordFails ==
  /\ At("commit_word") /\ commit' = NoCommit
  /\ \/ UNCHANGED slots
     \/ \E slot \in {Committed(commit.record), Torn} : Store(slot)
  /\ UNCHANGED <<acked, checked>>

\* Mutant: the last read is not decoded.
VerifyBlind ==
  /\ At("verify") /\ commit' = NoCommit
  /\ acked' = commit.record
  /\ UNCHANGED <<slots, checked>>

Verify ==
  /\ At("verify") /\ commit' = NoCommit
  /\ Decodes(slots[commit.target])
  /\ acked' = commit.record
  /\ UNCHANGED <<slots, checked>>

\* A read fails, does not match or does not decode, or power is lost: the
\* caller learns of no success, even when the record is the selected one.
ReadFails ==
  /\ commit.pc \in {"read_back", "verify"}
  /\ commit' = NoCommit
  /\ UNCHANGED <<slots, acked, checked>>

Next ==
  \/ \E id \in Ids, key \in Keys, allow_update \in BOOLEAN :
       Begin(id, key, allow_update)
  \/ Erase \/ EraseFails \/ Program \/ ProgramFails \/ ReadBack
  \/ CommitWord \/ CommitWordFails \/ Verify \/ ReadFails

Spec == Init /\ [][Next]_vars

----------------------------------------------------------------------------
(* Properties.                                                             *)

Commits ==
  [pc : {"erase", "program", "read_back", "commit_word", "verify"},
   target : SlotNumbers, record : Record]

TypeOK ==
  /\ slots \in [SlotNumbers -> Slot]
  /\ commit \in Commits \cup {NoCommit}
  /\ acked \in Record \cup {NoRecord}
  /\ checked \in [SlotNumbers -> BOOLEAN]

\* Two records that decode are of successive generations, so that newest
\* always has a newest to choose, whatever failed before.
GenerationsAdjacent ==
  Decodes(slots[0]) /\ Decodes(slots[1]) =>
    \/ slots[1].record.generation = slots[0].record.generation + 1
    \/ slots[0].record.generation = slots[1].record.generation + 1

\* docs/applications.md:133: a record is selected only after it has been
\* read back and committed.
SelectedWasReadBack ==
  At("idle") /\ Newest(slots) # -1 => checked[Newest(slots)]

\* The slot that is selected is neither erased nor programmed: at every
\* instant of a replacement the key that was in use is still there.
NewestUntouched ==
  [][Newest(slots) # -1 =>
       slots'[Newest(slots)] = slots[Newest(slots)]]_vars

\* The store keeps the promise of KeyRegister.
Contents(record) == [id |-> record.id, key |-> record.key]

Register == INSTANCE KeyRegister WITH
  stored <- Contents(Selected(slots)),
  attempt <- Contents(commit.record),
  acked <- Contents(acked)

RegisterSpec == Register!Spec
=============================================================================
