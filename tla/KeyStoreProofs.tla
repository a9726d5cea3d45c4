--------------------------- MODULE KeyStoreProofs ---------------------------
(***************************************************************************)
(* Proofs about the key stores of both boards for all sets of keys and     *)
(* ids, every width of the generation and any number of pages.  What the   *)
(* slots hold at each step of a commit is the same in both; only the NOR   *)
(* store has read a record back before it decodes.                         *)
(***************************************************************************)
EXTENDS KeyStores, TLAPS

----------------------------------------------------------------------------
(* The inductive invariant.                                                *)

Other == 1 - commit.target

\* The record that is being committed follows the one in the other slot,
\* which is the selected one until the commit word is in the flash; when the
\* other slot does not decode, nothing did when the commit began.
CommitFollows ==
  ~At("idle") =>
    /\ commit.record.generation =
         IF Decodes(slots[Other]) THEN slots[Other].record.generation + 1
         ELSE 1
    /\ Decodes(slots[Other]) => commit.record.id = slots[Other].record.id

\* What the target slot holds at each step of a commit.
TargetHolds ==
  /\ At("erase") /\ Decodes(slots[commit.target]) =>
       /\ Decodes(slots[Other])
       /\ slots[Other].record.generation
            = slots[commit.target].record.generation + 1
  /\ commit.pc \in {"program", "read_back", "commit_word"} =>
       ~Decodes(slots[commit.target])
  /\ At("verify") => slots[commit.target] \in {Committed(commit.record), Torn}

SlotInv == TypeOK /\ GenerationsAdjacent /\ CommitFollows /\ TargetHolds

\* A record of the NOR store decodes only after it has been read back.
ReadBackFirst ==
  /\ \A s \in SlotNumbers : Decodes(slots[s]) => checked[s]
  /\ commit.pc \in {"commit_word", "verify"} => checked[commit.target]

BoardInv == SlotInv /\ (board = "stm32" => ReadBackFirst)

----------------------------------------------------------------------------
(* The slots and the choice between them.                                  *)

LEMMA SlotTypes ==
  /\ Erased \in Slot /\ Torn \in Slot
  /\ ~Decodes(Erased) /\ ~Decodes(Torn)
  /\ \A r \in Record : /\ Written(r) \in Slot /\ Committed(r) \in Slot
                       /\ ~Decodes(Written(r)) /\ Decodes(Committed(r))
                       /\ Committed(r).record = r
  /\ \A slot \in Slot : Decodes(slot) => slot.record \in Record
  BY DEF Slot, Erased, Torn, Written, Committed, Decodes

\* The slot that is selected decodes, and is the newer of two.
LEMMA NewestIs ==
  ASSUME NEW f \in [SlotNumbers -> Slot]
  PROVE  /\ Newest(f) \in {-1, 0, 1}
         /\ Newest(f) = -1 <=> ~Decodes(f[0]) /\ ~Decodes(f[1])
         /\ Newest(f) # -1 => Newest(f) \in SlotNumbers /\ Decodes(f[Newest(f)])
         /\ \A s \in SlotNumbers :
              Decodes(f[s]) /\ ~Decodes(f[1 - s]) => Newest(f) = s
         /\ \A s \in SlotNumbers :
              Decodes(f[s]) /\ Decodes(f[1 - s])
              /\ f[s].record.generation = f[1 - s].record.generation + 1
              => Newest(f) = s
<1>1. \A s \in SlotNumbers : Decodes(f[s]) => f[s].record.generation \in Nat
  BY SlotTypes DEF Record
<1>2. Decodes(f[0]) \in BOOLEAN /\ Decodes(f[1]) \in BOOLEAN
  BY DEF Decodes
<1>3. CASE ~Decodes(f[0]) /\ ~Decodes(f[1])
  BY <1>3 DEF Newest, SlotNumbers
<1>4. CASE ~Decodes(f[0]) /\ Decodes(f[1])
  BY <1>4 DEF Newest, SlotNumbers
<1>5. CASE Decodes(f[0]) /\ ~Decodes(f[1])
  BY <1>5 DEF Newest, SlotNumbers
<1>6. CASE Decodes(f[0]) /\ Decodes(f[1])
  BY <1>1, <1>6 DEF Newest, SlotNumbers
<1> QED BY <1>2, <1>3, <1>4, <1>5, <1>6

LEMMA NewerIsNewest ==
  ASSUME NEW f \in [SlotNumbers -> Slot],
         NEW s \in SlotNumbers, NEW t \in SlotNumbers, s # t,
         Decodes(f[s]),
         Decodes(f[t]) =>
           f[s].record.generation = f[t].record.generation + 1
  PROVE  Newest(f) = s
<1>1. t = 1 - s
  BY DEF SlotNumbers
<1> QED BY <1>1, NewestIs

LEMMA SelectedType ==
  ASSUME NEW f \in [SlotNumbers -> Slot]
  PROVE  /\ Selected(f) \in Record \cup {NoRecord}
         /\ Newest(f) # -1 => Selected(f) \in Record
         /\ Newest(f) = -1 => Selected(f) = NoRecord
  BY NewestIs, SlotTypes DEF Selected

\* During a commit, until its commit word, the selected slot is the other.
LEMMA SelectedIsOther ==
  ASSUME SlotInv,
         commit.pc \in {"erase", "program", "read_back", "commit_word"}
  PROVE  /\ Other \in SlotNumbers /\ commit.target \in SlotNumbers
         /\ commit.target = 1 - Other /\ commit.target # Other
         /\ Newest(slots) = IF Decodes(slots[Other]) THEN Other ELSE -1
<1>1. /\ commit.target \in SlotNumbers /\ Other \in SlotNumbers
      /\ commit.target = 1 - Other /\ commit.target # Other
  BY DEF SlotInv, TypeOK, Commits, NoCommit, SlotNumbers, Other
<1>2. slots \in [SlotNumbers -> Slot]
  BY DEF SlotInv, TypeOK
<1>3. CASE Decodes(slots[commit.target])
  <2>1. At("erase")
    BY <1>3 DEF SlotInv, TargetHolds, At
  <2>2. /\ Decodes(slots[Other])
        /\ slots[Other].record.generation
             = slots[commit.target].record.generation + 1
    BY <2>1, <1>3 DEF SlotInv, TargetHolds
  <2>3. Newest(slots) = Other
    BY <2>2, <1>1, <1>2, <1>3, NewerIsNewest
  <2> QED BY <1>1, <2>2, <2>3
<1>4. CASE ~Decodes(slots[commit.target]) /\ Decodes(slots[Other])
  BY <1>1, <1>2, <1>4, NewestIs
<1>5. CASE ~Decodes(slots[commit.target]) /\ ~Decodes(slots[Other])
  <2>1. ~Decodes(slots[0]) /\ ~Decodes(slots[1])
    BY <1>1, <1>5 DEF SlotNumbers
  <2> QED BY <1>1, <1>2, <1>5, <2>1, NewestIs
<1> QED BY <1>1, <1>3, <1>4, <1>5

----------------------------------------------------------------------------
(* Type correctness.                                                       *)

LEMMA RecordTypes ==
  ASSUME NEW f \in [SlotNumbers -> Slot], NEW id \in Ids, NEW key \in Keys,
         NEW allow_update \in BOOLEAN,
         CommitAllowed(f, id, allow_update)
  PROVE  /\ Target(f) \in SlotNumbers
         /\ NextRecord(f, id, key) \in Record
<1>1. CASE Newest(f) = -1
  BY <1>1, SelectedType, SlotsAssumption
  DEF Target, NextRecord, Record, NoRecord, SlotNumbers
<1>2. CASE Newest(f) # -1
  <2>1. Selected(f) \in Record /\ Selected(f).generation # GenMax
    BY <1>2, SelectedType DEF CommitAllowed
  <2>2. Newest(f) \in {0, 1}
    BY <1>2, NewestIs
  <2>3. Selected(f).generation + 1 \in 1 .. GenMax
    BY <2>1, SlotsAssumption DEF Record
  <2> QED BY <2>2, <2>3, <1>2 DEF Target, NextRecord, Record, SlotNumbers
<1> QED BY <1>1, <1>2

LEMMA InitType == Init => TypeOK
  BY SlotTypes DEF Init, TypeOK

\* What the helpers of the actions do to a well-typed state.
LEMMA HelperTypes ==
  ASSUME TypeOK
  PROVE  /\ \A slot \in Slot : Store(slot) => slots' \in [SlotNumbers -> Slot]
         /\ \A b \in BOOLEAN : Check(b) => checked' \in [SlotNumbers -> BOOLEAN]
         /\ NoCommit \in Commits \cup {NoCommit}
         /\ ~At("idle") => /\ commit \in Commits
                           /\ commit.record \in Record
                           /\ commit.target \in SlotNumbers
                           /\ \A point \in {"program", "read_back",
                                            "commit_word", "verify"} :
                                Proceed(point) => commit' \in Commits
  BY DEF TypeOK, Store, Check, Proceed, At, NoCommit, Commits

LEMMA NextType == TypeOK /\ [Next]_vars => TypeOK'
<1> SUFFICES ASSUME TypeOK, [Next]_vars
             PROVE  TypeOK'
  OBVIOUS
<1> USE DEF TypeOK
<1>1. ASSUME NEW id \in Ids, NEW key \in Keys, NEW allow_update \in BOOLEAN,
             Begin(id, key, allow_update)
      PROVE  TypeOK'
  <2>1. Target(slots) \in SlotNumbers /\ NextRecord(slots, id, key) \in Record
    BY <1>1, RecordTypes DEF Begin
  <2> QED BY <1>1, <2>1 DEF Begin, Commits
<1>2. CASE Erase
  BY <1>2, HelperTypes, SlotTypes DEF Erase, At
<1>3. CASE EraseFails
  BY <1>3, HelperTypes, SlotTypes DEF EraseFails, At
<1>4. ASSUME NEW slot \in Programmed(slots[commit.target]), ~At("idle")
      PROVE  slot \in Slot
  BY <1>4, HelperTypes, SlotTypes DEF Programmed
<1>5. CASE Program
  BY <1>4, <1>5, HelperTypes DEF Program, At
<1>6. CASE ProgramFails
  BY <1>4, <1>6, HelperTypes DEF ProgramFails, At
<1>7. CASE ReadBack
  BY <1>7, HelperTypes DEF ReadBack, At
<1>8. CASE CommitWord
  BY <1>8, HelperTypes, SlotTypes DEF CommitWord, At
<1>9. CASE CommitWordFails
  BY <1>9, HelperTypes, SlotTypes DEF CommitWordFails, At
<1>10. CASE Verify
  BY <1>10, HelperTypes DEF Verify, At
<1>11. CASE ReadFails
  BY <1>11, HelperTypes DEF ReadFails
<1>12. CASE UNCHANGED vars
  BY <1>12 DEF vars
<1> QED BY <1>1, <1>2, <1>3, <1>5, <1>6, <1>7, <1>8, <1>9, <1>10, <1>11, <1>12
        DEF Next

\* The steps of the OSPI store that are steps of the NOR store, and what the
\* others do: a page that is written leaves a slot that decodes only with the
\* last page.
Pagewise == {Torn, Written(commit.record)}
LastPage == {Torn, Committed(commit.record)}

LEMMA OspiSteps ==
  /\ \A id \in Ids, key \in Keys, allow_update \in BOOLEAN :
       Ospi!Begin(id, key, allow_update) => Begin(id, key, allow_update)
  /\ Ospi!Erase => Erase
  /\ Ospi!EraseFails => EraseFails
  /\ Ospi!VerifyFails => ReadFails
<1> USE DEF Ospi!At, At, Ospi!NoCommit, NoCommit, Ospi!NoRecord, NoRecord,
        Ospi!Store, Store, Ospi!Check, Check, Ospi!Erased, Erased,
        Ospi!Torn, Torn
<1>1. /\ Ospi!Newest(slots) = Newest(slots)
      /\ Ospi!Selected(slots) = Selected(slots)
      /\ Ospi!Target(slots) = Target(slots)
  BY DEF Ospi!Newest, Newest, Ospi!Selected, Selected, Ospi!Target, Target,
         Ospi!Decodes, Decodes
<1>2. ASSUME NEW id \in Ids, NEW key \in Keys, NEW allow_update \in BOOLEAN,
             Ospi!Begin(id, key, allow_update)
      PROVE  Begin(id, key, allow_update)
  BY <1>1, <1>2
  DEF Ospi!Begin, Begin, Ospi!CommitAllowed, CommitAllowed,
      Ospi!NextRecord, NextRecord
<1>3. Ospi!Erase => Erase
  BY DEF Ospi!Erase, Erase, Proceed
<1>4. Ospi!EraseFails => EraseFails
  BY DEF Ospi!EraseFails, EraseFails
<1>5. Ospi!VerifyFails => ReadFails
  BY DEF Ospi!VerifyFails, ReadFails
<1> QED BY <1>2, <1>3, <1>4, <1>5

LEMMA PageIs ==
  /\ Ospi!WritePage =>
       /\ At("program") /\ UNCHANGED <<acked, checked>>
       /\ \/ Proceed("program") /\ \E slot \in Pagewise : Store(slot)
          \/ Proceed("verify") /\ \E slot \in LastPage : Store(slot)
  /\ Ospi!WriteFails =>
       /\ At("program") /\ commit' = NoCommit /\ UNCHANGED <<acked, checked>>
       /\ \/ UNCHANGED slots
          \/ \E slot \in Pagewise \cup LastPage : Store(slot)
<1> USE DEF Ospi!At, At, Ospi!NoCommit, NoCommit, Ospi!NoRecord, NoRecord,
        Ospi!Store, Store, Pagewise, LastPage
<1>1. Ospi!PageOutcomes \subseteq
        IF written + 1 = Pages THEN LastPage ELSE Pagewise
  BY DEF Ospi!PageOutcomes, Ospi!Torn, Torn, Ospi!Written, Written,
         Ospi!Committed, Committed
<1>2. Ospi!WritePage =>
        /\ At("program") /\ UNCHANGED <<acked, checked>>
        /\ \/ Proceed("program") /\ \E slot \in Pagewise : Store(slot)
           \/ Proceed("verify") /\ \E slot \in LastPage : Store(slot)
  <2> SUFFICES ASSUME Ospi!WritePage
               PROVE  \/ /\ Proceed("program")
                         /\ \E slot \in Pagewise : Store(slot)
                      \/ /\ Proceed("verify")
                         /\ \E slot \in LastPage : Store(slot)
    BY DEF Ospi!WritePage
  <2>1. CASE written + 1 = Pages
    BY <1>1, <2>1 DEF Ospi!WritePage, Proceed
  <2>2. CASE written + 1 # Pages
    <3>1. commit' = [commit EXCEPT !.pc = "program"]
      BY <2>2 DEF Ospi!WritePage
    <3> QED BY <1>1, <2>2, <3>1 DEF Ospi!WritePage, Proceed
  <2> QED BY <2>1, <2>2
<1>3. Ospi!WriteFails =>
        /\ At("program") /\ commit' = NoCommit /\ UNCHANGED <<acked, checked>>
        /\ \/ UNCHANGED slots
           \/ \E slot \in Pagewise \cup LastPage : Store(slot)
  BY <1>1 DEF Ospi!WriteFails
<1> QED BY <1>2, <1>3

LEMMA VerifyIs ==
  Ospi!Verify =>
    /\ At("verify") /\ commit' = NoCommit /\ acked' = commit.record
    /\ UNCHANGED slots /\ Check(TRUE)
    /\ slots[commit.target] = Committed(commit.record)
BY DEF Ospi!Verify, Ospi!At, At, Ospi!NoCommit, NoCommit, Ospi!NoRecord,
       NoRecord, Ospi!Check, Check, Ospi!Committed, Committed

LEMMA OspiType == TypeOK /\ Ospi!Next => TypeOK'
<1> SUFFICES ASSUME TypeOK, Ospi!Next
             PROVE  TypeOK'
  OBVIOUS
<1>1. ASSUME NEW id \in Ids, NEW key \in Keys, NEW allow_update \in BOOLEAN,
             Ospi!Begin(id, key, allow_update)
      PROVE  TypeOK'
  BY <1>1, OspiSteps, NextType DEF Next
<1>2. CASE Ospi!Erase \/ Ospi!EraseFails \/ Ospi!VerifyFails
  BY <1>2, OspiSteps, NextType DEF Next
<1>3. ~At("idle") => Pagewise \cup LastPage \subseteq Slot
  BY HelperTypes, SlotTypes DEF Pagewise, LastPage
<1>4. CASE Ospi!WritePage
  BY <1>3, <1>4, PageIs, HelperTypes DEF TypeOK, At
<1>5. CASE Ospi!WriteFails
  BY <1>3, <1>5, PageIs, HelperTypes DEF TypeOK, At
<1>6. CASE Ospi!Verify
  BY <1>6, VerifyIs, HelperTypes DEF TypeOK, At
<1> QED BY <1>1, <1>2, <1>4, <1>5, <1>6 DEF Ospi!Next

----------------------------------------------------------------------------
(* The invariant is inductive.                                             *)

\* A step writes the target slot and leaves the other alone.
LEMMA StoreEffect ==
  ASSUME TypeOK, ~At("idle")
  PROVE  /\ commit.target \in SlotNumbers /\ Other \in SlotNumbers
         /\ commit.target # Other
         /\ \A s \in SlotNumbers : s = commit.target \/ s = Other
         /\ \A slot \in Slot : Store(slot) =>
              /\ slots'[commit.target] = slot
              /\ slots'[Other] = slots[Other]
         /\ \A b \in BOOLEAN : Check(b) =>
              /\ checked'[commit.target] = b
              /\ checked'[Other] = checked[Other]
         /\ \A point \in {"program", "read_back", "commit_word", "verify"} :
              Proceed(point) =>
                /\ commit'.pc = point
                /\ commit'.target = commit.target
                /\ commit'.record = commit.record
                /\ Other' = Other
<1>1. commit \in Commits
  BY HelperTypes
<1>2. /\ commit.target \in SlotNumbers /\ Other \in SlotNumbers
      /\ commit.target # Other
      /\ \A s \in SlotNumbers : s = commit.target \/ s = Other
  BY <1>1 DEF Commits, SlotNumbers, Other
<1> QED BY <1>1, <1>2 DEF TypeOK, Store, Check, Proceed, Commits, Other

\* Two slots are adjacent when either is the target of the commit.
LEMMA AdjacentOf ==
  ASSUME NEW f \in [SlotNumbers -> Slot],
         NEW s \in SlotNumbers, NEW t \in SlotNumbers, s # t,
         Decodes(f[s]) /\ Decodes(f[t]) =>
           f[s].record.generation = f[t].record.generation + 1
  PROVE  Decodes(f[0]) /\ Decodes(f[1]) =>
           \/ f[1].record.generation = f[0].record.generation + 1
           \/ f[0].record.generation = f[1].record.generation + 1
  BY DEF SlotNumbers

\* Of two slots that both decode the newest has the higher generation.
LEMMA NewestIsNewer ==
  ASSUME TypeOK, GenerationsAdjacent, Newest(slots) # -1
  PROVE  /\ Newest(slots) \in SlotNumbers /\ 1 - Newest(slots) \in SlotNumbers
         /\ Decodes(slots[Newest(slots)])
         /\ Decodes(slots[1 - Newest(slots)]) =>
              slots[Newest(slots)].record.generation
                = slots[1 - Newest(slots)].record.generation + 1
<1>1. slots \in [SlotNumbers -> Slot]
  BY DEF TypeOK
<1>2. /\ Newest(slots) \in SlotNumbers /\ Decodes(slots[Newest(slots)])
      /\ 1 - Newest(slots) \in SlotNumbers
      /\ 1 - (1 - Newest(slots)) = Newest(slots)
  BY <1>1, NewestIs DEF SlotNumbers
<1>3. ASSUME Decodes(slots[1 - Newest(slots)])
      PROVE  slots[Newest(slots)].record.generation
               = slots[1 - Newest(slots)].record.generation + 1
  <2>1. Decodes(slots[0]) /\ Decodes(slots[1])
    BY <1>2, <1>3 DEF SlotNumbers
  <2>2. CASE slots[1].record.generation = slots[0].record.generation + 1
    <3>1. Newest(slots) = 1
      BY <1>1, <2>1, <2>2, NewerIsNewest DEF SlotNumbers
    <3> QED BY <2>2, <3>1
  <2>3. CASE slots[0].record.generation = slots[1].record.generation + 1
    <3>1. Newest(slots) = 0
      BY <1>1, <2>1, <2>3, NewerIsNewest DEF SlotNumbers
    <3> QED BY <2>3, <3>1
  <2> QED BY <2>1, <2>2, <2>3 DEF GenerationsAdjacent
<1> QED BY <1>2, <1>3

LEMMA InitInv == BoardInit => BoardInv
<1> SUFFICES ASSUME BoardInit
             PROVE  BoardInv
  OBVIOUS
<1>1. Init
  BY DEF BoardInit, Ospi!Init, Init, Ospi!SlotNumbers, SlotNumbers,
         Ospi!Erased, Erased, Ospi!Torn, Torn, Ospi!NoCommit, NoCommit,
         Ospi!NoRecord, NoRecord
<1>2. \A s \in SlotNumbers : ~Decodes(slots[s])
  BY <1>1, SlotTypes DEF Init
<1> QED BY <1>1, <1>2, InitType
        DEF Init, BoardInv, SlotInv, GenerationsAdjacent, CommitFollows,
            TargetHolds, ReadBackFirst, At, NoCommit, SlotNumbers

LEMMA BeginInv ==
  ASSUME SlotInv, TypeOK',
         NEW id \in Ids, NEW key \in Keys, NEW allow_update \in BOOLEAN,
         Begin(id, key, allow_update)
  PROVE  SlotInv'
<1>1. slots' = slots /\ checked' = checked /\ TypeOK /\ GenerationsAdjacent
  BY DEF Begin, SlotInv
<1>2. /\ commit'.pc = "erase" /\ commit'.target = Target(slots)
      /\ commit'.record = NextRecord(slots, id, key)
  BY DEF Begin
<1>3. CASE Newest(slots) = -1
  <2>1. ~Decodes(slots[0]) /\ ~Decodes(slots[1])
    BY <1>1, <1>3, NewestIs DEF TypeOK
  <2>2. commit'.target = 0 /\ commit'.record.generation = 1 /\ Other' = 1
    BY <1>1, <1>2, <1>3, SelectedType
    DEF Target, NextRecord, NoRecord, TypeOK, Other
  <2>3. CommitFollows'
    BY <1>1, <2>1, <2>2 DEF CommitFollows
  <2>4. TargetHolds'
    BY <1>1, <1>2, <2>1, <2>2 DEF TargetHolds, At
  <2> QED BY <1>1, <1>2, <2>3, <2>4
          DEF SlotInv, GenerationsAdjacent
<1>4. CASE Newest(slots) # -1
  <2>1. /\ Newest(slots) \in SlotNumbers
        /\ Decodes(slots[Newest(slots)])
        /\ Decodes(slots[1 - Newest(slots)]) =>
             slots[Newest(slots)].record.generation
               = slots[1 - Newest(slots)].record.generation + 1
    BY <1>1, <1>4, NewestIsNewer
  <2>2. /\ commit'.target = 1 - Newest(slots) /\ Other' = Newest(slots)
        /\ commit'.record.generation
             = slots[Newest(slots)].record.generation + 1
        /\ commit'.record.id = slots[Newest(slots)].record.id
    BY <1>2, <1>4, <2>1
    DEF Begin, CommitAllowed, Target, NextRecord, Selected, Other, SlotNumbers
  <2>3. CommitFollows'
    BY <1>1, <2>1, <2>2 DEF CommitFollows
  <2>4. TargetHolds'
    BY <1>1, <1>2, <2>1, <2>2 DEF TargetHolds, At
  <2> QED BY <1>1, <1>2, <2>3, <2>4
          DEF SlotInv, GenerationsAdjacent
<1> QED BY <1>3, <1>4

\* A write of the target leaves the slots adjacent, whatever of the record it
\* leaves there.
LEMMA WriteAdjacent ==
  ASSUME SlotInv, TypeOK', ~At("idle"),
         NEW slot \in {Erased, Torn, Written(commit.record),
                       Committed(commit.record)},
         Store(slot)
  PROVE  /\ slots'[commit.target] = slot /\ slots'[Other] = slots[Other]
         /\ GenerationsAdjacent'
<1>1. TypeOK
  BY DEF SlotInv
<1>2. /\ commit.target \in SlotNumbers /\ Other \in SlotNumbers
      /\ commit.target # Other
  BY <1>1, StoreEffect
<1>3. slot \in Slot /\ (Decodes(slot) => slot.record = commit.record)
  BY <1>1, HelperTypes, SlotTypes
<1>4. slots'[commit.target] = slot /\ slots'[Other] = slots[Other]
  BY <1>1, <1>3, StoreEffect
<1>5. Decodes(slots'[commit.target]) /\ Decodes(slots'[Other]) =>
        slots'[commit.target].record.generation
          = slots'[Other].record.generation + 1
  BY <1>3, <1>4 DEF SlotInv, CommitFollows
<1>6. slots' \in [SlotNumbers -> Slot]
  BY DEF TypeOK
<1>7. GenerationsAdjacent'
  BY <1>2, <1>5, <1>6, AdjacentOf DEF GenerationsAdjacent
<1> QED BY <1>4, <1>7

\* A commit may end wherever the two slots are adjacent.
LEMMA EndInv ==
  ASSUME TypeOK', commit' = NoCommit, GenerationsAdjacent'
  PROVE  SlotInv'
  BY DEF SlotInv, CommitFollows, TargetHolds, At, NoCommit

\* A step to the next control point keeps the invariant when the target holds
\* there what it should.
LEMMA ProceedInv ==
  ASSUME SlotInv, TypeOK', ~At("idle"), GenerationsAdjacent',
         NEW point \in {"program", "read_back", "commit_word", "verify"},
         Proceed(point),
         slots'[Other] = slots[Other],
         IF point = "verify"
         THEN slots'[commit.target] \in {Committed(commit.record), Torn}
         ELSE ~Decodes(slots'[commit.target])
  PROVE  SlotInv'
<1>1. /\ commit'.pc = point /\ commit'.target = commit.target
      /\ commit'.record = commit.record /\ Other' = Other
  BY StoreEffect DEF SlotInv
<1>2. CommitFollows'
  BY <1>1 DEF SlotInv, CommitFollows
<1>3. TargetHolds'
  BY <1>1 DEF TargetHolds, At
<1> QED BY <1>2, <1>3 DEF SlotInv

LEMMA EraseInv ==
  ASSUME SlotInv, TypeOK', Erase \/ EraseFails
  PROVE  SlotInv'
<1>1. ~At("idle") /\ TypeOK
  BY DEF Erase, EraseFails, At, SlotInv
<1>2. CASE Erase
  <2>1. PICK slot \in {Erased, Torn} : Store(slot)
    BY <1>2 DEF Erase
  <2> QED BY <1>1, <1>2, <2>1, WriteAdjacent, SlotTypes, ProceedInv DEF Erase
<1>3. CASE EraseFails
  <2>1. CASE UNCHANGED slots
    BY <1>3, <2>1, EndInv DEF EraseFails, SlotInv, GenerationsAdjacent
  <2>2. CASE \E slot \in {Erased, Torn} : Store(slot)
    BY <1>1, <1>3, <2>2, WriteAdjacent, EndInv DEF EraseFails
  <2> QED BY <1>3, <2>1, <2>2 DEF EraseFails
<1> QED BY <1>2, <1>3

LEMMA ProgramInv ==
  ASSUME SlotInv, TypeOK', Program \/ ProgramFails
  PROVE  SlotInv'
<1>1. ~At("idle") /\ TypeOK
  BY DEF Program, ProgramFails, At, SlotInv
<1>2. Programmed(slots[commit.target]) \subseteq Pagewise
  BY DEF Programmed, Pagewise
<1>3. \A slot \in Pagewise : ~Decodes(slot)
  BY <1>1, HelperTypes, SlotTypes DEF Pagewise
<1>4. CASE Program
  <2>1. PICK slot \in Pagewise : Store(slot)
    BY <1>2, <1>4 DEF Program
  <2> QED BY <1>1, <1>3, <1>4, <2>1, WriteAdjacent, ProceedInv
          DEF Program, Pagewise
<1>5. CASE ProgramFails
  <2>1. CASE UNCHANGED slots
    BY <1>5, <2>1, EndInv DEF ProgramFails, SlotInv, GenerationsAdjacent
  <2>2. CASE \E slot \in Pagewise : Store(slot)
    BY <1>1, <1>5, <2>2, WriteAdjacent, EndInv DEF ProgramFails, Pagewise
  <2> QED BY <1>2, <1>5, <2>1, <2>2 DEF ProgramFails
<1> QED BY <1>4, <1>5

LEMMA ReadBackInv ==
  ASSUME SlotInv, TypeOK', ReadBack
  PROVE  SlotInv'
<1>1. ~At("idle") /\ UNCHANGED slots /\ Proceed("commit_word")
  BY DEF ReadBack, At
<1>2. ~Decodes(slots[commit.target]) /\ GenerationsAdjacent'
  BY <1>1 DEF ReadBack, SlotInv, TargetHolds, At, GenerationsAdjacent
<1> QED BY <1>1, <1>2, ProceedInv

LEMMA CommitWordInv ==
  ASSUME SlotInv, TypeOK', CommitWord \/ CommitWordFails
  PROVE  SlotInv'
<1>1. ~At("idle")
  BY DEF CommitWord, CommitWordFails, At
<1>2. CASE CommitWord
  <2>1. PICK slot \in LastPage : Store(slot)
    BY <1>2 DEF CommitWord, LastPage
  <2> QED BY <1>1, <1>2, <2>1, WriteAdjacent, ProceedInv
          DEF CommitWord, LastPage
<1>3. CASE CommitWordFails
  <2>1. CASE UNCHANGED slots
    BY <1>3, <2>1, EndInv DEF CommitWordFails, SlotInv, GenerationsAdjacent
  <2>2. CASE \E slot \in LastPage : Store(slot)
    BY <1>1, <1>3, <2>2, WriteAdjacent, EndInv DEF CommitWordFails, LastPage
  <2> QED BY <1>3, <2>1, <2>2 DEF CommitWordFails, LastPage
<1> QED BY <1>2, <1>3

LEMMA NorInv == SlotInv /\ [Next]_vars => SlotInv'
<1> SUFFICES ASSUME SlotInv, [Next]_vars
             PROVE  SlotInv'
  OBVIOUS
<1>1. TypeOK'
  BY NextType DEF SlotInv
<1>2. ASSUME NEW id \in Ids, NEW key \in Keys, NEW allow_update \in BOOLEAN,
             Begin(id, key, allow_update)
      PROVE  SlotInv'
  BY <1>1, <1>2, BeginInv
<1>3. CASE Verify \/ ReadFails
  BY <1>1, <1>3, EndInv
  DEF Verify, ReadFails, SlotInv, GenerationsAdjacent
<1>4. CASE UNCHANGED vars
  BY <1>4
  DEF vars, SlotInv, TypeOK, GenerationsAdjacent, CommitFollows, TargetHolds,
      At, Other
<1> QED BY <1>1, <1>2, <1>3, <1>4, EraseInv, ProgramInv, ReadBackInv,
           CommitWordInv DEF Next

\* The pages of the OSPI store.
LEMMA PageInv ==
  ASSUME SlotInv, TypeOK', Ospi!WritePage \/ Ospi!WriteFails
  PROVE  SlotInv'
<1>1. ~At("idle") /\ TypeOK
  BY PageIs DEF At, SlotInv
<1>2. \A slot \in Pagewise : ~Decodes(slot)
  BY <1>1, HelperTypes, SlotTypes DEF Pagewise
<1>3. CASE Ospi!WritePage
  <2>1. CASE Proceed("program") /\ \E slot \in Pagewise : Store(slot)
    <3>1. PICK slot \in Pagewise : Store(slot)
      BY <2>1
    <3> QED BY <1>1, <1>2, <2>1, <3>1, WriteAdjacent, ProceedInv DEF Pagewise
  <2>2. CASE Proceed("verify") /\ \E slot \in LastPage : Store(slot)
    <3>1. PICK slot \in LastPage : Store(slot)
      BY <2>2
    <3> QED BY <1>1, <2>2, <3>1, WriteAdjacent, ProceedInv DEF LastPage
  <2> QED BY <1>3, <2>1, <2>2, PageIs
<1>4. CASE Ospi!WriteFails
  <2>1. CASE UNCHANGED slots
    BY <1>4, <2>1, PageIs, EndInv DEF SlotInv, GenerationsAdjacent
  <2>2. CASE \E slot \in Pagewise \cup LastPage : Store(slot)
    BY <1>1, <1>4, <2>2, PageIs, WriteAdjacent, EndInv DEF Pagewise, LastPage
  <2> QED BY <1>4, <2>1, <2>2, PageIs
<1> QED BY <1>3, <1>4

LEMMA OspiInv == SlotInv /\ Ospi!Next => SlotInv'
<1> SUFFICES ASSUME SlotInv, Ospi!Next
             PROVE  SlotInv'
  OBVIOUS
<1>1. TypeOK'
  BY OspiType DEF SlotInv
<1>2. ASSUME NEW id \in Ids, NEW key \in Keys, NEW allow_update \in BOOLEAN,
             Ospi!Begin(id, key, allow_update)
      PROVE  SlotInv'
  BY <1>2, OspiSteps, NorInv DEF Next
<1>3. CASE Ospi!Erase \/ Ospi!EraseFails \/ Ospi!VerifyFails
  BY <1>3, OspiSteps, NorInv DEF Next
<1>4. CASE Ospi!WritePage \/ Ospi!WriteFails
  BY <1>1, <1>4, PageInv
<1>5. CASE Ospi!Verify
  BY <1>1, <1>5, VerifyIs, EndInv DEF SlotInv, GenerationsAdjacent
<1> QED BY <1>2, <1>3, <1>4, <1>5 DEF Ospi!Next

\* What decodes in the NOR flash has been read back.
LEMMA ReadBackInvariant ==
  ASSUME SlotInv, ReadBackFirst, [Next]_vars
  PROVE  ReadBackFirst'
<1>1. TypeOK
  BY DEF SlotInv
<1>2. ASSUME NEW slot \in Slot, ~Decodes(slot), Store(slot), ~At("idle"),
             UNCHANGED checked \/ Check(FALSE)
      PROVE  /\ ~Decodes(slots'[commit.target])
             /\ \A s \in SlotNumbers : Decodes(slots'[s]) => checked'[s]
  BY <1>1, <1>2, StoreEffect DEF ReadBackFirst
<1>3. ASSUME NEW id \in Ids, NEW key \in Keys, NEW allow_update \in BOOLEAN,
             Begin(id, key, allow_update)
      PROVE  ReadBackFirst'
  BY <1>3 DEF Begin, ReadBackFirst
<1>4. CASE Erase
  <2>1. ~At("idle") /\ Proceed("program")
    BY <1>4 DEF Erase, At
  <2>2. commit'.pc = "program"
    BY <1>1, <2>1, StoreEffect
  <2>3. PICK slot \in {Erased, Torn} : Store(slot)
    BY <1>4 DEF Erase
  <2>4. slot \in Slot /\ ~Decodes(slot) /\ Check(FALSE)
    BY <1>4, <2>3, SlotTypes DEF Erase
  <2>5. \A s \in SlotNumbers : Decodes(slots'[s]) => checked'[s]
    BY <1>2, <2>1, <2>3, <2>4
  <2> QED BY <2>2, <2>5 DEF ReadBackFirst
<1>5. CASE EraseFails
  <2>1. ~At("idle") /\ commit'.pc = "idle"
    BY <1>5 DEF EraseFails, At, NoCommit
  <2>2. \A s \in SlotNumbers : Decodes(slots'[s]) => checked'[s]
    <3>1. CASE UNCHANGED <<slots, checked>>
      BY <3>1 DEF ReadBackFirst
    <3>2. CASE \E slot \in {Erased, Torn} : Store(slot) /\ Check(FALSE)
      BY <1>2, <2>1, <3>2, SlotTypes
    <3> QED BY <1>5, <3>1, <3>2 DEF EraseFails
  <2> QED BY <2>1, <2>2 DEF ReadBackFirst
<1>6. ~At("idle") => \A slot \in Programmed(slots[commit.target]) :
                       slot \in Slot /\ ~Decodes(slot)
  BY <1>1, HelperTypes, SlotTypes DEF Programmed
<1>7. CASE Program
  <2>1. ~At("idle") /\ Proceed("read_back")
    BY <1>7 DEF Program, At
  <2>2. commit'.pc = "read_back"
    BY <1>1, <2>1, StoreEffect
  <2> QED BY <1>2, <1>6, <1>7, <2>1, <2>2 DEF Program, ReadBackFirst
<1>8. CASE ProgramFails
  <2>1. ~At("idle") /\ commit'.pc = "idle"
    BY <1>8 DEF ProgramFails, At, NoCommit
  <2> QED BY <1>2, <1>6, <1>8, <2>1 DEF ProgramFails, ReadBackFirst
<1>9. CASE ReadBack
  <2>1. ~At("idle") /\ Proceed("commit_word") /\ UNCHANGED slots
    BY <1>9 DEF ReadBack, At
  <2>2. /\ commit'.target = commit.target
        /\ checked'[commit.target] /\ checked'[Other] = checked[Other]
        /\ \A s \in SlotNumbers : s = commit.target \/ s = Other
    BY <1>1, <1>9, <2>1, StoreEffect DEF ReadBack
  <2> QED BY <2>1, <2>2 DEF ReadBackFirst
<1>10. CASE CommitWord \/ CommitWordFails
  <2>1. /\ ~At("idle") /\ checked[commit.target] /\ UNCHANGED checked
        /\ \A slot \in LastPage : slot \in Slot
    BY <1>1, <1>10, HelperTypes, SlotTypes
    DEF CommitWord, CommitWordFails, At, ReadBackFirst, LastPage
  <2>2. \A slot \in LastPage : Store(slot) => slots'[Other] = slots[Other]
    BY <1>1, <2>1, StoreEffect
  <2>3. \/ UNCHANGED slots
        \/ slots'[Other] = slots[Other]
    BY <1>10, <2>2 DEF CommitWord, CommitWordFails, LastPage
  <2>4. \A s \in SlotNumbers : Decodes(slots'[s]) => checked'[s]
    BY <1>1, <2>1, <2>3, StoreEffect DEF ReadBackFirst
  <2>5. commit'.pc = "idle" \/ commit'.target = commit.target
    <3>1. CASE CommitWord
      BY <1>1, <2>1, <3>1, StoreEffect DEF CommitWord
    <3>2. CASE CommitWordFails
      BY <3>2 DEF CommitWordFails, NoCommit
    <3> QED BY <1>10, <3>1, <3>2
  <2> QED BY <2>1, <2>4, <2>5 DEF ReadBackFirst
<1>11. CASE Verify \/ ReadFails
  BY <1>11 DEF Verify, ReadFails, NoCommit, ReadBackFirst
<1>12. CASE UNCHANGED vars
  BY <1>12 DEF vars, ReadBackFirst
<1> QED BY <1>3, <1>4, <1>5, <1>7, <1>8, <1>9, <1>10, <1>11, <1>12 DEF Next

LEMMA NextInv == BoardInv /\ [BoardNext]_<<vars, board, written>> => BoardInv'
<1> SUFFICES ASSUME BoardInv, [BoardNext]_<<vars, board, written>>
             PROVE  BoardInv'
  OBVIOUS
<1>1. CASE board = "stm32" /\ Next /\ UNCHANGED board
  BY <1>1, NorInv, ReadBackInvariant DEF BoardInv
<1>2. CASE board = "ra8p1" /\ Ospi!Next /\ UNCHANGED board
  BY <1>2, OspiInv DEF BoardInv
<1>3. CASE UNCHANGED <<vars, board, written>>
  BY <1>3, NorInv, ReadBackInvariant DEF BoardInv
<1> QED BY <1>1, <1>2, <1>3 DEF BoardNext

----------------------------------------------------------------------------
(* What the stores promise.                                                *)

LEMMA InvAlways == BoardSpec => []BoardInv
  BY InitInv, NextInv, PTL DEF BoardSpec

\* The slots, the commit in progress and its result have their types, for
\* every width of the generation.
THEOREM TypeCorrect == BoardSpec => []TypeOK
<1>1. BoardInv => TypeOK
  BY DEF BoardInv, SlotInv
<1> QED BY <1>1, InvAlways, PTL

\* Whatever fails, two records that decode are of successive generations.
THEOREM GenerationsCorrect == BoardSpec => []GenerationsAdjacent
<1>1. BoardInv => GenerationsAdjacent
  BY DEF BoardInv, SlotInv
<1> QED BY <1>1, InvAlways, PTL

\* A record of the NOR store (docs/applications.md:133) is never selected
\* before it has been read back.
THEOREM ReadBackCorrect == BoardSpec => []NorSelectedWasReadBack
<1>1. BoardInv => NorSelectedWasReadBack
  BY NewestIs
  DEF BoardInv, SlotInv, TypeOK, ReadBackFirst, SelectedWasReadBack,
      NorSelectedWasReadBack
<1> QED BY <1>1, InvAlways, PTL

\* The state of the flash after a write of the target: its record is selected
\* when it decodes; until then the slot that was selected still is.
LEMMA SelectedAfter ==
  ASSUME SlotInv, TypeOK', At("commit_word") \/ At("erase") \/ At("program"),
         NEW slot \in Slot, Store(slot)
  PROVE  /\ ~Decodes(slot) => Selected(slots') = Selected(slots)
         /\ slot = Committed(commit.record) =>
              Selected(slots') = commit.record
<1>1. /\ TypeOK /\ ~At("idle")
      /\ commit.pc \in {"erase", "program", "read_back", "commit_word"}
  BY DEF SlotInv, At
<1>2. /\ commit.target \in SlotNumbers /\ Other \in SlotNumbers
      /\ commit.target # Other
      /\ \A s \in SlotNumbers : s = commit.target \/ s = Other
      /\ slots'[commit.target] = slot /\ slots'[Other] = slots[Other]
  BY <1>1, StoreEffect
<1>3. Newest(slots) = IF Decodes(slots[Other]) THEN Other ELSE -1
  BY <1>1, SelectedIsOther
<1>4. slots' \in [SlotNumbers -> Slot]
  BY DEF TypeOK
<1>5. ASSUME ~Decodes(slot)
      PROVE  Selected(slots') = Selected(slots)
  <2>1. CASE Decodes(slots[Other])
    <3>1. Newest(slots') = Other
      BY <1>2, <1>4, <1>5, <2>1, NewerIsNewest
    <3> QED BY <1>2, <1>3, <2>1, <3>1 DEF Selected, SlotNumbers
  <2>2. CASE ~Decodes(slots[Other])
    <3>1. ~Decodes(slots'[0]) /\ ~Decodes(slots'[1])
      BY <1>2, <1>5, <2>2 DEF SlotNumbers
    <3>2. Newest(slots') = -1
      BY <1>4, <3>1, NewestIs
    <3> QED BY <1>3, <2>2, <3>2 DEF Selected
  <2> QED BY <2>1, <2>2
<1>6. ASSUME slot = Committed(commit.record)
      PROVE  Selected(slots') = commit.record
  <2>1. Decodes(slot) /\ slot.record = commit.record
    BY <1>1, <1>6, HelperTypes, SlotTypes
  <2>2. Decodes(slots'[Other]) =>
          slots'[commit.target].record.generation
            = slots'[Other].record.generation + 1
    BY <1>1, <1>2, <2>1 DEF SlotInv, CommitFollows
  <2>3. Newest(slots') = commit.target
    BY <1>2, <1>4, <2>1, <2>2, NewerIsNewest
  <2> QED BY <1>2, <2>1, <2>3 DEF Selected, SlotNumbers
<1> QED BY <1>5, <1>6

\* The slot in use is left alone by every step of a commit, for every way a
\* step can fail.
THEOREM NewestUntouchedCorrect == BoardSpec => NewestUntouched
<1>1. ASSUME SlotInv, NEW slot \in Slot, Store(slot), Newest(slots) # -1,
             commit.pc \in {"erase", "program", "read_back", "commit_word"}
      PROVE  slots'[Newest(slots)] = slots[Newest(slots)]
  <2>1. TypeOK /\ ~At("idle")
    BY <1>1 DEF SlotInv, At
  <2>2. Newest(slots) = Other
    BY <1>1, SelectedIsOther
  <2> QED BY <1>1, <2>1, <2>2, StoreEffect
<1>2. ASSUME SlotInv, ~At("idle")
      PROVE  Pagewise \cup LastPage \cup {Erased} \subseteq Slot
  BY <1>2, HelperTypes, SlotTypes DEF SlotInv, Pagewise, LastPage
<1>3. ASSUME SlotInv, [Next]_vars, Newest(slots) # -1
      PROVE  slots'[Newest(slots)] = slots[Newest(slots)]
  <2>1. CASE Erase \/ EraseFails
    BY <1>1, <1>3, <2>1, SlotTypes DEF Erase, EraseFails, At
  <2>2. CASE Program \/ ProgramFails
    <3>1. ~At("idle") /\ Programmed(slots[commit.target]) \subseteq Pagewise
      BY <2>2 DEF Program, ProgramFails, At, Programmed, Pagewise
    <3> QED BY <1>1, <1>2, <1>3, <2>2, <3>1 DEF Program, ProgramFails, At
  <2>3. CASE CommitWord \/ CommitWordFails
    <3>1. ~At("idle")
      BY <2>3 DEF CommitWord, CommitWordFails, At
    <3> QED BY <1>1, <1>2, <1>3, <2>3, <3>1
            DEF CommitWord, CommitWordFails, At, LastPage
  <2>4. CASE UNCHANGED slots
    BY <2>4
  <2> QED BY <1>3, <2>1, <2>2, <2>3, <2>4
          DEF Next, Begin, ReadBack, Verify, ReadFails, vars
<1>4. ASSUME SlotInv, Ospi!Next, Newest(slots) # -1
      PROVE  slots'[Newest(slots)] = slots[Newest(slots)]
  <2>1. CASE Ospi!WritePage \/ Ospi!WriteFails
    <3>1. ~At("idle") /\ At("program")
      BY <2>1, PageIs DEF At
    <3>2. \/ UNCHANGED slots
          \/ \E slot \in Pagewise \cup LastPage : Store(slot)
      BY <2>1, PageIs
    <3>3. Pagewise \cup LastPage \subseteq Slot
      BY <1>2, <1>4, <3>1
    <3> QED BY <1>1, <1>4, <3>1, <3>2, <3>3 DEF At
  <2>2. CASE Ospi!Verify
    BY <2>2, VerifyIs
  <2>3. CASE [Next]_vars
    BY <1>3, <1>4, <2>3
  <2> QED BY <1>4, <2>1, <2>2, <2>3, OspiSteps DEF Ospi!Next, Next
<1>5. SlotInv /\ [BoardNext]_<<vars, board, written>> =>
        [Newest(slots) # -1 =>
           slots'[Newest(slots)] = slots[Newest(slots)]]_vars
  BY <1>3, <1>4 DEF BoardNext
<1>6. BoardInv => SlotInv
  BY DEF BoardInv
<1> QED BY <1>5, <1>6, InvAlways, PTL DEF BoardSpec, NewestUntouched

----------------------------------------------------------------------------
(* The stores implement the register.                                      *)

LEMMA ContentsTypes ==
  /\ \A r \in Record : Contents(r) \in Register!Contents
                       /\ Contents(r) # Register!Empty
  /\ Contents(NoRecord) = Register!Empty
  BY SlotsAssumption
  DEF Contents, Record, NoRecord, Register!Contents, Register!Empty

\* The register's attempt is the commit in progress.
LEMMA AttemptIs ==
  ASSUME TypeOK
  PROVE  /\ At("idle") => Contents(commit.record) = Register!Empty
         /\ ~At("idle") => Contents(commit.record) # Register!Empty
  BY ContentsTypes, HelperTypes DEF TypeOK, At, NoCommit, Commits

\* Every step of the store maps to a step of the register or to a stutter.
LEMMA BeginRefines ==
  ASSUME SlotInv,
         NEW id \in Ids, NEW key \in Keys, NEW allow_update \in BOOLEAN,
         Begin(id, key, allow_update)
  PROVE  Register!Begin
<1>1. TypeOK
  BY DEF SlotInv
<1>2. NextRecord(slots, id, key) \in Record
  BY <1>1, RecordTypes DEF Begin, TypeOK
<1>3. commit'.record = NextRecord(slots, id, key) /\ UNCHANGED <<slots, acked>>
  BY DEF Begin
<1>4. Contents(commit.record) = Register!Empty
  BY <1>1, AttemptIs DEF Begin
<1>5. \/ Contents(Selected(slots)) = Register!Empty
      \/ Contents(Selected(slots)).id = Contents(commit'.record).id
  <2>1. CASE Newest(slots) = -1
    BY <1>1, <2>1, SelectedType, ContentsTypes DEF TypeOK
  <2>2. CASE Newest(slots) # -1
    BY <1>3, <2>2 DEF Begin, CommitAllowed, Contents, NextRecord
  <2> QED BY <2>1, <2>2
<1> QED BY <1>2, <1>3, <1>4, <1>5, ContentsTypes DEF Register!Begin

LEMMA StoreRefines ==
  ASSUME SlotInv, TypeOK', ~At("idle"), commit' = NoCommit, UNCHANGED acked,
         Selected(slots') \in {Selected(slots), commit.record}
  PROVE  Register!GiveUp
  BY AttemptIs, ContentsTypes DEF SlotInv, Register!GiveUp, NoCommit

LEMMA ProceedRefines ==
  ASSUME SlotInv, TypeOK', ~At("idle"), UNCHANGED acked,
         NEW point \in {"program", "read_back", "commit_word", "verify"},
         Proceed(point),
         Selected(slots') \in {Selected(slots), commit.record}
  PROVE  Register!TakeEffect \/ UNCHANGED Register!vars
<1>1. commit'.record = commit.record
  BY StoreEffect DEF SlotInv
<1> QED BY <1>1, AttemptIs
        DEF SlotInv, Register!TakeEffect, Register!vars

LEMMA VerifyRefines ==
  ASSUME SlotInv, At("verify"), Decodes(slots[commit.target]),
         commit' = NoCommit, acked' = commit.record, UNCHANGED slots
  PROVE  Register!Acknowledge
<1>1. TypeOK /\ ~At("idle") /\ slots \in [SlotNumbers -> Slot]
  BY DEF At, SlotInv, TypeOK
<1>2. /\ commit.target \in SlotNumbers /\ Other \in SlotNumbers
      /\ commit.target # Other
  BY <1>1, StoreEffect
<1>3. slots[commit.target].record = commit.record
  BY <1>1, SlotTypes, HelperTypes DEF SlotInv, TargetHolds
<1>4. Decodes(slots[Other]) =>
        slots[commit.target].record.generation
          = slots[Other].record.generation + 1
  BY <1>1, <1>3 DEF SlotInv, CommitFollows
<1>5. Newest(slots) = commit.target
  BY <1>1, <1>2, <1>4, NewerIsNewest
<1>6. Selected(slots) = commit.record
  BY <1>2, <1>3, <1>5 DEF Selected, SlotNumbers
<1> QED BY <1>1, <1>6, AttemptIs, ContentsTypes
        DEF Register!Acknowledge, NoCommit

LEMMA NorRefines ==
  SlotInv /\ TypeOK' /\ [Next]_vars => [Register!Next]_(Register!vars)
<1> SUFFICES ASSUME SlotInv, TypeOK', [Next]_vars
             PROVE  Register!Next \/ UNCHANGED Register!vars
  OBVIOUS
<1>0. TypeOK
  BY DEF SlotInv
<1>1. ASSUME NEW id \in Ids, NEW key \in Keys, NEW allow_update \in BOOLEAN,
             Begin(id, key, allow_update)
      PROVE  Register!Next
  BY <1>1, BeginRefines DEF Register!Next
<1>2. CASE Erase \/ EraseFails
  <2>1. ~At("idle") /\ At("erase") /\ UNCHANGED acked
    BY <1>2 DEF Erase, EraseFails, At
  <2>2. \A slot \in {Erased, Torn} : Store(slot) =>
          Selected(slots') = Selected(slots)
    BY <2>1, SelectedAfter, SlotTypes
  <2> QED BY <1>2, <2>1, <2>2, StoreRefines, ProceedRefines
          DEF Erase, EraseFails, Register!Next
<1>3. CASE Program \/ ProgramFails
  <2>1. ~At("idle") /\ At("program") /\ UNCHANGED acked
    BY <1>3 DEF Program, ProgramFails, At
  <2>2. \A slot \in Programmed(slots[commit.target]) :
          slot \in Slot /\ ~Decodes(slot)
    BY <1>0, <2>1, HelperTypes, SlotTypes DEF Programmed
  <2>3. \A slot \in Programmed(slots[commit.target]) : Store(slot) =>
          Selected(slots') = Selected(slots)
    BY <2>1, <2>2, SelectedAfter
  <2> QED BY <1>3, <2>1, <2>3, StoreRefines, ProceedRefines
          DEF Program, ProgramFails, Register!Next
<1>4. CASE ReadBack
  BY <1>4, ProceedRefines DEF ReadBack, At, Register!Next
<1>5. CASE CommitWord \/ CommitWordFails
  <2>1. ~At("idle") /\ At("commit_word") /\ UNCHANGED acked
    BY <1>5 DEF CommitWord, CommitWordFails, At
  <2>2. Committed(commit.record) \in Slot
    BY <1>0, <2>1, HelperTypes, SlotTypes
  <2>3. \A slot \in {Committed(commit.record), Torn} : Store(slot) =>
          Selected(slots') \in {Selected(slots), commit.record}
    BY <2>1, <2>2, SelectedAfter, SlotTypes
  <2> QED BY <1>5, <2>1, <2>3, StoreRefines, ProceedRefines
          DEF CommitWord, CommitWordFails, Register!Next
<1>6. CASE Verify
  BY <1>6, VerifyRefines DEF Verify, Register!Next
<1>7. CASE ReadFails
  BY <1>7, StoreRefines DEF ReadFails, At, Register!Next
<1>8. CASE UNCHANGED vars
  BY <1>8 DEF vars, Register!vars
<1> QED BY <1>1, <1>2, <1>3, <1>4, <1>5, <1>6, <1>7, <1>8 DEF Next

LEMMA OspiRefines ==
  SlotInv /\ TypeOK' /\ Ospi!Next => [Register!Next]_(Register!vars)
<1> SUFFICES ASSUME SlotInv, TypeOK', Ospi!Next
             PROVE  Register!Next \/ UNCHANGED Register!vars
  OBVIOUS
<1>0. TypeOK
  BY DEF SlotInv
<1>1. CASE [Next]_vars
  BY <1>1, NorRefines
<1>2. ASSUME At("program")
      PROVE  /\ \A slot \in Pagewise : Store(slot) =>
                  Selected(slots') = Selected(slots)
             /\ \A slot \in LastPage : Store(slot) =>
                  Selected(slots') \in {Selected(slots), commit.record}
  <2>1. ~At("idle")
    BY <1>2 DEF At
  <2>2. /\ \A slot \in Pagewise : slot \in Slot /\ ~Decodes(slot)
        /\ Torn \in Slot /\ ~Decodes(Torn) /\ Committed(commit.record) \in Slot
    BY <1>0, <2>1, HelperTypes, SlotTypes DEF Pagewise
  <2> QED BY <1>2, <2>2, SelectedAfter DEF LastPage
<1>3. CASE Ospi!WritePage
  <2>1. ~At("idle") /\ At("program") /\ UNCHANGED acked
    BY <1>3, PageIs DEF At
  <2>2. /\ Selected(slots') \in {Selected(slots), commit.record}
        /\ Proceed("program") \/ Proceed("verify")
    BY <1>2, <1>3, <2>1, PageIs
  <2> QED BY <2>1, <2>2, ProceedRefines DEF Register!Next
<1>4. CASE Ospi!WriteFails
  <2>1. ~At("idle") /\ At("program") /\ UNCHANGED acked /\ commit' = NoCommit
    BY <1>4, PageIs DEF At
  <2>2. Selected(slots') \in {Selected(slots), commit.record}
    BY <1>2, <1>4, <2>1, PageIs
  <2> QED BY <2>1, <2>2, StoreRefines DEF Register!Next
<1>5. CASE Ospi!Verify
  <2>1. Decodes(slots[commit.target])
    <3>1. ~At("idle")
      BY <1>5, VerifyIs DEF At
    <3> QED BY <1>0, <1>5, <3>1, VerifyIs, HelperTypes, SlotTypes
  <2> QED BY <1>5, <2>1, VerifyIs, VerifyRefines DEF Register!Next
<1> QED BY <1>1, <1>3, <1>4, <1>5, OspiSteps DEF Ospi!Next, Next

\* For every width of the generation and whatever fails, a load returns the
\* old key or the new one, and a commit that returned OK has replaced the key.
THEOREM RegisterCorrect == BoardSpec => RegisterSpec
<1>1. BoardInit => Register!Init
  <2> SUFFICES ASSUME BoardInit
               PROVE  Register!Init
    OBVIOUS
  <2>1. Init
    BY DEF BoardInit, Ospi!Init, Init, Ospi!SlotNumbers, SlotNumbers,
           Ospi!Erased, Erased, Ospi!Torn, Torn, Ospi!NoCommit, NoCommit,
           Ospi!NoRecord, NoRecord
  <2>2. slots \in [SlotNumbers -> Slot]
    BY <2>1, InitType DEF TypeOK
  <2>3. ~Decodes(slots[0]) /\ ~Decodes(slots[1])
    BY <2>1, SlotTypes DEF Init, SlotNumbers
  <2>4. Selected(slots) = NoRecord
    BY <2>2, <2>3, NewestIs, SelectedType
  <2> QED BY <2>1, <2>4, ContentsTypes DEF Init, Register!Init, NoCommit
<1>2. SlotInv /\ TypeOK' /\ [BoardNext]_<<vars, board, written>> =>
        [Register!Next]_(Register!vars)
  <2>1. UNCHANGED vars => UNCHANGED Register!vars
    BY DEF vars, Register!vars
  <2> QED BY <2>1, NorRefines, OspiRefines DEF BoardNext
<1>3. BoardInv => SlotInv /\ TypeOK
  BY DEF BoardInv, SlotInv
<1> QED BY <1>1, <1>2, <1>3, InvAlways, PTL
        DEF BoardSpec, RegisterSpec, Register!Spec
=============================================================================
