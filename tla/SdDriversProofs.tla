--------------------------- MODULE SdDriversProofs ---------------------------
(***************************************************************************)
(* Proofs about both SD card drivers: Sdmmc for transfers of any number of *)
(* chunks, which events and which transfers may still be under way at each *)
(* point of the driver, and SdSpi for any number of sectors, what a driver *)
(* knows of a card that has left.                                          *)
(***************************************************************************)
EXTENDS SdDrivers, TLAPS

----------------------------------------------------------------------------
(* Sdmmc.                                                                  *)

ReadyPoints == {"ready_top", "ready_state", "ready_arm", "ready_enable",
                "ready_recheck", "ready_wait", "ready_woken"}
ArmedPoints == {"ready_recheck", "ready_wait", "ready_woken"}
IdmaPoints == {"start_check", "start", "wait_event", "woken"} \cup ReadyPoints
Working == {"wait", "wait_state", "chunk", "init_info"} \cup IdmaPoints
Aborting == {"abort", "abort_clear"}
Undone == {"init_deinit", "init_hal", "init_undo", "deinit_hal"}

\* Between operations, with a card that has been brought up.
Rests == At("idle") /\ ctx.initialized
\* From HAL_SD_Init on, until the media are given up.
Live == Rests \/ task.pc \in Working \cup Aborting

\* The driver's context at each point of an operation.
ContextFollows ==
  /\ task.pc # "idle" \/ ctx.initialized \/ ctx.hal_initialized =>
       ctx.objects_ready
  /\ Live => ctx.hal_initialized
  /\ task.pc \in Undone => ~ctx.hal_initialized
  /\ task.pc \in {"init_deinit", "init_hal"} => ~ctx.initialized
  /\ task.pc \in IdmaPoints => ctx.use_idma
  /\ task.pc \in IdmaPoints \cup {"chunk"} => task.op \in {"read", "write"}

\* Where a transfer may still run, and where its events may still be set.
TransferFollows ==
  /\ bus.job \in {"read", "write"} =>
       task.pc \in {"wait_event", "woken", "abort"}
  /\ Rests \/ task.pc \in Working \ {"wait_event", "woken"} => bus.job = "none"
  /\ bus.job # "none" /\ ~ctx.hal_initialized =>
       task.pc \in Undone \ {"init_hal"}
  /\ task.pc \in {"start_check", "start"} => flags \cap {"RX", "TX"} = {}
  /\ At("wait_event") /\ flags \cap {"RX", "TX"} # {} => bus.job = "none"
  /\ At("woken") /\ task.events \cap {"RX", "TX"} # {} => bus.job = "none"
  /\ ctx.transfer_active =>
       task.pc \in {"start", "wait_event", "woken", "abort"}

\* The ready interrupt is armed only in the ready wait.
ArmedFollows ==
  /\ ctx.ready_wait_active \/ bus.mask => task.pc \in ArmedPoints
  /\ At("ready_recheck") =>
       \/ flags \cap {"READY", "REMOVED"} # {}
       \/ ctx.ready_wait_active /\ bus.mask
  /\ ReadyNeverLost

\* A card that answered has lost that state only to a removal, and programs
\* only behind the end of a transfer.
CardFollows ==
  /\ card.d0 => card.state = "prg"
  /\ Live /\ ~removedSince => card.state \in {"tran", "prg"}
  /\ Rests \/ task.pc \in {"chunk", "start_check", "start", "init_info"} =>
       card.state # "prg"

\* A removal is in the event flag, or its event is in the task's hands.
RemovalFollows ==
  (Rests \/ task.pc \in Working) /\ ctx.use_idma /\ removedSince =>
    \/ "REMOVED" \in flags
    \/ task.pc \in {"woken", "ready_woken"} /\ "REMOVED" \in task.events

SdmmcInv ==
  /\ TypeOK /\ ContextFollows /\ TransferFollows /\ ArmedFollows
  /\ CardFollows /\ RemovalFollows /\ RegistersClocked

----------------------------------------------------------------------------
(* What the helpers of the driver do.                                      *)

LEMMA DisarmedIs ==
  ASSUME NEW b \in Buses
  PROVE  /\ Disarmed(b) \in Buses
         /\ Disarmed(b).hal = b.hal /\ Disarmed(b).job = b.job
         /\ Disarmed(b).mask => b.mask
         /\ Accessible => ~Disarmed(b).mask
BY DEF Disarmed, Buses

LEMMA InactiveIs ==
  ASSUME NEW c \in Contexts
  PROVE  /\ Inactive(c) \in Contexts /\ ~Inactive(c).ready_wait_active
         /\ Inactive(c).use_idma = c.use_idma
         /\ Inactive(c).objects_ready = c.objects_ready
         /\ Inactive(c).initialized = c.initialized
         /\ Inactive(c).hal_initialized = c.hal_initialized
         /\ Inactive(c).transfer_active = c.transfer_active
         /\ Inactive(c).media_removal_pending = c.media_removal_pending
BY DEF Inactive, Contexts

LEMMA NotedIs ==
  ASSUME TypeOK, NEW c \in Contexts
  PROVE  /\ Noted(c) \in Contexts
         /\ Noted(c).initialized => c.initialized
         /\ Noted(c).use_idma = c.use_idma
         /\ Noted(c).objects_ready = c.objects_ready
         /\ Noted(c).hal_initialized = c.hal_initialized
         /\ Noted(c).transfer_active = c.transfer_active
         /\ Noted(c).ready_wait_active = c.ready_wait_active
BY DEF Noted, InvalidateMedia, Contexts

LEMMA CleanupIs ==
  ASSUME TypeOK, NEW c \in Contexts, Cleanup(c)
  PROVE  /\ bus' \in Buses /\ bus'.hal = bus.hal /\ bus'.job = bus.job
         /\ bus'.mask => bus.mask /\ ~Accessible
         /\ ctx' \in Contexts /\ ~ctx'.ready_wait_active
         /\ ctx'.use_idma = c.use_idma
         /\ ctx'.objects_ready = c.objects_ready
         /\ ctx'.initialized = c.initialized
         /\ ctx'.hal_initialized = c.hal_initialized
         /\ ctx'.transfer_active = c.transfer_active
         /\ flags' = flags \ {"READY"} /\ flags' \subseteq Events
BY DisarmedIs, InactiveIs DEF Cleanup, TypeOK

LEMMA GotoIs ==
  ASSUME TypeOK, NEW point \in Points, Goto(point)
  PROVE  /\ task' \in Tasks /\ task'.pc = point /\ task'.op = task.op
         /\ task'.left = task.left /\ task'.events = task.events
BY DEF TypeOK, Tasks, Goto

LEMMA ReturnIs ==
  ASSUME MaxChunks \in Nat, Return
  PROVE  task' \in Tasks /\ task'.pc = "idle" /\ task'.op = "none"
BY DEF Return, NoTask, Tasks, Points

\* Where the end of a wait leads.
Onward ==
  /\ task' \in Tasks
  /\ task'.op \in {"read", "write"} => task'.left > 0
  /\ \/ task'.pc = "init_info"
     \/ task'.pc = "chunk" /\ task'.op \in {"read", "write"}
     \/ task'.pc = "idle" /\ task.op # "init"

LEMMA SucceedIs ==
  ASSUME MaxChunks \in Nat, TypeOK, Succeed
  PROVE  Onward
<1>1. CASE task.op = "init"
  <2>1. Goto("init_info") BY <1>1 DEF Succeed
  <2> QED BY <1>1, <2>1, GotoIs DEF Onward, Points
<1>2. CASE task.op \in {"read", "write"} /\ task.left > 1
  <2>1. task' = [task EXCEPT !.pc = "chunk", !.left = @ - 1]
    BY <1>2 DEF Succeed
  <2>2. task.left \in 0..MaxChunks /\ task.left - 1 \in 0..MaxChunks
    BY <1>2 DEF TypeOK, Tasks
  <2>3. task' \in Tasks
    BY <2>1, <2>2 DEF TypeOK, Tasks, Points
  <2> QED BY <1>2, <2>1, <2>2, <2>3 DEF Onward, TypeOK, Tasks
<1>3. CASE /\ task.op # "init"
           /\ ~(task.op \in {"read", "write"} /\ task.left > 1)
  <2>1. Return
    <3>1. \/ task.op \in {"status", "sync", "none"}
          \/ task.op \in {"read", "write"} /\ ~(task.left > 1)
      BY <1>3 DEF TypeOK, Tasks, Ops
    <3> QED BY <3>1 DEF Succeed
  <2> QED BY <1>3, <2>1, ReturnIs DEF Onward
<1> QED BY <1>1, <1>2, <1>3

LEMMA FailIs ==
  ASSUME MaxChunks \in Nat, TypeOK, NEW c \in Contexts, Fail(c)
  PROVE  /\ ctx' \in Contexts /\ task' \in Tasks
         /\ task'.op \in {"read", "write"} => task'.left > 0
         /\ task'.pc \in {"init_fail", "idle", "abort"}
         /\ ctx'.initialized => c.initialized /\ task'.pc # "idle"
         /\ ctx'.use_idma = c.use_idma
         /\ ctx'.objects_ready = c.objects_ready
         /\ ctx'.hal_initialized = c.hal_initialized
         /\ ctx'.transfer_active = c.transfer_active
         /\ ctx'.ready_wait_active = c.ready_wait_active
<1>1. CASE task.op = "init"
  <2>1. Goto("init_fail") /\ ctx' = c BY <1>1 DEF Fail
  <2> QED BY <1>1, <2>1, GotoIs DEF Points
<1>2. CASE task.op = "status"
  <2>1. Return /\ ctx' = InvalidateMedia(c) BY <1>2 DEF Fail
  <2> QED BY <1>2, <2>1, ReturnIs DEF InvalidateMedia, Contexts
<1>3. CASE task.op \notin {"init", "status"}
  <2>1. Goto("abort") /\ ctx' = c BY <1>3 DEF Fail
  <2> QED BY <1>3, <2>1, GotoIs DEF Points, TypeOK
<1> QED BY <1>1, <1>2, <1>3

----------------------------------------------------------------------------
(* The invariant holds initially and every step preserves it.              *)

USE DEF Live, Rests, Working, Aborting, Undone, IdmaPoints, ReadyPoints,
        ArmedPoints, At

LEMMA SdmmcInit == MaxChunks \in Nat /\ Init => SdmmcInv
<1> SUFFICES ASSUME MaxChunks \in Nat, Init PROVE SdmmcInv
  OBVIOUS
<1> USE DEF Init, NoTask, NoContext
<1>1. TypeOK
  <2>1. card \in Cards
    <3>1. [pin |-> TRUE, state |-> "out", d0 |-> FALSE] \in Cards
      BY DEF Cards
    <3>2. [pin |-> FALSE, state |-> "absent", d0 |-> FALSE] \in Cards
      BY DEF Cards
    <3> QED BY <3>1, <3>2
  <2>2. bus \in Buses BY DEF Buses
  <2>3. ctx \in Contexts BY DEF Contexts
  <2>4. task \in Tasks BY DEF Tasks, Points
  <2> QED BY <2>1, <2>2, <2>3, <2>4 DEF TypeOK
<1>2. /\ task.pc = "idle" /\ flags = {}
      /\ ~ctx.use_idma /\ ~ctx.initialized /\ ~ctx.transfer_active
      /\ ~ctx.ready_wait_active
      /\ bus.job = "none" /\ ~bus.mask
      /\ ~card.d0 /\ card.state # "prg" /\ ~removedSince
  OBVIOUS
<1>3. ContextFollows /\ TransferFollows
  BY <1>2 DEF ContextFollows, TransferFollows
<1>4. ArmedFollows /\ CardFollows
  BY <1>2 DEF ArmedFollows, ReadyNeverLost, CardFollows
<1>5. RemovalFollows /\ RegistersClocked
  BY <1>2 DEF RemovalFollows, RegistersClocked, Accessible
<1> QED BY <1>1, <1>3, <1>4, <1>5 DEF SdmmcInv

LEMMA RemovalUnheardStep ==
  ASSUME MaxChunks \in Nat, SdmmcInv, NEW lost \in BOOLEAN,
         RemovalUnheard(lost)
  PROVE  SdmmcInv'
<1> USE DEF SdmmcInv, RemovalUnheard, PinOpens, D0Lost
<1>1. TypeOK'
  <2>1. card' \in Cards BY DEF TypeOK, Cards
  <2>2. bus' \in Buses BY DEF TypeOK, Buses
  <2> QED BY <2>1, <2>2 DEF TypeOK
<1>2. /\ ContextFollows' /\ TransferFollows' /\ ArmedFollows'
      /\ CardFollows' /\ RemovalFollows' /\ RegistersClocked'
  BY DEF ContextFollows, TransferFollows, ArmedFollows, ReadyNeverLost,
     CardFollows, RemovalFollows, RegistersClocked, Accessible
<1> QED BY <1>1, <1>2

LEMMA MediaChangedIsrStep ==
  ASSUME MaxChunks \in Nat, SdmmcInv,
         NEW lost \in BOOLEAN, MediaChangedIsr(lost)
  PROVE  SdmmcInv'
<1> USE DEF SdmmcInv, MediaChangedIsr, PinOpens, Disarmed, D0Lost, Inactive,
            Signal, Accessible
<1>1. TypeOK'
  <2>1. card' \in Cards BY DEF TypeOK, Cards
  <2>2. bus' \in Buses BY DEF TypeOK, Buses
  <2>3. ctx' \in Contexts BY DEF TypeOK, Contexts
  <2>4. flags' \subseteq Events BY DEF TypeOK, Events
  <2> QED BY <2>1, <2>2, <2>3, <2>4 DEF TypeOK
<1>2. /\ ContextFollows' /\ TransferFollows' /\ ArmedFollows'
      /\ CardFollows' /\ RemovalFollows' /\ RegistersClocked'
  BY DEF ContextFollows, TransferFollows, ArmedFollows, ReadyNeverLost,
     CardFollows, RemovalFollows, RegistersClocked
<1> QED BY <1>1, <1>2

LEMMA CardInsertedStep ==
  ASSUME MaxChunks \in Nat, SdmmcInv, CardInserted
  PROVE  SdmmcInv'
<1> USE DEF SdmmcInv, CardInserted
<1>1. TypeOK'
  <2>1. card' \in Cards BY DEF TypeOK, Cards
  <2> QED BY <2>1 DEF TypeOK
<1>2. /\ ContextFollows' /\ TransferFollows' /\ ArmedFollows'
      /\ CardFollows' /\ RemovalFollows' /\ RegistersClocked'
  BY DEF ContextFollows, TransferFollows, ArmedFollows, ReadyNeverLost,
     CardFollows, RemovalFollows, RegistersClocked, Accessible
<1> QED BY <1>1, <1>2

LEMMA CardHoldsD0Step ==
  ASSUME MaxChunks \in Nat, SdmmcInv, CardHoldsD0
  PROVE  SdmmcInv'
<1> USE DEF SdmmcInv, CardHoldsD0
<1>1. TypeOK'
  <2>1. card' \in Cards BY DEF TypeOK, Cards
  <2> QED BY <2>1 DEF TypeOK
<1>2. /\ ContextFollows' /\ TransferFollows' /\ ArmedFollows'
      /\ CardFollows' /\ RemovalFollows' /\ RegistersClocked'
  BY DEF ContextFollows, TransferFollows, ArmedFollows, ReadyNeverLost,
     CardFollows, RemovalFollows, RegistersClocked, Accessible
<1> QED BY <1>1, <1>2

LEMMA CardReleasesD0Step ==
  ASSUME MaxChunks \in Nat, SdmmcInv, CardReleasesD0
  PROVE  SdmmcInv'
<1> USE DEF SdmmcInv, CardReleasesD0
<1>1. TypeOK'
  <2>1. card' \in Cards BY DEF TypeOK, Cards
  <2>2. bus' \in Buses BY DEF TypeOK, Buses
  <2> QED BY <2>1, <2>2 DEF TypeOK
<1>2. /\ ContextFollows' /\ TransferFollows' /\ ArmedFollows'
      /\ CardFollows' /\ RemovalFollows' /\ RegistersClocked'
  BY DEF ContextFollows, TransferFollows, ArmedFollows, ReadyNeverLost,
     CardFollows, RemovalFollows, RegistersClocked, Accessible
<1> QED BY <1>1, <1>2

LEMMA CardProgrammedStep ==
  ASSUME MaxChunks \in Nat, SdmmcInv, CardProgrammed
  PROVE  SdmmcInv'
<1> USE DEF SdmmcInv, CardProgrammed
<1>1. TypeOK'
  <2>1. card' \in Cards BY DEF TypeOK, Cards
  <2> QED BY <2>1 DEF TypeOK
<1>2. /\ ContextFollows' /\ TransferFollows' /\ ArmedFollows'
      /\ CardFollows' /\ RemovalFollows' /\ RegistersClocked'
  BY DEF ContextFollows, TransferFollows, ArmedFollows, ReadyNeverLost,
     CardFollows, RemovalFollows, RegistersClocked, Accessible
<1> QED BY <1>1, <1>2

LEMMA ReadyIrqStep ==
  ASSUME MaxChunks \in Nat, SdmmcInv, ReadyIrq
  PROVE  SdmmcInv'
<1> USE DEF SdmmcInv, ReadyIrq, Signal
<1>1. TypeOK'
  <2>1. bus' \in Buses BY DEF TypeOK, Buses
  <2>2. flags' \subseteq Events BY DEF TypeOK, Events
  <2> QED BY <2>1, <2>2 DEF TypeOK
<1>2. /\ ContextFollows' /\ TransferFollows' /\ ArmedFollows'
      /\ CardFollows' /\ RemovalFollows' /\ RegistersClocked'
  BY DEF ContextFollows, TransferFollows, ArmedFollows, ReadyNeverLost,
     CardFollows, RemovalFollows, RegistersClocked
<1> QED BY <1>1, <1>2

LEMMA TransferCompleteStep ==
  ASSUME MaxChunks \in Nat, SdmmcInv,
         NEW cmd12_fails \in BOOLEAN, TransferComplete(cmd12_fails)
  PROVE  SdmmcInv'
<1> USE DEF SdmmcInv, TransferComplete, Signal
<1>1. TypeOK'
  <2>1. card' \in Cards BY DEF TypeOK, Cards
  <2>2. bus' \in Buses BY DEF TypeOK, Buses
  <2>3. ctx' \in Contexts BY DEF TypeOK, Contexts
  <2>4. flags' \subseteq Events BY DEF TypeOK, Events
  <2> QED BY <2>1, <2>2, <2>3, <2>4 DEF TypeOK
<1>2. /\ ContextFollows' /\ TransferFollows' /\ ArmedFollows'
      /\ CardFollows' /\ RemovalFollows' /\ RegistersClocked'
  BY DEF ContextFollows, TransferFollows, ArmedFollows, ReadyNeverLost,
     CardFollows, RemovalFollows, RegistersClocked
<1> QED BY <1>1, <1>2

LEMMA TransferErrorStep ==
  ASSUME MaxChunks \in Nat, SdmmcInv, TransferError
  PROVE  SdmmcInv'
<1> USE DEF SdmmcInv, TransferError, Signal
<1>1. TypeOK'
  <2>1. bus' \in Buses BY DEF TypeOK, Buses
  <2>2. ctx' \in Contexts BY DEF TypeOK, Contexts
  <2>3. flags' \subseteq Events BY DEF TypeOK, Events
  <2> QED BY <2>1, <2>2, <2>3 DEF TypeOK
<1>2. /\ ContextFollows' /\ TransferFollows' /\ ArmedFollows'
      /\ CardFollows' /\ RemovalFollows' /\ RegistersClocked'
  BY DEF ContextFollows, TransferFollows, ArmedFollows, ReadyNeverLost,
     CardFollows, RemovalFollows, RegistersClocked
<1> QED BY <1>1, <1>2

LEMMA OrphanEndsStep ==
  ASSUME MaxChunks \in Nat, SdmmcInv, OrphanEnds
  PROVE  SdmmcInv'
<1> USE DEF SdmmcInv, OrphanEnds
<1>1. TypeOK'
  <2>1. card' \in Cards BY DEF TypeOK, Cards
  <2>2. bus' \in Buses BY DEF TypeOK, Buses
  <2> QED BY <2>1, <2>2 DEF TypeOK
<1>2. /\ ContextFollows' /\ TransferFollows' /\ ArmedFollows'
      /\ CardFollows' /\ RemovalFollows' /\ RegistersClocked'
  BY DEF ContextFollows, TransferFollows, ArmedFollows, ReadyNeverLost,
     CardFollows, RemovalFollows, RegistersClocked, Accessible
<1> QED BY <1>1, <1>2

LEMMA InitializeRefusedStep ==
  ASSUME MaxChunks \in Nat, SdmmcInv, InitializeRefused
  PROVE  SdmmcInv'
<1> USE DEF SdmmcInv, InitializeRefused, InvalidateMedia
<1>1. TypeOK'
  <2>1. ctx' \in Contexts BY DEF TypeOK, Contexts
  <2> QED BY <2>1 DEF TypeOK
<1>2. /\ ContextFollows' /\ TransferFollows' /\ ArmedFollows'
      /\ CardFollows' /\ RemovalFollows' /\ RegistersClocked'
  BY DEF ContextFollows, TransferFollows, ArmedFollows, ReadyNeverLost,
     CardFollows, RemovalFollows, RegistersClocked, Accessible
<1> QED BY <1>1, <1>2

LEMMA InitializeBeginStep ==
  ASSUME MaxChunks \in Nat, SdmmcInv, InitializeBegin
  PROVE  SdmmcInv'
<1> USE DEF SdmmcInv, InitializeBegin, NoTask
<1>1. TypeOK'
  <2>1. task' = [pc |-> "init_begin", op |-> "init", left |-> 0, events |-> {}]
  OBVIOUS
  <2>2. task' \in Tasks BY <2>1 DEF Tasks, Points, Ops
  <2> QED BY <2>2 DEF TypeOK
<1>2. /\ ContextFollows' /\ TransferFollows' /\ ArmedFollows'
      /\ CardFollows' /\ RemovalFollows' /\ RegistersClocked'
  BY DEF ContextFollows, TransferFollows, ArmedFollows, ReadyNeverLost,
     CardFollows, RemovalFollows, RegistersClocked, Accessible
<1> QED BY <1>1, <1>2

LEMMA InitializeForgetStep ==
  ASSUME MaxChunks \in Nat, SdmmcInv, InitializeForget
  PROVE  SdmmcInv'
<1> USE DEF SdmmcInv, InitializeForget, Goto, Inactive, Disarmed, Accessible
<1>1. TypeOK'
  <2>1. bus' \in Buses BY DEF TypeOK, Buses
  <2>2. ctx' \in Contexts BY DEF TypeOK, Contexts
  <2>3. task' \in Tasks BY DEF TypeOK, Tasks, Points
  <2>4. task'.op \in {"read", "write"} => task'.left > 0 BY DEF TypeOK
  <2> QED BY <2>1, <2>2, <2>3, <2>4 DEF TypeOK
<1>2. /\ ContextFollows' /\ TransferFollows' /\ ArmedFollows'
      /\ CardFollows' /\ RemovalFollows' /\ RegistersClocked'
  BY DEF ContextFollows, TransferFollows, ArmedFollows, ReadyNeverLost,
     CardFollows, RemovalFollows, RegistersClocked
<1> QED BY <1>1, <1>2

LEMMA InitializeClearStep ==
  ASSUME MaxChunks \in Nat, SdmmcInv, InitializeClear
  PROVE  SdmmcInv'
<1> USE DEF SdmmcInv, InitializeClear, Goto, InvalidateMedia
<1>1. TypeOK'
  <2>1. ctx' \in Contexts BY DEF TypeOK, Contexts
  <2>2. flags' \subseteq Events OBVIOUS
  <2>3. task' \in Tasks BY DEF TypeOK, Tasks, Points
  <2>4. task'.op \in {"read", "write"} => task'.left > 0 BY DEF TypeOK
  <2> QED BY <2>1, <2>2, <2>3, <2>4 DEF TypeOK
<1>2. /\ ContextFollows' /\ TransferFollows' /\ ArmedFollows'
      /\ CardFollows' /\ RemovalFollows' /\ RegistersClocked'
  BY DEF ContextFollows, TransferFollows, ArmedFollows, ReadyNeverLost,
     CardFollows, RemovalFollows, RegistersClocked, Accessible
<1> QED BY <1>1, <1>2

LEMMA InitializeDeInitStep ==
  ASSUME MaxChunks \in Nat, SdmmcInv, InitializeDeInit
  PROVE  SdmmcInv'
<1> USE DEF SdmmcInv, InitializeDeInit, Goto, HalDeInit
<1>1. TypeOK'
  <2>1. card' \in Cards BY DEF TypeOK, Cards
  <2>2. bus' \in Buses BY DEF TypeOK, Buses
  <2>3. task' \in Tasks BY DEF TypeOK, Tasks, Points
  <2>4. task'.op \in {"read", "write"} => task'.left > 0 BY DEF TypeOK
  <2> QED BY <2>1, <2>2, <2>3, <2>4 DEF TypeOK
<1>2. /\ ContextFollows' /\ TransferFollows' /\ ArmedFollows'
      /\ CardFollows' /\ RemovalFollows' /\ RegistersClocked'
  BY DEF ContextFollows, TransferFollows, ArmedFollows, ReadyNeverLost,
     CardFollows, RemovalFollows, RegistersClocked, Accessible
<1> QED BY <1>1, <1>2

LEMMA InitializeHalStep ==
  ASSUME MaxChunks \in Nat, SdmmcInv, InitializeHal
  PROVE  SdmmcInv'
<1> USE DEF SdmmcInv
<1>1. CASE /\ card.state # "absent" /\ At("init_hal") /\ Goto("wait")
           /\ card' = [card EXCEPT !.state = "tran", !.d0 = FALSE]
           /\ bus' = [bus EXCEPT !.hal = "ready", !.error = FALSE,
                                 !.mask = FALSE, !.end = FALSE]
           /\ ctx' = [Inactive(ctx) EXCEPT !.hal_initialized = TRUE]
           /\ removedSince' = FALSE /\ flags' = flags
  <2>1. /\ task' \in Tasks /\ task'.pc = "wait" /\ task'.op = task.op
        /\ task'.left = task.left
    BY <1>1, GotoIs DEF Points
  <2>2. /\ card' \in Cards /\ card'.state = "tran" /\ ~card'.d0
    BY <1>1 DEF TypeOK, Cards
  <2>3. /\ bus' \in Buses /\ bus'.hal = "ready" /\ bus'.job = bus.job
        /\ ~bus'.mask
    BY <1>1 DEF TypeOK, Buses
  <2>4. /\ ctx' \in Contexts /\ ctx'.hal_initialized
        /\ ctx'.initialized = ctx.initialized
        /\ ctx'.objects_ready = ctx.objects_ready
        /\ ctx'.transfer_active = ctx.transfer_active
        /\ ~ctx'.ready_wait_active
    BY <1>1 DEF TypeOK, Contexts, Inactive
  <2>5. /\ At("init_hal") /\ flags' = flags
        /\ removedSince' = FALSE
    BY <1>1
  <2>6. TypeOK' BY <2>1, <2>2, <2>3, <2>4, <2>5 DEF TypeOK
  <2>7. /\ ContextFollows' /\ TransferFollows' /\ ArmedFollows'
        /\ CardFollows' /\ RemovalFollows' /\ RegistersClocked'
    BY <2>1, <2>2, <2>3, <2>4, <2>5 DEF ContextFollows, TransferFollows,
       ArmedFollows, ReadyNeverLost, CardFollows, RemovalFollows,
       RegistersClocked
  <2> QED BY <2>6, <2>7
<1>2. ASSUME At("init_hal"), NEW hal \in {"ready", "busy"}, Return,
             bus' = [bus EXCEPT !.hal = hal, !.error = TRUE],
             ctx' = [Noted(ctx) EXCEPT !.hal_initialized = TRUE],
             UNCHANGED <<card, removedSince, flags>>
      PROVE  SdmmcInv'
  <2>1. task' \in Tasks /\ task'.pc = "idle" /\ task'.op = "none"
    BY <1>2, ReturnIs
  <2>2. /\ bus' \in Buses /\ bus'.hal # "reset" /\ bus'.job = bus.job
        /\ bus'.mask = bus.mask
    BY <1>2 DEF TypeOK, Buses
  <2>3. /\ ctx' \in Contexts /\ ctx'.hal_initialized
        /\ ctx'.initialized => ctx.initialized
        /\ ctx'.objects_ready = ctx.objects_ready
        /\ ctx'.transfer_active = ctx.transfer_active
        /\ ctx'.ready_wait_active = ctx.ready_wait_active
    BY <1>2, NotedIs DEF TypeOK, Contexts
  <2>4. ~ctx.initialized BY <1>2 DEF ContextFollows
  <2>5. TypeOK' BY <1>2, <2>1, <2>2, <2>3, <2>4 DEF TypeOK
  <2>6. /\ ContextFollows' /\ TransferFollows' /\ ArmedFollows'
        /\ CardFollows' /\ RemovalFollows' /\ RegistersClocked'
    BY <1>2, <2>1, <2>2, <2>3, <2>4 DEF ContextFollows, TransferFollows,
       ArmedFollows, ReadyNeverLost, CardFollows, RemovalFollows,
       RegistersClocked
  <2> QED BY <2>5, <2>6
<1> QED BY <1>1, <1>2 DEF InitializeHal

LEMMA InitializeDoneStep ==
  ASSUME MaxChunks \in Nat, SdmmcInv, InitializeDone
  PROVE  SdmmcInv'
<1> USE DEF SdmmcInv
<1>1. CASE /\ At("init_info") /\ Return
           /\ ctx' = [ctx EXCEPT !.media_removal_pending = FALSE,
                                 !.initialized = TRUE,
                                 !.transfer_hal_error = FALSE]
           /\ UNCHANGED <<card, bus, flags, removedSince>>
  <2>1. task' \in Tasks /\ task'.pc = "idle" /\ task'.op = "none"
    BY <1>1, ReturnIs
  <2>2. /\ ctx' \in Contexts /\ ctx'.initialized
        /\ ctx'.hal_initialized = ctx.hal_initialized
        /\ ctx'.objects_ready = ctx.objects_ready
        /\ ctx'.use_idma = ctx.use_idma
        /\ ctx'.transfer_active = ctx.transfer_active
        /\ ctx'.ready_wait_active = ctx.ready_wait_active
    BY <1>1 DEF TypeOK, Contexts
  <2>3. TypeOK' BY <1>1, <2>1, <2>2 DEF TypeOK
  <2>4. /\ ContextFollows' /\ TransferFollows' /\ ArmedFollows'
        /\ CardFollows' /\ RemovalFollows' /\ RegistersClocked'
    BY <1>1, <2>1, <2>2 DEF ContextFollows, TransferFollows, ArmedFollows,
       ReadyNeverLost, Accessible, CardFollows, RemovalFollows,
       RegistersClocked
  <2> QED BY <2>3, <2>4
<1>2. CASE /\ At("init_info") /\ Goto("init_fail")
           /\ UNCHANGED <<ctx, card, bus, flags, removedSince>>
  <2>1. /\ task' \in Tasks /\ task'.pc = "init_fail" /\ task'.op = task.op
        /\ task'.left = task.left
    BY <1>2, GotoIs DEF Points
  <2>2. TypeOK' BY <1>2, <2>1 DEF TypeOK
  <2>3. /\ ContextFollows' /\ TransferFollows' /\ ArmedFollows'
        /\ CardFollows' /\ RemovalFollows' /\ RegistersClocked'
    BY <1>2, <2>1 DEF ContextFollows, TransferFollows, ArmedFollows,
       ReadyNeverLost, Accessible, CardFollows, RemovalFollows,
       RegistersClocked
  <2> QED BY <2>2, <2>3
<1> QED BY <1>1, <1>2 DEF InitializeDone

LEMMA InitializeFailStep ==
  ASSUME MaxChunks \in Nat, SdmmcInv, InitializeFail
  PROVE  SdmmcInv'
<1> USE DEF SdmmcInv, InitializeFail, Goto, Disarmed, Inactive, Accessible
<1>1. TypeOK'
  <2>1. bus' \in Buses BY DEF TypeOK, Buses
  <2>2. ctx' \in Contexts BY DEF TypeOK, Contexts
  <2>3. task' \in Tasks BY DEF TypeOK, Tasks, Points
  <2>4. task'.op \in {"read", "write"} => task'.left > 0 BY DEF TypeOK
  <2> QED BY <2>1, <2>2, <2>3, <2>4 DEF TypeOK
<1>2. /\ ContextFollows' /\ TransferFollows' /\ ArmedFollows'
      /\ CardFollows' /\ RemovalFollows' /\ RegistersClocked'
  BY DEF ContextFollows, TransferFollows, ArmedFollows, ReadyNeverLost,
     CardFollows, RemovalFollows, RegistersClocked
<1> QED BY <1>1, <1>2

LEMMA InitializeUndoStep ==
  ASSUME MaxChunks \in Nat, SdmmcInv, InitializeUndo
  PROVE  SdmmcInv'
<1> USE DEF SdmmcInv, InitializeUndo, Return, HalDeInit, InvalidateMedia,
            NoTask
<1>1. TypeOK'
  <2>1. card' \in Cards BY DEF TypeOK, Cards
  <2>2. bus' \in Buses BY DEF TypeOK, Buses
  <2>3. ctx' \in Contexts BY DEF TypeOK, Contexts
  <2>4. task' \in Tasks BY DEF Tasks, Points
  <2>5. task'.op \in {"read", "write"} => task'.left > 0 OBVIOUS
  <2> QED BY <2>1, <2>2, <2>3, <2>4, <2>5 DEF TypeOK
<1>2. /\ ContextFollows' /\ TransferFollows' /\ ArmedFollows'
      /\ CardFollows' /\ RemovalFollows' /\ RegistersClocked'
  BY DEF ContextFollows, TransferFollows, ArmedFollows, ReadyNeverLost,
     CardFollows, RemovalFollows, RegistersClocked, Accessible
<1> QED BY <1>1, <1>2

LEMMA RefusedStep ==
  ASSUME MaxChunks \in Nat, SdmmcInv, Refused
  PROVE  SdmmcInv'
<1> USE DEF SdmmcInv, Refused, Unavailable, Noted, InvalidateMedia
<1>1. TypeOK'
  <2>1. ctx' \in Contexts BY DEF TypeOK, Contexts
  <2> QED BY <2>1 DEF TypeOK
<1>2. /\ ContextFollows' /\ TransferFollows' /\ ArmedFollows'
      /\ CardFollows' /\ RemovalFollows' /\ RegistersClocked'
  BY DEF ContextFollows, TransferFollows, ArmedFollows, ReadyNeverLost,
     CardFollows, RemovalFollows, RegistersClocked, Accessible
<1> QED BY <1>1, <1>2

LEMMA BeginCheckStep ==
  ASSUME MaxChunks \in Nat, SdmmcInv,
         NEW op \in {"status", "sync"}, Begin(op, 0)
  PROVE  SdmmcInv'
<1> USE DEF SdmmcInv, Begin, Unavailable
<1>1. TypeOK'
  <2>1. task' \in Tasks /\ (op \in {"read", "write"} => task'.left > 0)
    BY DEF Tasks, Points, Ops
  <2> QED BY <2>1 DEF TypeOK
<1>2. /\ ContextFollows' /\ TransferFollows' /\ ArmedFollows'
      /\ CardFollows' /\ RemovalFollows' /\ RegistersClocked'
  BY DEF ContextFollows, TransferFollows, ArmedFollows, ReadyNeverLost,
     CardFollows, RemovalFollows, RegistersClocked, Accessible
<1> QED BY <1>1, <1>2

LEMMA BeginTransferStep ==
  ASSUME MaxChunks \in Nat, SdmmcInv, NEW op \in {"read", "write"},
         NEW n \in 1..MaxChunks, Begin(op, n)
  PROVE  SdmmcInv'
<1> USE DEF SdmmcInv, Begin, Unavailable
<1>1. TypeOK'
  <2>1. task' \in Tasks /\ (op \in {"read", "write"} => task'.left > 0)
    BY DEF Tasks, Points, Ops
  <2> QED BY <2>1 DEF TypeOK
<1>2. /\ ContextFollows' /\ TransferFollows' /\ ArmedFollows'
      /\ CardFollows' /\ RemovalFollows' /\ RegistersClocked'
  BY DEF ContextFollows, TransferFollows, ArmedFollows, ReadyNeverLost,
     CardFollows, RemovalFollows, RegistersClocked, Accessible
<1> QED BY <1>1, <1>2

LEMMA WaitMediaStep ==
  ASSUME MaxChunks \in Nat, SdmmcInv, WaitMedia
  PROVE  SdmmcInv'
<1> USE DEF SdmmcInv, WaitMedia, Unavailable, Fail, Noted, Goto,
            InvalidateMedia, Return, NoTask
<1>1. TypeOK'
  <2>1. ctx' \in Contexts BY DEF TypeOK, Contexts
  <2>2. task' \in Tasks BY DEF TypeOK, Tasks, Points
  <2>3. task'.op \in {"read", "write"} => task'.left > 0 BY DEF TypeOK, Tasks
  <2> QED BY <2>1, <2>2, <2>3 DEF TypeOK
<1>2. /\ ContextFollows' /\ TransferFollows' /\ ArmedFollows'
      /\ CardFollows' /\ RemovalFollows' /\ RegistersClocked'
  BY DEF ContextFollows, TypeOK, Contexts, Tasks, TransferFollows,
     ArmedFollows, ReadyNeverLost, CardFollows, RemovalFollows,
     RegistersClocked, Accessible
<1> QED BY <1>1, <1>2

LEMMA WaitStateStep ==
  ASSUME MaxChunks \in Nat, SdmmcInv, WaitState
  PROVE  SdmmcInv'
<1> USE DEF SdmmcInv
<1>1. CASE /\ At("wait_state") /\ card.state = "tran" /\ Succeed
           /\ UNCHANGED <<bus, ctx, card, flags, removedSince>>
  <2>1. Onward
    BY <1>1, SucceedIs
  <2>2. TypeOK' BY <1>1, <2>1 DEF TypeOK, Onward
  <2>3. /\ ContextFollows' /\ TransferFollows' /\ ArmedFollows'
        /\ CardFollows' /\ RemovalFollows' /\ RegistersClocked'
    BY <1>1, <2>1 DEF Onward, ContextFollows, TransferFollows, ArmedFollows,
       ReadyNeverLost, Accessible, CardFollows, RemovalFollows,
       RegistersClocked
  <2> QED BY <2>2, <2>3
<1>2. ASSUME At("wait_state"), NEW failed \in BOOLEAN, Goto("wait"),
             bus' = [bus EXCEPT !.error = @ \/ failed],
             UNCHANGED <<ctx, card, flags, removedSince>>
      PROVE  SdmmcInv'
  <2>1. /\ task' \in Tasks /\ task'.pc = "wait" /\ task'.op = task.op
        /\ task'.left = task.left
    BY <1>2, GotoIs DEF Points
  <2>2. /\ bus' \in Buses /\ bus'.hal = bus.hal /\ bus'.job = bus.job
        /\ bus'.mask = bus.mask
    BY <1>2 DEF TypeOK, Buses
  <2>3. TypeOK' BY <1>2, <2>1, <2>2 DEF TypeOK
  <2>4. /\ ContextFollows' /\ TransferFollows' /\ ArmedFollows'
        /\ CardFollows' /\ RemovalFollows' /\ RegistersClocked'
    BY <1>2, <2>1, <2>2 DEF ContextFollows, TransferFollows, ArmedFollows,
       ReadyNeverLost, Accessible, CardFollows, RemovalFollows,
       RegistersClocked
  <2> QED BY <2>3, <2>4
<1>3. ASSUME At("wait_state"), NEW failed \in BOOLEAN, Fail(ctx),
             bus' = [bus EXCEPT !.error = @ \/ failed],
             UNCHANGED <<card, flags, removedSince>>
      PROVE  SdmmcInv'
  <2>1. /\ ctx' \in Contexts /\ task' \in Tasks
        /\ task'.op \in {"read", "write"} => task'.left > 0
        /\ task'.pc \in {"init_fail", "idle", "abort"}
        /\ ctx'.initialized => ctx.initialized /\ task'.pc # "idle"
        /\ ctx'.use_idma = ctx.use_idma
        /\ ctx'.objects_ready = ctx.objects_ready
        /\ ctx'.hal_initialized = ctx.hal_initialized
        /\ ctx'.transfer_active = ctx.transfer_active
        /\ ctx'.ready_wait_active = ctx.ready_wait_active
    BY <1>3, FailIs DEF TypeOK
  <2>2. /\ bus' \in Buses /\ bus'.hal = bus.hal /\ bus'.job = bus.job
        /\ bus'.mask = bus.mask
    BY <1>3 DEF TypeOK, Buses
  <2>3. TypeOK' BY <1>3, <2>1, <2>2 DEF TypeOK
  <2>4. /\ ContextFollows' /\ TransferFollows' /\ ArmedFollows'
        /\ CardFollows' /\ RemovalFollows' /\ RegistersClocked'
    BY <1>3, <2>1, <2>2 DEF ContextFollows, TransferFollows, ArmedFollows,
       ReadyNeverLost, Accessible, CardFollows, RemovalFollows,
       RegistersClocked
  <2> QED BY <2>3, <2>4
<1> QED BY <1>1, <1>2, <1>3 DEF WaitState

LEMMA PollBlockStep ==
  ASSUME MaxChunks \in Nat, SdmmcInv, PollBlock
  PROVE  SdmmcInv'
<1> USE DEF SdmmcInv, PollBlock, Goto, Noted, InvalidateMedia
<1>1. TypeOK'
  <2>1. card' \in Cards BY DEF TypeOK, Cards
  <2>2. bus' \in Buses BY DEF TypeOK, Buses
  <2>3. ctx' \in Contexts BY DEF TypeOK, Contexts
  <2>4. task' \in Tasks BY DEF TypeOK, Tasks, Points
  <2>5. task'.op \in {"read", "write"} => task'.left > 0 BY DEF TypeOK, Tasks
  <2> QED BY <2>1, <2>2, <2>3, <2>4, <2>5 DEF TypeOK
<1>2. /\ ContextFollows' /\ TransferFollows' /\ ArmedFollows'
      /\ CardFollows' /\ RemovalFollows' /\ RegistersClocked'
  BY DEF ContextFollows, TypeOK, Cards, Buses, Contexts, Tasks,
     TransferFollows, ArmedFollows, ReadyNeverLost, CardFollows,
     RemovalFollows, RegistersClocked, Accessible
<1> QED BY <1>1, <1>2

LEMMA ChunkClearStep ==
  ASSUME MaxChunks \in Nat, SdmmcInv, ChunkClear
  PROVE  SdmmcInv'
<1> USE DEF SdmmcInv, ChunkClear, Goto, ClearTransferEvents
<1>1. TypeOK'
  <2>1. ctx' \in Contexts BY DEF TypeOK, Contexts
  <2>2. flags' \subseteq Events BY DEF TypeOK
  <2>3. task' \in Tasks BY DEF TypeOK, Tasks, Points
  <2>4. task'.op \in {"read", "write"} => task'.left > 0 BY DEF TypeOK
  <2> QED BY <2>1, <2>2, <2>3, <2>4 DEF TypeOK
<1>2. /\ ContextFollows' /\ TransferFollows' /\ ArmedFollows'
      /\ CardFollows' /\ RemovalFollows' /\ RegistersClocked'
  BY DEF ContextFollows, TransferFollows, ArmedFollows, ReadyNeverLost,
     CardFollows, RemovalFollows, RegistersClocked, Accessible
<1> QED BY <1>1, <1>2

LEMMA ChunkCheckStep ==
  ASSUME MaxChunks \in Nat, SdmmcInv, ChunkCheck
  PROVE  SdmmcInv'
<1> USE DEF SdmmcInv, ChunkCheck, Unavailable, Return, Noted, Goto, NoTask,
            InvalidateMedia
<1>1. TypeOK'
  <2>1. ctx' \in Contexts BY DEF TypeOK, Contexts
  <2>2. task' \in Tasks BY DEF TypeOK, Tasks, Points
  <2>3. task'.op \in {"read", "write"} => task'.left > 0 BY DEF TypeOK, Tasks
  <2> QED BY <2>1, <2>2, <2>3 DEF TypeOK
<1>2. /\ ContextFollows' /\ TransferFollows' /\ ArmedFollows'
      /\ CardFollows' /\ RemovalFollows' /\ RegistersClocked'
  BY DEF ContextFollows, TypeOK, Contexts, Tasks, TransferFollows,
     ArmedFollows, ReadyNeverLost, CardFollows, RemovalFollows,
     RegistersClocked, Accessible
<1> QED BY <1>1, <1>2

LEMMA ChunkStartStep ==
  ASSUME MaxChunks \in Nat, SdmmcInv, ChunkStart
  PROVE  SdmmcInv'
<1> USE DEF SdmmcInv
<1>1. CASE /\ At("start") /\ Goto("wait_event")
           /\ bus' = [bus EXCEPT !.hal = "busy", !.error = FALSE,
                                 !.job = task.op]
           /\ UNCHANGED <<card, ctx, flags, removedSince>>
  <2>1. /\ task' \in Tasks /\ task'.pc = "wait_event" /\ task'.op = task.op
        /\ task'.left = task.left
    BY <1>1, GotoIs DEF Points
  <2>2. task.op \in {"read", "write"} BY <1>1 DEF ContextFollows
  <2>3. /\ bus' \in Buses /\ bus'.hal = "busy" /\ bus'.job = task.op
        /\ bus'.mask = bus.mask
    BY <1>1, <2>2 DEF TypeOK, Buses
  <2>4. TypeOK' BY <1>1, <2>1, <2>2, <2>3 DEF TypeOK
  <2>5. /\ ContextFollows' /\ TransferFollows' /\ ArmedFollows'
        /\ CardFollows' /\ RemovalFollows' /\ RegistersClocked'
    BY <1>1, <2>1, <2>2, <2>3 DEF ContextFollows, TransferFollows,
       ArmedFollows, ReadyNeverLost, CardFollows, RemovalFollows,
       RegistersClocked
  <2> QED BY <2>4, <2>5
<1>2. CASE /\ At("start") /\ Goto("abort")
           /\ bus' = [bus EXCEPT !.error = @ \/ bus.hal = "ready"]
           /\ UNCHANGED <<card, ctx, flags, removedSince>>
  <2>1. /\ task' \in Tasks /\ task'.pc = "abort" /\ task'.op = task.op
        /\ task'.left = task.left
    BY <1>2, GotoIs DEF Points
  <2>2. /\ bus' \in Buses /\ bus'.hal = bus.hal /\ bus'.job = bus.job
        /\ bus'.mask = bus.mask
    BY <1>2 DEF TypeOK, Buses
  <2>3. TypeOK' BY <1>2, <2>1, <2>2 DEF TypeOK
  <2>4. /\ ContextFollows' /\ TransferFollows' /\ ArmedFollows'
        /\ CardFollows' /\ RemovalFollows' /\ RegistersClocked'
    BY <1>2, <2>1, <2>2 DEF ContextFollows, TransferFollows, ArmedFollows,
       ReadyNeverLost, Accessible, CardFollows, RemovalFollows,
       RegistersClocked
  <2> QED BY <2>3, <2>4
<1> QED BY <1>1, <1>2 DEF ChunkStart

LEMMA WaitEventStep ==
  ASSUME MaxChunks \in Nat, SdmmcInv, WaitEvent
  PROVE  SdmmcInv'
<1> USE DEF SdmmcInv, WaitEvent, WaitFlag, CompletionEvent
<1>1. TypeOK'
  <2>1. flags' \subseteq Events BY DEF TypeOK
  <2>2. task' \in Tasks BY DEF TypeOK, Tasks, Points
  <2>3. task'.op \in {"read", "write"} => task'.left > 0 BY DEF TypeOK
  <2> QED BY <2>1, <2>2, <2>3 DEF TypeOK
<1>2. /\ ContextFollows' /\ TransferFollows' /\ ArmedFollows'
      /\ CardFollows' /\ RemovalFollows' /\ RegistersClocked'
  BY DEF ContextFollows, TransferFollows, ArmedFollows, ReadyNeverLost,
     CardFollows, RemovalFollows, RegistersClocked, Accessible
<1> QED BY <1>1, <1>2

LEMMA WokenStep ==
  ASSUME MaxChunks \in Nat, SdmmcInv, Woken
  PROVE  SdmmcInv'
<1> USE DEF SdmmcInv, Woken, InvalidateMedia, CompletionEvent, Goto
<1>1. TypeOK'
  <2>1. ctx' \in Contexts BY DEF TypeOK, Contexts
  <2>2. task' \in Tasks BY DEF TypeOK, Tasks, Points
  <2>3. task'.op \in {"read", "write"} => task'.left > 0 BY DEF TypeOK, Tasks
  <2> QED BY <2>1, <2>2, <2>3 DEF TypeOK
<1>2. /\ ContextFollows' /\ TransferFollows' /\ ArmedFollows'
      /\ CardFollows' /\ RemovalFollows' /\ RegistersClocked'
  BY DEF ContextFollows, TypeOK, Tasks, TransferFollows, ArmedFollows,
     ReadyNeverLost, CardFollows, RemovalFollows, RegistersClocked,
     Accessible
<1> QED BY <1>1, <1>2

LEMMA ReadyCheckStep ==
  ASSUME MaxChunks \in Nat, SdmmcInv, ReadyCheck
  PROVE  SdmmcInv'
<1> USE DEF SdmmcInv, ReadyCheck, Unavailable, Cleanup, Noted, Goto, Disarmed,
            Inactive, InvalidateMedia, Accessible
<1>1. TypeOK'
  <2>1. bus' \in Buses BY DEF TypeOK, Buses
  <2>2. ctx' \in Contexts BY DEF TypeOK, Contexts
  <2>3. flags' \subseteq Events BY DEF TypeOK
  <2>4. task' \in Tasks BY DEF TypeOK, Tasks, Points
  <2>5. task'.op \in {"read", "write"} => task'.left > 0 BY DEF TypeOK, Tasks
  <2> QED BY <2>1, <2>2, <2>3, <2>4, <2>5 DEF TypeOK
<1>2. ContextFollows' /\ TransferFollows'
  BY DEF ContextFollows, TypeOK, Contexts, Tasks, TransferFollows
<1>3. ArmedFollows' /\ CardFollows'
  BY DEF ArmedFollows, ReadyNeverLost, TypeOK, Buses, Contexts, Tasks,
     CardFollows
<1>4. RemovalFollows' /\ RegistersClocked'
  BY DEF RemovalFollows, TypeOK, Buses, Contexts, RegistersClocked
<1> QED BY <1>1, <1>2, <1>3, <1>4

LEMMA ReadyStateStep ==
  ASSUME MaxChunks \in Nat, SdmmcInv, ReadyState
  PROVE  SdmmcInv'
<1> USE DEF SdmmcInv
<1>1. CASE /\ At("ready_state") /\ card.state = "tran" /\ Cleanup(ctx)
           /\ Succeed /\ UNCHANGED <<card, removedSince>>
  <2>1. Onward
    BY <1>1, SucceedIs
  <2>2. /\ bus' \in Buses /\ bus'.hal = bus.hal /\ bus'.job = bus.job
        /\ bus'.mask => bus.mask /\ ~Accessible
        /\ ctx' \in Contexts /\ ~ctx'.ready_wait_active
        /\ ctx'.use_idma = ctx.use_idma
        /\ ctx'.objects_ready = ctx.objects_ready
        /\ ctx'.initialized = ctx.initialized
        /\ ctx'.hal_initialized = ctx.hal_initialized
        /\ ctx'.transfer_active = ctx.transfer_active
        /\ flags' = flags \ {"READY"} /\ flags' \subseteq Events
    BY <1>1, CleanupIs DEF TypeOK
  <2>3. TypeOK' BY <1>1, <2>1, <2>2 DEF TypeOK, Onward
  <2>4. /\ ContextFollows' /\ TransferFollows' /\ ArmedFollows'
        /\ CardFollows' /\ RemovalFollows' /\ RegistersClocked'
    BY <1>1, <2>1, <2>2 DEF Onward, ContextFollows, TransferFollows,
       ArmedFollows, ReadyNeverLost, Accessible, CardFollows, RemovalFollows,
       RegistersClocked
  <2> QED BY <2>3, <2>4
<1>2. CASE /\ At("ready_state") /\ Goto("abort")
           /\ flags' = flags \ {"READY"}
           /\ bus' = [Disarmed(bus) EXCEPT !.error = TRUE]
           /\ ctx' = Inactive(ctx) /\ UNCHANGED <<card, removedSince>>
  <2>1. /\ task' \in Tasks /\ task'.pc = "abort" /\ task'.op = task.op
        /\ task'.left = task.left
    BY <1>2, GotoIs DEF Points
  <2>2. /\ bus' \in Buses /\ bus'.hal = bus.hal /\ bus'.job = bus.job
        /\ bus'.mask => bus.mask /\ ~Accessible
    BY <1>2, DisarmedIs DEF TypeOK, Buses
  <2>3. /\ ctx' \in Contexts /\ ~ctx'.ready_wait_active
        /\ ctx'.use_idma = ctx.use_idma
        /\ ctx'.objects_ready = ctx.objects_ready
        /\ ctx'.initialized = ctx.initialized
        /\ ctx'.hal_initialized = ctx.hal_initialized
        /\ ctx'.transfer_active = ctx.transfer_active
    BY <1>2, InactiveIs DEF TypeOK
  <2>4. TypeOK' BY <1>2, <2>1, <2>2, <2>3 DEF TypeOK
  <2>5. /\ ContextFollows' /\ TransferFollows' /\ ArmedFollows'
        /\ CardFollows' /\ RemovalFollows' /\ RegistersClocked'
    BY <1>2, <2>1, <2>2, <2>3 DEF ContextFollows, TransferFollows,
       ArmedFollows, ReadyNeverLost, Accessible, CardFollows, RemovalFollows,
       RegistersClocked
  <2> QED BY <2>4, <2>5
<1>3. CASE /\ At("ready_state") /\ Goto("ready_arm")
           /\ UNCHANGED <<bus, ctx, flags, card, removedSince>>
  <2>1. /\ task' \in Tasks /\ task'.pc = "ready_arm" /\ task'.op = task.op
        /\ task'.left = task.left
    BY <1>3, GotoIs DEF Points
  <2>2. TypeOK' BY <1>3, <2>1 DEF TypeOK
  <2>3. /\ ContextFollows' /\ TransferFollows' /\ ArmedFollows'
        /\ CardFollows' /\ RemovalFollows' /\ RegistersClocked'
    BY <1>3, <2>1 DEF ContextFollows, TransferFollows, ArmedFollows,
       ReadyNeverLost, Accessible, CardFollows, RemovalFollows,
       RegistersClocked
  <2> QED BY <2>2, <2>3
<1>4. CASE /\ At("ready_state") /\ Cleanup(ctx) /\ Goto("abort")
           /\ UNCHANGED <<card, removedSince>>
  <2>1. /\ task' \in Tasks /\ task'.pc = "abort" /\ task'.op = task.op
        /\ task'.left = task.left
    BY <1>4, GotoIs DEF Points
  <2>2. /\ bus' \in Buses /\ bus'.hal = bus.hal /\ bus'.job = bus.job
        /\ bus'.mask => bus.mask /\ ~Accessible
        /\ ctx' \in Contexts /\ ~ctx'.ready_wait_active
        /\ ctx'.use_idma = ctx.use_idma
        /\ ctx'.objects_ready = ctx.objects_ready
        /\ ctx'.initialized = ctx.initialized
        /\ ctx'.hal_initialized = ctx.hal_initialized
        /\ ctx'.transfer_active = ctx.transfer_active
        /\ flags' = flags \ {"READY"} /\ flags' \subseteq Events
    BY <1>4, CleanupIs DEF TypeOK
  <2>3. TypeOK' BY <1>4, <2>1, <2>2 DEF TypeOK
  <2>4. /\ ContextFollows' /\ TransferFollows' /\ ArmedFollows'
        /\ CardFollows' /\ RemovalFollows' /\ RegistersClocked'
    BY <1>4, <2>1, <2>2 DEF ContextFollows, TransferFollows, ArmedFollows,
       ReadyNeverLost, Accessible, CardFollows, RemovalFollows,
       RegistersClocked
  <2> QED BY <2>3, <2>4
<1> QED BY <1>1, <1>2, <1>3, <1>4 DEF ReadyState

LEMMA ReadyArmStep ==
  ASSUME MaxChunks \in Nat, SdmmcInv, ReadyArm
  PROVE  SdmmcInv'
<1> USE DEF SdmmcInv, ReadyArm, Goto
<1>1. TypeOK'
  <2>1. bus' \in Buses BY DEF TypeOK, Buses
  <2>2. flags' \subseteq Events BY DEF TypeOK
  <2>3. task' \in Tasks BY DEF TypeOK, Tasks, Points
  <2>4. task'.op \in {"read", "write"} => task'.left > 0 BY DEF TypeOK
  <2> QED BY <2>1, <2>2, <2>3, <2>4 DEF TypeOK
<1>2. /\ ContextFollows' /\ TransferFollows' /\ ArmedFollows'
      /\ CardFollows' /\ RemovalFollows' /\ RegistersClocked'
  BY DEF ContextFollows, TransferFollows, ArmedFollows, ReadyNeverLost,
     CardFollows, RemovalFollows, RegistersClocked, Accessible
<1> QED BY <1>1, <1>2

LEMMA ReadyEnableStep ==
  ASSUME MaxChunks \in Nat, SdmmcInv, ReadyEnable
  PROVE  SdmmcInv'
<1> USE DEF SdmmcInv, ReadyEnable, Goto
<1>1. TypeOK'
  <2>1. bus' \in Buses BY DEF TypeOK, Buses
  <2>2. ctx' \in Contexts BY DEF TypeOK, Contexts
  <2>3. task' \in Tasks BY DEF TypeOK, Tasks, Points
  <2>4. task'.op \in {"read", "write"} => task'.left > 0 BY DEF TypeOK
  <2> QED BY <2>1, <2>2, <2>3, <2>4 DEF TypeOK
<1>2. /\ ContextFollows' /\ TransferFollows' /\ ArmedFollows'
      /\ CardFollows' /\ RemovalFollows' /\ RegistersClocked'
  BY DEF ContextFollows, TransferFollows, ArmedFollows, ReadyNeverLost,
     CardFollows, RemovalFollows, RegistersClocked, Accessible
<1> QED BY <1>1, <1>2

LEMMA ReadyRecheckStep ==
  ASSUME MaxChunks \in Nat, SdmmcInv, ReadyRecheck
  PROVE  SdmmcInv'
<1> USE DEF SdmmcInv
<1>1. CASE /\ At("ready_recheck") /\ Cleanup(Noted(ctx)) /\ Goto("abort")
           /\ UNCHANGED <<card, removedSince>>
  <2>1. /\ task' \in Tasks /\ task'.pc = "abort" /\ task'.op = task.op
        /\ task'.left = task.left
    BY <1>1, GotoIs DEF Points
  <2>2. /\ Noted(ctx) \in Contexts
        /\ Noted(ctx).initialized => ctx.initialized
        /\ Noted(ctx).use_idma = ctx.use_idma
        /\ Noted(ctx).objects_ready = ctx.objects_ready
        /\ Noted(ctx).hal_initialized = ctx.hal_initialized
        /\ Noted(ctx).transfer_active = ctx.transfer_active
    BY NotedIs DEF TypeOK
  <2>3. /\ bus' \in Buses /\ bus'.hal = bus.hal /\ bus'.job = bus.job
        /\ bus'.mask => bus.mask /\ ~Accessible
        /\ ctx' \in Contexts /\ ~ctx'.ready_wait_active
        /\ ctx'.use_idma = Noted(ctx).use_idma
        /\ ctx'.objects_ready = Noted(ctx).objects_ready
        /\ ctx'.initialized = Noted(ctx).initialized
        /\ ctx'.hal_initialized = Noted(ctx).hal_initialized
        /\ ctx'.transfer_active = Noted(ctx).transfer_active
        /\ flags' = flags \ {"READY"} /\ flags' \subseteq Events
    BY <1>1, <2>2, CleanupIs
  <2>4. TypeOK' BY <1>1, <2>1, <2>2, <2>3 DEF TypeOK
  <2>5. /\ ContextFollows' /\ TransferFollows' /\ ArmedFollows'
        /\ CardFollows' /\ RemovalFollows' /\ RegistersClocked'
    BY <1>1, <2>1, <2>2, <2>3 DEF ContextFollows, TransferFollows,
       ArmedFollows, ReadyNeverLost, Accessible, CardFollows, RemovalFollows,
       RegistersClocked
  <2> QED BY <2>4, <2>5
<1>2. CASE /\ At("ready_recheck") /\ ~Unavailable /\ card.d0
           /\ Goto("ready_wait")
           /\ UNCHANGED <<bus, ctx, flags, card, removedSince>>
  <2>1. /\ task' \in Tasks /\ task'.pc = "ready_wait" /\ task'.op = task.op
        /\ task'.left = task.left
    BY <1>2, GotoIs DEF Points
  <2>2. TypeOK' BY <1>2, <2>1 DEF TypeOK
  <2>3. /\ ContextFollows' /\ TransferFollows' /\ ArmedFollows'
        /\ CardFollows' /\ RemovalFollows' /\ RegistersClocked'
    BY <1>2, <2>1 DEF ContextFollows, TransferFollows, ArmedFollows,
       ReadyNeverLost, Accessible, CardFollows, RemovalFollows,
       RegistersClocked
  <2> QED BY <2>2, <2>3
<1>3. ASSUME At("ready_recheck"), Cleanup(ctx),
             NEW point \in {"ready_top", "abort"}, Goto(point),
             UNCHANGED <<card, removedSince>>
      PROVE  SdmmcInv'
  <2>1. /\ task' \in Tasks /\ task'.pc \in {"ready_top", "abort"}
        /\ task'.op = task.op /\ task'.left = task.left
    BY <1>3, GotoIs DEF Points
  <2>2. /\ bus' \in Buses /\ bus'.hal = bus.hal /\ bus'.job = bus.job
        /\ bus'.mask => bus.mask /\ ~Accessible
        /\ ctx' \in Contexts /\ ~ctx'.ready_wait_active
        /\ ctx'.use_idma = ctx.use_idma
        /\ ctx'.objects_ready = ctx.objects_ready
        /\ ctx'.initialized = ctx.initialized
        /\ ctx'.hal_initialized = ctx.hal_initialized
        /\ ctx'.transfer_active = ctx.transfer_active
        /\ flags' = flags \ {"READY"} /\ flags' \subseteq Events
    BY <1>3, CleanupIs DEF TypeOK
  <2>3. TypeOK' BY <1>3, <2>1, <2>2 DEF TypeOK
  <2>4. /\ ContextFollows' /\ TransferFollows' /\ ArmedFollows'
        /\ CardFollows' /\ RemovalFollows' /\ RegistersClocked'
    BY <1>3, <2>1, <2>2 DEF ContextFollows, TransferFollows, ArmedFollows,
       ReadyNeverLost, Accessible, CardFollows, RemovalFollows,
       RegistersClocked
  <2> QED BY <2>3, <2>4
<1> QED BY <1>1, <1>2, <1>3 DEF ReadyRecheck

LEMMA ReadyWaitStep ==
  ASSUME MaxChunks \in Nat, SdmmcInv, ReadyWait
  PROVE  SdmmcInv'
<1> USE DEF SdmmcInv, ReadyWait, WaitFlag
<1>1. TypeOK'
  <2>1. flags' \subseteq Events BY DEF TypeOK
  <2>2. task' \in Tasks BY DEF TypeOK, Tasks, Points
  <2>3. task'.op \in {"read", "write"} => task'.left > 0 BY DEF TypeOK
  <2> QED BY <2>1, <2>2, <2>3 DEF TypeOK
<1>2. /\ ContextFollows' /\ TransferFollows' /\ ArmedFollows'
      /\ CardFollows' /\ RemovalFollows' /\ RegistersClocked'
  BY DEF ContextFollows, TransferFollows, ArmedFollows, ReadyNeverLost,
     CardFollows, RemovalFollows, RegistersClocked, Accessible
<1> QED BY <1>1, <1>2

LEMMA ReadyWokenStep ==
  ASSUME MaxChunks \in Nat, SdmmcInv, ReadyWoken
  PROVE  SdmmcInv'
<1> USE DEF SdmmcInv, ReadyWoken, Cleanup, InvalidateMedia, Goto, Disarmed,
            Inactive, Accessible
<1>1. TypeOK'
  <2>1. bus' \in Buses BY DEF TypeOK, Buses
  <2>2. ctx' \in Contexts BY DEF TypeOK, Contexts
  <2>3. flags' \subseteq Events BY DEF TypeOK
  <2>4. task' \in Tasks BY DEF TypeOK, Tasks, Points
  <2>5. task'.op \in {"read", "write"} => task'.left > 0 BY DEF TypeOK, Tasks
  <2> QED BY <2>1, <2>2, <2>3, <2>4, <2>5 DEF TypeOK
<1>2. /\ ContextFollows' /\ TransferFollows' /\ ArmedFollows'
      /\ CardFollows' /\ RemovalFollows' /\ RegistersClocked'
  BY DEF ContextFollows, TypeOK, Tasks, TransferFollows, ArmedFollows,
     ReadyNeverLost, CardFollows, RemovalFollows, RegistersClocked
<1> QED BY <1>1, <1>2

LEMMA AbortHalStep ==
  ASSUME MaxChunks \in Nat, SdmmcInv, AbortHal
  PROVE  SdmmcInv'
<1> USE DEF SdmmcInv
<1>1. CASE /\ At("abort") /\ Goto("abort_clear") /\ bus' = Disarmed(bus)
           /\ ctx' = [Inactive(ctx) EXCEPT !.transfer_active = FALSE]
           /\ bus.job = "none" /\ UNCHANGED <<card, flags, removedSince>>
  <2>1. /\ task' \in Tasks /\ task'.pc = "abort_clear" /\ task'.op = task.op
        /\ task'.left = task.left
    BY <1>1, GotoIs DEF Points
  <2>2. /\ ctx' \in Contexts
        /\ ~ctx'.ready_wait_active /\ ~ctx'.transfer_active
        /\ ctx'.use_idma = ctx.use_idma
        /\ ctx'.objects_ready = ctx.objects_ready
        /\ ctx'.initialized = ctx.initialized
        /\ ctx'.hal_initialized = ctx.hal_initialized
    BY <1>1, InactiveIs DEF TypeOK, Contexts
  <2>3. /\ bus' \in Buses /\ bus'.hal = bus.hal /\ bus'.job = bus.job
        /\ bus'.mask => bus.mask
    BY <1>1, DisarmedIs DEF TypeOK
  <2>4. TypeOK' BY <1>1, <2>1, <2>2, <2>3 DEF TypeOK
  <2>5. /\ ContextFollows' /\ TransferFollows' /\ ArmedFollows'
        /\ CardFollows' /\ RemovalFollows' /\ RegistersClocked'
    BY <1>1, <2>1, <2>2, <2>3 DEF ContextFollows, TransferFollows,
       ArmedFollows, ReadyNeverLost, Accessible, CardFollows, RemovalFollows,
       RegistersClocked
  <2> QED BY <2>4, <2>5
<1>2. ASSUME At("abort"), Goto("abort_clear"),
             ctx' = [Inactive(ctx) EXCEPT !.transfer_active = FALSE],
             NEW hal \in {"busy", "ready"}, NEW job \in {"none", "orphan"},
             NEW end \in BOOLEAN, NEW error \in BOOLEAN,
             bus' = [Disarmed(bus) EXCEPT !.hal = hal, !.job = job,
                                          !.end = end, !.error = error],
             NEW state \in {card.state, "prg"},
             state = "prg" => card.state \in {"tran", "prg"},
             card' = [card EXCEPT !.state = state],
             UNCHANGED <<flags, removedSince>>
      PROVE  SdmmcInv'
  <2>1. /\ task' \in Tasks /\ task'.pc = "abort_clear" /\ task'.op = task.op
        /\ task'.left = task.left
    BY <1>2, GotoIs DEF Points
  <2>2. /\ ctx' \in Contexts
        /\ ~ctx'.ready_wait_active /\ ~ctx'.transfer_active
        /\ ctx'.use_idma = ctx.use_idma
        /\ ctx'.objects_ready = ctx.objects_ready
        /\ ctx'.initialized = ctx.initialized
        /\ ctx'.hal_initialized = ctx.hal_initialized
    BY <1>2, InactiveIs DEF TypeOK, Contexts
  <2>3. /\ bus' \in Buses /\ bus'.hal # "reset" /\ bus'.job = job
        /\ bus'.mask => bus.mask
    BY <1>2, DisarmedIs DEF TypeOK, Buses
  <2>4. /\ card' \in Cards /\ card'.d0 = card.d0
        /\ card'.state = card.state \/ card'.state = "prg"
    BY <1>2 DEF TypeOK, Cards
  <2>5. TypeOK' BY <1>2, <2>1, <2>2, <2>3, <2>4 DEF TypeOK
  <2>6. /\ ContextFollows' /\ TransferFollows' /\ ArmedFollows'
        /\ CardFollows' /\ RemovalFollows' /\ RegistersClocked'
    BY <1>2, <2>1, <2>2, <2>3, <2>4 DEF ContextFollows, TransferFollows,
       ArmedFollows, ReadyNeverLost, CardFollows, RemovalFollows,
       RegistersClocked
  <2> QED BY <2>5, <2>6
<1>3. CASE bus.job # "none"
  <2> DEFINE b == Disarmed(bus)
  <2>1. b \in Buses BY DisarmedIs DEF TypeOK
  <2>2. CASE /\ \E error \in BOOLEAN :
                  bus' = [b EXCEPT !.job = "none", !.hal = "ready",
                                   !.end = FALSE, !.error = error]
             /\ \E state \in {card.state} \cup
                     IF card.state = "tran" /\ bus.job = "write"
                     THEN {"prg"} ELSE {} :
                  card' = [card EXCEPT !.state = state]
    <3>1. PICK error \in BOOLEAN :
                 bus' = [b EXCEPT !.hal = "ready", !.job = "none",
                                  !.end = FALSE, !.error = error]
      BY <2>1, <2>2
    <3>2. PICK state \in {card.state, "prg"} :
                 /\ state = "prg" => card.state \in {"tran", "prg"}
                 /\ card' = [card EXCEPT !.state = state]
      BY <2>2
    <3> QED BY <1>2, <3>1, <3>2 DEF AbortHal
  <2>3. CASE /\ \E hal \in {"busy", "ready"} :
                  bus' = [b EXCEPT !.job = "orphan", !.hal = hal,
                                   !.error = TRUE]
             /\ card' = card
    <3>0. PICK hal \in {"busy", "ready"} :
                 bus' = [b EXCEPT !.job = "orphan", !.hal = hal,
                                  !.error = TRUE]
      BY <2>3
    <3>1. bus' = [b EXCEPT !.hal = hal, !.job = "orphan",
                           !.end = b.end, !.error = TRUE]
      BY <2>1, <3>0
    <3>2. card' = [card EXCEPT !.state = card.state] /\ b.end \in BOOLEAN
      BY <2>1, <2>3 DEF TypeOK, Cards, Buses
    <3>3. card.state = "prg" => card.state \in {"tran", "prg"}
      OBVIOUS
    <3> HIDE DEF b
    <3> QED BY <1>2, <3>1, <3>2, <3>3 DEF AbortHal, b
  <2> QED BY <1>3, <2>2, <2>3 DEF AbortHal
<1> QED BY <1>1, <1>3 DEF AbortHal

LEMMA AbortClearStep ==
  ASSUME MaxChunks \in Nat, SdmmcInv, AbortClear
  PROVE  SdmmcInv'
<1> USE DEF SdmmcInv, AbortClear, Return, InvalidateMedia, NoTask
<1>1. TypeOK'
  <2>1. ctx' \in Contexts BY DEF TypeOK, Contexts
  <2>2. flags' \subseteq Events OBVIOUS
  <2>3. task' \in Tasks BY DEF Tasks, Points
  <2>4. task'.op \in {"read", "write"} => task'.left > 0 OBVIOUS
  <2> QED BY <2>1, <2>2, <2>3, <2>4 DEF TypeOK
<1>2. /\ ContextFollows' /\ TransferFollows' /\ ArmedFollows'
      /\ CardFollows' /\ RemovalFollows' /\ RegistersClocked'
  BY DEF ContextFollows, TransferFollows, ArmedFollows, ReadyNeverLost,
     CardFollows, RemovalFollows, RegistersClocked, Accessible
<1> QED BY <1>1, <1>2

LEMMA ContextInitStep ==
  ASSUME MaxChunks \in Nat, SdmmcInv,
         NEW use_idma \in BOOLEAN, ContextInit(use_idma)
  PROVE  SdmmcInv'
<1> USE DEF SdmmcInv
<1>1. CASE /\ At("idle") /\ ~ctx.objects_ready
           /\ ctx' = [NoContext EXCEPT !.use_idma = use_idma,
                                       !.objects_ready = TRUE]
           /\ flags' = {} /\ UNCHANGED <<card, bus, task, removedSince>>
  <2>1. /\ ctx' \in Contexts /\ ~ctx'.ready_wait_active
        /\ ~ctx'.hal_initialized /\ ~ctx'.initialized
        /\ ~ctx'.transfer_active
    BY <1>1 DEF NoContext, Contexts
  <2>2. TypeOK' BY <1>1, <2>1 DEF TypeOK
  <2>3. /\ ContextFollows' /\ TransferFollows' /\ ArmedFollows'
        /\ CardFollows' /\ RemovalFollows' /\ RegistersClocked'
    BY <1>1, <2>1 DEF ContextFollows, TransferFollows, ArmedFollows,
       ReadyNeverLost, Accessible, CardFollows, RemovalFollows,
       RegistersClocked
  <2> QED BY <2>2, <2>3
<1> QED BY <1>1 DEF ContextInit

LEMMA ContextDeinitStep ==
  ASSUME MaxChunks \in Nat, SdmmcInv, ContextDeinit
  PROVE  SdmmcInv'
<1> USE DEF SdmmcInv
<1>1. CASE /\ At("idle") /\ ctx.objects_ready /\ bus' = Disarmed(bus)
           /\ ctx.hal_initialized
           /\ ctx' = [Inactive(ctx) EXCEPT !.hal_initialized = FALSE]
           /\ Goto("deinit_hal") /\ UNCHANGED <<flags, card, removedSince>>
  <2>1. /\ task' \in Tasks /\ task'.pc = "deinit_hal" /\ task'.op = task.op
        /\ task'.left = task.left
    BY <1>1, GotoIs DEF Points
  <2>2. /\ ctx' \in Contexts /\ ~ctx'.ready_wait_active
        /\ ~ctx'.hal_initialized
        /\ ctx'.objects_ready = ctx.objects_ready
        /\ ctx'.transfer_active = ctx.transfer_active
    <3> DEFINE c == Inactive(ctx)
    <3>1. /\ c \in Contexts /\ ~c.ready_wait_active
          /\ c.objects_ready = ctx.objects_ready
          /\ c.transfer_active = ctx.transfer_active
      BY InactiveIs DEF TypeOK
    <3>2. ctx' = [c EXCEPT !.hal_initialized = FALSE] BY <1>1
    <3> HIDE DEF c
    <3> QED BY <3>1, <3>2 DEF Contexts
  <2>3. /\ bus' \in Buses /\ bus'.hal = bus.hal /\ bus'.job = bus.job
        /\ bus'.mask => bus.mask
    BY <1>1, DisarmedIs DEF TypeOK
  <2>4. TypeOK' BY <1>1, <2>1, <2>2, <2>3 DEF TypeOK
  <2>5. /\ ContextFollows' /\ TransferFollows' /\ ArmedFollows'
        /\ CardFollows' /\ RemovalFollows' /\ RegistersClocked'
    BY <1>1, <2>1, <2>2, <2>3 DEF ContextFollows, TransferFollows,
       ArmedFollows, ReadyNeverLost, Accessible, CardFollows, RemovalFollows,
       RegistersClocked
  <2> QED BY <2>4, <2>5
<1>2. CASE /\ At("idle") /\ ctx.objects_ready /\ bus' = Disarmed(bus)
           /\ ~ctx.hal_initialized /\ ctx' = NoContext /\ Return
           /\ flags' = {} /\ UNCHANGED <<card, removedSince>>
  <2>1. task' \in Tasks /\ task'.pc = "idle" /\ task'.op = "none"
    BY <1>2, ReturnIs
  <2>2. /\ ctx' \in Contexts /\ ~ctx'.ready_wait_active
        /\ ~ctx'.hal_initialized /\ ~ctx'.initialized
        /\ ~ctx'.use_idma /\ ~ctx'.transfer_active
    BY <1>2 DEF NoContext, Contexts
  <2>3. /\ bus' \in Buses /\ bus'.hal = bus.hal /\ bus'.job = bus.job
        /\ bus'.mask => bus.mask
    BY <1>2, DisarmedIs DEF TypeOK
  <2>4. TypeOK' BY <1>2, <2>1, <2>2, <2>3 DEF TypeOK
  <2>5. /\ ContextFollows' /\ TransferFollows' /\ ArmedFollows'
        /\ CardFollows' /\ RemovalFollows' /\ RegistersClocked'
    BY <1>2, <2>1, <2>2, <2>3 DEF ContextFollows, TransferFollows,
       ArmedFollows, ReadyNeverLost, Accessible, CardFollows, RemovalFollows,
       RegistersClocked
  <2> QED BY <2>4, <2>5
<1> QED BY <1>1, <1>2 DEF ContextDeinit

LEMMA ContextDeinitHalStep ==
  ASSUME MaxChunks \in Nat, SdmmcInv, ContextDeinitHal
  PROVE  SdmmcInv'
<1> USE DEF SdmmcInv, ContextDeinitHal, HalDeInit, NoContext, Return, NoTask
<1>1. TypeOK'
  <2>1. card' \in Cards BY DEF TypeOK, Cards
  <2>2. bus' \in Buses BY DEF TypeOK, Buses
  <2>3. ctx' \in Contexts BY DEF Contexts
  <2>4. flags' \subseteq Events OBVIOUS
  <2>5. task' \in Tasks BY DEF Tasks, Points
  <2>6. task'.op \in {"read", "write"} => task'.left > 0 OBVIOUS
  <2> QED BY <2>1, <2>2, <2>3, <2>4, <2>5, <2>6 DEF TypeOK
<1>2. /\ ContextFollows' /\ TransferFollows' /\ ArmedFollows'
      /\ CardFollows' /\ RemovalFollows' /\ RegistersClocked'
  BY DEF ContextFollows, TransferFollows, ArmedFollows, ReadyNeverLost,
     CardFollows, RemovalFollows, RegistersClocked, Accessible
<1> QED BY <1>1, <1>2

LEMMA SdmmcStutter ==
  ASSUME SdmmcInv, UNCHANGED vars PROVE SdmmcInv'
BY DEF SdmmcInv, TypeOK, ContextFollows, TransferFollows, ArmedFollows,
   CardFollows, RemovalFollows, RegistersClocked, Accessible, ReadyNeverLost,
   vars

LEMMA SdmmcStep ==
  ASSUME MaxChunks \in Nat, SdmmcInv, [Next]_vars PROVE SdmmcInv'
<1>1. CASE Interrupt
  BY <1>1, RemovalUnheardStep, MediaChangedIsrStep, CardInsertedStep,
     CardHoldsD0Step, CardReleasesD0Step, CardProgrammedStep, ReadyIrqStep,
     TransferCompleteStep, TransferErrorStep, OrphanEndsStep DEF Interrupt
<1>2. CASE Initialize
  BY <1>2, InitializeRefusedStep, InitializeBeginStep, InitializeForgetStep,
     InitializeClearStep, InitializeDeInitStep, InitializeHalStep,
     InitializeDoneStep, InitializeFailStep, InitializeUndoStep DEF
     Initialize
<1>3. CASE Operation
  BY <1>3, RefusedStep, BeginCheckStep, BeginTransferStep, WaitMediaStep,
     WaitStateStep, PollBlockStep, ChunkClearStep, ChunkCheckStep,
     ChunkStartStep, WaitEventStep, WokenStep, ReadyCheckStep,
     ReadyStateStep, ReadyArmStep, ReadyEnableStep, ReadyRecheckStep,
     ReadyWaitStep, ReadyWokenStep, AbortHalStep, AbortClearStep DEF
     Operation
<1> QED BY <1>1, <1>2, <1>3, ContextInitStep,
     ContextDeinitStep, ContextDeinitHalStep, SdmmcStutter DEF Next

----------------------------------------------------------------------------
(* The theorems.                                                           *)

LEMMA Invariant == Spec => []SdmmcInv
<1>1. Init => SdmmcInv
  BY SdmmcInit, ChunksAssumption
<1>2. SdmmcInv /\ [Next]_vars => SdmmcInv'
  BY SdmmcStep, ChunksAssumption
<1> QED BY <1>1, <1>2, PTL DEF Spec

\* The state has its types, and no transfer goes on with no chunk left.
THEOREM TypeCorrect == Spec => []TypeOK
<1>1. SdmmcInv => TypeOK BY DEF SdmmcInv
<1> QED BY <1>1, Invariant, PTL

\* The completion that ends the wait of a chunk is that chunk's, whatever late
\* callbacks there are of transfers that were given up.
THEOREM CompletionCorrect == Spec => []CompletionIsOwn
<1>1. SdmmcInv => CompletionIsOwn
  BY DEF SdmmcInv, TransferFollows, CompletionIsOwn, CompletionEvent
<1> QED BY <1>1, Invariant, PTL

\* No transfer is started on a busy bus or a card that programs.
THEOREM QuietBusCorrect == Spec => []StartsOnQuietBus
<1>1. SdmmcInv => StartsOnQuietBus
  BY DEF SdmmcInv, TransferFollows, CardFollows, StartsOnQuietBus
<1> QED BY <1>1, Invariant, PTL

\* Between operations a served card is in the transfer state, and nothing is
\* armed or running.
THEOREM RestCorrect == Spec => []QuietAtRest
<1>1. SdmmcInv => QuietAtRest
  BY DEF SdmmcInv, TransferFollows, ArmedFollows, CardFollows, QuietAtRest
<1> QED BY <1>1, Invariant, PTL

\* No wakeup of the ready wait is lost.
THEOREM WakeupCorrect == Spec => []ReadyNeverLost
<1>1. SdmmcInv => ReadyNeverLost BY DEF SdmmcInv, ArmedFollows
<1> QED BY <1>1, Invariant, PTL

\* A removal that initialize has cleared from the context is found by the next
\* transfer.
THEOREM RemovalCorrect == Spec => []RemovalNotForgotten
<1>1. SdmmcInv => RemovalNotForgotten
  BY DEF SdmmcInv, RemovalFollows, RemovalNotForgotten
<1> QED BY <1>1, Invariant, PTL

\* The interrupt handlers touch the SDMMC only while its clock is on.
THEOREM ClockedCorrect == Spec => []RegistersClocked
<1>1. SdmmcInv => RegistersClocked BY DEF SdmmcInv
<1> QED BY <1>1, Invariant, PTL

----------------------------------------------------------------------------
(* SdSpi.                                                                  *)


TransferPoints == {"check", "clear", "mark", "start", "wait", "woken"}
Running == spi_task.pc # "idle"
Moving == spi_task.op \in {"read", "write"}

\* What an operation that runs is about.
CourseOfTask ==
  /\ spi_ctx.initialized => spi_ctx.registered
  /\ Running =>
       /\ spi_ctx.registered
       /\ spi_task.op # "none"
       /\ spi_task.pc \notin TransferPoints => spi_task.op = "init"
       /\ spi_task.op = "init" =>
            spi_task.step \in Spi!InitSteps /\ ~spi_ctx.initialized
       /\ spi_task.pc \in {"init_forget", "init_clear", "init_open"} =>
            spi_task.step = "power_up"
       /\ Spi!At("init_done") => spi_task.step = "csd"
       /\ Moving => spi_task.step \in Spi!SectorSteps /\ spi_task.left > 0

\* Past the look at the pin in initialize, a pin that is open is pending or
\* about to be.
Watched ==
  spi_ctx.initialized \/ spi_task.pc \in TransferPoints \cup {"init_done"}
RemovalNoticed ==
  Watched /\ ~spi_card.pin /\ ~spi_card.edge => spi_ctx.media_removal_pending

\* A card that is initialized, or of which only registers are still to be
\* read, answers, unless its removal is not yet served.
Unserved == spi_card.edge /\ ~spi_card.pin /\ spi_card.state = "absent"
BroughtUp ==
  \/ spi_ctx.initialized
  \/ /\ spi_task.op = "init"
     /\ spi_task.pc \in TransferPoints \cup {"init_done"}
     /\ \/ spi_task.step \in {"cmd58", "csd"}
        \/ spi_task.step = "acmd41" /\ spi_task.end /\ spi_task.result = "ok"
CardAnswers ==
  BroughtUp /\ ~spi_ctx.media_removal_pending =>
    spi_card.state = "ready" \/ Unserved

\* A read or write that has lost its card finds out in the end of its
\* transaction at the latest.
LossNoticed ==
  Moving /\ Running /\ spi_task.lost =>
    /\ spi_ctx.media_removal_pending \/ Unserved
    /\ spi_task.end /\ spi_task.left = 1 /\ ~Spi!At("check") =>
         spi_task.result # "ok"

SpiInv ==
  /\ Spi!TypeOK /\ CourseOfTask /\ RemovalNoticed /\ CardAnswers /\ LossNoticed
  /\ Spi!WholeOrError /\ Spi!TransferNeverLost

USE SectorsAssumption DEF Spi!At, Running, Moving, Unserved

LEMMA NoTaskType == Spi!NoTask \in Spi!Tasks
BY DEF Spi!NoTask, Spi!Tasks, Spi!Points, Spi!InitSteps, Spi!SectorSteps,
  Spi!Events

LEMMA NextStepType ==
  /\ \A step \in Spi!InitSteps \ {"csd"} :
       Spi!NextStep[step] \in Spi!InitSteps \ {"power_up"}
  /\ \A step \in {"command", "answer"} : Spi!NextStep[step] \in Spi!SectorSteps
  /\ Spi!NextStep["power_up"] = "cmd0" /\ Spi!NextStep["cmd0"] = "cmd8"
  /\ Spi!NextStep["cmd8"] = "acmd41" /\ Spi!NextStep["acmd41"] = "cmd58"
  /\ Spi!NextStep["cmd58"] = "csd" /\ Spi!NextStep["command"] = "answer"
  /\ Spi!NextStep["answer"] = "rest"
BY DEF Spi!NextStep, Spi!InitSteps, Spi!SectorSteps

LEMMA TransferFailedIs ==
  ASSUME Spi!TypeOK, Spi!TransferFailed
  PROVE  /\ spi_task' \in Spi!Tasks
         /\ \/ spi_task' = [spi_task EXCEPT !.pc = "idle", !.result = "error"]
            \/ spi_task' = [spi_task EXCEPT !.pc = "check", !.end = TRUE,
                                            !.result = "error"]
<1>1. CASE spi_task' = [spi_task EXCEPT !.pc = "idle", !.result = "error"]
  BY <1>1 DEF Spi!TypeOK, Spi!Tasks, Spi!Points
<1>2. CASE spi_task' = [spi_task EXCEPT !.pc = "check", !.end = TRUE,
                                        !.result = "error"]
  BY <1>2 DEF Spi!TypeOK, Spi!Tasks, Spi!Points
<1> QED
  BY <1>1, <1>2 DEF Spi!TransferFailed, Spi!TransactionEnded, Spi!Return,
    Spi!EndTransaction

LEMMA FailedKeeps ==
  ASSUME SpiInv, spi_task.pc \in TransferPoints, Spi!TransferFailed,
         UNCHANGED spi_card, spi_ctx' \in Spi!Contexts,
         spi_ctx'.registered = spi_ctx.registered,
         spi_ctx'.media_removal_pending = spi_ctx.media_removal_pending,
         spi_ctx'.initialized => spi_ctx.initialized,
         spi_bus' \in {"none", "own", "late"}, UNCHANGED spi_flags
  PROVE  SpiInv'
<1>1. Spi!TypeOK'
  BY TransferFailedIs DEF SpiInv, Spi!TypeOK
<1>2. /\ spi_task'.pc \in {"idle", "check"} /\ spi_task'.result = "error"
      /\ spi_task'.op = spi_task.op /\ spi_task'.step = spi_task.step
      /\ spi_task'.left = spi_task.left /\ spi_task'.lost = spi_task.lost
      /\ spi_task.pc # "idle"
  BY TransferFailedIs DEF SpiInv, Spi!TypeOK, Spi!Tasks, TransferPoints
<1>3. CourseOfTask'
  BY <1>2 DEF SpiInv, CourseOfTask, TransferPoints
<1>4. RemovalNoticed'
  BY <1>2 DEF SpiInv, RemovalNoticed, Watched, TransferPoints
<1>5. CardAnswers'
  BY <1>2 DEF SpiInv, CardAnswers, BroughtUp, TransferPoints
<1>6. LossNoticed'
  BY <1>2 DEF SpiInv, LossNoticed
<1>7. Spi!WholeOrError' /\ Spi!TransferNeverLost'
  BY <1>2 DEF Spi!WholeOrError, Spi!TransferNeverLost
<1> QED BY <1>1, <1>3, <1>4, <1>5, <1>6, <1>7 DEF SpiInv

LEMMA NotedType ==
  ASSUME NEW c \in Spi!Contexts,
         NEW n, n = Spi!Noted(c) \/ n = Spi!InvalidateMedia(c)
  PROVE  /\ n \in Spi!Contexts /\ n.registered = c.registered
         /\ n.media_removal_pending = c.media_removal_pending
         /\ n.initialized => c.initialized
BY DEF Spi!Noted, Spi!InvalidateMedia, Spi!Contexts

LEMMA TransferCheckKeeps ==
  ASSUME SpiInv, Spi!TransferCheck
  PROVE  SpiInv'
<1>1. CASE ~spi_card.pin \/ spi_ctx.media_removal_pending
  BY <1>1, FailedKeeps, NotedType
    DEF Spi!TransferCheck, SpiInv, Spi!TypeOK, TransferPoints
<1>2. CASE spi_card.pin /\ ~spi_ctx.media_removal_pending
  <2>1. /\ spi_task' = [spi_task EXCEPT !.pc = "clear"]
        /\ UNCHANGED <<spi_card, spi_bus, spi_ctx, spi_flags>>
    BY <1>2 DEF Spi!TransferCheck, SpiInv, Spi!TypeOK, Spi!Cards, Spi!Contexts,
      Spi!Goto
  <2>2. Spi!TypeOK'
    BY <2>1 DEF SpiInv, Spi!TypeOK, Spi!Tasks, Spi!Points
  <2>3. CourseOfTask' /\ RemovalNoticed' /\ CardAnswers'
    BY <1>2, <2>1 DEF Spi!TransferCheck, SpiInv, Spi!TypeOK, Spi!Tasks,
      CourseOfTask, RemovalNoticed, Watched, CardAnswers, BroughtUp,
      TransferPoints
  <2>4. LossNoticed' /\ Spi!WholeOrError' /\ Spi!TransferNeverLost'
    BY <1>2, <2>1 DEF Spi!TransferCheck, SpiInv, Spi!TypeOK, Spi!Tasks,
      LossNoticed, Spi!WholeOrError, Spi!TransferNeverLost
  <2> QED BY <2>2, <2>3, <2>4 DEF SpiInv
<1> QED BY <1>1, <1>2 DEF SpiInv, Spi!TypeOK, Spi!Cards, Spi!Contexts

LEMMA TransferStartKeeps ==
  ASSUME SpiInv, Spi!TransferStart
  PROVE  SpiInv'
<1>1. CASE ~(spi_bus = "none" /\ spi_ctx.fsp_open)
  BY <1>1, FailedKeeps, NotedType
    DEF Spi!TransferStart, SpiInv, Spi!TypeOK, TransferPoints
<1>2. CASE spi_bus = "none" /\ spi_ctx.fsp_open
  <2>1. /\ spi_task' = [spi_task EXCEPT !.pc = "wait"] /\ spi_bus' = "own"
        /\ UNCHANGED <<spi_card, spi_ctx, spi_flags>>
    BY <1>2 DEF Spi!TransferStart, Spi!Goto
  <2>2. Spi!TypeOK'
    BY <2>1 DEF SpiInv, Spi!TypeOK, Spi!Tasks, Spi!Points
  <2>3. CourseOfTask' /\ RemovalNoticed' /\ CardAnswers'
    BY <2>1 DEF Spi!TransferStart, SpiInv, Spi!TypeOK, Spi!Tasks, CourseOfTask,
      RemovalNoticed, Watched, CardAnswers, BroughtUp, TransferPoints
  <2>4. LossNoticed' /\ Spi!WholeOrError' /\ Spi!TransferNeverLost'
    BY <2>1 DEF Spi!TransferStart, SpiInv, Spi!TypeOK, Spi!Tasks, LossNoticed,
      Spi!WholeOrError, Spi!TransferNeverLost
  <2> QED BY <2>2, <2>3, <2>4 DEF SpiInv
<1> QED BY <1>1, <1>2

LEMMA TransferTimesOutKeeps ==
  ASSUME SpiInv, Spi!TransferTimesOut
  PROVE  SpiInv'
BY FailedKeeps DEF Spi!TransferTimesOut, SpiInv, Spi!TypeOK, TransferPoints

LEMMA OnwardKeeps ==
  ASSUME SpiInv, Spi!At("woken"), spi_task.end, Spi!Onward,
         UNCHANGED <<spi_card, spi_bus, spi_ctx, spi_flags>>
  PROVE  SpiInv'
<1>1. CASE spi_task' = [spi_task EXCEPT !.pc = "idle", !.result = "error"]
  <2>1. Spi!TypeOK'
    BY <1>1 DEF SpiInv, Spi!TypeOK, Spi!Tasks, Spi!Points
  <2>2. CourseOfTask' /\ RemovalNoticed' /\ CardAnswers'
    BY <1>1 DEF SpiInv, Spi!TypeOK, Spi!Tasks, CourseOfTask,
      RemovalNoticed, Watched, CardAnswers, BroughtUp, TransferPoints
  <2>3. LossNoticed' /\ Spi!WholeOrError' /\ Spi!TransferNeverLost'
    BY <1>1 DEF SpiInv, Spi!TypeOK, Spi!Tasks, LossNoticed, Spi!WholeOrError,
      Spi!TransferNeverLost
  <2> QED BY <2>1, <2>2, <2>3 DEF SpiInv
<1>2. CASE /\ spi_task.result = "retry"
           /\ spi_task' = [spi_task EXCEPT !.pc = "check", !.end = FALSE]
  <2>1. Spi!TypeOK'
    BY <1>2 DEF SpiInv, Spi!TypeOK, Spi!Tasks, Spi!Points
  <2>2. CourseOfTask' /\ RemovalNoticed' /\ CardAnswers'
    BY <1>2 DEF SpiInv, Spi!TypeOK, Spi!Tasks, CourseOfTask,
      RemovalNoticed, Watched, CardAnswers, BroughtUp, TransferPoints
  <2>3. LossNoticed' /\ Spi!WholeOrError' /\ Spi!TransferNeverLost'
    BY <1>2 DEF SpiInv, Spi!TypeOK, Spi!Tasks, LossNoticed, Spi!WholeOrError,
      Spi!TransferNeverLost
  <2> QED BY <2>1, <2>2, <2>3 DEF SpiInv
<1>3. CASE /\ spi_task.result = "ok" /\ spi_task.op = "init"
           /\ spi_task.step = "csd"
           /\ spi_task' = [spi_task EXCEPT !.pc = "init_done"]
  <2>1. Spi!TypeOK'
    BY <1>3 DEF SpiInv, Spi!TypeOK, Spi!Tasks, Spi!Points
  <2>2. CourseOfTask' /\ RemovalNoticed' /\ CardAnswers'
    BY <1>3 DEF SpiInv, Spi!TypeOK, Spi!Tasks, CourseOfTask,
      RemovalNoticed, Watched, CardAnswers, BroughtUp, TransferPoints
  <2>3. LossNoticed' /\ Spi!WholeOrError' /\ Spi!TransferNeverLost'
    BY <1>3 DEF SpiInv, Spi!TypeOK, Spi!Tasks, LossNoticed, Spi!WholeOrError,
      Spi!TransferNeverLost
  <2> QED BY <2>1, <2>2, <2>3 DEF SpiInv
<1>4. CASE /\ spi_task.result = "ok" /\ spi_task.op = "init"
           /\ spi_task.step # "csd"
           /\ spi_task' = [spi_task EXCEPT !.pc = "check", !.end = FALSE,
                                           !.step = Spi!NextStep[@]]
  <2>1. spi_task.step \in Spi!InitSteps \ {"csd"}
    BY <1>4 DEF SpiInv, CourseOfTask
  <2>2. /\ Spi!NextStep[spi_task.step] \in Spi!InitSteps
        /\ Spi!NextStep[spi_task.step] # "power_up"
    BY <2>1, NextStepType
  <2>3. Spi!TypeOK'
    BY <1>4, <2>2 DEF SpiInv, Spi!TypeOK, Spi!Tasks, Spi!Points
  <2>4. Spi!NextStep[spi_task.step] \in {"cmd58", "csd"} =>
          spi_task.step \in {"acmd41", "cmd58"}
    BY <2>1, NextStepType DEF Spi!InitSteps
  <2>5. CourseOfTask' /\ RemovalNoticed' /\ CardAnswers'
    BY <1>4, <2>2, <2>4 DEF SpiInv, Spi!TypeOK, Spi!Tasks, CourseOfTask,
      RemovalNoticed, Watched, CardAnswers, BroughtUp, TransferPoints
  <2>6. LossNoticed' /\ Spi!WholeOrError' /\ Spi!TransferNeverLost'
    BY <1>4 DEF SpiInv, Spi!TypeOK, Spi!Tasks, LossNoticed, Spi!WholeOrError,
      Spi!TransferNeverLost
  <2> QED BY <2>3, <2>5, <2>6 DEF SpiInv
<1>5. CASE /\ spi_task.result = "ok" /\ spi_task.op # "init"
           /\ spi_task.left = 1
           /\ spi_task' = [spi_task EXCEPT !.pc = "idle", !.result = "ok"]
  <2>1. Spi!TypeOK'
    BY <1>5 DEF SpiInv, Spi!TypeOK, Spi!Tasks, Spi!Points
  <2>2. CourseOfTask' /\ RemovalNoticed' /\ CardAnswers'
    BY <1>5 DEF SpiInv, Spi!TypeOK, Spi!Tasks, CourseOfTask,
      RemovalNoticed, Watched, CardAnswers, BroughtUp, TransferPoints
  <2>3. LossNoticed' /\ Spi!WholeOrError' /\ Spi!TransferNeverLost'
    BY <1>5 DEF SpiInv, Spi!TypeOK, Spi!Tasks, LossNoticed, Spi!WholeOrError,
      Spi!TransferNeverLost
  <2> QED BY <2>1, <2>2, <2>3 DEF SpiInv
<1>6. CASE /\ spi_task.result = "ok" /\ spi_task.op # "init"
           /\ spi_task.left # 1
           /\ spi_task' = [spi_task EXCEPT !.pc = "check", !.end = FALSE,
                                           !.step = "command", !.left = @ - 1]
  <2>1. Moving /\ spi_task.left \in 0..MaxSectors /\ spi_task.left > 1
    BY <1>6 DEF SpiInv, Spi!TypeOK, Spi!Tasks, CourseOfTask
  <2>2. spi_task.left - 1 \in 0..MaxSectors /\ spi_task.left - 1 > 0
    BY <2>1
  <2>3. Spi!TypeOK'
    BY <1>6, <2>2 DEF SpiInv, Spi!TypeOK, Spi!Tasks, Spi!Points,
      Spi!SectorSteps
  <2>4. CourseOfTask' /\ RemovalNoticed' /\ CardAnswers'
    BY <1>6, <2>1, <2>2 DEF SpiInv, Spi!TypeOK, Spi!Tasks, CourseOfTask,
      Spi!SectorSteps, RemovalNoticed, Watched, CardAnswers, BroughtUp,
      TransferPoints
  <2>5. LossNoticed' /\ Spi!WholeOrError' /\ Spi!TransferNeverLost'
    BY <1>6 DEF SpiInv, Spi!TypeOK, Spi!Tasks, LossNoticed, Spi!WholeOrError,
      Spi!TransferNeverLost
  <2> QED BY <2>3, <2>4, <2>5 DEF SpiInv
<1> QED
  BY <1>1, <1>2, <1>3, <1>4, <1>5, <1>6 DEF Spi!Onward, Spi!Return

LEMMA DoneKeeps ==
  ASSUME SpiInv, Spi!At("woken"), Spi!TransferDone,
         UNCHANGED <<spi_bus, spi_ctx, spi_flags>>
  PROVE  SpiInv'
<1>1. CASE spi_task.end /\ Spi!TransactionEnded(TRUE) /\ spi_card' = spi_card
  BY <1>1, OnwardKeeps DEF Spi!TransactionEnded
<1>2. CASE ~spi_task.end /\ Spi!Goto("check") /\ spi_card' = spi_card
  <2>1. Spi!TypeOK'
    BY <1>2 DEF Spi!Goto, SpiInv, Spi!TypeOK, Spi!Tasks, Spi!Points
  <2>2. CourseOfTask' /\ RemovalNoticed' /\ CardAnswers'
    BY <1>2 DEF Spi!Goto, SpiInv, Spi!TypeOK, Spi!Tasks, CourseOfTask,
      RemovalNoticed, Watched, CardAnswers, BroughtUp, TransferPoints
  <2>3. LossNoticed' /\ Spi!WholeOrError' /\ Spi!TransferNeverLost'
    BY <1>2 DEF Spi!Goto, SpiInv, Spi!TypeOK, Spi!Tasks, LossNoticed,
      Spi!WholeOrError, Spi!TransferNeverLost
  <2> QED BY <2>1, <2>2, <2>3 DEF SpiInv
<1>3. ASSUME ~spi_task.end, Spi!Answers(spi_task.step),
             spi_card' = [spi_card EXCEPT
                            !.state = Spi!StateAfter(spi_task.step)]
      PROVE  /\ spi_card' \in Spi!Cards
             /\ spi_card'.pin = spi_card.pin /\ spi_card'.edge = spi_card.edge
             /\ spi_task.step = "acmd41" => spi_card'.state = "ready"
             /\ spi_ctx.initialized \/ spi_task.step \in {"cmd58", "csd"} =>
                  spi_card'.state = spi_card.state
             /\ Moving => spi_card'.state = spi_card.state
             /\ spi_card'.state = "absent" => spi_card.state = "absent"
             /\ spi_card.state = "absent" =>
                  spi_task.step \in {"rest", "power_up"}
  <2>1. Spi!StateAfter(spi_task.step) \in {"absent", "off", "idle", "ready"}
    BY DEF Spi!StateAfter, SpiInv, Spi!TypeOK, Spi!Cards
  <2>2. spi_card' \in Spi!Cards
    BY <1>3, <2>1 DEF SpiInv, Spi!TypeOK, Spi!Cards
  <2>3. /\ spi_card'.pin = spi_card.pin /\ spi_card'.edge = spi_card.edge
        /\ spi_card'.state = Spi!StateAfter(spi_task.step)
    BY <1>3 DEF SpiInv, Spi!TypeOK, Spi!Cards
  <2>4. spi_ctx.initialized \/ Moving => spi_task.step \in Spi!SectorSteps
    BY DEF SpiInv, Spi!TypeOK, Spi!Tasks, CourseOfTask
  <2> QED
    BY <1>3, <2>2, <2>3, <2>4 DEF Spi!StateAfter, Spi!Answers, Spi!SectorSteps
<1>4. CASE /\ ~spi_task.end /\ Spi!Answers(spi_task.step)
           /\ spi_card' = [spi_card EXCEPT
                             !.state = Spi!StateAfter(spi_task.step)]
           /\ spi_task.step \in {"power_up", "command", "answer"}
           /\ spi_task' = [spi_task EXCEPT
                             !.pc = "check", !.step = Spi!NextStep[@]]
  <2>1. /\ spi_task.op = "init" => Spi!NextStep[spi_task.step] = "cmd0"
        /\ Moving => Spi!NextStep[spi_task.step] \in Spi!SectorSteps
        /\ spi_task.op \in {"init", "read", "write"}
    BY <1>4, NextStepType DEF SpiInv, Spi!TypeOK, Spi!Tasks, CourseOfTask,
      Spi!InitSteps, Spi!SectorSteps
  <2>2. Spi!NextStep[spi_task.step] \in Spi!InitSteps \cup Spi!SectorSteps
    BY <2>1 DEF Spi!InitSteps
  <2>3. Spi!TypeOK'
    BY <1>3, <1>4, <2>2 DEF SpiInv, Spi!TypeOK, Spi!Tasks, Spi!Points
  <2>4. CourseOfTask'
    BY <1>4, <2>1 DEF SpiInv, Spi!TypeOK, Spi!Tasks, CourseOfTask,
      TransferPoints, Spi!InitSteps
  <2>5. RemovalNoticed' /\ CardAnswers'
    BY <1>3, <1>4, <2>1 DEF SpiInv, Spi!TypeOK, Spi!Tasks, CourseOfTask,
      RemovalNoticed, Watched, CardAnswers, BroughtUp, TransferPoints
  <2>6. LossNoticed' /\ Spi!WholeOrError' /\ Spi!TransferNeverLost'
    BY <1>3, <1>4 DEF SpiInv, Spi!TypeOK, Spi!Tasks, LossNoticed,
      Spi!WholeOrError, Spi!TransferNeverLost
  <2> QED BY <2>3, <2>4, <2>5, <2>6 DEF SpiInv
<1>5. CASE /\ ~spi_task.end /\ Spi!Answers(spi_task.step)
           /\ spi_card' = [spi_card EXCEPT
                             !.state = Spi!StateAfter(spi_task.step)]
           /\ spi_task.step \notin {"power_up", "command", "answer"}
           /\ Spi!EndTransaction("ok")
  <2>1. Spi!TypeOK'
    BY <1>3, <1>5 DEF Spi!EndTransaction, SpiInv, Spi!TypeOK, Spi!Tasks,
      Spi!Points
  <2>2. CourseOfTask'
    BY <1>5 DEF Spi!EndTransaction, SpiInv, Spi!TypeOK, Spi!Tasks,
      CourseOfTask, TransferPoints
  <2>3. RemovalNoticed' /\ CardAnswers'
    BY <1>3, <1>5 DEF Spi!EndTransaction, SpiInv, Spi!TypeOK, Spi!Tasks,
      CourseOfTask, RemovalNoticed, Watched, CardAnswers, BroughtUp,
      TransferPoints
  <2>4. LossNoticed' /\ Spi!WholeOrError' /\ Spi!TransferNeverLost'
    BY <1>3, <1>5 DEF Spi!EndTransaction, SpiInv, Spi!TypeOK, Spi!Tasks,
      LossNoticed, Spi!WholeOrError, Spi!TransferNeverLost
  <2> QED BY <2>1, <2>2, <2>3, <2>4 DEF SpiInv
<1>6. ASSUME NEW result \in {"retry", "error"}, spi_card' = spi_card,
             spi_task' = [spi_task EXCEPT !.pc = "check", !.end = TRUE,
                                          !.result = result]
      PROVE  SpiInv'
  <2>1. Spi!TypeOK'
    BY <1>6 DEF SpiInv, Spi!TypeOK, Spi!Tasks, Spi!Points
  <2>2. CourseOfTask' /\ RemovalNoticed' /\ CardAnswers'
    BY <1>6 DEF SpiInv, Spi!TypeOK, Spi!Tasks, CourseOfTask,
      RemovalNoticed, Watched, CardAnswers, BroughtUp, TransferPoints
  <2>3. LossNoticed' /\ Spi!WholeOrError' /\ Spi!TransferNeverLost'
    BY <1>6 DEF SpiInv, Spi!TypeOK, Spi!Tasks, LossNoticed, Spi!WholeOrError,
      Spi!TransferNeverLost
  <2> QED BY <2>1, <2>2, <2>3 DEF SpiInv
<1> QED
  BY <1>1, <1>2, <1>4, <1>5, <1>6 DEF Spi!TransferDone, Spi!EndTransaction

LEMMA TransferWokenKeeps ==
  ASSUME SpiInv, Spi!TransferWoken
  PROVE  SpiInv'
<1>1. CASE "REMOVED" \in spi_task.events \/ ~spi_card.pin
  <2>1. Spi!InvalidateMedia(spi_ctx) \in Spi!Contexts
    BY NotedType DEF SpiInv, Spi!TypeOK
  <2>2. /\ spi_ctx' \in Spi!Contexts
        /\ spi_ctx'.registered = spi_ctx.registered
        /\ spi_ctx'.media_removal_pending = spi_ctx.media_removal_pending
        /\ spi_ctx'.initialized => spi_ctx.initialized
    BY <1>1 DEF Spi!TransferWoken, Spi!InvalidateMedia, SpiInv, Spi!TypeOK,
      Spi!Contexts
  <2> QED
    BY <1>1, <2>2, FailedKeeps
      DEF Spi!TransferWoken, SpiInv, Spi!TypeOK, TransferPoints
<1>2. CASE ~("REMOVED" \in spi_task.events \/ ~spi_card.pin)
  <2>1. CASE spi_ctx.transfer_result = "E_OK"
    BY <1>2, <2>1, DoneKeeps DEF Spi!TransferWoken
  <2>2. CASE spi_ctx.transfer_result # "E_OK"
    BY <1>2, <2>2, FailedKeeps
      DEF Spi!TransferWoken, SpiInv, Spi!TypeOK, TransferPoints
  <2> QED BY <2>1, <2>2
<1> QED BY <1>1, <1>2

LEMMA PinOpensKeeps ==
  ASSUME SpiInv, Spi!PinOpens
  PROVE  SpiInv'
<1>1. Spi!TypeOK'
  <2>1. spi_card' \in Spi!Cards
    BY DEF Spi!PinOpens, SpiInv, Spi!TypeOK, Spi!Cards
  <2> QED BY <2>1 DEF Spi!PinOpens, SpiInv, Spi!TypeOK
<1>2. CourseOfTask' /\ RemovalNoticed' /\ CardAnswers'
  BY DEF Spi!PinOpens, SpiInv, Spi!TypeOK, Spi!Cards, CourseOfTask,
    RemovalNoticed, Watched, CardAnswers, BroughtUp, TransferPoints
<1>3. LossNoticed' /\ Spi!WholeOrError' /\ Spi!TransferNeverLost'
  BY DEF Spi!PinOpens, SpiInv, Spi!TypeOK, Spi!Cards, CourseOfTask,
    CardAnswers, BroughtUp, LossNoticed, Spi!WholeOrError,
    Spi!TransferNeverLost
<1> QED BY <1>1, <1>2, <1>3 DEF SpiInv

LEMMA PinClosesKeeps ==
  ASSUME SpiInv, Spi!PinCloses
  PROVE  SpiInv'
<1>1. Spi!TypeOK'
  <2>1. spi_card' \in Spi!Cards
    BY DEF Spi!PinCloses, SpiInv, Spi!TypeOK, Spi!Cards
  <2> QED BY <2>1 DEF Spi!PinCloses, SpiInv, Spi!TypeOK
<1>2. CourseOfTask' /\ RemovalNoticed' /\ CardAnswers'
  BY DEF Spi!PinCloses, SpiInv, Spi!TypeOK, Spi!Cards, CourseOfTask,
    RemovalNoticed, Watched, CardAnswers, BroughtUp, TransferPoints
<1>3. LossNoticed' /\ Spi!WholeOrError' /\ Spi!TransferNeverLost'
  BY DEF Spi!PinCloses, SpiInv, Spi!TypeOK, Spi!Cards, CourseOfTask,
    CardAnswers, BroughtUp, LossNoticed, Spi!WholeOrError,
    Spi!TransferNeverLost
<1> QED BY <1>1, <1>2, <1>3 DEF SpiInv

LEMMA CardLostKeeps ==
  ASSUME SpiInv, Spi!CardLost
  PROVE  SpiInv'
<1>1. Spi!TypeOK'
  <2>1. spi_card' \in Spi!Cards
    BY DEF Spi!CardLost, SpiInv, Spi!TypeOK, Spi!Cards
  <2>2. spi_task' \in Spi!Tasks
    BY DEF Spi!CardLost, SpiInv, Spi!TypeOK, Spi!Tasks
  <2> QED BY <2>1, <2>2 DEF Spi!CardLost, SpiInv, Spi!TypeOK
<1>2. CourseOfTask' /\ RemovalNoticed' /\ CardAnswers'
  BY DEF Spi!CardLost, SpiInv, Spi!TypeOK, Spi!Cards, Spi!Tasks, CourseOfTask,
    RemovalNoticed, Watched, CardAnswers, BroughtUp, TransferPoints
<1>3. LossNoticed' /\ Spi!WholeOrError' /\ Spi!TransferNeverLost'
  <2>1. LossNoticed'
    BY DEF Spi!CardLost, SpiInv, Spi!TypeOK, Spi!Cards, Spi!Tasks, LossNoticed,
      CourseOfTask, RemovalNoticed, Watched, TransferPoints
  <2>2. Spi!WholeOrError'
    BY DEF Spi!CardLost, SpiInv, Spi!TypeOK, Spi!Tasks, Spi!WholeOrError
  <2>3. Spi!TransferNeverLost'
    BY DEF Spi!CardLost, SpiInv, Spi!TypeOK, Spi!Tasks, Spi!TransferNeverLost
  <2> QED BY <2>1, <2>2, <2>3
<1> QED BY <1>1, <1>2, <1>3 DEF SpiInv

LEMMA MediaChangedIsrKeeps ==
  ASSUME SpiInv, Spi!MediaChangedIsr
  PROVE  SpiInv'
<1>1. Spi!TypeOK'
  <2>1. spi_card' \in Spi!Cards
    BY DEF Spi!MediaChangedIsr, SpiInv, Spi!TypeOK, Spi!Cards
  <2>2. spi_ctx' \in Spi!Contexts
    BY DEF Spi!MediaChangedIsr, SpiInv, Spi!TypeOK, Spi!Contexts
  <2> QED BY <2>1, <2>2 DEF Spi!MediaChangedIsr, SpiInv, Spi!TypeOK, Spi!Events
<1>2. CourseOfTask' /\ RemovalNoticed' /\ CardAnswers'
  BY DEF Spi!MediaChangedIsr, Spi!Events, SpiInv, Spi!TypeOK, Spi!Cards,
    Spi!Contexts, CourseOfTask, RemovalNoticed, Watched, CardAnswers,
    BroughtUp, TransferPoints
<1>3. LossNoticed' /\ Spi!WholeOrError' /\ Spi!TransferNeverLost'
  BY DEF Spi!MediaChangedIsr, Spi!Events, SpiInv, Spi!TypeOK, Spi!Cards,
    Spi!Contexts, CourseOfTask, CardAnswers, BroughtUp, LossNoticed,
    Spi!WholeOrError, Spi!TransferNeverLost
<1> QED BY <1>1, <1>2, <1>3 DEF SpiInv

LEMMA NoMediaKeeps ==
  ASSUME SpiInv, Spi!NoMedia
  PROVE  SpiInv'
<1>1. Spi!TypeOK'
  <2>1. spi_ctx' \in Spi!Contexts
    BY DEF Spi!NoMedia, SpiInv, Spi!TypeOK, Spi!Contexts, Spi!InvalidateMedia
  <2> QED BY <2>1 DEF Spi!NoMedia, SpiInv, Spi!TypeOK, Spi!InvalidateMedia
<1>2. CourseOfTask' /\ RemovalNoticed' /\ CardAnswers'
  BY DEF Spi!NoMedia, Spi!InvalidateMedia, SpiInv, Spi!TypeOK, Spi!Contexts,
    CourseOfTask, RemovalNoticed, Watched, CardAnswers, BroughtUp,
    TransferPoints
<1>3. LossNoticed' /\ Spi!WholeOrError' /\ Spi!TransferNeverLost'
  BY DEF Spi!NoMedia, Spi!InvalidateMedia, SpiInv, Spi!TypeOK, Spi!Contexts,
    CourseOfTask, CardAnswers, BroughtUp, LossNoticed, Spi!WholeOrError,
    Spi!TransferNeverLost
<1> QED BY <1>1, <1>2, <1>3 DEF SpiInv

LEMMA CallbackKeeps ==
  ASSUME SpiInv, NEW result \in {"E_OK", "E_IO"},
    Spi!Callback(result)
  PROVE  SpiInv'
<1>1. Spi!TypeOK'
  <2>1. spi_ctx' \in Spi!Contexts
    BY DEF Spi!Callback, SpiInv, Spi!TypeOK, Spi!Contexts
  <2> QED BY <2>1 DEF Spi!Callback, SpiInv, Spi!TypeOK, Spi!Events
<1>2. CourseOfTask' /\ RemovalNoticed' /\ CardAnswers'
  BY DEF Spi!Callback, Spi!Events, SpiInv, Spi!TypeOK, Spi!Contexts,
    CourseOfTask, RemovalNoticed, Watched, CardAnswers, BroughtUp,
    TransferPoints
<1>3. LossNoticed' /\ Spi!WholeOrError' /\ Spi!TransferNeverLost'
  BY DEF Spi!Callback, Spi!Events, SpiInv, Spi!TypeOK, Spi!Contexts,
    CourseOfTask, CardAnswers, BroughtUp, LossNoticed, Spi!WholeOrError,
    Spi!TransferNeverLost
<1> QED BY <1>1, <1>2, <1>3 DEF SpiInv

LEMMA TransferClearKeeps ==
  ASSUME SpiInv, Spi!TransferClear
  PROVE  SpiInv'
<1>1. Spi!TypeOK'
  <2>1. spi_task' \in Spi!Tasks
    BY DEF Spi!TransferClear, SpiInv, Spi!TypeOK, Spi!Tasks, Spi!Goto,
      Spi!Points
  <2> QED BY <2>1 DEF Spi!TransferClear, SpiInv, Spi!TypeOK, Spi!Goto
<1>2. CourseOfTask' /\ RemovalNoticed' /\ CardAnswers'
  BY DEF Spi!TransferClear, Spi!Goto, SpiInv, Spi!TypeOK, Spi!Tasks,
    CourseOfTask, RemovalNoticed, Watched, CardAnswers, BroughtUp,
    TransferPoints
<1>3. LossNoticed' /\ Spi!WholeOrError' /\ Spi!TransferNeverLost'
  BY DEF Spi!TransferClear, Spi!Goto, SpiInv, Spi!TypeOK, Spi!Tasks,
    CourseOfTask, CardAnswers, BroughtUp, LossNoticed, Spi!WholeOrError,
    Spi!TransferNeverLost
<1> QED BY <1>1, <1>2, <1>3 DEF SpiInv

LEMMA TransferMarkKeeps ==
  ASSUME SpiInv, Spi!TransferMark
  PROVE  SpiInv'
<1>1. Spi!TypeOK'
  <2>1. spi_ctx' \in Spi!Contexts
    BY DEF Spi!TransferMark, SpiInv, Spi!TypeOK, Spi!Contexts
  <2>2. spi_task' \in Spi!Tasks
    BY DEF Spi!TransferMark, SpiInv, Spi!TypeOK, Spi!Tasks, Spi!Goto,
      Spi!Points
  <2> QED BY <2>1, <2>2 DEF Spi!TransferMark, SpiInv, Spi!TypeOK, Spi!Goto
<1>2. CourseOfTask' /\ RemovalNoticed' /\ CardAnswers'
  BY DEF Spi!TransferMark, Spi!Goto, SpiInv, Spi!TypeOK, Spi!Contexts,
    Spi!Tasks, CourseOfTask, RemovalNoticed, Watched, CardAnswers, BroughtUp,
    TransferPoints
<1>3. LossNoticed' /\ Spi!WholeOrError' /\ Spi!TransferNeverLost'
  BY DEF Spi!TransferMark, Spi!Goto, SpiInv, Spi!TypeOK, Spi!Contexts,
    Spi!Tasks, CourseOfTask, CardAnswers, BroughtUp, LossNoticed,
    Spi!WholeOrError, Spi!TransferNeverLost
<1> QED BY <1>1, <1>2, <1>3 DEF SpiInv

LEMMA TransferWaitKeeps ==
  ASSUME SpiInv, Spi!TransferWait
  PROVE  SpiInv'
<1>1. Spi!TypeOK'
  <2>1. spi_task' \in Spi!Tasks
    BY DEF Spi!TransferWait, SpiInv, Spi!TypeOK, Spi!Tasks, Spi!Points,
      Spi!Events
  <2> QED BY <2>1 DEF Spi!TransferWait, SpiInv, Spi!TypeOK, Spi!Events
<1>2. CourseOfTask' /\ RemovalNoticed' /\ CardAnswers'
  BY DEF Spi!TransferWait, Spi!Events, SpiInv, Spi!TypeOK, Spi!Tasks,
    CourseOfTask, RemovalNoticed, Watched, CardAnswers, BroughtUp,
    TransferPoints
<1>3. LossNoticed' /\ Spi!WholeOrError' /\ Spi!TransferNeverLost'
  BY DEF Spi!TransferWait, Spi!Events, SpiInv, Spi!TypeOK, Spi!Tasks,
    CourseOfTask, CardAnswers, BroughtUp, LossNoticed, Spi!WholeOrError,
    Spi!TransferNeverLost
<1> QED BY <1>1, <1>2, <1>3 DEF SpiInv

LEMMA InitializeBeginKeeps ==
  ASSUME SpiInv, Spi!InitializeBegin
  PROVE  SpiInv'
<1>1. Spi!TypeOK'
  <2>1. spi_ctx' \in Spi!Contexts
    BY DEF Spi!InitializeBegin, SpiInv, Spi!TypeOK, Spi!Contexts,
      Spi!InvalidateMedia
  <2>2. spi_task' \in Spi!Tasks
    BY NoTaskType DEF Spi!InitializeBegin, SpiInv, Spi!TypeOK, Spi!Tasks,
      Spi!NoTask, Spi!Points, Spi!InitSteps, Spi!SectorSteps, Spi!Events
  <2> QED BY <2>1, <2>2 DEF Spi!InitializeBegin, SpiInv, Spi!TypeOK,
    Spi!InvalidateMedia, Spi!NoTask, Spi!Events
<1>2. CourseOfTask' /\ RemovalNoticed' /\ CardAnswers'
  <2>1. /\ spi_task'.pc = "init_forget" /\ spi_task'.op = "init"
        /\ spi_task'.step = "power_up"
    BY DEF Spi!InitializeBegin, Spi!NoTask
  <2>2. spi_ctx.registered /\ spi_ctx'.registered /\ ~spi_ctx'.initialized
    BY DEF Spi!InitializeBegin, Spi!InvalidateMedia, SpiInv, Spi!TypeOK,
      Spi!Contexts
  <2> QED
    BY <2>1, <2>2 DEF CourseOfTask, RemovalNoticed, Watched, CardAnswers,
      BroughtUp, TransferPoints, Spi!InitSteps
<1>3. LossNoticed' /\ Spi!WholeOrError' /\ Spi!TransferNeverLost'
  BY DEF Spi!InitializeBegin, Spi!InvalidateMedia, Spi!NoTask, Spi!SectorSteps,
    Spi!Events, SpiInv, Spi!TypeOK, Spi!Contexts, Spi!Tasks, CourseOfTask,
    CardAnswers, BroughtUp, LossNoticed, Spi!WholeOrError,
    Spi!TransferNeverLost
<1> QED BY <1>1, <1>2, <1>3 DEF SpiInv

LEMMA InitializeForgetKeeps ==
  ASSUME SpiInv, Spi!InitializeForget
  PROVE  SpiInv'
<1>1. Spi!TypeOK'
  <2>1. spi_ctx' \in Spi!Contexts
    BY DEF Spi!InitializeForget, SpiInv, Spi!TypeOK, Spi!Contexts
  <2>2. spi_task' \in Spi!Tasks
    BY DEF Spi!InitializeForget, SpiInv, Spi!TypeOK, Spi!Tasks, Spi!Goto,
      Spi!Points
  <2> QED BY <2>1, <2>2 DEF Spi!InitializeForget, SpiInv, Spi!TypeOK, Spi!Goto
<1>2. CourseOfTask' /\ RemovalNoticed' /\ CardAnswers'
  BY DEF Spi!InitializeForget, Spi!Goto, SpiInv, Spi!TypeOK, Spi!Contexts,
    Spi!Tasks, CourseOfTask, RemovalNoticed, Watched, CardAnswers, BroughtUp,
    TransferPoints
<1>3. LossNoticed' /\ Spi!WholeOrError' /\ Spi!TransferNeverLost'
  <2>1. /\ spi_task.op = "init" /\ spi_task'.op = spi_task.op
        /\ Spi!At("init_clear")'
    BY DEF Spi!InitializeForget, Spi!Goto, SpiInv, Spi!TypeOK, Spi!Tasks,
      CourseOfTask, TransferPoints
  <2> QED BY <2>1 DEF LossNoticed, Spi!WholeOrError, Spi!TransferNeverLost
<1> QED BY <1>1, <1>2, <1>3 DEF SpiInv

LEMMA InitializeClearKeeps ==
  ASSUME SpiInv, Spi!InitializeClear
  PROVE  SpiInv'
<1>1. Spi!TypeOK'
  <2>1. spi_task' \in Spi!Tasks
    BY DEF Spi!InitializeClear, SpiInv, Spi!TypeOK, Spi!Tasks, Spi!Goto,
      Spi!Points
  <2> QED BY <2>1 DEF Spi!InitializeClear, SpiInv, Spi!TypeOK, Spi!Goto
<1>2. CourseOfTask' /\ RemovalNoticed' /\ CardAnswers'
  BY DEF Spi!InitializeClear, Spi!Goto, SpiInv, Spi!TypeOK, Spi!Tasks,
    CourseOfTask, RemovalNoticed, Watched, CardAnswers, BroughtUp,
    TransferPoints
<1>3. LossNoticed' /\ Spi!WholeOrError' /\ Spi!TransferNeverLost'
  BY DEF Spi!InitializeClear, Spi!Goto, SpiInv, Spi!TypeOK, Spi!Tasks,
    CourseOfTask, CardAnswers, BroughtUp, LossNoticed, Spi!WholeOrError,
    Spi!TransferNeverLost
<1> QED BY <1>1, <1>2, <1>3 DEF SpiInv

LEMMA InitializeOpenKeeps ==
  ASSUME SpiInv, Spi!InitializeOpen
  PROVE  SpiInv'
<1>1. Spi!TypeOK'
  <2>1. spi_ctx' \in Spi!Contexts
    BY DEF Spi!InitializeOpen, SpiInv, Spi!TypeOK, Spi!Contexts, Spi!Reopened,
      Spi!ReopenFails, Spi!Noted, Spi!InvalidateMedia
  <2>2. spi_task' \in Spi!Tasks
    BY DEF Spi!InitializeOpen, SpiInv, Spi!TypeOK, Spi!Tasks, Spi!Reopened,
      Spi!ReopenFails, Spi!Return, Spi!Goto, Spi!Points
  <2> QED BY <2>1, <2>2 DEF Spi!InitializeOpen, SpiInv, Spi!TypeOK,
    Spi!Reopened, Spi!ReopenFails, Spi!Noted, Spi!InvalidateMedia, Spi!Return,
    Spi!Goto
<1>2. CourseOfTask' /\ RemovalNoticed' /\ CardAnswers'
  <2>1. /\ spi_task.pc = "init_open" /\ spi_task.op = "init"
        /\ spi_ctx.registered
        /\ spi_task.step = "power_up" /\ ~spi_ctx.initialized
    BY DEF Spi!InitializeOpen, SpiInv, CourseOfTask, TransferPoints
  <2>2. /\ spi_task'.op = spi_task.op /\ spi_task'.step = spi_task.step
        /\ spi_task'.pc = "idle" \/ (spi_task'.pc = "check" /\ spi_card.pin)
    <3>1. CASE spi_task' = [spi_task EXCEPT !.pc = "idle", !.result = "error"]
      BY <3>1 DEF SpiInv, Spi!TypeOK, Spi!Tasks
    <3>2. CASE spi_card.pin /\ spi_task' = [spi_task EXCEPT !.pc = "check"]
      BY <3>2 DEF SpiInv, Spi!TypeOK, Spi!Tasks
    <3> QED BY <3>1, <3>2 DEF Spi!InitializeOpen, Spi!ReopenFails, Spi!Return,
      Spi!Goto
  <2>3. /\ spi_ctx'.registered = spi_ctx.registered /\ ~spi_ctx'.initialized
        /\ spi_card' = spi_card
    BY <2>1 DEF Spi!InitializeOpen, Spi!Reopened, Spi!ReopenFails, Spi!Noted,
      Spi!InvalidateMedia, SpiInv, Spi!TypeOK, Spi!Contexts
  <2> QED
    BY <2>1, <2>2, <2>3 DEF CourseOfTask, RemovalNoticed, Watched, CardAnswers,
      BroughtUp, TransferPoints, Spi!InitSteps
<1>3. LossNoticed' /\ Spi!WholeOrError' /\ Spi!TransferNeverLost'
  BY DEF Spi!InitializeOpen, Spi!Reopened, Spi!ReopenFails, Spi!Noted,
    Spi!InvalidateMedia, Spi!Return, Spi!Goto, SpiInv, Spi!TypeOK,
    Spi!Contexts, Spi!Tasks, CourseOfTask, CardAnswers, BroughtUp, LossNoticed,
    Spi!WholeOrError, Spi!TransferNeverLost
<1> QED BY <1>1, <1>2, <1>3 DEF SpiInv

LEMMA InitializeDoneKeeps ==
  ASSUME SpiInv, Spi!InitializeDone
  PROVE  SpiInv'
<1>1. Spi!TypeOK'
  <2>1. spi_ctx' \in Spi!Contexts
    BY DEF Spi!InitializeDone, SpiInv, Spi!TypeOK, Spi!Contexts, Spi!Reopened,
      Spi!ReopenFails, Spi!Noted, Spi!InvalidateMedia, Spi!Identified
  <2>2. spi_task' \in Spi!Tasks
    BY DEF Spi!InitializeDone, SpiInv, Spi!TypeOK, Spi!Tasks, Spi!ReopenFails,
      Spi!Return, Spi!Points
  <2> QED BY <2>1, <2>2 DEF Spi!InitializeDone, SpiInv, Spi!TypeOK,
    Spi!Reopened, Spi!ReopenFails, Spi!Noted, Spi!InvalidateMedia,
    Spi!Identified, Spi!Return
<1>2. CourseOfTask' /\ RemovalNoticed' /\ CardAnswers'
  <2>1. /\ spi_task.pc = "init_done" /\ spi_task.op = "init"
        /\ spi_task.step = "csd"
        /\ spi_ctx.registered
    BY DEF Spi!InitializeDone, SpiInv, CourseOfTask, TransferPoints
  <2>2. spi_task'.pc = "idle" /\ spi_task'.op = spi_task.op
    BY DEF Spi!InitializeDone, Spi!ReopenFails, Spi!Return, SpiInv, Spi!TypeOK,
      Spi!Tasks
  <2>3. /\ spi_ctx'.media_removal_pending = spi_ctx.media_removal_pending
        /\ spi_ctx'.registered = spi_ctx.registered /\ spi_card' = spi_card
    BY DEF Spi!InitializeDone, Spi!Identified, Spi!ReopenFails, Spi!Noted,
      Spi!InvalidateMedia, SpiInv, Spi!TypeOK, Spi!Contexts
  <2>4. /\ ~spi_card.pin /\ ~spi_card.edge => spi_ctx.media_removal_pending
        /\ spi_ctx.media_removal_pending \/ spi_card.state = "ready"
             \/ Unserved
    BY <2>1 DEF SpiInv, RemovalNoticed, Watched, CardAnswers, BroughtUp
  <2> QED
    BY <2>1, <2>2, <2>3, <2>4 DEF CourseOfTask, RemovalNoticed, CardAnswers
<1>3. LossNoticed' /\ Spi!WholeOrError' /\ Spi!TransferNeverLost'
  <2>1. spi_task.op = "init"
    BY DEF Spi!InitializeDone, SpiInv, CourseOfTask, TransferPoints
  <2>2. spi_task'.pc = "idle" /\ spi_task'.op = spi_task.op
    BY DEF Spi!InitializeDone, Spi!ReopenFails, Spi!Return, SpiInv, Spi!TypeOK,
      Spi!Tasks
  <2> QED BY <2>1, <2>2 DEF LossNoticed, Spi!WholeOrError,
    Spi!TransferNeverLost
<1> QED BY <1>1, <1>2, <1>3 DEF SpiInv

LEMMA ContextInitKeeps ==
  ASSUME SpiInv, Spi!ContextInit
  PROVE  SpiInv'
<1>1. Spi!TypeOK'
  <2>1. spi_ctx' \in Spi!Contexts
    BY DEF Spi!ContextInit, SpiInv, Spi!TypeOK, Spi!Contexts, Spi!NoContext
  <2>2. spi_task' \in Spi!Tasks
    BY NoTaskType DEF Spi!ContextInit, SpiInv, Spi!TypeOK, Spi!Tasks,
      Spi!NoTask, Spi!Points, Spi!InitSteps, Spi!SectorSteps, Spi!Events
  <2> QED BY <2>1, <2>2 DEF Spi!ContextInit, SpiInv, Spi!TypeOK, Spi!NoContext,
    Spi!NoTask, Spi!Events
<1>2. CourseOfTask' /\ RemovalNoticed' /\ CardAnswers'
  BY DEF Spi!ContextInit, Spi!NoContext, Spi!NoTask, Spi!SectorSteps,
    Spi!Events, SpiInv, Spi!TypeOK, Spi!Contexts, Spi!Tasks, CourseOfTask,
    RemovalNoticed, Watched, CardAnswers, BroughtUp, TransferPoints
<1>3. LossNoticed' /\ Spi!WholeOrError' /\ Spi!TransferNeverLost'
  BY DEF Spi!ContextInit, Spi!NoContext, Spi!NoTask, Spi!SectorSteps,
    Spi!Events, SpiInv, Spi!TypeOK, Spi!Contexts, Spi!Tasks, CourseOfTask,
    CardAnswers, BroughtUp, LossNoticed, Spi!WholeOrError,
    Spi!TransferNeverLost
<1> QED BY <1>1, <1>2, <1>3 DEF SpiInv

LEMMA ContextDeinitKeeps ==
  ASSUME SpiInv, Spi!ContextDeinit
  PROVE  SpiInv'
<1>1. Spi!TypeOK'
  <2>1. spi_ctx' \in Spi!Contexts
    BY DEF Spi!ContextDeinit, SpiInv, Spi!TypeOK, Spi!Contexts, Spi!NoContext
  <2>2. spi_task' \in Spi!Tasks
    BY NoTaskType DEF Spi!ContextDeinit, SpiInv, Spi!TypeOK, Spi!Tasks,
      Spi!NoTask, Spi!Points, Spi!InitSteps, Spi!SectorSteps, Spi!Events
  <2> QED BY <2>1, <2>2 DEF Spi!ContextDeinit, SpiInv, Spi!TypeOK,
    Spi!NoContext, Spi!NoTask, Spi!Events
<1>2. CourseOfTask' /\ RemovalNoticed' /\ CardAnswers'
  BY DEF Spi!ContextDeinit, Spi!NoContext, Spi!NoTask, Spi!SectorSteps,
    Spi!Events, SpiInv, Spi!TypeOK, Spi!Contexts, Spi!Tasks, CourseOfTask,
    RemovalNoticed, Watched, CardAnswers, BroughtUp, TransferPoints
<1>3. LossNoticed' /\ Spi!WholeOrError' /\ Spi!TransferNeverLost'
  BY DEF Spi!ContextDeinit, Spi!NoContext, Spi!NoTask, Spi!SectorSteps,
    Spi!Events, SpiInv, Spi!TypeOK, Spi!Contexts, Spi!Tasks, CourseOfTask,
    CardAnswers, BroughtUp, LossNoticed, Spi!WholeOrError,
    Spi!TransferNeverLost
<1> QED BY <1>1, <1>2, <1>3 DEF SpiInv

LEMMA BeginKeeps ==
  ASSUME SpiInv, NEW op \in {"read", "write"},
         NEW sectors \in 1..MaxSectors, Spi!Begin(op, sectors)
  PROVE  SpiInv'
<1>1. /\ spi_task' = [Spi!NoTask EXCEPT !.pc = "check", !.op = op,
                                        !.step = "command", !.left = sectors]
      /\ UNCHANGED <<spi_card, spi_bus, spi_ctx, spi_flags>>
      /\ spi_ctx.registered /\ spi_ctx.initialized
      /\ ~spi_ctx.media_removal_pending
  BY DEF Spi!Begin
<1>2. Spi!TypeOK'
  <2>1. spi_task' \in Spi!Tasks
    <3>1. sectors \in 0..MaxSectors
      OBVIOUS
    <3> QED
      BY <1>1, <3>1 DEF Spi!NoTask, Spi!Tasks, Spi!Points, Spi!InitSteps,
        Spi!SectorSteps, Spi!Events
  <2> QED BY <1>1, <2>1 DEF SpiInv, Spi!TypeOK
<1>3. CourseOfTask' /\ RemovalNoticed' /\ CardAnswers'
  BY <1>1 DEF Spi!NoTask, SpiInv, CourseOfTask, RemovalNoticed, Watched,
    CardAnswers, BroughtUp, TransferPoints, Spi!SectorSteps
<1>4. LossNoticed' /\ Spi!WholeOrError' /\ Spi!TransferNeverLost'
  BY <1>1 DEF Spi!NoTask, LossNoticed, Spi!WholeOrError, Spi!TransferNeverLost
<1> QED BY <1>2, <1>3, <1>4 DEF SpiInv

LEMMA StutterKeeps ==
  ASSUME SpiInv, UNCHANGED spi_vars
  PROVE  SpiInv'
BY DEF spi_vars, SpiInv, Spi!TypeOK, CourseOfTask, RemovalNoticed, Watched,
  CardAnswers, BroughtUp, LossNoticed, Spi!WholeOrError, Spi!TransferNeverLost

LEMMA SpiInitHolds ==
  ASSUME Spi!Init
  PROVE  SpiInv
<1>1. Spi!TypeOK
  <2>1. spi_card \in Spi!Cards
    <3>1. CASE spi_card = [pin |-> TRUE, edge |-> FALSE, state |-> "off"]
      BY <3>1 DEF Spi!Cards
    <3>2. CASE spi_card = [pin |-> FALSE, edge |-> FALSE, state |-> "absent"]
      BY <3>2 DEF Spi!Cards
    <3> QED BY <3>1, <3>2 DEF Spi!Init
  <2>2. spi_ctx \in Spi!Contexts
    BY DEF Spi!Init, Spi!NoContext, Spi!Contexts
  <2> QED BY <2>1, <2>2, NoTaskType DEF Spi!Init, Spi!TypeOK
<1> QED
  BY <1>1 DEF Spi!Init, SpiInv, Spi!NoTask, Spi!NoContext, CourseOfTask,
    RemovalNoticed, Watched, CardAnswers, BroughtUp, LossNoticed,
    Spi!WholeOrError, Spi!TransferNeverLost, TransferPoints

LEMMA SpiNextKeeps ==
  ASSUME SpiInv, [Spi!Next]_spi_vars
  PROVE  SpiInv'
<1>1. CASE Spi!Interrupt
  BY <1>1, PinOpensKeeps, PinClosesKeeps, CardLostKeeps, MediaChangedIsrKeeps,
    CallbackKeeps DEF Spi!Interrupt
<1>2. CASE Spi!Transfer
  BY <1>2, TransferCheckKeeps, TransferClearKeeps, TransferMarkKeeps,
    TransferStartKeeps, TransferWaitKeeps, TransferTimesOutKeeps,
    TransferWokenKeeps DEF Spi!Transfer
<1>3. CASE Spi!InitializeBegin \/ Spi!InitializeForget \/ Spi!InitializeClear
           \/ Spi!InitializeOpen \/ Spi!InitializeDone
  BY <1>3, InitializeBeginKeeps, InitializeForgetKeeps, InitializeClearKeeps,
    InitializeOpenKeeps, InitializeDoneKeeps
<1>4. CASE \E op \in {"read", "write"}, n \in 1..MaxSectors : Spi!Begin(op, n)
  BY <1>4, BeginKeeps
<1>5. CASE Spi!NoMedia \/ Spi!ContextInit \/ Spi!ContextDeinit
  BY <1>5, NoMediaKeeps, ContextInitKeeps, ContextDeinitKeeps
<1>6. CASE UNCHANGED spi_vars
  BY <1>6, StutterKeeps
<1> QED BY <1>1, <1>2, <1>3, <1>4, <1>5, <1>6 DEF Spi!Next

LEMMA SpiInvAlways == Spi!Spec => []SpiInv
<1>1. Spi!Init => SpiInv
  BY SpiInitHolds
<1>2. SpiInv /\ [Spi!Next]_spi_vars => SpiInv'
  BY SpiNextKeeps
<1> QED BY <1>1, <1>2, PTL DEF Spi!Spec, spi_vars, Spi!vars

----------------------------------------------------------------------------
(* Either board.                                                           *)

\* The firmware of a board takes the steps of its driver and leaves the
\* other as it was at the start: it implements both specifications.
THEOREM BoardsImplementDrivers == BoardSpec => Spec /\ Spi!Spec
<1>1. BoardInit => Init /\ Spi!Init
  BY DEF BoardInit
<1>2. [BoardNext]_<<board, vars, spi_vars>> =>
        [Next]_vars /\ [Spi!Next]_spi_vars
  BY DEF BoardNext
<1> QED BY <1>1, <1>2, PTL DEF BoardSpec, Spec, Spi!Spec, spi_vars, Spi!vars

\* A driver of mtfs_ra_sd_spi.c that is initialized serves the card it has
\* brought up, whenever the card is taken out and another put in.
THEOREM ReadyCardCorrect == BoardSpec => []ReadyCardWasBroughtUp
<1>1. SpiInv => ReadyCardWasBroughtUp
  BY DEF SpiInv, CardAnswers, BroughtUp, Spi!ReadyCardWasBroughtUp,
    ReadyCardWasBroughtUp
<1> QED BY <1>1, SpiInvAlways, BoardsImplementDrivers, PTL

\* A read or write whose card left before the last of its data fails,
\* whichever of its transfers clears the event of the removal.
THEOREM WholeOrErrorCorrect == BoardSpec => []WholeOrError
<1>1. SpiInv => WholeOrError
  BY DEF SpiInv, WholeOrError
<1> QED BY <1>1, SpiInvAlways, BoardsImplementDrivers, PTL

\* A task waits for a transfer that runs or for an event that is there, even
\* when the callback comes between the start and the wait.
THEOREM TransferCorrect == BoardSpec => []TransferNeverLost
<1>1. SpiInv => TransferNeverLost
  BY DEF SpiInv, TransferNeverLost
<1> QED BY <1>1, SpiInvAlways, BoardsImplementDrivers, PTL
=============================================================================
