------------------------------- MODULE Sdmmc -------------------------------
(***************************************************************************)
(* mtfs_stm32_sdmmc.c: the SD card driver of the STM32 boards.  One task   *)
(* at a time, the holder of access_mutex_id, runs an operation; the SDMMC  *)
(* interrupt (transfer callbacks and BUSYD0END) and the card detect        *)
(* interrupt preempt it between any two of its steps.  An interrupt        *)
(* handler is one step, because it preempts the task and not another       *)
(* handler of its own.                                                     *)
(*                                                                         *)
(* The HAL is modelled from stm32n6xx_hal_sd.c: a start is refused unless  *)
(* the handle is READY, and HAL_SD_Abort may fail and leave the transfer   *)
(* running with its interrupts disabled (job = "orphan").                  *)
(*                                                                         *)
(* A kernel call on an existing object, HAL_SD_DeInit and                  *)
(* HAL_SD_GetCardInfo do not fail.  Timeouts may pass at any time.         *)
(***************************************************************************)
EXTENDS Naturals

CONSTANT MaxChunks        \* bound: chunks (or polled blocks) of one transfer

ASSUME ChunksAssumption == MaxChunks \in Nat \ {0}

VARIABLES
  card,          \* detect pin, state of the card, D0 held low
  bus,           \* HAL handle, transfer in flight, BUSYD0END flag and mask
  ctx,           \* mtfs_stm32_sdmmc_context_t
  flags,         \* the event flag
  task,          \* the holder of the mutex: control point and locals
  removedSince   \* history: a removal was notified since HAL_SD_Init

vars == <<card, bus, ctx, flags, task, removedSince>>

Ops == {"init", "status", "sync", "read", "write"}
Events == {"RX", "TX", "READY", "ERROR", "REMOVED"}
Points == {"idle", "init_begin", "init_clear", "init_deinit", "init_hal",
           "init_info", "init_fail", "init_undo", "wait", "wait_state",
           "chunk", "start_check", "start", "wait_event", "woken",
           "ready_top", "ready_state", "ready_arm", "ready_enable",
           "ready_recheck", "ready_wait", "ready_woken", "abort",
           "abort_clear", "deinit_hal"}

Cards ==
  [pin : BOOLEAN, state : {"absent", "out", "tran", "prg"}, d0 : BOOLEAN]
Buses ==
  [hal : {"reset", "ready", "busy"},
   job : {"none", "read", "write", "orphan"},
   error : BOOLEAN, end : BOOLEAN, mask : BOOLEAN]
\* mtfs_stm32_sdmmc_context_t
Contexts ==
  [use_idma : BOOLEAN, objects_ready : BOOLEAN, initialized : BOOLEAN,
   hal_initialized : BOOLEAN, transfer_active : BOOLEAN,
   ready_wait_active : BOOLEAN, media_removal_pending : BOOLEAN,
   transfer_hal_error : BOOLEAN]
Tasks ==
  [pc : Points, op : Ops \cup {"none"}, left : 0..MaxChunks,
   events : SUBSET Events]

\* The type of the state; a transfer never goes on with no chunk left, the
\* count an unsigned one that would wrap.
TypeOK ==
  /\ card \in Cards /\ bus \in Buses /\ ctx \in Contexts
  /\ flags \subseteq Events
  /\ task \in Tasks
  /\ task.op \in {"read", "write"} => task.left > 0
  /\ removedSince \in BOOLEAN

NoTask == [pc |-> "idle", op |-> "none", left |-> 0, events |-> {}]
NoContext ==
  [use_idma |-> FALSE, objects_ready |-> FALSE, initialized |-> FALSE,
   hal_initialized |-> FALSE, transfer_active |-> FALSE,
   ready_wait_active |-> FALSE, media_removal_pending |-> FALSE,
   transfer_hal_error |-> FALSE]

Init ==
  /\ card \in {[pin |-> TRUE, state |-> "out", d0 |-> FALSE],
               [pin |-> FALSE, state |-> "absent", d0 |-> FALSE]}
  /\ bus = [hal |-> "reset", job |-> "none", error |-> FALSE, end |-> FALSE,
            mask |-> FALSE]
  /\ ctx = NoContext
  /\ flags = {}
  /\ task = NoTask
  /\ removedSince = FALSE

At(point) == task.pc = point
Goto(point) == task' = [task EXCEPT !.pc = point]
Return == task' = NoTask

----------------------------------------------------------------------------
(* Helpers of the driver.                                                  *)

Accessible == ctx.use_idma /\ ctx.hal_initialized
Disarmed(b) ==
  IF Accessible THEN [b EXCEPT !.mask = FALSE, !.end = FALSE] ELSE b
Inactive(c) == [c EXCEPT !.ready_wait_active = FALSE]
Cleanup(c) == /\ bus' = Disarmed(bus)
              /\ ctx' = Inactive(c)
              /\ flags' = flags \ {"READY"}

InvalidateMedia(c) == [c EXCEPT !.initialized = FALSE]

\* Mutant: every event is cleared.
ClearEveryEvent(set) == {}
ClearTransferEvents(set) == set \ {"RX", "TX", "ERROR", "READY"}

Signal(event, condition) ==
  IF ctx.use_idma /\ condition THEN {event} ELSE {}

\* What the driver checks before it goes on with a card, and what it notes
\* when there is none.
Unavailable == ~card.pin \/ ctx.media_removal_pending
Noted(c) == IF card.pin THEN c ELSE InvalidateMedia(c)

\* Mutant: one chunk too many.
SucceedOnceMore ==
  CASE task.op = "init" -> Goto("init_info")
    [] task.op \in {"read", "write"} /\ task.left > 0 ->
         task' = [task EXCEPT !.pc = "chunk", !.left = @ - 1]
    [] OTHER -> Return

\* The wait of an operation has ended well, or not.
Succeed ==
  CASE task.op = "init" -> Goto("init_info")
    [] task.op \in {"read", "write"} /\ task.left > 1 ->
         task' = [task EXCEPT !.pc = "chunk", !.left = @ - 1]
    [] OTHER -> Return
Fail(c) ==
  /\ ctx' = IF task.op = "status" THEN InvalidateMedia(c) ELSE c
  /\ CASE task.op = "init" -> Goto("init_fail")
       [] task.op = "status" -> Return
       [] OTHER -> Goto("abort")

CompletionEvent == IF task.op = "read" THEN "RX" ELSE "TX"

----------------------------------------------------------------------------
(* The card and its detect pin.                                            *)

\* The pin opens, with the card lost or the contact only bouncing.
PinOpens(lost) ==
  /\ card.pin
  /\ card' = IF lost THEN [pin |-> FALSE, state |-> "absent", d0 |-> FALSE]
             ELSE [card EXCEPT !.pin = FALSE]
  /\ removedSince' = TRUE
  /\ UNCHANGED task
D0Lost(lost) == [bus EXCEPT !.end = @ \/ (lost /\ card.d0)]

RemovalUnheard(lost) ==
  /\ ~ctx.objects_ready /\ PinOpens(lost)
  /\ bus' = D0Lost(lost)
  /\ UNCHANGED <<ctx, flags>>

\* The board's card detect handler calls the driver with present = 0.
MediaChangedIsr(lost) ==
  /\ ctx.objects_ready /\ PinOpens(lost)
  /\ bus' = Disarmed(D0Lost(lost))
  /\ ctx' = [Inactive(ctx) EXCEPT !.media_removal_pending = TRUE,
                                  !.initialized = FALSE]
  /\ flags' = flags \cup Signal("REMOVED", TRUE)

CardInserted ==
  /\ ~card.pin
  /\ card' = [card EXCEPT !.pin = TRUE,
                          !.state = IF @ = "absent" THEN "out" ELSE @]
  /\ UNCHANGED <<bus, ctx, flags, task, removedSince>>

\* While it programs, the card pulls D0 low and releases it, in the end with
\* the programming done.
CardHoldsD0 ==
  /\ card.state = "prg" /\ ~card.d0
  /\ card' = [card EXCEPT !.d0 = TRUE]
  /\ UNCHANGED <<bus, ctx, flags, task, removedSince>>
CardReleasesD0 ==
  /\ card.d0
  /\ \E state \in {"prg", "tran"} :
       card' = [card EXCEPT !.d0 = FALSE, !.state = state]
  /\ bus' = [bus EXCEPT !.end = TRUE]
  /\ UNCHANGED <<ctx, flags, task, removedSince>>
CardProgrammed ==
  /\ card.state = "prg" /\ ~card.d0
  /\ card' = [card EXCEPT !.state = "tran"]
  /\ UNCHANGED <<bus, ctx, flags, task, removedSince>>

----------------------------------------------------------------------------
(* mtfs_stm32_sd_irq_handler and the HAL's callbacks.                      *)

ReadyIrq ==
  /\ bus.end /\ bus.mask /\ bus.hal # "reset"
  /\ bus' = [bus EXCEPT !.end = FALSE, !.mask = FALSE]
  /\ flags' = flags \cup Signal("READY", ctx.ready_wait_active)
  /\ UNCHANGED <<card, ctx, task, removedSince>>

\* The data are through; CMD12 of a multi-block transfer may still fail, and
\* then the error callback comes before the completion's.
TransferComplete(cmd12_fails) ==
  /\ bus.job \in {"read", "write"} /\ card.state = "tran"
  /\ \E d0 \in IF bus.job = "write" THEN BOOLEAN ELSE {FALSE} :
       card' = IF bus.job = "write"
               THEN [card EXCEPT !.state = "prg", !.d0 = d0] ELSE card
  /\ bus' = [bus EXCEPT !.job = "none", !.hal = "ready",
                        !.error = @ \/ cmd12_fails]
  /\ ctx' = [ctx EXCEPT !.transfer_hal_error = @ \/ cmd12_fails]
  /\ flags' = flags
       \cup Signal("ERROR", cmd12_fails
                   /\ (ctx.transfer_active \/ ctx.ready_wait_active))
       \cup Signal(IF bus.job = "read" THEN "RX" ELSE "TX",
                   ctx.transfer_active)
  /\ UNCHANGED <<task, removedSince>>

TransferError ==
  /\ bus.job \in {"read", "write"}
  /\ bus' = [bus EXCEPT !.job = "none", !.hal = "ready", !.error = TRUE]
  /\ ctx' = [ctx EXCEPT !.transfer_hal_error = TRUE]
  /\ flags' = flags \cup Signal("ERROR",
                       ctx.transfer_active \/ ctx.ready_wait_active)
  /\ UNCHANGED <<card, task, removedSince>>

\* A transfer that the HAL failed to abort ends by itself, unnoticed.
OrphanEnds ==
  /\ bus.job = "orphan"
  /\ bus' = [bus EXCEPT !.job = "none"]
  /\ \E state \in {card.state} \cup IF card.state = "tran" THEN {"prg"} ELSE {} :
       card' = [card EXCEPT !.state = state]
  /\ UNCHANGED <<ctx, flags, task, removedSince>>

HalDeInit ==
  /\ bus' = [bus EXCEPT !.hal = "reset", !.job = "none", !.error = FALSE]
  /\ card' = [card EXCEPT !.state = IF @ = "absent" THEN @ ELSE "out",
                          !.d0 = FALSE]

----------------------------------------------------------------------------
(* Creation and destruction of the context, with no operation running.     *)

ContextInit(use_idma) ==
  /\ At("idle") /\ ~ctx.objects_ready
  /\ ctx' = [NoContext EXCEPT !.use_idma = use_idma, !.objects_ready = TRUE]
  /\ flags' = {}
  /\ UNCHANGED <<card, bus, task, removedSince>>

ContextDeinit ==
  /\ At("idle") /\ ctx.objects_ready
  /\ bus' = Disarmed(bus)
  /\ IF ctx.hal_initialized
     THEN /\ ctx' = [Inactive(ctx) EXCEPT !.hal_initialized = FALSE]
          /\ Goto("deinit_hal")
          /\ flags' = flags
     ELSE ctx' = NoContext /\ Return /\ flags' = {}
  /\ UNCHANGED <<card, removedSince>>
ContextDeinitHal ==
  /\ At("deinit_hal")
  /\ HalDeInit
  /\ ctx' = NoContext /\ flags' = {} /\ Return
  /\ UNCHANGED removedSince

----------------------------------------------------------------------------
(* mtfs_stm32_sd_initialize.                                               *)

\* The checks before the mutex is taken: any task, whatever the holder does.
InitializeRefused ==
  /\ ctx.objects_ready
  /\ ~card.pin \/ ctx.use_idma          \* no card, or the platform not ready
  /\ ctx' = InvalidateMedia(ctx)
  /\ UNCHANGED <<card, bus, flags, task, removedSince>>

InitializeBegin ==
  /\ At("idle") /\ ctx.objects_ready /\ card.pin
  /\ task' = [NoTask EXCEPT !.pc = "init_begin", !.op = "init"]
  /\ UNCHANGED <<card, bus, ctx, flags, removedSince>>

InitializeForget ==
  /\ At("init_begin") /\ Goto("init_clear")
  /\ ctx' = [Inactive(ctx) EXCEPT !.media_removal_pending = FALSE]
  /\ bus' = Disarmed(bus)
  /\ UNCHANGED <<card, flags, removedSince>>

\* Mutant: hal_initialized is cleared only after HAL_SD_DeInit.
InitializeClearLate ==
  /\ At("init_clear")
  /\ Goto(IF ctx.hal_initialized THEN "init_deinit" ELSE "init_hal")
  /\ flags' = {}
  /\ ctx' = InvalidateMedia(ctx)
  /\ UNCHANGED <<card, bus, removedSince>>

InitializeClear ==
  /\ At("init_clear")
  /\ Goto(IF ctx.hal_initialized THEN "init_deinit" ELSE "init_hal")
  /\ flags' = {}
  /\ ctx' = [InvalidateMedia(ctx) EXCEPT !.hal_initialized = FALSE]
  /\ UNCHANGED <<card, bus, removedSince>>

InitializeDeInit ==
  /\ At("init_deinit") /\ Goto("init_hal")
  /\ HalDeInit
  /\ UNCHANGED <<ctx, flags, removedSince>>

\* HAL_SD_Init brings a card in the socket to the transfer state, or fails;
\* the ready interrupt is disarmed after a success.
InitializeHal ==
  /\ At("init_hal")
  /\ \/ /\ card.state # "absent" /\ Goto("wait")
        /\ card' = [card EXCEPT !.state = "tran", !.d0 = FALSE]
        /\ bus' = [bus EXCEPT !.hal = "ready", !.error = FALSE,
                              !.mask = FALSE, !.end = FALSE]
        /\ ctx' = [Inactive(ctx) EXCEPT !.hal_initialized = TRUE]
        /\ removedSince' = FALSE
     \/ /\ Return
        /\ \E hal \in {"ready", "busy"} :
             bus' = [bus EXCEPT !.hal = hal, !.error = TRUE]
        /\ ctx' = [Noted(ctx) EXCEPT !.hal_initialized = TRUE]
        /\ UNCHANGED <<card, removedSince>>
  /\ UNCHANGED flags

\* The card's data are taken, and a removal that came meanwhile is cleared
\* from the context, but not from the event flag.
InitializeDone ==
  /\ At("init_info")
  /\ \/ /\ Return
        /\ ctx' = [ctx EXCEPT !.media_removal_pending = FALSE,
                              !.initialized = TRUE,
                              !.transfer_hal_error = FALSE]
     \/ Goto("init_fail") /\ ctx' = ctx        \* not a geometry for it
  /\ UNCHANGED <<card, bus, flags, removedSince>>

InitializeFail ==
  /\ At("init_fail") /\ Goto("init_undo")
  /\ bus' = Disarmed(bus)
  /\ ctx' = [Inactive(ctx) EXCEPT !.hal_initialized = FALSE]
  /\ UNCHANGED <<card, flags, removedSince>>
InitializeUndo ==
  /\ At("init_undo") /\ Return
  /\ HalDeInit
  /\ ctx' = InvalidateMedia(ctx)
  /\ UNCHANGED <<flags, removedSince>>

----------------------------------------------------------------------------
(* status, sync, geometry, read and write take the mutex and check.        *)

Refused ==
  /\ At("idle") /\ ctx.objects_ready
  /\ Unavailable \/ ~ctx.initialized
  /\ ctx' = Noted(ctx)
  /\ UNCHANGED <<card, bus, flags, task, removedSince>>

Begin(op, chunks) ==
  /\ At("idle") /\ ctx.objects_ready
  /\ ~Unavailable /\ ctx.initialized
  /\ task' = [pc |-> IF op \in {"read", "write"} THEN "chunk" ELSE "wait",
              op |-> op, left |-> chunks, events |-> {}]
  /\ UNCHANGED <<card, bus, ctx, flags, removedSince>>

\* mtfs_stm32_sd_wait_transfer: media, then the card's state, until TRANSFER.
WaitMedia ==
  /\ At("wait")
  /\ \/ Unavailable /\ Fail(Noted(ctx))
     \/ ~Unavailable /\ Goto("wait_state") /\ ctx' = ctx
  /\ UNCHANGED <<card, bus, flags, removedSince>>

WaitState ==
  /\ At("wait_state")
  /\ \/ card.state = "tran" /\ Succeed /\ UNCHANGED <<bus, ctx>>
     \/ /\ \E failed \in BOOLEAN :
             /\ failed \/ card.state = "prg"
             /\ bus' = [bus EXCEPT !.error = @ \/ failed]
        /\ \/ Goto("wait") /\ ctx' = ctx
           \/ Fail(ctx)                        \* the timeout has passed
  /\ UNCHANGED <<card, flags, removedSince>>

\* One block of mtfs_stm32_sd_polling_read or _write.
PollBlock ==
  /\ At("chunk") /\ ~ctx.use_idma
  /\ \/ /\ bus.hal = "ready" /\ card.state = "tran" /\ Goto("wait")
        /\ card' = IF task.op = "write"
                   THEN [card EXCEPT !.state = "prg"] ELSE card
        /\ UNCHANGED <<bus, ctx>>
     \/ /\ Goto("abort") /\ card' = card
        /\ bus' = [bus EXCEPT !.error = TRUE]
        /\ ctx' = Noted(ctx)
  /\ UNCHANGED <<flags, removedSince>>

----------------------------------------------------------------------------
(* One chunk of mtfs_stm32_sd_idma_read or _write.                         *)

ChunkClear ==
  /\ At("chunk") /\ ctx.use_idma /\ Goto("start_check")
  /\ ctx' = [ctx EXCEPT !.transfer_hal_error = FALSE]
  /\ flags' = ClearTransferEvents(flags)
  /\ UNCHANGED <<card, bus, removedSince>>

ChunkCheck ==
  /\ At("start_check")
  /\ \/ Unavailable /\ Return /\ ctx' = Noted(ctx)
     \/ /\ ~Unavailable /\ Goto("start")
        /\ ctx' = [ctx EXCEPT !.transfer_active = TRUE]
  /\ UNCHANGED <<card, bus, flags, removedSince>>

\* HAL_SD_ReadBlocks_DMA or _WriteBlocks_DMA: started, the command not
\* answered, or HAL_BUSY.
ChunkStart ==
  /\ At("start")
  /\ \/ /\ bus.hal = "ready" /\ card.state = "tran" /\ Goto("wait_event")
        /\ bus' = [bus EXCEPT !.hal = "busy", !.error = FALSE,
                              !.job = task.op]
     \/ /\ Goto("abort")
        /\ bus' = [bus EXCEPT !.error = @ \/ bus.hal = "ready"]
  /\ UNCHANGED <<card, ctx, flags, removedSince>>

\* tk_wai_flg with TWF_ORW | TWF_BITCLR: the events waited for, or E_TMOUT
\* (none).
WaitFlag(wanted, next) ==
  /\ task' = [task EXCEPT !.pc = next, !.events = flags \cap wanted]
  /\ flags' = flags \ wanted
  /\ UNCHANGED <<card, bus, ctx, removedSince>>

WaitEvent ==
  At("wait_event") /\ WaitFlag({CompletionEvent, "ERROR", "REMOVED"}, "woken")

\* Mutant: the timeout is returned without an abort.
WokenNoAbort ==
  /\ At("woken")
  /\ LET c == [ctx EXCEPT !.transfer_active = FALSE] IN
     ctx' = IF "REMOVED" \in task.events THEN InvalidateMedia(c) ELSE c
  /\ \/ task.events = {CompletionEvent}
        /\ Goto(IF task.op = "write" THEN "ready_top" ELSE "wait")
     \/ task.events \cap {"REMOVED", "ERROR"} # {} /\ Goto("abort")
     \/ task.events = {} /\ Return
  /\ UNCHANGED <<card, bus, flags, removedSince>>

Woken ==
  /\ At("woken")
  /\ LET c == [ctx EXCEPT !.transfer_active = FALSE] IN
     ctx' = IF "REMOVED" \in task.events THEN InvalidateMedia(c) ELSE c
  /\ \/ task.events = {CompletionEvent}
        /\ Goto(IF task.op = "write" THEN "ready_top" ELSE "wait")
     \/ task.events # {CompletionEvent} /\ Goto("abort")
  /\ UNCHANGED <<card, bus, flags, removedSince>>

----------------------------------------------------------------------------
(* mtfs_stm32_sd_wait_ready_irq: after a write, until the card is ready.   *)

ReadyCheck ==
  /\ At("ready_top")
  /\ LET broken == bus.error \/ ctx.transfer_hal_error IN
     \/ (Unavailable \/ broken) /\ Cleanup(Noted(ctx)) /\ Goto("abort")
     \/ /\ ~Unavailable /\ ~broken /\ Goto("ready_state")
        /\ UNCHANGED <<bus, ctx, flags>>
  /\ UNCHANGED <<card, removedSince>>

\* Mutant: the card counts as ready as soon as D0 is high.
ReadyStateByD0 ==
  /\ At("ready_state")
  /\ \/ ~card.d0 /\ Cleanup(ctx) /\ Succeed
     \/ card.d0 /\ Goto("ready_arm") /\ UNCHANGED <<bus, ctx, flags>>
  /\ UNCHANGED <<card, removedSince>>

\* With D0 high the card is asked for its state; the answer may fail.
ReadyState ==
  /\ At("ready_state")
  /\ \/ ~card.d0 /\ card.state = "tran" /\ Cleanup(ctx) /\ Succeed
     \/ ~card.d0 /\ Goto("abort") /\ flags' = flags \ {"READY"}
        /\ bus' = [Disarmed(bus) EXCEPT !.error = TRUE]
        /\ ctx' = Inactive(ctx)
     \/ card.state = "prg"
        /\ \/ Goto("ready_arm") /\ UNCHANGED <<bus, ctx, flags>>
           \/ Cleanup(ctx) /\ Goto("abort")    \* the timeout has passed
  /\ UNCHANGED <<card, removedSince>>

ReadyArm ==
  /\ At("ready_arm") /\ Goto("ready_enable")
  /\ flags' = flags \ {"READY"}
  /\ bus' = [bus EXCEPT !.mask = FALSE, !.end = FALSE]
  /\ UNCHANGED <<card, ctx, removedSince>>
ReadyEnable ==
  /\ At("ready_enable") /\ Goto("ready_recheck")
  /\ ctx' = [ctx EXCEPT !.ready_wait_active = TRUE]
  /\ bus' = [bus EXCEPT !.mask = TRUE]
  /\ UNCHANGED <<card, flags, removedSince>>

\* Mutant: D0 is not read again after the interrupt was enabled.
ReadyRecheckNoBusy ==
  /\ At("ready_recheck")
  /\ \/ Unavailable /\ Cleanup(Noted(ctx)) /\ Goto("abort")
     \/ ~Unavailable /\ Goto("ready_wait") /\ UNCHANGED <<bus, ctx, flags>>
  /\ UNCHANGED <<card, removedSince>>

ReadyRecheck ==
  /\ At("ready_recheck")
  /\ \/ Unavailable /\ Cleanup(Noted(ctx)) /\ Goto("abort")
     \/ /\ ~Unavailable /\ card.d0 /\ Goto("ready_wait")
        /\ UNCHANGED <<bus, ctx, flags>>
     \/ ~Unavailable /\ ~card.d0 /\ Cleanup(ctx) /\ Goto("ready_top")
     \/ ~Unavailable /\ Cleanup(ctx) /\ Goto("abort")   \* timeout
  /\ UNCHANGED <<card, removedSince>>

ReadyWait ==
  At("ready_wait") /\ WaitFlag({"READY", "ERROR", "REMOVED"}, "ready_woken")

ReadyWoken ==
  /\ At("ready_woken")
  /\ Cleanup(IF "REMOVED" \in task.events THEN InvalidateMedia(ctx) ELSE ctx)
  /\ \/ task.events \subseteq {"READY"} /\ Goto("ready_top")
     \/ task.events # {"READY"} /\ Goto("abort")
  /\ UNCHANGED <<card, removedSince>>

----------------------------------------------------------------------------
(* mtfs_stm32_sd_abort, the end of every transfer that failed.             *)

\* HAL_SD_Abort does nothing on a READY handle.  CMD12 may fail, with the
\* handle left BUSY, or the end not be seen in time, with the handle READY;
\* the transfer's interrupts are off then.
AbortHal ==
  /\ At("abort") /\ Goto("abort_clear")
  /\ ctx' = [Inactive(ctx) EXCEPT !.transfer_active = FALSE]
  /\ LET b == Disarmed(bus) IN
     IF bus.job = "none" THEN bus' = b /\ card' = card
     ELSE \/ /\ \E error \in BOOLEAN :
                  bus' = [b EXCEPT !.job = "none", !.hal = "ready",
                                   !.end = FALSE, !.error = error]
             /\ \E state \in {card.state} \cup
                     IF card.state = "tran" /\ bus.job = "write"
                     THEN {"prg"} ELSE {} :
                  card' = [card EXCEPT !.state = state]
          \/ /\ \E hal \in {"busy", "ready"} :
                  bus' = [b EXCEPT !.job = "orphan", !.hal = hal,
                                   !.error = TRUE]
             /\ card' = card
  /\ UNCHANGED <<flags, removedSince>>

\* Mutant: the media stay valid after an abort.
AbortClearKeepsMedia ==
  /\ At("abort_clear") /\ Return
  /\ flags' = {}
  /\ UNCHANGED <<card, bus, ctx, removedSince>>

AbortClear ==
  /\ At("abort_clear") /\ Return
  /\ ctx' = InvalidateMedia(ctx)
  /\ flags' = {}
  /\ UNCHANGED <<card, bus, removedSince>>

----------------------------------------------------------------------------
Interrupt ==
  \/ \E lost \in BOOLEAN : RemovalUnheard(lost) \/ MediaChangedIsr(lost)
  \/ CardInserted \/ CardHoldsD0 \/ CardReleasesD0 \/ CardProgrammed
  \/ ReadyIrq \/ TransferError \/ OrphanEnds
  \/ \E cmd12_fails \in BOOLEAN : TransferComplete(cmd12_fails)

Initialize ==
  \/ InitializeRefused \/ InitializeBegin \/ InitializeForget
  \/ InitializeClear \/ InitializeDeInit \/ InitializeHal
  \/ InitializeDone \/ InitializeFail \/ InitializeUndo

Operation ==
  \/ Refused
  \/ \E op \in {"status", "sync"} : Begin(op, 0)
  \/ \E op \in {"read", "write"}, n \in 1..MaxChunks : Begin(op, n)
  \/ WaitMedia \/ WaitState \/ PollBlock
  \/ ChunkClear \/ ChunkCheck \/ ChunkStart \/ WaitEvent \/ Woken
  \/ ReadyCheck \/ ReadyState \/ ReadyArm \/ ReadyEnable \/ ReadyRecheck
  \/ ReadyWait \/ ReadyWoken \/ AbortHal \/ AbortClear

Next ==
  \/ Interrupt \/ Initialize \/ Operation
  \/ \E use_idma \in BOOLEAN : ContextInit(use_idma)
  \/ ContextDeinit \/ ContextDeinitHal

Spec == Init /\ [][Next]_vars

----------------------------------------------------------------------------
(* Properties.                                                             *)

\* A completion event that ends the wait of a chunk is that chunk's: while
\* the task waits and the event is set, or has just taken it, no transfer is
\* in flight.  A late callback of a transfer that was given up would break
\* it, and the caller would get the buffer before its data.
CompletionIsOwn ==
  \/ At("wait_event") /\ CompletionEvent \in flags
  \/ At("woken") /\ CompletionEvent \in task.events
  => bus.job = "none"

\* A transfer is started only with no other one in flight, not even one that
\* could not be aborted, and never on a card that still programs an earlier
\* write.
StartsOnQuietBus ==
  At("start") /\ ~removedSince => bus.job = "none" /\ card.state # "prg"

\* Between operations an initialized driver has a card in the transfer state
\* (so a write that returned OK is programmed) and nothing armed or running,
\* as long as no removal was notified.
QuietAtRest ==
  At("idle") /\ ctx.initialized /\ ~removedSince =>
    /\ card.state = "tran" /\ bus.job = "none"
    /\ ~ctx.transfer_active /\ ~ctx.ready_wait_active /\ ~bus.mask

\* No wakeup of the ready wait is lost: a task that waits has an event to
\* take, or the interrupt armed with the card busy or its end latched.
ReadyNeverLost ==
  At("ready_wait") =>
    \/ flags \cap {"READY", "ERROR", "REMOVED"} # {}
    \/ ctx.ready_wait_active /\ bus.mask /\ (card.d0 \/ bus.end)

\* A removal that initialize has cleared from the context stays in the event
\* flag, where the next transfer finds it.
RemovalNotForgotten ==
  At("idle") /\ ctx.use_idma /\ ctx.initialized /\ removedSince =>
    "REMOVED" \in flags

\* Whenever an interrupt handler would touch the SDMMC registers, their clock
\* is on.
RegistersClocked == Accessible => bus.hal # "reset"
=============================================================================
