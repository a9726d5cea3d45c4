------------------------------- MODULE SdSpi -------------------------------
(***************************************************************************)
(* mtfs_ra_sd_spi.c: the SD card driver of the RA board.  A command, the   *)
(* data of a sector and the clock that ends a transaction are all sent by  *)
(* mtfs_sd_transfer, which starts the SPI channel and waits for its        *)
(* callback on an event flag.  The callback and the card detect interrupt  *)
(* preempt the task between any two of its steps.                          *)
(*                                                                         *)
(* One task at a time runs an operation, as the mutex and the file system  *)
(* above it have it.  The FSP channel is modelled from how it is used: it  *)
(* refuses to start while it is busy or closed, and a close stops it.      *)
(* How often a step polls and when its deadline passes is left open, the   *)
(* looks at the card detect pin before a transfer are one, and the card's  *)
(* type and capacity are left out.                                         *)
(***************************************************************************)
EXTENDS Naturals

CONSTANT MaxSectors       \* bound: sectors of one read or write

VARIABLES
  card,     \* detect pin, its edge not yet served, state of the card
  bus,      \* the transfer of the SPI channel: none, the task's, a given-up one
  ctx,      \* mtfs_ra_sd_spi_context_t
  flags,    \* the event flag
  task      \* the operation that runs, or the result of the last one

vars == <<card, bus, ctx, flags, task>>

Events == {"TRANSFER", "REMOVED"}
InitSteps == {"power_up", "cmd0", "cmd8", "acmd41", "cmd58", "csd"}
SectorSteps == {"command", "answer", "rest"}
Points == {"idle", "init_forget", "init_clear", "init_open", "init_done",
           "check", "clear", "mark", "start", "wait", "woken"}
NextStep ==
  [power_up |-> "cmd0", cmd0 |-> "cmd8", cmd8 |-> "acmd41",
   acmd41 |-> "cmd58", cmd58 |-> "csd", command |-> "answer",
   answer |-> "rest"]

Cards == [pin : BOOLEAN, edge : BOOLEAN,
          state : {"absent", "off", "idle", "ready"}]
Contexts ==
  [registered : BOOLEAN, initialized : BOOLEAN,
   media_removal_pending : BOOLEAN, fsp_open : BOOLEAN,
   transfer_result : {"E_OK", "E_IO"}]
Tasks ==
  [pc : Points, op : {"none", "init", "read", "write"},
   step : InitSteps \cup SectorSteps, end : BOOLEAN,
   left : 0..MaxSectors, result : {"ok", "retry", "error"},
   events : SUBSET Events, lost : BOOLEAN]

\* The type of the state.
TypeOK ==
  /\ card \in Cards /\ ctx \in Contexts /\ task \in Tasks
  /\ flags \subseteq Events
  /\ bus \in {"none", "own", "late"}

NoTask == [pc |-> "idle", op |-> "none", step |-> "power_up", end |-> FALSE,
           left |-> 0, result |-> "error", events |-> {}, lost |-> FALSE]
NoContext ==
  [registered |-> FALSE, initialized |-> FALSE,
   media_removal_pending |-> FALSE, fsp_open |-> FALSE,
   transfer_result |-> "E_OK"]

Init ==
  /\ card \in {[pin |-> TRUE, edge |-> FALSE, state |-> "off"],
               [pin |-> FALSE, edge |-> FALSE, state |-> "absent"]}
  /\ bus = "none"
  /\ ctx = NoContext
  /\ flags = {}
  /\ task = NoTask

At(point) == task.pc = point
Goto(point) == task' = [task EXCEPT !.pc = point]
Return(result) == task' = [task EXCEPT !.pc = "idle", !.result = result]

InvalidateMedia(c) == [c EXCEPT !.initialized = FALSE]
Noted(c) == IF card.pin THEN c ELSE InvalidateMedia(c)

----------------------------------------------------------------------------
(* The card and its detect pin.  A contact may bounce faster than its      *)
(* interrupt is served; another card is not put in as fast.                *)

PinOpens ==
  /\ card.pin
  /\ card' = [card EXCEPT !.pin = FALSE, !.edge = TRUE]
  /\ UNCHANGED <<bus, ctx, flags, task>>

PinCloses ==
  /\ ~card.pin
  /\ card.state = "absent" => ~card.edge
  /\ card' = [card EXCEPT !.pin = TRUE, !.edge = TRUE,
                          !.state = IF @ = "absent" THEN "off" ELSE @]
  /\ UNCHANGED <<bus, ctx, flags, task>>

\* The card has left the socket.  History: a read or write lost its card
\* while it still had data to move.
CardLost ==
  /\ ~card.pin /\ card.state # "absent"
  /\ card' = [card EXCEPT !.state = "absent"]
  /\ task' = [task EXCEPT !.lost = @ \/ /\ task.pc # "idle"
                                        /\ ~(task.end /\ task.left = 1)]
  /\ UNCHANGED <<bus, ctx, flags>>

\* The board's card detect handler tells the driver of a card that is out.
MediaChangedIsr ==
  /\ card.edge
  /\ card' = [card EXCEPT !.edge = FALSE]
  /\ IF ctx.registered /\ ~card.pin
     THEN /\ ctx' = [ctx EXCEPT !.media_removal_pending = TRUE,
                                !.initialized = FALSE]
          /\ flags' = flags \cup {"REMOVED"}
     ELSE UNCHANGED <<ctx, flags>>
  /\ UNCHANGED <<bus, task>>

----------------------------------------------------------------------------
(* mtfs_ra_sd_spi_callback.                                                *)

\* Mutant: only a transfer that went well is reported.
CallbackOfSuccess(result) ==
  /\ bus # "none"
  /\ bus' = "none"
  /\ ctx' = [ctx EXCEPT !.transfer_result = result]
  /\ flags' = IF result = "E_OK" THEN flags \cup {"TRANSFER"} ELSE flags
  /\ UNCHANGED <<card, task>>

Callback(result) ==
  /\ bus # "none"
  /\ bus' = "none"
  /\ ctx' = [ctx EXCEPT !.transfer_result = result]
  /\ flags' = flags \cup {"TRANSFER"}
  /\ UNCHANGED <<card, task>>

----------------------------------------------------------------------------
(* The course of an operation: what follows a transfer.                    *)

\* What the card answers to: a card that is out gives ones, which read as
\* data and as the end of programming, but as nothing else.
Answers(step) ==
  CASE step \in {"rest", "power_up"} -> TRUE
    [] step = "cmd0" -> card.state # "absent"
    [] step \in {"cmd8", "acmd41", "cmd58"} -> card.state \in {"idle", "ready"}
    [] OTHER -> card.state = "ready"

StateAfter(step) ==
  CASE step = "cmd0" -> "idle"
    [] step = "acmd41" -> "ready"
    [] OTHER -> card.state

\* mtfs_sd_end_transaction sends one more byte, whatever the transaction
\* came to.
EndTransaction(result) ==
  task' = [task EXCEPT !.pc = "check", !.end = TRUE, !.result = result]

\* After a transaction that has ended as task.result says; the deadline of an
\* initialize may have passed.
Onward ==
  \/ (task.result = "error" \/ task.op = "init") /\ Return("error")
  \/ /\ task.result = "retry"
     /\ task' = [task EXCEPT !.pc = "check", !.end = FALSE]
  \/ /\ task.result = "ok" /\ task.op = "init"
     /\ task' = IF task.step = "csd" THEN [task EXCEPT !.pc = "init_done"]
                ELSE [task EXCEPT !.pc = "check", !.end = FALSE,
                                  !.step = NextStep[@]]
  \/ /\ task.result = "ok" /\ task.op # "init"
     /\ IF task.left = 1 THEN Return("ok")
        ELSE task' = [task EXCEPT !.pc = "check", !.end = FALSE,
                                  !.step = "command", !.left = @ - 1]

\* Mutant: the result of end_transaction is dropped.
TransactionEndedAnyhow(ok) == Onward
TransactionEnded(ok) == IF ok THEN Onward ELSE Return("error")

TransferFailed ==
  IF task.end THEN TransactionEnded(FALSE)
  ELSE IF task.step = "power_up" THEN Return("error")
  ELSE EndTransaction("error")

\* A transfer went well: the step polls on, has its answer, or gives up.
TransferDone ==
  \/ task.end /\ TransactionEnded(TRUE) /\ card' = card
  \/ ~task.end /\ Goto("check") /\ card' = card
  \/ /\ ~task.end /\ Answers(task.step)
     /\ card' = [card EXCEPT !.state = StateAfter(task.step)]
     /\ IF task.step \in {"power_up", "command", "answer"}
        THEN task' = [task EXCEPT !.pc = "check", !.step = NextStep[@]]
        ELSE EndTransaction("ok")
  \/ /\ ~task.end /\ task.step # "power_up"
     /\ EndTransaction("error") /\ card' = card
  \/ /\ ~task.end /\ task.step \in {"cmd0", "acmd41"}
     /\ task' = [task EXCEPT !.pc = "check", !.end = TRUE, !.result = "retry"]
     /\ card' = card

----------------------------------------------------------------------------
(* mtfs_sd_transfer.                                                       *)

TransferCheck ==
  /\ At("check")
  /\ IF ~card.pin \/ ctx.media_removal_pending
     THEN TransferFailed /\ ctx' = Noted(ctx)
     ELSE Goto("clear") /\ ctx' = ctx
  /\ UNCHANGED <<card, bus, flags>>

TransferClear ==
  /\ At("clear") /\ Goto("mark")
  /\ flags' = {}
  /\ UNCHANGED <<card, bus, ctx>>

TransferMark ==
  /\ At("mark") /\ Goto("start")
  /\ ctx' = [ctx EXCEPT !.transfer_result = "E_IO"]
  /\ UNCHANGED <<card, bus, flags>>

TransferStart ==
  /\ At("start")
  /\ IF bus = "none" /\ ctx.fsp_open
     THEN bus' = "own" /\ Goto("wait") /\ ctx' = ctx
     ELSE TransferFailed /\ ctx' = Noted(ctx) /\ bus' = bus
  /\ UNCHANGED <<card, flags>>

TransferWait ==
  /\ At("wait") /\ flags # {}
  /\ task' = [task EXCEPT !.pc = "woken", !.events = flags]
  /\ flags' = {}
  /\ UNCHANGED <<card, bus, ctx>>

\* The wait times out, and nothing stops the transfer.
TransferTimesOut ==
  /\ At("wait") /\ flags = {}
  /\ TransferFailed
  /\ bus' = IF bus = "own" THEN "late" ELSE bus
  /\ UNCHANGED <<card, ctx, flags>>

TransferWoken ==
  /\ At("woken")
  /\ IF "REMOVED" \in task.events \/ ~card.pin
     THEN /\ ctx' = [InvalidateMedia(ctx) EXCEPT !.fsp_open = FALSE]
          /\ bus' = IF ctx.fsp_open THEN "none" ELSE bus
          /\ TransferFailed /\ card' = card
     ELSE /\ IF ctx.transfer_result = "E_OK"
             THEN TransferDone ELSE TransferFailed /\ card' = card
          /\ UNCHANGED <<bus, ctx>>
  /\ UNCHANGED flags

----------------------------------------------------------------------------
(* mtfs_sd_initialize.                                                     *)

\* A call that finds no card, of any task and whatever the holder does.
NoMedia ==
  /\ ctx.registered /\ ~card.pin
  /\ ctx' = InvalidateMedia(ctx)
  /\ UNCHANGED <<card, bus, flags, task>>

InitializeBegin ==
  /\ At("idle") /\ ctx.registered /\ card.pin
  /\ ctx' = InvalidateMedia(ctx)
  /\ task' = [NoTask EXCEPT !.pc = "init_forget", !.op = "init"]
  /\ UNCHANGED <<card, bus, flags>>

InitializeForget ==
  /\ At("init_forget") /\ Goto("init_clear")
  /\ ctx' = [ctx EXCEPT !.media_removal_pending = FALSE]
  /\ UNCHANGED <<card, bus, flags>>

InitializeClear ==
  /\ At("init_clear") /\ Goto("init_open")
  /\ flags' = {}
  /\ UNCHANGED <<card, bus, ctx>>

\* The channel is opened, and closed and opened again by set_bitrate, which
\* may fail before the last open or after it.
Reopened == bus' = "none" /\ ctx' = [ctx EXCEPT !.fsp_open = TRUE]
ReopenFails ==
  /\ bus' = "none" /\ Return("error")
  /\ \E open \in BOOLEAN : ctx' = [Noted(ctx) EXCEPT !.fsp_open = open]

InitializeOpen ==
  /\ At("init_open")
  /\ \/ ~card.pin /\ Return("error") /\ ctx' = InvalidateMedia(ctx) /\ bus' = bus
     \/ card.pin /\ Reopened /\ Goto("check")
     \/ card.pin /\ ReopenFails
  /\ UNCHANGED <<card, flags>>

\* Mutant: the removal is forgotten once the card is there, not before.
IdentifiedForgets ==
  [ctx EXCEPT !.fsp_open = TRUE, !.initialized = TRUE,
              !.media_removal_pending = FALSE]
Identified == [ctx EXCEPT !.fsp_open = TRUE, !.initialized = TRUE]

\* The capacity is read from the CSD, and the data rate set.
InitializeDone ==
  /\ At("init_done")
  /\ \/ Return("ok") /\ bus' = "none" /\ ctx' = Identified
     \/ ReopenFails
     \/ Return("error") /\ UNCHANGED <<bus, ctx>>
  /\ UNCHANGED <<card, flags>>

----------------------------------------------------------------------------
(* read and write, and the life of the context.  sync, status and geometry *)
(* change nothing but what NoMedia does.                                   *)

Begin(op, sectors) ==
  /\ At("idle") /\ ctx.registered /\ card.pin
  /\ ctx.initialized /\ ~ctx.media_removal_pending
  /\ task' = [NoTask EXCEPT !.pc = "check", !.op = op, !.step = "command",
                            !.left = sectors]
  /\ UNCHANGED <<card, bus, ctx, flags>>

ContextInit ==
  /\ At("idle") /\ ~ctx.registered
  /\ ctx' = [NoContext EXCEPT !.registered = TRUE]
  /\ flags' = {} /\ task' = NoTask
  /\ UNCHANGED <<card, bus>>

ContextDeinit ==
  /\ At("idle") /\ ctx.registered
  /\ ctx' = [NoContext EXCEPT !.media_removal_pending = TRUE]
  /\ bus' = "none" /\ flags' = {} /\ task' = NoTask
  /\ UNCHANGED card

Interrupt ==
  \/ PinOpens \/ PinCloses \/ CardLost \/ MediaChangedIsr
  \/ \E result \in {"E_OK", "E_IO"} : Callback(result)

Transfer ==
  \/ TransferCheck \/ TransferClear \/ TransferMark \/ TransferStart
  \/ TransferWait \/ TransferTimesOut \/ TransferWoken

Next ==
  \/ Interrupt \/ Transfer \/ NoMedia
  \/ InitializeBegin \/ InitializeForget \/ InitializeClear
  \/ InitializeOpen \/ InitializeDone
  \/ \E op \in {"read", "write"}, n \in 1..MaxSectors : Begin(op, n)
  \/ ContextInit \/ ContextDeinit

Spec == Init /\ [][Next]_vars

----------------------------------------------------------------------------
(* Properties.                                                             *)

\* The card of a driver that reports it is initialized is the one it has
\* brought up, wherever in initialize another one was put in: a removal is
\* forgotten before the first look at the new card, and never after.
ReadyCardWasBroughtUp ==
  ctx.initialized /\ ~ctx.media_removal_pending /\ card.pin
    => card.state = "ready"

\* A read or write that returns OK had its card until the last of its data:
\* a removal whose event is cleared by the transfer it falls into is found
\* by the end of the transaction.
WholeOrError ==
  At("idle") /\ task.op \in {"read", "write"} /\ task.result = "ok"
    => ~task.lost

\* No wait is left to its timeout: the transfer is running or its event, or
\* that of a removal, is there.
TransferNeverLost == At("wait") => bus = "own" \/ flags # {}

\* The completion a wait takes is that of its own transfer.
CompletionIsOwn ==
  At("woken") /\ "TRANSFER" \in task.events => bus = "none"
=============================================================================
