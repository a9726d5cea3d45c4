---------------------------- MODULE MediaService ----------------------------
(***************************************************************************)
(* The microT-Kernel worker of src/os/microtkernel/mtfs_media_service.c    *)
(* around the state machine of Media, and the board code that starts and   *)
(* stops both (mtfs_stm32n6570_dk_platform.c; the RA8P1 board takes the    *)
(* same steps).  Three parties interleave: the worker task, the            *)
(* coordinator task that starts and stops it, and the Card Detect          *)
(* interrupt, which preempts either.                                       *)
(*                                                                         *)
(* The kernel is modelled by what the service uses of it: an event flag, a *)
(* task that is deleted only when dormant, and a wait with a timeout.      *)
(***************************************************************************)
EXTENDS Integers, FiniteSets

CONSTANTS
  HalfTick, SeqMod, GenMod, Debounce, ActiveHigh, MaxReadFailures,
  MaxEdges,         \* how often the pin changes (a bound of the model)
  MaxLatency,       \* ticks the worker may need from its wakeup to its next wait
  MaxStopTimeouts   \* how often the wait for STOPPED times out (a bound)

VARIABLES
  pin, irq_latched, clock, read_failures, media, call, next_wait_ms,
  age, owed, unseen,
  worker,         \* the worker task: control point, timeout, lateness
  coordinator,    \* control point of the board's start and stop
  flag,           \* bits of the event flag
  flag_exists,    \* context->event_flag_id names a flag
  accepting,      \* context->accepting_notifications
  irq_enabled,    \* the handler is defined and enabled
  edges,          \* changes of the pin so far
  timeouts        \* expired waits for STOPPED so far

mediaVars == <<pin, irq_latched, clock, read_failures, media, call,
               next_wait_ms, age, owed, unseen>>
serviceVars == <<flag, flag_exists, accepting, irq_enabled>>
boundVars == <<edges, timeouts>>
vars == <<mediaVars, worker, coordinator, serviceVars, boundVars>>

M == INSTANCE Media

ASSUME ServiceAssumption ==
  /\ M!MediaAssumption
  /\ HalfTick > 1                        \* a delay is never Forever
  /\ MaxEdges \in Nat /\ MaxLatency \in Nat /\ MaxStopTimeouts \in Nat
  /\ Debounce + MaxLatency < HalfTick

Forever == M!WaitForever

\* MTFS_MEDIA_SERVICE_EVENT_CHANGE, _STOP, _STOPPED
Events == {"CHANGE", "STOP", "STOPPED"}

WorkerPoints ==
  {"none", "wait", "waiting", "process", "stop", "exit", "dormant"}

CoordinatorPoints ==
  {"off", "init", "init_failed", "create", "undo", "register", "on", "halt",
   "disable", "set_stop", "await", "delete", "terminate", "delete_dormant",
   "delete_flag", "retained"}

\* The kernel can run the worker.
Runnable ==
  \/ worker.pc \in {"wait", "process", "stop", "exit"}
  \/ worker.pc = "waiting" /\ (flag \cap {"CHANGE", "STOP"} # {}
                               \/ worker.timer = 0)

At(point) == coordinator = point
Coordinate(from, to) == coordinator = from /\ coordinator' = to

----------------------------------------------------------------------------
(* The environment.                                                        *)

PinChange ==
  /\ edges < MaxEdges
  /\ edges' = edges + 1
  /\ M!PinChange
  /\ UNCHANGED <<worker, coordinator, serviceVars, timeouts>>

\* The kernel's timer counts the timeout down; the worker, once runnable, is
\* back in its wait within MaxLatency ticks.
Tick ==
  /\ Runnable => worker.late < MaxLatency
  /\ M!Tick
  /\ worker' = [worker EXCEPT
                  !.late = IF Runnable THEN @ + 1 ELSE @,
                  !.timer = IF worker.pc = "waiting" /\ @ \notin {0, Forever}
                            THEN @ - 1 ELSE @]
  /\ UNCHANGED <<coordinator, serviceVars, boundVars>>

\* Mutant: the worker is not woken.
NotifyIsrSilent ==
  /\ irq_enabled /\ accepting
  /\ M!NotifyIsr
  /\ UNCHANGED <<worker, coordinator, flag, flag_exists, accepting,
                 irq_enabled, boundVars>>

\* The handler, mtfs_media_service_notify_isr accepted: the notification is
\* recorded before the worker is woken.
NotifyIsr ==
  /\ irq_enabled /\ accepting
  /\ M!NotifyIsr
  /\ flag' = flag \cup {"CHANGE"}
  /\ UNCHANGED <<worker, coordinator, flag_exists, accepting, irq_enabled,
                 boundVars>>

\* The handler runs after the notifications were stopped: nothing happens.
NotifyIsrRejected ==
  /\ irq_enabled /\ ~accepting
  /\ M!NotifyIsrRejected
  /\ UNCHANGED <<worker, coordinator, serviceVars, boundVars>>

----------------------------------------------------------------------------
(* The worker.                                                             *)

WorkerTo(point) ==
  worker' = [worker EXCEPT !.pc = point, !.timer = Forever]

KeepCoordinator == UNCHANGED <<coordinator, boundVars>>

\* Mutant: the deadline instead of the delay is given to the kernel.
WorkerBlocksUntil ==
  /\ worker.pc = "wait"
  /\ flag \cap {"CHANGE", "STOP"} = {}
  /\ worker' = [pc |-> "waiting", late |-> 0,
                timer |-> IF next_wait_ms = Forever THEN Forever
                          ELSE media.debounce_deadline_ms]
  /\ KeepCoordinator
  /\ UNCHANGED <<mediaVars, serviceVars>>

\* tk_wai_flg finds neither CHANGE nor STOP and blocks.
WorkerBlocks ==
  /\ worker.pc = "wait"
  /\ flag \cap {"CHANGE", "STOP"} = {}
  /\ worker' = [pc |-> "waiting", timer |-> next_wait_ms, late |-> 0]
  /\ KeepCoordinator
  /\ UNCHANGED <<mediaVars, serviceVars>>

\* Mutant: CHANGE goes before STOP, and STOP is cleared with it.
WorkerWakesChangeFirst ==
  /\ worker.pc \in {"wait", "waiting"}
  /\ flag \cap {"CHANGE", "STOP"} # {}
  /\ flag' = flag \ {"CHANGE", "STOP"}
  /\ IF "CHANGE" \in flag
     THEN WorkerTo("process") /\ M!ProcessCall
     ELSE WorkerTo("stop") /\ UNCHANGED mediaVars
  /\ KeepCoordinator
  /\ UNCHANGED <<flag_exists, accepting, irq_enabled>>

\* tk_wai_flg returns with events and clears the bits it waited for; STOP
\* goes before CHANGE.
WorkerWakes ==
  /\ worker.pc \in {"wait", "waiting"}
  /\ flag \cap {"CHANGE", "STOP"} # {}
  /\ flag' = flag \ {"CHANGE", "STOP"}
  /\ IF "STOP" \in flag
     THEN WorkerTo("stop") /\ UNCHANGED mediaVars
     ELSE WorkerTo("process") /\ M!ProcessCall
  /\ KeepCoordinator
  /\ UNCHANGED <<flag_exists, accepting, irq_enabled>>

\* Mutant: E_TMOUT is taken for a kernel error.
WorkerTimesOutAsError ==
  /\ worker.pc = "waiting"
  /\ worker.timer = 0
  /\ flag \cap {"CHANGE", "STOP"} = {}
  /\ WorkerTo("wait")
  /\ next_wait_ms' = Forever
  /\ KeepCoordinator
  /\ UNCHANGED <<pin, irq_latched, clock, read_failures, media, call, age,
                 owed, unseen, serviceVars>>

\* tk_wai_flg returns E_TMOUT.
WorkerTimesOut ==
  /\ worker.pc = "waiting"
  /\ worker.timer = 0
  /\ flag \cap {"CHANGE", "STOP"} = {}
  /\ WorkerTo("process")
  /\ M!ProcessCall
  /\ KeepCoordinator
  /\ UNCHANGED serviceVars

\* A step of mtfs_media_process; when the call returns, with whatever
\* result, the worker goes back to waiting.
WorkerProcess ==
  /\ worker.pc = "process"
  /\ M!Process
  /\ IF call'.pc = "idle" THEN WorkerTo("wait") ELSE UNCHANGED worker
  /\ KeepCoordinator
  /\ UNCHANGED serviceVars

\* The last use of the context and of the flag.
WorkerSetsStopped ==
  /\ worker.pc = "stop"
  /\ flag' = flag \cup {"STOPPED"}
  /\ WorkerTo("exit")
  /\ KeepCoordinator
  /\ UNCHANGED <<mediaVars, flag_exists, accepting, irq_enabled>>

\* tk_ext_tsk
WorkerExits ==
  /\ worker.pc = "exit"
  /\ WorkerTo("dormant")
  /\ KeepCoordinator
  /\ UNCHANGED <<mediaVars, serviceVars>>

----------------------------------------------------------------------------
(* The coordinator: card_detect_start.                                     *)

KeepRest == UNCHANGED <<worker, serviceVars, boundVars>>

\* cd_service is NULL: nothing of an earlier service is left.
StartRead == Coordinate("off", "init") /\ M!InitRead /\ KeepRest

\* Mutant: a failed start leaves the media context initialized.
StartReadFailsKeeps ==
  Coordinate("off", "off") /\ M!InitReadFails /\ KeepRest

StartReadFails ==
  Coordinate("off", "init_failed") /\ M!InitReadFails /\ KeepRest

StartSettled == Coordinate("init", "create") /\ M!InitSettled /\ KeepRest

\* mtfs_media_service_init up to tk_sta_tsk: the worker may run before init
\* returns.
ServiceCreate ==
  /\ Coordinate("create", "register")
  /\ flag' = {} /\ flag_exists' = TRUE
  /\ worker' = [pc |-> "wait", timer |-> Forever, late |-> 0]
  /\ UNCHANGED <<mediaVars, accepting, irq_enabled, boundVars>>

\* tk_cre_flg, tk_cre_tsk or tk_sta_tsk fails; init deletes what it created.
ServiceCreateFails ==
  /\ Coordinate("create", "undo")
  /\ KeepRest
  /\ UNCHANGED mediaVars

\* The media context is given up after a failed start.
UndoStart ==
  /\ coordinator \in {"init_failed", "undo"}
  /\ coordinator' = "off"
  /\ M!Deinit
  /\ KeepRest

\* accepting_notifications, cd_service, the pending edge cleared.
ClearEdge ==
  /\ irq_latched' = FALSE
  /\ unseen' = (unseen \/ irq_latched)
  /\ UNCHANGED <<pin, clock, read_failures, media, call, next_wait_ms, age,
                 owed>>

Register ==
  /\ Coordinate("register", "on")
  /\ accepting' = TRUE /\ irq_enabled' = TRUE
  /\ ClearEdge
  /\ UNCHANGED <<worker, flag, flag_exists, boundVars>>

\* tk_def_int fails: the service is stopped again, without an interrupt.
RegisterFails ==
  /\ Coordinate("register", "halt")
  /\ accepting' = TRUE
  /\ ClearEdge
  /\ UNCHANGED <<worker, flag, flag_exists, irq_enabled, boundVars>>

----------------------------------------------------------------------------
(* The coordinator: card_detect_stop and mtfs_media_service_deinit.        *)

\* Mutant: the media context is given up before the worker is stopped.
StopNotificationsDeinit ==
  /\ coordinator \in {"on", "retained", "halt"}
  /\ coordinator' = IF At("halt") THEN "set_stop" ELSE "disable"
  /\ accepting' = FALSE
  /\ M!Deinit
  /\ UNCHANGED <<worker, flag, flag_exists, irq_enabled, boundVars>>

\* card_detect_stop, again after one that failed, or the end of a failed
\* start: mtfs_media_service_stop_notifications comes first.
StopNotifications ==
  /\ coordinator \in {"on", "retained", "halt"}
  /\ coordinator' = IF At("halt") THEN "set_stop" ELSE "disable"
  /\ accepting' = FALSE
  /\ M!StopNotifications
  /\ UNCHANGED <<worker, flag, flag_exists, irq_enabled, boundVars>>

DisableIrq ==
  /\ Coordinate("disable", "set_stop")
  /\ irq_enabled' = FALSE
  /\ ClearEdge
  /\ UNCHANGED <<worker, flag, flag_exists, accepting, boundVars>>

SetStop ==
  /\ Coordinate("set_stop", "await")
  /\ flag' = flag \cup {"STOP"}
  /\ accepting' = FALSE
  /\ UNCHANGED <<mediaVars, worker, flag_exists, irq_enabled, boundVars>>

StoppedSeen ==
  /\ Coordinate("await", "delete")
  /\ "STOPPED" \in flag
  /\ flag' = flag \ {"STOPPED"}
  /\ UNCHANGED <<mediaVars, worker, flag_exists, accepting, irq_enabled,
                 boundVars>>

\* Mutant: the result of the wait for STOPPED is ignored.
StoppedTimesOutIgnored ==
  /\ Coordinate("await", "delete")
  /\ "STOPPED" \notin flag
  /\ timeouts < MaxStopTimeouts
  /\ timeouts' = timeouts + 1
  /\ UNCHANGED <<mediaVars, worker, serviceVars, edges>>

\* The worker took longer than MTFS_MEDIA_SERVICE_STOP_TIMEOUT_MS: cd_service
\* stays, as an ownership guard, and the stop may be tried again.
StoppedTimesOut ==
  /\ Coordinate("await", "retained")
  /\ "STOPPED" \notin flag
  /\ timeouts < MaxStopTimeouts
  /\ timeouts' = timeouts + 1
  /\ UNCHANGED <<mediaVars, worker, serviceVars, edges>>

\* tk_del_tsk deletes a dormant task and answers E_OBJ for any other.
DeleteTask ==
  /\ At("delete")
  /\ IF worker.pc = "dormant"
     THEN WorkerTo("none") /\ coordinator' = "delete_flag"
     ELSE UNCHANGED worker /\ coordinator' = "terminate"
  /\ UNCHANGED <<mediaVars, serviceVars, boundVars>>

\* tk_ter_tsk, and its E_OBJ for a worker that has become dormant meanwhile.
TerminateTask ==
  /\ Coordinate("terminate", "delete_dormant")
  /\ WorkerTo("dormant")
  /\ UNCHANGED <<mediaVars, serviceVars, boundVars>>

DeleteDormantTask ==
  /\ Coordinate("delete_dormant", "delete_flag")
  /\ worker.pc = "dormant"
  /\ WorkerTo("none")
  /\ UNCHANGED <<mediaVars, serviceVars, boundVars>>

\* tk_del_flg, then cd_service = NULL and mtfs_media_deinit.
DeleteFlag ==
  /\ Coordinate("delete_flag", "off")
  /\ flag' = {} /\ flag_exists' = FALSE
  /\ M!Deinit
  /\ UNCHANGED <<worker, accepting, irq_enabled, boundVars>>

----------------------------------------------------------------------------
(* The specification.                                                      *)

Init ==
  /\ M!Init
  /\ worker = [pc |-> "none", timer |-> Forever, late |-> 0]
  /\ coordinator = "off"
  /\ flag = {} /\ flag_exists = FALSE
  /\ accepting = FALSE /\ irq_enabled = FALSE
  /\ edges = 0 /\ timeouts = 0

Worker ==
  \/ WorkerBlocks \/ WorkerWakes \/ WorkerTimesOut \/ WorkerProcess
  \/ WorkerSetsStopped \/ WorkerExits

Start ==
  \/ StartRead \/ StartReadFails \/ StartSettled \/ ServiceCreate
  \/ ServiceCreateFails \/ UndoStart \/ Register \/ RegisterFails

\* What a stop does once it has been asked for.
Stop ==
  \/ DisableIrq \/ SetStop \/ StoppedSeen \/ StoppedTimesOut \/ DeleteTask
  \/ TerminateTask \/ DeleteDormantTask \/ DeleteFlag

Interrupt == NotifyIsr \/ NotifyIsrRejected

Next ==
  \/ PinChange \/ Tick \/ Interrupt
  \/ Worker \/ Start \/ StopNotifications \/ Stop

\* The kernel runs every runnable task and every enabled handler, time
\* passes, and an application whose stop has failed tries again.
Fairness ==
  /\ WF_vars(Tick) /\ WF_vars(Interrupt) /\ WF_vars(Worker)
  /\ WF_vars(Stop)
  /\ WF_vars(coordinator # "on" /\ StopNotifications)

Spec == Init /\ [][Next]_vars /\ Fairness

----------------------------------------------------------------------------
(* Properties.                                                             *)

TypeOK ==
  /\ M!TypeOK
  /\ worker \in [pc : WorkerPoints, timer : 0 .. Debounce \cup {Forever},
                 late : 0 .. MaxLatency]
  /\ coordinator \in CoordinatorPoints
  /\ flag \subseteq Events
  /\ {flag_exists, accepting, irq_enabled} \subseteq BOOLEAN
  /\ edges \in 0 .. MaxEdges
  /\ timeouts \in 0 .. MaxStopTimeouts

\* The worker may still use its context, the flag or the media context.
WorkerLives == worker.pc \in {"wait", "waiting", "process", "stop"}

\* "The STOPPED flag is a final-use boundary" (mtfs_media_service.c:46): the
\* coordinator deletes and reuses what the worker uses only when the worker
\* will not use it again, also after a stop that timed out and was retried.
FinalUse ==
  WorkerLives =>
    /\ flag_exists /\ media.initialized
    /\ coordinator \notin {"off", "init", "init_failed", "create", "undo",
                           "delete", "terminate", "delete_dormant",
                           "delete_flag"}

\* The ownership guard (mtfs_stm32n6570_dk_platform.c:342): the board starts
\* a new service only when nothing of the last one is left, whichever way the
\* last start or stop went.
OffIsClean ==
  coordinator = "off" =>
    /\ worker.pc = "none" /\ ~flag_exists
    /\ ~irq_enabled /\ ~accepting
    /\ ~media.initialized /\ call.pc = "idle"

\* No lost wakeup: a worker that waits without a timeout, unwoken, has
\* nothing pending, unless the pin could not be read.
NoLostWakeup ==
  worker.pc = "waiting" /\ worker.timer = Forever /\ flag = {}
  /\ media.state # "ERROR" =>
    /\ ~media.debouncing
    /\ media.notification_sequence = media.observed_sequence

\* The service uses the state machine as its header asks: every behaviour of
\* the composition is a behaviour of Media.
MediaSpec == M!Spec

Settled ==
  /\ media.stable_present = M!RawToPresent(pin)
  /\ media.state = IF M!RawToPresent(pin) THEN "PRESENT" ELSE "ABSENT"

\* When the pin rests, the state settles to its level: an edge that was
\* signalled is debounced to the end by the worker alone, unless the service
\* is stopped or a read fails.
EventuallySettled ==
  (edges = MaxEdges /\ coordinator = "on" /\ ~unseen) ~>
    (Settled \/ coordinator # "on" \/ media.state = "ERROR")

\* A stop that was asked for comes to its end, whatever the worker was doing.
StopCompletes == coordinator \in {"disable", "set_stop"} ~> coordinator = "off"
=============================================================================
