------------------------- MODULE MediaServiceProofs -------------------------
(***************************************************************************)
(* Proofs about MediaService for every value of its constants: the stop    *)
(* protocol deletes nothing that is in use, the composition uses the state *)
(* machine as its header asks, and no notification is left behind a worker *)
(* that waits forever.                                                     *)
(***************************************************************************)
EXTENDS MediaService, TLAPS

\* All that is asked of the data: the records have their fields.  MediaProofs
\* has the types.
MediaShaped(m) ==
  m = [initialized |-> m.initialized,
       accepting_notifications |-> m.accepting_notifications,
       notification_sequence |-> m.notification_sequence,
       observed_sequence |-> m.observed_sequence,
       debounce_deadline_ms |-> m.debounce_deadline_ms,
       state |-> m.state,
       media_generation |-> m.media_generation,
       stable_present |-> m.stable_present,
       candidate_present |-> m.candidate_present,
       last_polled_raw_level |-> m.last_polled_raw_level,
       debouncing |-> m.debouncing]

CallShaped(c) ==
  c = [pc |-> c.pc, now_ms |-> c.now_ms, sequence |-> c.sequence,
       raw_level |-> c.raw_level, age |-> c.age]

Shaped ==
  /\ MediaShaped(media)
  /\ CallShaped(call)
  /\ worker = [pc |-> worker.pc, timer |-> worker.timer, late |-> worker.late]
  /\ irq_latched \in BOOLEAN /\ unseen \in BOOLEAN

Deleting == {"delete", "terminate", "delete_dormant", "delete_flag"}
Stopping == {"set_stop", "await", "retained"} \cup Deleting
Serving == {"register", "on", "halt", "disable"} \cup Stopping
Starting == {"init_failed", "create", "undo"}

\* Who is in a call of the state machine: the worker, or the start.
CallOwned ==
  worker.pc # "process" /\ coordinator # "init" => call.pc = "idle"

\* Where the coordinator is tells how much of the service exists.
ServiceExists ==
  /\ coordinator \in Serving => flag_exists /\ media.initialized
  /\ coordinator \notin Serving =>
       ~flag_exists /\ ~irq_enabled /\ ~accepting
  /\ coordinator \notin Serving \cup Starting => ~media.initialized
  /\ coordinator \in Starting => media.initialized
  /\ coordinator \in Stopping \cup {"register", "halt"} => ~irq_enabled
  /\ coordinator \in Stopping \cup {"disable"} => ~accepting

\* The coordinator deletes only after STOPPED, the worker's last use.
WorkerGone ==
  /\ "STOPPED" \in flag => worker.pc \in {"exit", "dormant"}
  /\ coordinator \in Deleting => "STOPPED" \notin flag
  /\ coordinator \in {"delete", "terminate"} =>
       worker.pc \in {"exit", "dormant"}
  /\ coordinator = "delete_dormant" => worker.pc = "dormant"
  /\ coordinator \notin Serving \/ coordinator = "delete_flag" =>
       worker.pc = "none"

ServiceInv == Shaped /\ CallOwned /\ ServiceExists /\ WorkerGone

----------------------------------------------------------------------------
(* What the operations do to the records.                                  *)

\* The worker moves to a control point.
LEMMA WorkerMoves ==
  ASSUME Shaped, NEW point, WorkerTo(point)
  PROVE  /\ worker'.pc = point
         /\ worker' = [pc |-> worker'.pc, timer |-> worker'.timer,
                       late |-> worker'.late]
BY DEF Shaped, WorkerTo


\* A step of mtfs_media_process keeps the context initialized.
LEMMA ProcessShapes ==
  ASSUME Shaped, M!Process
  PROVE  /\ MediaShaped(media') /\ CallShaped(call')
         /\ media'.initialized = media.initialized
         /\ irq_latched' \in BOOLEAN /\ unseen' \in BOOLEAN
<1> USE DEF Shaped, MediaShaped, CallShaped, M!boardVars, M!NoCall
<1>1. CASE M!ProcessEnter BY <1>1 DEF M!ProcessEnter
<1>2. CASE M!ProcessRead
  <2> USE <1>2 DEF M!ProcessRead
  <2>1. MediaShaped(media') /\ media'.initialized = media.initialized
    BY DEF M!StartDebounce
  <2>2. CallShaped(call') OBVIOUS
  <2> QED BY <2>1, <2>2
<1>3. CASE M!ProcessSnapshot BY <1>3 DEF M!ProcessSnapshot
<1>4. CASE M!ProcessRecheck BY <1>4 DEF M!ProcessRecheck
<1>5. CASE M!ProcessRestart BY <1>5 DEF M!ProcessRestart, M!StartDebounce
<1>6. CASE M!ProcessSettle BY <1>6 DEF M!ProcessSettle, M!Settle
<1>7. CASE M!ReadFails BY <1>7 DEF M!ReadFails, M!EnterError
<1> QED BY <1>1, <1>2, <1>3, <1>4, <1>5, <1>6, <1>7 DEF M!Process

----------------------------------------------------------------------------
(* The invariant holds initially and every step preserves it; every step   *)
(* of the composition is a step of the state machine or leaves it alone.   *)

Steps == ServiceInv' /\ [M!Next]_(M!vars)

LEMMA ServiceInit == Init => ServiceInv
<1> SUFFICES ASSUME Init PROVE ServiceInv
  OBVIOUS
<1> USE DEF Init, M!Init
<1>1. MediaShaped(media) BY DEF M!ZeroContext, MediaShaped
<1>2. CallShaped(call) BY DEF M!NoCall, CallShaped
<1>3. /\ media.initialized = FALSE /\ call.pc = "idle" /\ worker.pc = "none"
      /\ worker = [pc |-> worker.pc, timer |-> worker.timer,
                   late |-> worker.late]
  BY DEF M!ZeroContext, M!NoCall
<1>4. /\ coordinator \notin Serving \cup Starting \cup Stopping \cup Deleting
      /\ coordinator \notin {"disable", "register", "halt"}
  BY DEF Serving, Starting, Stopping, Deleting
<1>5. Shaped BY <1>1, <1>2, <1>3 DEF Shaped
<1>6. CallOwned BY <1>3 DEF CallOwned
<1>7. ServiceExists
  BY <1>3, <1>4 DEF ServiceExists
<1>8. WorkerGone BY <1>3, <1>4 DEF WorkerGone, Deleting
<1> QED BY <1>5, <1>6, <1>7, <1>8 DEF ServiceInv

LEMMA PinChangeStep ==
  ASSUME ServiceInv, PinChange PROVE Steps
<1> USE DEF ServiceInv, PinChange, serviceVars, M!boardVars
<1> USE DEF M!PinChange, M!Environment
<1>1. Shaped' BY DEF Shaped
<1>2. CallOwned' BY DEF CallOwned
<1>3. ServiceExists' BY DEF ServiceExists
<1>4. WorkerGone' BY DEF WorkerGone
<1>5. [M!Next]_(M!vars) BY DEF M!Next
<1> QED BY <1>1, <1>2, <1>3, <1>4, <1>5 DEF Steps

LEMMA TickStep ==
  ASSUME ServiceInv, Tick PROVE Steps
<1> USE DEF ServiceInv, Tick, serviceVars, boundVars, M!boardVars
<1> USE DEF M!Tick, M!Environment
<1>1. Shaped' BY DEF Shaped, CallShaped
<1>2. CallOwned' BY DEF CallOwned
<1>3. ServiceExists' BY DEF ServiceExists
<1>4. WorkerGone' BY DEF WorkerGone
<1>5. [M!Next]_(M!vars) BY DEF M!Next
<1> QED BY <1>1, <1>2, <1>3, <1>4, <1>5 DEF Steps

LEMMA NotifyIsrStep ==
  ASSUME ServiceInv, NotifyIsr PROVE Steps
<1> USE DEF ServiceInv, NotifyIsr, boundVars, M!boardVars
<1> USE DEF M!NotifyIsr, M!Environment
<1>1. Shaped' BY DEF Shaped, MediaShaped
<1>2. CallOwned' BY DEF CallOwned
<1>3. ServiceExists' BY DEF ServiceExists
<1>4. WorkerGone' BY DEF WorkerGone
<1>5. [M!Next]_(M!vars) BY DEF M!Next
<1> QED BY <1>1, <1>2, <1>3, <1>4, <1>5 DEF Steps

LEMMA NotifyIsrRejectedStep ==
  ASSUME ServiceInv, NotifyIsrRejected PROVE Steps
<1> USE DEF ServiceInv, NotifyIsrRejected, serviceVars, boundVars, M!boardVars
<1> USE DEF M!NotifyIsrRejected, M!Environment
<1>1. Shaped' BY DEF Shaped
<1>2. CallOwned' BY DEF CallOwned
<1>3. ServiceExists' BY DEF ServiceExists
<1>4. WorkerGone' BY DEF WorkerGone
<1>5. [M!Next]_(M!vars) BY DEF M!Next
<1> QED BY <1>1, <1>2, <1>3, <1>4, <1>5 DEF Steps

LEMMA WorkerBlocksStep ==
  ASSUME ServiceInv, WorkerBlocks PROVE Steps
<1> USE DEF ServiceInv, WorkerBlocks, KeepCoordinator, serviceVars, boundVars,
            mediaVars, M!boardVars
<1>1. Shaped' BY DEF Shaped
<1>2. CallOwned' BY DEF CallOwned
<1>3. ServiceExists' BY DEF ServiceExists
<1>4. WorkerGone' BY DEF WorkerGone
<1>5. [M!Next]_(M!vars) BY DEF M!vars
<1> QED BY <1>1, <1>2, <1>3, <1>4, <1>5 DEF Steps

LEMMA WorkerWakesStep ==
  ASSUME ServiceInv, WorkerWakes PROVE Steps
<1> USE DEF ServiceInv, WorkerWakes, KeepCoordinator, boundVars, mediaVars,
            M!boardVars, M!NoCall
<1> USE DEF M!ProcessCall, M!Call
<1>1. Shaped' BY WorkerMoves DEF Shaped, CallShaped
<1>2. CallOwned' BY WorkerMoves DEF CallOwned
<1>3. ServiceExists' BY WorkerMoves DEF ServiceExists
<1>4. WorkerGone' BY WorkerMoves DEF WorkerGone
<1>5. [M!Next]_(M!vars) BY DEF M!Next, M!vars
<1> QED BY <1>1, <1>2, <1>3, <1>4, <1>5 DEF Steps

LEMMA WorkerTimesOutStep ==
  ASSUME ServiceInv, WorkerTimesOut PROVE Steps
<1> USE DEF ServiceInv, WorkerTimesOut, KeepCoordinator, serviceVars,
            boundVars, M!boardVars, M!NoCall
<1> USE DEF M!ProcessCall, M!Call
<1>1. Shaped' BY WorkerMoves DEF Shaped, CallShaped
<1>2. CallOwned' BY WorkerMoves DEF CallOwned
<1>3. ServiceExists' BY WorkerMoves DEF ServiceExists
<1>4. WorkerGone' BY WorkerMoves DEF WorkerGone
<1>5. [M!Next]_(M!vars) BY DEF M!Next
<1> QED BY <1>1, <1>2, <1>3, <1>4, <1>5 DEF Steps

LEMMA WorkerProcessStep ==
  ASSUME ServiceInv, WorkerProcess PROVE Steps
<1> USE DEF ServiceInv, WorkerProcess, KeepCoordinator, serviceVars,
            boundVars, M!boardVars
<1>1. Shaped' BY WorkerMoves, ProcessShapes DEF Shaped
<1>2. CallOwned' BY WorkerMoves, ProcessShapes DEF CallOwned
<1>3. ServiceExists' BY WorkerMoves, ProcessShapes DEF ServiceExists
<1>4. WorkerGone' BY WorkerMoves, ProcessShapes DEF WorkerGone
<1>5. [M!Next]_(M!vars) BY DEF M!Next
<1> QED BY <1>1, <1>2, <1>3, <1>4, <1>5 DEF Steps

LEMMA WorkerSetsStoppedStep ==
  ASSUME ServiceInv, WorkerSetsStopped PROVE Steps
<1> USE DEF ServiceInv, WorkerSetsStopped, KeepCoordinator, boundVars,
            mediaVars, M!boardVars
<1>1. Shaped' BY WorkerMoves DEF Shaped
<1>2. CallOwned' BY WorkerMoves DEF CallOwned
<1>3. ServiceExists' BY WorkerMoves DEF ServiceExists
<1>4. WorkerGone' BY WorkerMoves DEF WorkerGone, Deleting
<1>5. [M!Next]_(M!vars) BY DEF M!vars
<1> QED BY <1>1, <1>2, <1>3, <1>4, <1>5 DEF Steps

LEMMA WorkerExitsStep ==
  ASSUME ServiceInv, WorkerExits PROVE Steps
<1> USE DEF ServiceInv, WorkerExits, KeepCoordinator, serviceVars, boundVars,
            mediaVars, M!boardVars
<1>1. Shaped' BY WorkerMoves DEF Shaped
<1>2. CallOwned' BY WorkerMoves DEF CallOwned
<1>3. ServiceExists' BY WorkerMoves DEF ServiceExists
<1>4. WorkerGone' BY WorkerMoves DEF WorkerGone
<1>5. [M!Next]_(M!vars) BY DEF M!vars
<1> QED BY <1>1, <1>2, <1>3, <1>4, <1>5 DEF Steps

LEMMA StartReadStep ==
  ASSUME ServiceInv, StartRead PROVE Steps
<1> USE DEF ServiceInv, StartRead, Coordinate, KeepRest, serviceVars,
            boundVars, M!boardVars
<1> USE DEF M!InitRead, M!Lifecycle, M!ZeroContext
<1>1. Shaped' BY DEF Shaped, MediaShaped, CallShaped
<1>2. CallOwned' BY DEF CallOwned
<1>3. ServiceExists'
  BY DEF ServiceExists, Serving, Starting, Stopping, Deleting
<1>4. WorkerGone' BY DEF WorkerGone, Serving, Stopping, Deleting
<1>5. [M!Next]_(M!vars)
  BY DEF M!Next, ServiceExists, Serving, Starting, Stopping, Deleting
<1> QED BY <1>1, <1>2, <1>3, <1>4, <1>5 DEF Steps

LEMMA StartReadFailsStep ==
  ASSUME ServiceInv, StartReadFails PROVE Steps
<1> USE DEF ServiceInv, StartReadFails, Coordinate, KeepRest, serviceVars,
            boundVars, M!boardVars
<1> USE DEF M!InitReadFails, M!SignalFails, M!Lifecycle, M!ZeroContext
<1>1. Shaped' BY DEF Shaped, MediaShaped
<1>2. CallOwned' BY DEF CallOwned
<1>3. ServiceExists'
  BY DEF ServiceExists, Serving, Starting, Stopping, Deleting
<1>4. WorkerGone' BY DEF WorkerGone, Serving, Stopping, Deleting
<1>5. [M!Next]_(M!vars)
  BY DEF M!Next, ServiceExists, Serving, Starting, Stopping, Deleting
<1> QED BY <1>1, <1>2, <1>3, <1>4, <1>5 DEF Steps

LEMMA StartSettledStep ==
  ASSUME ServiceInv, StartSettled PROVE Steps
<1> USE DEF ServiceInv, StartSettled, Coordinate, KeepRest, serviceVars,
            boundVars, M!boardVars, M!NoCall
<1> USE DEF M!InitSettled, M!Lifecycle
<1>1. Shaped' BY DEF Shaped, MediaShaped, CallShaped
<1>2. CallOwned' BY DEF CallOwned
<1>3. ServiceExists'
  BY DEF ServiceExists, Serving, Starting, Stopping, Deleting
<1>4. WorkerGone' BY DEF WorkerGone, Serving, Stopping, Deleting
<1>5. [M!Next]_(M!vars) BY DEF M!Next
<1> QED BY <1>1, <1>2, <1>3, <1>4, <1>5 DEF Steps

LEMMA ServiceCreateStep ==
  ASSUME ServiceInv, ServiceCreate PROVE Steps
<1> USE DEF ServiceInv, ServiceCreate, Coordinate, boundVars, mediaVars,
            M!boardVars
<1>1. Shaped' BY DEF Shaped
<1>2. CallOwned' BY DEF CallOwned, WorkerGone, Serving, Stopping, Deleting
<1>3. ServiceExists' BY DEF ServiceExists, Serving, Starting
<1>4. WorkerGone' BY DEF WorkerGone, Serving
<1>5. [M!Next]_(M!vars) BY DEF M!vars
<1> QED BY <1>1, <1>2, <1>3, <1>4, <1>5 DEF Steps

LEMMA ServiceCreateFailsStep ==
  ASSUME ServiceInv, ServiceCreateFails PROVE Steps
<1> USE DEF ServiceInv, ServiceCreateFails, Coordinate, KeepRest, serviceVars,
            boundVars, mediaVars, M!boardVars
<1>1. Shaped' BY DEF Shaped
<1>2. CallOwned' BY DEF CallOwned
<1>3. ServiceExists'
  BY DEF ServiceExists, Serving, Starting, Stopping, Deleting
<1>4. WorkerGone' BY DEF WorkerGone, Serving, Stopping, Deleting
<1>5. [M!Next]_(M!vars) BY DEF M!vars
<1> QED BY <1>1, <1>2, <1>3, <1>4, <1>5 DEF Steps

LEMMA UndoStartStep ==
  ASSUME ServiceInv, UndoStart PROVE Steps
<1> USE DEF ServiceInv, UndoStart, KeepRest, serviceVars, boundVars,
            M!boardVars
<1> USE DEF M!Deinit, M!Lifecycle
<1>1. Shaped' BY DEF Shaped, MediaShaped
<1>2. CallOwned' BY DEF CallOwned
<1>3. ServiceExists'
  BY DEF ServiceExists, Serving, Starting, Stopping, Deleting
<1>4. WorkerGone' BY DEF WorkerGone, Serving, Stopping, Deleting
<1>5. [M!Next]_(M!vars)
  BY DEF M!Next, CallOwned, WorkerGone, Serving, Stopping, Deleting
<1> QED BY <1>1, <1>2, <1>3, <1>4, <1>5 DEF Steps

LEMMA RegisterStep ==
  ASSUME ServiceInv, Register PROVE Steps
<1> USE DEF ServiceInv, Register, Coordinate, boundVars, M!boardVars
<1> USE DEF ClearEdge, M!EdgeLost, M!NotifyIsrRejected, M!Environment
<1>1. Shaped' BY DEF Shaped
<1>2. CallOwned' BY DEF CallOwned
<1>3. ServiceExists' BY DEF ServiceExists, Serving, Stopping, Deleting
<1>4. WorkerGone' BY DEF WorkerGone, Serving, Deleting
<1>5. [M!Next]_(M!vars) BY DEF M!Next, M!vars, Shaped
<1> QED BY <1>1, <1>2, <1>3, <1>4, <1>5 DEF Steps

LEMMA RegisterFailsStep ==
  ASSUME ServiceInv, RegisterFails PROVE Steps
<1> USE DEF ServiceInv, RegisterFails, Coordinate, boundVars, M!boardVars
<1> USE DEF ClearEdge, M!EdgeLost, M!NotifyIsrRejected, M!Environment
<1>1. Shaped' BY DEF Shaped
<1>2. CallOwned' BY DEF CallOwned
<1>3. ServiceExists' BY DEF ServiceExists, Serving, Stopping, Deleting
<1>4. WorkerGone' BY DEF WorkerGone, Serving, Deleting
<1>5. [M!Next]_(M!vars) BY DEF M!Next, M!vars, Shaped
<1> QED BY <1>1, <1>2, <1>3, <1>4, <1>5 DEF Steps

LEMMA StopNotificationsStep ==
  ASSUME ServiceInv, StopNotifications PROVE Steps
<1> USE DEF ServiceInv, StopNotifications, At, boundVars, M!boardVars
<1> USE DEF M!StopNotifications, M!Lifecycle
<1>1. Shaped' BY DEF Shaped, MediaShaped
<1>2. CallOwned' BY DEF CallOwned
<1>3. ServiceExists' BY DEF ServiceExists, Serving, Stopping, Deleting
<1>4. WorkerGone' BY DEF WorkerGone, Serving, Stopping, Deleting
<1>5. [M!Next]_(M!vars) BY DEF M!Next
<1> QED BY <1>1, <1>2, <1>3, <1>4, <1>5 DEF Steps

LEMMA DisableIrqStep ==
  ASSUME ServiceInv, DisableIrq PROVE Steps
<1> USE DEF ServiceInv, DisableIrq, Coordinate, boundVars, M!boardVars
<1> USE DEF ClearEdge, M!EdgeLost, M!NotifyIsrRejected, M!Environment
<1>1. Shaped' BY DEF Shaped
<1>2. CallOwned' BY DEF CallOwned
<1>3. ServiceExists' BY DEF ServiceExists, Serving, Stopping
<1>4. WorkerGone' BY DEF WorkerGone, Serving, Stopping, Deleting
<1>5. [M!Next]_(M!vars) BY DEF M!Next, M!vars, Shaped
<1> QED BY <1>1, <1>2, <1>3, <1>4, <1>5 DEF Steps

LEMMA SetStopStep ==
  ASSUME ServiceInv, SetStop PROVE Steps
<1> USE DEF ServiceInv, SetStop, Coordinate, boundVars, mediaVars, M!boardVars
<1>1. Shaped' BY DEF Shaped
<1>2. CallOwned' BY DEF CallOwned
<1>3. ServiceExists' BY DEF ServiceExists, Serving, Stopping
<1>4. WorkerGone' BY DEF WorkerGone, Serving, Stopping, Deleting
<1>5. [M!Next]_(M!vars) BY DEF M!vars
<1> QED BY <1>1, <1>2, <1>3, <1>4, <1>5 DEF Steps

LEMMA StoppedSeenStep ==
  ASSUME ServiceInv, StoppedSeen PROVE Steps
<1> USE DEF ServiceInv, StoppedSeen, Coordinate, boundVars, mediaVars,
            M!boardVars
<1>1. Shaped' BY DEF Shaped
<1>2. CallOwned' BY DEF CallOwned
<1>3. ServiceExists' BY DEF ServiceExists, Serving, Stopping, Deleting
<1>4. WorkerGone' BY DEF WorkerGone, Serving, Stopping, Deleting
<1>5. [M!Next]_(M!vars) BY DEF M!vars
<1> QED BY <1>1, <1>2, <1>3, <1>4, <1>5 DEF Steps

LEMMA StoppedTimesOutStep ==
  ASSUME ServiceInv, StoppedTimesOut PROVE Steps
<1> USE DEF ServiceInv, StoppedTimesOut, Coordinate, serviceVars, mediaVars,
            M!boardVars
<1>1. Shaped' BY DEF Shaped
<1>2. CallOwned' BY DEF CallOwned
<1>3. ServiceExists' BY DEF ServiceExists, Serving, Stopping
<1>4. WorkerGone' BY DEF WorkerGone, Serving, Stopping
<1>5. [M!Next]_(M!vars) BY DEF M!vars
<1> QED BY <1>1, <1>2, <1>3, <1>4, <1>5 DEF Steps

LEMMA DeleteTaskStep ==
  ASSUME ServiceInv, DeleteTask PROVE Steps
<1> USE DEF ServiceInv, DeleteTask, At, serviceVars, boundVars, mediaVars,
            M!boardVars
<1>1. Shaped' BY WorkerMoves DEF Shaped
<1>2. CallOwned' BY WorkerMoves DEF CallOwned
<1>3. ServiceExists'
  BY WorkerMoves DEF ServiceExists, Serving, Stopping, Deleting
<1>4. WorkerGone' BY WorkerMoves DEF WorkerGone, Serving, Stopping, Deleting
<1>5. [M!Next]_(M!vars) BY DEF M!vars
<1> QED BY <1>1, <1>2, <1>3, <1>4, <1>5 DEF Steps

LEMMA TerminateTaskStep ==
  ASSUME ServiceInv, TerminateTask PROVE Steps
<1> USE DEF ServiceInv, TerminateTask, Coordinate, serviceVars, boundVars,
            mediaVars, M!boardVars
<1>1. Shaped' BY WorkerMoves DEF Shaped
<1>2. CallOwned' BY WorkerMoves DEF CallOwned, WorkerGone
<1>3. ServiceExists'
  BY WorkerMoves DEF ServiceExists, Serving, Stopping, Deleting
<1>4. WorkerGone' BY WorkerMoves DEF WorkerGone, Serving, Stopping, Deleting
<1>5. [M!Next]_(M!vars) BY DEF M!vars
<1> QED BY <1>1, <1>2, <1>3, <1>4, <1>5 DEF Steps

LEMMA DeleteDormantTaskStep ==
  ASSUME ServiceInv, DeleteDormantTask PROVE Steps
<1> USE DEF ServiceInv, DeleteDormantTask, Coordinate, serviceVars, boundVars,
            mediaVars, M!boardVars
<1>1. Shaped' BY WorkerMoves DEF Shaped
<1>2. CallOwned' BY WorkerMoves DEF CallOwned
<1>3. ServiceExists'
  BY WorkerMoves DEF ServiceExists, Serving, Stopping, Deleting
<1>4. WorkerGone' BY WorkerMoves DEF WorkerGone, Serving, Stopping
<1>5. [M!Next]_(M!vars) BY DEF M!vars
<1> QED BY <1>1, <1>2, <1>3, <1>4, <1>5 DEF Steps

LEMMA DeleteFlagStep ==
  ASSUME ServiceInv, DeleteFlag PROVE Steps
<1> USE DEF ServiceInv, DeleteFlag, Coordinate, boundVars, M!boardVars
<1> USE DEF M!Deinit, M!Lifecycle
<1>1. Shaped' BY DEF Shaped, MediaShaped
<1>2. CallOwned' BY DEF CallOwned
<1>3. ServiceExists'
  BY DEF ServiceExists, Serving, Starting, Stopping, Deleting
<1>4. WorkerGone' BY DEF WorkerGone
<1>5. [M!Next]_(M!vars) BY DEF M!Next, CallOwned, WorkerGone
<1> QED BY <1>1, <1>2, <1>3, <1>4, <1>5 DEF Steps

LEMMA Stutter ==
  ASSUME ServiceInv, UNCHANGED vars PROVE Steps
BY DEF Steps, ServiceInv, Shaped, MediaShaped, CallShaped, CallOwned,
       ServiceExists, WorkerGone, vars, mediaVars, serviceVars, M!vars,
       M!boardVars

LEMMA AllSteps == ASSUME ServiceInv, [Next]_vars PROVE Steps
<1>1. CASE Worker
  BY <1>1, WorkerBlocksStep, WorkerWakesStep, WorkerTimesOutStep,
     WorkerProcessStep, WorkerSetsStoppedStep, WorkerExitsStep DEF Worker
<1>2. CASE Start
  BY <1>2, StartReadStep, StartReadFailsStep, StartSettledStep,
     ServiceCreateStep, ServiceCreateFailsStep, UndoStartStep, RegisterStep,
     RegisterFailsStep DEF Start
<1>3. CASE Stop
  BY <1>3, DisableIrqStep, SetStopStep, StoppedSeenStep, StoppedTimesOutStep,
     DeleteTaskStep, TerminateTaskStep, DeleteDormantTaskStep, DeleteFlagStep
     DEF Stop
<1>4. CASE PinChange \/ Tick \/ Interrupt \/ StopNotifications
  BY <1>4, PinChangeStep, TickStep, NotifyIsrStep, NotifyIsrRejectedStep,
     StopNotificationsStep DEF Interrupt
<1> QED BY <1>1, <1>2, <1>3, <1>4, Stutter DEF Next

----------------------------------------------------------------------------
(* The theorems.                                                           *)

THEOREM ServiceInvariant == Spec => []ServiceInv
<1>1. ServiceInv /\ [Next]_vars => ServiceInv'
  BY AllSteps DEF Steps
<1> QED BY ServiceInit, <1>1, PTL DEF Spec

\* The flag, the context and the task are deleted only behind the worker's
\* last use of them, also after stops that timed out.
THEOREM FinalUseCorrect == Spec => []FinalUse
<1>1. ServiceInv => FinalUse
  BY DEF ServiceInv, ServiceExists, WorkerGone, FinalUse, WorkerLives,
         Serving, Stopping, Deleting, Starting
<1> QED BY <1>1, ServiceInvariant, PTL

\* A start finds nothing of the last service, whichever way it ended.
THEOREM OffIsCleanCorrect == Spec => []OffIsClean
<1>1. ServiceInv => OffIsClean
  BY DEF ServiceInv, CallOwned, ServiceExists, WorkerGone, OffIsClean,
         Serving, Stopping, Deleting, Starting
<1> QED BY <1>1, ServiceInvariant, PTL

\* Worker, board and interrupt together use the state machine as its header
\* asks: whatever they do is a behaviour of Media.
THEOREM MediaSpecCorrect == Spec => MediaSpec
<1>1. Init => M!Init
  BY DEF Init
<1>2. ServiceInv /\ [Next]_vars => [M!Next]_(M!vars)
  BY AllSteps DEF Steps
<1> QED BY <1>1, <1>2, ServiceInvariant, PTL DEF Spec, MediaSpec, M!Spec
----------------------------------------------------------------------------
(* No lost wakeup.  What makes it inductive is what a call in progress     *)
(* still owes: a notification that came after its last look at the         *)
(* sequence has left CHANGE in the flag, and the worker looks there first. *)

Times == 0 .. Forever

TimesTyped ==
  /\ clock \in Times /\ next_wait_ms \in Times /\ worker.timer \in Times
  /\ call.now_ms \in Times /\ media.debounce_deadline_ms \in Times

\* A notification that process has not observed has woken the worker.
Announced ==
  media.notification_sequence # media.observed_sequence => "CHANGE" \in flag

\* A service starts with nothing left over from the start of the context.
StartIsQuiet ==
  coordinator \in {"init", "create"} =>
    ~media.debouncing /\ media.notification_sequence = media.observed_sequence

WaitIsSafe ==
  worker.pc \in {"wait", "waiting"} /\ media.state # "ERROR" =>
    /\ Announced
    /\ worker.pc = "wait" /\ next_wait_ms = Forever => ~media.debouncing
    /\ worker.pc = "waiting" /\ worker.timer = Forever => ~media.debouncing

\* What holds of a call at its control points: nothing yet at "enter", for
\* there the sequence is looked at.
ProcessIsSafe ==
  worker.pc = "process" =>
    /\ call.pc \in {"enter", "read", "snapshot", "recheck", "compare"}
    /\ call.pc \in {"snapshot", "recheck", "compare"} => Announced
    /\ call.pc \in {"read", "recheck", "compare"} =>
         (call.sequence # media.notification_sequence => "CHANGE" \in flag)

WakeInv == TimesTyped /\ StartIsQuiet /\ WaitIsSafe /\ ProcessIsSafe

\* A delay that process computes is never the value that means forever.
LEMMA DelaysAreFinite ==
  /\ Debounce \in Times /\ Debounce # Forever
  /\ Forever \in Times /\ 0 \in Times
  /\ \A now \in Times : M!TickAdd(now, 1) \in Times
                        /\ M!TickAdd(now, Debounce) \in Times
  /\ \A now, deadline \in Times :
       ~M!DeadlineReached(now, deadline) =>
         /\ M!TickSub(deadline, now) \in Times
         /\ M!TickSub(deadline, now) # Forever
BY ServiceAssumption
   DEF M!MediaAssumption, Times, Forever, M!WaitForever, M!TickMod,
       M!TickAdd, M!TickSub, M!DeadlineReached

LEMMA WakeInit == Init => WakeInv
<1> SUFFICES ASSUME Init PROVE WakeInv
  OBVIOUS
<1>1. clock \in Times
  BY ServiceAssumption
     DEF M!MediaAssumption, Init, M!Init, Times, Forever, M!WaitForever,
         M!TickMod
<1> QED
  BY <1>1, DelaysAreFinite
     DEF Init, M!Init, WakeInv, TimesTyped, StartIsQuiet, WaitIsSafe,
         ProcessIsSafe, M!ZeroContext, M!NoCall, Forever

\* The interrupt: the notification and CHANGE come together.
LEMMA NotifyKeepsWake ==
  ASSUME ServiceInv, WakeInv, NotifyIsr PROVE WakeInv'
<1> USE DEF NotifyIsr, M!NotifyIsr, boundVars
<1>1. TimesTyped'
  BY DEF WakeInv, TimesTyped, ServiceInv, Shaped, MediaShaped
<1>2. StartIsQuiet'
  BY DEF ServiceInv, ServiceExists, StartIsQuiet, Serving, Stopping, Deleting
<1>3. WaitIsSafe'
  BY DEF WakeInv, WaitIsSafe, Announced, ServiceInv, Shaped, MediaShaped
<1>4. ProcessIsSafe'
  BY DEF WakeInv, ProcessIsSafe, Announced
<1> QED BY <1>1, <1>2, <1>3, <1>4 DEF WakeInv

\* The clock and the kernel's timer.
LEMMA TickKeepsWake ==
  ASSUME ServiceInv, WakeInv, Tick PROVE WakeInv'
<1> USE DEF Tick, M!Tick, serviceVars, boundVars
<1>1. /\ call'.pc = call.pc /\ call'.now_ms = call.now_ms
      /\ call'.sequence = call.sequence
  BY DEF ServiceInv, Shaped, CallShaped
<1>2. worker'.pc = worker.pc
  BY DEF ServiceInv, Shaped
<1>3. /\ worker'.timer \in Times
      /\ worker'.timer = Forever => worker.timer = Forever
  <2>1. worker.timer \in Times /\ Forever \in Nat
    BY ServiceAssumption
       DEF M!MediaAssumption, WakeInv, TimesTyped, Forever, M!WaitForever,
           M!TickMod
  <2>2. \/ worker'.timer = worker.timer
        \/ worker.timer \notin {0, Forever} /\ worker'.timer = worker.timer - 1
    BY DEF ServiceInv, Shaped
  <2> QED BY <2>1, <2>2 DEF Times
<1>4. TimesTyped'
  BY <1>1, <1>3, DelaysAreFinite DEF WakeInv, TimesTyped
<1>5. StartIsQuiet' BY DEF WakeInv, StartIsQuiet
<1>6. WaitIsSafe'
  BY <1>2, <1>3 DEF WakeInv, WaitIsSafe, Announced
<1>7. ProcessIsSafe'
  BY <1>1, <1>2 DEF WakeInv, ProcessIsSafe, Announced
<1> QED BY <1>4, <1>5, <1>6, <1>7 DEF WakeInv

\* A step of mtfs_media_process.
LEMMA ProcessKeepsWake ==
  ASSUME ServiceInv, WakeInv, WorkerProcess PROVE WakeInv'
<1> USE DEF WorkerProcess, KeepCoordinator, serviceVars, boundVars
<1>1. /\ MediaShaped(media) /\ CallShaped(call)
      /\ worker.pc = "process" /\ coordinator \notin {"init", "create"}
      /\ TimesTyped /\ ProcessIsSafe
  BY DEF WakeInv, ServiceInv, Shaped, WorkerGone, Serving, Stopping, Deleting
<1>2. IF call'.pc = "idle" THEN worker'.pc = "wait" /\ worker'.timer = Forever
      ELSE worker'.pc = "process" /\ worker'.timer = worker.timer
  BY <1>1 DEF WorkerTo, ServiceInv, Shaped
<1>3. StartIsQuiet' BY <1>1 DEF StartIsQuiet
<1>4. ASSUME /\ next_wait_ms' \in Times
             /\ call'.now_ms \in Times /\ media'.debounce_deadline_ms \in Times
             /\ clock' = clock
      PROVE  TimesTyped'
  BY <1>1, <1>2, <1>4, DelaysAreFinite DEF TimesTyped
<1>5. ASSUME call'.pc = "idle",
             \/ media'.state = "ERROR"
             \/ Announced' /\ (next_wait_ms' = Forever => ~media'.debouncing)
      PROVE  WaitIsSafe' /\ ProcessIsSafe'
  BY <1>2, <1>5 DEF WaitIsSafe, ProcessIsSafe
<1>6. ASSUME call'.pc \in {"read", "snapshot", "recheck", "compare"},
             call'.pc # "read" => Announced',
             call'.pc # "snapshot" /\ call'.sequence # media'.notification_sequence
               => "CHANGE" \in flag'
      PROVE  WaitIsSafe' /\ ProcessIsSafe'
  BY <1>2, <1>6 DEF WaitIsSafe, ProcessIsSafe
<1> USE DEF M!boardVars, M!NoCall
<1>7. CASE M!ProcessEnter
  <2> DEFINE pending == media.notification_sequence # media.observed_sequence
             delay == M!TickSub(media.debounce_deadline_ms, call.now_ms)
  <2>1. /\ clock' = clock /\ media' = media
        /\ call'.now_ms \in {call.now_ms, 0}
        /\ \/ /\ pending /\ next_wait_ms' = Forever /\ call'.pc = "read"
              /\ call'.sequence = media.notification_sequence
           \/ ~pending /\ next_wait_ms' = Forever /\ call'.pc = "snapshot"
           \/ /\ ~pending /\ call'.pc = "idle"
              /\ ~media.debouncing /\ next_wait_ms' = Forever
           \/ /\ ~pending /\ call'.pc = "idle" /\ next_wait_ms' = delay
              /\ ~M!DeadlineReached(call.now_ms, media.debounce_deadline_ms)
    <3>1. clock' = clock /\ media' = media
      BY <1>7 DEF M!ProcessEnter
    <3>2. CASE M!NoCall = call'
      BY <1>7, <3>1, <3>2 DEF M!ProcessEnter, Forever
    <3>3. CASE pending /\ call' = [call EXCEPT !.pc = "read",
                                  !.sequence = media.notification_sequence]
               /\ next_wait_ms' = Forever
      BY <1>1, <3>1, <3>3 DEF CallShaped
    <3>4. CASE ~pending /\ call' = [call EXCEPT !.pc = "snapshot",
                                   !.sequence = media.notification_sequence]
               /\ next_wait_ms' = Forever
      BY <1>1, <3>1, <3>4 DEF CallShaped
    <3> QED BY <1>7, <3>2, <3>3, <3>4 DEF M!ProcessEnter, Forever
  <2>2. next_wait_ms' \in Times
    BY <1>1, <2>1, DelaysAreFinite DEF TimesTyped
  <2>3. call'.now_ms \in Times
    BY <1>1, <2>1, DelaysAreFinite DEF TimesTyped
  <2>4. TimesTyped' BY <1>1, <1>4, <2>1, <2>2, <2>3 DEF TimesTyped
  <2>5. call'.pc = "idle" =>
          ~pending /\ (next_wait_ms' = Forever => ~media.debouncing)
    BY <1>1, <2>1, DelaysAreFinite DEF TimesTyped
  <2>6. WaitIsSafe' /\ ProcessIsSafe'
    BY <1>5, <1>6, <2>1, <2>5 DEF Announced
  <2> QED BY <1>3, <2>4, <2>6 DEF WakeInv
<1>8. CASE M!ProcessRead
  <2> USE <1>8 DEF M!ProcessRead
  <2>1. /\ media'.debounce_deadline_ms = M!TickAdd(call.now_ms, Debounce)
        /\ media'.notification_sequence = media.notification_sequence
        /\ media'.observed_sequence = call.sequence
    BY <1>1 DEF M!StartDebounce, MediaShaped
  <2>2. TimesTyped'
    BY <1>1, <1>4, <2>1, DelaysAreFinite DEF TimesTyped, CallShaped
  <2>3. Announced'
    BY <1>1, <2>1 DEF ProcessIsSafe, Announced
  <2>4. WaitIsSafe' /\ ProcessIsSafe'
    BY <1>1, <1>5, <1>6, <2>3, DelaysAreFinite DEF CallShaped
  <2> QED BY <1>3, <2>2, <2>4 DEF WakeInv
<1>9. CASE M!ProcessSnapshot
  <2> USE <1>9 DEF M!ProcessSnapshot
  <2>1. TimesTyped' BY <1>1, <1>4 DEF TimesTyped, CallShaped
  <2>2. WaitIsSafe' /\ ProcessIsSafe'
    BY <1>1, <1>6 DEF ProcessIsSafe, Announced, CallShaped
  <2> QED BY <1>3, <2>1, <2>2 DEF WakeInv
<1>10. CASE M!ProcessRecheck
  <2> USE <1>10 DEF M!ProcessRecheck
  <2>1. TimesTyped' BY <1>1, <1>4 DEF TimesTyped, CallShaped, MediaShaped
  <2>2. WaitIsSafe' /\ ProcessIsSafe'
    BY <1>1, <1>6 DEF ProcessIsSafe, Announced, CallShaped, MediaShaped
  <2> QED BY <1>3, <2>1, <2>2 DEF WakeInv
<1>11. CASE M!ProcessRestart
  <2> USE <1>11 DEF M!ProcessRestart
  <2>1. /\ media'.debounce_deadline_ms = M!TickAdd(call.now_ms, Debounce)
        /\ media'.notification_sequence = media.notification_sequence
        /\ media'.observed_sequence = call.sequence
    BY <1>1 DEF M!StartDebounce, MediaShaped
  <2>2. TimesTyped'
    BY <1>1, <1>4, <2>1, DelaysAreFinite DEF TimesTyped
  <2>3. WaitIsSafe' /\ ProcessIsSafe'
    BY <1>1, <1>5, <2>1, DelaysAreFinite DEF ProcessIsSafe, Announced
  <2> QED BY <1>3, <2>2, <2>3 DEF WakeInv
<1>12. CASE M!ProcessSettle
  <2> USE <1>12 DEF M!ProcessSettle
  <2>1. /\ media'.debounce_deadline_ms = media.debounce_deadline_ms
        /\ media'.notification_sequence = media.notification_sequence
        /\ media'.observed_sequence = media.observed_sequence
        /\ ~media'.debouncing
    BY <1>1 DEF M!Settle, MediaShaped
  <2>2. TimesTyped'
    BY <1>1, <1>4, <2>1, DelaysAreFinite DEF TimesTyped
  <2>3. WaitIsSafe' /\ ProcessIsSafe'
    BY <1>1, <1>5, <2>1 DEF ProcessIsSafe, Announced
  <2> QED BY <1>3, <2>2, <2>3 DEF WakeInv
<1>13. CASE M!ReadFails
  <2> USE <1>13 DEF M!ReadFails
  <2>1. /\ media'.debounce_deadline_ms = media.debounce_deadline_ms
        /\ media'.state = "ERROR"
    BY <1>1 DEF M!EnterError, MediaShaped
  <2>2. TimesTyped'
    BY <1>1, <1>4, <2>1, DelaysAreFinite DEF TimesTyped
  <2>3. WaitIsSafe' /\ ProcessIsSafe' BY <1>5, <2>1
  <2> QED BY <1>3, <2>2, <2>3 DEF WakeInv
<1> QED
  BY <1>7, <1>8, <1>9, <1>10, <1>11, <1>12, <1>13 DEF M!Process

\* The other steps of the worker: a wait ends in a call of process, which
\* looks at everything, or in the stop.
LEMMA WorkerKeepsWake ==
  ASSUME ServiceInv, WakeInv, Worker PROVE WakeInv'
<1> USE DEF KeepCoordinator, serviceVars, boundVars, mediaVars, WorkerTo
<1>1. /\ CallShaped(call) /\ TimesTyped /\ WaitIsSafe /\ ProcessIsSafe
      /\ worker = [pc |-> worker.pc, timer |-> worker.timer,
                   late |-> worker.late]
  BY DEF WakeInv, ServiceInv, Shaped
<1>2. ASSUME worker'.pc = "process", worker'.timer = Forever,
             M!ProcessCall, UNCHANGED coordinator
      PROVE  WakeInv'
  <2> USE <1>2 DEF M!ProcessCall, M!Call, M!boardVars, M!NoCall
  <2>1. call'.pc = "enter" /\ call'.now_ms = clock OBVIOUS
  <2>2. TimesTyped' BY <1>1, <2>1, DelaysAreFinite DEF TimesTyped
  <2>3. StartIsQuiet' BY DEF WakeInv, StartIsQuiet
  <2>4. WaitIsSafe' /\ ProcessIsSafe'
    BY <2>1 DEF WaitIsSafe, ProcessIsSafe
  <2> QED BY <2>2, <2>3, <2>4 DEF WakeInv
<1>3. ASSUME worker'.pc \in {"stop", "exit", "dormant"},
             worker'.timer = Forever, UNCHANGED <<mediaVars, coordinator>>
      PROVE  WakeInv'
  BY <1>1, <1>3, DelaysAreFinite
     DEF WakeInv, TimesTyped, StartIsQuiet, WaitIsSafe, ProcessIsSafe
<1>4. CASE WorkerBlocks
  BY <1>1, <1>4
     DEF WorkerBlocks, WakeInv, TimesTyped, StartIsQuiet, WaitIsSafe,
         ProcessIsSafe, Announced
<1>5. CASE WorkerWakes
  BY <1>1, <1>2, <1>3, <1>5 DEF WorkerWakes
<1>6. CASE WorkerTimesOut
  BY <1>1, <1>2, <1>6 DEF WorkerTimesOut
<1>7. CASE WorkerProcess
  BY <1>7, ProcessKeepsWake
<1>8. CASE WorkerSetsStopped
  BY <1>1, <1>3, <1>8 DEF WorkerSetsStopped
<1>9. CASE WorkerExits
  BY <1>1, <1>3, <1>9 DEF WorkerExits
<1> QED BY <1>4, <1>5, <1>6, <1>7, <1>8, <1>9 DEF Worker

\* A step that leaves the state machine and the worker alone, and takes no
\* CHANGE away.
LEMMA OthersKeepWake ==
  ASSUME WakeInv,
         UNCHANGED <<clock, next_wait_ms, call, worker>>,
         \/ media' = media
         \/ media' = [media EXCEPT !.accepting_notifications = FALSE],
         ServiceInv,
         "CHANGE" \in flag => "CHANGE" \in flag',
         coordinator' \in {"init", "create"} =>
           coordinator \in {"init", "create"}
  PROVE  WakeInv'
<1>1. /\ media'.notification_sequence = media.notification_sequence
      /\ media'.observed_sequence = media.observed_sequence
      /\ media'.debounce_deadline_ms = media.debounce_deadline_ms
      /\ media'.state = media.state /\ media'.debouncing = media.debouncing
  BY DEF ServiceInv, Shaped, MediaShaped
<1> QED
  BY <1>1 DEF WakeInv, TimesTyped, StartIsQuiet, WaitIsSafe, ProcessIsSafe,
              Announced

\* A step while there is no worker.
LEMMA NobodyWaits ==
  ASSUME TimesTyped', StartIsQuiet',
         worker'.pc \in {"none", "exit", "dormant"}
  PROVE  WakeInv'
BY DEF WakeInv, WaitIsSafe, ProcessIsSafe

LEMMA StartKeepsWake ==
  ASSUME ServiceInv, WakeInv, Start PROVE WakeInv'
<1> USE DEF KeepRest, serviceVars, boundVars, Coordinate
<1>1. /\ MediaShaped(media) /\ CallShaped(call) /\ TimesTyped /\ StartIsQuiet
      /\ coordinator \in {"off", "init", "init_failed", "create", "undo"} =>
           worker.pc = "none"
  BY DEF WakeInv, ServiceInv, Shaped, WorkerGone, Serving, Stopping, Deleting
<1>2. CASE StartRead
  <2> USE <1>2 DEF StartRead, M!InitRead, M!boardVars, M!ZeroContext
  <2>1. TimesTyped'
    BY <1>1, DelaysAreFinite DEF TimesTyped, CallShaped, Forever
  <2>2. StartIsQuiet' BY DEF StartIsQuiet
  <2> QED BY <1>1, <2>1, <2>2, NobodyWaits
<1>3. CASE StartReadFails
  <2> USE <1>3 DEF StartReadFails, M!InitReadFails, M!ZeroContext
  <2>1. TimesTyped' BY <1>1, DelaysAreFinite DEF TimesTyped, Forever
  <2>2. StartIsQuiet' BY DEF StartIsQuiet
  <2> QED BY <1>1, <2>1, <2>2, NobodyWaits
<1>4. CASE StartSettled
  <2> USE <1>4 DEF StartSettled, M!InitSettled, M!boardVars, M!NoCall
  <2>1. TimesTyped'
    BY <1>1, DelaysAreFinite DEF TimesTyped, MediaShaped
  <2>2. StartIsQuiet' BY <1>1 DEF StartIsQuiet, MediaShaped
  <2> QED BY <1>1, <2>1, <2>2, NobodyWaits
<1>5. CASE ServiceCreate
  BY <1>1, <1>5, DelaysAreFinite
     DEF ServiceCreate, mediaVars, WakeInv, TimesTyped, StartIsQuiet,
         WaitIsSafe, ProcessIsSafe, Announced
<1>6. CASE ServiceCreateFails
  BY <1>6, OthersKeepWake DEF ServiceCreateFails, mediaVars
<1>7. CASE UndoStart
  <2> USE <1>7 DEF UndoStart, M!Deinit, M!boardVars
  <2>1. TimesTyped' BY <1>1 DEF TimesTyped, MediaShaped
  <2>2. StartIsQuiet' BY DEF StartIsQuiet
  <2> QED BY <1>1, <2>1, <2>2, NobodyWaits
<1>8. CASE Register
  BY <1>8, OthersKeepWake DEF Register, ClearEdge
<1>9. CASE RegisterFails
  BY <1>9, OthersKeepWake DEF RegisterFails, ClearEdge
<1> QED
  BY <1>2, <1>3, <1>4, <1>5, <1>6, <1>7, <1>8, <1>9 DEF Start

LEMMA StopKeepsWake ==
  ASSUME ServiceInv, WakeInv, Stop PROVE WakeInv'
<1> USE DEF serviceVars, boundVars, mediaVars, Coordinate, At
<1>1. CASE DisableIrq
  BY <1>1, OthersKeepWake DEF DisableIrq, ClearEdge
<1>2. CASE SetStop
  BY <1>2, OthersKeepWake DEF SetStop
<1>3. CASE StoppedSeen
  BY <1>3, OthersKeepWake DEF StoppedSeen
<1>4. CASE StoppedTimesOut
  BY <1>4, OthersKeepWake DEF StoppedTimesOut
<1>5. ASSUME UNCHANGED mediaVars, coordinator' \notin {"init", "create"},
             WorkerTo("none") \/ WorkerTo("dormant")
      PROVE  WakeInv'
  <2>1. worker'.pc \in {"none", "dormant"} /\ worker'.timer = Forever
    BY <1>5 DEF WorkerTo, ServiceInv, Shaped
  <2>2. TimesTyped'
    BY <1>5, <2>1, DelaysAreFinite DEF WakeInv, TimesTyped
  <2>3. StartIsQuiet' BY <1>5 DEF StartIsQuiet
  <2> QED BY <2>1, <2>2, <2>3, NobodyWaits
<1>6. CASE DeleteTask
  <2>1. CASE worker.pc = "dormant" BY <1>5, <1>6, <2>1 DEF DeleteTask
  <2>2. CASE worker.pc # "dormant"
    BY <1>6, <2>2, OthersKeepWake DEF DeleteTask
  <2> QED BY <2>1, <2>2
<1>7. CASE TerminateTask BY <1>5, <1>7 DEF TerminateTask
<1>8. CASE DeleteDormantTask BY <1>5, <1>8 DEF DeleteDormantTask
<1>9. CASE DeleteFlag
  <2> USE <1>9 DEF DeleteFlag, M!Deinit, M!boardVars
  <2>1. worker'.pc = "none" BY DEF ServiceInv, WorkerGone
  <2>2. TimesTyped'
    BY DEF WakeInv, TimesTyped, ServiceInv, Shaped, MediaShaped
  <2>3. StartIsQuiet' BY DEF StartIsQuiet
  <2> QED BY <2>1, <2>2, <2>3, NobodyWaits
<1> QED
  BY <1>1, <1>2, <1>3, <1>4, <1>6, <1>7, <1>8, <1>9 DEF Stop

LEMMA AllKeepWake ==
  ASSUME ServiceInv, WakeInv, [Next]_vars PROVE WakeInv'
<1>1. CASE PinChange
  BY <1>1, OthersKeepWake DEF PinChange, M!PinChange, serviceVars
<1>2. CASE NotifyIsrRejected
  BY <1>2, OthersKeepWake
     DEF NotifyIsrRejected, M!NotifyIsrRejected, serviceVars
<1>3. CASE StopNotifications
  BY <1>3, OthersKeepWake
     DEF StopNotifications, M!StopNotifications, M!boardVars, At
<1>4. CASE UNCHANGED vars
  BY <1>4, OthersKeepWake DEF vars, mediaVars, serviceVars
<1> QED
  BY <1>1, <1>2, <1>3, <1>4, TickKeepsWake, NotifyKeepsWake, WorkerKeepsWake,
     StartKeepsWake, StopKeepsWake DEF Next, Interrupt

\* A worker that waits without a timeout, unwoken, has nothing pending.
THEOREM WakeupCorrect == Spec => []NoLostWakeup
<1>1. ServiceInv /\ WakeInv /\ [Next]_vars => WakeInv'
  BY AllKeepWake
<1>2. WakeInv => NoLostWakeup
  BY DEF WakeInv, WaitIsSafe, Announced, NoLostWakeup
<1> QED BY WakeInit, ServiceInvariant, <1>1, <1>2, PTL DEF Spec
----------------------------------------------------------------------------
(* What MediaProofs proves of the state machine holds in the service.      *)

MP == INSTANCE MediaProofs

\* The specification that MediaProofs is about is the one of the service's
\* instance: every definition the two are built from is the same.
LEMMA OneMedia == M!Spec => MP!Spec
<1> USE DEF M!vars, MP!vars, M!boardVars, MP!boardVars
<1>1. M!Init => MP!Init
  BY Zenon
     DEF M!Init, MP!Init, M!TickMod, MP!TickMod, M!WaitForever,
         MP!WaitForever, M!ZeroContext, MP!ZeroContext, M!NoCall, MP!NoCall
<1>2. M!Next => MP!Next
  BY Zenon
     DEF M!Next, MP!Next, M!TickMod, MP!TickMod, M!WaitForever, MP!WaitForever,
         M!TickAdd, MP!TickAdd, M!TickSub, MP!TickSub,
         M!DeadlineReached, MP!DeadlineReached,
         M!NextSequence, MP!NextSequence, M!NextGeneration, MP!NextGeneration,
         M!Older, MP!Older, M!RawToPresent, MP!RawToPresent,
         M!NoCall, MP!NoCall, M!ZeroContext, MP!ZeroContext,
         M!EnterError, MP!EnterError, M!StartDebounce, MP!StartDebounce,
         M!Settle, MP!Settle, M!SignalFails, MP!SignalFails,
         M!PinChange, MP!PinChange, M!Tick, MP!Tick,
         M!BacklogBound, MP!BacklogBound, M!NotifyIsr, MP!NotifyIsr,
         M!NotifyIsrRejected, MP!NotifyIsrRejected, M!EdgeLost, MP!EdgeLost,
         M!InitRead, MP!InitRead, M!InitSettled, MP!InitSettled,
         M!InitReadFails, MP!InitReadFails,
         M!StopNotifications, MP!StopNotifications, M!Deinit, MP!Deinit,
         M!Call, MP!Call, M!ProcessCall, MP!ProcessCall,
         M!ProcessEnter, MP!ProcessEnter, M!ProcessRead, MP!ProcessRead,
         M!ProcessSnapshot, MP!ProcessSnapshot,
         M!ProcessRecheck, MP!ProcessRecheck,
         M!RecheckAgrees, MP!RecheckAgrees,
         M!ProcessRestart, MP!ProcessRestart,
         M!ProcessSettle, MP!ProcessSettle, M!ReadFails, MP!ReadFails,
         M!Counting, MP!Counting, M!PollCall, MP!PollCall,
         M!PollRead, MP!PollRead, M!PollStore, MP!PollStore,
         M!NotifyCall, MP!NotifyCall, M!NotifyRead, MP!NotifyRead,
         M!NotifyStore, MP!NotifyStore, M!Environment, MP!Environment,
         M!Lifecycle, MP!Lifecycle, M!Process, MP!Process, M!Poll, MP!Poll,
         M!Notify, MP!Notify
<1>3. M!vars = MP!vars /\ (M!vars)' = (MP!vars)'
  BY Zenon
<1>4. [M!Next]_(M!vars) => [MP!Next]_(MP!vars)
  BY <1>2, <1>3, Zenon
<1> QED BY <1>1, <1>4, PTL DEF M!Spec, MP!Spec

\* The worker, the board and the interrupt together lose no accepted edge, name
\* each session by one generation, settle nothing stale and cut no debounce
\* short, and process never says "wait forever" with work left outside ERROR,
\* through every start, stop and retry.
THEOREM MediaTheoremsHold ==
  Spec => /\ [](M!SettledIsCurrent /\ M!GenerationNamesSession
                /\ M!WaitForeverMeansIdleOrError)
          /\ M!SettlesToPin /\ M!DebounceHonoured
<1>1. MP!MediaAssumption
  BY ServiceAssumption, Zenon DEF M!MediaAssumption, MP!MediaAssumption
<1>2. MP!SettledIsCurrent => M!SettledIsCurrent
  BY Zenon
     DEF M!SettledIsCurrent, MP!SettledIsCurrent, M!Quiescent, MP!Quiescent,
         M!RawToPresent, MP!RawToPresent
<1>3. MP!GenerationNamesSession => M!GenerationNamesSession
  BY Zenon DEF M!GenerationNamesSession, MP!GenerationNamesSession
<1>4. UNCHANGED M!vars <=> UNCHANGED MP!vars
  BY Zenon DEF M!vars, MP!vars, M!boardVars, MP!boardVars
<1>5. M!ProcessSettle => MP!ProcessSettle
  BY Zenon
     DEF M!ProcessSettle, MP!ProcessSettle, M!RecheckAgrees, MP!RecheckAgrees,
         M!RawToPresent, MP!RawToPresent, M!Settle, MP!Settle,
         M!NextGeneration, MP!NextGeneration, M!NoCall, MP!NoCall,
         M!boardVars, MP!boardVars
<1>6. MP!SettlesToPin => M!SettlesToPin
  BY <1>4, <1>5, PTL DEF M!SettlesToPin, MP!SettlesToPin
<1>7. MP!DebounceHonoured => M!DebounceHonoured
  BY <1>4, <1>5, PTL DEF M!DebounceHonoured, MP!DebounceHonoured
<1>8. MP!WaitForeverMeansIdleOrError => M!WaitForeverMeansIdleOrError
  BY Zenon
     DEF M!WaitForeverMeansIdleOrError, MP!WaitForeverMeansIdleOrError,
         M!WaitForever, MP!WaitForever, M!TickMod, MP!TickMod
<1>9. HalfTick > 1
  BY ServiceAssumption
<1>10. M!Spec => /\ [](M!SettledIsCurrent /\ M!GenerationNamesSession
                      /\ M!WaitForeverMeansIdleOrError)
                 /\ M!SettlesToPin /\ M!DebounceHonoured
  BY <1>1, <1>2, <1>3, <1>6, <1>7, <1>8, <1>9, OneMedia, MP!SettledCorrect,
     MP!GenerationCorrect, MP!SettlesToPinCorrect, MP!DebounceCorrect,
     MP!WaitCorrect, PTL
<1> QED BY <1>10, MediaSpecCorrect, PTL DEF MediaSpec
=============================================================================
