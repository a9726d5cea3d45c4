------------------------------- MODULE Media -------------------------------
(***************************************************************************)
(* The removable-media state machine of src/core/mtfs_media.c: one task    *)
(* context that calls mtfs_media_process, mtfs_media_poll and              *)
(* mtfs_media_notify, and the Card Detect interrupt, which may run between *)
(* any two accesses the task makes to what they share.                     *)
(*                                                                         *)
(* What they share is notification_sequence and the Card Detect pin, so a  *)
(* call is cut into steps at the reads and writes of those two.  The       *)
(* record media is the mtfs_media_context_t, the record call holds the     *)
(* control point and the local variables of the call in progress.  The     *)
(* millisecond tick and the counters keep their fixed width: they wrap.    *)
(***************************************************************************)
EXTENDS Integers

CONSTANTS
  HalfTick,         \* half the range of the millisecond tick (2^31)
  SeqMod,           \* range of notification_sequence (2^32)
  GenMod,           \* range of media_generation (2^32)
  Debounce,         \* config.debounce_ms
  ActiveHigh,       \* config.active_level = MTFS_MEDIA_ACTIVE_HIGH
  MaxReadFailures   \* how often read_signal may fail (a bound of the model)

ASSUME MediaAssumption ==
  /\ HalfTick \in Nat \ {0}
  /\ SeqMod \in Nat /\ SeqMod > 2
  /\ GenMod \in Nat /\ GenMod > 1 /\ GenMod % 2 = 0
  /\ Debounce \in 0 .. HalfTick - 1      \* debounce_ms <= INT32_MAX
  /\ ActiveHigh \in BOOLEAN
  /\ MaxReadFailures \in Nat

VARIABLES
  pin,            \* level of the Card Detect pin (TRUE: high)
  irq_latched,    \* an edge of the pin waits for its interrupt
  clock,          \* the monotonic millisecond tick
  read_failures,  \* failed calls of read_signal so far
  media,          \* the mtfs_media_context_t
  call,           \* the call in progress in task context
  next_wait_ms,   \* *next_wait_ms as the last call left it
  \* history, read by no guard
  age,            \* ticks since the running debounce began, at most Debounce
  owed,           \* process saw a notification and has not acted on it
  unseen          \* an edge came while no notification was accepted

boardVars == <<pin, irq_latched, clock, read_failures>>
vars == <<boardVars, media, call, next_wait_ms, age, owed, unseen>>

----------------------------------------------------------------------------
(* Fixed-width arithmetic.                                                 *)

TickMod == 2 * HalfTick
WaitForever == TickMod - 1             \* MTFS_MEDIA_WAIT_FOREVER, UINT32_MAX

TickAdd(a, b) == IF a + b < TickMod THEN a + b ELSE a + b - TickMod
TickSub(a, b) == IF a >= b THEN a - b ELSE a - b + TickMod

\* Mutant: unsigned comparison, wrong when the deadline has wrapped.
DeadlineReachedUnsigned(now, deadline) == now >= deadline

\* (int32_t)(now - deadline) >= 0
DeadlineReached(now, deadline) == TickSub(now, deadline) < HalfTick

NextSequence(s) == IF s + 1 = SeqMod THEN 0 ELSE s + 1
NextGeneration(g) == IF g + 1 = GenMod THEN 0 ELSE g + 1

Older(n) == IF n < Debounce THEN n + 1 ELSE n

RawToPresent(raw) == IF ActiveHigh THEN raw ELSE ~raw

----------------------------------------------------------------------------
(* Types and the pieces of the state machine.                              *)

\* mtfs_media_state_t
States == {"ABSENT", "DEBOUNCING_INSERT", "PRESENT", "DEBOUNCING_REMOVE",
           "ERROR"}

Context ==
  [initialized : BOOLEAN, accepting_notifications : BOOLEAN,
   notification_sequence : 0 .. SeqMod - 1, observed_sequence : 0 .. SeqMod - 1,
   debounce_deadline_ms : 0 .. TickMod - 1, state : States,
   media_generation : 0 .. GenMod - 1, stable_present : BOOLEAN,
   candidate_present : BOOLEAN, last_polled_raw_level : BOOLEAN,
   debouncing : BOOLEAN]

ControlPoints ==
  {"idle", "init", "enter", "read", "snapshot", "recheck", "compare",
   "poll_read", "poll_store", "notify_read", "notify_store"}

\* The control point of a call and its local variables; age counts the ticks
\* since the caller read the clock, up to Debounce.
Calls ==
  [pc : ControlPoints, now_ms : 0 .. TickMod - 1, sequence : 0 .. SeqMod - 1,
   raw_level : BOOLEAN, age : 0 .. Debounce]

NoCall ==
  [pc |-> "idle", now_ms |-> 0, sequence |-> 0, raw_level |-> FALSE, age |-> 0]

\* (void)memset(context, 0, sizeof(*context))
ZeroContext ==
  [initialized |-> FALSE, accepting_notifications |-> FALSE,
   notification_sequence |-> 0, observed_sequence |-> 0,
   debounce_deadline_ms |-> 0, state |-> "ABSENT",
   media_generation |-> 0, stable_present |-> FALSE,
   candidate_present |-> FALSE, last_polled_raw_level |-> FALSE,
   debouncing |-> FALSE]

EnterError(m) == [m EXCEPT !.state = "ERROR", !.debouncing = FALSE]

StartDebounce(m, present) ==
  [m EXCEPT
     !.candidate_present = present,
     !.state = IF present THEN "DEBOUNCING_INSERT" ELSE "DEBOUNCING_REMOVE",
     !.debounce_deadline_ms = TickAdd(call.now_ms, Debounce),
     !.debouncing = TRUE]

\* Mutant: each end of a debounce counts as a new session.
SettleAlwaysNew(m, present) ==
  [m EXCEPT
     !.stable_present = present,
     !.state = IF present THEN "PRESENT" ELSE "ABSENT",
     !.debouncing = FALSE,
     !.media_generation = NextGeneration(@)]

Settle(m, present) ==
  [m EXCEPT
     !.stable_present = present,
     !.state = IF present THEN "PRESENT" ELSE "ABSENT",
     !.debouncing = FALSE,
     !.media_generation = IF present # m.stable_present
                          THEN NextGeneration(@) ELSE @]

SignalFails ==
  /\ read_failures < MaxReadFailures
  /\ read_failures' = read_failures + 1

----------------------------------------------------------------------------
(* The environment: the pin, its interrupt, the clock.                     *)

\* A card is inserted or pulled, or the contact bounces.
PinChange ==
  /\ pin' = ~pin
  /\ irq_latched' = TRUE
  /\ UNCHANGED <<clock, read_failures, media, call, next_wait_ms, age, owed,
                 unseen>>

Tick ==
  /\ clock' = TickAdd(clock, 1)
  /\ age' = IF media.debouncing THEN Older(age) ELSE age
  /\ call' = IF call.pc \in {"idle", "init"} THEN call
             ELSE [call EXCEPT !.age = Older(@)]
  /\ UNCHANGED <<pin, irq_latched, read_failures, media, next_wait_ms, owed,
                 unseen>>

\* Fewer than SeqMod notifications (2^32 in the code) arrive between two looks
\* of the task at the sequence; one is kept for a notify or a poll of the
\* task itself.
BacklogBound ==
  LET next == NextSequence(media.notification_sequence)
  IN  /\ next # media.observed_sequence
      /\ call.pc # "idle" => next # call.sequence
      /\ call.pc \in {"poll_read", "notify_read"} =>
           NextSequence(next) # media.observed_sequence

\* Mutant: an edge during a debounce is taken for a bounce and not counted.
NotifyIsrUnlessDebouncing ==
  /\ irq_latched
  /\ media.initialized /\ media.accepting_notifications
  /\ BacklogBound
  /\ irq_latched' = FALSE
  /\ media' = IF media.debouncing THEN media
              ELSE [media EXCEPT !.notification_sequence = NextSequence(@)]
  /\ UNCHANGED <<pin, clock, read_failures, call, next_wait_ms, age, owed,
                 unseen>>

\* mtfs_media_notify_isr, accepted: the interrupt only counts.
NotifyIsr ==
  /\ irq_latched
  /\ media.initialized /\ media.accepting_notifications
  /\ BacklogBound
  /\ irq_latched' = FALSE
  /\ media' = [media EXCEPT !.notification_sequence = NextSequence(@)]
  /\ UNCHANGED <<pin, clock, read_failures, call, next_wait_ms, age, owed,
                 unseen>>

\* mtfs_media_notify_isr, rejected with NOT_READY.
NotifyIsrRejected ==
  /\ irq_latched
  /\ ~(media.initialized /\ media.accepting_notifications)
  /\ irq_latched' = FALSE
  /\ unseen' = TRUE
  /\ UNCHANGED <<pin, clock, read_failures, media, call, next_wait_ms, age,
                 owed>>

\* The board drops the edge: it clears the pending bit, or its handler cannot
\* read the pin.
EdgeLost ==
  /\ irq_latched
  /\ media.initialized /\ media.accepting_notifications
  /\ irq_latched' = FALSE
  /\ unseen' = TRUE
  /\ UNCHANGED <<pin, clock, read_failures, media, call, next_wait_ms, age,
                 owed>>

----------------------------------------------------------------------------
(* mtfs_media_init, mtfs_media_stop_notifications, mtfs_media_deinit.      *)

\* The pin is read before notifications are accepted.  The caller has not
\* been given a wait yet.
InitRead ==
  /\ call.pc = "idle"
  /\ media' = [ZeroContext EXCEPT !.state = "ERROR"]
  /\ call' = [call EXCEPT !.pc = "init", !.raw_level = pin]
  /\ next_wait_ms' = WaitForever
  /\ age' = 0 /\ owed' = FALSE /\ unseen' = FALSE
  /\ UNCHANGED boardVars

InitSettled ==
  /\ call.pc = "init"
  /\ LET present == RawToPresent(call.raw_level)
     IN  media' = [media EXCEPT
                     !.stable_present = present,
                     !.candidate_present = present,
                     !.media_generation = IF present THEN 1 ELSE 0,
                     !.last_polled_raw_level = call.raw_level,
                     !.state = IF present THEN "PRESENT" ELSE "ABSENT",
                     !.initialized = TRUE,
                     !.accepting_notifications = TRUE]
  /\ call' = NoCall
  /\ UNCHANGED <<boardVars, next_wait_ms, age, owed, unseen>>

\* A failed first read still leaves an initialized, accepting context.
InitReadFails ==
  /\ call.pc = "idle"
  /\ SignalFails
  /\ media' = [ZeroContext EXCEPT !.state = "ERROR", !.initialized = TRUE,
                                  !.accepting_notifications = TRUE]
  /\ next_wait_ms' = WaitForever
  /\ age' = 0 /\ owed' = FALSE /\ unseen' = FALSE
  /\ UNCHANGED <<pin, irq_latched, clock, call>>

StopNotifications ==
  /\ media.initialized
  /\ media' = [media EXCEPT !.accepting_notifications = FALSE]
  /\ UNCHANGED <<boardVars, call, next_wait_ms, age, owed, unseen>>

Deinit ==
  /\ media.initialized
  /\ media' = [media EXCEPT !.accepting_notifications = FALSE,
                            !.initialized = FALSE, !.debouncing = FALSE]
  /\ age' = 0
  /\ UNCHANGED <<boardVars, call, next_wait_ms, owed, unseen>>

----------------------------------------------------------------------------
(* mtfs_media_process.                                                     *)

\* The caller reads the clock, then calls: time may pass in between.
Call(first) ==
  /\ call.pc = "idle"
  /\ call' = [NoCall EXCEPT !.pc = first, !.now_ms = clock,
                            !.sequence = media.notification_sequence]
  /\ UNCHANGED <<boardVars, media, next_wait_ms, age, owed, unseen>>

ProcessCall == media.initialized /\ Call("enter")

\* First look at the sequence: is there a notification to start a debounce
\* for, a debounce to wait for, or one whose time is up?
ProcessEnter ==
  LET sequence == media.notification_sequence
      pending  == sequence # media.observed_sequence
      reached  == DeadlineReached(call.now_ms, media.debounce_deadline_ms)
  IN
  /\ call.pc = "enter"
  /\ owed' = pending
  /\ \/ /\ pending
        /\ call' = [call EXCEPT !.pc = "read", !.sequence = sequence]
        /\ next_wait_ms' = WaitForever
     \/ /\ ~pending /\ ~media.debouncing
        /\ call' = NoCall
        /\ next_wait_ms' = WaitForever
     \/ /\ ~pending /\ media.debouncing /\ ~reached
        /\ call' = NoCall
        /\ next_wait_ms' = TickSub(media.debounce_deadline_ms, call.now_ms)
     \/ /\ ~pending /\ media.debouncing /\ reached
        /\ call' = [call EXCEPT !.pc = "snapshot", !.sequence = sequence]
        /\ next_wait_ms' = WaitForever
  /\ UNCHANGED <<boardVars, media, age, unseen>>

\* Mutant: the wait of a new debounce is not returned.
ProcessReadNoWait ==
  /\ call.pc = "read"
  /\ media' = StartDebounce([media EXCEPT !.last_polled_raw_level = pin,
                                          !.observed_sequence = call.sequence],
                            RawToPresent(pin))
  /\ age' = call.age
  /\ owed' = FALSE /\ unseen' = FALSE
  /\ call' = NoCall
  /\ UNCHANGED <<boardVars, next_wait_ms>>

\* The first read: the snapshot from before it is what has been observed.
ProcessRead ==
  /\ call.pc = "read"
  /\ media' = StartDebounce([media EXCEPT !.last_polled_raw_level = pin,
                                          !.observed_sequence = call.sequence],
                            RawToPresent(pin))
  /\ age' = call.age
  /\ owed' = FALSE /\ unseen' = FALSE
  /\ IF DeadlineReached(call.now_ms, TickAdd(call.now_ms, Debounce))
     THEN /\ call' = [call EXCEPT !.pc = "snapshot"]
          /\ UNCHANGED next_wait_ms
     ELSE /\ call' = NoCall
          /\ next_wait_ms' = Debounce
  /\ UNCHANGED boardVars

\* Second look, just before the recheck of the pin.
ProcessSnapshot ==
  /\ call.pc = "snapshot"
  /\ call' = [call EXCEPT !.pc = "recheck",
                          !.sequence = media.notification_sequence]
  /\ UNCHANGED <<boardVars, media, next_wait_ms, age, owed, unseen>>

ProcessRecheck ==
  /\ call.pc = "recheck"
  /\ call' = [call EXCEPT !.pc = "compare", !.raw_level = pin]
  /\ media' = [media EXCEPT !.last_polled_raw_level = pin]
  /\ unseen' = FALSE
  /\ UNCHANGED <<boardVars, next_wait_ms, age, owed>>

\* Mutant: only the level is compared, not the sequence.
RecheckAgreesLevel ==
  RawToPresent(call.raw_level) = media.candidate_present

RecheckAgrees ==
  /\ call.sequence = media.notification_sequence
  /\ RawToPresent(call.raw_level) = media.candidate_present

\* The pin bounced or a notification raced the recheck: debounce again.
ProcessRestart ==
  /\ call.pc = "compare"
  /\ ~RecheckAgrees
  /\ media' = StartDebounce([media EXCEPT !.observed_sequence = call.sequence],
                            RawToPresent(call.raw_level))
  /\ age' = call.age
  /\ call' = NoCall
  /\ next_wait_ms' = Debounce
  /\ UNCHANGED <<boardVars, owed, unseen>>

ProcessSettle ==
  /\ call.pc = "compare"
  /\ RecheckAgrees
  /\ media' = Settle(media, RawToPresent(call.raw_level))
  /\ age' = 0
  /\ call' = NoCall
  /\ UNCHANGED <<boardVars, next_wait_ms, owed, unseen>>

\* Every failed read of the pin ends the call in the ERROR state.
ReadFails ==
  /\ call.pc \in {"read", "recheck", "poll_read", "notify_read"}
  /\ SignalFails
  /\ media' = EnterError(media)
  /\ age' = 0
  /\ call' = NoCall
  /\ UNCHANGED <<pin, irq_latched, clock, next_wait_ms, owed, unseen>>

----------------------------------------------------------------------------
(* mtfs_media_poll and mtfs_media_notify.  Their ++notification_sequence   *)
(* is a load and a store: an interrupt between the two is overwritten.     *)

Counting(first) ==
  /\ media.initialized /\ media.accepting_notifications
  /\ NextSequence(media.notification_sequence) # media.observed_sequence
  /\ Call(first)

PollCall == Counting("poll_read")

\* A level that is not the last one seen counts as a notification.
PollRead ==
  /\ call.pc = "poll_read"
  /\ call' = [call EXCEPT !.pc = IF pin # media.last_polled_raw_level
                                 THEN "poll_store" ELSE "enter",
                          !.sequence = media.notification_sequence]
  /\ media' = [media EXCEPT !.last_polled_raw_level = pin]
  /\ UNCHANGED <<boardVars, next_wait_ms, age, owed, unseen>>

PollStore ==
  /\ call.pc = "poll_store"
  /\ media' = [media EXCEPT !.notification_sequence = NextSequence(call.sequence)]
  /\ call' = [call EXCEPT !.pc = "enter", !.sequence = NextSequence(@)]
  /\ UNCHANGED <<boardVars, next_wait_ms, age, owed, unseen>>

NotifyCall == Counting("notify_read")

NotifyRead ==
  /\ call.pc = "notify_read"
  /\ call' = [call EXCEPT !.pc = "notify_store",
                          !.sequence = media.notification_sequence]
  /\ UNCHANGED <<boardVars, media, next_wait_ms, age, owed, unseen>>

NotifyStore ==
  /\ call.pc = "notify_store"
  /\ media' = [media EXCEPT !.notification_sequence = NextSequence(call.sequence)]
  /\ call' = NoCall
  /\ UNCHANGED <<boardVars, next_wait_ms, age, owed, unseen>>

----------------------------------------------------------------------------
(* The specification.                                                      *)

Init ==
  /\ pin \in BOOLEAN
  /\ irq_latched = FALSE
  /\ clock \in 0 .. TickMod - 1
  /\ read_failures = 0
  /\ media = ZeroContext
  /\ call = NoCall
  /\ next_wait_ms = WaitForever
  /\ age = 0
  /\ owed = FALSE
  /\ unseen = FALSE

Environment ==
  PinChange \/ Tick \/ NotifyIsr \/ NotifyIsrRejected \/ EdgeLost

\* A context is initialized when it is not in use, or again to leave ERROR.
\* Another task may stop the notifications during a call.
Lifecycle ==
  \/ (~media.initialized \/ media.state = "ERROR") /\ (InitRead \/ InitReadFails)
  \/ InitSettled
  \/ StopNotifications
  \/ call.pc = "idle" /\ Deinit

\* The steps of a call once it has begun.
Process ==
  \/ ProcessEnter \/ ProcessRead \/ ProcessSnapshot \/ ProcessRecheck
  \/ ProcessRestart \/ ProcessSettle \/ ReadFails

Poll == PollRead \/ PollStore
Notify == NotifyRead \/ NotifyStore

Next ==
  \/ Environment
  \/ Lifecycle
  \/ ProcessCall \/ PollCall \/ NotifyCall
  \/ Process \/ Poll \/ Notify

Spec == Init /\ [][Next]_vars

----------------------------------------------------------------------------
(* Properties.                                                             *)

\* Every variable has the type its declaration in mtfs_media.h gives it.
TypeOK ==
  /\ pin \in BOOLEAN /\ irq_latched \in BOOLEAN
  /\ clock \in 0 .. TickMod - 1
  /\ read_failures \in 0 .. MaxReadFailures
  /\ media \in Context
  /\ call \in Calls
  /\ next_wait_ms \in 0 .. TickMod - 1
  /\ age \in 0 .. Debounce
  /\ owed \in BOOLEAN /\ unseen \in BOOLEAN

\* media_generation and stable_present move together (settle, init, the
\* failed init): an odd generation is a session with a card, an even one a
\* session without, across wraparound, errors and restarts.
GenerationNamesSession ==
  media.stable_present <=> media.media_generation % 2 = 1

\* Nothing is left to do: no call, no debounce, no notification waiting.
Quiescent ==
  /\ call.pc = "idle"
  /\ media.initialized /\ media.accepting_notifications
  /\ ~media.debouncing
  /\ media.notification_sequence = media.observed_sequence
  /\ ~irq_latched

\* No edge is lost in the races between the interrupt and the two reads of
\* the pin in mtfs_media_process: once everything is processed, the settled
\* state is the level the pin has now.
SettledIsCurrent ==
  Quiescent /\ ~unseen /\ media.state # "ERROR" =>
    /\ media.stable_present = RawToPresent(pin)
    /\ media.state = IF RawToPresent(pin) THEN "PRESENT" ELSE "ABSENT"

\* A state is settled, and its event raised, only for the level the pin has at
\* that moment, unless an edge has not come through yet: no notification has
\* raced the recheck since it read the pin.
SettlesToPin ==
  [][ProcessSettle => call.raw_level = pin \/ irq_latched \/ unseen]_vars

\* A debounce ends in PRESENT or ABSENT only when config.debounce_ms have
\* really passed since the call that began it read the clock, however late
\* the calls come and wherever the tick wraps.
DebounceHonoured == [][ProcessSettle => age = Debounce]_vars

\* The contract of next_wait_ms (mtfs_media.h:149): WAIT_FOREVER is returned
\* only when no work is pending, neither a debounce nor a notification that
\* the call itself has seen.  A failed read of the pin breaks it, see below.
WaitForeverMeansIdle ==
  call.pc = "idle" /\ next_wait_ms = WaitForever => ~media.debouncing /\ ~owed

\* What the code keeps of that contract: a caller told to wait forever has left
\* nothing undone, or the state is ERROR, where a notification the call has seen
\* stays unprocessed and no debounce runs.
WaitForeverMeansIdleOrError ==
  call.pc = "idle" /\ next_wait_ms = WaitForever =>
    /\ ~media.debouncing
    /\ owed => media.state = "ERROR"

=============================================================================
