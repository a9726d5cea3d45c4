---------------------------- MODULE MediaProofs ----------------------------
(***************************************************************************)
(* Proofs about Media for every width of the counters, every debounce time *)
(* and either polarity of the pin.                                         *)
(***************************************************************************)
EXTENDS Media, TLAPS

Ticks == 0 .. TickMod - 1

----------------------------------------------------------------------------
(* Fixed-width arithmetic.                                                 *)

\* Sums and differences of ticks are ticks.
LEMMA TickTypes ==
  ASSUME NEW a \in Ticks, NEW b \in Ticks
  PROVE  TickAdd(a, b) \in Ticks /\ TickSub(a, b) \in Ticks
  BY MediaAssumption DEF Ticks, TickMod, TickAdd, TickSub

LEMMA DebounceIsTick == Debounce \in Ticks /\ WaitForever \in Ticks
  BY MediaAssumption DEF Ticks, TickMod, WaitForever

\* The counters stay in their width.
LEMMA NextTypes ==
  /\ \A s \in 0 .. SeqMod - 1 : NextSequence(s) \in 0 .. SeqMod - 1
  /\ \A g \in 0 .. GenMod - 1 : NextGeneration(g) \in 0 .. GenMod - 1
  BY MediaAssumption DEF NextSequence, NextGeneration

\* Each step of the generation counter, the wrapping one included, changes
\* its parity.
LEMMA NextParity ==
  ASSUME NEW g \in 0 .. GenMod - 1
  PROVE  NextGeneration(g) % 2 = 1 <=> ~(g % 2 = 1)
  BY MediaAssumption DEF NextGeneration

LEMMA OlderType ==
  ASSUME NEW n \in 0 .. Debounce
  PROVE  Older(n) \in 0 .. Debounce
  BY MediaAssumption DEF Older

LEMMA RawType == ASSUME NEW raw \in BOOLEAN PROVE RawToPresent(raw) \in BOOLEAN
  BY MediaAssumption DEF RawToPresent

LEMMA ZeroTypes == ZeroContext \in Context /\ NoCall \in Calls
  BY MediaAssumption DEF ZeroContext, Context, NoCall, Calls, States,
     ControlPoints, TickMod

\* The pieces of the state machine return contexts.
LEMMA PieceTypes ==
  ASSUME TypeOK, NEW m \in Context, NEW present \in BOOLEAN
  PROVE  /\ EnterError(m) \in Context
         /\ StartDebounce(m, present) \in Context
         /\ Settle(m, present) \in Context
<1>1. EnterError(m) \in Context
  BY DEF EnterError, Context, States
<1>2. call.now_ms \in Ticks
  BY DEF TypeOK, Calls, Ticks
<1>3. TickAdd(call.now_ms, Debounce) \in Ticks
  BY <1>2, DebounceIsTick, TickTypes
<1>4. StartDebounce(m, present) \in Context
  BY <1>3 DEF StartDebounce, Context, States, Ticks
<1>5. m.media_generation \in 0 .. GenMod - 1
  BY DEF Context
<1>6. NextGeneration(m.media_generation) \in 0 .. GenMod - 1
  BY <1>5, NextTypes
<1>7. Settle(m, present) \in Context
  BY <1>6 DEF Settle, Context, States
<1> QED BY <1>1, <1>4, <1>7

----------------------------------------------------------------------------
(* Type correctness.                                                       *)

LEMMA InitType == Init => TypeOK
<1> SUFFICES ASSUME Init PROVE TypeOK
  OBVIOUS
<1>1. media \in Context /\ call \in Calls
  BY ZeroTypes DEF Init
<1>2. 0 \in 0 .. Debounce /\ 0 \in 0 .. MaxReadFailures
  BY MediaAssumption
<1>3. next_wait_ms \in 0 .. TickMod - 1
  BY DebounceIsTick DEF Init, Ticks
<1> QED BY <1>1, <1>2, <1>3 DEF Init, TypeOK

\* The interrupt, the pin and the clock.
LEMMA EnvironmentType == TypeOK /\ Environment => TypeOK'
<1> SUFFICES ASSUME TypeOK, Environment PROVE TypeOK'
  OBVIOUS
<1>1. CASE PinChange
  BY <1>1 DEF TypeOK, PinChange
<1>2. CASE Tick
  <2>1. 1 \in Ticks /\ clock \in Ticks
    BY MediaAssumption DEF TypeOK, Ticks, TickMod
  <2>2. clock' \in Ticks
    BY <1>2, <2>1, TickTypes DEF Tick
  <2>3. age' \in 0 .. Debounce
    BY <1>2, OlderType DEF TypeOK, Tick
  <2>4. call' \in Calls
    <3>1. call.age \in 0 .. Debounce
      BY DEF TypeOK, Calls
    <3>2. Older(call.age) \in 0 .. Debounce
      BY <3>1, OlderType
    <3> QED BY <1>2, <3>2 DEF TypeOK, Tick, Calls
  <2> QED BY <1>2, <2>2, <2>3, <2>4 DEF TypeOK, Tick, Ticks
<1>3. CASE NotifyIsr
  <2>1. NextSequence(media.notification_sequence) \in 0 .. SeqMod - 1
    BY NextTypes DEF TypeOK, Context
  <2>2. media' \in Context
    BY <1>3, <2>1 DEF TypeOK, NotifyIsr, Context
  <2> QED BY <1>3, <2>2 DEF TypeOK, NotifyIsr
<1>4. CASE NotifyIsrRejected \/ EdgeLost
  BY <1>4 DEF TypeOK, NotifyIsrRejected, EdgeLost
<1> QED BY <1>1, <1>2, <1>3, <1>4 DEF Environment

LEMMA SignalFailsType ==
  TypeOK /\ SignalFails => read_failures' \in 0 .. MaxReadFailures
  BY MediaAssumption DEF TypeOK, SignalFails

LEMMA LifecycleType == TypeOK /\ Lifecycle => TypeOK'
<1> SUFFICES ASSUME TypeOK, Lifecycle PROVE TypeOK'
  OBVIOUS
<1> 0 \in 0 .. Debounce
  BY MediaAssumption
<1>1. CASE InitRead
  <2>1. media' \in Context
    BY <1>1, ZeroTypes DEF InitRead, Context, States
  <2>2. call' \in Calls
    BY <1>1 DEF InitRead, TypeOK, Calls, ControlPoints
  <2> QED BY <1>1, <2>1, <2>2, DebounceIsTick
      DEF TypeOK, InitRead, boardVars, Ticks
<1>2. CASE InitSettled
  <2>1. call.raw_level \in BOOLEAN
    BY DEF TypeOK, Calls
  <2>2. RawToPresent(call.raw_level) \in BOOLEAN
    BY <2>1, RawType
  <2>3. {0, 1} \subseteq 0 .. GenMod - 1
    BY MediaAssumption
  <2>4. media' \in Context
    BY <1>2, <2>1, <2>2, <2>3 DEF InitSettled, TypeOK, Context, States
  <2> QED BY <1>2, <2>4, ZeroTypes DEF TypeOK, InitSettled, boardVars
<1>3. CASE InitReadFails
  <2>1. media' \in Context
    BY <1>3, ZeroTypes DEF InitReadFails, Context, States
  <2> QED BY <1>3, <2>1, SignalFailsType, DebounceIsTick
      DEF TypeOK, InitReadFails, Ticks
<1>4. CASE StopNotifications
  BY <1>4 DEF TypeOK, StopNotifications, Context, boardVars
<1>5. CASE Deinit
  BY <1>5 DEF TypeOK, Deinit, Context, boardVars
<1> QED BY <1>1, <1>2, <1>3, <1>4, <1>5 DEF Lifecycle

\* Every call begins with its local variables in range.
LEMMA CallType ==
  ASSUME TypeOK, NEW first \in ControlPoints, Call(first)
  PROVE  TypeOK'
<1>1. call' \in Calls
  <2>1. clock \in Ticks /\ media.notification_sequence \in 0 .. SeqMod - 1
    BY DEF TypeOK, Context, Ticks
  <2> QED BY <2>1, ZeroTypes DEF Call, Calls, Ticks
<1> QED BY <1>1 DEF TypeOK, Call, boardVars

LEMMA ProcessType == TypeOK /\ Process => TypeOK'
<1> SUFFICES ASSUME TypeOK, Process PROVE TypeOK'
  OBVIOUS
<1>a. /\ call.now_ms \in Ticks /\ media.debounce_deadline_ms \in Ticks
      /\ call.raw_level \in BOOLEAN /\ call.age \in 0 .. Debounce
      /\ call.sequence \in 0 .. SeqMod - 1
      /\ media.notification_sequence \in 0 .. SeqMod - 1
  BY DEF TypeOK, Calls, Context, Ticks
<1>b. 0 \in 0 .. Debounce
  BY MediaAssumption
<1>1. CASE ProcessEnter
  <2>1. call' \in Calls
    BY <1>1, <1>a, ZeroTypes DEF ProcessEnter, TypeOK, Calls, ControlPoints
  <2>2. next_wait_ms' \in Ticks
    <3>1. TickSub(media.debounce_deadline_ms, call.now_ms) \in Ticks
      BY <1>a, TickTypes
    <3> QED BY <1>1, <3>1, DebounceIsTick DEF ProcessEnter
  <2>3. owed' \in BOOLEAN
    BY <1>1 DEF ProcessEnter
  <2> QED BY <1>1, <2>1, <2>2, <2>3 DEF TypeOK, ProcessEnter, boardVars, Ticks
<1>2. CASE ProcessRead
  <2> DEFINE m == [media EXCEPT !.last_polled_raw_level = pin,
                                !.observed_sequence = call.sequence]
  <2>1. m \in Context /\ RawToPresent(pin) \in BOOLEAN
    BY <1>a, RawType DEF TypeOK, Context
  <2>2. media' \in Context
    BY <1>2, <2>1, PieceTypes DEF ProcessRead
  <2>3. call' \in Calls
    BY <1>2, ZeroTypes DEF ProcessRead, TypeOK, Calls, ControlPoints
  <2>4. next_wait_ms' \in Ticks
    BY <1>2, DebounceIsTick DEF ProcessRead, TypeOK, Ticks
  <2> QED BY <1>2, <1>a, <2>2, <2>3, <2>4
      DEF TypeOK, ProcessRead, boardVars, Ticks
<1>3. CASE ProcessSnapshot
  BY <1>3, <1>a DEF ProcessSnapshot, TypeOK, Calls, ControlPoints, boardVars
<1>4. CASE ProcessRecheck
  <2>1. media' \in Context
    BY <1>4 DEF ProcessRecheck, TypeOK, Context
  <2>2. call' \in Calls
    BY <1>4 DEF ProcessRecheck, TypeOK, Calls, ControlPoints
  <2> QED BY <1>4, <2>1, <2>2 DEF TypeOK, ProcessRecheck, boardVars
<1>5. CASE ProcessRestart
  <2> DEFINE m == [media EXCEPT !.observed_sequence = call.sequence]
  <2>1. m \in Context /\ RawToPresent(call.raw_level) \in BOOLEAN
    BY <1>a, RawType DEF TypeOK, Context
  <2>2. media' \in Context
    BY <1>5, <2>1, PieceTypes DEF ProcessRestart
  <2> QED BY <1>5, <1>a, <2>2, ZeroTypes, DebounceIsTick
      DEF TypeOK, ProcessRestart, boardVars, Ticks
<1>6. CASE ProcessSettle
  <2>1. RawToPresent(call.raw_level) \in BOOLEAN /\ media \in Context
    BY <1>a, RawType DEF TypeOK
  <2>2. media' \in Context
    BY <1>6, <2>1, PieceTypes DEF ProcessSettle
  <2> QED BY <1>6, <1>b, <2>2, ZeroTypes DEF TypeOK, ProcessSettle, boardVars
<1>7. CASE ReadFails
  <2>1. media' \in Context
    BY <1>7 DEF ReadFails, EnterError, TypeOK, Context, States
  <2> QED BY <1>7, <1>b, <2>1, ZeroTypes, SignalFailsType
      DEF TypeOK, ReadFails
<1> QED BY <1>1, <1>2, <1>3, <1>4, <1>5, <1>6, <1>7 DEF Process

LEMMA PollNotifyType == TypeOK /\ (Poll \/ Notify) => TypeOK'
<1> SUFFICES ASSUME TypeOK, Poll \/ Notify PROVE TypeOK'
  OBVIOUS
<1>a. /\ call.sequence \in 0 .. SeqMod - 1
      /\ media.notification_sequence \in 0 .. SeqMod - 1
  BY DEF TypeOK, Calls, Context
<1>b. NextSequence(call.sequence) \in 0 .. SeqMod - 1
  BY <1>a, NextTypes
<1>1. CASE PollRead
  <2>1. media' \in Context
    BY <1>1 DEF PollRead, TypeOK, Context
  <2>2. call' \in Calls
    BY <1>1, <1>a DEF PollRead, TypeOK, Calls, ControlPoints
  <2> QED BY <1>1, <2>1, <2>2 DEF TypeOK, PollRead, boardVars
<1>2. CASE PollStore
  <2>1. media' \in Context
    BY <1>2, <1>b DEF PollStore, TypeOK, Context
  <2>2. call' \in Calls
    BY <1>2, <1>b DEF PollStore, TypeOK, Calls, ControlPoints
  <2> QED BY <1>2, <2>1, <2>2 DEF TypeOK, PollStore, boardVars
<1>3. CASE NotifyRead
  BY <1>3, <1>a DEF NotifyRead, TypeOK, Calls, ControlPoints, boardVars
<1>4. CASE NotifyStore
  <2>1. media' \in Context
    BY <1>4, <1>b DEF NotifyStore, TypeOK, Context
  <2> QED BY <1>4, <2>1, ZeroTypes DEF TypeOK, NotifyStore, boardVars
<1> QED BY <1>1, <1>2, <1>3, <1>4 DEF Poll, Notify

LEMMA NextType == TypeOK /\ [Next]_vars => TypeOK'
<1> SUFFICES ASSUME TypeOK, [Next]_vars PROVE TypeOK'
  OBVIOUS
<1>1. CASE ProcessCall \/ PollCall \/ NotifyCall
  BY <1>1, CallType
  DEF ProcessCall, PollCall, NotifyCall, Counting, ControlPoints
<1>2. CASE UNCHANGED vars
  BY <1>2 DEF vars, boardVars, TypeOK
<1> QED
  BY <1>1, <1>2, EnvironmentType, LifecycleType, ProcessType, PollNotifyType
  DEF Next

\* The state of the model, hence of mtfs_media_context_t and of the locals of
\* mtfs_media_process, keeps its types for every width and debounce time.
THEOREM TypeCorrect == Spec => []TypeOK
  BY InitType, NextType, PTL DEF Spec

----------------------------------------------------------------------------
(* The generation names the session.                                       *)

\* Settle is the only step of a call that moves generation or presence.
LEMMA SettleNamesSession ==
  ASSUME NEW m \in Context, NEW present \in BOOLEAN,
         m.stable_present <=> m.media_generation % 2 = 1
  PROVE  LET n == Settle(m, present)
         IN  n.stable_present <=> n.media_generation % 2 = 1
<1> DEFINE n == Settle(m, present)
<1>1. m.media_generation \in 0 .. GenMod - 1 /\ m.stable_present \in BOOLEAN
  BY DEF Context
<1>2. n.stable_present = present
  BY DEF Settle, Context
<1>3. CASE present = m.stable_present
  <2>1. n.media_generation = m.media_generation
    BY <1>3 DEF Settle, Context
  <2> QED BY <1>2, <1>3, <2>1
<1>4. CASE present # m.stable_present
  <2>1. n.media_generation = NextGeneration(m.media_generation)
    BY <1>4 DEF Settle, Context
  <2>2. n.media_generation % 2 = 1 <=> ~(m.media_generation % 2 = 1)
    BY <1>1, <2>1, NextParity
  <2> QED BY <1>1, <1>2, <1>4, <2>2
<1> QED BY <1>3, <1>4

LEMMA GenerationStep ==
  TypeOK /\ GenerationNamesSession /\ [Next]_vars => GenerationNamesSession'
<1> SUFFICES ASSUME TypeOK, GenerationNamesSession, [Next]_vars
             PROVE  GenerationNamesSession'
  OBVIOUS
<1>a. media \in Context /\ call.raw_level \in BOOLEAN
  BY DEF TypeOK, Calls
<1> DEFINE Same == /\ media'.stable_present = media.stable_present
                   /\ media'.media_generation = media.media_generation
<1>b. Same => GenerationNamesSession'
  BY DEF GenerationNamesSession
<1>1. CASE Environment
  BY <1>1, <1>a, <1>b
  DEF Environment, PinChange, Tick, NotifyIsr, NotifyIsrRejected, EdgeLost,
      Context
<1>2. CASE InitRead \/ InitReadFails
  <2>1. media'.stable_present = FALSE /\ media'.media_generation = 0
    BY <1>2 DEF InitRead, InitReadFails, ZeroContext
  <2> QED BY <2>1 DEF GenerationNamesSession
<1>3. CASE InitSettled
  <2> DEFINE present == RawToPresent(call.raw_level)
  <2>1. /\ media'.stable_present = present
        /\ media'.media_generation = IF present THEN 1 ELSE 0
    BY <1>3, <1>a DEF InitSettled, Context
  <2>2. present \in BOOLEAN
    BY <1>a, RawType
  <2> QED BY <2>1, <2>2 DEF GenerationNamesSession
<1>4. CASE StopNotifications \/ Deinit
  BY <1>4, <1>a, <1>b DEF StopNotifications, Deinit, Context
<1>5. CASE ProcessCall \/ PollCall \/ NotifyCall
  BY <1>5, <1>b DEF ProcessCall, PollCall, NotifyCall, Counting, Call
<1>6. CASE ProcessSettle
  <2>1. RawToPresent(call.raw_level) \in BOOLEAN
    BY <1>a, RawType
  <2>2. media' = Settle(media, RawToPresent(call.raw_level))
    BY <1>6 DEF ProcessSettle
  <2> QED BY <1>a, <2>1, <2>2, SettleNamesSession DEF GenerationNamesSession
<1>7. CASE ProcessEnter \/ ProcessSnapshot \/ ProcessRecheck \/ ReadFails
  BY <1>7, <1>a, <1>b
  DEF ProcessEnter, ProcessSnapshot, ProcessRecheck, ReadFails, EnterError,
      Context
<1>8. CASE ProcessRead \/ ProcessRestart
  BY <1>8, <1>a, <1>b DEF ProcessRead, ProcessRestart, StartDebounce, Context
<1>9. CASE Poll \/ Notify
  BY <1>9, <1>a, <1>b
  DEF Poll, Notify, PollRead, PollStore, NotifyRead, NotifyStore, Context
<1>10. CASE UNCHANGED vars
  BY <1>10, <1>b DEF vars
<1> QED
  BY <1>1, <1>2, <1>3, <1>4, <1>5, <1>6, <1>7, <1>8, <1>9, <1>10
  DEF Next, Lifecycle, Process

\* However the inits, settles and errors follow each other, and when
\* media_generation wraps, the parity of the generation is the presence.
THEOREM GenerationCorrect == Spec => []GenerationNamesSession
<1>1. Init => GenerationNamesSession
  BY DEF Init, ZeroContext, GenerationNamesSession
<1> QED BY <1>1, TypeCorrect, GenerationStep, PTL DEF Spec

----------------------------------------------------------------------------
(* No edge is lost.  The inductive invariant says, for each place where a  *)
(* call holds a copy of the sequence or of the pin, that the copy is       *)
(* current unless an edge is latched, counted or unseen.                   *)

Caught(s) == media.notification_sequence = s /\ ~irq_latched /\ ~unseen

\* The first read of the pin, before notifications are accepted.
InitFresh ==
  call.pc = "init" =>
    /\ ~media.initialized
    /\ ~irq_latched /\ ~unseen => call.raw_level = pin

\* An increment of the task never makes the sequence look observed.
IncrementCounts ==
  /\ call.pc \in {"poll_read", "notify_read"} =>
       NextSequence(media.notification_sequence) # media.observed_sequence
  /\ call.pc \in {"poll_store", "notify_store"} =>
       NextSequence(call.sequence) # media.observed_sequence

\* The recheck of the pin, until it is compared.
RecheckFresh ==
  /\ call.pc = "compare" /\ Caught(call.sequence) => call.raw_level = pin
  /\ call.pc \in {"snapshot", "recheck", "compare"} => media.debouncing

\* The settled state; SettledIsCurrent is the part of it between two calls.
SettledFresh ==
  /\ media.initialized /\ media.accepting_notifications
  /\ ~media.debouncing /\ media.state # "ERROR"
  /\ Caught(media.observed_sequence)
  => /\ media.stable_present = RawToPresent(pin)
     /\ media.state = IF media.stable_present THEN "PRESENT" ELSE "ABSENT"

Current == InitFresh /\ IncrementCounts /\ RecheckFresh /\ SettledFresh

LEMMA CurrentImplies == TypeOK /\ Current => SettledIsCurrent
<1> SUFFICES ASSUME TypeOK, Current, Quiescent, ~unseen, media.state # "ERROR"
             PROVE  /\ media.stable_present = RawToPresent(pin)
                    /\ media.state = IF RawToPresent(pin)
                                     THEN "PRESENT" ELSE "ABSENT"
  BY DEF SettledIsCurrent
<1> QED BY DEF Current, SettledFresh, Quiescent, Caught

LEMMA CurrentInit == Init => Current
  BY DEF Init, Current, InitFresh, IncrementCounts, RecheckFresh, SettledFresh,
     ZeroContext, NoCall

LEMMA CurrentEnvironment == TypeOK /\ Current /\ Environment => Current'
<1> SUFFICES ASSUME TypeOK, Current, Environment PROVE Current'
  OBVIOUS
<1> USE DEF Current, InitFresh, IncrementCounts, RecheckFresh, SettledFresh,
            Caught
<1>1. CASE PinChange
  BY <1>1 DEF PinChange
<1>2. CASE Tick
  <2>1. /\ call'.pc = call.pc /\ call'.sequence = call.sequence
        /\ call'.raw_level = call.raw_level
    BY <1>2 DEF Tick, TypeOK, Calls
  <2> QED BY <1>2, <2>1 DEF Tick
<1>3. CASE NotifyIsr
  <2> DEFINE next == NextSequence(media.notification_sequence)
  <2> HIDE DEF next
  <2>1. /\ media' = [media EXCEPT !.notification_sequence = next]
        /\ next # media.observed_sequence
        /\ call.pc # "idle" => next # call.sequence
        /\ call.pc \in {"poll_read", "notify_read"} =>
             NextSequence(next) # media.observed_sequence
        /\ call' = call /\ media.initialized
    BY <1>3 DEF NotifyIsr, BacklogBound, next
  <2>2. /\ media'.notification_sequence = next
        /\ media'.observed_sequence = media.observed_sequence
        /\ media'.initialized = media.initialized
        /\ media'.debouncing = media.debouncing
    BY <2>1 DEF TypeOK, Context
  <2> QED BY <2>1, <2>2
<1>4. CASE NotifyIsrRejected \/ EdgeLost
  BY <1>4 DEF NotifyIsrRejected, EdgeLost
<1> QED BY <1>1, <1>2, <1>3, <1>4 DEF Environment

LEMMA CurrentLifecycle == TypeOK /\ Current /\ Lifecycle => Current'
<1> SUFFICES ASSUME TypeOK, Current, Lifecycle PROVE Current'
  OBVIOUS
<1> USE DEF Current, InitFresh, IncrementCounts, RecheckFresh, SettledFresh,
            Caught
<1>1. CASE InitRead
  <2>1. /\ media'.initialized = FALSE
        /\ call'.pc = "init" /\ call'.raw_level = pin /\ pin' = pin
    BY <1>1 DEF InitRead, ZeroContext, TypeOK, Calls, boardVars
  <2> QED BY <2>1
<1>2. CASE InitSettled
  <2>1. /\ call'.pc = "idle"
        /\ media'.stable_present = RawToPresent(call.raw_level)
        /\ media'.state = IF RawToPresent(call.raw_level)
                          THEN "PRESENT" ELSE "ABSENT"
        /\ pin' = pin /\ irq_latched' = irq_latched /\ unseen' = unseen
        /\ call.pc = "init"
    BY <1>2 DEF InitSettled, NoCall, TypeOK, Context, boardVars
  <2>2. RawToPresent(pin)' = RawToPresent(pin)
    BY <2>1 DEF RawToPresent
  <2> QED BY <2>1, <2>2
<1>3. CASE InitReadFails
  BY <1>3 DEF InitReadFails, ZeroContext
<1>4. CASE StopNotifications
  <2>1. media'.accepting_notifications = FALSE
    BY <1>4 DEF StopNotifications, TypeOK, Context
  <2>2. /\ media'.observed_sequence = media.observed_sequence
        /\ media'.notification_sequence = media.notification_sequence
        /\ media'.initialized = media.initialized
        /\ media'.debouncing = media.debouncing
        /\ UNCHANGED <<call, pin, irq_latched, unseen>>
    BY <1>4 DEF StopNotifications, TypeOK, Context, boardVars
  <2> QED BY <2>1, <2>2
<1>5. CASE call.pc = "idle" /\ Deinit
  BY <1>5 DEF Deinit, TypeOK, Context, boardVars
<1> QED BY <1>1, <1>2, <1>3, <1>4, <1>5 DEF Lifecycle

LEMMA CurrentCalls ==
  TypeOK /\ Current /\ (ProcessCall \/ PollCall \/ NotifyCall) => Current'
<1> SUFFICES ASSUME TypeOK, Current, ProcessCall \/ PollCall \/ NotifyCall
             PROVE  Current'
  OBVIOUS
<1> USE DEF Current, InitFresh, IncrementCounts, RecheckFresh, SettledFresh,
            Caught
<1>1. CASE ProcessCall
  BY <1>1 DEF ProcessCall, Call, NoCall, boardVars
<1>2. CASE PollCall \/ NotifyCall
  BY <1>2 DEF PollCall, NotifyCall, Counting, Call, NoCall, boardVars
<1> QED BY <1>1, <1>2

LEMMA CurrentProcess == TypeOK /\ Current /\ Process => Current'
<1> SUFFICES ASSUME TypeOK, Current, Process PROVE Current'
  OBVIOUS
<1> USE DEF Current, InitFresh, IncrementCounts, RecheckFresh, SettledFresh,
            Caught
<1>1. CASE ProcessEnter
  <2>1. UNCHANGED <<boardVars, media, unseen>>
    BY <1>1 DEF ProcessEnter
  <2>2. \/ call'.pc \in {"read", "idle"}
        \/ call'.pc = "snapshot" /\ media.debouncing
    <3>1. \/ call' = NoCall
          \/ call'.pc = "read"
          \/ call'.pc = "snapshot" /\ media.debouncing
      BY <1>1 DEF ProcessEnter, TypeOK, Calls
    <3> QED BY <3>1 DEF NoCall
  <2> QED BY <2>1, <2>2 DEF boardVars
<1>2. CASE ProcessRead
  <2>1. media'.debouncing = TRUE
    BY <1>2 DEF ProcessRead, StartDebounce, TypeOK, Context
  <2>2. call'.pc \in {"idle", "snapshot"}
    BY <1>2 DEF ProcessRead, NoCall, TypeOK, Calls
  <2> QED BY <2>1, <2>2
<1>3. CASE ProcessSnapshot
  BY <1>3 DEF ProcessSnapshot, TypeOK, Calls, boardVars
<1>4. CASE ProcessRecheck
  <2>1. media'.debouncing = media.debouncing /\ media.debouncing
    BY <1>4 DEF ProcessRecheck, TypeOK, Context
  <2>2. call'.pc = "compare" /\ call'.raw_level = pin /\ pin' = pin
    BY <1>4 DEF ProcessRecheck, TypeOK, Calls, boardVars
  <2> QED BY <2>1, <2>2
<1>5. CASE ProcessRestart
  <2>1. media'.debouncing = TRUE /\ call'.pc = "idle"
    BY <1>5 DEF ProcessRestart, StartDebounce, NoCall, TypeOK, Context
  <2> QED BY <2>1
<1>6. CASE ProcessSettle
  <2> DEFINE present == RawToPresent(call.raw_level)
  <2>1. /\ call.pc = "compare" /\ call.sequence = media.notification_sequence
        /\ call'.pc = "idle"
        /\ pin' = pin /\ irq_latched' = irq_latched /\ unseen' = unseen
        /\ media' = Settle(media, present)
    BY <1>6 DEF ProcessSettle, RecheckAgrees, NoCall, boardVars
  <2>2. /\ media'.stable_present = present
        /\ media'.state = IF present THEN "PRESENT" ELSE "ABSENT"
    BY <2>1 DEF Settle, TypeOK, Context
  <2>3. RawToPresent(pin)' = RawToPresent(pin)
    BY <2>1 DEF RawToPresent
  <2>4. ~irq_latched /\ ~unseen => call.raw_level = pin
    BY <2>1
  <2> QED BY <2>1, <2>2, <2>3, <2>4
<1>7. CASE ReadFails
  BY <1>7 DEF ReadFails, EnterError, NoCall, TypeOK, Context
<1> QED BY <1>1, <1>2, <1>3, <1>4, <1>5, <1>6, <1>7 DEF Process

LEMMA CurrentPollNotify == TypeOK /\ Current /\ (Poll \/ Notify) => Current'
<1> SUFFICES ASSUME TypeOK, Current, Poll \/ Notify PROVE Current'
  OBVIOUS
<1> USE DEF Current, InitFresh, IncrementCounts, RecheckFresh, SettledFresh,
            Caught
<1>1. CASE PollRead
  <2>1. /\ call.pc = "poll_read"
        /\ call'.pc \in {"poll_store", "enter"}
        /\ call'.sequence = media.notification_sequence
        /\ pin' = pin /\ irq_latched' = irq_latched /\ unseen' = unseen
    BY <1>1 DEF PollRead, TypeOK, Calls, boardVars
  <2>2. /\ media'.observed_sequence = media.observed_sequence
        /\ media'.notification_sequence = media.notification_sequence
        /\ media'.initialized = media.initialized
        /\ media'.accepting_notifications = media.accepting_notifications
        /\ media'.debouncing = media.debouncing
        /\ media'.state = media.state
        /\ media'.stable_present = media.stable_present
    BY <1>1 DEF PollRead, TypeOK, Context
  <2>3. RawToPresent(pin)' = RawToPresent(pin)
    BY <2>1 DEF RawToPresent
  <2> QED BY <2>1, <2>2, <2>3
<1>2. CASE PollStore \/ NotifyStore
  <2>1. /\ call.pc \in {"poll_store", "notify_store"}
        /\ call'.pc \in {"enter", "idle"}
    <3>1. PollStore => call.pc = "poll_store" /\ call'.pc = "enter"
      BY DEF PollStore, TypeOK, Calls
    <3>2. NotifyStore => call.pc = "notify_store" /\ call'.pc = "idle"
      BY DEF NotifyStore, NoCall
    <3> QED BY <1>2, <3>1, <3>2
  <2>2. /\ media'.observed_sequence = media.observed_sequence
        /\ media'.notification_sequence = NextSequence(call.sequence)
    BY <1>2 DEF PollStore, NotifyStore, TypeOK, Context
  <2> QED BY <2>1, <2>2
<1>3. CASE NotifyRead
  BY <1>3 DEF NotifyRead, TypeOK, Calls, boardVars
<1> QED BY <1>1, <1>2, <1>3 DEF Poll, Notify

LEMMA CurrentStep == TypeOK /\ Current /\ [Next]_vars => Current'
<1>1. TypeOK /\ Current /\ UNCHANGED vars => Current'
  BY DEF vars, boardVars, Current, InitFresh, IncrementCounts, RecheckFresh,
         SettledFresh, Caught, RawToPresent
<1> QED
  BY <1>1, CurrentEnvironment, CurrentLifecycle, CurrentCalls,
     CurrentProcess, CurrentPollNotify DEF Next

\* No edge is lost in the races between the interrupt, the two reads of the
\* pin in mtfs_media_process and the increments of the task: what is settled
\* when nothing is left to do is the level of the pin, for every debounce
\* time and width of the sequence.
THEOREM SettledCorrect == Spec => []SettledIsCurrent
  BY CurrentStep, CurrentInit, CurrentImplies, TypeCorrect, PTL DEF Spec

\* No step settles a level that an accepted edge has made stale: the recheck
\* compares the sequence after it has read the pin.
THEOREM SettlesToPinCorrect == Spec => SettlesToPin
<1>1. Current /\ ProcessSettle => call.raw_level = pin \/ irq_latched \/ unseen
  BY DEF Current, RecheckFresh, Caught, ProcessSettle, RecheckAgrees
<1> QED BY <1>1, CurrentStep, CurrentInit, TypeCorrect, PTL
        DEF Spec, SettlesToPin

----------------------------------------------------------------------------
(* Debounce time.  As long as they are younger than the debounce time, the *)
(* running debounce and the call in progress are as old as their ticks say *)
(* so the wrapping comparison with the deadline is exact.                  *)

\* One tick later, the deadline is one tick nearer and the call one older.
LEMMA DeadlineTick ==
  ASSUME NEW deadline \in Ticks, NEW t \in Ticks, NEW n \in 0 .. Debounce,
         n < Debounce, TickSub(deadline, t) = Debounce - n
  PROVE  TickSub(deadline, TickAdd(t, 1)) = Debounce - (n + 1)
  BY MediaAssumption DEF Ticks, TickMod, TickAdd, TickSub

LEMMA CallTick ==
  ASSUME NEW now \in Ticks, NEW t \in Ticks, NEW n \in 0 .. Debounce,
         n < Debounce, TickSub(t, now) = n
  PROVE  TickSub(TickAdd(t, 1), now) = n + 1
  BY MediaAssumption DEF Ticks, TickMod, TickAdd, TickSub

\* A call that began with the debounce or after it never finds a deadline
\* reached that is still ahead.
LEMMA NotReached ==
  ASSUME NEW deadline \in Ticks, NEW t \in Ticks, NEW now \in Ticks,
         NEW n \in 0 .. Debounce, NEW c \in 0 .. Debounce,
         n < Debounce, c <= n,
         TickSub(deadline, t) = Debounce - n, TickSub(t, now) = c
  PROVE  ~DeadlineReached(now, deadline)
  BY MediaAssumption DEF Ticks, TickMod, TickSub, DeadlineReached

\* A deadline is a whole debounce time after the clock read of its call.
LEMMA NewDeadline ==
  ASSUME NEW t \in Ticks, NEW now \in Ticks, NEW c \in 0 .. Debounce,
         c < Debounce, TickSub(t, now) = c
  PROVE  TickSub(TickAdd(now, Debounce), t) = Debounce - c
  BY MediaAssumption DEF Ticks, TickMod, TickAdd, TickSub

LEMMA ReachedAtOnce ==
  ASSUME NEW now \in Ticks, DeadlineReached(now, TickAdd(now, Debounce))
  PROVE  Debounce = 0
  BY MediaAssumption DEF Ticks, TickMod, TickAdd, TickSub, DeadlineReached

InCall == call.pc \notin {"idle", "init"}

DebounceAge ==
  media.debouncing /\ age < Debounce =>
    TickSub(media.debounce_deadline_ms, clock) = Debounce - age

CallAge ==
  InCall /\ call.age < Debounce => TickSub(clock, call.now_ms) = call.age

CallYounger == InCall /\ media.debouncing => call.age <= age

TimeIsUp ==
  call.pc \in {"snapshot", "recheck", "compare"} =>
    media.debouncing /\ age = Debounce

Timing == DebounceAge /\ CallAge /\ CallYounger /\ TimeIsUp

LEMMA TimingInit == Init => Timing
  BY DEF Init, Timing, DebounceAge, CallAge, CallYounger, TimeIsUp, InCall,
     ZeroContext, NoCall

\* What the proofs below need of the types.
LEMMA TimingTypes ==
  TypeOK => /\ clock \in Ticks /\ call.now_ms \in Ticks
            /\ media.debounce_deadline_ms \in Ticks
            /\ media.debouncing \in BOOLEAN
            /\ age \in 0 .. Debounce /\ call.age \in 0 .. Debounce
  BY DEF TypeOK, Context, Calls, Ticks

LEMMA TimingTick == TypeOK /\ Timing /\ Tick => Timing'
<1> SUFFICES ASSUME TypeOK, Timing, Tick PROVE Timing'
  OBVIOUS
<1>a. /\ media' = media /\ clock' = TickAdd(clock, 1)
      /\ age' = IF media.debouncing THEN Older(age) ELSE age
      /\ call'.pc = call.pc /\ call'.now_ms = call.now_ms
      /\ InCall => call'.age = Older(call.age)
  BY DEF Tick, InCall, TypeOK, Calls
<1>1. DebounceAge'
  <2> SUFFICES ASSUME media.debouncing, age' < Debounce
               PROVE  TickSub(media.debounce_deadline_ms, clock')
                        = Debounce - age'
    BY <1>a DEF DebounceAge
  <2>1. age < Debounce /\ age' = age + 1
    BY <1>a, TimingTypes, MediaAssumption DEF Older
  <2> QED BY <1>a, <2>1, TimingTypes, DeadlineTick DEF Timing, DebounceAge
<1>2. CallAge'
  <2> SUFFICES ASSUME InCall, call'.age < Debounce
               PROVE  TickSub(clock', call.now_ms) = call'.age
    BY <1>a DEF CallAge, InCall
  <2>1. call.age < Debounce /\ call'.age = call.age + 1
    BY <1>a, TimingTypes, MediaAssumption DEF Older
  <2> QED BY <1>a, <2>1, TimingTypes, CallTick DEF Timing, CallAge
<1>3. CallYounger'
  <2> SUFFICES ASSUME InCall, media.debouncing PROVE call'.age <= age'
    BY <1>a DEF CallYounger, InCall
  <2>1. call.age <= age
    BY DEF Timing, CallYounger
  <2> QED BY <1>a, <2>1, TimingTypes, MediaAssumption DEF Older
<1>4. TimeIsUp'
  BY <1>a, TimingTypes, MediaAssumption DEF Timing, TimeIsUp, Older
<1> QED BY <1>1, <1>2, <1>3, <1>4 DEF Timing

\* Between the calls nothing but the clock and the end of a debounce counts.
LEMMA TimingOutside ==
  TypeOK /\ Timing
  /\ \/ PinChange \/ NotifyIsr \/ NotifyIsrRejected \/ EdgeLost
     \/ Lifecycle
  => Timing'
<1> SUFFICES ASSUME TypeOK, Timing,
                    \/ PinChange \/ NotifyIsr \/ NotifyIsrRejected
                    \/ EdgeLost \/ Lifecycle
             PROVE  Timing'
  OBVIOUS
<1> USE DEF Timing, DebounceAge, CallAge, CallYounger, TimeIsUp, InCall
<1>1. CASE PinChange \/ NotifyIsrRejected \/ EdgeLost
  BY <1>1 DEF PinChange, NotifyIsrRejected, EdgeLost
<1>2. CASE NotifyIsr
  <2>1. /\ media'.debouncing = media.debouncing
        /\ media'.debounce_deadline_ms = media.debounce_deadline_ms
        /\ UNCHANGED <<clock, call, age>>
    BY <1>2 DEF NotifyIsr, TypeOK, Context
  <2> QED BY <2>1
<1>3. CASE InitRead
  <2>1. media'.debouncing = FALSE /\ call'.pc = "init"
    BY <1>3 DEF InitRead, ZeroContext, TypeOK, Calls
  <2> QED BY <2>1
<1>4. CASE InitSettled
  <2>1. /\ media'.debouncing = media.debouncing
        /\ media'.debounce_deadline_ms = media.debounce_deadline_ms
        /\ clock' = clock /\ age' = age /\ call'.pc = "idle"
    BY <1>4 DEF InitSettled, NoCall, TypeOK, Context, boardVars
  <2> QED BY <2>1
<1>5. CASE InitReadFails
  <2>1. media'.debouncing = FALSE /\ call' = call /\ call.pc = "idle"
    BY <1>5 DEF InitReadFails, ZeroContext
  <2> QED BY <2>1
<1>6. CASE StopNotifications
  <2>1. /\ media'.debouncing = media.debouncing
        /\ media'.debounce_deadline_ms = media.debounce_deadline_ms
        /\ UNCHANGED <<clock, call, age>>
    BY <1>6 DEF StopNotifications, TypeOK, Context, boardVars
  <2> QED BY <2>1, <1>6
<1>7. CASE call.pc = "idle" /\ Deinit
  <2>1. media'.debouncing = FALSE /\ call' = call
    BY <1>7 DEF Deinit, TypeOK, Context
  <2> QED BY <2>1, <1>7
<1> QED BY <1>1, <1>2, <1>3, <1>4, <1>5, <1>6, <1>7 DEF Lifecycle

\* A call begins at the clock read of its caller.
LEMMA TimingCalls ==
  ASSUME TypeOK, Timing, NEW first \in {"enter", "poll_read", "notify_read"},
         Call(first)
  PROVE  Timing'
<1>1. /\ call'.now_ms = clock /\ call'.age = 0 /\ call'.pc = first
      /\ UNCHANGED <<clock, media, age>>
  BY DEF Call, NoCall, boardVars
<1>2. TickSub(clock, clock) = 0
  BY TimingTypes, MediaAssumption DEF Ticks, TickMod, TickSub
<1> QED
  BY <1>1, <1>2, TimingTypes, MediaAssumption
  DEF Timing, DebounceAge, CallAge, CallYounger, TimeIsUp, InCall

LEMMA TimingEnter == TypeOK /\ Timing /\ ProcessEnter => Timing'
<1> SUFFICES ASSUME TypeOK, Timing, ProcessEnter PROVE Timing'
  OBVIOUS
<1>1. UNCHANGED <<clock, media, age>>
  BY DEF ProcessEnter, boardVars
<1>a. /\ call.pc = "enter"
      /\ \/ call' = NoCall
         \/ call' = [call EXCEPT !.pc = "read",
                                !.sequence = media.notification_sequence]
         \/ /\ call' = [call EXCEPT !.pc = "snapshot",
                                   !.sequence = media.notification_sequence]
            /\ media.debouncing
            /\ DeadlineReached(call.now_ms, media.debounce_deadline_ms)
  BY DEF ProcessEnter
<1>b. NoCall.pc = "idle"
  BY DEF NoCall
<1>2. CASE call'.pc = "idle"
  BY <1>1, <1>2
  DEF Timing, DebounceAge, CallAge, CallYounger, TimeIsUp, InCall
<1>3. CASE call'.pc = "read"
  <2>1. call'.now_ms = call.now_ms /\ call'.age = call.age /\ call.pc = "enter"
    BY <1>3, <1>a, <1>b DEF TypeOK, Calls
  <2> QED
    BY <1>1, <1>3, <2>1
    DEF Timing, DebounceAge, CallAge, CallYounger, TimeIsUp, InCall
<1>4. CASE call'.pc = "snapshot"
  <2>1. call'.now_ms = call.now_ms /\ call'.age = call.age /\ call.pc = "enter"
    BY <1>4, <1>a, <1>b DEF TypeOK, Calls
  <2>2. /\ media.debouncing
        /\ DeadlineReached(call.now_ms, media.debounce_deadline_ms)
    BY <1>4, <1>a, <1>b DEF TypeOK, Calls
  <2>3. age = Debounce
    <3> SUFFICES ASSUME age # Debounce PROVE FALSE
      OBVIOUS
    <3>1. age < Debounce /\ call.age <= age /\ call.age < Debounce
      BY <2>1, <2>2, TimingTypes, MediaAssumption
      DEF Timing, CallYounger, InCall
    <3>2. /\ TickSub(media.debounce_deadline_ms, clock) = Debounce - age
          /\ TickSub(clock, call.now_ms) = call.age
      BY <2>1, <2>2, <3>1 DEF Timing, DebounceAge, CallAge, InCall
    <3>3. ~DeadlineReached(call.now_ms, media.debounce_deadline_ms)
      BY <3>1, <3>2, TimingTypes, NotReached
    <3> QED BY <2>2, <3>3
  <2> QED
    BY <1>1, <1>4, <2>1, <2>2, <2>3
    DEF Timing, DebounceAge, CallAge, CallYounger, TimeIsUp, InCall
<1>5. call'.pc \in {"idle", "read", "snapshot"}
  <2>1. call' = NoCall \/ call'.pc \in {"read", "snapshot"}
    BY <1>a DEF TypeOK, Calls
  <2> QED BY <2>1, <1>b
<1> QED BY <1>2, <1>3, <1>4, <1>5

\* A debounce that a call begins is as old as the call.
LEMMA TimingStart ==
  TypeOK /\ Timing /\ (ProcessRead \/ ProcessRestart) => Timing'
<1> SUFFICES ASSUME TypeOK, Timing, ProcessRead \/ ProcessRestart PROVE Timing'
  OBVIOUS
<1>1. /\ media'.debouncing = TRUE
      /\ media'.debounce_deadline_ms = TickAdd(call.now_ms, Debounce)
      /\ clock' = clock /\ age' = call.age /\ InCall
  BY DEF ProcessRead, ProcessRestart, StartDebounce, TypeOK, Context,
     boardVars, InCall
<1>2. DebounceAge'
  BY <1>1, TimingTypes, NewDeadline DEF Timing, CallAge, DebounceAge
<1>3. CASE call' = NoCall
  BY <1>2, <1>3
  DEF NoCall, Timing, CallAge, CallYounger, TimeIsUp, InCall
<1>4. CASE call' # NoCall
  <2>1. /\ call' = [call EXCEPT !.pc = "snapshot"]
        /\ DeadlineReached(call.now_ms, TickAdd(call.now_ms, Debounce))
    BY <1>4 DEF ProcessRead, ProcessRestart
  <2>2. /\ call'.pc = "snapshot" /\ call'.now_ms = call.now_ms
        /\ call'.age = call.age
    BY <2>1 DEF TypeOK, Calls
  <2>3. Debounce = 0
    BY <2>1, TimingTypes, ReachedAtOnce
  <2>4. call.age = 0
    BY <2>3, TimingTypes
  <2> QED
    BY <1>1, <1>2, <2>2, <2>3, <2>4
    DEF Timing, CallAge, CallYounger, TimeIsUp, InCall
<1> QED BY <1>3, <1>4

\* The other steps of a call leave the debounce alone or end it.
LEMMA TimingRest ==
  TypeOK /\ Timing
  /\ \/ ProcessSnapshot \/ ProcessRecheck \/ ProcessSettle \/ ReadFails
     \/ Poll \/ Notify
  => Timing'
<1> SUFFICES ASSUME TypeOK, Timing,
                    \/ ProcessSnapshot \/ ProcessRecheck \/ ProcessSettle
                    \/ ReadFails \/ Poll \/ Notify
             PROVE  Timing'
  OBVIOUS
<1> USE DEF Timing, DebounceAge, CallAge, CallYounger, TimeIsUp, InCall
<1>1. CASE ProcessSettle \/ ReadFails
  <2>1. media'.debouncing = FALSE
    BY <1>1 DEF ProcessSettle, ReadFails, Settle, EnterError, TypeOK, Context
  <2>2. call'.pc = "idle"
    BY <1>1 DEF ProcessSettle, ReadFails, NoCall
  <2> QED BY <2>1, <2>2
<1>2. CASE ProcessSnapshot \/ ProcessRecheck
  <2>1. /\ media'.debouncing = media.debouncing
        /\ media'.debounce_deadline_ms = media.debounce_deadline_ms
        /\ clock' = clock /\ age' = age
    BY <1>2 DEF ProcessSnapshot, ProcessRecheck, TypeOK, Context, boardVars
  <2>2. /\ call.pc \in {"snapshot", "recheck"}
        /\ call'.pc \in {"recheck", "compare"}
        /\ call'.now_ms = call.now_ms /\ call'.age = call.age
    BY <1>2 DEF ProcessSnapshot, ProcessRecheck, TypeOK, Calls
  <2> QED BY <2>1, <2>2
<1>3. CASE Poll \/ Notify
  <2>1. /\ media'.debouncing = media.debouncing
        /\ media'.debounce_deadline_ms = media.debounce_deadline_ms
        /\ clock' = clock /\ age' = age
    BY <1>3 DEF Poll, Notify, PollRead, PollStore, NotifyRead, NotifyStore,
                TypeOK, Context, boardVars
  <2>2. \/ call' = NoCall
        \/ /\ call.pc \in {"poll_read", "poll_store", "notify_read"}
           /\ call'.pc \in {"poll_store", "enter", "notify_store"}
           /\ call'.now_ms = call.now_ms /\ call'.age = call.age
    BY <1>3 DEF Poll, Notify, PollRead, PollStore, NotifyRead, NotifyStore,
                TypeOK, Calls
  <2>3. CASE call' = NoCall
    <3>1. call'.pc = "idle"
      BY <2>3 DEF NoCall
    <3> QED BY <2>1, <3>1
  <2>4. CASE call' # NoCall
    BY <2>1, <2>2, <2>4
  <2> QED BY <2>3, <2>4
<1> QED BY <1>1, <1>2, <1>3

\* A debounce ends in a settled state only when config.debounce_ms have
\* passed since the clock read of the call that began it, wherever the tick
\* wraps and however late the calls come.
THEOREM DebounceCorrect == Spec => DebounceHonoured
<1>1. TypeOK /\ Timing /\ [Next]_vars => Timing'
  <2>1. TypeOK /\ Timing /\ UNCHANGED vars => Timing'
    BY DEF vars, boardVars, Timing, DebounceAge, CallAge, CallYounger,
           TimeIsUp, InCall
  <2>2. TypeOK /\ Timing /\ (ProcessCall \/ PollCall \/ NotifyCall) => Timing'
    BY TimingCalls DEF ProcessCall, PollCall, NotifyCall, Counting
  <2> QED
    BY <2>1, <2>2, TimingTick, TimingOutside, TimingEnter, TimingStart,
       TimingRest
    DEF Next, Environment, Process
<1>2. Timing /\ [Next]_vars => [ProcessSettle => age = Debounce]_vars
  BY DEF ProcessSettle, Timing, TimeIsUp
<1> QED BY <1>1, <1>2, TimingInit, TypeCorrect, PTL DEF Spec, DebounceHonoured


----------------------------------------------------------------------------
(* The wait a call returns.                                                *)

\* The contract of next_wait_ms holds between calls and through a notify,
\* which returns no wait; a call that goes on to the recheck has dealt with
\* the notification it saw.
WaitInv ==
  /\ /\ call.pc \in {"idle", "notify_read", "notify_store"}
     /\ next_wait_ms = WaitForever
     => ~media.debouncing /\ (owed => media.state = "ERROR")
  /\ call.pc = "init" => ~media.debouncing /\ ~owed
  /\ call.pc \in {"snapshot", "recheck", "compare"} => ~owed

\* Neither the debounce time nor what is left of it is WAIT_FOREVER.
LEMMA FiniteWaits ==
  ASSUME HalfTick > 1
  PROVE  /\ Debounce # WaitForever
         /\ \A now, deadline \in Ticks :
              ~DeadlineReached(now, deadline) =>
                TickSub(deadline, now) # WaitForever
  BY MediaAssumption
  DEF Ticks, TickMod, TickSub, DeadlineReached, WaitForever

LEMMA WaitInit == Init => WaitInv
  BY DEF Init, WaitInv, ZeroContext, NoCall

LEMMA WaitEnvironment ==
  TypeOK /\ WaitInv /\ (Environment \/ UNCHANGED vars) => WaitInv'
<1> SUFFICES ASSUME TypeOK, WaitInv, Environment \/ UNCHANGED vars
             PROVE  WaitInv'
  OBVIOUS
<1>1. /\ call'.pc = call.pc /\ next_wait_ms' = next_wait_ms /\ owed' = owed
      /\ media'.debouncing = media.debouncing /\ media'.state = media.state
  BY DEF Environment, PinChange, Tick, NotifyIsr, NotifyIsrRejected, EdgeLost,
     vars, boardVars, TypeOK, Context, Calls
<1> QED BY <1>1 DEF WaitInv

LEMMA WaitLifecycle == TypeOK /\ WaitInv /\ Lifecycle => WaitInv'
<1> SUFFICES ASSUME TypeOK, WaitInv, Lifecycle PROVE WaitInv'
  OBVIOUS
<1>1. CASE InitRead \/ InitReadFails
  <2>1. ~media'.debouncing /\ ~owed'
    BY <1>1 DEF InitRead, InitReadFails, ZeroContext
  <2> QED BY <2>1 DEF WaitInv
<1>2. CASE InitSettled
  <2>1. ~media'.debouncing /\ ~owed'
    BY <1>2 DEF InitSettled, WaitInv, TypeOK, Context
  <2> QED BY <2>1 DEF WaitInv
<1>3. CASE StopNotifications \/ Deinit
  <2>1. /\ media'.debouncing => media.debouncing
        /\ media'.state = media.state
        /\ UNCHANGED <<call, next_wait_ms, owed>>
    BY <1>3 DEF StopNotifications, Deinit, TypeOK, Context
  <2> QED BY <2>1 DEF WaitInv
<1> QED BY <1>1, <1>2, <1>3 DEF Lifecycle

LEMMA WaitCalls ==
  ASSUME TypeOK, WaitInv, ProcessCall \/ PollCall \/ NotifyCall
  PROVE  WaitInv'
<1>1. /\ call.pc = "idle" /\ UNCHANGED <<media, next_wait_ms, owed>>
      /\ call'.pc \in {"enter", "poll_read", "notify_read"}
  BY DEF ProcessCall, PollCall, NotifyCall, Counting, Call, NoCall
<1> QED BY <1>1 DEF WaitInv

LEMMA WaitProcess ==
  ASSUME HalfTick > 1, TypeOK, WaitInv, Process
  PROVE  WaitInv'
<1>a. call \in Calls /\ media \in Context
  BY DEF TypeOK
<1>b. NoCall.pc = "idle"
  BY DEF NoCall
<1>1. CASE ProcessEnter
  <2>1. call.now_ms \in Ticks /\ media.debounce_deadline_ms \in Ticks
    BY <1>a DEF Calls, Context, Ticks
  <2>2. CASE call'.pc = "read"
    BY <2>2 DEF WaitInv
  <2>3. CASE call'.pc = "snapshot"
    <3>1. ~owed'
      BY <1>1, <1>a, <1>b, <2>3 DEF ProcessEnter, Calls
    <3> QED BY <2>3, <3>1 DEF WaitInv
  <2>4. CASE call' = NoCall
    <3>1. ~owed' /\ UNCHANGED media
      BY <1>1, <1>a, <1>b, <2>4 DEF ProcessEnter, Calls
    <3>2. media.debouncing => next_wait_ms' # WaitForever
      BY <1>1, <1>a, <1>b, <2>1, <2>4, FiniteWaits DEF ProcessEnter, Calls
    <3> QED BY <1>b, <2>4, <3>1, <3>2 DEF WaitInv
  <2> QED BY <1>1, <1>a, <2>2, <2>3, <2>4 DEF ProcessEnter, Calls
<1>2. CASE ProcessRead
  <2>1. ~owed'
    BY <1>2 DEF ProcessRead
  <2>2. \/ call'.pc = "snapshot"
        \/ call'.pc = "idle" /\ next_wait_ms' = Debounce
    BY <1>2, <1>a, <1>b DEF ProcessRead, Calls
  <2> QED BY <2>1, <2>2, FiniteWaits DEF WaitInv
<1>3. CASE ProcessSnapshot \/ ProcessRecheck
  <2>1. ~owed'
    BY <1>3 DEF ProcessSnapshot, ProcessRecheck, WaitInv
  <2>2. call'.pc \in {"recheck", "compare"}
    BY <1>3, <1>a DEF ProcessSnapshot, ProcessRecheck, Calls
  <2> QED BY <2>1, <2>2 DEF WaitInv
<1>4. CASE ProcessRestart
  <2>1. call'.pc = "idle" /\ next_wait_ms' = Debounce
    BY <1>4, <1>b DEF ProcessRestart
  <2> QED BY <2>1, FiniteWaits DEF WaitInv
<1>5. CASE ProcessSettle
  <2>1. call'.pc = "idle" /\ ~owed' /\ ~media'.debouncing
    BY <1>5, <1>a, <1>b DEF ProcessSettle, Settle, WaitInv, Context
  <2> QED BY <2>1 DEF WaitInv
<1>6. CASE ReadFails
  <2>1. /\ call'.pc = "idle" /\ ~media'.debouncing
        /\ media'.state = "ERROR"
    BY <1>6, <1>a, <1>b DEF ReadFails, EnterError, Context
  <2> QED BY <2>1 DEF WaitInv
<1> QED BY <1>1, <1>2, <1>3, <1>4, <1>5, <1>6 DEF Process

LEMMA WaitPollNotify ==
  ASSUME TypeOK, WaitInv, Poll \/ Notify
  PROVE  WaitInv'
<1>1. /\ media'.debouncing = media.debouncing /\ media'.state = media.state
      /\ next_wait_ms' = next_wait_ms /\ owed' = owed
  BY DEF Poll, Notify, PollRead, PollStore, NotifyRead, NotifyStore, TypeOK,
     Context
<1>2. \/ call'.pc \in {"poll_store", "enter"}
      \/ /\ call.pc \in {"notify_read", "notify_store"}
         /\ call'.pc \in {"idle", "notify_store"}
  <2>1. CASE Poll
    BY <2>1 DEF Poll, PollRead, PollStore, TypeOK, Calls
  <2>2. CASE NotifyRead
    BY <2>2 DEF NotifyRead, TypeOK, Calls
  <2>3. CASE NotifyStore
    BY <2>3 DEF NotifyStore, NoCall
  <2> QED BY <2>1, <2>2, <2>3 DEF Notify
<1> QED BY <1>1, <1>2 DEF WaitInv

\* A caller that was told to wait forever has left no debounce and, outside
\* ERROR, no notification behind, wherever the tick wraps and however long
\* the call took, as long as half the range of the tick is more than one.
THEOREM WaitCorrect ==
  ASSUME HalfTick > 1
  PROVE  Spec => []WaitForeverMeansIdleOrError
<1>1. TypeOK /\ WaitInv /\ [Next]_vars => WaitInv'
  BY WaitEnvironment, WaitLifecycle, WaitCalls, WaitProcess, WaitPollNotify
  DEF Next
<1>2. WaitInv => WaitForeverMeansIdleOrError
  BY DEF WaitInv, WaitForeverMeansIdleOrError
<1> QED BY <1>1, <1>2, WaitInit, TypeCorrect, PTL DEF Spec
=============================================================================
