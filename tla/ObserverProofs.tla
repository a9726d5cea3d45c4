--------------------------- MODULE ObserverProofs ---------------------------
(***************************************************************************)
(* Proofs about Observer for every finite set of tasks and every width of  *)
(* the counters.  The gate is the key: as long as active_calls covers the  *)
(* calls in flight, neither a deinit nor a reset of the timing can pass    *)
(* one, and so every step is a step of Counters.                           *)
(***************************************************************************)
EXTENDS Observer, FiniteSetTheorems, TLAPS

IInv ==
  /\ TypeOK
  /\ ActiveAccounted
  /\ NoCallOutlivesObserver
  /\ NoCallStraddlesReset

----------------------------------------------------------------------------
(* Lemmas about the pieces.                                                *)

\* A saturating counter stays in its range.
LEMMA IncrementType ==
  ASSUME NEW max \in Nat, NEW n \in 0 .. max
  PROVE  Increment(n, max) \in 0 .. max
  BY DEF Increment

\* Counting keeps the types.
LEMMA CountType ==
  ASSUME CountersTypeOK, NEW field \in Counted, Count(field)
  PROVE  diagnostics' \in Diagnostics /\ ever' \in Ever
<1>1. diagnostics[field] \in 0 .. CounterMax /\ ever[field] \in Nat
  BY DEF CountersTypeOK, Counted, Diagnostics, Ever
<1>2. Increment(diagnostics[field], CounterMax) \in 0 .. CounterMax
  BY <1>1, CountersAssumption, IncrementType
<1>3. diagnostics' \in Diagnostics
  BY <1>2 DEF Count, CountersTypeOK, Counted, Diagnostics
<1>4. ever' \in Ever
  BY <1>1 DEF Count, CountersTypeOK, Counted, Ever
<1> QED BY <1>3, <1>4

LEMMA SampleType ==
  ASSUME CountersTypeOK, CountSample
  PROVE  timing' \in Timing
<1>1. timing.samples \in 0 .. SampleMax
  BY DEF CountersTypeOK, Timing
<1>2. Increment(timing.samples, SampleMax) \in 0 .. SampleMax
  BY <1>1, CountersAssumption, IncrementType
<1> QED BY <1>2 DEF CountSample, CountersTypeOK, Timing

\* Resetting keeps the types.
LEMMA ZeroTypes ==
  ASSUME NEW epoch \in Nat
  PROVE  ZeroDiagnostics(epoch) \in Diagnostics /\ ZeroTiming(epoch) \in Timing
  BY CountersAssumption
  DEF ZeroDiagnostics, ZeroTiming, Diagnostics, Timing

LEMMA InFlightFinite ==
  /\ IsFiniteSet(InFlight) /\ Cardinality(InFlight) \in Nat
  /\ Cardinality(InFlight) = 0 <=> InFlight = {}
<1>1. IsFiniteSet(InFlight)
  BY ObserverAssumption, FS_Subset DEF InFlight
<1> QED BY <1>1, FS_CardinalityType, FS_EmptySet

\* A gate at zero has no call in flight.
LEMMA GateClosed ==
  ASSUME IInv, active_calls = 0
  PROVE  InFlight = {}
  BY InFlightFinite DEF IInv, TypeOK, ActiveAccounted

\* A call that is admitted adds itself to those in flight.
LEMMA Enters ==
  ASSUME TypeOK, NEW t \in Tasks, At(t, "idle"), NEW call \in Call,
         call.pc # "idle", calls' = [calls EXCEPT ![t] = call]
  PROVE  /\ InFlight' = InFlight \cup {t}
         /\ Cardinality(InFlight') = Cardinality(InFlight) + 1
<1>1. InFlight' = InFlight \cup {t}
  BY DEF InFlight, At, TypeOK
<1>2. t \notin InFlight
  BY DEF InFlight
<1> QED BY <1>1, <1>2, InFlightFinite, FS_AddElement

\* A call that ends removes itself.
LEMMA Leaves ==
  ASSUME TypeOK, NEW t \in Tasks, At(t, "ending"),
         calls' = [calls EXCEPT ![t] = NoCall]
  PROVE  /\ InFlight' = InFlight \ {t}
         /\ t \in InFlight
         /\ Cardinality(InFlight') = Cardinality(InFlight) - 1
<1>1. InFlight' = InFlight \ {t}
  BY DEF InFlight, At, TypeOK, NoCall
<1>2. t \in InFlight
  BY DEF InFlight, At
<1> QED BY <1>1, <1>2, InFlightFinite, FS_RemoveElement

\* A call that goes on inside the device changes neither.
LEMMA Stays ==
  ASSUME IInv, NEW t \in Tasks, ~At(t, "idle"),
         NEW point \in ControlPoints \ {"idle"}, NEW result \in Results,
         Proceed(t, point) \/ Finish(t, point, result),
         timing'.reset_epoch = timing.reset_epoch,
         UNCHANGED <<initialized, active_calls, lost>>
  PROVE  /\ calls' \in [Tasks -> Call]
         /\ ActiveAccounted' /\ NoCallOutlivesObserver' /\ NoCallStraddlesReset'
<1>1. calls' \in [Tasks -> Call]
  BY DEF IInv, TypeOK, Call, Proceed, Finish
<1>2. InFlight' = InFlight
  <2>1. \A u \in Tasks : calls'[u].pc = "idle" <=> calls[u].pc = "idle"
    BY DEF At, IInv, TypeOK, Call, Proceed, Finish
  <2> QED BY <2>1 DEF InFlight, At
<1>3. \A u \in Tasks : calls'[u].epoch = calls[u].epoch
  BY DEF IInv, TypeOK, Call, Proceed, Finish
<1>4. ActiveAccounted' /\ NoCallOutlivesObserver'
  BY <1>2 DEF IInv, ActiveAccounted, NoCallOutlivesObserver
<1>5. NoCallStraddlesReset'
  <2>1. InFlight \subseteq Tasks
    BY DEF InFlight
  <2> QED BY <1>2, <1>3, <2>1 DEF IInv, NoCallStraddlesReset
<1> QED BY <1>1, <1>4, <1>5

----------------------------------------------------------------------------
(* The invariant.                                                          *)

LEMMA InitInv == Init => IInv
<1> SUFFICES ASSUME Init PROVE IInv
  OBVIOUS
<1>1. TypeOK
  <2>1. CountersTypeOK
    BY ZeroTypes DEF Init, CountersInit, CountersTypeOK, Ever, ZeroEver
  <2>2. NoCall \in Call
    BY DEF NoCall, Call, ControlPoints, Kinds, Results
  <2> QED BY <2>1, <2>2, ObserverAssumption DEF Init, TypeOK
<1>2. InFlight = {}
  BY DEF Init, InFlight, At, NoCall
<1>3. Cardinality(InFlight) = 0
  BY <1>2, FS_EmptySet
<1>4. ActiveAccounted /\ NoCallOutlivesObserver /\ NoCallStraddlesReset
  BY <1>2, <1>3
  DEF Init, ActiveAccounted, NoCallOutlivesObserver, NoCallStraddlesReset
<1> QED BY <1>1, <1>4 DEF IInv

\* Admission counts the call and binds it to the epoch.
LEMMA AdmitInv ==
  ASSUME IInv, NEW t \in Tasks, NEW kind \in Kinds, Admit(t, kind)
  PROVE  IInv'
<1> DEFINE call == [pc |-> "admitted", kind |-> kind, result |-> "ok",
                    epoch |-> timing.reset_epoch]
<1>1. call \in Call
  BY DEF IInv, TypeOK, CountersTypeOK, Timing, Call, ControlPoints, Results
<1>2. calls' = [calls EXCEPT ![t] = call] /\ At(t, "idle") /\ call.pc # "idle"
  BY DEF Admit
<1> HIDE DEF call
<1>3. InFlight' = InFlight \cup {t}
      /\ Cardinality(InFlight') = Cardinality(InFlight) + 1
  BY <1>1, <1>2, Enters DEF IInv
<1>4. TypeOK'
  <2>1. CountersTypeOK'
    <3>1. CASE kind = "read"
      <4>1. Count("calls") /\ "calls" \in Counted
        BY <3>1 DEF Admit, Counted
      <4> QED BY <4>1, CountType DEF IInv, TypeOK, CountersTypeOK, Admit
    <3>2. CASE kind # "read"
      BY <3>2 DEF IInv, TypeOK, CountersTypeOK, Admit
    <3> QED BY <3>1, <3>2
  <2>2. active_calls' \in 0 .. ActiveMax
    BY ObserverAssumption DEF IInv, TypeOK, Admit, OperationBegin
  <2>3. calls' \in [Tasks -> Call]
    BY <1>1, <1>2 DEF IInv, TypeOK
  <2> QED BY <2>1, <2>2, <2>3 DEF IInv, TypeOK, Admit
<1>5. ActiveAccounted'
  BY <1>3, InFlightFinite
  DEF IInv, TypeOK, ActiveAccounted, Admit, OperationBegin
<1>6. NoCallOutlivesObserver'
  BY DEF NoCallOutlivesObserver, Admit, OperationBegin
<1>7. NoCallStraddlesReset'
  <2> SUFFICES ASSUME NEW u \in InFlight'
               PROVE  calls'[u].epoch = timing'.reset_epoch
    BY DEF NoCallStraddlesReset
  <2>1. timing' = timing /\ u \in Tasks
    BY DEF Admit, InFlight
  <2>2. CASE u = t
    BY <1>2, <2>1, <2>2 DEF call, IInv, TypeOK
  <2>3. CASE u # t
    BY <1>2, <1>3, <2>1, <2>3 DEF IInv, TypeOK, NoCallStraddlesReset
  <2> QED BY <2>2, <2>3
<1> QED BY <1>4, <1>5, <1>6, <1>7 DEF IInv

\* The steps between the locked sections, and the timing.
LEMMA InsideInv ==
  ASSUME IInv, NEW t \in Tasks,
         OutOfRange(t) \/ EnterDownstream(t) \/ LeaveDownstream(t)
           \/ RecordTiming(t)
  PROVE  IInv'
<1>1. ~At(t, "idle")
  BY DEF OutOfRange, EnterDownstream, LeaveDownstream, RecordTiming, At
<1>2. \E point \in ControlPoints \ {"idle"}, result \in Results :
        Proceed(t, point) \/ Finish(t, point, result)
  BY DEF OutOfRange, EnterDownstream, LeaveDownstream, RecordTiming,
         ControlPoints, Results
<1>3. timing' \in Timing /\ timing'.reset_epoch = timing.reset_epoch
  <2>1. CASE RecordTiming(t) /\ CountSample
    <3>1. timing' \in Timing
      BY <2>1, SampleType DEF IInv, TypeOK
    <3> QED BY <2>1, <3>1 DEF CountSample, IInv, TypeOK, CountersTypeOK, Timing
  <2>2. CASE UNCHANGED timing
    BY <2>2 DEF IInv, TypeOK, CountersTypeOK
  <2> QED BY <2>1, <2>2
      DEF OutOfRange, EnterDownstream, LeaveDownstream, RecordTiming, counterVars
<1>4. UNCHANGED <<initialized, diagnostics, ever, active_calls, lost>>
  BY DEF OutOfRange, EnterDownstream, LeaveDownstream, RecordTiming, counterVars
<1>5. /\ calls' \in [Tasks -> Call]
      /\ ActiveAccounted' /\ NoCallOutlivesObserver' /\ NoCallStraddlesReset'
  <2>1. PICK point \in ControlPoints \ {"idle"}, result \in Results :
          Proceed(t, point) \/ Finish(t, point, result)
    BY <1>2
  <2> QED BY <1>1, <1>3, <1>4, <2>1, Stays
<1>6. TypeOK'
  BY <1>3, <1>4, <1>5 DEF IInv, TypeOK, CountersTypeOK
<1> QED BY <1>5, <1>6 DEF IInv

\* The end of a call takes it out of the gate, or into what is lost.
LEMMA EndInv ==
  ASSUME IInv, NEW t \in Tasks, RecordEnd(t) \/ RecordEndLost(t)
  PROVE  IInv'
<1>1. At(t, "ending") /\ calls' = [calls EXCEPT ![t] = NoCall]
  BY DEF RecordEnd, RecordEndLost
<1>2. /\ InFlight' = InFlight \ {t} /\ t \in InFlight
      /\ Cardinality(InFlight') = Cardinality(InFlight) - 1
  BY <1>1, Leaves DEF IInv
<1>3. Cardinality(InFlight) \in Nat \ {0}
  BY <1>2, InFlightFinite
<1>4. UNCHANGED <<initialized, timing>>
  BY DEF RecordEnd, RecordEndLost, counterVars
<1>5. CountersTypeOK'
  <2>1. CASE calls[t].result \in Counted /\ RecordEnd(t)
    <3>1. Count(calls[t].result)
      BY <2>1 DEF RecordEnd
    <3>2. diagnostics' \in Diagnostics /\ ever' \in Ever
      BY <2>1, <3>1, CountType DEF IInv, TypeOK
    <3> QED BY <1>4, <3>2 DEF IInv, TypeOK, CountersTypeOK
  <2>2. CASE ~(calls[t].result \in Counted /\ RecordEnd(t))
    BY <1>4, <2>2
    DEF IInv, TypeOK, CountersTypeOK, RecordEnd, RecordEndLost, counterVars
  <2> QED BY <2>1, <2>2
<1>6. TypeOK' /\ ActiveAccounted'
  <2>1. calls' \in [Tasks -> Call]
    BY <1>1 DEF IInv, TypeOK, NoCall, Call, ControlPoints, Kinds, Results
  <2>2. CASE RecordEnd(t)
    <3>1. active_calls' = active_calls - 1 /\ active_calls # 0 /\ lost' = lost
      BY <1>3, <2>2
      DEF IInv, TypeOK, ActiveAccounted, RecordEnd, OperationEnd
    <3> QED BY <1>2, <1>3, <1>5, <2>1, <3>1, ObserverAssumption
        DEF IInv, TypeOK, ActiveAccounted
  <2>3. CASE RecordEndLost(t)
    BY <1>2, <1>3, <1>5, <2>1, <2>3
    DEF IInv, TypeOK, ActiveAccounted, RecordEndLost
  <2> QED BY <2>2, <2>3
<1>7. NoCallOutlivesObserver'
  BY <1>2, <1>4 DEF IInv, NoCallOutlivesObserver
<1>8. NoCallStraddlesReset'
  <2> SUFFICES ASSUME NEW u \in InFlight'
               PROVE  calls'[u].epoch = timing'.reset_epoch
    BY DEF NoCallStraddlesReset
  <2>1. u \in InFlight /\ u # t /\ u \in Tasks
    BY <1>2 DEF InFlight
  <2>2. calls'[u] = calls[u]
    BY <1>1, <2>1 DEF IInv, TypeOK
  <2> QED BY <1>4, <2>1, <2>2 DEF IInv, NoCallStraddlesReset
<1> QED BY <1>6, <1>7, <1>8 DEF IInv

\* The console.
LEMMA ConsoleInv ==
  ASSUME IInv, ResetDiagnostics \/ ResetObserver \/ Deinit
  PROVE  IInv'
<1>1. UNCHANGED <<active_calls, calls, lost, ever>>
  BY DEF ResetDiagnostics, ResetObserver, Deinit
<1>2. InFlight' = InFlight
  BY <1>1 DEF InFlight, At
<1>3. CountersTypeOK'
  <2>1. diagnostics.reset_epoch + 1 \in Nat /\ timing.reset_epoch + 1 \in Nat
    BY DEF IInv, TypeOK, CountersTypeOK, Diagnostics, Timing
  <2> QED BY <1>1, <2>1, ZeroTypes
      DEF IInv, TypeOK, CountersTypeOK, ResetDiagnostics, ResetObserver, Deinit,
          ZeroTheDiagnostics, ZeroTheTiming
<1>4. TypeOK' /\ ActiveAccounted'
  BY <1>1, <1>2, <1>3 DEF IInv, TypeOK, ActiveAccounted
<1>5. NoCallOutlivesObserver' /\ NoCallStraddlesReset'
  <2>1. CASE ResetDiagnostics
    BY <1>1, <1>2, <2>1
    DEF IInv, NoCallOutlivesObserver, NoCallStraddlesReset, ResetDiagnostics
  <2>2. CASE ResetObserver \/ Deinit
    <3>1. InFlight = {}
      BY <2>2, GateClosed DEF ResetObserver, Deinit
    <3> QED BY <1>2, <3>1 DEF NoCallOutlivesObserver, NoCallStraddlesReset
  <2> QED BY <2>1, <2>2
<1> QED BY <1>4, <1>5 DEF IInv

LEMMA NextInv == IInv /\ [Next]_vars => IInv'
<1> SUFFICES ASSUME IInv, [Next]_vars PROVE IInv'
  OBVIOUS
<1>1. CASE \E t \in Tasks : TaskStep(t)
  BY <1>1, AdmitInv, InsideInv, EndInv DEF TaskStep
<1>2. CASE ResetDiagnostics \/ ResetObserver \/ Deinit
  BY <1>2, ConsoleInv
<1>3. CASE UNCHANGED vars
  BY <1>3
  DEF IInv, TypeOK, CountersTypeOK, ActiveAccounted, NoCallOutlivesObserver,
      NoCallStraddlesReset, InFlight, At, vars, counterVars
<1> QED BY <1>1, <1>2, <1>3 DEF Next

LEMMA Invariance == Spec => []IInv
  BY InitInv, NextInv, PTL DEF Spec

----------------------------------------------------------------------------
(* The theorems.                                                           *)

\* Every counter stays in its width and active_calls in its own, whatever the
\* order of the calls, their failures and the console.
THEOREM TypeCorrect == Spec => []TypeOK
  BY Invariance, PTL DEF IInv

\* mtfs_sentinel_observer_deinit never succeeds under a call, and none is
\* admitted afterwards.
THEOREM DeinitCorrect == Spec => []NoCallOutlivesObserver
  BY Invariance, PTL DEF IInv

\* mtfs_sentinel_observer_reset never succeeds under a call, so a timing
\* sample belongs to the epoch in which its call began.
THEOREM ResetCorrect == Spec => []NoCallStraddlesReset
  BY Invariance, PTL DEF IInv

\* active_calls exceeds the calls in flight by the ends that were lost.
THEOREM GateCorrect == Spec => []ActiveAccounted
  BY Invariance, PTL DEF IInv

\* Every step of the calls and of the console is a step of Counters or leaves
\* the counters alone.
LEMMA StepCounts == IInv /\ [Next]_vars => [CountersNext]_counterVars
<1> SUFFICES ASSUME IInv, [Next]_vars PROVE [CountersNext]_counterVars
  OBVIOUS
<1>1. \A t \in Tasks : ~At(t, "idle") => initialized
  BY DEF IInv, NoCallOutlivesObserver, InFlight
<1>2. ASSUME NEW t \in Tasks, NEW kind \in Kinds, Admit(t, kind)
      PROVE  [CountersNext]_counterVars
  <2>1. CASE kind = "read"
    BY <1>2, <2>1
    DEF Admit, OperationBegin, CountersNext, Record, Counted
  <2>2. CASE kind # "read"
    BY <1>2, <2>2 DEF Admit, counterVars
  <2> QED BY <2>1, <2>2
<1>3. ASSUME NEW t \in Tasks,
             OutOfRange(t) \/ EnterDownstream(t) \/ LeaveDownstream(t)
               \/ RecordEndLost(t)
      PROVE  [CountersNext]_counterVars
  BY <1>3 DEF OutOfRange, EnterDownstream, LeaveDownstream, RecordEndLost
<1>4. ASSUME NEW t \in Tasks, RecordTiming(t)
      PROVE  [CountersNext]_counterVars
  <2>1. initialized
    BY <1>1, <1>4 DEF RecordTiming, At
  <2> QED BY <1>4, <2>1 DEF RecordTiming, CountersNext, RecordSample, counterVars
<1>5. ASSUME NEW t \in Tasks, RecordEnd(t)
      PROVE  [CountersNext]_counterVars
  <2>1. initialized
    BY <1>1, <1>5 DEF RecordEnd, At
  <2>2. CASE calls[t].result \in Counted
    BY <1>5, <2>1, <2>2 DEF RecordEnd, CountersNext, Record
  <2>3. CASE calls[t].result \notin Counted
    BY <1>5, <2>3 DEF RecordEnd, counterVars
  <2> QED BY <2>2, <2>3
<1>6. ASSUME ResetDiagnostics \/ ResetObserver \/ Deinit
      PROVE  [CountersNext]_counterVars
  BY <1>6 DEF ResetDiagnostics, ResetObserver, Deinit, CountersNext, Reset, Close
<1>7. CASE UNCHANGED vars
  BY <1>7 DEF vars
<1> QED BY <1>2, <1>3, <1>4, <1>5, <1>6, <1>7 DEF Next, TaskStep

\* The observer implements what a reader of its counters relies on.
THEOREM CountersCorrect == Spec => CountersOnly
<1>1. Init => CountersInit
  BY DEF Init
<1> QED BY <1>1, Invariance, StepCounts, PTL
    DEF Spec, CountersOnly, CountersSpec
=============================================================================
