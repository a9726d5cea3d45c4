------------------------------ MODULE Observer ------------------------------
(***************************************************************************)
(* The Sentinel observer around a block device: the public wrappers of     *)
(* mtfs_block_device.c, the diagnostics they record and the timing of      *)
(* mtfs_sentinel_observer.c.  Tasks call the wrapped device while a        *)
(* console resets either set of counters or deinitializes the observer.    *)
(*                                                                         *)
(* Everything the tasks share is accessed under one lock, so a locked      *)
(* section is one step and steps of other tasks fall between the sections. *)
(* The lock may fail.  Where that, or a refusal, changes nothing (begin,   *)
(* reset, deinit, the two snapshots) it is no action.                      *)
(*                                                                         *)
(* "read" stands for the operations that are timed (read, write, sync),    *)
(* "trim" for those that are not (initialize, status, geometry, trim).     *)
(***************************************************************************)
EXTENDS Counters, FiniteSets

CONSTANTS
  Tasks,
  ActiveMax,    \* the last value of active_calls (2^32 - 1)
  MaxCalls,     \* bound: reads admitted
  MaxErrors,    \* bound: range errors
  MaxResets     \* bound: resets of each set of counters

ASSUME ObserverAssumption ==
  /\ IsFiniteSet(Tasks)
  /\ ActiveMax \in Nat
  /\ MaxCalls \in Nat /\ MaxErrors \in Nat /\ MaxResets \in Nat

VARIABLES
  active_calls,
  calls,        \* what each task is doing in the device
  lost          \* history: calls whose end could not take the lock

vars == <<counterVars, active_calls, calls, lost>>

Kinds == {"read", "trim"}
\* "failed": an error whose counter is not modelled.
Results == {"ok", "failed", "out_of_range_errors"}
ControlPoints == {"idle", "admitted", "downstream", "returned", "ending"}

\* epoch is history: the epoch of the timing when the call was admitted.
Call == [pc : ControlPoints, kind : Kinds, result : Results, epoch : Nat]
NoCall == [pc |-> "idle", kind |-> "read", result |-> "ok", epoch |-> 0]

Init ==
  /\ CountersInit
  /\ active_calls = 0
  /\ calls = [t \in Tasks |-> NoCall]
  /\ lost = 0

----------------------------------------------------------------------------
(* The pieces.                                                             *)

At(t, point) == calls[t].pc = point
InFlight == {t \in Tasks : ~At(t, "idle")}
Proceed(t, point) == calls' = [calls EXCEPT ![t].pc = point]
Finish(t, point, result) ==
  calls' = [calls EXCEPT ![t].pc = point, ![t].result = result]

OperationBegin ==
  /\ initialized /\ active_calls < ActiveMax
  /\ active_calls' = active_calls + 1

\* Mutant: a call that failed is left active.
OperationEndOfSuccess(result) ==
  active_calls' = IF active_calls = 0 \/ result # "ok" THEN active_calls
                  ELSE active_calls - 1

OperationEnd(result) ==
  active_calls' = IF active_calls = 0 THEN 0 ELSE active_calls - 1

----------------------------------------------------------------------------
(* A call of a task.                                                       *)

\* Mutant: the gate is not asked, the call is only counted.
AdmitAlways(t, kind) ==
  /\ At(t, "idle")
  /\ IF kind = "read" THEN ever.calls < MaxCalls /\ Count("calls")
     ELSE UNCHANGED <<diagnostics, ever>>
  /\ active_calls < ActiveMax /\ active_calls' = active_calls + 1
  /\ calls' = [calls EXCEPT ![t] = [pc |-> "admitted", kind |-> kind,
                 result |-> "ok", epoch |-> timing.reset_epoch]]
  /\ UNCHANGED <<initialized, timing, lost>>

\* record_begin: one locked section.
Admit(t, kind) ==
  /\ At(t, "idle")
  /\ OperationBegin
  /\ IF kind = "read" THEN ever.calls < MaxCalls /\ Count("calls")
     ELSE UNCHANGED <<diagnostics, ever>>
  /\ calls' = [calls EXCEPT ![t] = [pc |-> "admitted", kind |-> kind,
                 result |-> "ok", epoch |-> timing.reset_epoch]]
  /\ UNCHANGED <<initialized, timing, lost>>

\* check_range refuses: the operation below is not called.
OutOfRange(t) ==
  /\ At(t, "admitted") /\ ever.out_of_range_errors < MaxErrors
  /\ Finish(t, "ending", "out_of_range_errors")
  /\ UNCHANGED <<counterVars, active_calls, lost>>

EnterDownstream(t) ==
  /\ At(t, "admitted") /\ Proceed(t, "downstream")
  /\ UNCHANGED <<counterVars, active_calls, lost>>

LeaveDownstream(t) ==
  /\ At(t, "downstream")
  /\ \E result \in {"ok", "failed"} :
       Finish(t, IF calls[t].kind = "read" THEN "returned" ELSE "ending",
              result)
  /\ UNCHANGED <<counterVars, active_calls, lost>>

\* record_timing: the sample is counted, or dropped when the lock fails.
RecordTiming(t) ==
  /\ At(t, "returned") /\ Proceed(t, "ending")
  /\ CountSample \/ UNCHANGED timing
  /\ UNCHANGED <<initialized, diagnostics, ever, active_calls, lost>>

\* record_end: the result is counted and the call is no longer active.
RecordEnd(t) ==
  /\ At(t, "ending") /\ calls' = [calls EXCEPT ![t] = NoCall]
  /\ IF calls[t].result \in Counted THEN Count(calls[t].result)
     ELSE UNCHANGED <<diagnostics, ever>>
  /\ OperationEnd(calls[t].result)
  /\ UNCHANGED <<initialized, timing, lost>>

\* record_end cannot take the lock: the call stays active for ever.
RecordEndLost(t) ==
  /\ At(t, "ending") /\ calls' = [calls EXCEPT ![t] = NoCall]
  /\ lost' = lost + 1
  /\ UNCHANGED <<counterVars, active_calls>>

----------------------------------------------------------------------------
(* The console.                                                            *)

\* Calls may be active.
ResetDiagnostics ==
  /\ diagnostics.reset_epoch < MaxResets
  /\ ZeroTheDiagnostics
  /\ UNCHANGED <<initialized, timing, ever, active_calls, calls, lost>>

\* Mutant: the timing is reset under the calls that are active.
ResetObserverAnyTime ==
  /\ initialized /\ timing.reset_epoch < MaxResets
  /\ ZeroTheTiming
  /\ UNCHANGED <<initialized, diagnostics, ever, active_calls, calls, lost>>

ResetObserver ==
  /\ initialized /\ active_calls = 0
  /\ timing.reset_epoch < MaxResets
  /\ ZeroTheTiming
  /\ UNCHANGED <<initialized, diagnostics, ever, active_calls, calls, lost>>

\* Mutant: the observer goes away under the calls that are active.
DeinitAnyTime ==
  /\ initialized /\ initialized' = FALSE
  /\ UNCHANGED <<diagnostics, timing, ever, active_calls, calls, lost>>

Deinit ==
  /\ initialized /\ active_calls = 0
  /\ initialized' = FALSE
  /\ UNCHANGED <<diagnostics, timing, ever, active_calls, calls, lost>>

TaskStep(t) ==
  \/ \E kind \in Kinds : Admit(t, kind)
  \/ OutOfRange(t)
  \/ EnterDownstream(t)
  \/ LeaveDownstream(t)
  \/ RecordTiming(t)
  \/ RecordEnd(t)
  \/ RecordEndLost(t)

Next ==
  \/ \E t \in Tasks : TaskStep(t)
  \/ ResetDiagnostics
  \/ ResetObserver
  \/ Deinit

Spec == Init /\ [][Next]_vars

----------------------------------------------------------------------------
(* Properties.                                                             *)

TypeOK ==
  /\ CountersTypeOK
  /\ active_calls \in 0 .. ActiveMax
  /\ calls \in [Tasks -> Call]
  /\ lost \in Nat

\* No call is inside the device, or on its way in or out, once the observer
\* has been deinitialized: mtfs_sentinel_observer_deinit refuses while
\* active_calls counts one, and record_begin admits none afterwards.
NoCallOutlivesObserver == InFlight # {} => initialized

\* No call is in flight across a reset of the timing, which would put its
\* sample into an epoch it does not belong to.
NoCallStraddlesReset ==
  \A t \in InFlight : calls[t].epoch = timing.reset_epoch

\* The gate counts the calls in flight and, besides, only those whose end
\* could not take the lock: nothing else can make a deinit fail for ever.
ActiveAccounted == active_calls = Cardinality(InFlight) + lost

\* The counters are what a reader may rely on, up to the last call: none is
\* touched once the observer is closed.
CountersOnly == CountersSpec
=============================================================================
