------------------------------ MODULE Counters ------------------------------
(***************************************************************************)
(* What a reader of an observed block device's counters may rely on: two   *)
(* sets of counters that grow by one and saturate while the observer is    *)
(* initialized, and that are reset independently, each reset taking its    *)
(* epoch forward.  Observer implements it with concurrent calls; Sentinel  *)
(* is built on it.                                                         *)
(***************************************************************************)
EXTENDS Integers

CONSTANTS
  CounterMax,   \* where a counter of the diagnostics saturates (2^32 - 1)
  SampleMax     \* where a counter of the timing saturates (2^64 - 1)

ASSUME CountersAssumption == CounterMax \in Nat /\ SampleMax \in Nat

VARIABLES
  initialized,
  diagnostics,  \* block diagnostics: reset epoch and counters
  timing,       \* observer snapshot: reset epoch, flag and samples
  ever          \* history: what was recorded, never reset nor saturated

counterVars == <<initialized, diagnostics, timing, ever>>

\* calls stands for the counters whose saturation the Sentinel notices,
\* out_of_range_errors for those it does not look at.
Diagnostics == [reset_epoch : Nat, calls : 0 .. CounterMax,
                out_of_range_errors : 0 .. CounterMax]
ZeroDiagnostics(epoch) ==
  [reset_epoch |-> epoch, calls |-> 0, out_of_range_errors |-> 0]

\* samples are those with a latency and those without a valid one together.
Timing == [reset_epoch : Nat, saturated : BOOLEAN, samples : 0 .. SampleMax]
ZeroTiming(epoch) ==
  [reset_epoch |-> epoch, saturated |-> FALSE, samples |-> 0]

Ever == [calls : Nat, out_of_range_errors : Nat]
ZeroEver == [calls |-> 0, out_of_range_errors |-> 0]

Counted == {"calls", "out_of_range_errors"}

CountersInit ==
  /\ initialized = TRUE
  /\ diagnostics = ZeroDiagnostics(0)
  /\ timing = ZeroTiming(0)
  /\ ever = ZeroEver

----------------------------------------------------------------------------

Saturates(n) == n = CounterMax

Increment(n, max) == IF n = max THEN n ELSE n + 1

\* One call or one error is recorded.
Count(field) ==
  /\ diagnostics' = [diagnostics EXCEPT ![field] = Increment(@, CounterMax)]
  /\ ever' = [ever EXCEPT ![field] = @ + 1]

CountSample ==
  timing' = [timing EXCEPT !.samples = Increment(@, SampleMax),
                           !.saturated = @ \/ timing.samples = SampleMax]

ZeroTheDiagnostics ==
  diagnostics' = ZeroDiagnostics(diagnostics.reset_epoch + 1)
ZeroTheTiming == timing' = ZeroTiming(timing.reset_epoch + 1)

Record(field) ==
  initialized /\ Count(field) /\ UNCHANGED <<initialized, timing>>

RecordSample ==
  initialized /\ CountSample /\ UNCHANGED <<initialized, diagnostics, ever>>

\* The diagnostics can be reset at any time, the timing until the end.
Reset ==
  /\ \/ ZeroTheDiagnostics /\ UNCHANGED timing
     \/ initialized /\ ZeroTheTiming /\ UNCHANGED diagnostics
  /\ UNCHANGED <<initialized, ever>>

Close ==
  /\ initialized /\ initialized' = FALSE
  /\ UNCHANGED <<diagnostics, timing, ever>>

CountersNext ==
  (\E field \in Counted : Record(field)) \/ RecordSample \/ Reset \/ Close

CountersSpec == CountersInit /\ [][CountersNext]_counterVars

CountersTypeOK ==
  /\ initialized \in BOOLEAN
  /\ diagnostics \in Diagnostics
  /\ timing \in Timing
  /\ ever \in Ever
=============================================================================
