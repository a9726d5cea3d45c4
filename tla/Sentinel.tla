------------------------------ MODULE Sentinel ------------------------------
(***************************************************************************)
(* mtfs_sentinel.c over the counters: a sampler takes the media            *)
(* generation, the diagnostics and the timing one after the other, turns   *)
(* their growth since the last sample into a feature, and pushes it into a *)
(* window of features.  Calls, resets and the card go on between the three *)
(* snapshots.                                                              *)
(*                                                                         *)
(* The optional transport snapshot is absent and the configuration, with   *)
(* its target and transport ids, does not change.  Of the fields of a      *)
(* feature, those that a window is judged by are kept.                     *)
(***************************************************************************)
EXTENDS Counters

CONSTANTS
  Capacity,         \* features in a window
  MaxGeneration,    \* bound: the last media generation
  MaxCalls,         \* bound: reads recorded
  MaxRangeErrors,   \* bound: range errors recorded
  MaxResets         \* bound: resets of each set of counters

ASSUME SentinelAssumption ==
  /\ Capacity \in Nat \ {0} /\ MaxGeneration \in Nat
  /\ MaxCalls \in Nat /\ MaxRangeErrors \in Nat
  /\ MaxResets \in Nat

VARIABLES
  generation,   \* the media generation
  began,        \* history: ever.calls when each generation began
  sampler,      \* the sample in progress
  baseline,     \* the previous snapshots
  window        \* the ring of features

vars == <<counterVars, generation, began, sampler, baseline, window>>

Generations == 0 .. MaxGeneration
Flags == {"insufficient", "discontinuity"}
Valid == {"interval", "counters", "timing"}
Slots == 0 .. Capacity - 1

\* from and to are history: what had been recorded at both ends of the deltas.
Feature ==
  [flags : SUBSET Flags, valid : SUBSET Valid, generation : Generations,
   calls : Nat, out_of_range_errors : Nat,
   from : Ever, to : Ever]

NoFeature ==
  [flags |-> {"insufficient"}, valid |-> {}, generation |-> 0,
   calls |-> 0, out_of_range_errors |-> 0,
   from |-> ZeroEver, to |-> ZeroEver]

\* What the sampler knows of one moment.
Snapshots ==
  [diagnostics : Diagnostics, timing : Timing, generation : Generations,
   ever : Ever]

NoSnapshots ==
  [diagnostics |-> ZeroDiagnostics(0), timing |-> ZeroTiming(0),
   generation |-> 0, ever |-> ZeroEver]

\* What stays in an invalid baseline or in the storage of an empty window is
\* not read again.
NoBaseline == [valid |-> FALSE, previous |-> NoSnapshots]
EmptyWindow ==
  [storage |-> [i \in Slots |-> NoFeature], next |-> 0, count |-> 0]

Init ==
  /\ CountersInit
  /\ generation = 0
  /\ began = [g \in Generations |-> 0]
  /\ sampler = [pc |-> "idle", now |-> NoSnapshots]
  /\ baseline = NoBaseline
  /\ window = EmptyWindow

----------------------------------------------------------------------------
(* From two snapshots to a feature.                                        *)

DiagnosticsSaturated(d) == Saturates(d.calls)

\* Mutant: a reset of the diagnostics between two samples goes unnoticed.
DiscontinuityIgnoresReset(p, n, clock) ==
  \/ n.timing.reset_epoch # p.timing.reset_epoch
  \/ n.generation # p.generation
  \/ DiagnosticsSaturated(n.diagnostics)
  \/ n.timing.saturated
  \/ clock = "back"

\* Mutant: a change of the media goes unnoticed.
DiscontinuityIgnoresMedia(p, n, clock) ==
  \/ n.diagnostics.reset_epoch # p.diagnostics.reset_epoch
  \/ n.timing.reset_epoch # p.timing.reset_epoch
  \/ DiagnosticsSaturated(n.diagnostics)
  \/ n.timing.saturated
  \/ clock = "back"

Discontinuity(p, n, clock) ==
  \/ n.diagnostics.reset_epoch # p.diagnostics.reset_epoch
  \/ n.timing.reset_epoch # p.timing.reset_epoch
  \/ n.generation # p.generation
  \/ DiagnosticsSaturated(n.diagnostics)
  \/ n.timing.saturated
  \/ clock = "back"

CountersGrow(p, n) ==
  /\ n.calls >= p.calls
  /\ n.out_of_range_errors >= p.out_of_range_errors

TimingGrows(p, n) == n.samples >= p.samples

\* The feature of a sample without deltas.
Empty(n, flags, valid) ==
  [NoFeature EXCEPT !.flags = flags, !.valid = valid,
                    !.generation = n.generation]

\* The feature of a sample with deltas; a timing that does not grow breaks
\* the continuity.
Deltas(p, n, valid) ==
  LET timed == TimingGrows(p.timing, n.timing)
  IN [flags |-> IF timed THEN {} ELSE Flags,
      valid |-> valid \cup {"counters"} \cup (IF timed THEN {"timing"} ELSE {}),
      generation |-> n.generation,
      calls |-> n.diagnostics.calls - p.diagnostics.calls,
      out_of_range_errors |->
        n.diagnostics.out_of_range_errors - p.diagnostics.out_of_range_errors,
      from |-> p.ever, to |-> n.ever]

\* mtfs_sentinel_sample after its snapshots: p is the baseline, n is now.
FeatureOf(p, n, clock) ==
  LET interval == IF clock = "ok" THEN {"interval"} ELSE {}
      broken == \/ Discontinuity(p, n, clock)
                \/ ~CountersGrow(p.diagnostics, n.diagnostics)
  IN CASE ~baseline.valid -> Empty(n, {"insufficient"}, {})
       [] baseline.valid /\ broken -> Empty(n, Flags, interval)
       [] OTHER -> Deltas(p, n, interval)

----------------------------------------------------------------------------
(* The window.                                                             *)

\* Mutant: the index is not taken back to the start of the storage.
NextSlotUnwrapped(i) == i + 1

NextSlot(i) == (i + 1) % Capacity

Push(w, feature) ==
  LET kept == IF "discontinuity" \in feature.flags THEN EmptyWindow ELSE w
  IN [storage |-> [kept.storage EXCEPT ![kept.next] = feature],
      next |-> NextSlot(kept.next),
      count |-> IF kept.count < Capacity THEN kept.count + 1 ELSE Capacity]

\* The n-th oldest feature of the window, from 0.
Nth(w, n) ==
  w.storage[(w.next + Capacity - w.count + n) % Capacity]

Held(w) == {Nth(w, n) : n \in 0 .. w.count - 1}

\* mtfs_sentinel_window_get does not flag the window as insufficient.
Sufficient(w) ==
  /\ w.count = Capacity
  /\ \A f \in Held(w) : /\ f.flags = {}
                        /\ f.valid = Valid

\* What it adds up of a counter, from the oldest feature on.
Total(w, field) ==
  LET sum[n \in 0 .. w.count] ==
        IF n = 0 THEN 0 ELSE sum[n - 1] + Nth(w, n - 1)[field]
  IN sum[w.count]

\* What was recorded of that counter while the window was observed.
Recorded(w, field) == Nth(w, w.count - 1).to[field] - Nth(w, 0).from[field]

----------------------------------------------------------------------------
(* The sampler: its application collects the metadata, samples and pushes. *)

CollectMetadata ==
  /\ sampler.pc = "idle"
  /\ sampler' = [pc |-> "diagnostics",
                 now |-> [NoSnapshots EXCEPT !.generation = generation]]
  /\ UNCHANGED <<counterVars, generation, began, baseline, window>>

GetDiagnostics ==
  /\ sampler.pc = "diagnostics" /\ initialized
  /\ sampler' = [pc |-> "timing",
                 now |-> [sampler.now EXCEPT !.diagnostics = diagnostics,
                                             !.ever = ever]]
  /\ UNCHANGED <<counterVars, generation, began, baseline, window>>

\* NOT_READY: a snapshot cannot take the lock or finds no observer.
SampleFails ==
  /\ sampler.pc \in {"diagnostics", "timing"}
  /\ sampler' = [pc |-> "idle", now |-> NoSnapshots]
  /\ UNCHANGED <<counterVars, generation, began, baseline, window>>

\* The observer's snapshot, and with it the rest of mtfs_sentinel_sample and
\* the push, which touch nothing that is shared.
TakeSample(clock) ==
  LET now == [sampler.now EXCEPT !.timing = timing]
  IN /\ sampler.pc = "timing" /\ initialized
     /\ window' = Push(window, FeatureOf(baseline.previous, now, clock))
     /\ baseline' = IF clock = "fail" THEN NoBaseline
                    ELSE [valid |-> TRUE, previous |-> now]
     /\ sampler' = [pc |-> "idle", now |-> NoSnapshots]
     /\ UNCHANGED <<counterVars, generation, began>>

SentinelReset ==
  /\ sampler.pc = "idle" /\ baseline.valid
  /\ baseline' = NoBaseline
  /\ UNCHANGED <<counterVars, generation, began, sampler, window>>

WindowReset ==
  /\ sampler.pc = "idle" /\ window.count # 0
  /\ window' = EmptyWindow
  /\ UNCHANGED <<counterVars, generation, began, sampler, baseline>>

\* The card is replaced: another media generation, while calls go on.
MediaChange ==
  /\ generation < MaxGeneration
  /\ generation' = generation + 1
  /\ began' = [began EXCEPT ![generation + 1] = ever.calls]
  /\ UNCHANGED <<counterVars, sampler, baseline, window>>

\* The observed device goes on, within the bounds.
Observe ==
  /\ CountersNext
  /\ ever'.calls <= MaxCalls
  /\ ever'.out_of_range_errors <= MaxRangeErrors
  /\ diagnostics'.reset_epoch <= MaxResets
  /\ timing'.reset_epoch <= MaxResets
  /\ UNCHANGED <<generation, began, sampler, baseline, window>>

Next ==
  \/ Observe
  \/ MediaChange
  \/ CollectMetadata
  \/ GetDiagnostics
  \/ SampleFails
  \/ \E clock \in {"ok", "back", "fail"} : TakeSample(clock)
  \/ SentinelReset
  \/ WindowReset

Spec == Init /\ [][Next]_vars

----------------------------------------------------------------------------
(* Properties.                                                             *)

TypeOK ==
  /\ CountersTypeOK
  /\ generation \in Generations
  /\ began \in [Generations -> Nat]
  /\ sampler \in [pc : {"idle", "diagnostics", "timing"}, now : Snapshots]
  /\ baseline \in [valid : BOOLEAN, previous : Snapshots]
  /\ window.storage \in [Slots -> Feature]
  /\ window.next \in Slots /\ window.count \in 0 .. Capacity

\* A window that is not flagged as insufficient adds up to exactly the calls
\* recorded while it was observed: none is lost to a reset, a saturated
\* counter, a failed sample or the wrapping of the ring.
WindowCountsCalls ==
  Sufficient(window) => Total(window, "calls") = Recorded(window, "calls")

\* The same of the errors whose counters diagnostics_saturated leaves out.
\* docs/storage-sentinel.md:87 says that a saturated counter makes a window
\* discontinuous or invalid.
WindowCountsRangeErrors ==
  Sufficient(window) =>
    Total(window, "out_of_range_errors")
      = Recorded(window, "out_of_range_errors")

\* The reads of a sufficient window are reads of one media generation, those
\* of the newest feature excepted: the card may change after its metadata
\* was collected and before the counters were read.
WindowNamesSession ==
  Sufficient(window) =>
    \A n \in 0 .. window.count - 2 :
      LET f == Nth(window, n)
      IN /\ began[f.generation] <= f.from.calls
         /\ f.generation < generation => f.to.calls <= began[f.generation + 1]
=============================================================================
