------------------------------ MODULE Baseline ------------------------------
(***************************************************************************)
(* mtfs_sentinel_baseline.c: what the monitor learns in its first windows. *)
(* The samples and their medians are abstracted to what is known of the    *)
(* windows they were taken from (Counted) and whether a discontinuity was  *)
(* reported since.                                                         *)
(***************************************************************************)
EXTENDS Naturals

CONSTANT WarmupWindows       \* policy.warmup_windows

ASSUME WarmupWindowsAssumption == WarmupWindows \in Nat \ {0}

\* What is known of calls that were counted together: the generation of the
\* first one (0: no call), the error that decides, and whether faults were
\* injected into them; "late" if that was in a window before, whose sample
\* failed.
NothingCounted == [first |-> 0, error |-> "none", injected |-> "no"]

Earlier(g, h) == IF g = 0 \/ (h # 0 /\ h < g) THEN h ELSE g
Worse(d, e) == IF e = "none" \/ d = "UNAVAILABLE" THEN d ELSE e
Injected(i, j) == IF i = "no" \/ j = "yes" THEN j ELSE i
CountedBoth(c, d) ==
  [first |-> Earlier(c.first, d.first), error |-> Worse(c.error, d.error),
   injected |-> Injected(c.injected, d.injected)]

BaselineInit == [state |-> "UNINITIALIZED", generation |-> 0, count |-> 0,
                 counted |-> NothingCounted]
BaselineStart(generation) ==
  [state |-> "WARMUP", generation |-> generation, count |-> 0,
   counted |-> NothingCounted]
BaselineInvalidate(b) ==
  [b EXCEPT !.state = "INVALID", !.count = 0, !.counted = NothingCounted]

\* Mutant: injection is not looked at.
BaselineObserveInjected(b, w, injection_active) ==
  IF w.generation # b.generation THEN BaselineInvalidate(b)
  ELSE IF b.state = "READY" THEN b
  ELSE [b EXCEPT !.count = @ + 1, !.counted = CountedBoth(@, w.counted),
                 !.state = IF b.count + 1 = WarmupWindows
                           THEN "READY" ELSE "WARMUP"]

\* mtfs_sentinel_baseline_observe of an eligible window.
BaselineObserve(b, w, injection_active) ==
  IF w.generation # b.generation THEN BaselineInvalidate(b)
  ELSE IF b.state = "READY" \/ injection_active THEN b
  ELSE [b EXCEPT !.count = @ + 1, !.counted = CountedBoth(@, w.counted),
                 !.state = IF b.count + 1 = WarmupWindows
                           THEN "READY" ELSE "WARMUP"]
=============================================================================
