----------------------------- MODULE MCObserver -----------------------------
(***************************************************************************)
(* Observer with two tasks, counters that saturate at 2 and room for one   *)
(* call more than there are tasks.                                         *)
(***************************************************************************)
EXTENDS Observer, TLC

Symmetry == Permutations(Tasks)
=============================================================================
