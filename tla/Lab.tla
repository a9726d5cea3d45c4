-------------------------------- MODULE Lab --------------------------------
(***************************************************************************)
(* What the parts of the Sentinel lab application share: the removable     *)
(* media as mtfs_media_state and the media diagnostics give it (Media says *)
(* how the state machine works inside), and the provider call of the       *)
(* monitor in progress.  A session is the time between two settled changes *)
(* of Card Detect: each of them is a new generation.                       *)
(***************************************************************************)
EXTENDS Integers

CONSTANT MaxGeneration     \* bound: settled changes of Card Detect

ASSUME MaxGenerationAssumption == MaxGeneration \in Nat \ {0}

VARIABLES
  media,       \* state, media_generation and stable_present of mtfs_media
  provider     \* the provider call in progress, or its result

\* UNSETTLED: DEBOUNCE, UNKNOWN and ERROR, which the application does not
\* tell apart.
MediaStates == {"PRESENT", "ABSENT", "UNSETTLED"}
Generations == 1 .. MaxGeneration

\* The calls of mtfs_sentinel_monitor_provider_ops_t that reach the session.
Calls == {"open", "npu", "cpu", "close"}
Replies == {"ok", "fail"}

LabTypeOK ==
  /\ media \in [state : MediaStates, generation : Generations,
                stable : BOOLEAN]
  /\ provider \in {"none"} \cup Calls \cup Replies

LabInit ==
  /\ media = [state |-> "PRESENT", generation |-> 1, stable |-> TRUE]
  /\ provider = "none"

Ask(c) == provider = "none" /\ provider' = c
Reply(result) == provider' = IF result THEN "ok" ELSE "fail"
Answered(result) == /\ provider = IF result THEN "ok" ELSE "fail"
                    /\ provider' = "none"

\* An edge or a failed read of the pin, and the end of a debounce.
MediaUnsettles == media' = [media EXCEPT !.state = "UNSETTLED"]
MediaSettles(present) ==
  /\ media.state = "UNSETTLED"
  /\ present # media.stable => media.generation < MaxGeneration
  /\ media' = [state |-> IF present THEN "PRESENT" ELSE "ABSENT",
               generation |-> IF present # media.stable
                              THEN media.generation + 1 ELSE media.generation,
               stable |-> present]

MediaMoves ==
  \/ MediaUnsettles
  \/ \E present \in BOOLEAN : MediaSettles(present)
=============================================================================
