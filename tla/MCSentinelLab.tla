--------------------------- MODULE MCSentinelLab ---------------------------
(* Three generations: the card of the start, its absence, the next card.  *)
(* Three stages: before the injected faults, with them, after them.        *)
EXTENDS SentinelLab

MCInjectedStages == {1}
=============================================================================
