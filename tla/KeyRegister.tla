----------------------------- MODULE KeyRegister -----------------------------
(***************************************************************************)
(* What a wrapped-key store promises its callers, whatever the flash under *)
(* it does: a register that holds one key.  A replacement that fails, or   *)
(* is cut off by a power loss, leaves the old key or the new one and never *)
(* nothing; a replacement that is acknowledged has replaced the key.       *)
(***************************************************************************)
CONSTANTS
  Keys,    \* wrapped keys
  Ids,     \* a key id with its key version
  NoKey    \* the key of an empty register, none of Keys

VARIABLES
  stored,   \* what a load returns
  attempt,  \* what the commit in progress would store
  acked     \* what the last successful commit stored

vars == <<stored, attempt, acked>>

Contents == [id : Ids, key : Keys]
Empty == [id |-> NoKey, key |-> NoKey]

Init == stored = Empty /\ attempt = Empty /\ acked = Empty

\* A key is replaced only by one of the same id and version.
Begin ==
  /\ attempt = Empty
  /\ attempt' \in Contents
  /\ stored = Empty \/ stored.id = attempt'.id
  /\ UNCHANGED <<stored, acked>>

TakeEffect ==
  /\ attempt # Empty
  /\ stored' = attempt
  /\ UNCHANGED <<attempt, acked>>

Acknowledge ==
  /\ attempt # Empty /\ stored = attempt
  /\ acked' = attempt
  /\ attempt' = Empty
  /\ UNCHANGED stored

\* A failed commit or a power loss.
GiveUp ==
  /\ attempt # Empty
  /\ stored' \in {stored, attempt}
  /\ attempt' = Empty
  /\ UNCHANGED acked

Next == Begin \/ TakeEffect \/ Acknowledge \/ GiveUp

Spec == Init /\ [][Next]_vars
=============================================================================
