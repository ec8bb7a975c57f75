---------------------------- MODULE KeyVersions -----------------------------
(***************************************************************************)
(* What a custodian promises of the versions of a key: each is newer than  *)
(* all before it, at most one is active, and one that was retired never    *)
(* becomes active again.                                                   *)
(***************************************************************************)
EXTENDS Integers

VARIABLES
  issued,   \* the versions that were ever issued
  inUse     \* the active version, or 0

Init == issued = {} /\ inUse = 0

Issue ==
  /\ inUse' \in Nat \ {0}
  /\ \A v \in issued : v < inUse'
  /\ issued' = issued \cup {inUse'}

Retire == inUse' = 0 /\ issued' = issued

Spec == Init /\ [][Issue \/ Retire]_<<issued, inUse>>
=============================================================================
