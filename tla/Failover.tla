------------------------------ MODULE Failover ------------------------------
(***************************************************************************)
(* The failover drill of python/operations/failover_drill.py beside the    *)
(* lease it is about: it is given the fencer's current lease, the time it  *)
(* was read, and whether the reconciliation left anything ambiguous.       *)
(***************************************************************************)
EXTENDS LeaseFencer

VARIABLE decision   \* what the last drill said, and of which epoch and time

failoverVars == <<fenceVars, decision>>

\* drill
Promotes(given, now, ambiguous) ==
  given.owner # Nobody /\ given.epoch > 0 /\ given.expires > now /\ ~ambiguous

Drill(ambiguous) ==
  /\ decision' = [promoted |-> Promotes(current, time, ambiguous),
                  epoch |-> current.epoch, at |-> time]
  /\ UNCHANGED fenceVars

FailoverInit == FenceInit /\ decision = [promoted |-> FALSE, epoch |-> 0, at |-> 0]
FailoverNext ==
  \/ FenceNext /\ decision' = decision
  \/ \E ambiguous \in BOOLEAN : Drill(ambiguous)

FailoverSpec == FailoverInit /\ [][FailoverNext]_failoverVars

\* "The old owner is marked inactive, the replacement obtains a new lease epoch": while
\* the state is the one the drill answered promote_standby for, another caller that has
\* read the same clock can take the lease.
PromotedStandbyGetsLease ==
  decision.promoted /\ decision.epoch = current.epoch /\ decision.at = time =>
    current.owner = Nobody \/ current.expires <= time
=============================================================================
