---------------------------- MODULE LeaseFencer -----------------------------
(***************************************************************************)
(* LeaseFencer of cpp/ito_session/lease_fencer.cpp: one lease at a time,   *)
(* known by the name of its owner; the venue and the branch it is for are  *)
(* stored, and compared only by owns.  Callers read the clock first and    *)
(* call later; one that crashed comes back under its old name and may      *)
(* renew.                                                                  *)
(***************************************************************************)
EXTENDS Integers

CONSTANTS
  Callers,      \* owner ids
  Nobody,       \* the empty owner id
  FenceTtl,
  MaxFenceTime, \* bound on the clock
  MaxEpoch      \* bound on the leases given out

ASSUME FenceAssumption == FenceTtl \in Nat \ {0} /\ Nobody \notin Callers

VARIABLES
  time,
  current,      \* current_: [owner, epoch, expires]
  seen,         \* Callers -> the clock a caller has read for its next call
  calledBy      \* history: who called last

fenceVars == <<time, current, seen, calledBy>>

FenceInit ==
  /\ time = 0
  /\ current = [owner |-> Nobody, epoch |-> 0, expires |-> 0]
  /\ seen = [c \in Callers |-> 0]
  /\ calledBy = Nobody

TimePasses == time < MaxFenceTime /\ time' = time + 1 /\ UNCHANGED <<current, seen>>

LookAtClock(c) ==
  /\ seen[c] # time
  /\ seen' = [seen EXCEPT ![c] = time]
  /\ UNCHANGED <<time, current>>

\* acquire
TakeLease(c) ==
  /\ current.epoch < MaxEpoch
  /\ current.owner = Nobody \/ current.expires <= seen[c]
  /\ current' = [owner |-> c, epoch |-> current.epoch + 1,
                 expires |-> seen[c] + FenceTtl]
  /\ UNCHANGED <<time, seen>>

\* renew, by the name of the owner alone
RenewLease(c) ==
  /\ current.owner = c /\ current.expires > seen[c]
  /\ current' = [current EXCEPT !.expires = seen[c] + FenceTtl]
  /\ UNCHANGED <<time, seen>>

ReleaseLease(c) ==
  /\ current.owner = c
  /\ current' = [current EXCEPT !.owner = Nobody, !.expires = 0]
  /\ UNCHANGED <<time, seen>>

\* Mutant: a lease is swept in its last tick.
SweepEarly(c) ==
  /\ current.owner # Nobody /\ current.expires <= seen[c] + 1
  /\ current' = [current EXCEPT !.owner = Nobody, !.expires = 0]
  /\ UNCHANGED <<time, seen>>

Sweep(c) ==
  /\ current.owner # Nobody /\ current.expires <= seen[c]
  /\ current' = [current EXCEPT !.owner = Nobody, !.expires = 0]
  /\ UNCHANGED <<time, seen>>

FenceNext ==
  \/ TimePasses /\ UNCHANGED calledBy
  \/ \E c \in Callers :
       \/ LookAtClock(c) /\ UNCHANGED calledBy
       \/ (TakeLease(c) \/ RenewLease(c) \/ ReleaseLease(c) \/ Sweep(c)) /\ calledBy' = c

FenceSpec == FenceInit /\ [][FenceNext]_fenceVars

-----------------------------------------------------------------------------
(* Properties                                                              *)

Fence ==
  INSTANCE FencedLease WITH
    Owners <- Callers, NoOwner <- Nobody, Ttl <- FenceTtl, now <- time,
    owner <- current.owner, epoch <- current.epoch, until <- current.expires,
    by <- calledBy

\* The fencer is a fencing lease too: with sweeps, renewals under an old name and late
\* calls, no owner loses the lease to another caller before its end, no epoch is shared
\* by two owners and none is renewed on a clock that shows its end (acquire, renew,
\* release, sweep).
FencerIsFenced == Fence!Spec
=============================================================================
