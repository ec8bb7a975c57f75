---------------------------- MODULE FencedLease -----------------------------
(***************************************************************************)
(* What a fencing lease promises to owners that read the clock some time   *)
(* before they call.  It changes hands only when it has really run out or  *)
(* was given back by its owner; every change of hands takes a new epoch;   *)
(* only the owner renews it, and only on a reading of the clock from       *)
(* before its end; and it never runs longer than Ttl from when it is       *)
(* written.                                                                *)
(***************************************************************************)
EXTENDS Integers

CONSTANTS Owners, NoOwner, Ttl
VARIABLES
  owner, epoch, until, now,
  seen,    \* Owners -> the clock an owner has read for its next call
  by       \* who called last

vars == <<owner, epoch, until, now, seen, by>>

Init ==
  /\ owner = NoOwner /\ epoch = 0 /\ until = 0 /\ now = 0
  /\ seen = [o \in Owners |-> 0]
  /\ by = NoOwner

Grant(o) ==
  /\ owner = NoOwner \/ until <= now
  /\ owner' = o
  /\ epoch' = epoch + 1
  /\ until' <= now + Ttl

Extend(o) ==
  /\ owner = o /\ seen[o] < until
  /\ until' <= now + Ttl
  /\ UNCHANGED <<owner, epoch>>

GiveBack(o) ==
  /\ owner = o \/ until <= now
  /\ owner' = NoOwner
  /\ until' = 0
  /\ epoch' = epoch

Refuse == UNCHANGED <<owner, epoch, until>>

Call(o) ==
  /\ Grant(o) \/ Extend(o) \/ GiveBack(o) \/ Refuse
  /\ by' = o
  /\ UNCHANGED <<now, seen>>

Tick == now' > now /\ UNCHANGED <<owner, epoch, until, seen, by>>

Read(o) ==
  /\ seen' = [seen EXCEPT ![o] = now]
  /\ UNCHANGED <<owner, epoch, until, now, by>>

Next == Tick \/ \E o \in Owners : Read(o) \/ Call(o)

Spec == Init /\ [][Next]_vars
=============================================================================
