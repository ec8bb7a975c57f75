----------------------------- MODULE LeaseStore -----------------------------
(***************************************************************************)
(* InMemoryLeaseStore of interfaces/recovery/lease_store.py for one        *)
(* resource, and the nodes that compete for it.  A node reads the clock,   *)
(* and calls the store some time later with what it read; it may crash     *)
(* and come back without the lease it held.                                *)
(***************************************************************************)
EXTENDS Integers

CONSTANTS
  Nodes,
  NoLease,     \* no entry in _leases, or None
  LeaseTtl,    \* ttl_ns of every call
  MaxNow,      \* bound on the clock
  MaxTokens,   \* bound on the leases given out
  MaxCrashes   \* bound on the crashes

Leases == [owner : Nodes, token : Nat, expires : Nat]

ASSUME LeaseAssumption == LeaseTtl \in Nat \ {0} /\ NoLease \notin Nodes \cup Leases

VARIABLES
  clock,
  lease,       \* _leases: NoLease or [owner, token, expires]
  token,       \* _tokens
  held,        \* Nodes -> the lease a node was given last
  read,        \* Nodes -> the clock a node has read for its next call
  crashes,
  caller       \* history: the node that called the store last, NoLease at first

leaseVars == <<clock, lease, token, held, read, crashes, caller>>

Lease(n, t, e) == [owner |-> n, token |-> t, expires |-> e]

\* A node has the lease as far as it knows.
Holds(n) == held[n] # NoLease /\ held[n].expires > clock

LeaseInit ==
  /\ clock = 0 /\ lease = NoLease /\ token = 0
  /\ held = [n \in Nodes |-> NoLease]
  /\ read = [n \in Nodes |-> 0]
  /\ crashes = 0 /\ caller = NoLease

Passes ==
  /\ clock < MaxNow
  /\ clock' = clock + 1
  /\ UNCHANGED <<lease, token, held, read, crashes>>

ReadClock(n) ==
  /\ read[n] # clock
  /\ read' = [read EXCEPT ![n] = clock]
  /\ UNCHANGED <<clock, lease, token, held, crashes>>

\* Mutant: the last tick of a lease is given to the next owner.
FreeTooEarly(now) == lease # NoLease => lease.expires <= now + 1

Free(now) == lease # NoLease => lease.expires <= now

\* acquire, which leaves everything as it is when the lease is not free
Acquire(n) ==
  /\ token < MaxTokens /\ Free(read[n])
  /\ token' = token + 1
  /\ lease' = Lease(n, token + 1, read[n] + LeaseTtl)
  /\ held' = [held EXCEPT ![n] = lease']
  /\ UNCHANGED <<clock, read, crashes>>

\* Mutant: a lease that has run out is renewed.
RenewRunOut(n) ==
  /\ held[n] # NoLease
  /\ IF lease = held[n]
     THEN /\ lease' = [lease EXCEPT !.expires = read[n] + LeaseTtl]
          /\ held' = [held EXCEPT ![n] = lease']
     ELSE /\ lease' = lease
          /\ held' = [held EXCEPT ![n] = NoLease]
  /\ UNCHANGED <<clock, token, read, crashes>>

\* renew; None tells the node that it has lost the lease
Renew(n) ==
  /\ held[n] # NoLease
  /\ IF lease = held[n] /\ read[n] < lease.expires
     THEN /\ lease' = [lease EXCEPT !.expires = read[n] + LeaseTtl]
          /\ held' = [held EXCEPT ![n] = lease']
     ELSE /\ lease' = lease
          /\ held' = [held EXCEPT ![n] = NoLease]
  /\ UNCHANGED <<clock, token, read, crashes>>

Release(n) ==
  /\ held[n] # NoLease
  /\ lease' = IF lease = held[n] THEN NoLease ELSE lease
  /\ held' = [held EXCEPT ![n] = NoLease]
  /\ UNCHANGED <<clock, token, read, crashes>>

Crash(n) ==
  /\ crashes < MaxCrashes
  /\ crashes' = crashes + 1
  /\ held' = [held EXCEPT ![n] = NoLease]
  /\ UNCHANGED <<clock, lease, token, read>>

NodeStep(n) ==
  \/ (ReadClock(n) \/ Crash(n)) /\ caller' = caller
  \/ (Acquire(n) \/ Renew(n) \/ Release(n)) /\ caller' = n
LeaseNext ==
  \/ Passes /\ caller' = caller
  \/ \E n \in Nodes : NodeStep(n)

LeaseSpec == LeaseInit /\ [][LeaseNext]_leaseVars

-----------------------------------------------------------------------------
(* Properties                                                              *)

\* The store and the nodes keep their types, and no node has read a clock of the future.
LeaseTypeOK ==
  /\ clock \in Nat /\ token \in Nat /\ crashes \in Nat
  /\ lease \in Leases \cup {NoLease}
  /\ held \in [Nodes -> Leases \cup {NoLease}]
  /\ read \in [Nodes -> Nat] /\ \A n \in Nodes : read[n] <= clock

\* No two nodes take themselves for the owner at the same moment, though each calls
\* with a clock it read earlier, and though an owner may have crashed (acquire).
OneOwnerAtATime == \A m, n \in Nodes : Holds(m) /\ Holds(n) => m = n

\* The owner always has the highest token ever given out: what it does cannot be
\* fenced off in favour of an earlier owner (fencing_token).
OwnerHasNewestToken == \A n \in Nodes : Holds(n) => held[n].token = token

\* A node that still thinks it owns the lease is never wrong: the store has it down as
\* the owner, with the same token, for at least as long (acquire, renew, release).
BeliefsAreBacked ==
  \A n \in Nodes :
    Holds(n) =>
      /\ lease # NoLease /\ lease.owner = n /\ lease.token = held[n].token
      /\ lease.expires >= held[n].expires

LeaseFence ==
  INSTANCE FencedLease WITH
    Owners <- Nodes, NoOwner <- NoLease, Ttl <- LeaseTtl, now <- clock, epoch <- token,
    seen <- read, by <- caller,
    owner <- IF lease = NoLease THEN NoLease ELSE lease.owner,
    until <- IF lease = NoLease THEN 0 ELSE lease.expires

\* The store is a fencing lease: whatever late calls and crashes, it changes hands only
\* after its end or its owner's release, with a new token and for ttl_ns at most; only
\* the owner renews it, and not on a clock that shows its end (acquire, renew, release).
LeaseStoreIsFenced == LeaseFence!Spec
=============================================================================
