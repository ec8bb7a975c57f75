------------------------- MODULE ConnectivityProofs -------------------------
(***************************************************************************)
(* What connects the system to others, for any number of nodes, callers,   *)
(* orders and requests.  The lease store has one owner at a time, with the *)
(* newest token, and is a fencing lease, and so is the native fencer.  The *)
(* order gateway and the venue session keep the promise of ClientOrders,   *)
(* and a client is never told more than is true, however answers are lost, *)
(* repeated or reordered.                                                  *)
(***************************************************************************)
EXTENDS LeaseStore, LeaseFencer, OrderGateway, VenueSession, TLAPS

-----------------------------------------------------------------------------
(* The lease store                                                         *)

\* What a node was given is in its own name.
OwnLease == \A n \in Nodes : held[n] # NoLease => held[n].owner = n

\* The lease in force carries the last token.
LeaseHasLastToken == lease # NoLease => lease.token = token

LeaseInv == LeaseTypeOK /\ BeliefsAreBacked /\ OwnLease /\ LeaseHasLastToken

\* An empty store has no owner and no beliefs (__init__).
LEMMA LeaseInvInit == LeaseInit => LeaseInv
  BY LeaseAssumption
  DEF LeaseInit, LeaseInv, LeaseTypeOK, BeliefsAreBacked, OwnLease, LeaseHasLastToken, Holds

\* Time only ends beliefs.
LEMMA PassesKeeps == LeaseInv /\ Passes => LeaseInv'
  BY DEF Passes, LeaseInv, LeaseTypeOK, BeliefsAreBacked, OwnLease, LeaseHasLastToken, Holds,
         Leases

\* A node that reads the clock learns nothing of the lease.
LEMMA ReadClockKeeps ==
  ASSUME NEW n \in Nodes, LeaseInv, ReadClock(n) PROVE LeaseInv'
  BY DEF ReadClock, LeaseInv, LeaseTypeOK, BeliefsAreBacked, OwnLease, LeaseHasLastToken, Holds,
         Leases

\* A lease that is free by an old clock is free by the present one: nobody holds it
\* (acquire).
LEMMA FreeMeansNobodyHolds ==
  ASSUME NEW n \in Nodes, LeaseInv, Free(read[n]), NEW m \in Nodes PROVE ~Holds(m)
  BY DEF LeaseInv, LeaseTypeOK, BeliefsAreBacked, Free, Holds, Leases

\* A lease that is still what the store gave n is held by no other node (renew, release).
LEMMA OnlyOneBacked ==
  ASSUME NEW n \in Nodes, LeaseInv, held[n] # NoLease, lease = held[n],
         NEW m \in Nodes, Holds(m)
  PROVE  m = n
  BY DEF LeaseInv, BeliefsAreBacked, OwnLease

\* acquire gives the lease to a node while nobody else holds it.
LEMMA AcquireKeeps ==
  ASSUME NEW n \in Nodes, LeaseInv, Acquire(n) PROVE LeaseInv'
<1>1. lease' \in Leases /\ lease' # NoLease
  BY LeaseAssumption DEF LeaseInv, LeaseTypeOK, Acquire, Lease, Leases
<1>2. lease'.owner = n /\ lease'.token = token'
  BY DEF Acquire, Lease
<1>3. held' = [held EXCEPT ![n] = lease'] /\ clock' = clock
  BY DEF Acquire
<1>4. LeaseTypeOK'
  BY <1>1, <1>3 DEF LeaseInv, LeaseTypeOK, Acquire
<1>5. held'[n] = lease' /\ \A m \in Nodes \ {n} : held'[m] = held[m]
  BY <1>3 DEF LeaseInv, LeaseTypeOK
<1>6. BeliefsAreBacked'
  <2>1. ASSUME NEW m \in Nodes, Holds(m)' PROVE m = n
    <3>1. ~Holds(m)
      BY FreeMeansNobodyHolds DEF Acquire
    <3> QED BY <2>1, <3>1, <1>3, <1>5 DEF Holds
  <2> QED BY <2>1, <1>1, <1>2, <1>5 DEF BeliefsAreBacked, Leases
<1>7. OwnLease' /\ LeaseHasLastToken'
  BY <1>2, <1>5 DEF LeaseInv, OwnLease, LeaseHasLastToken
<1> QED BY <1>4, <1>6, <1>7 DEF LeaseInv

\* A renewal moves the end of the lease and of the belief together.
LEMMA RenewKeeps ==
  ASSUME NEW n \in Nodes, LeaseInv, Renew(n) PROVE LeaseInv'
<1> USE DEF LeaseInv
<1>1. CASE lease = held[n] /\ read[n] < lease.expires
  <2>1. /\ lease' = [lease EXCEPT !.expires = read[n] + LeaseTtl]
        /\ held' = [held EXCEPT ![n] = lease']
        /\ UNCHANGED <<clock, token, read, crashes>> /\ held[n] # NoLease
    BY <1>1 DEF Renew
  <2>2. lease \in Leases /\ lease.owner = n
    BY <1>1, <2>1 DEF LeaseTypeOK, OwnLease
  <2>3. /\ lease' \in Leases /\ lease' # NoLease
        /\ lease'.owner = n /\ lease'.token = lease.token
    BY <2>1, <2>2, LeaseAssumption DEF LeaseTypeOK, Leases
  <2>4. held'[n] = lease' /\ \A m \in Nodes \ {n} : held'[m] = held[m]
    BY <2>1 DEF LeaseTypeOK
  <2>5. LeaseTypeOK'
    BY <2>1, <2>3 DEF LeaseTypeOK
  <2>6. BeliefsAreBacked'
    <3>1. ASSUME NEW m \in Nodes, Holds(m)', m # n PROVE FALSE
      <4>1. Holds(m) BY <3>1, <2>1, <2>4 DEF Holds
      <4> QED BY <4>1, <3>1, <1>1, <2>1, OnlyOneBacked
    <3> QED BY <3>1, <2>3, <2>4 DEF BeliefsAreBacked, Leases
  <2>7. OwnLease' /\ LeaseHasLastToken'
    BY <2>1, <2>2, <2>3, <2>4, LeaseAssumption DEF OwnLease, LeaseHasLastToken
  <2> QED BY <2>5, <2>6, <2>7
<1>2. CASE ~(lease = held[n] /\ read[n] < lease.expires)
  BY <1>2 DEF Renew, LeaseTypeOK, BeliefsAreBacked, OwnLease, LeaseHasLastToken, Holds
<1> QED BY <1>1, <1>2

\* A node gives back its own lease, or one that it no longer has.
LEMMA ReleaseKeeps ==
  ASSUME NEW n \in Nodes, LeaseInv, Release(n) PROVE LeaseInv'
<1>1. /\ held' = [held EXCEPT ![n] = NoLease] /\ held[n] # NoLease
      /\ UNCHANGED <<clock, token, read, crashes>>
      /\ lease' = IF lease = held[n] THEN NoLease ELSE lease
  BY DEF Release
<1>2. held'[n] = NoLease /\ \A m \in Nodes \ {n} : held'[m] = held[m]
  BY <1>1 DEF LeaseInv, LeaseTypeOK
<1>3. LeaseTypeOK'
  BY <1>1 DEF LeaseInv, LeaseTypeOK
<1>4. BeliefsAreBacked'
  <2>1. ASSUME NEW m \in Nodes, Holds(m)' PROVE Holds(m) /\ lease' = lease /\ held'[m] = held[m]
    <3>1. m # n /\ Holds(m)
      BY <2>1, <1>1, <1>2 DEF Holds
    <3> QED BY <3>1, <1>1, <1>2, OnlyOneBacked
  <2> QED BY <2>1 DEF BeliefsAreBacked, LeaseInv
<1>5. OwnLease' /\ LeaseHasLastToken'
  BY <1>1, <1>2 DEF LeaseInv, OwnLease, LeaseHasLastToken
<1> QED BY <1>3, <1>4, <1>5 DEF LeaseInv

\* A crash forgets a belief.
LEMMA CrashKeeps ==
  ASSUME NEW n \in Nodes, LeaseInv, Crash(n) PROVE LeaseInv'
  BY DEF Crash, LeaseInv, LeaseTypeOK, BeliefsAreBacked, OwnLease, LeaseHasLastToken, Holds

\* The store's invariant is inductive (acquire, renew, release, and crashes).
LEMMA LeaseInvStep == LeaseInv /\ [LeaseNext]_leaseVars => LeaseInv'
<1> SUFFICES ASSUME LeaseInv, [LeaseNext]_leaseVars PROVE LeaseInv'
  OBVIOUS
<1>1. CASE Passes
  BY <1>1, PassesKeeps
<1>2. ASSUME NEW n \in Nodes, NodeStep(n) PROVE LeaseInv'
  BY <1>2, ReadClockKeeps, AcquireKeeps, RenewKeeps, ReleaseKeeps, CrashKeeps DEF NodeStep
<1>3. CASE UNCHANGED leaseVars
  BY <1>3
  DEF leaseVars, LeaseInv, LeaseTypeOK, BeliefsAreBacked, OwnLease, LeaseHasLastToken, Holds
<1> QED BY <1>1, <1>2, <1>3 DEF LeaseNext

\* The store's invariant holds in every state.
LEMMA LeaseInvAlways == LeaseSpec => []LeaseInv
  BY LeaseInvInit, LeaseInvStep, PTL DEF LeaseSpec

\* The store and the nodes keep their types, and no node is ahead of the clock.
THEOREM LeaseTypeCorrect == LeaseSpec => []LeaseTypeOK
<1>1. LeaseInv => LeaseTypeOK BY DEF LeaseInv
<1> QED BY <1>1, LeaseInvAlways, PTL

\* A node that still thinks it owns the lease is right, however many nodes compete with
\* clocks they read earlier (acquire, renew, release).
THEOREM BeliefsAreBackedAlways == LeaseSpec => []BeliefsAreBacked
<1>1. LeaseInv => BeliefsAreBacked BY DEF LeaseInv
<1> QED BY <1>1, LeaseInvAlways, PTL

\* There is never more than one owner.
THEOREM OneOwnerAlways == LeaseSpec => []OneOwnerAtATime
<1>1. LeaseInv => OneOwnerAtATime
  BY DEF LeaseInv, BeliefsAreBacked, OneOwnerAtATime
<1> QED BY <1>1, LeaseInvAlways, PTL

\* The owner has the newest fencing token.
THEOREM OwnerHasNewestTokenAlways == LeaseSpec => []OwnerHasNewestToken
<1>1. LeaseInv => OwnerHasNewestToken
  BY DEF LeaseInv, BeliefsAreBacked, LeaseHasLastToken, OwnerHasNewestToken
<1> QED BY <1>1, LeaseInvAlways, PTL

(* The refinement                                                          *)

\* A lease that is handed out was free, and runs for ttl_ns at most (acquire).
LEMMA AcquireGrants ==
  ASSUME NEW n \in Nodes, LeaseInv, Acquire(n) PROVE LeaseFence!Grant(n)
<1>1. lease' # NoLease /\ lease'.owner = n /\ lease'.expires = read[n] + LeaseTtl
  BY LeaseAssumption DEF LeaseInv, LeaseTypeOK, Acquire, Lease, Leases
<1>2. lease = NoLease \/ lease.expires <= clock
  BY DEF LeaseInv, LeaseTypeOK, Acquire, Free, Leases
<1>3. read[n] + LeaseTtl <= clock + LeaseTtl
  BY LeaseAssumption DEF LeaseInv, LeaseTypeOK
<1> QED BY <1>1, <1>2, <1>3 DEF Acquire, LeaseFence!Grant

\* A renewal extends the lease of the caller, who has read no clock past its end, or
\* changes nothing (renew).
LEMMA RenewExtends ==
  ASSUME NEW n \in Nodes, LeaseInv, Renew(n)
  PROVE  LeaseFence!Extend(n) \/ LeaseFence!Refuse
<1>1. CASE lease = held[n] /\ read[n] < lease.expires
  <2>1. /\ lease' = [lease EXCEPT !.expires = read[n] + LeaseTtl]
        /\ UNCHANGED token /\ lease # NoLease
    BY <1>1 DEF Renew
  <2>2. lease \in Leases /\ lease.owner = n
    BY <1>1, <2>1 DEF LeaseInv, LeaseTypeOK, OwnLease
  <2>3. /\ lease' # NoLease /\ lease'.owner = lease.owner
        /\ lease'.expires = read[n] + LeaseTtl
    BY <2>1, <2>2, LeaseAssumption DEF LeaseInv, LeaseTypeOK, Leases
  <2>4. read[n] + LeaseTtl <= clock + LeaseTtl
    BY LeaseAssumption DEF LeaseInv, LeaseTypeOK
  <2> QED BY <1>1, <2>1, <2>2, <2>3, <2>4 DEF LeaseFence!Extend
<1>2. CASE ~(lease = held[n] /\ read[n] < lease.expires)
  BY <1>2 DEF Renew, LeaseFence!Refuse
<1> QED BY <1>1, <1>2

\* A release gives the caller's lease back, or changes nothing (release).
LEMMA ReleaseGivesBack ==
  ASSUME NEW n \in Nodes, LeaseInv, Release(n)
  PROVE  LeaseFence!GiveBack(n) \/ LeaseFence!Refuse
<1>1. CASE lease = held[n]
  <2>1. lease # NoLease /\ lease.owner = n /\ lease' = NoLease /\ token' = token
    BY <1>1 DEF Release, LeaseInv, OwnLease
  <2> QED BY <2>1 DEF LeaseFence!GiveBack
<1>2. CASE lease # held[n]
  BY <1>2 DEF Release, LeaseFence!Refuse
<1> QED BY <1>1, <1>2

\* Every step of the store is a step of FencedLease or leaves the lease alone.
LEMMA LeaseStepIsFenced ==
  LeaseInv /\ [LeaseNext]_leaseVars => [LeaseFence!Next]_LeaseFence!vars
<1> SUFFICES ASSUME LeaseInv, [LeaseNext]_leaseVars
             PROVE  LeaseFence!Next \/ UNCHANGED LeaseFence!vars
  OBVIOUS
<1>1. CASE Passes /\ caller' = caller
  BY <1>1 DEF Passes, LeaseInv, LeaseTypeOK, LeaseFence!Next, LeaseFence!Tick
<1>2. ASSUME NEW n \in Nodes, NodeStep(n)
      PROVE  LeaseFence!Next \/ UNCHANGED LeaseFence!vars
  <2>1. CASE Crash(n) /\ caller' = caller
    BY <2>1 DEF Crash, LeaseFence!vars
  <2>2. CASE ReadClock(n) /\ caller' = caller
    <3>1. LeaseFence!Read(n)
      BY <2>2 DEF ReadClock, LeaseFence!Read
    <3> QED BY <3>1 DEF LeaseFence!Next
  <2>3. CASE (Acquire(n) \/ Renew(n) \/ Release(n)) /\ caller' = n
    <3>1. LeaseFence!Grant(n) \/ LeaseFence!Extend(n) \/ LeaseFence!GiveBack(n)
          \/ LeaseFence!Refuse
      BY <2>3, AcquireGrants, RenewExtends, ReleaseGivesBack
    <3>2. UNCHANGED <<clock, read>>
      BY <2>3 DEF Acquire, Renew, Release
    <3>3. LeaseFence!Call(n)
      BY <2>3, <3>1, <3>2 DEF LeaseFence!Call
    <3> QED BY <3>3 DEF LeaseFence!Next
  <2> QED BY <1>2, <2>1, <2>2, <2>3 DEF NodeStep
<1>3. CASE UNCHANGED leaseVars
  BY <1>3 DEF leaseVars, LeaseFence!vars
<1> QED BY <1>1, <1>2, <1>3 DEF LeaseNext

\* For any nodes, times and crashes the store is a fencing lease: it changes hands only
\* after its end or its release, and every time with a new token.
THEOREM LeaseStoreIsFencedAlways == LeaseSpec => LeaseStoreIsFenced
<1>1. LeaseInit => LeaseFence!Init
  BY DEF LeaseInit, LeaseFence!Init
<1> QED
  BY <1>1, LeaseStepIsFenced, LeaseInvAlways, PTL
  DEF LeaseSpec, LeaseStoreIsFenced, LeaseFence!Spec

-----------------------------------------------------------------------------
(* The native fencer                                                       *)

\* Callers are never ahead of the clock.
FenceInv ==
  /\ time \in Nat
  /\ current \in [owner : Callers \cup {Nobody}, epoch : Nat, expires : Nat]
  /\ seen \in [Callers -> Nat] /\ \A c \in Callers : seen[c] <= time

\* No lease is current before the first is taken.
LEMMA FenceInvInit == FenceInit => FenceInv
  BY DEF FenceInit, FenceInv

\* The fencer's invariant is inductive (acquire, renew, release, sweep).
LEMMA FenceInvStep == FenceInv /\ [FenceNext]_fenceVars => FenceInv'
<1> SUFFICES ASSUME FenceInv, [FenceNext]_fenceVars PROVE FenceInv'
  OBVIOUS
<1> USE FenceAssumption DEF FenceInv
<1>1. CASE TimePasses
  BY <1>1 DEF TimePasses
<1>2. ASSUME NEW c \in Callers, LookAtClock(c) PROVE FenceInv'
  BY <1>2 DEF LookAtClock
<1>3. ASSUME NEW c \in Callers, TakeLease(c) PROVE FenceInv'
  BY <1>3 DEF TakeLease
<1>4. ASSUME NEW c \in Callers, RenewLease(c) PROVE FenceInv'
  BY <1>4 DEF RenewLease
<1>5. ASSUME NEW c \in Callers, ReleaseLease(c) \/ Sweep(c) PROVE FenceInv'
  <2>1. /\ UNCHANGED <<time, seen>>
        /\ current' = [current EXCEPT !.owner = Nobody, !.expires = 0]
    BY <1>5 DEF ReleaseLease, Sweep
  <2>2. current' \in [owner : Callers \cup {Nobody}, epoch : Nat, expires : Nat]
    BY <2>1, Zenon
  <2> QED BY <2>1, <2>2
<1>6. CASE UNCHANGED fenceVars
  BY <1>6 DEF fenceVars
<1> QED BY <1>1, <1>2, <1>3, <1>4, <1>5, <1>6 DEF FenceNext

\* The fencer's invariant holds in every state.
LEMMA FenceInvAlways == FenceSpec => []FenceInv
  BY FenceInvInit, FenceInvStep, PTL DEF FenceSpec

\* Every call is one of the steps of a fencing lease: a clock read earlier that shows the
\* end of the lease shows that it is over (acquire, renew, release and sweep).
LEMMA FenceStepIsFenced == FenceInv /\ [FenceNext]_fenceVars => [Fence!Next]_Fence!vars
<1> SUFFICES ASSUME FenceInv, [FenceNext]_fenceVars
             PROVE  Fence!Next \/ UNCHANGED Fence!vars
  OBVIOUS
<1> USE FenceAssumption DEF FenceInv
<1>1. CASE TimePasses /\ UNCHANGED calledBy
  BY <1>1 DEF TimePasses, Fence!Next, Fence!Tick
<1>2. ASSUME NEW c \in Callers, LookAtClock(c), UNCHANGED calledBy PROVE Fence!Next
  <2>1. Fence!Read(c)
    BY <1>2 DEF LookAtClock, Fence!Read
  <2> QED BY <2>1 DEF Fence!Next
<1>3. ASSUME NEW c \in Callers, TakeLease(c) PROVE Fence!Grant(c)
  BY <1>3 DEF TakeLease, Fence!Grant
<1>4. ASSUME NEW c \in Callers, RenewLease(c) PROVE Fence!Extend(c)
  BY <1>4 DEF RenewLease, Fence!Extend
<1>5. ASSUME NEW c \in Callers, ReleaseLease(c) \/ Sweep(c) PROVE Fence!GiveBack(c)
  <2>1. /\ current.owner = c \/ current.expires <= seen[c]
        /\ current' = [current EXCEPT !.owner = Nobody, !.expires = 0]
    BY <1>5 DEF ReleaseLease, Sweep
  <2>2. current'.owner = Nobody /\ current'.expires = 0 /\ current'.epoch = current.epoch
    BY <2>1, Zenon
  <2>3. current.owner = c \/ current.expires <= time
    BY <2>1
  <2> QED BY <2>2, <2>3 DEF Fence!GiveBack
<1>6. ASSUME NEW c \in Callers, calledBy' = c,
             TakeLease(c) \/ RenewLease(c) \/ ReleaseLease(c) \/ Sweep(c)
      PROVE  Fence!Next
  <2>1. UNCHANGED <<time, seen>>
    BY <1>6 DEF TakeLease, RenewLease, ReleaseLease, Sweep
  <2>2. Fence!Call(c)
    BY <1>3, <1>4, <1>5, <1>6, <2>1, Zenon DEF Fence!Call
  <2> QED BY <2>2 DEF Fence!Next
<1>7. CASE UNCHANGED fenceVars
  BY <1>7 DEF fenceVars, Fence!vars
<1> QED BY <1>1, <1>2, <1>6, <1>7 DEF FenceNext

\* For any callers, times and epochs the fencer is a fencing lease, although it knows its
\* owner by name alone and callers may sweep and renew late (lease_fencer.cpp).
THEOREM FencerIsFencedAlways == FenceSpec => FencerIsFenced
<1>1. FenceInit => Fence!Init
  BY DEF FenceInit, Fence!Init
<1> QED
  BY <1>1, FenceStepIsFenced, FenceInvAlways, PTL DEF FenceSpec, FencerIsFenced, Fence!Spec

-----------------------------------------------------------------------------
(* The gateway                                                             *)

States == {"none", "accepted", "canceled"}

\* An order that does not exist has no answers that say it does.
GatewayInv ==
  /\ gatewayOrders \in [OrderIds -> [state : States, quantity : Int]]
  /\ answers \in [OrderIds -> SUBSET [state : {"accepted", "canceled", "rejected", "unknown"},
                                      quantity : Int]]
  /\ \A id \in OrderIds :
       /\ gatewayOrders[id].state = "none" => gatewayOrders[id] = NoOrder
       /\ \A a \in answers[id] :
            gatewayOrders[id] = NoOrder => a.state \notin {"accepted", "canceled"}
  /\ AnswersAgree

\* No order exists and nothing was answered at first.
LEMMA GatewayInvInit == GatewayInit => GatewayInv
  BY DEF GatewayInit, GatewayInv, AnswersAgree, NoOrder, Ack, States

\* A request enters its order at most once and is answered with what it entered (submit).
LEMMA SubmitKeeps ==
  ASSUME GatewayInv, NEW request \in Requests, Submit(request)
  PROVE  GatewayInv'
<1> DEFINE id == request.id
<1>1. id \in OrderIds /\ request.quantity \in Int
  BY GatewayAssumption DEF Submit, Valid
<1>2. CASE gatewayOrders[id] # NoOrder
  <2>1. gatewayOrders' = gatewayOrders
    BY <1>2 DEF Submit
  <2>2. \/ answers' = [answers EXCEPT ![id] = @ \cup {Ack("rejected", 0)}]
        \/ answers' = answers
    BY <1>2 DEF Submit, Answered
  <2>3. CASE answers' = answers
    BY <2>1, <2>3 DEF GatewayInv, AnswersAgree
  <2>4. CASE answers' = [answers EXCEPT ![id] = @ \cup {Ack("rejected", 0)}]
    BY <1>1, <2>1, <2>4 DEF GatewayInv, AnswersAgree, Ack
  <2> QED BY <2>2, <2>3, <2>4
<1>3. CASE gatewayOrders[id] = NoOrder
  <2> DEFINE ack == Ack("accepted", request.quantity)
  <2>1. gatewayOrders' = [gatewayOrders EXCEPT ![id] = ack]
    BY <1>3 DEF Submit
  <2>2. \/ answers' = [answers EXCEPT ![id] = @ \cup {ack}]
        \/ answers' = answers
    BY <1>3 DEF Submit, Answered
  <2>3. CASE answers' = answers
    BY <1>1, <1>3, <2>1, <2>3 DEF GatewayInv, AnswersAgree, Ack, NoOrder, States
  <2>4. CASE answers' = [answers EXCEPT ![id] = @ \cup {ack}]
    BY <1>1, <1>3, <2>1, <2>4 DEF GatewayInv, AnswersAgree, Ack, NoOrder, States
  <2> QED BY <2>2, <2>3, <2>4
<1> QED BY <1>2, <1>3

\* A cancellation ends an order that exists, and confirms nothing else (cancel).
LEMMA CancelKeeps ==
  ASSUME GatewayInv, NEW id \in OrderIds, CancelOrder(id)
  PROVE  GatewayInv'
<1>1. CASE gatewayOrders[id] = NoOrder
  <2>1. gatewayOrders' = gatewayOrders
    BY <1>1 DEF CancelOrder
  <2>2. \/ answers' = [answers EXCEPT ![id] = @ \cup {Ack("unknown", 0)}]
        \/ answers' = answers
    BY <1>1 DEF CancelOrder, Answered
  <2>3. CASE answers' = answers
    BY <2>1, <2>3 DEF GatewayInv, AnswersAgree
  <2>4. CASE answers' = [answers EXCEPT ![id] = @ \cup {Ack("unknown", 0)}]
    BY <2>1, <2>4 DEF GatewayInv, AnswersAgree, Ack
  <2> QED BY <2>2, <2>3, <2>4
<1>2. CASE gatewayOrders[id] # NoOrder
  <2>1. gatewayOrders' = [gatewayOrders EXCEPT ![id] = Ack("canceled", 0)]
    BY <1>2 DEF CancelOrder
  <2>2. \/ answers' = [answers EXCEPT ![id] = @ \cup {Ack("canceled", 0)}]
        \/ answers' = answers
    BY <1>2 DEF CancelOrder, Answered
  <2>3. CASE answers' = answers
    BY <1>2, <2>1, <2>3 DEF GatewayInv, AnswersAgree, Ack, NoOrder, States
  <2>4. CASE answers' = [answers EXCEPT ![id] = @ \cup {Ack("canceled", 0)}]
    BY <1>2, <2>1, <2>4 DEF GatewayInv, AnswersAgree, Ack, NoOrder, States
  <2> QED BY <2>2, <2>3, <2>4
<1> QED BY <1>1, <1>2

\* The gateway's invariant is inductive (submit, cancel, close).
LEMMA GatewayInvStep == GatewayInv /\ [GatewayNext]_gatewayVars => GatewayInv'
<1> SUFFICES ASSUME GatewayInv, [GatewayNext]_gatewayVars PROVE GatewayInv'
  OBVIOUS
<1>1. CASE Close \/ UNCHANGED gatewayVars
  BY <1>1 DEF Close, gatewayVars, GatewayInv, AnswersAgree
<1> QED BY <1>1, SubmitKeeps, CancelKeeps DEF GatewayNext

\* The gateway's invariant holds in every state.
LEMMA GatewayInvAlways == GatewaySpec => []GatewayInv
  BY GatewayInvInit, GatewayInvStep, PTL DEF GatewaySpec

\* A caller never gets two accepted quantities for an order, nor a confirmed cancel of an
\* order that lives on, whatever it repeats and whichever answers are lost.
THEOREM AnswersAgreeAlways == GatewaySpec => []AnswersAgree
<1>1. GatewayInv => AnswersAgree BY DEF GatewayInv
<1> QED BY <1>1, GatewayInvAlways, PTL

\* Every call of the gateway is a step of ClientOrders or leaves the orders alone.
LEMMA GatewayStepKeepsOrders ==
  GatewayInv /\ [GatewayNext]_gatewayVars
    => [GatewayClientOrders!Next]_([id \in OrderIds |-> gatewayOrders[id].state])
<1> DEFINE status == [id \in OrderIds |-> gatewayOrders[id].state]
<1> SUFFICES ASSUME GatewayInv, [GatewayNext]_gatewayVars
             PROVE  GatewayClientOrders!Next \/ status' = status
  OBVIOUS
<1>1. ASSUME gatewayOrders' = gatewayOrders PROVE status' = status
  BY <1>1
<1>2. ASSUME NEW request \in Requests, Submit(request)
      PROVE  GatewayClientOrders!Next \/ status' = status
  <2> DEFINE id == request.id
  <2>1. CASE gatewayOrders[id] # NoOrder
    BY <1>1, <1>2, <2>1 DEF Submit
  <2>2. CASE gatewayOrders[id] = NoOrder
    <3>1. id \in OrderIds
      BY <1>2 DEF Submit, Valid
    <3>2. status[id] = "none"
      BY <2>2, <3>1 DEF NoOrder
    <3>3. status' = [status EXCEPT ![id] = "accepted"]
      <4>1. gatewayOrders' = [gatewayOrders EXCEPT ![id] = Ack("accepted", request.quantity)]
        BY <1>2, <2>2 DEF Submit
      <4>2. \A other \in OrderIds :
              gatewayOrders'[other].state
                = IF other = id THEN "accepted" ELSE gatewayOrders[other].state
        BY <3>1, <4>1 DEF Ack, GatewayInv
      <4> QED BY <4>2, Zenon
    <3>4. GatewayClientOrders!Accept(id)
      BY <3>2, <3>3 DEF GatewayClientOrders!Accept
    <3> QED BY <3>1, <3>4 DEF GatewayClientOrders!Next
  <2> QED BY <2>1, <2>2
<1>3. ASSUME NEW id \in OrderIds, CancelOrder(id)
      PROVE  GatewayClientOrders!Next \/ status' = status
  <2>1. CASE gatewayOrders[id] = NoOrder
    BY <1>1, <1>3, <2>1 DEF CancelOrder
  <2>2. CASE gatewayOrders[id] # NoOrder
    <3>1. status' = [status EXCEPT ![id] = "canceled"]
      <4>1. gatewayOrders' = [gatewayOrders EXCEPT ![id] = Ack("canceled", 0)]
        BY <1>3, <2>2 DEF CancelOrder
      <4>2. \A other \in OrderIds :
              gatewayOrders'[other].state
                = IF other = id THEN "canceled" ELSE gatewayOrders[other].state
        BY <4>1 DEF Ack, GatewayInv
      <4> QED BY <4>2, Zenon
    <3>2. status[id] \in {"accepted", "canceled"}
      BY <2>2 DEF GatewayInv, States
    <3>3. CASE status[id] = "accepted"
      BY <3>1, <3>3, Zenon DEF GatewayClientOrders!Next, GatewayClientOrders!Cancel
    <3>4. CASE status[id] = "canceled"
      BY <3>1, <3>4, Zenon
    <3> QED BY <3>2, <3>3, <3>4
  <2> QED BY <2>1, <2>2
<1>4. CASE Close \/ UNCHANGED gatewayVars
  BY <1>1, <1>4 DEF Close, gatewayVars
<1> QED BY <1>2, <1>3, <1>4 DEF GatewayNext

\* For any orders and requests the gateway accepts an order at most once and never
\* brings a canceled one back (submit, cancel).
THEOREM GatewayKeepsOrdersAlways == GatewaySpec => GatewayKeepsOrders
<1>1. GatewayInit => GatewayClientOrders!Init
  BY DEF GatewayInit, NoOrder, GatewayClientOrders!Init
<1> QED
  BY <1>1, GatewayStepKeepsOrders, GatewayInvAlways, PTL
  DEF GatewaySpec, GatewayKeepsOrders, GatewayClientOrders!Spec

-----------------------------------------------------------------------------
(* The venue session                                                       *)

Kinds == {"ACK", "REPLACED", "CANCELLED", "DUPLICATE_REJECT", "CANCEL_REJECT",
          "REPLACE_REJECT", "THROTTLE_REJECT", "NO_CHANGE"}

\* The answers that tell the client a status.
Telling == {"ACK", "REPLACED", "CANCELLED"}

\* An answer still under way is true of the order it is about.
WireIsTrue ==
  \A message \in wire :
    /\ message.id \in ClientIds
    /\ message.kind \in {"ACK", "REPLACED"} => venueOrders[message.id] # "none"
    /\ message.kind = "CANCELLED" => venueOrders[message.id] = "canceled"

SessionInv ==
  /\ venueOrders \in [ClientIds -> States]
  /\ believed \in [ClientIds -> States]
  /\ WireIsTrue
  /\ BeliefIsNotAhead

\* The session's invariant holds before anything is sent.
LEMMA SessionInvInit == SessionInit => SessionInv
  BY DEF SessionInit, SessionInv, WireIsTrue, BeliefIsNotAhead, States

\* What a request may do to its order, and that its answer is true of the result (send).
LEMMA SendOutcome ==
  ASSUME SessionInv, NEW id \in ClientIds, NEW action \in Actions, Send(id, action)
  PROVE  \E kind \in Kinds, state \in States :
           /\ venueOrders' = [venueOrders EXCEPT ![id] = state]
           /\ wire' = wire \cup {[number |-> sequence + 1, kind |-> kind, id |-> id]}
           /\ UNCHANGED believed
           /\ \/ state = venueOrders[id]
              \/ venueOrders[id] = "none" /\ state = "accepted"
              \/ venueOrders[id] = "accepted" /\ state = "canceled"
           /\ kind \in {"ACK", "REPLACED"} => state = "accepted"
           /\ kind = "CANCELLED" => state = "canceled"
           /\ kind \notin Telling => state = venueOrders[id]
           /\ sentHere' = Append(sentHere, [number |-> sequence + 1, kind |-> kind, id |-> id])
<1> DEFINE outcome == IF window >= Throttle THEN <<"THROTTLE_REJECT", venueOrders[id]>>
                      ELSE Outcome(id, action)
<1>1. venueOrders[id] \in States
  BY Zenon DEF SessionInv
<1>2. /\ outcome[1] \in Kinds /\ outcome[2] \in States
      /\ \/ outcome[2] = venueOrders[id]
         \/ venueOrders[id] = "none" /\ outcome[2] = "accepted"
         \/ venueOrders[id] = "accepted" /\ outcome[2] = "canceled"
      /\ outcome[1] \in {"ACK", "REPLACED"} => outcome[2] = "accepted"
      /\ outcome[1] = "CANCELLED" => outcome[2] = "canceled"
      /\ outcome[1] \notin Telling => outcome[2] = venueOrders[id]
  <2>1. CASE window >= Throttle
    <3>1. outcome = <<"THROTTLE_REJECT", venueOrders[id]>>
      BY <2>1, Zenon
    <3> HIDE DEF outcome
    <3>2. outcome[1] = "THROTTLE_REJECT" /\ outcome[2] = venueOrders[id]
      BY <3>1, Zenon
    <3> QED BY <1>1, <3>2 DEF Kinds, Telling
  <2>2. CASE ~(window >= Throttle)
    <3>1. outcome = Outcome(id, action)
      BY <2>2
    <3>2. CASE action = "new"
      BY <1>1, <3>1, <3>2 DEF Outcome, Kinds, Telling, States
    <3>3. CASE action = "cancel"
      BY <1>1, <3>1, <3>3 DEF Outcome, Kinds, Telling, States
    <3>4. CASE action = "replace"
      BY <1>1, <3>1, <3>4 DEF Outcome, Kinds, Telling, States
    <3>5. CASE action = "other"
      BY <1>1, <3>1, <3>5 DEF Outcome, Kinds, Telling, States
    <3> QED BY <3>2, <3>3, <3>4, <3>5, Zenon DEF Actions
  <2> QED BY <2>1, <2>2
<1>3. /\ venueOrders' = [venueOrders EXCEPT ![id] = outcome[2]]
      /\ wire' = wire \cup {[number |-> sequence + 1, kind |-> outcome[1], id |-> id]}
      /\ sentHere' = Append(sentHere, [number |-> sequence + 1, kind |-> outcome[1], id |-> id])
      /\ UNCHANGED believed
  BY DEF Send
<1> HIDE DEF outcome
<1> QED BY <1>2, <1>3, Zenon

\* A request leaves every answer under way, and all the client believes, true (send).
LEMMA SendKeeps ==
  ASSUME SessionInv, NEW id \in ClientIds, NEW action \in Actions, Send(id, action)
  PROVE  SessionInv'
<1>1. PICK kind \in Kinds, state \in States :
           /\ venueOrders' = [venueOrders EXCEPT ![id] = state]
           /\ wire' = wire \cup {[number |-> sequence + 1, kind |-> kind, id |-> id]}
           /\ UNCHANGED believed
           /\ \/ state = venueOrders[id]
              \/ venueOrders[id] = "none" /\ state = "accepted"
              \/ venueOrders[id] = "accepted" /\ state = "canceled"
           /\ kind \in {"ACK", "REPLACED"} => state = "accepted"
           /\ kind = "CANCELLED" => state = "canceled"
  BY SendOutcome, Zenon
<1>2. venueOrders' \in [ClientIds -> States] /\ believed' \in [ClientIds -> States]
  BY <1>1 DEF SessionInv
<1>3. \A other \in ClientIds :
        /\ venueOrders[other] # "none" => venueOrders'[other] # "none"
        /\ venueOrders[other] = "canceled" => venueOrders'[other] = "canceled"
  BY <1>1 DEF SessionInv
<1>4. WireIsTrue'
  <2> SUFFICES ASSUME NEW message \in wire'
               PROVE  /\ message.id \in ClientIds
                      /\ message.kind \in {"ACK", "REPLACED"} => venueOrders'[message.id] # "none"
                      /\ message.kind = "CANCELLED" => venueOrders'[message.id] = "canceled"
    BY DEF WireIsTrue
  <2>1. CASE message \in wire
    BY <1>3, <2>1 DEF SessionInv, WireIsTrue
  <2>2. CASE message = [number |-> sequence + 1, kind |-> kind, id |-> id]
    <3>1. message.id = id /\ message.kind = kind
      BY <2>2
    <3>2. venueOrders'[id] = state
      BY <1>1 DEF SessionInv
    <3> QED BY <1>1, <3>1, <3>2
  <2> QED BY <1>1, <2>1, <2>2
<1>5. BeliefIsNotAhead'
  BY <1>1, <1>3 DEF SessionInv, BeliefIsNotAhead
<1> QED BY <1>2, <1>4, <1>5 DEF SessionInv

\* An answer the client takes is true, so what it believes is (receive).
LEMMA ReceiveKeeps ==
  ASSUME SessionInv, NEW message \in wire, Receive(message)
  PROVE  SessionInv'
<1> DEFINE told == CASE message.kind \in {"ACK", "REPLACED"} -> "accepted"
                     [] message.kind = "CANCELLED" -> "canceled"
                     [] OTHER -> believed[message.id]
<1>1. believed' = [believed EXCEPT ![message.id] = told]
  BY DEF Receive
<1>2. UNCHANGED <<venueOrders, wire>>
  BY DEF Receive
<1>3. /\ message.id \in ClientIds /\ told \in States
      /\ told = "canceled" => venueOrders[message.id] = "canceled"
      /\ told = "accepted" => venueOrders[message.id] # "none"
  BY DEF SessionInv, WireIsTrue, BeliefIsNotAhead, States
<1> HIDE DEF told
<1>4. believed' \in [ClientIds -> States] /\ BeliefIsNotAhead'
  BY <1>1, <1>2, <1>3 DEF SessionInv, BeliefIsNotAhead
<1> QED BY <1>2, <1>4 DEF SessionInv, WireIsTrue

\* The session's invariant is inductive: a lost answer or connection only empties the wire.
LEMMA SessionInvStep == SessionInv /\ [SessionNext]_sessionVars => SessionInv'
<1> SUFFICES ASSUME SessionInv, [SessionNext]_sessionVars PROVE SessionInv'
  OBVIOUS
<1>1. ASSUME wire' \subseteq wire, UNCHANGED <<venueOrders, believed>> PROVE SessionInv'
  BY <1>1 DEF SessionInv, WireIsTrue, BeliefIsNotAhead
<1>2. CASE Connect(0) \/ Connect(expected) \/ Disconnect \/ WindowPasses \/ UNCHANGED sessionVars
  BY <1>1, <1>2 DEF Connect, Disconnect, WindowPasses, sessionVars
<1>3. ASSUME NEW message \in wire, Lose(message) PROVE SessionInv'
  BY <1>1, <1>3 DEF Lose
<1> QED BY <1>2, <1>3, SendKeeps, ReceiveKeeps DEF SessionNext

\* The session's invariant holds in every state.
LEMMA SessionInvAlways == SessionSpec => []SessionInv
  BY SessionInvInit, SessionInvStep, PTL DEF SessionSpec

\* For any orders, throttle and number of connections, what a client was last told of an
\* order is never ahead of the venue (send, receive).
THEOREM BeliefIsNotAheadAlways == SessionSpec => []BeliefIsNotAhead
<1>1. SessionInv => BeliefIsNotAhead BY DEF SessionInv
<1> QED BY <1>1, SessionInvAlways, PTL

\* Every step of the session is a step of ClientOrders or leaves the orders alone.
LEMMA SessionStepKeepsOrders ==
  SessionInv /\ [SessionNext]_sessionVars => [SessionClientOrders!Next]_venueOrders
<1> SUFFICES ASSUME SessionInv, [SessionNext]_sessionVars
             PROVE  SessionClientOrders!Next \/ venueOrders' = venueOrders
  OBVIOUS
<1>1. ASSUME NEW id \in ClientIds, NEW action \in Actions, Send(id, action)
      PROVE  SessionClientOrders!Next \/ venueOrders' = venueOrders
  <2>1. PICK state \in States :
           /\ venueOrders' = [venueOrders EXCEPT ![id] = state]
           /\ \/ state = venueOrders[id]
              \/ venueOrders[id] = "none" /\ state = "accepted"
              \/ venueOrders[id] = "accepted" /\ state = "canceled"
    BY <1>1, SendOutcome, Zenon
  <2>2. CASE state = venueOrders[id]
    BY <2>1, <2>2 DEF SessionInv
  <2>3. CASE venueOrders[id] = "none" /\ state = "accepted"
    BY <2>1, <2>3, Zenon DEF SessionClientOrders!Next, SessionClientOrders!Accept
  <2>4. CASE venueOrders[id] = "accepted" /\ state = "canceled"
    BY <2>1, <2>4, Zenon DEF SessionClientOrders!Next, SessionClientOrders!Cancel
  <2> QED BY <2>1, <2>2, <2>3, <2>4
<1>2. CASE Connect(0) \/ Connect(expected) \/ Disconnect \/ WindowPasses \/ UNCHANGED sessionVars
  BY <1>2 DEF Connect, Disconnect, WindowPasses, sessionVars
<1>3. ASSUME NEW message \in wire, Receive(message) \/ Lose(message)
      PROVE  venueOrders' = venueOrders
  BY <1>3 DEF Receive, Lose
<1> QED BY <1>1, <1>2, <1>3 DEF SessionNext

\* For any orders, throttle and number of connections, the session accepts an order at
\* most once and never enters a canceled one again (send).
THEOREM SessionKeepsOrdersAlways == SessionSpec => SessionKeepsOrders
<1>1. SessionInit => SessionClientOrders!Init
  BY DEF SessionInit, SessionClientOrders!Init
<1> QED
  BY <1>1, SessionStepKeepsOrders, SessionInvAlways, PTL
  DEF SessionSpec, SessionKeepsOrders, SessionClientOrders!Spec
-----------------------------------------------------------------------------
(* What a caught-up client knows                                           *)

Messages == [number : Nat, kind : Kinds, id : ClientIds]

Tells(message, id) == message.id = id /\ message.kind \in Telling
Told(message) == IF message.kind = "CANCELLED" THEN "canceled" ELSE "accepted"

\* On the first connection the answers are numbered by their places, and the client has
\* taken those up to its number.
NumberedAnswers ==
  /\ sentHere \in Seq(Messages)
  /\ sequence = Len(sentHere)
  /\ \A n \in 1 .. Len(sentHere) : sentHere[n].number = n
  /\ \A message \in wire : \E n \in 1 .. Len(sentHere) : message = sentHere[n]
  /\ expected = Len(taken) /\ expected \in 0 .. Len(sentHere)
  /\ taken \in Seq(Messages)

\* The last answer that tells the status of an order tells the status it has.
LastAnswerTells ==
  \A id \in ClientIds, n \in 1 .. Len(sentHere) :
    /\ Tells(sentHere[n], id)
    /\ \A m \in n + 1 .. Len(sentHere) : ~Tells(sentHere[m], id)
    => venueOrders[id] = Told(sentHere[n])

\* The client is right about an order that no answer it has yet to take tells about.
NoNewsIsKnowledge ==
  \A id \in ClientIds :
    (\A m \in expected + 1 .. Len(sentHere) : ~Tells(sentHere[m], id))
    => believed[id] = venueOrders[id]

FirstConnectionInv ==
  /\ connections \in Nat
  /\ connected => connections # 0
  /\ connections = 0 => expected = 0 /\ sentHere = << >>
  /\ connections < 2 => NumberedAnswers /\ LastAnswerTells /\ NoNewsIsKnowledge

\* Before the first connection nothing is sent and the client believes what is so.
LEMMA FirstConnectionInvInit == SessionInit => FirstConnectionInv
<1> SUFFICES ASSUME SessionInit PROVE FirstConnectionInv
  OBVIOUS
<1>1. sentHere = << >> /\ taken = << >> /\ Len(sentHere) = 0 /\ Len(taken) = 0
  BY DEF SessionInit
<1>2. NumberedAnswers
  BY <1>1 DEF SessionInit, NumberedAnswers
<1>3. LastAnswerTells /\ NoNewsIsKnowledge
  BY <1>1 DEF SessionInit, LastAnswerTells, NoNewsIsKnowledge
<1> QED BY <1>1, <1>2, <1>3 DEF SessionInit, FirstConnectionInv

\* A request gets the next number; its answer tells exactly what it changed (send).
LEMMA SendKeepsFirst ==
  ASSUME SessionInv, FirstConnectionInv, connections < 2,
         NEW id \in ClientIds, NEW action \in Actions, Send(id, action)
  PROVE  NumberedAnswers' /\ LastAnswerTells' /\ NoNewsIsKnowledge'
<1>1. PICK kind \in Kinds, state \in States :
           /\ venueOrders' = [venueOrders EXCEPT ![id] = state]
           /\ wire' = wire \cup {[number |-> sequence + 1, kind |-> kind, id |-> id]}
           /\ sentHere' = Append(sentHere, [number |-> sequence + 1, kind |-> kind, id |-> id])
           /\ kind \in {"ACK", "REPLACED"} => state = "accepted"
           /\ kind = "CANCELLED" => state = "canceled"
           /\ kind \notin Telling => state = venueOrders[id]
  BY SendOutcome, Zenon
<1> DEFINE message == [number |-> sequence + 1, kind |-> kind, id |-> id]
<1>2. sequence' = sequence + 1 /\ UNCHANGED <<expected, taken, believed>>
  BY DEF Send
<1>3. NumberedAnswers /\ LastAnswerTells /\ NoNewsIsKnowledge
  BY DEF FirstConnectionInv
<1>3a. sentHere \in Seq(Messages) /\ sequence = Len(sentHere) /\ sequence \in Nat
  BY <1>3 DEF NumberedAnswers
<1>4. message \in Messages /\ message.number = sequence + 1
      /\ message.kind = kind /\ message.id = id
  BY <1>3a DEF Messages
<1>5. sentHere' = Append(sentHere, message) /\ wire' = wire \cup {message}
  BY <1>1
<1> HIDE DEF message
<1>6. /\ sentHere' \in Seq(Messages) /\ Len(sentHere') = Len(sentHere) + 1
      /\ \A n \in 1 .. Len(sentHere) : sentHere'[n] = sentHere[n]
      /\ sentHere'[Len(sentHere) + 1] = message
      /\ Len(sentHere) \in Nat
  BY <1>3a, <1>4, <1>5
<1>7. NumberedAnswers'
  <2>1. \A n \in 1 .. Len(sentHere') : sentHere'[n].number = n
    BY <1>3, <1>4, <1>6 DEF NumberedAnswers
  <2>2. ASSUME NEW other \in wire' PROVE \E n \in 1 .. Len(sentHere') : other = sentHere'[n]
    <3>1. CASE other \in wire
      BY <1>3, <1>6, <3>1 DEF NumberedAnswers
    <3>2. CASE other = message
      BY <1>6, <3>2
    <3> QED BY <1>5, <3>1, <3>2
  <2>3. sequence' = Len(sentHere')
    BY <1>2, <1>3a, <1>6
  <2>4. expected' = Len(taken') /\ expected' \in 0 .. Len(sentHere') /\ taken' \in Seq(Messages)
    BY <1>2, <1>3, <1>6 DEF NumberedAnswers
  <2> QED BY <1>6, <2>1, <2>2, <2>3, <2>4, Zenon DEF NumberedAnswers
<1>8. \A other \in ClientIds : ~Tells(message, other) => venueOrders'[other] = venueOrders[other]
  BY <1>1, <1>4 DEF Tells, SessionInv
<1>9. \A other \in ClientIds : Tells(message, other) => venueOrders'[other] = Told(message)
  BY <1>1, <1>4 DEF Tells, Told, Telling, SessionInv
<1>10. LastAnswerTells'
  <2> SUFFICES ASSUME NEW other \in ClientIds, NEW n \in 1 .. Len(sentHere'),
                      Tells(sentHere'[n], other),
                      \A m \in n + 1 .. Len(sentHere') : ~Tells(sentHere'[m], other)
               PROVE  venueOrders'[other] = Told(sentHere'[n])
    BY DEF LastAnswerTells
  <2>1. CASE n = Len(sentHere) + 1
    BY <1>6, <1>9, <2>1, SMTT(30)
  <2>2. CASE n # Len(sentHere) + 1
    <3>1. n \in 1 .. Len(sentHere) /\ sentHere'[n] = sentHere[n]
      BY <1>6, <2>2
    <3>2. ~Tells(message, other)
      BY <1>6, <3>1
    <3>3. \A m \in n + 1 .. Len(sentHere) : ~Tells(sentHere[m], other)
      BY <1>6, <3>1, SMTT(30)
    <3> QED BY <1>3, <1>8, <3>1, <3>2, <3>3, SMTT(30) DEF LastAnswerTells
  <2> QED BY <2>1, <2>2
<1>11. NoNewsIsKnowledge'
  <2> SUFFICES ASSUME NEW other \in ClientIds,
                      \A m \in expected + 1 .. Len(sentHere') : ~Tells(sentHere'[m], other)
               PROVE  believed[other] = venueOrders'[other]
    BY <1>2 DEF NoNewsIsKnowledge
  <2>1. expected \in 0 .. Len(sentHere)
    BY <1>3 DEF NumberedAnswers
  <2>2. ~Tells(message, other)
    BY <1>6, <2>1
  <2>3. \A m \in expected + 1 .. Len(sentHere) : ~Tells(sentHere[m], other)
    BY <1>6, <2>1
  <2> QED BY <1>3, <1>8, <2>2, <2>3, SMTT(30) DEF NoNewsIsKnowledge
<1> QED BY <1>7, <1>10, <1>11

\* The client takes the next answer, and then knows what it tells if nothing later tells
\* about the same order (receive).
LEMMA ReceiveKeepsFirst ==
  ASSUME SessionInv, FirstConnectionInv, connections < 2,
         NEW message \in wire, Receive(message)
  PROVE  NumberedAnswers' /\ LastAnswerTells' /\ NoNewsIsKnowledge'
<1>1. NumberedAnswers /\ LastAnswerTells /\ NoNewsIsKnowledge
  BY DEF FirstConnectionInv
<1>2. /\ expected' = expected + 1 /\ message.number = expected + 1
      /\ taken' = Append(taken, message)
      /\ UNCHANGED <<sequence, venueOrders, sentHere, wire>>
  BY DEF Receive, InSequence
<1>3. PICK n \in 1 .. Len(sentHere) : message = sentHere[n]
  BY <1>1 DEF NumberedAnswers
<1>4. n = expected + 1 /\ message \in Messages /\ Len(sentHere) \in Nat
  BY <1>1, <1>2, <1>3 DEF NumberedAnswers
<1>5. NumberedAnswers'
  <2>1. taken' \in Seq(Messages) /\ Len(taken') = Len(taken) + 1
    BY <1>1, <1>2, <1>4 DEF NumberedAnswers
  <2>2. expected' = Len(taken') /\ expected' \in 0 .. Len(sentHere)
    BY <1>1, <1>2, <1>3, <1>4, <2>1 DEF NumberedAnswers
  <2> QED BY <1>1, <1>2, <2>1, <2>2 DEF NumberedAnswers
<1>6. LastAnswerTells'
  BY <1>1, <1>2 DEF LastAnswerTells
<1>7. /\ \A id \in ClientIds : Tells(message, id) => believed'[id] = Told(message)
      /\ \A id \in ClientIds : ~Tells(message, id) => believed'[id] = believed[id]
  <2> DEFINE told == CASE message.kind \in {"ACK", "REPLACED"} -> "accepted"
                       [] message.kind = "CANCELLED" -> "canceled"
                       [] OTHER -> believed[message.id]
  <2>1. believed' = [believed EXCEPT ![message.id] = told]
    BY DEF Receive
  <2>2. /\ message.kind \in Telling => told = Told(message)
        /\ message.kind \notin Telling => told = believed[message.id]
    BY DEF Telling, Told
  <2> HIDE DEF told
  <2> QED BY <2>1, <2>2 DEF Tells, SessionInv
<1>8. NoNewsIsKnowledge'
  <2> SUFFICES ASSUME NEW id \in ClientIds,
                      \A m \in expected + 2 .. Len(sentHere) : ~Tells(sentHere[m], id)
               PROVE  believed'[id] = venueOrders[id]
    BY <1>1, <1>2, SMTT(30) DEF NoNewsIsKnowledge, NumberedAnswers
  <2>1. CASE Tells(message, id)
    BY <1>1, <1>3, <1>4, <1>7, <2>1, SMTT(30) DEF LastAnswerTells, NumberedAnswers
  <2>2. CASE ~Tells(message, id)
    <3>1. \A m \in expected + 1 .. Len(sentHere) : ~Tells(sentHere[m], id)
      BY <1>1, <1>3, <1>4, <2>2 DEF NumberedAnswers
    <3> QED BY <1>1, <1>7, <2>2, <3>1, Zenon DEF NoNewsIsKnowledge
  <2> QED BY <2>1, <2>2, Zenon
<1> QED BY <1>5, <1>6, <1>8

\* The invariant of the first connection is inductive; from the second connection on it
\* asks nothing (connect, reconnect).
LEMMA FirstConnectionInvStep ==
  SessionInv /\ FirstConnectionInv /\ [SessionNext]_sessionVars => FirstConnectionInv'
<1> SUFFICES ASSUME SessionInv, FirstConnectionInv, [SessionNext]_sessionVars
             PROVE  FirstConnectionInv'
  OBVIOUS
<1>1. ASSUME wire' \subseteq wire, connected' => connected,
             UNCHANGED <<sequence, venueOrders, sentHere, expected, taken, believed, connections>>
      PROVE  FirstConnectionInv'
  BY <1>1 DEF FirstConnectionInv, NumberedAnswers, LastAnswerTells, NoNewsIsKnowledge
<1>2. CASE Connect(0) \/ Connect(expected)
  <2>1. CASE connections = 0
    <3>1. /\ sentHere' = << >> /\ taken' = << >> /\ wire' = {} /\ sequence' = 0 /\ expected' = 0
          /\ connections' = 1 /\ UNCHANGED <<venueOrders, believed>>
      BY <1>2, <2>1 DEF Connect, FirstConnectionInv
    <3>2. NumberedAnswers' /\ LastAnswerTells' /\ NoNewsIsKnowledge'
      <4>1. Len(sentHere') = 0 /\ Len(taken') = 0
        BY <3>1
      <4>2. NumberedAnswers' /\ LastAnswerTells'
        BY <3>1, <4>1 DEF NumberedAnswers, LastAnswerTells
      <4>3. believed = venueOrders
        BY <2>1 DEF FirstConnectionInv, NoNewsIsKnowledge, SessionInv
      <4> QED BY <3>1, <4>2, <4>3 DEF NoNewsIsKnowledge
    <3> QED BY <3>1, <3>2 DEF FirstConnectionInv
  <2>2. CASE connections # 0
    BY <1>2, <2>2 DEF Connect, FirstConnectionInv
  <2> QED BY <2>1, <2>2
<1>3. CASE Disconnect \/ WindowPasses \/ UNCHANGED sessionVars
  BY <1>1, <1>3 DEF Disconnect, WindowPasses, sessionVars
<1>4. ASSUME NEW message \in wire, Lose(message) PROVE FirstConnectionInv'
  BY <1>1, <1>4 DEF Lose
<1>5. ASSUME NEW id \in ClientIds, NEW action \in Actions, Send(id, action)
      PROVE  FirstConnectionInv'
  <2>1. connected' = connected /\ connections' = connections /\ connections # 0
    BY <1>5 DEF Send, FirstConnectionInv
  <2>2. connections < 2 => NumberedAnswers' /\ LastAnswerTells' /\ NoNewsIsKnowledge'
    BY <1>5, SendKeepsFirst
  <2> QED BY <2>1, <2>2 DEF FirstConnectionInv
<1>6. ASSUME NEW message \in wire, Receive(message) PROVE FirstConnectionInv'
  <2>1. connected' = connected /\ connections' = connections /\ connections # 0
    BY <1>6 DEF Receive, FirstConnectionInv
  <2>2. connections < 2 => NumberedAnswers' /\ LastAnswerTells' /\ NoNewsIsKnowledge'
    BY <1>6, ReceiveKeepsFirst
  <2> QED BY <2>1, <2>2 DEF FirstConnectionInv
<1> QED BY <1>2, <1>3, <1>4, <1>5, <1>6 DEF SessionNext

\* For any orders, throttle and number of requests, and however answers are repeated or
\* overtaken, a client that has taken every answer of its first connection knows the
\* status of every order (send, receive).
THEOREM CaughtUpClientKnowsAlways == SessionSpec => []CaughtUpClientKnows
<1>1. SessionInv /\ FirstConnectionInv => CaughtUpClientKnows
  <2> SUFFICES ASSUME SessionInv, FirstConnectionInv, connections = 1, taken = sentHere
               PROVE  believed = venueOrders
    BY DEF CaughtUpClientKnows
  <2>1. NumberedAnswers /\ NoNewsIsKnowledge
    BY DEF FirstConnectionInv
  <2>2. expected = Len(sentHere) /\ expected \in Nat
    BY <2>1 DEF NumberedAnswers
  <2>3. \A id \in ClientIds : believed[id] = venueOrders[id]
    BY <2>1, <2>2 DEF NoNewsIsKnowledge
  <2> QED BY <2>3 DEF SessionInv
<1> QED BY <1>1, FirstConnectionInvInit, FirstConnectionInvStep, SessionInvAlways, PTL
        DEF SessionSpec
=============================================================================
