---------------------------- MODULE EngineProofs ----------------------------
(***************************************************************************)
(* Proofs about the execution engine composed with the risk engine         *)
(* (ExecutionEngine), for any failure threshold, cooldown, intents, limits *)
(* and clocks.                                                             *)
(***************************************************************************)
EXTENDS ExecutionEngine, TLAPS

-----------------------------------------------------------------------------
(* The execution engine                                                    *)

\* What submit checked before it called the risk engine still holds: nobody else
\* gets the engine's mutex before submit returns.
CallAdmitted ==
  call # Idle =>
    /\ ~halted /\ gateway = "Ready" /\ circuit # "Open"
    /\ ~(circuit = "HalfOpen" /\ inFlight)
    /\ ~IsActive(call.intent.corr)

\* AtMostOneProbe made inductive: no order was sent before the flag was raised.
ProbeCounted ==
  circuit = "HalfOpen" => probes <= 1 /\ (~inFlight => probes = 0)

\* AtMostOneLateSend made inductive: while risk is open, and while an approved
\* submission is still to be sent, no late order has been sent.
LateCounted ==
  /\ lateSends <= 1
  /\ RiskOpen => lateSends = 0
  /\ call.phase = "finish" /\ call.verdict = "Approved" => lateSends = 0

\* VenueIdsUnique made inductive: ids in use have been handed out.
VenueIdsIssued ==
  /\ \A c \in Correlations : active[c].venueId < nextVenueId
  /\ VenueIdsUnique

EngineInv ==
  /\ EngineTypeOK
  /\ CircuitMatchesFailures
  /\ CallAdmitted
  /\ ProbeCounted
  /\ LateCounted
  /\ VenueIdsIssued

\* A newly constructed engine satisfies the invariant.
LEMMA EngineInitInv == Init => EngineInv
<1> SUFFICES ASSUME Init PROVE EngineInv
  OBVIOUS
<1> USE DEF Init, EngineInit, NoOrder
<1>1. EngineTypeOK
  <2>1. [venueId |-> 0, price |-> 0, quantity |-> 0] \in Order
    BY RiskAssumption DEF Order, Int64, MinInt64
  <2>2. active \in [Correlations -> Order]
    BY <2>1
  <2>3. call \in Calls
    BY DEF Calls
  <2>4. halted \in BOOLEAN /\ inFlight \in BOOLEAN
    BY Zenon
  <2>5. /\ nextVenueId \in Nat \ {0} /\ failures \in Nat /\ openedAt \in Nat
        /\ probes \in Nat /\ lateSends \in Nat
    BY SMT
  <2>6. gateway \in GatewayStates /\ circuit \in CircuitStates
    BY DEF GatewayStates, CircuitStates
  <2> QED
    BY ONLY <2>2, <2>3, <2>4, <2>5, <2>6, Zenon DEF EngineTypeOK
<1>2. CircuitMatchesFailures /\ CallAdmitted /\ ProbeCounted
  BY EngineAssumption DEF CircuitMatchesFailures, CallAdmitted, ProbeCounted
<1>3. LateCounted
  BY DEF LateCounted, RiskOpen, RiskInit, NoLimits, Idle
<1>4. VenueIdsIssued
  BY DEF VenueIdsIssued, VenueIdsUnique, IsActive
<1> QED  BY <1>1, <1>2, <1>3, <1>4 DEF EngineInv

-----------------------------------------------------------------------------
(* The history variables over a step that sends nothing.                   *)

\* A step that sends nothing leaves the count of late sends in order.
LEMMA QuietLate ==
  ASSUME EngineInv, Observe, nextVenueId' = nextVenueId,
         call'.phase = "finish" /\ call'.verdict = "Approved" => lateSends = 0
  PROVE  lateSends' \in Nat /\ LateCounted'
<1>1. nextVenueId' - nextVenueId = 0 /\ lateSends \in Nat /\ lateSends <= 1
  BY DEF EngineInv, EngineTypeOK, LateCounted
<1>2. lateSends' = IF RiskOpen' THEN 0 ELSE lateSends
  BY <1>1 DEF Observe
<1> QED  BY <1>1, <1>2 DEF LateCounted

\* A step that sends nothing leaves the count of probes in order.
LEMMA QuietProbe ==
  ASSUME EngineInv, Observe, nextVenueId' = nextVenueId,
         circuit = "HalfOpen" /\ circuit' = "HalfOpen" => (inFlight' <=> inFlight)
  PROVE  probes' \in Nat /\ ProbeCounted'
<1>1. nextVenueId' - nextVenueId = 0 /\ probes \in Nat /\ ProbeCounted
  BY DEF EngineInv, EngineTypeOK
<1>2. probes' = IF circuit = "HalfOpen" /\ circuit' = "HalfOpen"
                THEN probes ELSE 0
  BY <1>1 DEF Observe
<1> QED  BY <1>1, <1>2 DEF ProbeCounted

\* A submission in progress has an intent the strategy can submit.
LEMMA CallShape ==
  ASSUME call \in Calls, call # Idle
  PROVE  /\ call.phase \in {"evaluate", "finish"}
         /\ call.intent \in Intents /\ call.now \in Times
         /\ call.intent.corr \in Correlations
  BY DEF Calls, Correlations

\* evaluate approves only while the risk engine is open.
LEMMA ApprovalNeedsOpenRisk ==
  ASSUME NEW i, NEW now, Verdict(i, now) = "Approved"
  PROVE  RiskOpen
<1>1. OrderVerdict(i, now) = "Approved"
  BY DEF Verdict
<1> QED  BY <1>1 DEF OrderVerdict, RiskOpen

\* evaluate answers with one of its verdicts.
LEMMA VerdictType ==
  ASSUME NEW i, NEW now
  PROVE  Verdict(i, now) \in Verdicts
<1>1. OrderVerdict(i, now) \in Verdicts
  BY DEF OrderVerdict, Verdicts
<1> QED  BY <1>1 DEF Verdict, Verdicts

\* A failure keeps the circuit and its count in step.
LEMMA FailureKeepsCircuit ==
  ASSUME EngineInv, NEW from \in CircuitStates, NEW now \in Times,
         CircuitFailure(from, now),
         from = "Closed" <=> failures < Threshold
  PROVE  /\ circuit' \in CircuitStates /\ failures' \in Nat
         /\ openedAt' \in Nat /\ CircuitMatchesFailures'
<1>1. failures \in Nat /\ openedAt \in Nat /\ now \in Nat
  BY RiskAssumption DEF EngineInv, EngineTypeOK
<1>2. Threshold \in Nat
  BY EngineAssumption
<1> QED
  BY <1>1, <1>2 DEF CircuitFailure, CircuitStates, CircuitMatchesFailures

-----------------------------------------------------------------------------
(* One lemma per operation: what it does to the invariant.                 *)

\* Steps that end with no submission in progress and leave active_ and the id
\* counter alone: what remains to be shown is that the circuit keeps its type and its count.
LEMMA QuietStep ==
  ASSUME EngineInv, Observe, call' = Idle,
         UNCHANGED <<nextVenueId, active, inFlight>>,
         gateway' \in GatewayStates, halted' \in BOOLEAN,
         circuit' \in CircuitStates, failures' \in Nat, openedAt' \in Nat,
         CircuitMatchesFailures'
  PROVE  EngineInv'
<1>1. probes' \in Nat /\ ProbeCounted'
  BY QuietProbe
<1>2. lateSends' \in Nat /\ LateCounted'
  BY QuietLate DEF Idle
<1>3. CallAdmitted'
  BY DEF CallAdmitted
<1>4. VenueIdsIssued'
  BY DEF EngineInv, VenueIdsIssued, VenueIdsUnique, IsActive
<1>5. Idle \in Calls
  BY DEF Calls
<1>6. EngineTypeOK'
  <2>1. nextVenueId' \in Nat \ {0} /\ inFlight' \in BOOLEAN
        /\ active' \in [Correlations -> Order] /\ call' \in Calls
    BY <1>5, Zenon DEF EngineInv, EngineTypeOK
  <2> QED  BY <1>1, <1>2, <2>1, Zenon DEF EngineTypeOK
<1> QED  BY <1>1, <1>2, <1>3, <1>4, <1>6, Zenon DEF EngineInv

\* set_gateway_state keeps the invariant.
LEMMA SetGatewayStateInv ==
  ASSUME EngineInv, Observe, NEW state \in GatewayStates, SetGatewayState(state)
  PROVE  EngineInv'
<1>1. /\ call = Idle /\ call' = Idle /\ gateway' = state
      /\ UNCHANGED <<nextVenueId, active, inFlight, halted>>
  BY DEF SetGatewayState
<1>2. halted' \in BOOLEAN
  BY <1>1, Zenon DEF EngineInv, EngineTypeOK
<1>3. CASE state = "Ready"
  <2>1. circuit' = "Closed" /\ failures' = 0 /\ openedAt' = 0
    BY <1>3 DEF SetGatewayState, CircuitReset
  <2>2. CircuitMatchesFailures' /\ circuit' \in CircuitStates
    BY <2>1, EngineAssumption DEF CircuitMatchesFailures, CircuitStates
  <2> QED  BY <1>1, <1>2, <2>1, <2>2, QuietStep
<1>4. CASE state # "Ready"
  <2>1. UNCHANGED <<circuit, failures, openedAt>>
    BY <1>4 DEF SetGatewayState, circuitVars
  <2>2. /\ CircuitMatchesFailures' /\ circuit' \in CircuitStates
        /\ failures' \in Nat /\ openedAt' \in Nat
    BY <2>1 DEF EngineInv, EngineTypeOK, CircuitMatchesFailures
  <2> QED  BY <1>1, <1>2, <2>2, QuietStep
<1> QED  BY <1>3, <1>4

\* set_halted keeps the invariant.
LEMMA SetHaltedInv ==
  ASSUME EngineInv, Observe, NEW halt \in BOOLEAN, SetHalted(halt)
  PROVE  EngineInv'
<1>1. /\ call = Idle /\ call' = Idle /\ halted' = halt
      /\ UNCHANGED <<nextVenueId, active, inFlight>>
      /\ UNCHANGED <<circuit, failures, openedAt>>
  BY DEF SetHalted, circuitVars
<1>2. gateway' \in GatewayStates
  BY DEF SetHalted, EngineInv, EngineTypeOK, GatewayStates
<1>3. /\ CircuitMatchesFailures' /\ circuit' \in CircuitStates
      /\ failures' \in Nat /\ openedAt' \in Nat
  BY <1>1 DEF EngineInv, EngineTypeOK, CircuitMatchesFailures
<1> QED  BY <1>1, <1>2, <1>3, QuietStep

\* acknowledge of an id that is not held keeps the invariant.
LEMMA AcknowledgeUnknownInv ==
  ASSUME EngineInv, Observe, NEW c, NEW v, NEW now \in Times,
         AcknowledgeUnknown(c, v, now)
  PROVE  EngineInv'
<1>1. /\ call = Idle /\ call' = Idle /\ gateway' \in GatewayStates
      /\ UNCHANGED <<nextVenueId, active, inFlight, halted>>
  BY DEF AcknowledgeUnknown, GatewayStates
<1>2. halted' \in BOOLEAN
  BY <1>1, Zenon DEF EngineInv, EngineTypeOK
<1>3. /\ CircuitMatchesFailures' /\ circuit' \in CircuitStates
      /\ failures' \in Nat /\ openedAt' \in Nat
  <2>1. circuit \in CircuitStates /\ (circuit = "Closed" <=> failures < Threshold)
    BY DEF EngineInv, EngineTypeOK, CircuitMatchesFailures
  <2>2. CircuitFailure(circuit, now)
    BY DEF AcknowledgeUnknown
  <2> QED  BY <2>1, <2>2, FailureKeepsCircuit
<1> QED  BY <1>1, <1>2, <1>3, QuietStep

\* An order that leaves active_, or changes in place, keeps the ids apart.
LEMMA AcknowledgeActiveInv ==
  ASSUME EngineInv, Observe, NEW c \in Correlations, NEW v,
         AcknowledgeActive(c, v)
  PROVE  EngineInv'
<1>1. /\ call = Idle /\ call' = Idle
      /\ UNCHANGED <<gateway, halted, nextVenueId>>
      /\ active' = [active EXCEPT ![c] = NoOrder]
  BY DEF AcknowledgeActive
<1>2. NoOrder \in Order
  BY RiskAssumption DEF NoOrder, Order, Int64, MinInt64
<1>3. active \in [Correlations -> Order] /\ nextVenueId \in Nat \ {0}
  BY DEF EngineInv, EngineTypeOK
<1>4. active' \in [Correlations -> Order]
  BY <1>1, <1>2, <1>3
<1>5. VenueIdsIssued'
  BY <1>1, <1>3 DEF EngineInv, VenueIdsIssued, VenueIdsUnique, IsActive, NoOrder
<1>6. /\ CircuitMatchesFailures' /\ circuit' \in CircuitStates
      /\ failures' \in Nat /\ openedAt' \in Nat
      /\ circuit' # "HalfOpen"
  <2>1. CASE circuit = "HalfOpen"
    <3>1. circuit' = "Closed" /\ failures' = 0 /\ openedAt' = 0
      BY <2>1 DEF AcknowledgeActive, CircuitReset
    <3> QED  BY <3>1, EngineAssumption DEF CircuitMatchesFailures, CircuitStates
  <2>2. CASE circuit # "HalfOpen"
    <3>1. UNCHANGED <<circuit, failures, openedAt>>
      BY <2>2 DEF AcknowledgeActive, circuitVars
    <3> QED
      BY <2>2, <3>1 DEF EngineInv, EngineTypeOK, CircuitMatchesFailures
  <2> QED  BY <2>1, <2>2
<1>7. probes' \in Nat /\ ProbeCounted'
  BY <1>1, <1>6, QuietProbe
<1>8. lateSends' \in Nat /\ LateCounted'
  BY <1>1, QuietLate DEF Idle
<1>9. CallAdmitted'
  BY <1>1 DEF CallAdmitted
<1>10. EngineTypeOK'
  <2>1. call' \in Calls /\ gateway' \in GatewayStates /\ halted' \in BOOLEAN
        /\ nextVenueId' \in Nat \ {0}
    BY <1>1, Zenon DEF EngineInv, EngineTypeOK
  <2>2. inFlight' \in BOOLEAN
    BY Zenon DEF AcknowledgeActive, EngineInv, EngineTypeOK
  <2> QED  BY <1>4, <1>6, <1>7, <1>8, <2>1, <2>2, Zenon DEF EngineTypeOK
<1> QED
  BY <1>5, <1>6, <1>7, <1>8, <1>9, <1>10, Zenon DEF EngineInv

\* cancel_replace keeps the invariant.
LEMMA CancelReplaceInv ==
  ASSUME EngineInv, Observe, NEW c \in Correlations, NEW r \in Replacements,
         CancelReplace(c, r[1], r[2])
  PROVE  EngineInv'
<1>1. /\ call = Idle /\ call' = Idle
      /\ UNCHANGED <<gateway, halted, nextVenueId, inFlight>>
      /\ UNCHANGED <<circuit, failures, openedAt>>
      /\ active' = [active EXCEPT ![c].price = r[1], ![c].quantity = r[2]]
  BY DEF CancelReplace, circuitVars
<1>2. r[1] \in Int64 /\ r[2] \in Int64
  BY EngineAssumption
<1>3. active \in [Correlations -> Order]
  BY DEF EngineInv, EngineTypeOK
<1>4. /\ active' \in [Correlations -> Order]
      /\ \A d \in Correlations : active'[d].venueId = active[d].venueId
  BY <1>1, <1>2, <1>3, Zenon DEF Order
<1>5. VenueIdsIssued'
  BY <1>1, <1>4 DEF EngineInv, VenueIdsIssued, VenueIdsUnique, IsActive
<1>6. CircuitMatchesFailures' /\ CallAdmitted'
  BY <1>1 DEF EngineInv, CircuitMatchesFailures, CallAdmitted
<1>7. probes' \in Nat /\ ProbeCounted'
  BY <1>1, QuietProbe
<1>8. lateSends' \in Nat /\ LateCounted'
  BY <1>1, QuietLate DEF Idle
<1>9. EngineTypeOK'
  <2>1. /\ call' \in Calls /\ gateway' \in GatewayStates /\ halted' \in BOOLEAN
        /\ nextVenueId' \in Nat \ {0} /\ inFlight' \in BOOLEAN
        /\ circuit' \in CircuitStates /\ failures' \in Nat /\ openedAt' \in Nat
    BY <1>1, Zenon DEF EngineInv, EngineTypeOK
  <2> QED  BY <1>4, <1>7, <1>8, <2>1, Zenon DEF EngineTypeOK
<1> QED
  BY <1>5, <1>6, <1>7, <1>8, <1>9, Zenon DEF EngineInv

\* A submission that goes on to the risk engine: nothing but call and an open
\* circuit, now half open, has changed.
LEMMA SubmitAdmittedInv ==
  ASSUME EngineInv, Observe, NEW i \in Intents, NEW now \in Times,
         Admission(i, now) = "evaluate", SubmitCall(i, now)
  PROVE  EngineInv'
<1>1. /\ circuit' = CircuitTried
      /\ call' = [phase |-> "evaluate", intent |-> i, now |-> now]
      /\ UNCHANGED <<failures, openedAt>>
      /\ UNCHANGED <<gateway, halted, inFlight, nextVenueId, active>>
  BY DEF SubmitCall, callVars
<1>2. /\ ~IsActive(i.corr) /\ ~halted /\ gateway = "Ready"
      /\ ~(circuit # "Closed" /\ inFlight)
  BY DEF Admission
<1>3. /\ circuit' \in CircuitStates /\ circuit' # "Open"
      /\ (circuit' = "Closed" <=> circuit = "Closed")
      /\ CircuitMatchesFailures'
  BY <1>1
  DEF EngineInv, EngineTypeOK, CircuitMatchesFailures, CircuitTried, CircuitStates
<1>4. CallAdmitted'
  BY <1>1, <1>2, <1>3 DEF CallAdmitted, IsActive
<1>5. probes' \in Nat /\ ProbeCounted'
  BY <1>1, QuietProbe
<1>6. lateSends' \in Nat /\ LateCounted'
  BY <1>1, QuietLate, SMTT(30)
<1>7. VenueIdsIssued'
  BY <1>1, Zenon DEF EngineInv, VenueIdsIssued, VenueIdsUnique, IsActive
<1>8. EngineTypeOK'
  <2>1. call' \in Calls
    BY <1>1 DEF Calls
  <2>2. /\ gateway' \in GatewayStates /\ halted' \in BOOLEAN
        /\ nextVenueId' \in Nat \ {0} /\ inFlight' \in BOOLEAN
        /\ active' \in [Correlations -> Order]
        /\ failures' \in Nat /\ openedAt' \in Nat
    BY <1>1, Zenon DEF EngineInv, EngineTypeOK
  <2> QED  BY <1>3, <1>5, <1>6, <2>1, <2>2, Zenon DEF EngineTypeOK
<1> QED
  BY <1>3, <1>4, <1>5, <1>6, <1>7, <1>8, Zenon DEF EngineInv

\* A submission turned away before the risk engine.
LEMMA SubmitRefusedInv ==
  ASSUME EngineInv, Observe, NEW i \in Intents, NEW now \in Times,
         Admission(i, now) # "evaluate", SubmitCall(i, now)
  PROVE  EngineInv'
<1>1. /\ call' = Idle
      /\ UNCHANGED <<gateway, halted, inFlight, nextVenueId, active>>
  BY DEF SubmitCall, callVars
<1>2. gateway' \in GatewayStates /\ halted' \in BOOLEAN
  BY <1>1, Zenon DEF EngineInv, EngineTypeOK
<1>3. /\ circuit \in CircuitStates /\ failures \in Nat /\ openedAt \in Nat
      /\ (circuit = "Closed" <=> failures < Threshold)
  BY DEF EngineInv, EngineTypeOK, CircuitMatchesFailures
<1>4. CircuitTried \in CircuitStates /\ (CircuitTried = "Closed" <=> circuit = "Closed")
  BY <1>3 DEF CircuitTried, CircuitStates
<1>5. /\ circuit' \in CircuitStates /\ failures' \in Nat /\ openedAt' \in Nat
      /\ CircuitMatchesFailures'
  <2>1. CASE UNCHANGED circuitVars
    BY <1>3, <2>1 DEF circuitVars, CircuitMatchesFailures
  <2>2. CASE circuit' = CircuitTried /\ UNCHANGED <<failures, openedAt>>
    BY <1>3, <1>4, <2>2 DEF CircuitMatchesFailures
  <2>3. CASE CircuitFailure(CircuitTried, now)
    BY <1>3, <1>4, <2>3, FailureKeepsCircuit
  <2> QED  BY <2>1, <2>2, <2>3 DEF SubmitCall
<1> QED  BY <1>1, <1>2, <1>5, QuietStep

\* evaluate, called by submit, keeps the invariant.
LEMMA SubmitEvaluateInv ==
  ASSUME EngineInv, Observe, SubmitEvaluate
  PROVE  EngineInv'
<1>1. /\ call # Idle
      /\ call' = [phase |-> "finish", intent |-> call.intent,
                  now |-> call.now, verdict |-> Verdict(call.intent, call.now)]
      /\ UNCHANGED <<circuit, failures, openedAt>>
      /\ UNCHANGED <<gateway, halted, inFlight, nextVenueId, active>>
  BY DEF SubmitEvaluate, circuitVars, callVars, Idle
<1>2. call.intent \in Intents /\ call.now \in Times
  BY <1>1, CallShape DEF EngineInv, EngineTypeOK
<1>3. call'.verdict = "Approved" => lateSends = 0
  BY <1>1, ApprovalNeedsOpenRisk DEF EngineInv, LateCounted
<1>4. lateSends' \in Nat /\ LateCounted'
  BY <1>1, <1>3, QuietLate
<1>5. probes' \in Nat /\ ProbeCounted'
  BY <1>1, QuietProbe
<1>6. CallAdmitted' /\ CircuitMatchesFailures'
  BY <1>1 DEF EngineInv, CallAdmitted, IsActive, CircuitMatchesFailures
<1>7. VenueIdsIssued'
  BY <1>1 DEF EngineInv, VenueIdsIssued, VenueIdsUnique, IsActive
<1>8. EngineTypeOK'
  <2>1. call' \in Calls
    BY <1>1, <1>2, VerdictType DEF Calls
  <2>2. /\ gateway' \in GatewayStates /\ halted' \in BOOLEAN
        /\ nextVenueId' \in Nat \ {0} /\ inFlight' \in BOOLEAN
        /\ active' \in [Correlations -> Order] /\ circuit' \in CircuitStates
        /\ failures' \in Nat /\ openedAt' \in Nat
    BY <1>1, Zenon DEF EngineInv, EngineTypeOK
  <2> QED  BY <1>4, <1>5, <2>1, <2>2, Zenon DEF EngineTypeOK
<1> QED
  BY <1>4, <1>5, <1>6, <1>7, <1>8, Zenon DEF EngineInv

\* A submission that the risk engine refuses keeps the invariant.
LEMMA SubmitRejectInv ==
  ASSUME EngineInv, Observe, SubmitReject
  PROVE  EngineInv'
<1>1. /\ call # Idle /\ call' = Idle
      /\ UNCHANGED <<gateway, halted, inFlight, nextVenueId, active>>
  BY DEF SubmitReject, callVars, Idle
<1>2. gateway' \in GatewayStates /\ halted' \in BOOLEAN
  BY <1>1, Zenon DEF EngineInv, EngineTypeOK
<1>3. /\ circuit \in CircuitStates /\ call.now \in Times
      /\ (circuit = "Closed" <=> failures < Threshold)
  BY <1>1, CallShape DEF EngineInv, EngineTypeOK, CircuitMatchesFailures
<1>4. CircuitFailure(circuit, call.now)
  BY DEF SubmitReject
<1> QED
  BY <1>1, <1>2, <1>3, <1>4, FailureKeepsCircuit, QuietStep

\* The one step that sends: the circuit is not open, no probe is out if it is
\* half open, no late order has been sent, and the id is a new one.
LEMMA SubmitSendInv ==
  ASSUME EngineInv, Observe, SubmitSend
  PROVE  EngineInv'
<1> DEFINE corr == call.intent.corr
<1>1. /\ call # Idle /\ call' = Idle
      /\ call.phase = "finish" /\ call.verdict = "Approved"
      /\ inFlight' = (inFlight \/ circuit = "HalfOpen")
      /\ nextVenueId' = nextVenueId + 1
      /\ active' = [active EXCEPT ![corr] =
                      [venueId |-> nextVenueId, price |-> call.intent.price,
                       quantity |-> call.intent.quantity]]
      /\ UNCHANGED <<circuit, failures, openedAt, gateway, halted>>
  BY DEF SubmitSend, Activate, circuitVars, Idle
<1>2. call.intent \in Intents /\ corr \in Correlations
  BY <1>1, CallShape DEF EngineInv, EngineTypeOK
<1>3. /\ nextVenueId \in Nat \ {0} /\ probes \in Nat /\ lateSends \in Nat
      /\ active \in [Correlations -> Order]
  BY DEF EngineInv, EngineTypeOK
<1>4. nextVenueId' - nextVenueId = 1
  BY <1>1, <1>3
<1>5. probes' \in Nat /\ ProbeCounted'
  <2>1. circuit = "HalfOpen" => probes = 0 /\ inFlight'
    BY <1>1, Zenon DEF EngineInv, CallAdmitted, ProbeCounted
  <2> QED  BY <1>1, <1>3, <1>4, <2>1 DEF Observe, ProbeCounted
<1>6. lateSends' \in Nat /\ LateCounted'
  <2>1. lateSends = 0
    BY <1>1 DEF EngineInv, LateCounted
  <2>2. lateSends' = IF RiskOpen' THEN 0 ELSE 1
    BY <1>4, <2>1 DEF Observe
  <2> QED  BY <1>1, <2>2 DEF LateCounted, Idle
<1>7. CallAdmitted' /\ CircuitMatchesFailures'
  BY <1>1 DEF EngineInv, CallAdmitted, CircuitMatchesFailures
<1>8. active' \in [Correlations -> Order]
  <2>1. call.intent.price \in Int64 /\ call.intent.quantity \in Int64
    BY <1>2, RiskAssumption DEF OrderIntent
  <2>2. [venueId |-> nextVenueId, price |-> call.intent.price,
         quantity |-> call.intent.quantity] \in Order
    BY <1>3, <2>1 DEF Order
  <2> QED  BY <1>1, <1>2, <1>3, <2>2
<1>9. VenueIdsIssued'
  <2>1. /\ \A d \in Correlations : d # corr => active'[d] = active[d]
        /\ active'[corr].venueId = nextVenueId
    BY <1>1, <1>2, <1>3
  <2>2. \A d \in Correlations : active[d].venueId \in Nat
    BY <1>3 DEF Order
  <2>3. \A d \in Correlations : active[d].venueId < nextVenueId
    BY DEF EngineInv, VenueIdsIssued
  <2>4. \A d \in Correlations : active'[d].venueId < nextVenueId'
    BY <1>1, <1>3, <2>1, <2>2, <2>3
  <2>5. VenueIdsUnique'
    BY <1>2, <1>3, <2>1, <2>2, <2>3
    DEF EngineInv, VenueIdsIssued, VenueIdsUnique, IsActive
  <2> QED  BY <2>4, <2>5 DEF VenueIdsIssued
<1>10. EngineTypeOK'
  <2>1. nextVenueId' \in Nat \ {0}
    BY <1>1, <1>3
  <2>2. inFlight' \in BOOLEAN
    BY <1>1, Zenon
  <2>3. call' \in Calls
    BY <1>1 DEF Calls
  <2>4. /\ gateway' \in GatewayStates /\ halted' \in BOOLEAN
        /\ circuit' \in CircuitStates /\ failures' \in Nat /\ openedAt' \in Nat
    BY <1>1, Zenon DEF EngineInv, EngineTypeOK
  <2> QED
    BY <1>5, <1>6, <1>8, <2>1, <2>2, <2>3, <2>4, Zenon DEF EngineTypeOK
<1> QED
  BY <1>5, <1>6, <1>7, <1>9, <1>10, Zenon DEF EngineInv

\* A call of the risk engine by another thread, at any point of a submission.
LEMMA RiskCallInv ==
  ASSUME EngineInv, Observe, UNCHANGED engineVars
  PROVE  EngineInv'
<1>1. /\ UNCHANGED <<circuit, failures, openedAt, call>>
      /\ UNCHANGED <<gateway, halted, inFlight, nextVenueId, active>>
  BY DEF engineVars, circuitVars, callVars
<1>2. probes' \in Nat /\ ProbeCounted'
  BY <1>1, QuietProbe
<1>3. lateSends' \in Nat /\ LateCounted'
  BY <1>1, QuietLate DEF EngineInv, LateCounted
<1>4. CallAdmitted' /\ CircuitMatchesFailures' /\ VenueIdsIssued'
  BY <1>1 DEF EngineInv, CallAdmitted, CircuitMatchesFailures, VenueIdsIssued,
              VenueIdsUnique, IsActive
<1>5. EngineTypeOK'
  BY <1>1, <1>2, <1>3, Zenon DEF EngineInv, EngineTypeOK
<1> QED  BY <1>2, <1>3, <1>4, <1>5, Zenon DEF EngineInv

\* Every step of the two engines keeps the invariant.
LEMMA EngineStepInv == EngineInv /\ [Next]_vars => EngineInv'
<1> SUFFICES ASSUME EngineInv, [Next]_vars PROVE EngineInv'
  OBVIOUS
<1>1. CASE SubmitStep /\ Observe
  <2>1. ASSUME NEW i \in Intents, NEW now \in Times, SubmitCall(i, now)
        PROVE  EngineInv'
    BY <1>1, <2>1, SubmitAdmittedInv, SubmitRefusedInv
  <2> QED
    BY <1>1, <2>1, SubmitRejectInv, SubmitSendInv DEF SubmitStep
<1>2. CASE OperatorStep /\ Observe
  BY <1>2, SetGatewayStateInv, SetHaltedInv, CancelReplaceInv DEF OperatorStep
<1>3. CASE VenueStep /\ Observe
  BY <1>3, AcknowledgeUnknownInv, AcknowledgeActiveInv DEF VenueStep
<1>4. CASE SubmitEvaluate /\ Observe
  BY <1>4, SubmitEvaluateInv
<1>5. CASE UNCHANGED engineVars /\ Observe
  BY <1>5, RiskCallInv
<1>6. CASE UNCHANGED vars
  <2>1. /\ UNCHANGED <<circuit, failures, openedAt, call, limits, health>>
        /\ UNCHANGED <<gateway, halted, inFlight, nextVenueId, active>>
        /\ UNCHANGED <<probes, lateSends>>
    BY <1>6 DEF vars, riskVars, engineVars, circuitVars, callVars
  <2>2. EngineTypeOK'
    BY <2>1, Zenon DEF EngineInv, EngineTypeOK
  <2>3. CircuitMatchesFailures' /\ CallAdmitted' /\ ProbeCounted'
    BY <2>1 DEF EngineInv, CircuitMatchesFailures, CallAdmitted, ProbeCounted,
                IsActive
  <2>4. LateCounted' /\ VenueIdsIssued'
    BY <2>1 DEF EngineInv, LateCounted, RiskOpen, VenueIdsIssued, VenueIdsUnique,
                IsActive
  <2> QED  BY <2>2, <2>3, <2>4, Zenon DEF EngineInv
<1> QED
  BY <1>1, <1>2, <1>3, <1>4, <1>5, <1>6 DEF Next

-----------------------------------------------------------------------------
\* The engine's state and the submission in progress keep their types.
THEOREM EngineTypeCorrect == Spec => []EngineTypeOK
<1>1. EngineInv => EngineTypeOK
  BY DEF EngineInv
<1> QED  BY <1>1, EngineInitInv, EngineStepInv, PTL DEF Spec

\* circuit_state_ is Closed exactly while circuit_failures_ is below the
\* threshold, for any threshold and any calls from any threads.
THEOREM CircuitMatchesFailuresAlways == Spec => []CircuitMatchesFailures
<1>1. EngineInv => CircuitMatchesFailures
  BY DEF EngineInv
<1> QED  BY <1>1, EngineInitInv, EngineStepInv, PTL DEF Spec

\* submit lets at most one order through a half-open circuit.
THEOREM AtMostOneProbeAlways == Spec => []AtMostOneProbe
<1>1. EngineInv => AtMostOneProbe
  BY DEF EngineInv, ProbeCounted, AtMostOneProbe
<1> QED  BY <1>1, EngineInitInv, EngineStepInv, PTL DEF Spec

\* After set_health or set_limits has closed the risk engine, submit sends at
\* most one more order.
THEOREM AtMostOneLateSendAlways == Spec => []AtMostOneLateSend
<1>1. EngineInv => AtMostOneLateSend
  BY DEF EngineInv, LateCounted, AtMostOneLateSend
<1> QED  BY <1>1, EngineInitInv, EngineStepInv, PTL DEF Spec

\* acknowledge can confuse no two orders: their venue order ids differ.
THEOREM VenueIdsUniqueAlways == Spec => []VenueIdsUnique
<1>1. EngineInv => VenueIdsUnique
  BY DEF EngineInv, VenueIdsIssued
<1> QED  BY <1>1, EngineInitInv, EngineStepInv, PTL DEF Spec

\* Only SubmitSend hands out a venue order id.
LEMMA OnlySendIssues ==
  ASSUME EngineInv, Next, nextVenueId' # nextVenueId
  PROVE  SubmitSend
<1>1. SubmitStep => SubmitSend
  BY DEF SubmitStep, SubmitCall, SubmitReject, callVars
<1>2. ~OperatorStep /\ ~VenueStep
  BY Zenon DEF OperatorStep, VenueStep, SetGatewayState, SetHalted, CancelReplace,
         AcknowledgeUnknown, AcknowledgeActive
<1>3. ~SubmitEvaluate /\ ~(UNCHANGED engineVars)
  BY DEF SubmitEvaluate, engineVars, callVars
<1> QED  BY <1>1, <1>2, <1>3, SMTT(30) DEF Next

\* What submit checked before it called the risk engine holds when it sends.
THEOREM SendIsAdmittedAlways == Spec => SendIsAdmitted
<1> DEFINE Admitted ==
      nextVenueId' # nextVenueId =>
        /\ ~halted /\ gateway = "Ready" /\ circuit # "Open"
        /\ \A c \in Correlations : active'[c] # active[c] => ~IsActive(c)
<1>1. EngineInv /\ [Next]_vars => [Admitted]_vars
  <2> SUFFICES ASSUME EngineInv, Next, nextVenueId' # nextVenueId
               PROVE  /\ ~halted /\ gateway = "Ready" /\ circuit # "Open"
                      /\ \A c \in Correlations :
                            active'[c] # active[c] => ~IsActive(c)
    OBVIOUS
  <2>1. SubmitSend
    BY OnlySendIssues
  <2>2. call # Idle
    BY <2>1 DEF SubmitSend, Idle
  <2>3. /\ ~halted /\ gateway = "Ready" /\ circuit # "Open"
        /\ ~IsActive(call.intent.corr)
    BY <2>2 DEF EngineInv, CallAdmitted
  <2>4. active \in [Correlations -> Order]
    BY DEF EngineInv, EngineTypeOK
  <2>5. \A c \in Correlations :
          active'[c] # active[c] => c = call.intent.corr
    BY <2>1, <2>4 DEF SubmitSend, Activate
  <2> QED  BY <2>3, <2>5
<1> QED  BY <1>1, EngineInitInv, EngineStepInv, PTL DEF Spec, SendIsAdmitted

\* TrialIsOutstanding and TrialWaitsForCooldown made inductive: between two calls a
\* half-open circuit has its trial out, and a submission that half-opened the circuit
\* came after the cooldown.
TrialInv ==
  /\ TrialIsOutstanding
  /\ call = Idle /\ circuit = "HalfOpen" => inFlight
  /\ call # Idle /\ circuit = "HalfOpen" => CooledDown(call.now)

\* A failure leaves no circuit half open: Threshold was reached before it was tried.
LEMMA FailureOpens ==
  ASSUME EngineInv, NEW from, NEW now, CircuitFailure(from, now),
         from = "HalfOpen" => circuit # "Closed"
  PROVE  circuit' # "HalfOpen"
<1>1. failures \in Nat /\ Threshold \in Nat
  BY EngineAssumption DEF EngineInv, EngineTypeOK
<1>2. from = "HalfOpen" => failures >= Threshold
  BY <1>1 DEF EngineInv, CircuitMatchesFailures
<1> QED  BY <1>1, <1>2 DEF CircuitFailure

\* A step that ends with the circuit not half open has nothing to keep.
LEMMA NoTrial ==
  ASSUME circuit' # "HalfOpen"
  PROVE  TrialInv'
  BY DEF TrialInv, TrialIsOutstanding

\* Steps that leave the circuit, the flag and the venue order ids alone.
LEMMA TrialStays ==
  ASSUME EngineInv, TrialInv, Observe,
         UNCHANGED <<circuit, inFlight, nextVenueId, openedAt>>,
         \A c \in Correlations : active'[c].venueId = active[c].venueId,
         call' = Idle <=> call = Idle, call # Idle => call'.now = call.now
  PROVE  TrialInv'
<1>1. nextVenueId' - nextVenueId = 0 /\ probes \in Nat
  BY DEF EngineInv, EngineTypeOK
<1>2. circuit' = "HalfOpen" => probes' = probes
  BY <1>1 DEF Observe
<1>3. TrialIsOutstanding'
  BY <1>2 DEF TrialInv, TrialIsOutstanding
<1>4. CooledDown(call.now) => CooledDown(call.now)'
  BY DEF CooledDown
<1> QED  BY <1>3, <1>4, Zenon DEF TrialInv, CooledDown

\* A submission half-opens the circuit only after the cooldown and while no trial is
\* out; one that is turned away finds the trial out.
LEMMA SubmitTrial ==
  ASSUME EngineInv, TrialInv, Observe, NEW i, NEW now, SubmitCall(i, now)
  PROVE  TrialInv'
<1>1. call = Idle /\ UNCHANGED <<gateway, halted, inFlight, nextVenueId, active>>
  BY DEF SubmitCall, callVars
<1>2. circuit \in CircuitStates
  BY DEF EngineInv, EngineTypeOK
<1>3. circuit # "HalfOpen" => probes' = 0
  BY DEF Observe
<1>4. CASE Admission(i, now) \in {"DuplicateCorrelation", "CircuitOpen"}
  <2>1. UNCHANGED <<circuit, openedAt, call>>
    BY <1>4 DEF SubmitCall, circuitVars
  <2> QED  BY <1>1, <2>1, TrialStays
<1>5. CASE Admission(i, now) = "CircuitHalfOpen"
  <2>1. circuit' = CircuitTried /\ UNCHANGED <<openedAt, call>> /\ inFlight
    BY <1>5 DEF SubmitCall, Admission
  <2>2. CASE circuit = "HalfOpen"
    BY <1>1, <2>1, <2>2, TrialStays DEF CircuitTried
  <2>3. CASE circuit # "HalfOpen"
    BY <1>1, <1>3, <2>1, <2>3 DEF TrialInv, TrialIsOutstanding
  <2> QED  BY <2>2, <2>3
<1>6. CASE Admission(i, now) = "GatewayUnavailable"
  <2>1. CircuitFailure(CircuitTried, now)
    BY <1>6 DEF SubmitCall
  <2> QED  BY <2>1, FailureOpens, NoTrial DEF CircuitTried
<1>7. CASE Admission(i, now) = "evaluate"
  <2>1. /\ circuit' = CircuitTried /\ openedAt' = openedAt
        /\ call' = [phase |-> "evaluate", intent |-> i, now |-> now]
    BY <1>7 DEF SubmitCall
  <2>2. circuit # "Closed" => ~inFlight
    BY <1>7 DEF Admission
  <2>3. circuit # "HalfOpen"
    BY <1>1, <2>2 DEF TrialInv
  <2>4. circuit' = "HalfOpen" => CooledDown(now)
    BY <1>2, <1>7, <2>1, <2>3 DEF Admission, CircuitTried, CircuitStates
  <2>5. call' # Idle /\ call'.now = now
    BY <2>1 DEF Idle
  <2> QED
    BY <1>3, <2>1, <2>3, <2>4, <2>5 DEF TrialInv, TrialIsOutstanding, CooledDown
<1> QED  BY <1>4, <1>5, <1>6, <1>7 DEF SubmitCall

\* The trial enters active_ when it is sent.
LEMMA SendTrial ==
  ASSUME EngineInv, Observe, SubmitSend
  PROVE  TrialInv'
<1>1. call # Idle /\ call' = Idle /\ circuit' = circuit
      /\ inFlight' = (inFlight \/ circuit = "HalfOpen")
      /\ nextVenueId' = nextVenueId + 1
  BY DEF SubmitSend, circuitVars, Idle
<1>2. call.intent.corr \in Correlations /\ active \in [Correlations -> Order]
      /\ nextVenueId \in Nat
  BY <1>1, CallShape DEF EngineInv, EngineTypeOK
<1>3. active'[call.intent.corr].venueId = nextVenueId' - 1
  BY <1>1, <1>2 DEF SubmitSend, Activate
<1> QED  BY <1>1, <1>2, <1>3, Zenon DEF TrialInv, TrialIsOutstanding

\* Every step keeps the trial where it is.
LEMMA TrialStep == EngineInv /\ TrialInv /\ [Next]_vars => TrialInv'
<1> SUFFICES ASSUME EngineInv, TrialInv, [Next]_vars PROVE TrialInv'
  OBVIOUS
<1>1. CASE SubmitStep /\ Observe
  <2>1. CASE SubmitReject
    <3>1. CircuitFailure(circuit, call.now)
      BY <2>1 DEF SubmitReject
    <3> QED  BY <3>1, FailureOpens, NoTrial
  <2> QED  BY <1>1, <2>1, SubmitTrial, SendTrial DEF SubmitStep
<1>2. CASE OperatorStep /\ Observe
  <2>1. ASSUME NEW state \in GatewayStates, SetGatewayState(state) PROVE TrialInv'
    <3>1. CASE state = "Ready"
      <4>1. circuit' = "Closed"
        BY <2>1, <3>1 DEF SetGatewayState, CircuitReset
      <4> QED  BY <4>1, NoTrial
    <3>2. CASE state # "Ready"
      <4>1. UNCHANGED <<circuit, inFlight, nextVenueId, openedAt, active, call>>
        BY <2>1, <3>2 DEF SetGatewayState, circuitVars
      <4> QED  BY <1>2, <4>1, TrialStays
    <3> QED  BY <3>1, <3>2
  <2>2. ASSUME NEW halt \in BOOLEAN, SetHalted(halt) PROVE TrialInv'
    <3>1. UNCHANGED <<circuit, inFlight, nextVenueId, openedAt, active, call>>
      BY <2>2 DEF SetHalted, circuitVars
    <3> QED  BY <1>2, <3>1, TrialStays
  <2>3. ASSUME NEW c \in Correlations, NEW r \in Replacements, CancelReplace(c, r[1], r[2])
        PROVE  TrialInv'
    <3>1. UNCHANGED <<circuit, inFlight, nextVenueId, openedAt, call>>
      BY <2>3 DEF CancelReplace, circuitVars
    <3>2. active \in [Correlations -> Order]
      BY DEF EngineInv, EngineTypeOK
    <3>3. active' = [active EXCEPT ![c].price = r[1], ![c].quantity = r[2]]
      BY <2>3 DEF CancelReplace
    <3>4. \A d \in Correlations : active'[d].venueId = active[d].venueId
      BY <3>2, <3>3, Zenon DEF Order
    <3> QED  BY <1>2, <3>1, <3>4, TrialStays
  <2> QED  BY <1>2, <2>1, <2>2, <2>3 DEF OperatorStep
<1>3. CASE VenueStep /\ Observe
  <2>1. ASSUME NEW c, NEW v, NEW now, AcknowledgeUnknown(c, v, now) PROVE TrialInv'
    <3>1. CircuitFailure(circuit, now)
      BY <2>1 DEF AcknowledgeUnknown
    <3> QED  BY <3>1, FailureOpens, NoTrial
  <2>2. ASSUME NEW c, NEW v, AcknowledgeActive(c, v) PROVE TrialInv'
    <3>1. circuit' # "HalfOpen"
      BY <2>2 DEF AcknowledgeActive, CircuitReset, circuitVars
    <3> QED  BY <3>1, NoTrial
  <2> QED  BY <1>3, <2>1, <2>2 DEF VenueStep
<1>4. CASE SubmitEvaluate /\ Observe
  <2>1. /\ UNCHANGED <<circuit, inFlight, nextVenueId, openedAt, active>>
        /\ call # Idle /\ call' # Idle /\ call'.now = call.now
    BY <1>4 DEF SubmitEvaluate, circuitVars, callVars, Idle
  <2> QED  BY <1>4, <2>1, TrialStays
<1>5. CASE UNCHANGED engineVars /\ Observe
  <2>1. UNCHANGED <<circuit, inFlight, nextVenueId, openedAt, active, call>>
    BY <1>5 DEF engineVars, circuitVars, callVars
  <2> QED  BY <1>5, <2>1, TrialStays
<1>6. CASE UNCHANGED vars
  <2>1. UNCHANGED <<circuit, inFlight, nextVenueId, openedAt, active, call, probes>>
    BY <1>6 DEF vars, engineVars, circuitVars, callVars
  <2> QED  BY <2>1 DEF TrialInv, TrialIsOutstanding, CooledDown
<1> QED
  BY <1>1, <1>2, <1>3, <1>4, <1>5, <1>6 DEF Next

\* TrialInv holds in every state of the two engines.
LEMMA TrialInvAlways == Spec => [](EngineInv /\ TrialInv)
<1>1. Init => TrialInv
  BY DEF Init, EngineInit, TrialInv, TrialIsOutstanding
<1> QED  BY <1>1, EngineInitInv, EngineStepInv, TrialStep, PTL DEF Spec

\* The order a half-open circuit waits for is in active_, for an acknowledgement to
\* find: no replacement, halt or gateway change takes it away.
THEOREM TrialIsOutstandingAlways == Spec => []TrialIsOutstanding
<1>1. TrialInv => TrialIsOutstanding
  BY DEF TrialInv
<1> QED  BY <1>1, TrialInvAlways, PTL

\* submit sends nothing through a circuit that failed until Cooldown has passed since
\* the last failure, for every threshold and every length of the cooldown.
THEOREM TrialWaitsForCooldownAlways == Spec => TrialWaitsForCooldown
<1> DEFINE Waits ==
      nextVenueId' # nextVenueId /\ failures >= Threshold /\ call.now >= openedAt
        => call.now - openedAt >= Cooldown
<1>1. EngineInv /\ TrialInv /\ [Next]_vars => [Waits]_vars
  <2> SUFFICES ASSUME EngineInv, TrialInv, Next, nextVenueId' # nextVenueId,
                      failures >= Threshold, call.now >= openedAt
               PROVE  call.now - openedAt >= Cooldown
    OBVIOUS
  <2>1. SubmitSend
    BY OnlySendIssues
  <2>2. call # Idle
    BY <2>1 DEF SubmitSend, Idle
  <2>3. circuit = "HalfOpen"
    BY <2>2, EngineAssumption
    DEF EngineInv, EngineTypeOK, CallAdmitted, CircuitMatchesFailures, CircuitStates
  <2>4. (call.now - openedAt) % ClockModulus >= Cooldown
    BY <2>2, <2>3 DEF TrialInv, CooledDown
  <2>5. call.now \in Nat /\ openedAt \in Nat
    <3>1. call \in Calls /\ openedAt \in Nat
      BY DEF EngineInv, EngineTypeOK
    <3>2. call.now \in Times
      BY <2>2, <3>1, CallShape, Zenon
    <3> QED  BY <3>1, <3>2, RiskAssumption, Zenon
  <2>6. \A n \in Nat : n % ClockModulus <= n
    BY EngineAssumption
  <2> QED  BY <2>4, <2>5, <2>6, EngineAssumption
<1>2. Spec => [][Waits]_vars
  BY <1>1, TrialInvAlways, PTL DEF Spec
<1> QED  BY <1>2 DEF TrialWaitsForCooldown

\* The risk engine's guarantees survive its composition with the execution engine:
\* every step of the composition is a step of RiskEngine or leaves it alone.
THEOREM RiskRefined == Spec => RiskSpec
<1>1. Init => RiskInit
  BY DEF Init
<1>2. EngineInv /\ [Next]_vars => [RiskNext]_riskVars
  <2> SUFFICES ASSUME EngineInv, [Next]_vars PROVE [RiskNext]_riskVars
    OBVIOUS
  <2>1. CASE SubmitEvaluate
    <3>1. call # Idle /\ Evaluate(call.intent, call.now)
      BY <2>1 DEF SubmitEvaluate, Idle
    <3>2. call.intent \in Intents /\ call.now \in Times
      BY <3>1, CallShape DEF EngineInv, EngineTypeOK
    <3> QED  BY <3>1, <3>2 DEF RiskNext
  <2>2. CASE RiskNext \/ UNCHANGED riskVars
    BY <2>2
  <2>3. CASE UNCHANGED vars
    BY <2>3 DEF vars
  <2> QED  BY <2>1, <2>2, <2>3 DEF Next
<1> QED
  BY <1>1, <1>2, EngineInitInv, EngineStepInv, PTL DEF Spec, RiskSpec
=============================================================================
