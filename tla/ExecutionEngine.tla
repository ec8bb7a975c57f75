-------------------------- MODULE ExecutionEngine ---------------------------
(***************************************************************************)
(* The execution engine, cpp/ito_execution/execution_engine.cpp, composed  *)
(* with the risk engine it calls.                                          *)
(*                                                                         *)
(* Every public member holds mutex_ throughout.  All but submit touch only *)
(* the engine and are one action.  submit calls RiskEngine::evaluate,      *)
(* which takes and releases the risk engine's own mutex, so other threads  *)
(* may use the risk engine before and after that call: submit is the       *)
(* actions SubmitCall, SubmitEvaluate and then SubmitReject or SubmitSend, *)
(* and call holds the submission that owns mutex_ in between.  now_ns is   *)
(* whatever the calling thread read before it got the mutex, so it need    *)
(* not be monotone.                                                        *)
(*                                                                         *)
(* What an action hands to EventJournal::append is the operator ...Events  *)
(* beside it; module OrderEvidence collects it.                            *)
(***************************************************************************)
EXTENDS RiskEngine, Sequences

CONSTANTS
  Threshold,       \* kCircuitFailureThreshold
  Cooldown,        \* kCircuitCooldownNs, in ticks
  ClockModulus,    \* 2^64: now_ns - circuit_opened_at_ns_ wraps around
  FirstCode,       \* 200, the first of the codes a refusal is journalled with
  Replacements,    \* the <<new_price, new_quantity>> cancel_replace may get
  MaxFailures,     \* bound on circuit_failures_
  MaxOrders        \* bound on the venue order ids handed out

Correlations == {i.corr : i \in Intents}
VenueIds == 0 .. MaxOrders

ASSUME EngineAssumption ==
  /\ Threshold \in Nat \ {0}
  /\ Cooldown \in Nat
  /\ ClockModulus \in Nat \ {0}
  /\ FirstCode \in Nat
  /\ Replacements \subseteq Int64 \X Int64
  /\ MaxFailures \in Nat
  /\ MaxOrders \in Nat

VARIABLES
  gateway,         \* gateway_state_
  circuit,         \* circuit_state_
  halted,          \* halted_
  nextVenueId,     \* next_venue_order_id_
  failures,        \* circuit_failures_
  openedAt,        \* circuit_opened_at_ns_
  inFlight,        \* half_open_in_flight_
  active,          \* active_, venueId 0 where there is no entry
  call,            \* the submit that holds mutex_, if any
  probes,          \* history: orders sent since the circuit went half open
  lateSends        \* history: orders sent since risk last closed

circuitVars == <<circuit, failures, openedAt>>
callVars == <<gateway, halted, inFlight, nextVenueId, active>>
engineVars == <<circuitVars, callVars, call>>
vars == <<riskVars, engineVars, probes, lateSends>>

GatewayStates == {"Disconnected", "Ready", "Halted", "Uncertain"}
CircuitStates == {"Closed", "HalfOpen", "Open"}

Order == [venueId : Nat, price : Int64, quantity : Int64]
NoOrder == [venueId |-> 0, price |-> 0, quantity |-> 0]
IsActive(c) == active[c].venueId # 0

Verdicts ==
  {"NotEnabled", "InvalidLimits", "ExpiredLimits", "Unhealthy", "InvalidOrder",
   "Quantity", "Overflow", "Notional", "Position", "Rate", "Approved"}

Idle == [phase |-> "idle"]
Calls ==
  {Idle} \cup [phase : {"evaluate"}, intent : Intents, now : Times]
         \cup [phase : {"finish"}, intent : Intents, now : Times,
               verdict : Verdicts]

EngineInit ==
  /\ gateway = "Disconnected"
  /\ circuit = "Closed"
  /\ halted = TRUE
  /\ nextVenueId = 1
  /\ failures = 0
  /\ openedAt = 0
  /\ inFlight = FALSE
  /\ active = [c \in Correlations |-> NoOrder]
  /\ call = Idle

-----------------------------------------------------------------------------
(* An appended event: its type, its correlation, and its payload, which is *)
(* a number (0 if none) or a fixed text (empty if none).  The number is a  *)
(* venue order id or the code of a refusal, and nothing tells which.       *)

Event(type, corr, number, text) ==
  [type |-> type, corr |-> corr, number |-> number, text |-> text]

\* kGatewayUnavailable .. kCircuitHalfOpen
Code(refusal) ==
  FirstCode + CASE refusal = "GatewayUnavailable" -> 0
                [] refusal = "RiskRejected" -> 2
                [] refusal = "DuplicateCorrelation" -> 3
                [] refusal = "CircuitOpen" -> 4
                [] refusal = "CircuitHalfOpen" -> 5
Codes == FirstCode .. FirstCode + 5

\* Mutant: the circuit closes but remembers its failures.
CircuitResetKeepingFailures ==
  /\ circuit' = "Closed"
  /\ openedAt' = 0
  /\ UNCHANGED failures

CircuitReset ==
  /\ circuit' = "Closed"
  /\ failures' = 0
  /\ openedAt' = 0

\* Mutant: only the failure that reaches Threshold opens the circuit.
CircuitFailureOnce(from, now) ==
  /\ failures < MaxFailures
  /\ failures' = failures + 1
  /\ circuit' = IF failures + 1 = Threshold THEN "Open" ELSE from
  /\ openedAt' = IF failures + 1 >= Threshold THEN now ELSE openedAt

\* One more failure; from, the circuit state so far, is kept below Threshold.
CircuitFailure(from, now) ==
  /\ failures < MaxFailures
  /\ failures' = failures + 1
  /\ circuit' = IF failures + 1 >= Threshold THEN "Open" ELSE from
  /\ openedAt' = IF failures + 1 >= Threshold THEN now ELSE openedAt

\* set_gateway_state
SetGatewayState(state) ==
  /\ call = Idle
  /\ gateway' = state
  /\ IF state = "Ready" THEN CircuitReset ELSE UNCHANGED circuitVars
  /\ UNCHANGED <<halted, inFlight, nextVenueId, active, call>>

\* Mutant: set_halted does not wait for the mutex.
SetHaltedUnlocked(halt) ==
  /\ halted' = halt
  /\ gateway' = IF halt THEN "Halted"
                ELSE IF gateway = "Halted" THEN "Ready" ELSE gateway
  /\ UNCHANGED <<circuitVars, inFlight, nextVenueId, active, call>>

\* set_halted
SetHalted(halt) ==
  /\ call = Idle
  /\ halted' = halt
  /\ gateway' = IF halt THEN "Halted"
                ELSE IF gateway = "Halted" THEN "Ready" ELSE gateway
  /\ UNCHANGED <<circuitVars, inFlight, nextVenueId, active, call>>

SetHaltedEvents(halt) ==
  IF halt THEN << Event("Halt", 0, 0, "halted") >>
  ELSE IF gateway = "Halted"
       THEN << Event("Acknowledgment", 0, 0, "halt_cleared") >>
       ELSE << >>

-----------------------------------------------------------------------------
(* submit                                                                  *)

CooledDown(now) == (now - openedAt) % ClockModulus >= Cooldown

\* Where submit goes before it asks the risk engine: the code of the early
\* return it takes, or "evaluate".
Admission(i, now) ==
  IF i.corr = 0 \/ IsActive(i.corr) THEN "DuplicateCorrelation"
  ELSE IF circuit = "Open" /\ ~CooledDown(now) THEN "CircuitOpen"
  ELSE IF circuit # "Closed" /\ inFlight THEN "CircuitHalfOpen"
  ELSE IF halted \/ gateway # "Ready" THEN "GatewayUnavailable"
  ELSE "evaluate"

\* A submission that finds the circuit open and cooled down half-opens it.
CircuitTried == IF circuit = "Open" THEN "HalfOpen" ELSE circuit

SubmitCall(i, now) ==
  /\ call = Idle
  /\ nextVenueId <= MaxOrders
  /\ failures < MaxFailures
  /\ \/ /\ Admission(i, now) \in {"DuplicateCorrelation", "CircuitOpen"}
        /\ UNCHANGED <<circuitVars, call>>
     \/ /\ Admission(i, now) = "CircuitHalfOpen"
        /\ circuit' = CircuitTried
        /\ UNCHANGED <<failures, openedAt, call>>
     \/ /\ Admission(i, now) = "GatewayUnavailable"
        /\ CircuitFailure(CircuitTried, now)
        /\ UNCHANGED call
     \/ /\ Admission(i, now) = "evaluate"
        /\ circuit' = CircuitTried
        /\ call' = [phase |-> "evaluate", intent |-> i, now |-> now]
        /\ UNCHANGED <<failures, openedAt>>
  /\ UNCHANGED callVars

SubmitCallEvents(i, now) ==
  IF Admission(i, now) = "evaluate" THEN << >>
  ELSE << Event("OrderSent", i.corr, Code(Admission(i, now)), "") >>

\* Mutant: decision.status is not looked at.
SubmitEvaluateIgnored ==
  /\ call.phase = "evaluate"
  /\ Evaluate(call.intent, call.now)
  /\ call' = [phase |-> "finish", intent |-> call.intent, now |-> call.now,
              verdict |-> "Approved"]
  /\ UNCHANGED <<circuitVars, callVars>>

\* risk_engine_.evaluate(intent, now_ns)
SubmitEvaluate ==
  /\ call.phase = "evaluate"
  /\ Evaluate(call.intent, call.now)
  /\ call' = [phase |-> "finish", intent |-> call.intent, now |-> call.now,
              verdict |-> Verdict(call.intent, call.now)]
  /\ UNCHANGED <<circuitVars, callVars>>

DecisionEvents(i, now) ==
  << Event("RiskDecision", i.corr, 0, Verdict(i, now)) >>

\* The rest of submit: a refusal counts as a failure.
SubmitReject ==
  /\ call.phase = "finish"
  /\ call.verdict # "Approved"
  /\ CircuitFailure(circuit, call.now)
  /\ call' = Idle
  /\ UNCHANGED callVars

\* active_.emplace(intent.correlation_id, event)
Activate(i) ==
  active' = [active EXCEPT ![i.corr] =
               [venueId |-> nextVenueId, price |-> i.price,
                quantity |-> i.quantity]]

\* Mutant: half_open_in_flight_ is never set.
SubmitSendUnmarked ==
  /\ call.phase = "finish"
  /\ call.verdict = "Approved"
  /\ nextVenueId' = nextVenueId + 1
  /\ Activate(call.intent)
  /\ call' = Idle
  /\ UNCHANGED <<circuitVars, inFlight, gateway, halted>>

\* The rest of submit: an approved order is sent.
SubmitSend ==
  /\ call.phase = "finish"
  /\ call.verdict = "Approved"
  /\ inFlight' = (inFlight \/ circuit = "HalfOpen")
  /\ nextVenueId' = nextVenueId + 1
  /\ Activate(call.intent)
  /\ call' = Idle
  /\ UNCHANGED <<circuitVars, gateway, halted>>

SubmitFinishEvents ==
  IF call.verdict = "Approved"
  THEN << Event("OrderSent", call.intent.corr, nextVenueId, "") >>
  ELSE << Event("OrderSent", call.intent.corr, Code("RiskRejected"), "") >>

-----------------------------------------------------------------------------
\* cancel_replace: the early return leaves no trace.
CancelReplace(c, price, quantity) ==
  /\ call = Idle
  /\ IsActive(c)
  /\ price > 0 /\ quantity > 0
  /\ ~halted /\ gateway = "Ready"
  /\ active' = [active EXCEPT ![c].price = price, ![c].quantity = quantity]
  /\ UNCHANGED <<circuitVars, gateway, halted, inFlight, nextVenueId, call>>

CancelReplaceEvents(c) == << Event("Cancel", c, active[c].venueId, "") >>

\* acknowledge, of an order the engine does not know or knows otherwise.
AcknowledgeUnknown(c, venueId, now) ==
  /\ call = Idle
  /\ ~IsActive(c) \/ active[c].venueId # venueId
  /\ gateway' = "Uncertain"
  /\ CircuitFailure(circuit, now)
  /\ UNCHANGED <<halted, inFlight, nextVenueId, active, call>>

\* Mutant: an acknowledgement does not close a half-open circuit.
AcknowledgeActiveQuietly(c, venueId) ==
  /\ call = Idle
  /\ IsActive(c) /\ active[c].venueId = venueId
  /\ active' = [active EXCEPT ![c] = NoOrder]
  /\ UNCHANGED <<circuitVars, inFlight, gateway, halted, nextVenueId, call>>

\* acknowledge, of an active order: a half-open circuit closes.
AcknowledgeActive(c, venueId) ==
  /\ call = Idle
  /\ IsActive(c) /\ active[c].venueId = venueId
  /\ IF circuit = "HalfOpen" THEN CircuitReset /\ inFlight' = FALSE
                             ELSE UNCHANGED <<circuitVars, inFlight>>
  /\ active' = [active EXCEPT ![c] = NoOrder]
  /\ UNCHANGED <<gateway, halted, nextVenueId, call>>

\* Mutant: an answer that matches no order is journalled like one that does.
AcknowledgeEventsAlike(c, venueId) ==
  << Event("Acknowledgment", c, venueId, "") >>

AcknowledgeEvents(c, venueId) ==
  IF IsActive(c) /\ active[c].venueId = venueId
  THEN << Event("Acknowledgment", c, venueId, "") >>
  ELSE << Event("Acknowledgment", c, 0, "uncertain") >>

-----------------------------------------------------------------------------
SubmitStep ==
  \/ \E i \in Intents, now \in Times : SubmitCall(i, now)
  \/ SubmitReject
  \/ SubmitSend

OperatorStep ==
  \/ \E state \in GatewayStates : SetGatewayState(state)
  \/ \E halt \in BOOLEAN : SetHalted(halt)
  \/ \E c \in Correlations, r \in Replacements : CancelReplace(c, r[1], r[2])

VenueStep ==
  \/ \E c \in Correlations, v \in VenueIds, now \in Times :
        AcknowledgeUnknown(c, v, now)
  \/ \E c \in Correlations, v \in VenueIds : AcknowledgeActive(c, v)

\* Risk is open while the risk engine may approve an order at all.
RiskOpen == limits.enabled /\ health = "Healthy"

\* The history variables: each step that raises nextVenueId sends one order.
Observe ==
  LET sent == nextVenueId' - nextVenueId
  IN /\ probes' = IF circuit = "HalfOpen" /\ circuit' = "HalfOpen"
                  THEN probes + sent ELSE 0
     /\ lateSends' = IF RiskOpen' THEN 0 ELSE lateSends + sent

Init ==
  /\ RiskInit
  /\ EngineInit
  /\ probes = 0
  /\ lateSends = 0

Next ==
  /\ \/ (SubmitStep \/ OperatorStep \/ VenueStep) /\ UNCHANGED riskVars
     \/ SubmitEvaluate
     \/ RiskNext /\ UNCHANGED engineVars
  /\ Observe

Spec == Init /\ [][Next]_vars

-----------------------------------------------------------------------------
(* Properties                                                              *)

\* Every variable of the engine and of the submission in progress has its type.
EngineTypeOK ==
  /\ gateway \in GatewayStates
  /\ circuit \in CircuitStates
  /\ halted \in BOOLEAN
  /\ nextVenueId \in Nat \ {0}
  /\ failures \in Nat
  /\ openedAt \in Nat
  /\ inFlight \in BOOLEAN
  /\ active \in [Correlations -> Order]
  /\ call \in Calls
  /\ probes \in Nat
  /\ lateSends \in Nat

\* The circuit is closed exactly while fewer than Threshold failures have been
\* counted since it last closed: no sequence of refusals, uncertain
\* acknowledgements, half-open trials and gateway resets leaves
\* circuit_state_ and circuit_failures_ disagreeing.
CircuitMatchesFailures == (circuit = "Closed") <=> (failures < Threshold)

\* A half-open circuit lets one trial order out: from the submit that half-opens
\* it until it closes or opens again, at most one order is sent, whatever other
\* threads submit, cancel or acknowledge meanwhile.
AtMostOneProbe == circuit = "HalfOpen" => probes <= 1

\* After the risk engine has been closed (set_health to anything but Healthy, or
\* set_limits with trading disabled) at most one order still leaves: the one
\* whose submit had its approval and had not yet returned.
AtMostOneLateSend == lateSends <= 1

\* submit checks halted_, the gateway, the circuit and active_ before it calls
\* the risk engine and sends after it.  All four checks still hold at the moment
\* of the send: no order leaves after set_halted(true) has returned, or on a
\* gateway that has left Ready, or over an order of the same correlation.
SendIsAdmitted ==
  [][ nextVenueId' # nextVenueId =>
        /\ ~halted /\ gateway = "Ready" /\ circuit # "Open"
        /\ \A c \in Correlations :
              active'[c] # active[c] => ~IsActive(c) ]_vars

\* An acknowledgement names one order: no two entries of active_ ever carry the
\* same venue order id, across sends, replacements and acknowledgements.
VenueIdsUnique ==
  \A c, d \in Correlations :
    IsActive(c) /\ active[c].venueId = active[d].venueId => c = d

\* What works at the venue is within the size and notional of some limits that
\* can be in force: every order sent was approved under such limits, and a
\* replacement changes price and quantity.
WorkingWithinLimits ==
  \A c \in Correlations : IsActive(c) =>
    \E s \in Snapshots : /\ active[c].quantity <= s.maxQuantity
                        /\ active[c].price * active[c].quantity <= s.maxNotional

\* A half-open circuit waits for an order an acknowledgement can still name: from
\* the send of the trial until the circuit closes or opens again, the trial stays
\* in active_ under its venue order id, through replacements and gateway changes.
TrialIsOutstanding ==
  circuit = "HalfOpen" /\ probes > 0 =>
    \E c \in Correlations : active[c].venueId = nextVenueId - 1

\* The cooldown runs from the latest failure: once Threshold failures have been
\* counted, an order leaves only if Cooldown has passed since the last of them, be
\* it a refusal, a failed trial or an uncertain acknowledgement.  The exception is
\* a submission whose now_ns is behind that failure: the difference wraps.
TrialWaitsForCooldown ==
  [][ nextVenueId' # nextVenueId /\ failures >= Threshold /\ call.now >= openedAt
        => call.now - openedAt >= Cooldown ]_vars

=============================================================================
