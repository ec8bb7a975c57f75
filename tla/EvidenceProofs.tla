--------------------------- MODULE EvidenceProofs ---------------------------
(***************************************************************************)
(* What the event journal proves about the orders sent, for any intents,   *)
(* limits, clocks and length of the journal, with and without other        *)
(* writers: which decision an order was sent under.  Each invariant is     *)
(* proved shape by shape of the steps, which the first section lists.      *)
(***************************************************************************)
EXTENDS OrderEvidence, EngineProofs

-----------------------------------------------------------------------------
(* The evidence in the event journal.  Every step of the composed system   *)
(* has one of seven shapes, which say what it appends, what becomes of the *)
(* decision being made, of the submission in progress and of the venue     *)
(* order ids; each invariant about the journal is proved shape by shape.   *)

EventTypes == {"RiskDecision", "OrderSent", "Cancel", "Acknowledgment", "Halt", "Fill"}
Texts == Verdicts \cup {"", "halted", "halt_cleared", "uncertain"}
Events == [type : EventTypes, corr : Nat, number : Nat, text : Texts]

IsSend(e) == e.type = "OrderSent" /\ e.number \notin Codes

\* submit has its approval, recorded, and has yet to send the order.
Waiting ==
  /\ call.phase = "finish" /\ call.verdict = "Approved"
  /\ ~(decision.pending /\ decision.by = "submit")

-----------------------------------------------------------------------------
(* The shapes of a step                                                    *)

KeepsOrders ==
  /\ nextVenueId' = nextVenueId
  /\ \A c \in Correlations : active'[c].venueId = active[c].venueId

\* The submission stays where it is, or none is left that waits.
KeepsCall ==
  \/ call' = call
  \/ ~(decision.pending /\ decision.by = "submit") /\ call'.phase # "finish"

Silent == KeepsOrders /\ KeepsCall /\ UNCHANGED <<journal, decision>>

\* An event is appended that sends and acknowledges nothing.
Notes(e) ==
  /\ KeepsOrders /\ KeepsCall /\ UNCHANGED decision
  /\ journal' = Append(journal, e) /\ ~IsSend(e)
  /\ ~concurrent => /\ ~decision.pending
                    /\ e.type = "Acknowledgment" => e.number = 0
                    /\ call'.phase # "finish" \/ e.corr = 0

Decision(corr, by, pending) ==
  [id |-> Len(journal) + 1, corr |-> corr, by |-> by, pending |-> pending]

\* evaluate approves: the entry will follow.
Announces(corr, by) ==
  /\ KeepsOrders /\ ~decision.pending
  /\ journal' = journal /\ decision' = Decision(corr, by, TRUE)
  /\ \/ /\ by = "submit" /\ call'.phase = "finish" /\ call'.verdict = "Approved"
        /\ call'.intent.corr = corr
     \/ by = "direct" /\ concurrent /\ call' = call

\* evaluate refuses, with the entry.
Refuses(corr, by, text) ==
  /\ KeepsOrders /\ ~decision.pending /\ text # "Approved"
  /\ journal' = Append(journal, Event("RiskDecision", corr, 0, text))
  /\ decision' = Decision(corr, by, FALSE)
  /\ \/ by = "submit" /\ call'.verdict # "Approved"
     \/ by = "direct" /\ concurrent /\ call' = call

Confirms ==
  /\ KeepsOrders /\ decision.pending /\ call' = call
  /\ journal' = Append(journal, Event("RiskDecision", decision.corr, 0, "Approved"))
  /\ decision' = [decision EXCEPT !.pending = FALSE]

SendsOrder(corr) ==
  /\ Waiting /\ corr = call.intent.corr /\ ~IsActive(corr)
  /\ ~concurrent => ~decision.pending
  /\ journal' = Append(journal, Event("OrderSent", corr, nextVenueId, ""))
  /\ decision' = decision /\ call' = Idle
  /\ nextVenueId' = nextVenueId + 1 /\ active'[corr].venueId = nextVenueId
  /\ \A c \in Correlations \ {corr} : active'[c].venueId = active[c].venueId

Acknowledges(corr) ==
  /\ IsActive(corr) /\ call = Idle /\ call' = call
  /\ ~concurrent => ~decision.pending
  /\ journal' = Append(journal, Event("Acknowledgment", corr, active[corr].venueId, ""))
  /\ UNCHANGED <<decision, nextVenueId>> /\ active'[corr].venueId = 0
  /\ \A c \in Correlations \ {corr} : active'[c].venueId = active[c].venueId

HasShape ==
  \/ Silent \/ Confirms
  \/ \E e \in Events : Notes(e)
  \/ \E corr \in Nat, by \in {"submit", "direct"} :
       Announces(corr, by) \/ \E text \in Texts : Refuses(corr, by, text)
  \/ \E corr \in Correlations : SendsOrder(corr) \/ Acknowledges(corr)

-----------------------------------------------------------------------------
(* The decision being made                                                 *)

\* Every submission names a correlation (submit's first check).
CallIdentified == call # Idle => call.intent.corr # 0

\* The journal and the last decision have their types; an approval on its way belongs to
\* the submission or to a direct caller.
DecisionTypes ==
  /\ journal \in Seq(Events)
  /\ decision \in [id : Nat, corr : Nat, by : {"none", "submit", "direct"}, pending : BOOLEAN]
  /\ decision.pending => decision.by # "none"
  /\ ~concurrent => decision.by # "direct"
  /\ decision.pending /\ decision.by = "submit" =>
       /\ call.phase = "finish" /\ call.verdict = "Approved"
       /\ call.intent.corr = decision.corr

\* DecisionIdIsJournaled made inductive: the id of an approval on its way is the place
\* its entry will get.
DecisionPlaced ==
  ~concurrent =>
    /\ decision.pending => decision.id = Len(journal) + 1
    /\ ~decision.pending /\ decision.id # 0 =>
         /\ decision.id \in DOMAIN journal
         /\ journal[decision.id].type = "RiskDecision"
         /\ journal[decision.id].corr = decision.corr

\* What holds of every state before the shapes are looked at.
BaseInv == EngineInv /\ CallIdentified /\ DecisionTypes

\* Every correlation is a natural number (OrderIntent).
LEMMA CorrelationsAreNumbers == Correlations \subseteq Nat
  BY RiskAssumption DEF Correlations, OrderIntent

\* The codes of refusals are natural numbers (execution_engine.hpp).
LEMMA CodesAreNumbers ==
  ASSUME NEW refusal \in {"GatewayUnavailable", "RiskRejected", "DuplicateCorrelation",
                          "CircuitOpen", "CircuitHalfOpen"}
  PROVE  Code(refusal) \in Codes /\ Code(refusal) \in Nat
  BY EngineAssumption DEF Code, Codes

\* append adds one event at the end or none.
LEMMA RecordAppends ==
  ASSUME NEW e \in Events, journal \in Seq(Events)
  PROVE  /\ journal \o << e >> = Append(journal, e)
         /\ journal \o << >> = journal
  OBVIOUS
-----------------------------------------------------------------------------
(* Every step has a shape                                                  *)

\* A step of the evidence is a step of the engines or leaves them alone.
LEMMA EvidenceRefinesEngine ==
  EngineInv /\ [EvidenceNext]_evidenceVars => [Next]_vars
<1> SUFFICES ASSUME EngineInv, [EvidenceNext]_evidenceVars PROVE [Next]_vars
  OBVIOUS
<1>1. CASE EngineCalls /\ Observe
  BY <1>1 DEF EngineCalls, SubmitReturns, Next, SubmitStep, OperatorStep, VenueStep
<1>2. CASE SubmitDecides /\ Observe
  BY <1>2 DEF SubmitDecides, Next
<1>3. CASE RiskCalls /\ Observe
  BY <1>3, Zenon DEF RiskCalls, Next, RiskNext
<1>4. CASE DirectDecision /\ Observe
  BY <1>4 DEF DirectDecision, Next, RiskNext
<1>5. CASE RecordApproval \/ OtherWriter \/ UNCHANGED evidenceVars
  BY <1>5, Zenon DEF RecordApproval, OtherWriter, evidenceVars
<1> QED BY <1>1, <1>2, <1>3, <1>4, <1>5 DEF EvidenceNext

\* A submission is admitted with a correlation and keeps it (submit).
LEMMA CallIdentifiedStep == CallIdentified /\ [Next]_vars => CallIdentified'
<1> SUFFICES ASSUME CallIdentified, [Next]_vars PROVE CallIdentified'
  OBVIOUS
<1>1. CASE call' = call \/ call' = Idle
  BY <1>1 DEF CallIdentified
<1>2. ASSUME NEW i \in Intents, NEW now \in Times, SubmitCall(i, now) PROVE CallIdentified'
  <2>1. CASE Admission(i, now) = "evaluate"
    <3>1. i.corr # 0
      BY <2>1 DEF Admission
    <3>2. call' = [phase |-> "evaluate", intent |-> i, now |-> now]
      BY <1>2, <2>1 DEF SubmitCall
    <3> QED BY <3>1, <3>2 DEF CallIdentified
  <2>2. CASE Admission(i, now) # "evaluate"
    BY <1>1, <1>2, <2>2 DEF SubmitCall
  <2> QED BY <2>1, <2>2
<1>3. CASE SubmitEvaluate
  BY <1>3 DEF SubmitEvaluate, CallIdentified, Idle
<1>4. CASE SubmitReject \/ SubmitSend
  BY <1>1, <1>4 DEF SubmitReject, SubmitSend
<1>5. CASE OperatorStep
  BY <1>1, <1>5, Zenon DEF OperatorStep, SetGatewayState, SetHalted, CancelReplace
<1>6. CASE VenueStep
  BY <1>1, <1>6 DEF VenueStep, AcknowledgeUnknown, AcknowledgeActive
<1>7. CASE UNCHANGED engineVars \/ UNCHANGED vars
  BY <1>1, <1>7 DEF engineVars, vars
<1> QED BY <1>2, <1>3, <1>4, <1>5, <1>6, <1>7 DEF Next, SubmitStep

\* While no submission is in progress none waits for its approval to be recorded, and
\* without other callers no approval is on its way.
LEMMA IdleDecides ==
  ASSUME DecisionTypes, call = Idle
  PROVE  /\ ~(decision.pending /\ decision.by = "submit")
         /\ ~concurrent => ~decision.pending
  BY DEF DecisionTypes, Idle

\* Record appends the events it is given.
LEMMA RecordsOne ==
  ASSUME DecisionTypes, NEW e \in Events, Record(<< e >>)
  PROVE  journal' = Append(journal, e)
  BY RecordAppends DEF Record, DecisionTypes

\* An operation that records no event leaves the journal as it was.
LEMMA RecordsNone ==
  ASSUME DecisionTypes, Record(<< >>)
  PROVE  journal' = journal
  BY DEF Record, DecisionTypes

\* An event that submit, set_halted, cancel_replace, acknowledge or apply_fill appends.
LEMMA EventTyped ==
  ASSUME NEW type \in EventTypes, NEW corr \in Nat, NEW number \in Nat, NEW text \in Texts
  PROVE  Event(type, corr, number, text) \in Events
  BY DEF Event, Events

\* A submission turned away is noted with a code, one that goes on leaves no event.
LEMMA SubmitCallShape ==
  ASSUME BaseInv, NEW i \in Intents, NEW now \in Times, SubmitCall(i, now),
         Record(SubmitCallEvents(i, now)), UNCHANGED decision
  PROVE  HasShape
<1>1. call = Idle /\ UNCHANGED <<nextVenueId, active>>
  BY DEF SubmitCall, callVars
<1>2. KeepsOrders
  BY <1>1 DEF KeepsOrders
<1>3. /\ ~(decision.pending /\ decision.by = "submit")
      /\ ~concurrent => ~decision.pending
  BY <1>1, IdleDecides DEF BaseInv
<1>4. CASE Admission(i, now) = "evaluate"
  <2>1. call'.phase # "finish"
    BY <1>4 DEF SubmitCall
  <2>2. journal' = journal
    BY <1>4, RecordsNone DEF SubmitCallEvents, BaseInv
  <2> QED BY <1>2, <1>3, <2>1, <2>2 DEF HasShape, Silent, KeepsCall
<1>5. CASE Admission(i, now) # "evaluate"
  <2> DEFINE refusal == Admission(i, now)
             e == Event("OrderSent", i.corr, Code(refusal), "")
  <2>1. refusal \in {"DuplicateCorrelation", "CircuitOpen", "CircuitHalfOpen",
                     "GatewayUnavailable"}
    BY <1>5 DEF Admission
  <2>2. Code(refusal) \in Codes /\ Code(refusal) \in Nat
    BY <2>1, CodesAreNumbers
  <2>3. call' = call
    BY <1>1, <2>1 DEF SubmitCall
  <2>4. i.corr \in Nat
    BY RiskAssumption DEF OrderIntent
  <2>5. Record(<< e >>)
    BY <1>5, Zenon DEF SubmitCallEvents
  <2> HIDE DEF refusal
  <2>6. e \in Events /\ e.type = "OrderSent" /\ e.number = Code(refusal)
    <3>1. "OrderSent" \in EventTypes /\ "" \in Texts
      BY DEF EventTypes, Texts
    <3>2. e \in Events
      BY <2>2, <2>4, <3>1, EventTyped, Zenon
    <3> QED BY <3>2, Zenon DEF Event
  <2> HIDE DEF e
  <2>7. journal' = Append(journal, e)
    BY <2>5, <2>6, RecordsOne DEF BaseInv
  <2>8. ~IsSend(e)
    BY <2>2, <2>6 DEF IsSend
  <2>9. call'.phase # "finish"
    BY <1>1, <2>3 DEF Idle
  <2> QED BY <1>2, <1>3, <2>3, <2>6, <2>7, <2>8, <2>9 DEF HasShape, Notes, KeepsCall
<1> QED BY <1>4, <1>5

\* submit returns with a refusal, noted with its code, or with an order sent.
LEMMA SubmitReturnsShape ==
  ASSUME BaseInv, SubmitReturns, UNCHANGED decision
  PROVE  HasShape
<1> DEFINE corr == call.intent.corr
<1>1. /\ ~(decision.pending /\ decision.by = "submit") /\ call.phase = "finish"
      /\ call # Idle /\ call' = Idle
  BY DEF SubmitReturns, SubmitReject, SubmitSend, Idle
<1>2. ~concurrent => ~decision.pending
  BY <1>1 DEF BaseInv, DecisionTypes
<1>3. corr \in Correlations /\ corr \in Nat /\ ~IsActive(corr)
  BY <1>1, CallShape, CorrelationsAreNumbers, Zenon
  DEF BaseInv, EngineInv, EngineTypeOK, CallAdmitted
<1> HIDE DEF corr
<1>4. CASE SubmitReject
  <2> DEFINE e == Event("OrderSent", corr, Code("RiskRejected"), "")
  <2>1. Code("RiskRejected") \in Codes /\ Code("RiskRejected") \in Nat
    BY CodesAreNumbers
  <2>2. Record(<< e >>)
    BY <1>4, Zenon DEF SubmitReturns, SubmitReject, SubmitFinishEvents, corr
  <2>3. e \in Events /\ e.type = "OrderSent" /\ e.number \in Codes
    <3>1. "OrderSent" \in EventTypes /\ "" \in Texts
      BY DEF EventTypes, Texts
    <3>2. e \in Events
      BY <1>3, <2>1, <3>1, EventTyped, Zenon
    <3> QED BY <2>1, <3>2, Zenon DEF Event
  <2> HIDE DEF e
  <2>4. journal' = Append(journal, e) /\ ~IsSend(e)
    BY <2>2, <2>3, RecordsOne DEF BaseInv, IsSend
  <2>5. KeepsOrders
    BY <1>4 DEF SubmitReject, callVars, KeepsOrders
  <2> QED BY <1>1, <1>2, <2>3, <2>4, <2>5 DEF HasShape, Notes, KeepsCall, Idle
<1>5. CASE SubmitSend
  <2> DEFINE e == Event("OrderSent", corr, nextVenueId, "")
  <2>1. nextVenueId \in Nat /\ active \in [Correlations -> Order]
    BY DEF BaseInv, EngineInv, EngineTypeOK
  <2>2. Record(<< e >>)
    BY <1>5, Zenon DEF SubmitReturns, SubmitSend, SubmitFinishEvents, corr
  <2>3. e \in Events
    BY <1>3, <2>1, EventTyped, Zenon DEF EventTypes, Texts
  <2>4. journal' = Append(journal, Event("OrderSent", corr, nextVenueId, ""))
    BY <2>2, <2>3, RecordsOne, Zenon DEF BaseInv
  <2>5. /\ nextVenueId' = nextVenueId + 1 /\ active'[corr].venueId = nextVenueId
        /\ \A c \in Correlations \ {corr} : active'[c].venueId = active[c].venueId
    BY <1>3, <1>5, <2>1 DEF SubmitSend, Activate, corr
  <2>6. Waiting
    BY <1>1, <1>5 DEF Waiting, SubmitSend
  <2>7. SendsOrder(corr)
    BY <1>1, <1>2, <1>3, <2>4, <2>5, <2>6, Zenon DEF SendsOrder, corr
  <2> QED BY <1>3, <2>7 DEF HasShape
<1> QED BY <1>4, <1>5 DEF SubmitReturns

\* set_halted and the uncertain answers of acknowledge are noted with the number 0, and
\* a replacement with its order's id; an answer that matches takes the order off.
LEMMA OperatorShape ==
  ASSUME BaseInv, UNCHANGED decision,
         \/ \E state \in GatewayStates : SetGatewayState(state) /\ UNCHANGED journal
         \/ \E halt \in BOOLEAN : SetHalted(halt) /\ Record(SetHaltedEvents(halt))
         \/ \E c \in Correlations, r \in Replacements :
              CancelReplace(c, r[1], r[2]) /\ Record(CancelReplaceEvents(c))
         \/ \E c \in Correlations, v \in VenueIds :
              /\ \/ AcknowledgeActive(c, v)
                 \/ \E now \in Times : AcknowledgeUnknown(c, v, now)
              /\ Record(AcknowledgeEvents(c, v))
  PROVE  HasShape
<1>1. call = Idle /\ call' = call
  BY Zenon DEF SetGatewayState, SetHalted, CancelReplace, AcknowledgeActive, AcknowledgeUnknown
<1>2. /\ ~(decision.pending /\ decision.by = "submit")
      /\ ~concurrent => ~decision.pending
  BY <1>1, IdleDecides DEF BaseInv
<1>3. call'.phase # "finish" /\ KeepsCall
  BY <1>1 DEF Idle, KeepsCall
<1>4. /\ active \in [Correlations -> Order] /\ Correlations \subseteq Nat
      /\ \A c \in Correlations : active[c].venueId \in Nat
  BY CorrelationsAreNumbers DEF BaseInv, EngineInv, EngineTypeOK, Order
<1>5. ASSUME NEW e \in Events, KeepsOrders, Record(<< e >>), e.type # "OrderSent",
             e.type = "Acknowledgment" => e.number = 0
      PROVE  HasShape
  <2>1. journal' = Append(journal, e)
    BY <1>5, RecordsOne DEF BaseInv
  <2> QED BY <1>2, <1>3, <1>5, <2>1 DEF HasShape, Notes, IsSend
<1>6. /\ {"Halt", "Acknowledgment", "Cancel"} \subseteq EventTypes
      /\ {"", "halted", "halt_cleared", "uncertain"} \subseteq Texts
      /\ 0 \in Nat
  BY DEF EventTypes, Texts
<1>7. ASSUME NEW state \in GatewayStates, SetGatewayState(state), UNCHANGED journal
      PROVE  HasShape
  BY <1>3, <1>7 DEF SetGatewayState, HasShape, Silent, KeepsOrders
<1>8. ASSUME NEW halt \in BOOLEAN, SetHalted(halt), Record(SetHaltedEvents(halt))
      PROVE  HasShape
  <2>1. KeepsOrders
    BY <1>8 DEF SetHalted, KeepsOrders
  <2>2. CASE halt
    <3> DEFINE e == Event("Halt", 0, 0, "halted")
    <3>1. e \in Events /\ e.type = "Halt"
      <4>1. e \in Events
        BY <1>6, EventTyped, Zenon
      <4> QED BY <4>1 DEF Event
    <3>2. Record(<< e >>)
      BY <1>8, <2>2 DEF SetHaltedEvents
    <3> HIDE DEF e
    <3> QED BY <1>5, <2>1, <3>1, <3>2
  <2>3. CASE ~halt /\ gateway = "Halted"
    <3> DEFINE e == Event("Acknowledgment", 0, 0, "halt_cleared")
    <3>1. e \in Events /\ e.type = "Acknowledgment" /\ e.number = 0
      <4>1. e \in Events
        BY <1>6, EventTyped, Zenon
      <4> QED BY <4>1 DEF Event
    <3>2. Record(<< e >>)
      BY <1>8, <2>3 DEF SetHaltedEvents
    <3> HIDE DEF e
    <3> QED BY <1>5, <2>1, <3>1, <3>2
  <2>4. CASE ~halt /\ gateway # "Halted"
    <3>1. journal' = journal
      BY <1>8, <2>4, RecordsNone DEF SetHaltedEvents, BaseInv
    <3> QED BY <1>3, <2>1, <3>1 DEF HasShape, Silent
  <2> QED BY <2>2, <2>3, <2>4
<1>9. ASSUME NEW c \in Correlations, NEW r \in Replacements,
             CancelReplace(c, r[1], r[2]), Record(CancelReplaceEvents(c))
      PROVE  HasShape
  <2> DEFINE e == Event("Cancel", c, active[c].venueId, "")
  <2>1. KeepsOrders
    <3>1. /\ active' = [active EXCEPT ![c].price = r[1], ![c].quantity = r[2]]
          /\ nextVenueId' = nextVenueId
      BY <1>9 DEF CancelReplace
    <3>2. \A d \in Correlations : active'[d].venueId = active[d].venueId
      BY <1>4, <3>1 DEF Order
    <3> QED BY <3>1, <3>2, Zenon DEF KeepsOrders
  <2>2. e \in Events /\ e.type = "Cancel"
    <3>1. e \in Events
      BY <1>4, <1>6, EventTyped, Zenon
    <3> QED BY <3>1, Zenon DEF Event
  <2>3. Record(<< e >>)
    BY <1>9, Zenon DEF CancelReplaceEvents
  <2> HIDE DEF e
  <2> QED BY <1>5, <2>1, <2>2, <2>3
<1>10. ASSUME NEW c \in Correlations, NEW v \in VenueIds, AcknowledgeActive(c, v),
              Record(AcknowledgeEvents(c, v))
       PROVE  HasShape
  <2> DEFINE e == Event("Acknowledgment", c, active[c].venueId, "")
  <2>1. IsActive(c) /\ active[c].venueId = v /\ UNCHANGED nextVenueId
        /\ active' = [active EXCEPT ![c] = NoOrder]
    BY <1>10 DEF AcknowledgeActive
  <2>2. /\ active'[c].venueId = 0
        /\ \A d \in Correlations \ {c} : active'[d].venueId = active[d].venueId
    BY <1>4, <2>1 DEF NoOrder
  <2>3. e \in Events
    BY <1>4, <1>6, EventTyped, Zenon
  <2>4. Record(<< e >>)
    BY <1>10, <2>1, Zenon DEF AcknowledgeEvents
  <2>5. journal' = Append(journal, Event("Acknowledgment", c, active[c].venueId, ""))
    BY <2>3, <2>4, RecordsOne, Zenon DEF BaseInv
  <2> QED BY <1>1, <1>2, <2>1, <2>2, <2>5, Zenon DEF HasShape, Acknowledges
<1>11. ASSUME NEW c \in Correlations, NEW v \in VenueIds, NEW now \in Times,
              AcknowledgeUnknown(c, v, now), Record(AcknowledgeEvents(c, v))
       PROVE  HasShape
  <2> DEFINE e == Event("Acknowledgment", c, 0, "uncertain")
  <2>1. KeepsOrders
    BY <1>11 DEF AcknowledgeUnknown, KeepsOrders
  <2>2. e \in Events /\ e.type = "Acknowledgment" /\ e.number = 0
    <3>1. e \in Events
      BY <1>4, <1>6, EventTyped, Zenon
    <3> QED BY <3>1 DEF Event
  <2>3. Record(<< e >>)
    BY <1>11, Zenon DEF AcknowledgeUnknown, AcknowledgeEvents
  <2> HIDE DEF e
  <2> QED BY <1>5, <2>1, <2>2, <2>3
<1> QED BY <1>7, <1>8, <1>9, <1>10, <1>11

\* evaluate announces an approval or appends a refusal.
LEMMA DecideShape ==
  ASSUME BaseInv, NEW i \in Intents, NEW now, NEW by \in {"submit", "direct"},
         Decide(i, now, by), UNCHANGED <<nextVenueId, active>>,
         \/ /\ by = "submit" /\ call'.phase = "finish" /\ call'.intent = i
            /\ call'.verdict = Verdict(i, now)
         \/ by = "direct" /\ concurrent /\ call' = call
  PROVE  HasShape
<1>1. KeepsOrders /\ ~decision.pending
  BY SMTT(30) DEF KeepsOrders, Decide, RiskFree
<1>2. i.corr \in Nat /\ Verdict(i, now) \in Verdicts
  BY RiskAssumption, VerdictType, SMTT(30) DEF OrderIntent
<1>3. CASE Verdict(i, now) = "Approved"
  <2>1. (Verdict(i, now) = "Approved") = TRUE
    BY <1>3
  <2>2. decision' = Decision(i.corr, by, TRUE)
    BY <2>1, Zenon DEF Decide, Decision, NextSequence
  <2>3. journal' = journal
    BY <1>3, RecordsNone DEF Decide, BaseInv
  <2>4. Announces(i.corr, by)
    BY <1>1, <1>3, <2>2, <2>3, SMTT(30) DEF Announces
  <2> QED BY <1>2, <2>4 DEF HasShape
<1>4. CASE Verdict(i, now) # "Approved"
  <2> DEFINE text == Verdict(i, now)
             e == Event("RiskDecision", i.corr, 0, text)
  <2>1. (Verdict(i, now) = "Approved") = FALSE
    BY <1>4
  <2>2. decision' = Decision(i.corr, by, FALSE)
    BY <2>1, Zenon DEF Decide, Decision, NextSequence
  <2>3. Record(<< e >>)
    BY <1>4 DEF Decide, DecisionEvents
  <2>4. "RiskDecision" \in EventTypes /\ text \in Texts
    BY <1>2, Zenon DEF EventTypes, Texts
  <2> HIDE DEF text
  <2>5. e \in Events
    BY <1>2, <2>4, EventTyped
  <2>6. journal' = Append(journal, Event("RiskDecision", i.corr, 0, text))
    BY <2>3, <2>5, RecordsOne DEF BaseInv
  <2>7. text # "Approved" /\ (by = "submit" => call'.verdict = text)
    BY <1>4 DEF text
  <2>8. Refuses(i.corr, by, text)
    BY <1>1, <2>2, <2>6, <2>7 DEF Refuses
  <2> QED BY <1>2, <2>4, <2>8 DEF HasShape
<1> QED BY <1>3, <1>4

\* Every step of the system has one of the shapes.
LEMMA EveryStepHasShape ==
  ASSUME BaseInv, [EvidenceNext]_evidenceVars
  PROVE  HasShape
<1>1. CASE EngineCalls
  <2>1. ASSUME NEW i \in Intents, NEW now \in Times, SubmitCall(i, now),
               Record(SubmitCallEvents(i, now))
        PROVE  HasShape
    BY <1>1, <2>1, SubmitCallShape DEF EngineCalls
  <2>2. UNCHANGED decision
    BY <1>1 DEF EngineCalls
  <2> QED BY <1>1, <2>1, <2>2, SubmitReturnsShape, OperatorShape DEF EngineCalls
<1>2. CASE SubmitDecides
  <2>1. /\ Decide(call.intent, call.now, "submit") /\ call # Idle
        /\ call'.phase = "finish" /\ call'.intent = call.intent
        /\ call'.verdict = Verdict(call.intent, call.now)
        /\ UNCHANGED <<nextVenueId, active>>
    BY <1>2, SMTT(30) DEF SubmitDecides, SubmitEvaluate, callVars, Idle
  <2>2. call.intent \in Intents
    BY <2>1, CallShape DEF BaseInv, EngineInv, EngineTypeOK
  <2> QED BY <2>1, <2>2, DecideShape, SMTT(30)
<1>3. CASE RiskCalls
  <2>1. /\ UNCHANGED <<nextVenueId, active, call, decision>> /\ ~decision.pending
    BY <1>3, Zenon DEF RiskCalls, engineVars, callVars, RiskFree
  <2>2. KeepsOrders /\ KeepsCall
    BY <2>1 DEF KeepsOrders, KeepsCall
  <2>3. CASE UNCHANGED journal
    BY <2>1, <2>2, <2>3 DEF HasShape, Silent
  <2>4. CASE Record(<< Event("Fill", 0, 0, "") >>)
    <3> DEFINE e == Event("Fill", 0, 0, "")
    <3>1. "Fill" \in EventTypes /\ "" \in Texts /\ 0 \in Nat
      BY DEF EventTypes, Texts
    <3>2. e \in Events /\ e.type = "Fill" /\ e.corr = 0
      <4>1. e \in Events
        BY <3>1, EventTyped, Zenon
      <4> QED BY <4>1, Zenon DEF Event
    <3>3. journal' = Append(journal, e)
      BY <2>4, <3>2, RecordsOne, Zenon DEF BaseInv
    <3> HIDE DEF e
    <3> QED BY <2>1, <2>2, <3>2, <3>3 DEF HasShape, Notes, IsSend
  <2> QED BY <1>3, <2>3, <2>4, Zenon DEF RiskCalls
<1>4. CASE DirectDecision
  <2>1. PICK i \in Intents, now \in Times : Decide(i, now, "direct")
    BY <1>4 DEF DirectDecision
  <2>2. concurrent /\ UNCHANGED <<nextVenueId, active, call>>
    BY <1>4 DEF DirectDecision, engineVars, callVars
  <2> QED BY <2>1, <2>2, DecideShape
<1>5. CASE RecordApproval
  <2>1. UNCHANGED <<nextVenueId, active, call>>
    BY <1>5 DEF RecordApproval, vars, engineVars, callVars
  <2> QED BY <1>5, <2>1 DEF RecordApproval, HasShape, Confirms, KeepsOrders
<1>6. CASE OtherWriter
  <2>1. UNCHANGED <<nextVenueId, active, call, decision>> /\ concurrent
    BY <1>6, Zenon DEF OtherWriter, vars, engineVars, callVars
  <2>2. PICK type \in {"Acknowledgment", "Fill"}, c \in Correlations,
             v \in 1 .. MaxSharedOrders : Record(<< Event(type, c, v, "") >>)
    BY <1>6, Zenon DEF OtherWriter
  <2> DEFINE e == Event(type, c, v, "")
  <2>3. type \in EventTypes /\ type # "OrderSent" /\ "" \in Texts /\ v \in Nat /\ c \in Nat
    BY CorrelationsAreNumbers, EvidenceAssumption DEF EventTypes, Texts
  <2>4. e \in Events /\ e.type # "OrderSent"
    <3>1. e \in Events
      BY <2>3, EventTyped, Zenon
    <3> QED BY <3>1, Zenon DEF Event
  <2>5. journal' = Append(journal, e)
    BY <2>2, <2>4, RecordsOne, Zenon DEF BaseInv
  <2> HIDE DEF e
  <2>6. KeepsOrders /\ KeepsCall
    BY <2>1 DEF KeepsOrders, KeepsCall
  <2> QED BY <2>1, <2>4, <2>5, <2>6 DEF HasShape, Notes, IsSend
<1>7. CASE UNCHANGED evidenceVars
  BY <1>7 DEF evidenceVars, vars, engineVars, callVars, HasShape, Silent, KeepsOrders, KeepsCall
<1> QED BY <1>1, <1>2, <1>3, <1>4, <1>5, <1>6, <1>7 DEF EvidenceNext

-----------------------------------------------------------------------------
(* What an appended event changes                                          *)

Approvals(c) == {k \in Entries(c) : journal[k].text = "Approved"}

\* append puts the event behind all others and changes none of them.
LEMMA AppendKeeps ==
  ASSUME journal \in Seq(Events), NEW e \in Events, journal' = Append(journal, e)
  PROVE  /\ journal' \in Seq(Events)
         /\ Len(journal) \in Nat /\ Len(journal') = Len(journal) + 1
         /\ DOMAIN journal = 1 .. Len(journal) /\ DOMAIN journal' = 1 .. Len(journal) + 1
         /\ \A k \in DOMAIN journal : journal'[k] = journal[k]
         /\ journal'[Len(journal) + 1] = e
  OBVIOUS

\* The entries, sends and approvals of a correlation after an event is appended.
LEMMA AppendAdds ==
  ASSUME journal \in Seq(Events), NEW e \in Events, journal' = Append(journal, e), NEW c
  PROVE  /\ Entries(c)' = Entries(c) \cup (IF e.corr = c THEN {Len(journal) + 1} ELSE {})
         /\ Sends(c)' = Sends(c) \cup
              (IF e.corr = c /\ IsSend(e) THEN {Len(journal) + 1} ELSE {})
         /\ Approvals(c)' = Approvals(c) \cup
              (IF e.corr = c /\ e.text = "Approved" THEN {Len(journal) + 1} ELSE {})
<1>1. Entries(c)' = Entries(c) \cup (IF e.corr = c THEN {Len(journal) + 1} ELSE {})
  <2>1. ASSUME NEW k PROVE k \in Entries(c)' <=>
           k \in Entries(c) \cup (IF e.corr = c THEN {Len(journal) + 1} ELSE {})
    BY AppendKeeps DEF Entries
  <2> QED BY <2>1, SMTT(30)
<1>2. ASSUME NEW k \in Entries(c)'
      PROVE  \/ k \in DOMAIN journal /\ journal'[k] = journal[k] /\ k # Len(journal) + 1
             \/ k = Len(journal) + 1 /\ journal'[k] = e /\ k \notin Entries(c)
  BY AppendKeeps DEF Entries
<1>3. Len(journal) + 1 \notin Entries(c)
  BY AppendKeeps DEF Entries
<1>4. ASSUME NEW k PROVE k \in Sends(c)' <=>
         k \in Sends(c) \cup (IF e.corr = c /\ IsSend(e) THEN {Len(journal) + 1} ELSE {})
  BY <1>1, <1>2, <1>3 DEF Sends, IsSend
<1>5. ASSUME NEW k PROVE k \in Approvals(c)' <=>
         k \in Approvals(c) \cup
           (IF e.corr = c /\ e.text = "Approved" THEN {Len(journal) + 1} ELSE {})
  BY <1>1, <1>2, <1>3 DEF Approvals
<1> QED BY <1>1, <1>4, <1>5

\* A step appends one event or none.
LEMMA JournalGrows ==
  ASSUME BaseInv, HasShape
  PROVE  journal' = journal \/ \E e \in Events : journal' = Append(journal, e)
<1>1. /\ {"RiskDecision", "OrderSent", "Acknowledgment"} \subseteq EventTypes
      /\ {"", "Approved"} \subseteq Texts /\ 0 \in Nat
  BY DEF EventTypes, Texts, Verdicts
<1>2. /\ Correlations \subseteq Nat /\ nextVenueId \in Nat
      /\ \A c \in Correlations : active[c].venueId \in Nat
      /\ decision.corr \in Nat
  BY CorrelationsAreNumbers
  DEF BaseInv, EngineInv, EngineTypeOK, Order, DecisionTypes
<1>3. CASE Confirms
  <2>1. Event("RiskDecision", decision.corr, 0, "Approved") \in Events
    BY <1>1, <1>2, EventTyped, Zenon
  <2> QED BY <1>3, <2>1 DEF Confirms
<1>4. ASSUME NEW corr \in Nat, NEW by, NEW text \in Texts, Refuses(corr, by, text)
      PROVE  \E e \in Events : journal' = Append(journal, e)
  <2>1. Event("RiskDecision", corr, 0, text) \in Events
    BY <1>1, EventTyped, Zenon
  <2> QED BY <1>4, <2>1 DEF Refuses
<1>5. ASSUME NEW corr \in Correlations, SendsOrder(corr)
      PROVE  \E e \in Events : journal' = Append(journal, e)
  <2>1. Event("OrderSent", corr, nextVenueId, "") \in Events
    BY <1>1, <1>2, EventTyped, Zenon
  <2> QED BY <1>5, <2>1, Zenon DEF SendsOrder
<1>6. ASSUME NEW corr \in Correlations, Acknowledges(corr)
      PROVE  \E e \in Events : journal' = Append(journal, e)
  <2>1. Event("Acknowledgment", corr, active[corr].venueId, "") \in Events
    BY <1>1, <1>2, EventTyped, Zenon
  <2> QED BY <1>6, <2>1, Zenon DEF Acknowledges
<1> QED BY <1>3, <1>4, <1>5, <1>6, Zenon DEF HasShape, Silent, Notes, Announces

-----------------------------------------------------------------------------
(* The decision and its entry                                              *)

\* The journal and the decision keep their types, and an approval on its way keeps the
\* submission it belongs to (evaluate, submit).
LEMMA DecisionTypesStep ==
  ASSUME BaseInv, HasShape, UNCHANGED concurrent
  PROVE  DecisionTypes'
<1> DEFINE Decisions ==
      [id : Nat, corr : Nat, by : {"none", "submit", "direct"}, pending : BOOLEAN]
<1>1. journal' \in Seq(Events) /\ Len(journal) + 1 \in Nat
  <2>1. journal \in Seq(Events)
    BY Zenon DEF BaseInv, DecisionTypes
  <2>2. journal' = journal \/ \E e \in Events : journal' = Append(journal, e)
    BY JournalGrows, Zenon
  <2> HIDE DEF Events
  <2> QED BY <2>1, <2>2, SMTT(30)
<1>2. CASE UNCHANGED decision /\ KeepsCall
  BY <1>1, <1>2 DEF BaseInv, DecisionTypes, KeepsCall
<1>3. CASE Confirms
  <2>1. /\ decision' \in Decisions /\ decision'.pending = FALSE /\ decision'.by = decision.by
    BY <1>3, Zenon DEF Confirms, BaseInv, DecisionTypes
  <2> QED BY <1>1, <2>1 DEF BaseInv, DecisionTypes
<1>4. ASSUME NEW corr \in Nat, NEW by \in {"submit", "direct"}, Announces(corr, by)
      PROVE  DecisionTypes'
  <2>1. /\ decision' \in Decisions /\ decision'.by = by /\ decision'.corr = corr
    BY <1>1, <1>4 DEF Announces, Decision
  <2> QED BY <1>1, <1>4, <2>1, Zenon DEF Announces, BaseInv, DecisionTypes
<1>5. ASSUME NEW corr \in Nat, NEW by \in {"submit", "direct"}, NEW text,
             Refuses(corr, by, text)
      PROVE  DecisionTypes'
  <2>1. /\ decision' \in Decisions /\ decision'.by = by /\ decision'.pending = FALSE
    BY <1>1, <1>5 DEF Refuses, Decision
  <2> QED BY <1>1, <1>5, <2>1, Zenon DEF Refuses, BaseInv, DecisionTypes
<1>6. ASSUME NEW corr, SendsOrder(corr) PROVE DecisionTypes'
  BY <1>1, <1>6, Zenon DEF SendsOrder, Waiting, BaseInv, DecisionTypes
<1>7. ASSUME NEW corr, Acknowledges(corr) PROVE DecisionTypes'
  BY <1>1, <1>7, Zenon DEF Acknowledges, BaseInv, DecisionTypes
<1> QED BY <1>2, <1>3, <1>4, <1>5, <1>6, <1>7 DEF HasShape, Silent, Notes

\* Without other writers nothing is appended between next_sequence and append, so the
\* entry of an approval gets the id the decision carries.
LEMMA DecisionPlacedStep ==
  ASSUME BaseInv, DecisionPlaced, HasShape, UNCHANGED concurrent
  PROVE  DecisionPlaced'
<1> SUFFICES ASSUME ~concurrent
             PROVE  /\ decision'.pending => decision'.id = Len(journal') + 1
                    /\ ~decision'.pending /\ decision'.id # 0 =>
                         /\ decision'.id \in DOMAIN journal'
                         /\ journal'[decision'.id].type = "RiskDecision"
                         /\ journal'[decision'.id].corr = decision'.corr
  BY DEF DecisionPlaced
<1>1. journal \in Seq(Events)
  BY DEF BaseInv, DecisionTypes
<1>2. CASE UNCHANGED <<journal, decision>>
  BY <1>2 DEF DecisionPlaced
<1>3. CASE UNCHANGED decision /\ ~decision.pending /\ \E e \in Events : journal' = Append(journal, e)
  BY <1>1, <1>3, AppendKeeps DEF DecisionPlaced
<1>4. ASSUME NEW e \in Events, journal' = Append(journal, e), e.type = "RiskDecision",
             e.corr = decision'.corr, decision'.id = Len(journal) + 1, ~decision'.pending
      PROVE  /\ decision'.pending => decision'.id = Len(journal') + 1
             /\ ~decision'.pending /\ decision'.id # 0 =>
                  /\ decision'.id \in DOMAIN journal'
                  /\ journal'[decision'.id].type = "RiskDecision"
                  /\ journal'[decision'.id].corr = decision'.corr
  BY <1>1, <1>4, AppendKeeps
<1>5. "RiskDecision" \in EventTypes /\ "Approved" \in Texts /\ decision.corr \in Nat
  BY SMTT(30) DEF EventTypes, Texts, Verdicts, BaseInv, DecisionTypes
<1>6. CASE Confirms
  <2> DEFINE e == Event("RiskDecision", decision.corr, 0, "Approved")
  <2>1. e \in Events
    BY <1>5, EventTyped
  <2>2. e.type = "RiskDecision" /\ e.corr = decision.corr
    BY DEF Event
  <2>3. /\ decision'.corr = decision.corr /\ decision'.id = decision.id
        /\ ~decision'.pending /\ decision.pending /\ journal' = Append(journal, e)
    BY <1>6, SMTT(30) DEF Confirms, BaseInv, DecisionTypes
  <2> HIDE DEF e
  <2> QED BY <1>4, <2>1, <2>2, <2>3 DEF DecisionPlaced
<1>7. ASSUME NEW corr \in Nat, NEW by, Announces(corr, by)
      PROVE  decision'.pending = TRUE /\ decision'.id = Len(journal') + 1
  BY <1>7, SMTT(30) DEF Announces, Decision
<1>8. ASSUME NEW corr \in Nat, NEW by, NEW text \in Texts, Refuses(corr, by, text)
      PROVE  /\ decision'.pending => decision'.id = Len(journal') + 1
             /\ ~decision'.pending /\ decision'.id # 0 =>
                  /\ decision'.id \in DOMAIN journal'
                  /\ journal'[decision'.id].type = "RiskDecision"
                  /\ journal'[decision'.id].corr = decision'.corr
  <2> DEFINE e == Event("RiskDecision", corr, 0, text)
  <2>1. e \in Events
    BY <1>5, EventTyped
  <2>2. e.type = "RiskDecision" /\ e.corr = corr
    BY DEF Event
  <2>3. /\ decision'.corr = corr /\ decision'.id = Len(journal) + 1
        /\ ~decision'.pending /\ journal' = Append(journal, e)
    BY <1>8 DEF Refuses, Decision
  <2> HIDE DEF e
  <2> QED BY <1>4, <2>1, <2>2, <2>3
<1>9. ASSUME NEW e \in Events, Notes(e)
      PROVE  UNCHANGED decision /\ ~decision.pending /\ journal' = Append(journal, e)
  BY <1>9, SMTT(30) DEF Notes
<1>10. ASSUME NEW corr, SendsOrder(corr) \/ Acknowledges(corr)
       PROVE  UNCHANGED decision /\ ~decision.pending
  BY <1>10, Zenon DEF SendsOrder, Acknowledges
<1>11. journal' = journal \/ \E e \in Events : journal' = Append(journal, e)
  BY JournalGrows
<1> QED BY <1>2, <1>3, <1>6, <1>7, <1>8, <1>9, <1>10, <1>11, ZenonT(30) DEF HasShape, Silent

\* The engine's invariant and the types hold in every state of the evidence.
LEMMA BaseInvAlways == EvidenceSpec => [](BaseInv /\ DecisionPlaced)
<1>1. EvidenceInit => BaseInv /\ DecisionPlaced
  <2> SUFFICES ASSUME EvidenceInit PROVE BaseInv /\ DecisionPlaced
    OBVIOUS
  <2>1. EngineInv
    BY EngineInitInv, SMTT(30) DEF EvidenceInit
  <2>2. CallIdentified
    BY DEF EvidenceInit, Init, EngineInit, CallIdentified
  <2>3. DecisionTypes
    BY DEF EvidenceInit, DecisionTypes
  <2>4. DecisionPlaced
    BY DEF EvidenceInit, DecisionPlaced
  <2> QED BY <2>1, <2>2, <2>3, <2>4 DEF BaseInv
<1>2. BaseInv /\ DecisionPlaced /\ [EvidenceNext]_evidenceVars => (BaseInv /\ DecisionPlaced)'
  <2> SUFFICES ASSUME BaseInv, DecisionPlaced, [EvidenceNext]_evidenceVars
               PROVE  BaseInv' /\ DecisionPlaced'
    OBVIOUS
  <2>1. [Next]_vars
    BY EvidenceRefinesEngine DEF BaseInv
  <2>2. EngineInv' /\ CallIdentified'
    BY <2>1, EngineStepInv, CallIdentifiedStep DEF BaseInv
  <2>3. HasShape /\ UNCHANGED concurrent
    BY EveryStepHasShape DEF EvidenceNext, evidenceVars
  <2> QED BY <2>2, <2>3, DecisionTypesStep, DecisionPlacedStep DEF BaseInv
<1> QED BY <1>1, <1>2, PTL DEF EvidenceSpec

\* As long as the engines are the only writers, the event id of every decision is the id
\* of its entry in the journal (evaluate, next_sequence, append).
THEOREM DecisionIdIsJournaledAlways == EvidenceSpec => []DecisionIdIsJournaled
<1>1. BaseInv /\ DecisionPlaced => DecisionIdIsJournaled
  BY SMTT(30)
  DEF BaseInv, DecisionTypes, DecisionPlaced, DecisionIdIsJournaled, AnnouncedIdIsJournaled
<1> QED BY <1>1, BaseInvAlways, PTL

-----------------------------------------------------------------------------
(* Every order on record was sent on its own approval                      *)

\* The last entry of a correlation is an approval.
LastApproved(c) ==
  \E j \in Entries(c) :
    /\ journal[j].type = "RiskDecision" /\ journal[j].text = "Approved"
    /\ \A m \in Entries(c) : m <= j

\* EvidenceChain made inductive: the order that waits to be sent has its approval last.
ChainInv == EvidenceChain /\ (~concurrent /\ Waiting => LastApproved(call.intent.corr))

\* The chain holds after an event that is no send, and after a send whose approval is the
\* last entry of its correlation.
LEMMA ChainGrows ==
  ASSUME BaseInv, ~concurrent, EvidenceChain, NEW e \in Events, journal' = Append(journal, e),
         IsSend(e) => LastApproved(e.corr)
  PROVE  EvidenceChain'
<1> DEFINE n == Len(journal) + 1
<1>1. journal \in Seq(Events)
  BY DEF BaseInv, DecisionTypes
<1>2. /\ Len(journal) \in Nat /\ DOMAIN journal = 1 .. Len(journal)
      /\ \A k \in DOMAIN journal : journal'[k] = journal[k]
  BY <1>1, AppendKeeps
<1> SUFFICES ASSUME NEW c \in Correlations, NEW k \in Sends(c)'
             PROVE  \E j \in Entries(c)' :
                      /\ j < k
                      /\ journal'[j].type = "RiskDecision" /\ journal'[j].text = "Approved"
                      /\ \A m \in Entries(c)' : m <= j \/ m >= k
  BY Zenon DEF EvidenceChain
<1>3. Entries(c) \subseteq DOMAIN journal /\ Sends(c) \subseteq Entries(c)
  BY DEF Entries, Sends
<1>4. Entries(c)' = Entries(c) \cup (IF e.corr = c THEN {n} ELSE {})
  BY <1>1, AppendAdds
<1>5. Sends(c)' = Sends(c) \cup (IF e.corr = c /\ IsSend(e) THEN {n} ELSE {})
  BY <1>1, AppendAdds
<1> HIDE DEF n
<1>6. n \in Nat /\ \A m \in DOMAIN journal : m \in Nat /\ m < n
  BY <1>2, SMTT(30) DEF n
<1>7. CASE k \in Sends(c)
  <2>1. PICK j \in Entries(c) :
           /\ j < k
           /\ journal[j].type = "RiskDecision" /\ journal[j].text = "Approved"
           /\ \A m \in Entries(c) : m <= j \/ m >= k
    BY <1>7, SMTT(30) DEF EvidenceChain
  <2>2. \A m \in Entries(c)' : m <= j \/ m >= k
    BY <1>3, <1>4, <1>6, <1>7, <2>1, SMTT(30)
  <2> QED BY <1>2, <1>3, <1>4, <2>1, <2>2, SMTT(30)
<1>8. CASE k = n /\ e.corr = c /\ IsSend(e)
  <2>1. PICK j \in Entries(c) :
           /\ journal[j].type = "RiskDecision" /\ journal[j].text = "Approved"
           /\ \A m \in Entries(c) : m <= j
    BY <1>8 DEF LastApproved
  <2>2. j < k /\ journal'[j] = journal[j] /\ j \in Entries(c)'
    BY <1>2, <1>3, <1>4, <1>6, <1>8
  <2>3. \A m \in Entries(c)' : m <= j \/ m >= k
    BY <1>4, <1>6, <1>8, <2>1
  <2> QED BY <2>1, <2>2, <2>3, ZenonT(30)
<1> QED BY <1>5, <1>7, <1>8, Zenon

\* An entry of another correlation leaves the last entry where it is.
LEMMA LastApprovedStays ==
  ASSUME BaseInv, NEW c, LastApproved(c),
         journal' = journal \/ \E e \in Events : journal' = Append(journal, e) /\ e.corr # c
  PROVE  LastApproved(c)'
<1>1. CASE journal' = journal
  BY <1>1 DEF LastApproved, Entries
<1>2. ASSUME NEW e \in Events, journal' = Append(journal, e), e.corr # c
      PROVE  LastApproved(c)'
  <2>1. journal \in Seq(Events)
    BY DEF BaseInv, DecisionTypes
  <2>2. Entries(c)' = Entries(c)
    <3>1. Entries(c)' = Entries(c) \cup (IF e.corr = c THEN {Len(journal) + 1} ELSE {})
      BY <1>2, <2>1, AppendAdds
    <3> QED BY <1>2, <3>1
  <2>3. \A k \in Entries(c) : journal'[k] = journal[k]
    BY <1>2, <2>1, AppendKeeps DEF Entries
  <2> QED BY <2>2, <2>3 DEF LastApproved
<1> QED BY <1>1, <1>2

\* The chain is kept by every step: only a submission that waits sends, and while it
\* waits nothing is appended for its correlation.
LEMMA ChainInvStep ==
  ASSUME BaseInv, ChainInv, HasShape, UNCHANGED concurrent
  PROVE  ChainInv'
<1>0. concurrent' => EvidenceChain'
  BY Zenon DEF EvidenceChain
<1> SUFFICES ASSUME ~concurrent
             PROVE  EvidenceChain' /\ (Waiting' => LastApproved(call.intent.corr)')
  BY <1>0, Zenon DEF ChainInv
<1>1. journal \in Seq(Events) /\ EvidenceChain
  BY SMTT(30) DEF BaseInv, DecisionTypes, ChainInv
<1>2. journal' = journal => EvidenceChain'
  BY <1>1, SMTT(30) DEF EvidenceChain, Entries, Sends
<1>3. /\ {"RiskDecision", "OrderSent", "Acknowledgment"} \subseteq EventTypes
      /\ {"", "Approved"} \subseteq Texts /\ 0 \in Nat
      /\ Correlations \subseteq Nat /\ nextVenueId \in Nat /\ decision.corr \in Nat
      /\ \A c \in Correlations : active[c].venueId \in Nat
  BY CorrelationsAreNumbers, SMTT(30)
  DEF EventTypes, Texts, Verdicts, BaseInv, DecisionTypes, EngineInv, EngineTypeOK, Order
<1>4. CASE Silent
  <2>1. Waiting' => Waiting /\ call' = call
    BY <1>4 DEF Silent, KeepsCall, Waiting
  <2> QED BY <1>2, <1>4, <2>1, LastApprovedStays, Zenon DEF Silent, ChainInv
<1>5. ASSUME NEW e \in Events, Notes(e)
      PROVE  EvidenceChain' /\ (Waiting' => LastApproved(call.intent.corr)')
  <2>1. journal' = Append(journal, e) /\ ~IsSend(e)
    BY <1>5 DEF Notes
  <2>2. EvidenceChain'
    BY <1>1, <2>1, ChainGrows
  <2>3. ASSUME Waiting' PROVE LastApproved(call.intent.corr)'
    <3>1. Waiting /\ call' = call /\ e.corr = 0
      BY <1>5, <2>3 DEF Notes, KeepsCall, Waiting
    <3>2. call.intent.corr # 0
      BY <3>1 DEF BaseInv, CallIdentified, Waiting, Idle
    <3>3. LastApproved(call.intent.corr)
      BY <3>1 DEF ChainInv
    <3>4. \A d : LastApproved(d) /\ e.corr # d => LastApproved(d)'
      BY <2>1, LastApprovedStays, SMTT(30)
    <3> QED BY <3>1, <3>2, <3>3, <3>4
  <2> QED BY <2>2, <2>3
<1>6. ASSUME NEW corr \in Nat, NEW by \in {"submit", "direct"}, Announces(corr, by)
      PROVE  EvidenceChain' /\ ~Waiting'
  BY <1>2, <1>6 DEF Announces, Decision, Waiting
<1>7. ASSUME NEW corr \in Nat, NEW by \in {"submit", "direct"}, NEW text \in Texts,
             Refuses(corr, by, text)
      PROVE  EvidenceChain' /\ ~Waiting'
  <2> DEFINE e == Event("RiskDecision", corr, 0, text)
  <2>1. e \in Events
    BY <1>3, EventTyped, Zenon
  <2>2. ~IsSend(e)
    BY DEF IsSend, Event
  <2>3. journal' = Append(journal, e) /\ ~Waiting'
    BY <1>7, Zenon DEF Refuses, Waiting
  <2> HIDE DEF e
  <2> QED BY <1>1, <2>1, <2>2, <2>3, ChainGrows
<1>8. CASE Confirms
  <2> DEFINE e == Event("RiskDecision", decision.corr, 0, "Approved")
             n == Len(journal) + 1
  <2>1. e \in Events
    BY <1>3, EventTyped, Zenon
  <2>2. ~IsSend(e) /\ e.type = "RiskDecision" /\ e.text = "Approved" /\ e.corr = decision.corr
    BY DEF IsSend, Event
  <2>3. journal' = Append(journal, e) /\ call' = call /\ decision.pending
    BY <1>8 DEF Confirms
  <2> HIDE DEF e
  <2>4. EvidenceChain'
    BY <1>1, <2>1, <2>2, <2>3, ChainGrows
  <2>5. call.intent.corr = decision.corr
    BY <2>3 DEF BaseInv, DecisionTypes
  <2>6. ASSUME NEW c, c = e.corr PROVE LastApproved(c)'
    <3>1. Entries(c)' = Entries(c) \cup (IF e.corr = c THEN {n} ELSE {})
      BY <1>1, <2>1, <2>3, AppendAdds, SMTT(30)
    <3>2. journal'[n] = e /\ n \in Nat /\ \A m \in DOMAIN journal : m <= n
      BY <1>1, <2>1, <2>3, AppendKeeps
    <3> HIDE DEF n
    <3>3. n \in Entries(c)' /\ \A m \in Entries(c)' : m <= n
      BY <2>6, <3>1, <3>2 DEF Entries
    <3> QED BY <2>2, <3>2, <3>3 DEF LastApproved
  <2>7. call'.intent.corr = e.corr
    BY <2>2, <2>3, <2>5
  <2> QED BY <2>4, <2>6, <2>7
<1>9. ASSUME NEW corr \in Correlations, SendsOrder(corr)
      PROVE  EvidenceChain' /\ ~Waiting'
  <2> DEFINE e == Event("OrderSent", corr, nextVenueId, "")
  <2>1. e \in Events
    BY <1>3, EventTyped, Zenon
  <2>2. e.corr = corr
    BY SMTT(30) DEF Event
  <2>3. journal' = Append(journal, e) /\ LastApproved(corr)
    BY <1>9, Zenon DEF SendsOrder, ChainInv
  <2>4. ~Waiting'
    BY <1>9, Zenon DEF SendsOrder, Waiting, Idle
  <2> HIDE DEF e
  <2> QED BY <1>1, <2>1, <2>2, <2>3, <2>4, ChainGrows
<1>10. ASSUME NEW corr \in Correlations, Acknowledges(corr)
       PROVE  EvidenceChain' /\ ~Waiting'
  <2> DEFINE e == Event("Acknowledgment", corr, active[corr].venueId, "")
  <2>1. e \in Events
    BY <1>3, EventTyped, Zenon
  <2>2. ~IsSend(e)
    BY SMTT(30) DEF IsSend, Event
  <2>3. journal' = Append(journal, e) /\ ~Waiting'
    BY <1>10, Zenon DEF Acknowledges, Waiting, Idle
  <2> HIDE DEF e
  <2> QED BY <1>1, <2>1, <2>2, <2>3, ChainGrows
<1> QED BY <1>4, <1>5, <1>6, <1>7, <1>8, <1>9, <1>10, SMTT(30) DEF HasShape

\* While submit is the only way in, the entry before every send, among those of its
\* correlation, is an approving decision (evaluate, submit, append).
THEOREM EvidenceChainAlways == EvidenceSpec => []EvidenceChain
<1>1. EvidenceInit => ChainInv
  BY DEF EvidenceInit, Init, EngineInit, Idle, ChainInv, EvidenceChain, Sends, Entries, Waiting
<1>2. BaseInv /\ ChainInv /\ [EvidenceNext]_evidenceVars => ChainInv'
  BY EveryStepHasShape, ChainInvStep DEF EvidenceNext, evidenceVars
<1>3. ChainInv => EvidenceChain
  BY DEF ChainInv
<1> QED BY <1>1, <1>2, <1>3, BaseInvAlways, PTL DEF EvidenceSpec
=============================================================================
