--------------------------- MODULE OrderEvidence ----------------------------
(***************************************************************************)
(* The event journal (cpp/ito_core/event.cpp) written by the execution and *)
(* the risk engine.  EventJournal::append runs under the journal's mutex   *)
(* and gives an event the next event_id and the next sequence; both start  *)
(* at 1 and move together, so both are the event's index in journal.       *)
(*                                                                         *)
(* RiskEngine::evaluate reads the id of an approval with next_sequence and *)
(* appends the approval in a second call, each under the journal's mutex   *)
(* but the pair under the risk engine's mutex only: decision.pending holds *)
(* in between.  concurrent says whether other threads use the journal and  *)
(* the risk engine directly, as ExchangeSimulator, SimulatorAdapter and    *)
(* callers of evaluate do, or submit is the only way in.                   *)
(***************************************************************************)
EXTENDS ExecutionEngine, FiniteSets

CONSTANTS
  MaxEvents,       \* bound on the length of the journal, for each value of concurrent
  MaxSharedOrders  \* bound on the orders sent when concurrent holds

ASSUME EvidenceAssumption ==
  MaxEvents \in [BOOLEAN -> Nat] /\ MaxSharedOrders \in Nat

VARIABLES
  journal,         \* events_
  decision,        \* the last RiskDecision returned, or being made
  concurrent       \* are there users of the journal besides the engine?

evidenceVars == <<vars, journal, decision, concurrent>>

\* EventJournal::append.  The bound keeps a place for an approval on its way.
Record(events) ==
  /\ Len(journal) + Len(events) + (IF decision.pending THEN 1 ELSE 0) <= MaxEvents[concurrent]
  /\ journal' = journal \o events

\* Mutant: the id of the last event instead of the next.
LastSequence == Len(journal)

\* EventJournal::next_sequence
NextSequence == Len(journal) + 1

EvidenceInit ==
  /\ Init
  /\ journal = << >>
  /\ decision = [id |-> 0, corr |-> 0, by |-> "none", pending |-> FALSE]
  /\ concurrent \in BOOLEAN

-----------------------------------------------------------------------------
(* The risk engine's mutex is free unless an approval is being recorded.   *)

RiskFree == ~decision.pending

\* The journal side of evaluate: reject appends and takes the id append returns,
\* an approval takes next_sequence and appends later.
Decide(i, now, by) ==
  LET approved == Verdict(i, now) = "Approved"
  IN /\ RiskFree
     /\ NextSequence <= MaxEvents[concurrent]
     /\ decision' = [id |-> NextSequence, corr |-> i.corr, by |-> by,
                     pending |-> approved]
     /\ Record(IF approved THEN << >> ELSE DecisionEvents(i, now))

\* journal_.append(RiskDecision, correlation_id, "approved")
RecordApproval ==
  /\ decision.pending
  /\ journal' = Append(journal, Event("RiskDecision", decision.corr, 0, "Approved"))
  /\ decision' = [decision EXCEPT !.pending = FALSE]
  /\ UNCHANGED vars

SubmitReturns ==
  /\ ~(decision.pending /\ decision.by = "submit")
  /\ SubmitReject \/ SubmitSend
  /\ Record(SubmitFinishEvents)

EngineCalls ==
  /\ \/ \E i \in Intents, now \in Times :
          /\ concurrent => nextVenueId <= MaxSharedOrders
          /\ SubmitCall(i, now) /\ Record(SubmitCallEvents(i, now))
     \/ SubmitReturns
     \/ \E state \in GatewayStates :
          SetGatewayState(state) /\ UNCHANGED journal
     \/ \E halt \in BOOLEAN :
          SetHalted(halt) /\ Record(SetHaltedEvents(halt))
     \/ \E c \in Correlations, r \in Replacements :
          CancelReplace(c, r[1], r[2]) /\ Record(CancelReplaceEvents(c))
     \/ \E c \in Correlations, v \in VenueIds :
          /\ \/ AcknowledgeActive(c, v)
             \/ \E now \in Times : AcknowledgeUnknown(c, v, now)
          /\ Record(AcknowledgeEvents(c, v))
  /\ UNCHANGED <<riskVars, decision>>

SubmitDecides ==
  /\ SubmitEvaluate
  /\ Decide(call.intent, call.now, "submit")

RiskCalls ==
  /\ RiskFree
  /\ \/ \E s \in Snapshots : SetLimits(s) /\ UNCHANGED journal
     \/ \E r \in Reports : SetPosition(r) /\ UNCHANGED journal
     \/ \E h \in Healths : SetHealth(h) /\ UNCHANGED journal
     \/ \E side \in Sides, q \in FillSizes :
          ApplyFill(side, q) /\ Record(<< Event("Fill", 0, 0, "") >>)
  /\ UNCHANGED <<engineVars, decision>>

\* A caller that asks the risk engine itself, as tests/cpp/test_core.cpp does.
DirectDecision ==
  /\ concurrent
  /\ \E i \in Intents, now \in Times :
       Evaluate(i, now) /\ Decide(i, now, "direct")
  /\ UNCHANGED engineVars

\* A component that appends with neither mutex: the exchange simulator answers
\* the order of a correlation with an acknowledgement or a fill.
OtherWriter ==
  /\ concurrent
  /\ \E type \in {"Acknowledgment", "Fill"}, c \in Correlations, v \in 1 .. MaxSharedOrders :
       Record(<< Event(type, c, v, "") >>)
  /\ UNCHANGED <<vars, decision>>

EvidenceNext ==
  /\ \/ (EngineCalls \/ SubmitDecides \/ RiskCalls \/ DirectDecision) /\ Observe
     \/ RecordApproval
     \/ OtherWriter
  /\ UNCHANGED concurrent

EvidenceSpec == EvidenceInit /\ [][EvidenceNext]_evidenceVars

-----------------------------------------------------------------------------
(* Properties                                                              *)

Entries(c) == {k \in DOMAIN journal : journal[k].corr = c}
Sends(c) == {k \in Entries(c) : journal[k].type = "OrderSent"
                             /\ journal[k].number \notin Codes}

\* While submit is the only way in, every order on record was sent on its own
\* approval: among the entries of its correlation, the one before the send is an
\* approving RiskDecision, whatever halts, replacements and acknowledgements the
\* engine journals between its calls.
EvidenceChain ==
  ~concurrent => \A c \in Correlations : \A k \in Sends(c) :
    \E j \in Entries(c) :
      /\ j < k
      /\ journal[j].type = "RiskDecision" /\ journal[j].text = "Approved"
      /\ \A m \in Entries(c) : m <= j \/ m >= k

\* Replaying the journal gives active_, until the venue order ids reach the codes
\* of refusals: the orders sent and not acknowledged according to the journal are
\* exactly the orders the engine holds, although refusals are journalled as
\* OrderSent and uncertain answers as Acknowledgment.  Other writers are left out:
\* the simulator's own acknowledgements are entries of the same kind.
JournalReplaysToActive ==
  LET acknowledged(c, v) ==
        \E k \in Entries(c) : /\ journal[k].type = "Acknowledgment"
                              /\ journal[k].number = v
  IN ~concurrent /\ nextVenueId <= FirstCode =>
     {<<c, active[c].venueId>> : c \in {d \in Correlations : IsActive(d)}}
     = UNION {{<<c, journal[k].number>> : k \in
                 {s \in Sends(c) : ~acknowledged(c, journal[s].number)}}
              : c \in Correlations}

\* The path "preserves journal-assigned event identifiers": the event_id a
\* RiskDecision carries is the id of its entry in the journal.
AnnouncedIdIsJournaled ==
  decision.id # 0 /\ ~decision.pending =>
    /\ journal[decision.id].type = "RiskDecision"
    /\ journal[decision.id].corr = decision.corr

\* While submit is the only way in and nothing else writes to the journal, a decision
\* carries the id of its entry, although evaluate reads the id and appends in two calls
\* (next_sequence, append).
DecisionIdIsJournaled == ~concurrent => AnnouncedIdIsJournaled

\* No correlation is sent to the venue twice.
NoCorrelationSentTwice ==
  \A c \in Correlations : \A j, k \in Sends(c) : j = k

=============================================================================
