---------------------------- MODULE JournalProofs ---------------------------
(***************************************************************************)
(* What the event journal proves about the orders that are outstanding,    *)
(* for any intents, limits, clocks and length of the journal, with and     *)
(* without other writers.                                                  *)
(***************************************************************************)
EXTENDS EvidenceProofs

-----------------------------------------------------------------------------
(* The journal tells which orders are outstanding                          *)

Acked(c, v) == \E k \in Entries(c) : journal[k].type = "Acknowledgment" /\ journal[k].number = v

\* The sends of a correlation and its order: each was sent with an id handed out, and the
\* one that is not acknowledged, if there is one, is the order the engine holds.
Outstanding(c) ==
  /\ \A k \in Sends(c) : journal[k].number \in 1 .. nextVenueId - 1
  /\ IsActive(c) => \E k \in Sends(c) : /\ journal[k].number = active[c].venueId
                                        /\ ~Acked(c, active[c].venueId)
  /\ \A k \in Sends(c) :
       ~Acked(c, journal[k].number) => active[c].venueId = journal[k].number

\* JournalReplaysToActive made inductive: no id is acknowledged before it is handed out.
ReplayInv ==
  ~concurrent =>
    /\ \A k \in DOMAIN journal :
         journal[k].type = "Acknowledgment" => journal[k].number < nextVenueId
    /\ nextVenueId <= FirstCode => \A c \in Correlations : Outstanding(c)

\* What one more event acknowledges.
LEMMA AckedGrows ==
  ASSUME journal \in Seq(Events), NEW e \in Events, journal' = Append(journal, e), NEW c, NEW v
  PROVE  Acked(c, v)' <=>
           Acked(c, v) \/ (e.corr = c /\ e.type = "Acknowledgment" /\ e.number = v)
<1> DEFINE n == Len(journal) + 1
<1>1. Entries(c)' = Entries(c) \cup (IF e.corr = c THEN {n} ELSE {})
  BY AppendAdds
<1>2. journal'[n] = e /\ \A k \in Entries(c) : journal'[k] = journal[k]
  BY AppendKeeps DEF Entries
<1> HIDE DEF n
<1> QED BY <1>1, <1>2, Zenon DEF Acked

\* A correlation whose sends, acknowledgements and order stay has the same outstanding.
LEMMA OutstandingStays ==
  ASSUME NEW c, Outstanding(c), Sends(c)' = Sends(c),
         \A k \in Sends(c) : journal'[k] = journal[k],
         \A v : v # 0 => (Acked(c, v)' <=> Acked(c, v)),
         active'[c].venueId = active[c].venueId,
         (\A k \in Sends(c) : journal[k].number \in 1 .. nextVenueId - 1)'
  PROVE  Outstanding(c)'
<1>1. \A k \in Sends(c) : journal[k].number # 0
  <2>1. \A k \in Sends(c) : journal[k].number \in 1 .. nextVenueId - 1
    BY Zenon DEF Outstanding
  <2>2. 0 \notin 1 .. nextVenueId - 1
    OBVIOUS
  <2> QED BY <2>1, <2>2, Zenon
<1>2. IsActive(c)' => (\E k \in Sends(c) : /\ journal[k].number = active[c].venueId
                                           /\ ~Acked(c, active[c].venueId))'
  <2>1. SUFFICES ASSUME IsActive(c), NEW v, v = active[c].venueId
                 PROVE  \E k \in Sends(c)' : journal'[k].number = v /\ ~Acked(c, v)'
    BY SMTT(30) DEF IsActive, Acked
  <2> QED BY <2>1, SMTT(30) DEF Outstanding, IsActive
<1>3. (\A k \in Sends(c) :
         ~Acked(c, journal[k].number) => active[c].venueId = journal[k].number)'
  <2>1. SUFFICES ASSUME NEW k \in Sends(c)', NEW v, v = journal'[k].number, ~Acked(c, v)'
                 PROVE  active'[c].venueId = v
    BY SMTT(30) DEF Acked
  <2> QED BY <1>1, <2>1, ZenonT(30) DEF Outstanding
<1> QED BY <1>2, <1>3, Zenon DEF Outstanding

\* A step that sends and acknowledges nothing leaves what is outstanding.
LEMMA QuietReplay ==
  ASSUME BaseInv, ReplayInv, KeepsOrders, UNCHANGED concurrent,
         \/ journal' = journal
         \/ \E e \in Events : /\ journal' = Append(journal, e) /\ ~IsSend(e)
                              /\ ~concurrent /\ e.type = "Acknowledgment" => e.number = 0
  PROVE  ReplayInv'
<1> SUFFICES ASSUME ~concurrent
             PROVE  /\ \A k \in DOMAIN journal' :
                         journal'[k].type = "Acknowledgment" => journal'[k].number < nextVenueId'
                    /\ nextVenueId' <= FirstCode => \A c \in Correlations : Outstanding(c)'
  BY SMTT(30) DEF ReplayInv
<1>1. CASE journal' = journal
  <2>1. nextVenueId' = nextVenueId
    BY DEF KeepsOrders
  <2>2. ASSUME NEW c \in Correlations, Outstanding(c) PROVE Outstanding(c)'
    <3>1. Sends(c)' = Sends(c)
      BY <1>1, Zenon DEF Sends, Entries
    <3>2. \A v : Acked(c, v)' <=> Acked(c, v)
      BY <1>1, Zenon DEF Acked, Entries
    <3>3. active'[c].venueId = active[c].venueId
      BY DEF KeepsOrders
    <3>4. (\A k \in Sends(c) : journal[k].number \in 1 .. nextVenueId - 1)'
      BY <1>1, <2>1, <2>2, <3>1, Zenon DEF Outstanding
    <3> QED BY <1>1, <2>2, <3>1, <3>2, <3>3, <3>4, OutstandingStays, Zenon
  <2> QED BY <1>1, <2>1, <2>2, Zenon DEF ReplayInv
<1>2. ASSUME NEW e \in Events, journal' = Append(journal, e), ~IsSend(e),
             e.type = "Acknowledgment" => e.number = 0
      PROVE  /\ \A k \in DOMAIN journal' :
                  journal'[k].type = "Acknowledgment" => journal'[k].number < nextVenueId'
             /\ nextVenueId' <= FirstCode => \A c \in Correlations : Outstanding(c)'
  <2>1. journal \in Seq(Events) /\ nextVenueId \in Nat \ {0} /\ nextVenueId' = nextVenueId
    BY DEF BaseInv, DecisionTypes, EngineInv, EngineTypeOK, KeepsOrders
  <2>2. \A k \in DOMAIN journal' :
          journal'[k].type = "Acknowledgment" => journal'[k].number < nextVenueId'
    <3>1. \A k \in DOMAIN journal' : \/ k \in DOMAIN journal /\ journal'[k] = journal[k]
                                     \/ journal'[k] = e
      BY <1>2, <2>1, AppendKeeps, SMTT(30)
    <3> QED BY <1>2, <2>1, <3>1 DEF ReplayInv
  <2>3. ASSUME NEW c \in Correlations, nextVenueId <= FirstCode PROVE Outstanding(c)'
    <3>1. Outstanding(c)
      BY <2>3 DEF ReplayInv
    <3>2. Sends(c)' = Sends(c)
      <4>1. Sends(c)' = Sends(c) \cup
              (IF e.corr = c /\ IsSend(e) THEN {Len(journal) + 1} ELSE {})
        BY <1>2, <2>1, AppendAdds, SMTT(30)
      <4> QED BY <1>2, <4>1
    <3>3. \A k \in Sends(c) : journal'[k] = journal[k]
      BY <1>2, <2>1, AppendKeeps DEF Sends, Entries
    <3>4. \A v : v # 0 => (Acked(c, v)' <=> Acked(c, v))
      BY <1>2, <2>1, AckedGrows
    <3>5. active'[c].venueId = active[c].venueId
      BY SMTT(30) DEF KeepsOrders
    <3>6. (\A k \in Sends(c) : journal[k].number \in 1 .. nextVenueId - 1)'
      BY <2>1, <3>1, <3>2, <3>3 DEF Outstanding
    <3> QED BY <3>1, <3>2, <3>3, <3>4, <3>5, <3>6, OutstandingStays
  <2> QED BY <2>1, <2>2, <2>3, SMTT(30)
<1> QED BY <1>1, <1>2

\* An order is sent: its correlation had none outstanding, and the id is new.
LEMMA SendReplay ==
  ASSUME BaseInv, ReplayInv, UNCHANGED concurrent, NEW corr \in Correlations, SendsOrder(corr)
  PROVE  ReplayInv'
<1> SUFFICES ASSUME ~concurrent
             PROVE  /\ \A k \in DOMAIN journal' :
                         journal'[k].type = "Acknowledgment" => journal'[k].number < nextVenueId'
                    /\ nextVenueId' <= FirstCode => \A c \in Correlations : Outstanding(c)'
  BY SMTT(30) DEF ReplayInv
<1> DEFINE e == Event("OrderSent", corr, nextVenueId, "")
           n == Len(journal) + 1
<1>1. /\ journal \in Seq(Events) /\ nextVenueId \in Nat \ {0} /\ FirstCode \in Nat
      /\ nextVenueId' = nextVenueId + 1 /\ journal' = Append(journal, e)
  BY EngineAssumption, Zenon DEF BaseInv, DecisionTypes, EngineInv, EngineTypeOK, SendsOrder
<1>2. e \in Events
  BY <1>1, CorrelationsAreNumbers, EventTyped, Zenon DEF EventTypes, Texts
<1>3. e.type = "OrderSent" /\ e.corr = corr /\ e.number = nextVenueId
  BY SMTT(30) DEF Event
<1> HIDE DEF e
<1>4. /\ n \in DOMAIN journal' /\ journal'[n] = e
      /\ \A k \in DOMAIN journal : journal'[k] = journal[k]
      /\ \A k \in DOMAIN journal' : k \in DOMAIN journal \/ k = n
  BY <1>1, <1>2, AppendKeeps, SMTT(30)
<1>5. \A k \in DOMAIN journal :
        journal[k].type = "Acknowledgment" => journal[k].number < nextVenueId
  BY DEF ReplayInv
<1>6. \A k \in DOMAIN journal' :
        journal'[k].type = "Acknowledgment" => journal'[k].number < nextVenueId'
  <2> SUFFICES ASSUME NEW k \in DOMAIN journal', journal'[k].type = "Acknowledgment"
               PROVE  journal'[k].number < nextVenueId'
    OBVIOUS
  <2>1. k \in DOMAIN journal /\ journal'[k] = journal[k]
    BY <1>3, <1>4, SMTT(30)
  <2>2. journal[k].number \in Nat
    <3>1. journal[k] \in Events
      BY <1>1, <2>1
    <3> QED BY <3>1 DEF Events
  <2> QED BY <1>1, <1>5, <2>1, <2>2
<1>7. ASSUME NEW c \in Correlations, nextVenueId' <= FirstCode PROVE Outstanding(c)'
  <2>1. IsSend(e) /\ nextVenueId <= FirstCode
    BY <1>1, <1>3, <1>7, SMTT(30) DEF IsSend, Codes
  <2>2. Outstanding(c) /\ Outstanding(corr)
    BY <2>1 DEF ReplayInv
  <2>3. Sends(c)' = Sends(c) \cup (IF c = corr THEN {n} ELSE {})
    BY <1>1, <1>2, <1>3, <2>1, AppendAdds, SMTT(30)
  <2>4. /\ \A k \in Sends(c) : journal'[k] = journal[k]
        /\ n \notin Sends(c)
    BY <1>1, <1>4 DEF Sends, Entries
  <2>5. \A v : Acked(c, v)' <=> Acked(c, v)
    BY <1>1, <1>2, <1>3, AckedGrows
  <2>6. ~Acked(c, nextVenueId)
    BY <1>1, <1>5 DEF Acked, Entries
  <2>7. (\A k \in Sends(c) : journal[k].number \in 1 .. nextVenueId - 1)'
    <3> SUFFICES ASSUME NEW k \in Sends(c)' PROVE journal'[k].number \in 1 .. nextVenueId' - 1
      OBVIOUS
    <3>1. CASE k \in Sends(c)
      <4>1. journal'[k].number \in 1 .. nextVenueId - 1
        BY <2>2, <2>4, <3>1 DEF Outstanding
      <4>2. nextVenueId \in Nat /\ nextVenueId' = nextVenueId + 1
        BY <1>1
      <4>3. 1 .. nextVenueId - 1 \subseteq 1 .. nextVenueId' - 1
        BY <4>2, SMTT(30)
      <4> QED BY <4>1, <4>3, SMTT(30)
    <3>2. CASE k = n
      BY <1>1, <1>3, <1>4, <3>2
    <3>3. k \in Sends(c) \/ k = n
      BY <2>3, SMTT(30)
    <3> QED BY <3>1, <3>2, <3>3
  <2>8. CASE c = corr
    <3>1. Sends(c)' = Sends(c) \cup {n} /\ active'[c].venueId = nextVenueId
      BY <2>3, <2>8, ZenonT(30) DEF SendsOrder
    <3>2. \A k \in Sends(c) : Acked(c, journal[k].number)
      <4>1. active[c].venueId = 0
        BY <2>8, ZenonT(30) DEF SendsOrder, IsActive
      <4> QED BY <1>1, <2>2, <4>1, SMTT(30) DEF Outstanding
    <3>3. (IsActive(c) => \E k \in Sends(c) : /\ journal[k].number = active[c].venueId
                                              /\ ~Acked(c, active[c].venueId))'
      <4>1. SUFFICES ASSUME NEW v, v = active'[c].venueId
                     PROVE  \E k \in Sends(c)' : journal'[k].number = v /\ ~Acked(c, v)'
        BY SMTT(30) DEF Acked
      <4> QED BY <1>3, <1>4, <2>5, <2>6, <3>1, <4>1, SMTT(30)
    <3>4. (\A k \in Sends(c) :
             ~Acked(c, journal[k].number) => active[c].venueId = journal[k].number)'
      <4>1. SUFFICES ASSUME NEW k \in Sends(c)', NEW v, v = journal'[k].number, ~Acked(c, v)'
                     PROVE  active'[c].venueId = v
        BY SMTT(30) DEF Acked
      <4>2. k = n
        BY <2>4, <2>5, <3>1, <3>2, <4>1, SMTT(30)
      <4> QED BY <1>3, <1>4, <3>1, <4>1, <4>2, SMTT(30)
    <3> QED BY <2>7, <3>3, <3>4, SMTT(30) DEF Outstanding
  <2>9. CASE c # corr
    <3>1. Sends(c)' = Sends(c) /\ active'[c].venueId = active[c].venueId
      BY <2>3, <2>9, Zenon DEF SendsOrder
    <3> QED BY <2>2, <2>4, <2>5, <2>7, <3>1, OutstandingStays, Zenon
  <2> QED BY <2>8, <2>9
<1> QED BY <1>6, <1>7, SMTT(30)

\* The id of the order the engine holds is acknowledged, and the engine lets it go.
LEMMA AckReplay ==
  ASSUME BaseInv, ReplayInv, UNCHANGED concurrent, NEW corr \in Correlations,
         Acknowledges(corr)
  PROVE  ReplayInv'
<1> SUFFICES ASSUME ~concurrent
             PROVE  /\ \A k \in DOMAIN journal' :
                         journal'[k].type = "Acknowledgment" => journal'[k].number < nextVenueId'
                    /\ nextVenueId' <= FirstCode => \A c \in Correlations : Outstanding(c)'
  BY DEF ReplayInv
<1> DEFINE e == Event("Acknowledgment", corr, active[corr].venueId, "")
<1>1. /\ journal \in Seq(Events) /\ nextVenueId \in Nat \ {0}
      /\ nextVenueId' = nextVenueId /\ journal' = Append(journal, e)
      /\ active[corr].venueId \in Nat /\ active[corr].venueId < nextVenueId
  BY Zenon DEF BaseInv, DecisionTypes, EngineInv, EngineTypeOK, Order, VenueIdsIssued, Acknowledges
<1>2. e \in Events
  BY <1>1, CorrelationsAreNumbers, EventTyped, Zenon DEF EventTypes, Texts
<1>3. e.type = "Acknowledgment" /\ e.corr = corr /\ e.number = active[corr].venueId
  BY SMTT(30) DEF Event
<1> HIDE DEF e
<1>4. \A k \in DOMAIN journal' : \/ k \in DOMAIN journal /\ journal'[k] = journal[k]
                                 \/ journal'[k] = e
  BY <1>1, <1>2, AppendKeeps, SMTT(30)
<1>5. \A k \in DOMAIN journal' :
        journal'[k].type = "Acknowledgment" => journal'[k].number < nextVenueId'
  BY <1>1, <1>3, <1>4 DEF ReplayInv
<1>6. ASSUME NEW c \in Correlations, nextVenueId <= FirstCode PROVE Outstanding(c)'
  <2>1. Outstanding(c)
    BY <1>6 DEF ReplayInv
  <2>2. Sends(c)' = Sends(c)
    <3>1. Sends(c)' = Sends(c) \cup (IF e.corr = c /\ IsSend(e) THEN {Len(journal) + 1} ELSE {})
      BY <1>1, <1>2, AppendAdds, SMTT(30)
    <3> QED BY <1>3, <3>1, SMTT(30) DEF IsSend
  <2>3. \A k \in Sends(c) : journal'[k] = journal[k]
    BY <1>1, <1>2, AppendKeeps, SMTT(30) DEF Sends, Entries
  <2>4. \A v : Acked(c, v)' <=> Acked(c, v) \/ (c = corr /\ v = active[corr].venueId)
    BY <1>1, <1>2, <1>3, AckedGrows, Zenon
  <2>5. (\A k \in Sends(c) : journal[k].number \in 1 .. nextVenueId - 1)'
    BY <1>1, <2>1, <2>2, <2>3, ZenonT(30) DEF Outstanding
  <2>6. CASE c = corr
    <3>1. ~IsActive(c)'
      BY <2>6, ZenonT(30) DEF Acknowledges, IsActive
    <3>2. (\A k \in Sends(c) :
             ~Acked(c, journal[k].number) => active[c].venueId = journal[k].number)'
      <4>1. SUFFICES ASSUME NEW k \in Sends(c)', NEW v, v = journal'[k].number, ~Acked(c, v)'
                     PROVE  FALSE
        BY SMTT(30) DEF Acked
      <4>2. k \in Sends(c) /\ v = journal[k].number
        BY <2>2, <2>3, <4>1, Zenon
      <4>3. ~Acked(c, v) /\ v # active[c].venueId
        BY <2>4, <2>6, <4>1, Zenon
      <4> QED BY <2>1, <4>2, <4>3, Zenon DEF Outstanding
    <3> QED BY <2>5, <3>1, <3>2, Zenon DEF Outstanding
  <2>7. CASE c # corr
    <3>1. active'[c].venueId = active[c].venueId
      BY <2>7, ZenonT(30) DEF Acknowledges
    <3> QED BY <2>1, <2>2, <2>3, <2>4, <2>5, <2>7, <3>1, OutstandingStays, SMTT(30)
  <2> QED BY <2>6, <2>7
<1> QED BY <1>1, <1>5, <1>6, SMTT(30)

\* For every order the engine holds, and for no other, the journal has a send and no
\* acknowledgement: replaying it gives back active_ (submit, acknowledge, expire_orders).
THEOREM JournalReplaysToActiveAlways == EvidenceSpec => []JournalReplaysToActive
<1>1. EvidenceInit => ReplayInv
  <2> SUFFICES ASSUME EvidenceInit PROVE ReplayInv
    OBVIOUS
  <2>1. DOMAIN journal = {}
    BY DEF EvidenceInit
  <2>2. \A c : Sends(c) = {}
    BY <2>1, SMTT(30) DEF Sends, Entries
  <2>3. \A c \in Correlations : ~IsActive(c)
    BY DEF EvidenceInit, Init, EngineInit, NoOrder, IsActive
  <2> QED BY <2>1, <2>2, <2>3 DEF ReplayInv, Outstanding
<1>2. BaseInv /\ ReplayInv /\ [EvidenceNext]_evidenceVars => ReplayInv'
  <2> SUFFICES ASSUME BaseInv, ReplayInv, [EvidenceNext]_evidenceVars PROVE ReplayInv'
    OBVIOUS
  <2>1. UNCHANGED concurrent
    BY DEF EvidenceNext, evidenceVars
  <2>2. CASE Silent
    BY <2>1, <2>2, QuietReplay DEF Silent
  <2>3. ASSUME NEW e \in Events, Notes(e) PROVE ReplayInv'
    BY <2>1, <2>3, QuietReplay, SMTT(30) DEF Notes
  <2>4. ASSUME NEW corr \in Nat, NEW by \in {"submit", "direct"}, Announces(corr, by)
        PROVE  ReplayInv'
    BY <2>1, <2>4, QuietReplay DEF Announces
  <2>5. ASSUME NEW c \in Nat, NEW text \in Texts, KeepsOrders,
               journal' = Append(journal, Event("RiskDecision", c, 0, text))
        PROVE  ReplayInv'
    <3> DEFINE e == Event("RiskDecision", c, 0, text)
    <3>1. e \in Events
      BY EventTyped DEF EventTypes
    <3>2. e.type = "RiskDecision"
      BY DEF Event
    <3> HIDE DEF e
    <3>3. ~IsSend(e) /\ e.type # "Acknowledgment"
      BY <3>2 DEF IsSend
    <3>4. journal' = Append(journal, e)
      BY <2>5 DEF e
    <3> QED BY <2>1, <2>5, <3>1, <3>3, <3>4, QuietReplay
  <2>6. CASE Confirms
    <3>1. decision.corr \in Nat /\ "Approved" \in Texts
      BY DEF BaseInv, DecisionTypes, Texts, Verdicts
    <3> QED BY <2>5, <2>6, <3>1 DEF Confirms
  <2>7. ASSUME NEW corr \in Nat, NEW by \in {"submit", "direct"}, NEW text \in Texts,
               Refuses(corr, by, text)
        PROVE  ReplayInv'
    BY <2>5, <2>7 DEF Refuses
  <2>8. ASSUME NEW corr \in Correlations, SendsOrder(corr) \/ Acknowledges(corr)
        PROVE  ReplayInv'
    BY <2>1, <2>8, SendReplay, AckReplay, SMTT(30)
  <2> QED BY <2>2, <2>3, <2>4, <2>6, <2>7, <2>8, EveryStepHasShape DEF HasShape
<1>3. ReplayInv => JournalReplaysToActive
  <2> SUFFICES ASSUME ReplayInv, ~concurrent, nextVenueId <= FirstCode
               PROVE  {<<c, active[c].venueId>> : c \in {d \in Correlations : IsActive(d)}}
                      = UNION {{<<c, journal[k].number>> : k \in
                                  {s \in Sends(c) : ~Acked(c, journal[s].number)}}
                               : c \in Correlations}
    BY DEF JournalReplaysToActive, Acked
  <2>1. \A c \in Correlations : Outstanding(c)
    BY SMTT(30) DEF ReplayInv
  <2>2. ASSUME NEW c \in Correlations, IsActive(c)
        PROVE  \E k \in {s \in Sends(c) : ~Acked(c, journal[s].number)} :
                 <<c, active[c].venueId>> = <<c, journal[k].number>>
    BY <2>1, <2>2, SMTT(30) DEF Outstanding
  <2>3. ASSUME NEW c \in Correlations,
               NEW k \in {s \in Sends(c) : ~Acked(c, journal[s].number)}
        PROVE  IsActive(c) /\ <<c, journal[k].number>> = <<c, active[c].venueId>>
    BY <2>1, <2>3 DEF Outstanding, IsActive
  <2> QED BY <2>2, <2>3, SMTT(30)
<1> QED BY <1>1, <1>2, <1>3, BaseInvAlways, PTL DEF EvidenceSpec
=============================================================================
