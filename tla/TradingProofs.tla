--------------------------- MODULE TradingProofs ---------------------------
(***************************************************************************)
(* Proofs about the risk engine (RiskEngine, RiskClock), for any int64     *)
(* range, rate window, limits, reports, intents and fills; about the       *)
(* replay backtest, for any quotes and signals; and about the              *)
(* reconciliation of orders, for any records.                              *)
(***************************************************************************)
EXTENDS RiskClock, ReplayBacktest, Reconciliation, WellFoundedInduction, TLAPS

-----------------------------------------------------------------------------
(* The risk engine                                                         *)

\* NetWithinGross needs the types, and the range of the net position after a
\* fill needs the limits; the three of RiskInv are inductive together.
LEMMA RiskInitInv == RiskInit => RiskInv
  BY RiskAssumption
  DEF RiskInit, RiskInv, RiskTypeOK, NetWithinGross, WindowWithinRate, NoLimits,
      LimitSnapshot, PositionSnapshot, Healths, Int64, MinInt64

\* A fill that apply_fill accepts keeps the position in int64 and its gross part
\* at least as large as its net part.
LEMMA FillKeepsPosition ==
  ASSUME RiskInv, NEW side \in Sides, NEW q \in FillSizes, ApplyFill(side, q)
  PROVE  position' \in PositionSnapshot /\ NetWithinGross'
<1>1. q \in Int /\ q > 0
  BY RiskAssumption DEF ApplyFill, FillAccepted, Int64, MinInt64
<1>2. /\ position.net \in Int /\ position.gross \in Int
      /\ position.net <= position.gross /\ -position.gross <= position.net
  BY RiskAssumption DEF RiskInv, RiskTypeOK, NetWithinGross, PositionSnapshot, Int64, MinInt64
<1>3. /\ position.gross + q <= MaxInt64
      /\ position.net + Signed(side, q) \in Int64
      /\ position' = [net |-> position.net + Signed(side, q),
                      gross |-> position.gross + q]
  BY DEF ApplyFill, FillAccepted
<1>4. Signed(side, q) = q \/ Signed(side, q) = -q
  BY DEF Signed
<1> QED
  BY <1>1, <1>2, <1>3, <1>4, RiskAssumption
  DEF NetWithinGross, PositionSnapshot, Int64, MinInt64

\* The rate window after evaluate: an order is counted only below the limit.
LEMMA EvaluateKeepsWindow ==
  ASSUME RiskInv, NEW i \in Intents, NEW now \in Nat, Evaluate(i, now)
  PROVE  /\ ordersThisSecond' \in Nat
         /\ secondEpoch' \in Nat
         /\ ordersThisSecond' <= limits.maxRate
<1>1. /\ limits.maxRate \in Nat /\ ordersThisSecond \in Nat
      /\ secondEpoch \in Nat /\ ordersThisSecond <= limits.maxRate
  BY DEF RiskInv, RiskTypeOK, LimitSnapshot, WindowWithinRate
<1>2. WindowCount(now) \in Nat /\ WindowCount(now) <= limits.maxRate
  BY <1>1 DEF WindowCount
<1>3. CASE OrderVerdict(i, now) = "Approved"
  <2>1. Verdict(i, now) = "Approved" => WindowCount(now) < limits.maxRate
    BY <1>1, <1>2, <1>3 DEF Verdict
  <2>2. /\ secondEpoch' = IF NewWindow(now) THEN now ELSE secondEpoch
        /\ ordersThisSecond' = IF Verdict(i, now) = "Approved"
                               THEN WindowCount(now) + 1 ELSE WindowCount(now)
    BY <1>3 DEF Evaluate
  <2> QED  BY <1>1, <1>2, <2>1, <2>2
<1>4. CASE OrderVerdict(i, now) # "Approved"
  BY <1>1, <1>4 DEF Evaluate
<1> QED  BY <1>3, <1>4

\* Every call of the risk engine keeps RiskInv.
LEMMA RiskStepInv == RiskInv /\ [RiskNext]_riskVars => RiskInv'
<1> SUFFICES ASSUME RiskInv, [RiskNext]_riskVars PROVE RiskInv'
  OBVIOUS
<1>1. ASSUME NEW s \in Snapshots, SetLimits(s) PROVE RiskInv'
  <2>1. s \in LimitSnapshot /\ s.maxNet # MinInt64
    BY RiskAssumption
  <2> QED
    BY <1>1, <2>1
    DEF SetLimits, RiskInv, RiskTypeOK, NetWithinGross, WindowWithinRate, LimitSnapshot
<1>2. ASSUME NEW r \in Reports, SetPosition(r) PROVE RiskInv'
  <2>1. r \in PositionSnapshot
    BY RiskAssumption
  <2>2. r.net <= r.gross /\ -r.gross <= r.net
    BY <1>2, <2>1, RiskAssumption
    DEF SetPosition, Plausible, PositionSnapshot, Int64, MinInt64
  <2> QED
    BY <1>2, <2>1, <2>2
    DEF SetPosition, RiskInv, RiskTypeOK, NetWithinGross, WindowWithinRate
<1>3. ASSUME NEW h \in Healths, SetHealth(h) PROVE RiskInv'
  BY <1>3 DEF SetHealth, RiskInv, RiskTypeOK, NetWithinGross, WindowWithinRate
<1>4. ASSUME NEW side \in Sides, NEW q \in FillSizes, ApplyFill(side, q)
      PROVE RiskInv'
  BY <1>4, FillKeepsPosition
  DEF ApplyFill, RiskInv, RiskTypeOK, WindowWithinRate
<1>5. ASSUME NEW i \in Intents, NEW now \in Times, Evaluate(i, now)
      PROVE RiskInv'
  <2>1. now \in Nat
    BY RiskAssumption
  <2> QED
    BY <1>5, <2>1, EvaluateKeepsWindow
    DEF Evaluate, RiskInv, RiskTypeOK, NetWithinGross, WindowWithinRate
<1>6. CASE UNCHANGED riskVars
  BY <1>6
  DEF riskVars, RiskInv, RiskTypeOK, NetWithinGross, WindowWithinRate
<1> QED
  BY <1>1, <1>2, <1>3, <1>4, <1>5, <1>6 DEF RiskNext

\* The inductive invariant holds under any calls.
THEOREM RiskInvAlways == RiskSpec => []RiskInv
  BY RiskInitInv, RiskStepInv, PTL DEF RiskSpec

\* The risk engine's state keeps its types, and with them the int64 range of the
\* position, under any calls.
THEOREM RiskTypeCorrect == RiskSpec => []RiskTypeOK
<1>1. RiskInv => RiskTypeOK
  BY DEF RiskInv
<1> QED  BY <1>1, RiskInvAlways, PTL

\* set_position and apply_fill keep the gross position above the net one.
THEOREM NetWithinGrossAlways == RiskSpec => []NetWithinGross
<1>1. RiskInv => NetWithinGross
  BY DEF RiskInv
<1> QED  BY <1>1, RiskInvAlways, PTL

\* evaluate never approves more orders in a window than the limits in force allow.
THEOREM WindowWithinRateAlways == RiskSpec => []WindowWithinRate
<1>1. RiskInv => WindowWithinRate
  BY DEF RiskInv
<1> QED  BY <1>1, RiskInvAlways, PTL

-----------------------------------------------------------------------------
\* What an approval says about the order, the limits and the position.
LEMMA ApprovalMeans ==
  ASSUME NEW i, NEW now, OrderVerdict(i, now) = "Approved"
  PROVE  /\ ~(i.quantity <= 0) /\ LimitsValid
         /\ ~NetBreached(i) /\ ~GrossBreached(i)
         /\ limits.enabled /\ health = "Healthy" /\ i.corr # 0
  BY DEF OrderVerdict

\* A fill of the order evaluate approved is one apply_fill accepts, from RiskInv.
LEMMA ApprovedFills == RiskInv => ApprovedIsFillable
<1> SUFFICES ASSUME RiskInv,
                    position.net \in -limits.maxNet .. limits.maxNet,
                    NEW i \in Intents, NEW now \in Times,
                    OrderVerdict(i, now) = "Approved"
             PROVE  FillAccepted(i.side, i.quantity)
  BY DEF ApprovedIsFillable
<1>1. /\ i.side \in Sides /\ i.quantity \in Int
  BY RiskAssumption DEF OrderIntent, Int64, MinInt64
<1>2. /\ limits.maxNet \in Int /\ limits.maxGross \in Int
      /\ limits.maxNet <= MaxInt64 /\ limits.maxGross <= MaxInt64
      /\ position.net \in Int /\ position.gross \in Int /\ MaxInt64 \in Int
  BY RiskAssumption
  DEF RiskInv, RiskTypeOK, LimitSnapshot, PositionSnapshot, Int64, MinInt64
<1>3. position.gross >= 0 /\ i.quantity > 0
  BY <1>1, <1>2, ApprovalMeans DEF GrossBreached
<1>4. position.gross + i.quantity <= limits.maxGross
  BY <1>1, <1>2, ApprovalMeans DEF GrossBreached
<1>5. /\ position.net + Signed(i.side, i.quantity) <= limits.maxNet
      /\ position.net + Signed(i.side, i.quantity) >= -limits.maxNet
  BY <1>1, <1>2, <1>3, ApprovalMeans DEF NetBreached, Signed, Sides
<1>6. position.net + Signed(i.side, i.quantity) \in Int64
  BY <1>1, <1>2, <1>5 DEF Signed, Int64, MinInt64
<1> QED
  BY <1>1, <1>2, <1>3, <1>4, <1>5, <1>6 DEF FillAccepted

\* apply_fill takes every fill that evaluate would still approve.
THEOREM ApprovedIsFillableAlways == RiskSpec => []ApprovedIsFillable
  BY ApprovedFills, RiskInitInv, RiskStepInv, PTL DEF RiskSpec

-----------------------------------------------------------------------------
(* The rate over the edge of two windows                                   *)

\* Where the approvals of the present window begin in granted.
WindowStart == Len(granted) - ordersThisSecond + 1

\* RateBurst made inductive: the window began at its first approval, and the approvals
\* that are max or more before it came at least a second earlier.
WindowInv ==
  /\ clock \in Nat \ {0} /\ granted \in Seq(Nat) /\ secondEpoch <= clock
  /\ \A n \in DOMAIN granted : granted[n] <= clock
  /\ \A m, n \in DOMAIN granted : m <= n => granted[m] <= granted[n]
  /\ secondEpoch = 0 => granted = << >>
  /\ secondEpoch # 0 => WindowStart \in DOMAIN granted /\ granted[WindowStart] = secondEpoch
  /\ \A n \in DOMAIN granted :
       n + limits.maxRate <= WindowStart => granted[n] + Second <= secondEpoch
  /\ RateBurst

\* What evaluate does to the window when it approves: it counts the order, in the window
\* it has or in a new one that begins with the order.
LEMMA ApprovalCounts ==
  ASSUME RiskInv, NEW i \in Intents, NEW now \in Nat, Evaluate(i, now),
         Verdict(i, now) = "Approved"
  PROVE  /\ limits.maxRate # 0
         /\ \/ NewWindow(now) /\ secondEpoch' = now /\ ordersThisSecond' = 1
            \/ /\ ~NewWindow(now) /\ secondEpoch' = secondEpoch
               /\ ordersThisSecond' = ordersThisSecond + 1
               /\ ordersThisSecond < limits.maxRate
<1>1. OrderVerdict(i, now) = "Approved"
  BY DEF Verdict
<1>2. limits.maxRate # 0
  BY <1>1, ApprovalMeans DEF LimitsValid
<1>3. limits.maxRate \in Nat /\ ordersThisSecond \in Nat
  BY DEF RiskInv, RiskTypeOK, LimitSnapshot
<1>4. WindowCount(now) \in Nat /\ WindowCount(now) < limits.maxRate
  BY <1>1, <1>3 DEF Verdict, WindowCount
<1>5. /\ secondEpoch' = IF NewWindow(now) THEN now ELSE secondEpoch
      /\ ordersThisSecond' = WindowCount(now) + 1
  BY <1>1 DEF Evaluate
<1> QED BY <1>2, <1>3, <1>4, <1>5 DEF WindowCount

\* A refusal leaves the window: a new one is never too full.
LEMMA RefusalKeepsWindow ==
  ASSUME RiskInv, NEW i \in Intents, NEW now \in Nat, Evaluate(i, now),
         Verdict(i, now) # "Approved"
  PROVE  UNCHANGED <<secondEpoch, ordersThisSecond>>
<1>1. CASE OrderVerdict(i, now) = "Approved"
  <2>1. limits.maxRate \in Nat \ {0} /\ WindowCount(now) >= limits.maxRate
    BY <1>1, ApprovalMeans DEF LimitsValid, Verdict, RiskInv, RiskTypeOK, LimitSnapshot
  <2>2. ~NewWindow(now)
    BY <2>1 DEF WindowCount
  <2> QED BY <1>1, <2>2 DEF Evaluate, WindowCount
<1>2. CASE OrderVerdict(i, now) # "Approved"
  BY <1>2 DEF Evaluate
<1> QED BY <1>1, <1>2

\* An approval keeps the invariant, in the window and at the start of a new one.
LEMMA ApprovalKeepsRate ==
  ASSUME RiskInv, WindowInv, NEW i \in Intents, EvaluateNow(i), Verdict(i, clock) = "Approved"
  PROVE  WindowInv'
<1> DEFINE L == Len(granted)
           max == limits.maxRate
           start == WindowStart
<1>1. /\ clock \in Nat \ {0} /\ granted \in Seq(Nat) /\ secondEpoch \in Nat /\ L \in Nat
      /\ ordersThisSecond \in Nat /\ ordersThisSecond <= max /\ Second \in Nat \ {0}
      /\ max \in Nat /\ start = L - ordersThisSecond + 1 /\ DOMAIN granted = 1 .. L
  BY RiskAssumption
  DEF RiskInv, RiskTypeOK, WindowWithinRate, LimitSnapshot, WindowInv, WindowStart
<1>2. /\ granted' = Append(granted, clock) /\ clock' = clock /\ limits' = limits
      /\ Evaluate(i, clock)
  BY DEF EvaluateNow, Evaluate
<1>3. /\ max # 0
      /\ \/ NewWindow(clock) /\ secondEpoch' = clock /\ ordersThisSecond' = 1
         \/ /\ ~NewWindow(clock) /\ secondEpoch' = secondEpoch
            /\ ordersThisSecond' = ordersThisSecond + 1 /\ ordersThisSecond < max
  BY <1>1, <1>2, ApprovalCounts
<1>4. /\ granted' \in Seq(Nat) /\ DOMAIN granted' = 1 .. L + 1 /\ Len(granted') = L + 1
      /\ granted'[L + 1] = clock /\ \A n \in 1 .. L : granted'[n] = granted[n]
  BY <1>1, <1>2
<1>5. \A n \in 1 .. L : granted[n] \in Nat /\ granted[n] <= clock
  <2>1. \A n \in 1 .. L : granted[n] \in Nat
    BY <1>1
  <2> QED BY <1>1, <2>1, Zenon DEF WindowInv
<1>6. \A m, n \in 1 .. L : m <= n => granted[m] <= granted[n]
  BY <1>1, Zenon DEF WindowInv
<1>7. /\ secondEpoch = 0 => L = 0
      /\ secondEpoch # 0 => start \in 1 .. L /\ granted[start] = secondEpoch
      /\ secondEpoch <= clock
  BY <1>1 DEF WindowInv
<1>8. \A n \in 1 .. L : n + max <= start => granted[n] + Second <= secondEpoch
  BY <1>1, Zenon DEF WindowInv
<1>9. WindowStart' = L + 1 - ordersThisSecond' + 1
  <2>1. ordersThisSecond' \in Nat /\ L \in Nat
    BY <1>1, <1>3
  <2> QED BY <1>4, <2>1 DEF WindowStart
<1> HIDE DEF L, max, start
<1>10. (NewWindow(clock) /\ secondEpoch # 0) => secondEpoch + Second <= clock
  BY <1>1, <1>7 DEF NewWindow
<1>11. ~NewWindow(clock) => secondEpoch # 0
  BY DEF NewWindow
<1>12. /\ secondEpoch' # 0 /\ WindowStart' \in 1 .. L + 1
       /\ granted'[WindowStart'] = secondEpoch' /\ secondEpoch' <= clock
  <2>1. CASE NewWindow(clock)
    BY <1>1, <1>3, <1>4, <1>9, <2>1
  <2>2. CASE ~NewWindow(clock)
    <3>1. secondEpoch # 0 /\ secondEpoch' = secondEpoch
      BY <1>3, <1>11, <2>2
    <3>2. WindowStart' = start
      BY <1>1, <1>3, <1>9, <2>2
    <3>3. start \in 1 .. L /\ granted[start] = secondEpoch
      BY <1>7, <3>1
    <3> QED BY <1>1, <1>4, <1>7, <3>1, <3>2, <3>3
  <2> QED BY <2>1, <2>2
<1>13. \A n \in 1 .. L + 1 : n + max <= WindowStart' => granted'[n] + Second <= secondEpoch'
  <2> SUFFICES ASSUME NEW n \in 1 .. L + 1, n + max <= WindowStart'
               PROVE  granted'[n] + Second <= secondEpoch'
    OBVIOUS
  <2>1. n \in 1 .. L /\ granted'[n] = granted[n] /\ granted[n] \in Nat
    BY <1>1, <1>3, <1>4, <1>5, <1>12
  <2>2. CASE NewWindow(clock)
    <3>1. secondEpoch # 0 /\ start \in 1 .. L /\ n <= start
      BY <1>1, <1>3, <1>7, <1>9, <2>1, <2>2
    <3>2. granted[n] <= secondEpoch
      BY <1>6, <1>7, <2>1, <3>1
    <3> QED BY <1>1, <1>3, <1>10, <2>1, <2>2, <3>1, <3>2
  <2>3. CASE ~NewWindow(clock)
    BY <1>1, <1>3, <1>8, <1>9, <2>1, <2>3
  <2> QED BY <2>2, <2>3
<1>14. \A n, k \in 1 .. L + 1 : k = n + 2 * max - 1 => granted'[k] - granted'[n] >= Second
  <2> SUFFICES ASSUME NEW n \in 1 .. L + 1, NEW k \in 1 .. L + 1, k = n + 2 * max - 1
               PROVE  granted'[k] - granted'[n] >= Second
    OBVIOUS
  <2>1. CASE k \in 1 .. L
    <3>1. n \in 1 .. L
      BY <1>1, <1>3, <2>1
    <3>2. granted[k] - granted[n] >= Second
      BY <1>1, <2>1, <3>1, Zenon DEF WindowInv, RateBurst, max
    <3> QED BY <1>4, <2>1, <3>1, <3>2
  <2>2. CASE k = L + 1
    <3>1. n \in 1 .. L
      BY <1>1, <1>3, <1>7, <1>10, <1>11, <2>2
    <3>2. granted[n] + Second <= clock
      <4>1. CASE NewWindow(clock)
        <5>1. secondEpoch # 0 /\ start \in 1 .. L /\ n <= start
          BY <1>1, <1>7, <2>2, <3>1
        <5>2. granted[n] <= secondEpoch
          BY <1>6, <1>7, <3>1, <5>1
        <5> QED BY <1>1, <1>5, <1>10, <3>1, <4>1, <5>1, <5>2
      <4>2. CASE ~NewWindow(clock)
        <5>1. n + max <= start
          BY <1>1, <1>3, <2>2, <3>1, <4>2
        <5> QED BY <1>1, <1>5, <1>7, <1>8, <3>1, <5>1
      <4> QED BY <4>1, <4>2
    <3>3. granted'[k] = clock /\ granted'[n] = granted[n] /\ granted[n] \in Nat
      BY <1>4, <1>5, <2>2, <3>1
    <3> QED BY <1>1, <3>2, <3>3, SMTT(30)
  <2> QED BY <1>1, <2>1, <2>2
<1>15. /\ \A n \in 1 .. L + 1 : granted'[n] <= clock
       /\ \A m, n \in 1 .. L + 1 : m <= n => granted'[m] <= granted'[n]
  <2>1. \A n \in 1 .. L + 1 : n \in 1 .. L \/ n = L + 1
    BY <1>1
  <2> QED BY <1>1, <1>4, <1>5, <1>6, <2>1, SMTT(30)
<1> QED BY <1>1, <1>2, <1>4, <1>12, <1>13, <1>14, <1>15, Zenon DEF WindowInv, RateBurst, max

\* With a clock that does not go back, no 2 * max_orders_per_second approvals fall within
\* one second, whichever windows they are counted in (evaluate, set_limits).
THEOREM RateBurstAlways == ClockSpec => []RateBurst
<1>1. ClockInit => RiskInv /\ WindowInv
  BY RiskInitInv DEF ClockInit, RiskInit, WindowInv, RateBurst
<1>2. RiskInv /\ WindowInv /\ [ClockNext]_clockVars => RiskInv' /\ WindowInv'
  <2> SUFFICES ASSUME RiskInv, WindowInv, [ClockNext]_clockVars PROVE RiskInv' /\ WindowInv'
    OBVIOUS
  <2> USE DEF WindowInv, WindowStart, RateBurst
  <2>1. CASE Tick
    <3>1. RiskInv'
      BY <2>1, RiskStepInv DEF Tick
    <3>2. clock' = clock + 1 /\ UNCHANGED <<limits, ordersThisSecond, secondEpoch, granted>>
      BY <2>1 DEF Tick, riskVars
    <3>3. \A n \in DOMAIN granted : granted[n] \in Nat
      OBVIOUS
    <3>4. secondEpoch \in Nat
      BY DEF RiskInv, RiskTypeOK
    <3> QED BY <3>1, <3>2, <3>3, <3>4
  <2>2. ASSUME NEW i \in Intents, EvaluateNow(i) PROVE RiskInv' /\ WindowInv'
    <3>1. RiskInv'
      <4>1. /\ ordersThisSecond' \in Nat /\ secondEpoch' \in Nat
            /\ ordersThisSecond' <= limits.maxRate
        BY <2>2, EvaluateKeepsWindow DEF EvaluateNow
      <4> QED BY <2>2, <4>1
          DEF EvaluateNow, Evaluate, RiskInv, RiskTypeOK, NetWithinGross, WindowWithinRate
    <3>2. CASE Verdict(i, clock) = "Approved"
      BY <2>2, <3>1, <3>2, ApprovalKeepsRate
    <3>3. CASE Verdict(i, clock) # "Approved"
      BY <2>2, <3>1, <3>3, RefusalKeepsWindow DEF EvaluateNow, Evaluate
    <3> QED BY <3>2, <3>3
  <2>3. ASSUME NEW s \in Snapshots, InstallLimits(s) PROVE RiskInv' /\ WindowInv'
    BY <2>3, RiskStepInv DEF InstallLimits, SetLimits, RiskNext
  <2>4. ASSUME NEW h \in Healths, SetHealth(h), UNCHANGED <<clock, granted>>
        PROVE  RiskInv' /\ WindowInv'
    <3>1. RiskInv'
      BY <2>4, RiskStepInv DEF RiskNext
    <3> QED BY <2>4, <3>1 DEF SetHealth
  <2>5. CASE UNCHANGED clockVars
    <3>1. RiskInv'
      BY <2>5, RiskStepInv DEF clockVars
    <3> QED BY <2>5, <3>1 DEF clockVars, riskVars
  <2> QED BY <2>1, <2>2, <2>3, <2>4, <2>5 DEF ClockNext
<1>3. WindowInv => RateBurst
  BY DEF WindowInv
<1> QED BY <1>1, <1>2, <1>3, PTL DEF ClockSpec

-----------------------------------------------------------------------------
(* The replay backtest                                                     *)

ReplayFills == [time : Nat, side : {-1, 1}, quantity : Int, price : Int]
GivenQuotes == [time : Nat, quote : ReplayQuotes]

\* The k-th quote of this call is the last one of its time.
LastGiven(t, k) ==
  /\ k \in DOMAIN given /\ given[k].time = t
  /\ \A j \in DOMAIN given : given[j].time = t => j <= k

Distinct == \A i, j \in DOMAIN given : given[i].time = given[j].time => i = j

\* What FillsUseTheLastQuote asks of one fill.
FilledRight(f) ==
  \E k \in DOMAIN given :
    /\ LastGiven(f.time, k) /\ (strict => Distinct)
    /\ given[k].quote.bid <= given[k].quote.ask
    /\ f.price = IF f.side > 0 THEN given[k].quote.ask ELSE given[k].quote.bid

IndexIsLast ==
  /\ \A t \in DOMAIN quoteAt :
       \E k \in DOMAIN given : LastGiven(t, k) /\ given[k].quote = quoteAt[t]
  /\ \A k \in DOMAIN given : given[k].time \in DOMAIN quoteAt
  /\ strict => Distinct

\* FillsUseTheLastQuote made inductive: the index has the last quote of every time that
\* was given, a strict call that has not raised has no time twice, and while the quotes are
\* loaded, and after a call that raised, this call of run has no fill.
ReplayInv ==
  /\ done \in Seq(ReplayFills) /\ held \in -ReplayMaxPosition .. ReplayMaxPosition
  /\ given \in Seq(GivenQuotes)
  /\ run.from \in Nat /\ run.from <= Len(done)
  /\ stage # "signals" => run.from = Len(done)
  /\ stage # "raised" => IndexIsLast
  /\ \A n \in run.from + 1 .. Len(done) : FilledRight(done[n])

\* The backtest starts with no fill and no quote.
LEMMA ReplayInvInitial == ReplayInit => ReplayInv
  BY ReplayAssumption DEF ReplayInit, ReplayInv, IndexIsLast, Distinct

\* The index and the fills are as right as before when the quotes and the mode stay.
LEMMA QuotesStay ==
  ASSUME given' = given, strict' = strict
  PROVE  /\ quoteAt' = quoteAt /\ IndexIsLast => IndexIsLast'
         /\ \A n : FilledRight(done'[n]) => FilledRight(done[n])'
<1>1. /\ \A t, k : LastGiven(t, k)' <=> LastGiven(t, k)
      /\ Distinct' <=> Distinct
  BY DEF LastGiven, Distinct
<1>2. quoteAt' = quoteAt /\ IndexIsLast => IndexIsLast'
  BY <1>1, Zenon DEF IndexIsLast
<1>3. ASSUME NEW n, FilledRight(done'[n]) PROVE FilledRight(done[n])'
  <2>1. PICK k \in DOMAIN given :
          /\ LastGiven(done'[n].time, k) /\ (strict => Distinct)
          /\ given[k].quote.bid <= given[k].quote.ask
          /\ done'[n].price = IF done'[n].side > 0 THEN given[k].quote.ask
                                                   ELSE given[k].quote.bid
    BY <1>3, Zenon DEF FilledRight
  <2>2. LastGiven(done[n].time, k)' /\ (strict => Distinct)'
    BY <2>1 DEF LastGiven, Distinct
  <2> QED BY <2>1, <2>2, Zenon DEF FilledRight
<1> QED BY <1>2, <1>3

\* apply fills the signal from the quote indexed under its time, and earlier fills stay.
LEMMA ApplyKeepsQuotes ==
  ASSUME ReplayInv, NEW time \in 0 .. MaxReplayTime, NEW signal \in ReplaySignals,
         Apply(signal, time)
  PROVE  ReplayInv'
<1> DEFINE q == quoteAt[time]
           f == [time |-> time, side |-> signal.side, quantity |-> signal.quantity,
                 price |-> IF signal.side > 0 THEN q.ask ELSE q.bid]
<1>1. /\ stage = "signals" /\ time \in DOMAIN quoteAt /\ q.ask >= q.bid
      /\ held' \in -ReplayMaxPosition .. ReplayMaxPosition
      /\ done' = Append(done, f) /\ UNCHANGED <<strict, given, quoteAt, stage, run>>
  BY DEF Apply
<1>2. PICK k \in DOMAIN given : LastGiven(time, k) /\ given[k].quote = q
  BY <1>1, Zenon DEF ReplayInv, IndexIsLast
<1>3. q.bid \in Int /\ q.ask \in Int /\ q.bid <= q.ask
  <2>1. given[k] \in GivenQuotes
    BY <1>2 DEF ReplayInv
  <2>2. q \in [bid : Int, ask : Int]
    BY <1>2, <2>1, ReplayAssumption, Zenon DEF GivenQuotes
  <2> QED BY <1>1, <2>2
<1>4. time \in Nat /\ signal.side \in {-1, 1} /\ signal.quantity \in Int
  BY ReplayAssumption
<1>5. f \in ReplayFills
  BY <1>3, <1>4 DEF ReplayFills
<1>6. f.time = time /\ f.price = IF f.side > 0 THEN q.ask ELSE q.bid
  OBVIOUS
<1> HIDE DEF f, q
<1>7. strict => Distinct
  BY <1>1 DEF ReplayInv, IndexIsLast
<1>8. FilledRight(f)
  BY <1>2, <1>3, <1>6, <1>7, Zenon DEF FilledRight
<1>9. /\ done' \in Seq(ReplayFills) /\ Len(done) \in Nat /\ Len(done') = Len(done) + 1
      /\ done'[Len(done) + 1] = f /\ \A n \in 1 .. Len(done) : done'[n] = done[n]
  BY <1>1, <1>5 DEF ReplayInv
<1>10. run.from \in Nat /\ run.from <= Len(done)
  BY DEF ReplayInv
<1>11. ASSUME NEW n \in run.from + 1 .. Len(done') PROVE FilledRight(done'[n])
  <2>1. CASE n = Len(done) + 1
    BY <1>8, <1>9, <2>1
  <2>2. CASE n # Len(done) + 1
    <3>1. n \in run.from + 1 .. Len(done) /\ n \in 1 .. Len(done)
      BY <1>9, <1>10, <2>2
    <3>2. FilledRight(done[n])
      BY <3>1, Zenon DEF ReplayInv
    <3> QED BY <1>9, <3>1, <3>2
  <2> QED BY <2>1, <2>2
<1>12. \A n \in run'.from + 1 .. Len(done') : FilledRight(done[n])'
  BY <1>1, <1>11, QuotesStay, Zenon
<1>13. stage' # "raised" => IndexIsLast'
  BY <1>1, QuotesStay, Zenon DEF ReplayInv
<1>14. /\ given' \in Seq(GivenQuotes) /\ run'.from \in Nat /\ run'.from <= Len(done')
       /\ stage' = "signals"
  BY <1>1, <1>9, <1>10 DEF ReplayInv
<1> QED BY <1>1, <1>9, <1>12, <1>13, <1>14, Zenon DEF ReplayInv

\* A quote that is loaded becomes the last of its time; a strict call that meets a time
\* again raises, with no fill made (run).
LEMMA LoadQuoteKeepsQuotes ==
  ASSUME ReplayInv, NEW time \in 0 .. MaxReplayTime, NEW q \in ReplayQuotes, LoadQuote(q, time)
  PROVE  ReplayInv'
<1> DEFINE g == [time |-> time, quote |-> q]
           L == Len(given)
<1>1. /\ stage = "quotes" /\ stage' \in {"quotes", "raised"} /\ given' = Append(given, g)
      /\ UNCHANGED <<held, done, strict, run>>
  BY DEF LoadQuote
<1>2. g \in GivenQuotes /\ g.time = time /\ g.quote = q
  BY ReplayAssumption DEF GivenQuotes
<1> HIDE DEF g
<1>3. /\ given' \in Seq(GivenQuotes) /\ L \in Nat
      /\ DOMAIN given = 1 .. L /\ DOMAIN given' = 1 .. L + 1
      /\ given'[L + 1] = g /\ \A k \in 1 .. L : given'[k] = given[k]
  BY <1>1, <1>2 DEF ReplayInv
<1> HIDE DEF L
<1>4. run.from + 1 .. Len(done) = {}
  BY <1>1 DEF ReplayInv
<1>5. ASSUME NEW t, t # time, NEW k \in DOMAIN given, LastGiven(t, k) PROVE LastGiven(t, k)'
  <2>1. \A j \in DOMAIN given' : given'[j].time = t => j \in DOMAIN given
    BY <1>2, <1>3, <1>5
  <2> QED BY <1>3, <1>5, <2>1 DEF LastGiven
<1>6. L + 1 \in DOMAIN given' /\ given'[L + 1] = g /\ \A j \in DOMAIN given' : j <= L + 1
  BY <1>3
<1>7. IndexIsLast
  BY <1>1 DEF ReplayInv
<1>8. ASSUME stage' # "raised" PROVE IndexIsLast'
  <2>1. /\ quoteAt' = [t \in DOMAIN quoteAt \cup {time} |-> IF t = time THEN q ELSE quoteAt[t]]
        /\ strict => time \notin DOMAIN quoteAt
    BY <1>8 DEF LoadQuote
  <2>2. /\ DOMAIN quoteAt' = DOMAIN quoteAt \cup {time} /\ quoteAt'[time] = q
        /\ \A t \in DOMAIN quoteAt : t # time => quoteAt'[t] = quoteAt[t]
    BY <2>1
  <2>3. ASSUME NEW t \in DOMAIN quoteAt'
        PROVE  \E k \in DOMAIN given' : LastGiven(t, k)' /\ given'[k].quote = quoteAt'[t]
    <3>1. CASE t = time
      BY <1>2, <1>6, <2>2, <3>1, Zenon DEF LastGiven
    <3>2. CASE t # time
      <4>1. PICK k \in DOMAIN given : LastGiven(t, k) /\ given[k].quote = quoteAt[t]
        BY <1>7, <2>2, <3>2, Zenon DEF IndexIsLast
      <4>2. LastGiven(t, k)' /\ given'[k] = given[k] /\ quoteAt'[t] = quoteAt[t]
        BY <1>3, <1>5, <2>2, <3>2, <4>1, Zenon
      <4>3. k \in DOMAIN given'
        BY <1>3
      <4> QED BY <4>1, <4>2, <4>3, Zenon
    <3> QED BY <3>1, <3>2
  <2>4. ASSUME NEW k \in DOMAIN given' PROVE given'[k].time \in DOMAIN quoteAt'
    <3>1. k \in 1 .. L \/ k = L + 1
      BY <1>3
    <3> QED BY <1>2, <1>3, <1>7, <2>2, <3>1, Zenon DEF IndexIsLast
  <2>5. ASSUME strict PROVE Distinct'
    <3>1. \A k \in 1 .. L : given'[k].time # time
      BY <1>3, <1>7, <2>1, <2>5, Zenon DEF IndexIsLast
    <3>2. \A i, j \in 1 .. L : given'[i].time = given'[j].time => i = j
      BY <1>3, <1>7, <2>5, Zenon DEF IndexIsLast, Distinct
    <3>3. \A i \in DOMAIN given' : i \in 1 .. L \/ i = L + 1
      BY <1>3
    <3>4. given'[L + 1].time = time
      BY <1>2, <1>3
    <3> QED BY <3>1, <3>2, <3>3, <3>4, Zenon DEF Distinct
  <2> QED BY <1>1, <2>3, <2>4, <2>5, Zenon DEF IndexIsLast
<1>9. stage' # "signals"
  BY <1>1
<1>10. \A n \in run'.from + 1 .. Len(done') : FilledRight(done[n])'
  BY <1>1, <1>4
<1> QED BY <1>1, <1>3, <1>8, <1>9, <1>10 DEF ReplayInv

\* The other steps of run make no fill, and a new call starts without quotes.
LEMMA CallingKeepsQuotes ==
  ASSUME ReplayInv, AllQuotesLoaded \/ RunAgain \/ UNCHANGED replayVars
  PROVE  ReplayInv'
<1>1. CASE AllQuotesLoaded \/ UNCHANGED replayVars
  <2>1. /\ UNCHANGED <<held, done, strict, given, quoteAt, run>>
        /\ stage' # "signals" => stage # "signals"
        /\ stage' # "raised" => stage # "raised"
    BY <1>1 DEF AllQuotesLoaded, replayVars
  <2>2. stage' # "raised" => IndexIsLast'
    BY <2>1, QuotesStay, Zenon DEF ReplayInv
  <2>3. \A n \in run'.from + 1 .. Len(done') : FilledRight(done[n])'
    BY <2>1, QuotesStay, Zenon DEF ReplayInv
  <2> QED BY <2>1, <2>2, <2>3, Zenon DEF ReplayInv
<1>2. CASE RunAgain
  <2>1. /\ run'.from = Len(done) /\ stage' = "quotes" /\ UNCHANGED <<held, done>>
        /\ given' = << >> /\ DOMAIN quoteAt' = {} /\ DOMAIN given' = {} /\ Len(done) \in Nat
    BY <1>2 DEF RunAgain, ReplayInv
  <2>2. Len(done) + 1 .. Len(done) = {} /\ Len(done) <= Len(done)
    BY <2>1
  <2>3. IndexIsLast'
    BY <2>1, Zenon DEF IndexIsLast, Distinct
  <2>4. \A n \in run'.from + 1 .. Len(done') : FilledRight(done[n])'
    BY <2>1, <2>2, Zenon
  <2>5. done' \in Seq(ReplayFills) /\ held' \in -ReplayMaxPosition .. ReplayMaxPosition
    BY <2>1 DEF ReplayInv
  <2>6. given' \in Seq(GivenQuotes)
    BY <2>1
  <2>7. run'.from \in Nat /\ run'.from <= Len(done') /\ run'.from = Len(done')
    BY <2>1, <2>2
  <2> QED BY <2>3, <2>4, <2>5, <2>6, <2>7, Zenon DEF ReplayInv
<1> QED BY <1>1, <1>2

\* The fills of the present run use the last quotes of their times, throughout.
LEMMA ReplayInvAlways == ReplaySpec => []ReplayInv
<1>1. ReplayInv /\ [ReplayNext]_replayVars => ReplayInv'
  BY ApplyKeepsQuotes, LoadQuoteKeepsQuotes, CallingKeepsQuotes DEF ReplayNext
<1> QED BY <1>1, ReplayInvInitial, PTL DEF ReplaySpec

\* No fill of a call looks ahead or back: it was made at the last quote given for its
\* signal's own timestamp, the only one under strict_unique_timestamps (run, apply).
THEOREM FillsUseTheLastQuoteAlways == ReplaySpec => []FillsUseTheLastQuote
<1>1. ReplayInv => FillsUseTheLastQuote
  <2>1. ASSUME NEW f, FilledRight(f)
        PROVE  LET at == {k \in DOMAIN given : given[k].time = f.time}
               IN \E k \in at :
                    /\ \A j \in at : j <= k
                    /\ strict => \A i, j \in DOMAIN given : given[i].time = given[j].time => i = j
                    /\ LET q == given[k].quote
                       IN q.bid <= q.ask /\ f.price = IF f.side > 0 THEN q.ask ELSE q.bid
    BY <2>1, Zenon DEF FilledRight, LastGiven, Distinct
  <2> QED BY <2>1, Zenon DEF ReplayInv, FillsUseTheLastQuote
<1> QED BY <1>1, ReplayInvAlways, PTL

\* The replay backtest implements the ledger: over any number of calls of run the position
\* is the sum of the fills, and no fill passes max_position (apply).
THEOREM ReplayKeepsLedgerAlways == ReplaySpec => ReplayKeepsLedger
<1>1. ReplayInit => ReplayLedger!Init
  BY DEF ReplayInit, ReplayLedger!Init
<1>2. ReplayInv /\ [ReplayNext]_replayVars => [ReplayLedger!Trade]_<<held, done>>
  <2> SUFFICES ASSUME ReplayInv, ReplayNext PROVE ReplayLedger!Trade \/ UNCHANGED <<held, done>>
    BY DEF replayVars
  <2>1. ASSUME NEW time \in 0 .. MaxReplayTime, NEW signal \in ReplaySignals,
               Apply(signal, time)
        PROVE  ReplayLedger!Trade
    <3> DEFINE f == [time |-> time, side |-> signal.side, quantity |-> signal.quantity,
                     price |-> IF signal.side > 0 THEN quoteAt[time].ask ELSE quoteAt[time].bid]
               L == Len(done)
               after == [n \in L .. L + 1 |-> IF n = L THEN held ELSE held']
    <3>1. /\ done' = Append(done, f) /\ signal.quantity > 0
          /\ held' = held + signal.side * signal.quantity
          /\ held' \in -ReplayMaxPosition .. ReplayMaxPosition
      BY <2>1 DEF Apply
    <3>2. ReplayInv'
      BY <2>1, ApplyKeepsQuotes
    <3>3. f \in ReplayFills /\ f.side = signal.side /\ f.quantity = signal.quantity
      <4>1. f = done'[Len(done')] /\ Len(done') \in DOMAIN done'
        BY <3>1, <3>2 DEF ReplayInv
      <4>2. f \in ReplayFills
        BY <3>2, <4>1 DEF ReplayInv
      <4> QED BY <4>2
    <3> HIDE DEF f
    <3>4. /\ L \in Nat /\ Len(done') = L + 1 /\ done = SubSeq(done', 1, L) /\ done'[L + 1] = f
      BY <3>1, <3>3 DEF ReplayInv
    <3>5. /\ after \in [L .. L + 1 -> -ReplayMaxPosition .. ReplayMaxPosition]
          /\ after[L] = held /\ after[L + 1] = held'
      <4>1. held \in -ReplayMaxPosition .. ReplayMaxPosition /\ L \in Nat
        BY <3>4 DEF ReplayInv
      <4> HIDE DEF L
      <4> QED BY <3>1, <4>1
    <3> HIDE DEF after, L
    <3>6. ASSUME NEW n \in L + 1 .. L + 1
          PROVE  /\ done'[n].quantity > 0
                 /\ after[n] = after[n - 1] + done'[n].side * done'[n].quantity
      <4>1. n = L + 1 /\ n - 1 = L
        BY <3>4
      <4> QED BY <3>1, <3>3, <3>4, <3>5, <4>1
    <3> QED BY <3>4, <3>5, <3>6 DEF ReplayLedger!Trade, L
  <2>2. CASE \/ \E time \in 0 .. MaxReplayTime, q \in ReplayQuotes : LoadQuote(q, time)
             \/ AllQuotesLoaded \/ RunAgain
    BY <2>2, Zenon DEF LoadQuote, AllQuotesLoaded, RunAgain
  <2> QED BY <2>1, <2>2 DEF ReplayNext
<1> QED BY <1>1, <1>2, ReplayInvAlways, PTL DEF ReplaySpec, ReplayKeepsLedger, ReplayLedger!Spec

-----------------------------------------------------------------------------
(* The reconciliation of orders                                            *)

\* Every set of naturals that is not empty has a least element, as < is well-founded.
LEMMA LeastNumber ==
  ASSUME NEW S \in SUBSET Nat, S # {}
  PROVE  \E n \in S : \A m \in S : n <= m
<1> DEFINE R == {pair \in Nat \X Nat : pair[1] < pair[2]}
<1>1. IsWellFoundedOn(R, Nat)
  BY NatLessThanWellFounded, Zenon DEF OpToRel
<1>2. \A m, n \in Nat : m < n => <<m, n>> \in R
  OBVIOUS
<1> HIDE DEF R
<1>3. PICK n \in S : \A m \in S : <<m, n>> \notin R
  BY <1>1, WFMin, Zenon
<1>4. ASSUME NEW m \in S PROVE n <= m
  <2>1. m \in Nat /\ n \in Nat /\ ~(m < n)
    BY <1>2, <1>3, Zenon
  <2> QED BY <2>1
<1> QED BY <1>4

\* Every record of a side is valid, and no order has two.
Clean(s) ==
  /\ \A n \in DOMAIN s : s[n].id > 0
  /\ \A m, n \in DOMAIN s : m # n => s[m].id # s[n].id

\* _index finds something exactly if a side is not clean, and no finding is a match.
LEMMA IndexFinds ==
  ASSUME NEW s \in Seq(Records)
  PROVE  /\ \A f \in Index(s).findings : f.state # "matched"
         /\ Index(s).findings = {} <=> Clean(s)
<1> DEFINE invalid == {[id |-> i, state |-> "invalid_record"] : i \in {j \in Ids(s) : j <= 0}}
           twice == {k \in DOMAIN s : s[k].id > 0 /\ \E m \in 1 .. k - 1 : s[m].id = s[k].id}
           duplicate == {[id |-> s[n].id, state |-> "duplicate_record"] : n \in twice}
<1>1. Index(s).findings = invalid \cup duplicate
  BY DEF Index
<1>2. DOMAIN s = 1 .. Len(s) /\ Len(s) \in Nat /\ \A n \in DOMAIN s : s[n].id \in Int
  BY RecordsAssumption
<1>3. \A f \in invalid \cup duplicate : f.state # "matched"
  OBVIOUS
<1>4. invalid = {} <=> \A n \in DOMAIN s : s[n].id > 0
  <2>1. invalid = {} <=> {j \in Ids(s) : j <= 0} = {}
    BY Zenon
  <2>2. {j \in Ids(s) : j <= 0} = {} <=> \A n \in DOMAIN s : ~(s[n].id <= 0)
    BY DEF Ids
  <2>3. \A n \in DOMAIN s : ~(s[n].id <= 0) <=> s[n].id > 0
    BY <1>2
  <2> HIDE DEF invalid
  <2> QED BY <2>1, <2>2, <2>3
<1>5. duplicate = {} <=> twice = {}
  BY Zenon
<1>6. ASSUME Clean(s) PROVE twice = {}
  BY <1>2, <1>6 DEF Clean
<1>7. ASSUME twice = {}, \A n \in DOMAIN s : s[n].id > 0 PROVE Clean(s)
  <2> SUFFICES ASSUME NEW m \in DOMAIN s, NEW n \in DOMAIN s, m # n, s[m].id = s[n].id
               PROVE  FALSE
    BY <1>7 DEF Clean
  <2>1. CASE m < n
    BY <1>2, <1>7, <2>1
  <2>2. CASE n < m
    BY <1>2, <1>7, <2>2
  <2> QED BY <1>2, <2>1, <2>2
<1> HIDE DEF invalid, duplicate, twice
<1> QED BY <1>1, <1>3, <1>4, <1>5, <1>6, <1>7, SMTT(30) DEF Clean

\* Of a clean side _index keeps every record under its id.
LEMMA IndexKeeps ==
  ASSUME NEW s \in Seq(Records), Clean(s)
  PROVE  /\ DOMAIN Index(s).byId = Ids(s)
         /\ \A n \in DOMAIN s : Index(s).byId[s[n].id] = s[n]
<1>1. Index(s).byId = [id \in {i \in Ids(s) : i > 0} |-> First(s, id)]
  BY DEF Index
<1>2. {i \in Ids(s) : i > 0} = Ids(s)
  BY DEF Ids, Clean
<1>3. ASSUME NEW n \in DOMAIN s PROVE First(s, s[n].id) = s[n]
  <2> DEFINE P(k) == s[k].id = s[n].id /\ \A m \in 1 .. k - 1 : s[m].id # s[n].id
  <2>1. DOMAIN s = 1 .. Len(s) /\ Len(s) \in Nat
    OBVIOUS
  <2>2. P(n)
    BY <2>1 DEF Clean
  <2>3. \A k \in DOMAIN s : P(k) => k = n
    BY DEF Clean
  <2>4. (CHOOSE k \in DOMAIN s : P(k)) = n
    BY <2>2, <2>3
  <2> QED BY <2>4, Zenon DEF First
<1>4. \A n \in DOMAIN s : s[n].id \in Ids(s)
  BY DEF Ids
<1> QED BY <1>1, <1>2, <1>3, <1>4, SMTT(30)

\* When a local record is matched.
Agrees(l, v) == v.executed >= l.executed /\ l.price \in {0, v.price}

\* compare finds a local record matched if the venue reports it and the two agree.
LEMMA StateMatches ==
  ASSUME NEW l, NEW reports, l.executed \in Int,
         l.id \in DOMAIN reports => reports[l.id].executed \in Int
  PROVE  StateOf(l, reports) = "matched" <=>
           l.id \in DOMAIN reports /\ Agrees(l, reports[l.id])
  BY DEF StateOf, Agrees

\* The comparison is not ambiguous if both sides are clean, list the same orders and agree.
LEMMA UnambiguousMeans ==
  ASSUME local \in Seq(Records), venue \in Seq(Records)
  PROVE  ~Ambiguous <=>
           /\ Clean(local) /\ Clean(venue) /\ Ids(venue) = Ids(local)
           /\ \A n \in DOMAIN local, m \in DOMAIN venue :
                local[n].id = venue[m].id => Agrees(local[n], venue[m])
<1> DEFINE l == Index(local)
           v == Index(venue)
           states == {[id |-> i, state |-> StateOf(l.byId[i], v.byId)] : i \in DOMAIN l.byId}
           missing == {[id |-> i, state |-> "missing_local"] :
                         i \in DOMAIN v.byId \ DOMAIN l.byId}
<1>1. Compare(local, venue) = l.findings \cup v.findings \cup states \cup missing
  BY DEF Compare
<1>2. /\ \A f \in l.findings \cup v.findings : f.state # "matched"
      /\ l.findings = {} <=> Clean(local)
      /\ v.findings = {} <=> Clean(venue)
  BY IndexFinds
<1>3. (\A f \in states : f.state = "matched") <=>
        \A i \in DOMAIN l.byId : StateOf(l.byId[i], v.byId) = "matched"
  <2> HIDE DEF l, v
  <2>1. \A i \in DOMAIN l.byId : \E f \in states : f.state = StateOf(l.byId[i], v.byId)
    <3>1. \A i \in DOMAIN l.byId : [id |-> i, state |-> StateOf(l.byId[i], v.byId)] \in states
      OBVIOUS
    <3> HIDE DEF states
    <3> QED BY <3>1, Zenon
  <2>2. \A f \in states : \E i \in DOMAIN l.byId : f.state = StateOf(l.byId[i], v.byId)
    OBVIOUS
  <2> HIDE DEF states
  <2> QED BY <2>1, <2>2
<1>4. (\A f \in missing : f.state = "matched") <=> DOMAIN v.byId \subseteq DOMAIN l.byId
  <2> HIDE DEF l, v
  <2>1. \A i \in DOMAIN v.byId \ DOMAIN l.byId : [id |-> i, state |-> "missing_local"] \in missing
    OBVIOUS
  <2>2. \A f \in missing : f.state # "matched" /\ DOMAIN v.byId \ DOMAIN l.byId # {}
    OBVIOUS
  <2> HIDE DEF missing
  <2> QED BY <2>1, <2>2, Zenon
<1>5. ~Ambiguous <=>
        /\ Clean(local) /\ Clean(venue) /\ DOMAIN v.byId \subseteq DOMAIN l.byId
        /\ \A i \in DOMAIN l.byId : StateOf(l.byId[i], v.byId) = "matched"
  <2> HIDE DEF l, v, states, missing
  <2> QED BY <1>1, <1>2, <1>3, <1>4 DEF Ambiguous
<1>6. ASSUME Clean(local), Clean(venue)
      PROVE  (/\ DOMAIN v.byId \subseteq DOMAIN l.byId
              /\ \A i \in DOMAIN l.byId : StateOf(l.byId[i], v.byId) = "matched")
             <=> /\ Ids(venue) = Ids(local)
                 /\ \A n \in DOMAIN local, m \in DOMAIN venue :
                      local[n].id = venue[m].id => Agrees(local[n], venue[m])
  <2>1. /\ DOMAIN l.byId = Ids(local) /\ \A n \in DOMAIN local : l.byId[local[n].id] = local[n]
        /\ DOMAIN v.byId = Ids(venue) /\ \A m \in DOMAIN venue : v.byId[venue[m].id] = venue[m]
    BY <1>6, IndexKeeps
  <2>2. /\ \A n \in DOMAIN local : local[n].executed \in Int
        /\ \A m \in DOMAIN venue : venue[m].executed \in Int
    BY RecordsAssumption
  <2> HIDE DEF l, v
  <2>3. ASSUME NEW n \in DOMAIN local
        PROVE  StateOf(local[n], v.byId) = "matched" <=>
                 /\ local[n].id \in Ids(venue)
                 /\ \A m \in DOMAIN venue :
                      local[n].id = venue[m].id => Agrees(local[n], venue[m])
    <3>1. local[n].id \in Ids(venue) => v.byId[local[n].id].executed \in Int
      BY <2>1, <2>2 DEF Ids
    <3>2. StateOf(local[n], v.byId) = "matched" <=>
            local[n].id \in Ids(venue) /\ Agrees(local[n], v.byId[local[n].id])
      BY <2>1, <2>2, <3>1, StateMatches
    <3>3. \A m \in DOMAIN venue : local[n].id = venue[m].id => v.byId[local[n].id] = venue[m]
      BY <2>1
    <3> QED BY <3>2, <3>3 DEF Ids
  <2>4. (\A i \in DOMAIN l.byId : StateOf(l.byId[i], v.byId) = "matched") <=>
          \A n \in DOMAIN local : StateOf(local[n], v.byId) = "matched"
    BY <2>1 DEF Ids
  <2>5. Ids(local) \subseteq Ids(venue) <=> \A n \in DOMAIN local : local[n].id \in Ids(venue)
    BY Zenon DEF Ids
  <2> QED BY <2>1, <2>3, <2>4, <2>5, Zenon
<1> QED BY <1>5, <1>6

\* A map from 1 .. m to 1 .. n that gives no value twice.
OneToOne(f, m, n) ==
  /\ \A i \in 1 .. m : f[i] \in 1 .. n
  /\ \A i, j \in 1 .. m : f[i] = f[j] => i = j

\* No map to a shorter sequence gives every record a partner of its own: from a least
\* such map, leaving out the last partner makes a smaller one.
LEMMA Pigeonhole ==
  ASSUME NEW m \in Nat, NEW n \in Nat, n < m, NEW f, OneToOne(f, m, n)
  PROVE  FALSE
<1> DEFINE S == {k \in Nat : \E l \in Nat : \E g : k < l /\ OneToOne(g, l, k)}
<1>1. S # {} /\ S \in SUBSET Nat
  OBVIOUS
<1>2. PICK k \in S : \A o \in S : k <= o
  <2> HIDE DEF S
  <2> QED BY <1>1, LeastNumber
<1>3. PICK l \in Nat : \E g : k < l /\ OneToOne(g, l, k)
  OBVIOUS
<1>4. PICK g : k < l /\ OneToOne(g, l, k)
  BY <1>3
<1> DEFINE h == [i \in 1 .. l - 1 |-> IF g[i] = k THEN g[l] ELSE g[i]]
<1>5. k \in Nat /\ k # 0
  <2>1. g[1] \in 1 .. k
    BY <1>4 DEF OneToOne
  <2> QED BY <2>1
<1>6. OneToOne(h, l - 1, k - 1)
  <2>1. /\ \A i \in 1 .. l : g[i] \in 1 .. k
        /\ \A i, j \in 1 .. l : g[i] = g[j] => i = j
    BY <1>4 DEF OneToOne
  <2>2. \A i \in 1 .. l - 1 : g[i] # g[l] /\ h[i] = IF g[i] = k THEN g[l] ELSE g[i]
    BY <2>1, <1>4
  <2>3. \A i \in 1 .. l - 1 : h[i] \in 1 .. k - 1
    BY <2>1, <2>2, <1>4, <1>5
  <2>4. \A i, j \in 1 .. l - 1 : h[i] = h[j] => i = j
    BY <2>1, <2>2, <1>4
  <2> QED BY <2>3, <2>4 DEF OneToOne
<1>7. k - 1 \in S
  <2> HIDE DEF h
  <2>1. k - 1 \in Nat /\ l - 1 \in Nat /\ k - 1 < l - 1
    BY <1>4, <1>5
  <2> QED BY <2>1, <1>6
<1> QED BY <1>2, <1>5, <1>7

\* Two sequences with a one-to-one map of one onto the other are equally long.
LEMMA OntoIsAsLong ==
  ASSUME NEW m \in Nat, NEW n \in Nat, NEW p, OneToOne(p, m, n),
         \A j \in 1 .. n : \E i \in 1 .. m : p[i] = j
  PROVE  m = n
<1>1. m <= n
  BY Pigeonhole
<1> DEFINE q == [j \in 1 .. n |-> CHOOSE i \in 1 .. m : p[i] = j]
<1>2. \A j \in 1 .. n : q[j] \in 1 .. m /\ p[q[j]] = j
  OBVIOUS
<1> HIDE DEF q
<1>3. OneToOne(q, n, m)
  BY <1>2 DEF OneToOne
<1>4. n <= m
  BY <1>3, Pigeonhole
<1> QED BY <1>1, <1>4

\* A one-to-one map between equally long sequences leaves nothing out.
LEMMA AsLongIsOnto ==
  ASSUME NEW n \in Nat, NEW p, OneToOne(p, n, n), NEW j \in 1 .. n
  PROVE  \E i \in 1 .. n : p[i] = j
<1> SUFFICES ASSUME \A i \in 1 .. n : p[i] # j PROVE FALSE
  OBVIOUS
<1> DEFINE q == [i \in 1 .. n |-> IF p[i] = n THEN j ELSE p[i]]
<1>1. \A i \in 1 .. n : q[i] = IF p[i] = n THEN j ELSE p[i]
  OBVIOUS
<1> HIDE DEF q
<1>2. OneToOne(q, n, n - 1)
  BY <1>1 DEF OneToOne
<1>3. n - 1 \in Nat /\ n - 1 < n
  OBVIOUS
<1> QED BY <1>2, <1>3, Pigeonhole

\* If nothing is ambiguous, every local record has its own report, and none is left.
LEMMA UnambiguousPairs ==
  ASSUME local \in Seq(Records), venue \in Seq(Records), Clean(local), Clean(venue),
         Ids(venue) = Ids(local)
  PROVE  /\ Len(local) = Len(venue)
         /\ \E pairing \in [DOMAIN local -> DOMAIN venue] :
              \A n \in DOMAIN local : venue[pairing[n]].id = local[n].id
<1> DEFINE p == [n \in DOMAIN local |-> CHOOSE m \in DOMAIN venue : venue[m].id = local[n].id]
<1>1. \A n \in DOMAIN local : \E m \in DOMAIN venue : venue[m].id = local[n].id
  BY Zenon DEF Ids
<1>2. \A n \in DOMAIN local : p[n] \in DOMAIN venue /\ venue[p[n]].id = local[n].id
  BY <1>1
<1>3. p \in [DOMAIN local -> DOMAIN venue]
  BY <1>2
<1>4. \A m \in DOMAIN venue : \E n \in DOMAIN local : venue[m].id = local[n].id
  BY Zenon DEF Ids
<1> HIDE DEF p
<1> DEFINE a == Len(local)
           b == Len(venue)
<1>5. a \in Nat /\ DOMAIN local = 1 .. a /\ b \in Nat /\ DOMAIN venue = 1 .. b
  OBVIOUS
<1> HIDE DEF a, b
<1>6. OneToOne(p, a, b)
  <2>1. \A m, n \in DOMAIN local : p[m] = p[n] => m = n
    BY <1>2 DEF Clean
  <2> QED BY <1>2, <1>5, <2>1, Zenon DEF OneToOne
<1>7. \A m \in 1 .. b : \E n \in 1 .. a : p[n] = m
  <2>1. ASSUME NEW m \in DOMAIN venue PROVE \E n \in DOMAIN local : p[n] = m
    <3>1. PICK n \in DOMAIN local : venue[m].id = local[n].id
      BY <1>4
    <3>2. p[n] \in DOMAIN venue /\ venue[p[n]].id = venue[m].id
      BY <1>2, <3>1
    <3> QED BY <3>2 DEF Clean
  <2> QED BY <1>5, <2>1, Zenon
<1>8. a = b
  BY <1>5, <1>6, <1>7, OntoIsAsLong, Zenon
<1> QED BY <1>2, <1>3, <1>8 DEF a, b

\* The comparison of the two sides is unambiguous exactly if they pair up one to one and
\* every pair agrees (_index, compare), for any records in any order.
THEOREM UnambiguousMeansPairedAlways == ReconcileSpec => []UnambiguousMeansPaired
<1> DEFINE Recorded == local \in Seq(Records) /\ venue \in Seq(Records)
<1>1. ReconcileInit => Recorded
  BY DEF ReconcileInit
<1>2. Recorded /\ [ReconcileNext]_reconcileVars => Recorded'
  <2>1. ASSUME Recorded, NEW r \in Records, AddLocal(r) \/ AddVenue(r) PROVE Recorded'
    <3>1. Append(local, r) \in Seq(Records) /\ Append(venue, r) \in Seq(Records)
      BY <2>1
    <3> QED BY <2>1, <3>1, Zenon DEF AddLocal, AddVenue
  <2>2. ASSUME Recorded, UNCHANGED reconcileVars PROVE Recorded'
    BY <2>2 DEF reconcileVars
  <2> QED BY <2>1, <2>2 DEF ReconcileNext
<1>3. ASSUME Recorded PROVE UnambiguousMeansPaired
  <2>1. ~Ambiguous <=>
           /\ Clean(local) /\ Clean(venue) /\ Ids(venue) = Ids(local)
           /\ \A n \in DOMAIN local, m \in DOMAIN venue :
                local[n].id = venue[m].id => Agrees(local[n], venue[m])
    BY <1>3, UnambiguousMeans
  <2>2. ASSUME ~Ambiguous
        PROVE  \E pairing \in [DOMAIN local -> DOMAIN venue] :
                 /\ Len(local) = Len(venue)
                 /\ \A n \in DOMAIN local :
                      /\ local[n].id = venue[pairing[n]].id /\ local[n].id > 0
                      /\ venue[pairing[n]].executed >= local[n].executed
                      /\ local[n].price \in {0, venue[pairing[n]].price}
                 /\ \A m, n \in DOMAIN local : m # n => local[m].id # local[n].id
    <3>1. PICK pairing \in [DOMAIN local -> DOMAIN venue] :
            /\ Len(local) = Len(venue)
            /\ \A n \in DOMAIN local : venue[pairing[n]].id = local[n].id
      BY <1>3, <2>1, <2>2, UnambiguousPairs
    <3> QED BY <2>1, <2>2, <3>1 DEF Agrees, Clean
  <2>3. ASSUME NEW pairing \in [DOMAIN local -> DOMAIN venue], Len(local) = Len(venue),
               \A n \in DOMAIN local :
                 /\ local[n].id = venue[pairing[n]].id /\ local[n].id > 0
                 /\ venue[pairing[n]].executed >= local[n].executed
                 /\ local[n].price \in {0, venue[pairing[n]].price},
               \A m, n \in DOMAIN local : m # n => local[m].id # local[n].id
        PROVE  ~Ambiguous
    <3> DEFINE a == Len(local)
    <3>1. /\ a \in Nat /\ DOMAIN local = 1 .. a /\ DOMAIN venue = 1 .. a
          /\ \A m, n \in DOMAIN local : pairing[m] = pairing[n] => m = n
      BY <1>3, <2>3
    <3>2. \A m \in DOMAIN venue : \E n \in DOMAIN local : pairing[n] = m
      <4> HIDE DEF a
      <4>1. OneToOne(pairing, a, a)
        BY <3>1, Zenon DEF OneToOne
      <4>2. ASSUME NEW m \in 1 .. a PROVE \E n \in 1 .. a : pairing[n] = m
        BY <3>1, <4>1, AsLongIsOnto, SMTT(30)
      <4> QED BY <3>1, <4>2, Zenon
    <3>3. Clean(local) /\ Clean(venue)
      BY <2>3, <3>2 DEF Clean
    <3>4. Ids(venue) = Ids(local)
      BY <2>3, <3>2 DEF Ids
    <3>5. ASSUME NEW n \in DOMAIN local, NEW m \in DOMAIN venue, local[n].id = venue[m].id
          PROVE  Agrees(local[n], venue[m])
      <4>1. pairing[n] = m
        BY <2>3, <3>3, <3>5 DEF Clean
      <4> QED BY <2>3, <4>1 DEF Agrees
    <3> QED BY <2>1, <3>3, <3>4, <3>5
  <2> QED BY <2>2, <2>3 DEF UnambiguousMeansPaired
<1> QED BY <1>1, <1>2, <1>3, PTL DEF ReconcileSpec
=============================================================================
