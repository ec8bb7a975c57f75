----------------------------- MODULE RiskEngine -----------------------------
(***************************************************************************)
(* The native pre-trade risk engine, cpp/ito_risk/risk_engine.cpp.         *)
(*                                                                         *)
(* Every public member holds mutex_ from its first to its last statement,  *)
(* so each is one action.  Prices, quantities and positions are std::int64 *)
(* values (Int64); now_ns, the expiry and the window epoch are natural     *)
(* numbers.  The eight identity fields of an OrderIntent and its order     *)
(* type are only ever compared with zero and with Limit: one Boolean,      *)
(* identified, stands for "all of them pass".                              *)
(***************************************************************************)
EXTENDS Integers

CONSTANTS
  MaxInt64,        \* std::numeric_limits<std::int64_t>::max()
  Second,          \* the 1'000'000'000 ns of the rate window, in ticks
  Snapshots,       \* the limit snapshots a caller may install
  Reports,         \* the position snapshots a caller may install
  Intents,         \* the order intents a strategy may submit
  FillSizes,       \* the quantities a fill may carry
  Times            \* the values of now_ns a caller may pass

MinInt64 == -MaxInt64 - 1
Int64 == MinInt64 .. MaxInt64

Sides == {"Buy", "Sell"}
Healths == {"Healthy", "Stale", "Halted"}

LimitSnapshot ==
  [version : Nat, expires : Nat, maxQuantity : Int64, maxNotional : Int64,
   maxNet : Int64, maxGross : Int64, maxRate : Nat, enabled : BOOLEAN]

PositionSnapshot == [net : Int64, gross : Int64]

OrderIntent ==
  [corr : Nat, identified : BOOLEAN, side : Sides, price : Int64,
   quantity : Int64, created : Nat]

\* -max_net_position is evaluated by apply_fill, so INT64_MIN is no limit.
ASSUME RiskAssumption ==
  /\ MaxInt64 \in Nat \ {0}
  /\ Second \in Nat \ {0}
  /\ Times \subseteq Nat
  /\ Snapshots \subseteq LimitSnapshot
  /\ \A s \in Snapshots : s.maxNet # MinInt64
  /\ Reports \subseteq PositionSnapshot
  /\ Intents \subseteq OrderIntent
  /\ FillSizes \subseteq Int64 \ {MinInt64}

VARIABLES
  limits,            \* limits_
  position,          \* position_
  health,            \* health_
  ordersThisSecond,  \* orders_this_second_
  secondEpoch        \* second_epoch_ns_

riskVars == <<limits, position, health, ordersThisSecond, secondEpoch>>

\* A default-constructed LimitSnapshot: version 0, trading disabled.
NoLimits ==
  [version |-> 0, expires |-> 0, maxQuantity |-> 0, maxNotional |-> 0,
   maxNet |-> 0, maxGross |-> 0, maxRate |-> 0, enabled |-> FALSE]

RiskInit ==
  /\ limits = NoLimits
  /\ position = [net |-> 0, gross |-> 0]
  /\ health = "Halted"
  /\ ordersThisSecond = 0
  /\ secondEpoch = 0

-----------------------------------------------------------------------------
Signed(side, quantity) == IF side = "Buy" THEN quantity ELSE -quantity

\* Mutant: the rate window survives a change of limits.
SetLimitsKeepingWindow(snapshot) ==
  /\ limits' = snapshot
  /\ UNCHANGED <<position, health, ordersThisSecond, secondEpoch>>

\* The snapshot is installed as it is and the rate window starts again.
SetLimits(snapshot) ==
  /\ limits' = snapshot
  /\ ordersThisSecond' = 0
  /\ secondEpoch' = 0
  /\ UNCHANGED <<position, health>>

\* A report whose gross position does not cover its net one is dropped.
Plausible(report) ==
  /\ report.gross >= 0
  /\ report.net <= report.gross
  /\ report.net >= -report.gross

SetPosition(report) ==
  /\ Plausible(report)
  /\ position' = report
  /\ UNCHANGED <<limits, health, ordersThisSecond, secondEpoch>>

SetHealth(h) ==
  /\ health' = h
  /\ UNCHANGED <<limits, position, ordersThisSecond, secondEpoch>>

\* apply_fill's early returns: int64 range first, then the limits in force.
FillAccepted(side, quantity) ==
  LET signed == Signed(side, quantity)
      nextGross == position.gross + quantity
      nextNet == position.net + signed
  IN /\ quantity > 0
     /\ position.gross >= 0
     /\ nextGross <= MaxInt64
     /\ nextNet \in Int64
     /\ nextGross <= limits.maxGross
     /\ nextNet <= limits.maxNet
     /\ nextNet >= -limits.maxNet

ApplyFill(side, quantity) ==
  /\ FillAccepted(side, quantity)
  /\ position' = [net |-> position.net + Signed(side, quantity),
                  gross |-> position.gross + quantity]
  /\ UNCHANGED <<limits, health, ordersThisSecond, secondEpoch>>

-----------------------------------------------------------------------------
LimitsValid ==
  /\ limits.version # 0
  /\ limits.expires # 0
  /\ limits.maxQuantity > 0
  /\ limits.maxNotional > 0
  /\ limits.maxNet >= 0
  /\ limits.maxGross >= 0
  /\ limits.maxRate # 0

\* The order would take the net position past the limit on its own side, or
\* its arithmetic past the range of int64.
NetBreached(i) ==
  \/ /\ i.side = "Buy"
     /\ \/ position.net > limits.maxNet - i.quantity
        \/ position.net < MinInt64 + i.quantity
  \/ /\ i.side = "Sell"
     /\ \/ position.net < -limits.maxNet + i.quantity
        \/ position.net > MaxInt64 - i.quantity

\* Mutant: the gross limit is off by one.
GrossBreachedOffByOne(i) ==
  \/ position.gross < 0
  \/ limits.maxGross < position.gross
  \/ i.quantity > limits.maxGross - position.gross + 1

GrossBreached(i) ==
  \/ position.gross < 0
  \/ limits.maxGross < position.gross
  \/ i.quantity > limits.maxGross - position.gross

\* Mutant: the health of the feed is not asked for.
OrderVerdictAnyHealth(i, now) ==
  IF ~limits.enabled THEN "NotEnabled"
  ELSE IF ~LimitsValid THEN "InvalidLimits"
  ELSE IF limits.expires <= now THEN "ExpiredLimits"
  ELSE IF ~i.identified \/ i.corr = 0 \/ i.created > now THEN "InvalidOrder"
  ELSE IF i.quantity <= 0 \/ i.quantity > limits.maxQuantity THEN "Quantity"
  ELSE IF i.price <= 0 \/ i.price * i.quantity > MaxInt64 THEN "Overflow"
  ELSE IF i.price * i.quantity > limits.maxNotional THEN "Notional"
  ELSE IF NetBreached(i) \/ GrossBreached(i) THEN "Position"
  ELSE "Approved"

\* The checks of evaluate before the rate window, in the order of its returns.
OrderVerdict(i, now) ==
  IF ~limits.enabled THEN "NotEnabled"
  ELSE IF ~LimitsValid THEN "InvalidLimits"
  ELSE IF limits.expires <= now THEN "ExpiredLimits"
  ELSE IF health # "Healthy" THEN "Unhealthy"
  ELSE IF ~i.identified \/ i.corr = 0 \/ i.created > now THEN "InvalidOrder"
  ELSE IF i.quantity <= 0 \/ i.quantity > limits.maxQuantity THEN "Quantity"
  ELSE IF i.price <= 0 \/ i.price * i.quantity > MaxInt64 THEN "Overflow"
  ELSE IF i.price * i.quantity > limits.maxNotional THEN "Notional"
  ELSE IF NetBreached(i) \/ GrossBreached(i) THEN "Position"
  ELSE "Approved"

\* Mutant: the window is one tick short.
NewWindowEarly(now) ==
  \/ secondEpoch = 0
  \/ now < secondEpoch
  \/ now - secondEpoch >= Second - 1

NewWindow(now) ==
  \/ secondEpoch = 0
  \/ now < secondEpoch
  \/ now - secondEpoch >= Second

WindowCount(now) == IF NewWindow(now) THEN 0 ELSE ordersThisSecond

Verdict(i, now) ==
  IF OrderVerdict(i, now) # "Approved" THEN OrderVerdict(i, now)
  ELSE IF WindowCount(now) >= limits.maxRate THEN "Rate"
  ELSE "Approved"

\* The window is only looked at, and moved, once every other check has passed.
Evaluate(i, now) ==
  /\ IF OrderVerdict(i, now) = "Approved"
     THEN /\ secondEpoch' = IF NewWindow(now) THEN now ELSE secondEpoch
          /\ ordersThisSecond' =
               IF Verdict(i, now) = "Approved" THEN WindowCount(now) + 1
                                               ELSE WindowCount(now)
     ELSE UNCHANGED <<secondEpoch, ordersThisSecond>>
  /\ UNCHANGED <<limits, position, health>>

RiskNext ==
  \/ \E s \in Snapshots : SetLimits(s)
  \/ \E r \in Reports : SetPosition(r)
  \/ \E h \in Healths : SetHealth(h)
  \/ \E side \in Sides, q \in FillSizes : ApplyFill(side, q)
  \/ \E i \in Intents, now \in Times : Evaluate(i, now)

RiskSpec == RiskInit /\ [][RiskNext]_riskVars

-----------------------------------------------------------------------------
(* Properties                                                              *)

\* The limits, the position and the rate window have their types; the position
\* stays in the range of int64 whatever is filled or reported.
RiskTypeOK ==
  /\ limits \in LimitSnapshot
  /\ limits.maxNet # MinInt64
  /\ position \in PositionSnapshot
  /\ health \in Healths
  /\ ordersThisSecond \in Nat
  /\ secondEpoch \in Nat

\* The gross position covers the net one after any mixture of set_position,
\* apply_fill and set_limits, so evaluate's guards against a negative gross
\* position and against overflow of the net one never fire by accident.
NetWithinGross ==
  /\ position.net <= position.gross
  /\ -position.gross <= position.net

\* evaluate and apply_fill agree: while the net position is inside the limits in
\* force, any order evaluate would approve can be filled in full, so a fill of an
\* approved order is refused only if something else changed in between.
ApprovedIsFillable ==
  position.net \in -limits.maxNet .. limits.maxNet =>
    \A i \in Intents, now \in Times :
      OrderVerdict(i, now) = "Approved" => FillAccepted(i.side, i.quantity)

\* Within one rate window no more than max_orders_per_second orders are approved,
\* across changes of limits and calls whose clock runs backwards.
WindowWithinRate == ordersThisSecond <= limits.maxRate

\* The inductive invariant: the engine's state has its types, the position covers its
\* net part in int64 and the rate window is within the limits in force, whatever
\* set_limits, set_position, apply_fill, set_market_data_health and evaluate do.
RiskInv == RiskTypeOK /\ NetWithinGross /\ WindowWithinRate

=============================================================================
