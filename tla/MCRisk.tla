------------------------------- MODULE MCRisk -------------------------------
(***************************************************************************)
(* Small instances of the risk engine for TLC.  Its callers pass any time  *)
(* they like, or share a clock that never goes back: callers says which.   *)
(***************************************************************************)
EXTENDS RiskClock

VARIABLE callers

CallersInit == ClockInit /\ callers \in {"anyTime", "oneClock"}
CallersNext ==
  /\ \/ callers = "anyTime" /\ RiskNext /\ UNCHANGED <<clock, granted>>
     \/ callers = "oneClock" /\ ClockNext
  /\ UNCHANGED callers
CallersSpec == CallersInit /\ [][CallersNext]_<<clockVars, callers>>

Limits(version, maxNet, maxGross, rate) ==
  [version |-> version, expires |-> 7, maxQuantity |-> 2, maxNotional |-> 4,
   maxNet |-> maxNet, maxGross |-> maxGross, maxRate |-> rate,
   enabled |-> TRUE]

Intent(side, price, quantity) ==
  [corr |-> 1, identified |-> TRUE, side |-> side, price |-> price,
   quantity |-> quantity, created |-> 1]

\* A loose and a tight snapshot, one at the edge of int64, one disabled.
MCSnapshots ==
  {Limits(1, 3, 6, 2), Limits(2, 1, 6, 1), Limits(3, 7, 7, 3),
   [Limits(4, 3, 6, 2) EXCEPT !.enabled = FALSE]}
MCReports ==
  {[net |-> n, gross |-> g] : n \in {-7, -2, 0, 7}, g \in {-1, 0, 2, 7}}
MCIntents ==
  {Intent(s, p, q) : s \in Sides, p \in {0, 1, 4}, q \in 0 .. 3}
MCFillSizes == {-1, 1, 2}
MCTimes == {1, 3, 5}
=============================================================================
