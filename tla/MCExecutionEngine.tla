------------------------- MODULE MCExecutionEngine --------------------------
(* Small instances of ExecutionEngine for TLC.                             *)
EXTENDS ExecutionEngine

Limits(version, maxNet, rate, enabled) ==
  [version |-> version, expires |-> 9, maxQuantity |-> 2, maxNotional |-> 2,
   maxNet |-> maxNet, maxGross |-> 1, maxRate |-> rate, enabled |-> enabled]

Buy(c) == [corr |-> c, identified |-> TRUE, side |-> "Buy", price |-> 1,
           quantity |-> 1, created |-> 1]

MCSnapshots == {Limits(1, 1, 2, TRUE)}
MCReports == {}
MCIntents == {Buy(0), Buy(1), Buy(2)}
MCFillSizes == {1}
MCTimes == {1, 3}
MCReplacements == {<<2, 2>>}
=============================================================================
