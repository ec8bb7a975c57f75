-------------------------- MODULE MCOrderEvidence ---------------------------
(* Small instances of OrderEvidence for TLC.                               *)
EXTENDS OrderEvidence

MCSnapshots ==
  {[version |-> 1, expires |-> 9, maxQuantity |-> 1, maxNotional |-> 1,
    maxNet |-> 1, maxGross |-> 1, maxRate |-> 3, enabled |-> TRUE]}

Buy(c) == [corr |-> c, identified |-> TRUE, side |-> "Buy", price |-> 1,
           quantity |-> 1, created |-> 1]
OneOrder == {Buy(1)}
MCMaxEvents == [c \in BOOLEAN |-> IF c THEN 3 ELSE 5]

MCReports == {[net |-> 0, gross |-> 0]}
MCFillSizes == {1}
MCTimes == {1}
MCReplacements == {<<1, 1>>}
=============================================================================
