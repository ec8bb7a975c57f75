---------------------------- MODULE TradeLedger -----------------------------
(***************************************************************************)
(* What a backtest promises of its position: it is the sum of the fills in *)
(* the order they were made, and none of them took it past the limit.      *)
(***************************************************************************)
EXTENDS Integers, Sequences

CONSTANT MaxPosition
VARIABLES position, fills

Init == position = 0 /\ fills = << >>

\* One event of the market or the strategy makes any number of fills; after[n] is the
\* position after the first n fills.
Trade ==
  /\ Len(fills) <= Len(fills') /\ fills = SubSeq(fills', 1, Len(fills))
  /\ \E after \in [Len(fills) .. Len(fills') -> -MaxPosition .. MaxPosition] :
       /\ after[Len(fills)] = position /\ after[Len(fills')] = position'
       /\ \A n \in Len(fills) + 1 .. Len(fills') :
            /\ fills'[n].quantity > 0
            /\ after[n] = after[n - 1] + fills'[n].side * fills'[n].quantity

Spec == Init /\ [][Trade]_<<position, fills>>
=============================================================================
