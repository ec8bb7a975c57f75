-------------------------------- MODULE Sums --------------------------------
(* The sum of a list of numbers, as a running total.                       *)
EXTENDS Integers, Sequences

SumOf(list) ==
  LET total[n \in 0 .. Len(list)] == IF n = 0 THEN 0 ELSE total[n - 1] + list[n]
  IN total[Len(list)]
=============================================================================
