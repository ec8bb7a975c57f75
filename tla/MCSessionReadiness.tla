------------------------ MODULE MCSessionReadiness --------------------------
(* A small instance of SessionReadiness for TLC.                           *)
EXTENDS SessionReadiness

MCIntents ==
  {[corr |-> 1, identified |-> TRUE, side |-> "Buy", price |-> 1,
    quantity |-> 1, created |-> 1]}
=============================================================================
