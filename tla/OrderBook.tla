----------------------------- MODULE OrderBook ------------------------------
(***************************************************************************)
(* What a reader of ItchOrderBookTracker relies on: its orders are a book  *)
(* that only changes by an order entering, shrinking or leaving, and the   *)
(* two ladders are the depth of exactly those orders.  The promise is made *)
(* as long as the book is vouched for.                                     *)
(***************************************************************************)
EXTENDS Sums

CONSTANT MaxRef    \* bound on order references

VARIABLES
  live,            \* order reference -> [side, price, shares, stock]
  bids, asks,      \* price -> shares
  vouched

vars == <<live, bids, asks, vouched>>

\* The shares of the orders of one side, by price.
Depth(side) ==
  LET refs == {r \in DOMAIN live : live[r].side = side}
  IN [p \in {live[r].price : r \in refs} |->
        SumOf([r \in 1 .. MaxRef |->
                 IF r \in refs /\ live[r].price = p THEN live[r].shares ELSE 0])]

Without(r) == [s \in DOMAIN live \ {r} |-> live[s]]
Nothing == [x \in {} |-> x]

Init ==
  /\ live = Nothing
  /\ bids = Nothing
  /\ asks = Nothing
  /\ vouched = TRUE

Enter ==
  \E r \in DOMAIN live' \ DOMAIN live : Without(r)' = live

Shrink ==
  /\ DOMAIN live' = DOMAIN live
  /\ \E r \in DOMAIN live : \E n \in 1 .. live[r].shares - 1 :
       live' = [live EXCEPT ![r].shares = n]

Leave ==
  \E r \in DOMAIN live : live' = Without(r)

Next ==
  \/ /\ vouched
     /\ Enter \/ Shrink \/ Leave
     /\ bids' = Depth("B")'
     /\ asks' = Depth("S")'
     /\ UNCHANGED vouched
  \/ ~vouched'

Spec == Init /\ [][Next]_vars

=============================================================================
