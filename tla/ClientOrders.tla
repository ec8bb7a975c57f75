---------------------------- MODULE ClientOrders ----------------------------
(***************************************************************************)
(* What a venue promises of a client order id: it is accepted at most      *)
(* once, canceled only after that, and never comes back.                   *)
(***************************************************************************)
CONSTANT Ids
VARIABLE status   \* Ids -> "none", "accepted" or "canceled"

Init == status = [id \in Ids |-> "none"]

Accept(id) == status[id] = "none" /\ status' = [status EXCEPT ![id] = "accepted"]
Cancel(id) == status[id] = "accepted" /\ status' = [status EXCEPT ![id] = "canceled"]

Next == \E id \in Ids : Accept(id) \/ Cancel(id)

Spec == Init /\ [][Next]_status
=============================================================================
