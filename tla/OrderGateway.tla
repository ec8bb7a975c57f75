---------------------------- MODULE OrderGateway ----------------------------
(***************************************************************************)
(* SimulatedOrderGateway of interfaces/venue/order_gateway.py, and a       *)
(* caller that repeats requests whose answer it lost.                      *)
(***************************************************************************)
EXTENDS Integers

CONSTANTS
  OrderIds,
  Requests,    \* [id, quantity, live]
  MaxCalls     \* bound on the calls

ASSUME GatewayAssumption == \A request \in Requests : request.quantity \in Int

VARIABLES
  gatewayOrders,  \* _orders: OrderIds -> [state, quantity]
  closed,         \* _closed
  answers,        \* OrderIds -> the answers the caller got, without their reasons
  calls           \* how many calls were made

gatewayVars == <<gatewayOrders, closed, answers, calls>>

NoOrder == [state |-> "none", quantity |-> 0]
Ack(s, q) == [state |-> s, quantity |-> q]

GatewayInit ==
  /\ gatewayOrders = [id \in OrderIds |-> NoOrder]
  /\ closed = FALSE
  /\ answers = [id \in OrderIds |-> {}]
  /\ calls = 0

\* A call is answered, or its answer is lost on the way back to the caller.
Answered(id, ack) ==
  /\ calls < MaxCalls /\ ~closed
  /\ calls' = calls + 1
  /\ \/ answers' = [answers EXCEPT ![id] = @ \cup {ack}]
     \/ answers' = answers
  /\ closed' = closed

\* validate refuses, among others, every request for live execution
Valid(request) == request.id \in OrderIds /\ request.quantity > 0 /\ ~request.live

\* Mutant: the answer to a repeated request confirms it.
SubmitTwice(request) ==
  /\ Valid(request)
  /\ Answered(request.id, Ack("accepted", request.quantity))
  /\ IF gatewayOrders[request.id] # NoOrder THEN UNCHANGED gatewayOrders
     ELSE gatewayOrders' = [gatewayOrders EXCEPT ![request.id] = Ack("accepted", request.quantity)]

Submit(request) ==
  /\ Valid(request)
  /\ IF gatewayOrders[request.id] # NoOrder
     THEN Answered(request.id, Ack("rejected", 0)) /\ UNCHANGED gatewayOrders
     ELSE /\ Answered(request.id, Ack("accepted", request.quantity))
          /\ gatewayOrders' = [gatewayOrders EXCEPT ![request.id] = Ack("accepted", request.quantity)]

CancelOrder(id) ==
  IF gatewayOrders[id] = NoOrder
  THEN Answered(id, Ack("unknown", 0)) /\ UNCHANGED gatewayOrders
  ELSE /\ Answered(id, Ack("canceled", 0))
       /\ gatewayOrders' = [gatewayOrders EXCEPT ![id] = Ack("canceled", 0)]

Close ==
  /\ ~closed /\ closed' = TRUE
  /\ UNCHANGED <<gatewayOrders, answers, calls>>

GatewayNext ==
  \/ \E request \in Requests : Submit(request)
  \/ \E id \in OrderIds : CancelOrder(id)
  \/ Close

GatewaySpec == GatewayInit /\ [][GatewayNext]_gatewayVars

-----------------------------------------------------------------------------
(* Properties                                                              *)

GatewayClientOrders ==
  INSTANCE ClientOrders WITH
    Ids <- OrderIds, status <- [id \in OrderIds |-> gatewayOrders[id].state]

\* However often a caller repeats a request, an order is accepted once and a canceled
\* one stays canceled (submit, cancel).
GatewayKeepsOrders == GatewayClientOrders!Spec

\* A caller that repeats a request with another quantity is never told of two accepted
\* quantities, and one that has its cancel confirmed knows the end of the story.
AnswersAgree ==
  \A id \in OrderIds :
    /\ \A a, b \in answers[id] : a.state = "accepted" /\ b.state = "accepted" => a = b
    /\ Ack("canceled", 0) \in answers[id] => gatewayOrders[id] = Ack("canceled", 0)
    /\ \A a \in answers[id] :
         a.state = "accepted" => gatewayOrders[id] \in {a, Ack("canceled", 0)}
=============================================================================
