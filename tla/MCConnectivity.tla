--------------------------- MODULE MCConnectivity ---------------------------
(***************************************************************************)
(* The market data feed, the venue gateway and session, the leases and the *)
(* reconciliation.  They share no state, so a behaviour exercises one of   *)
(* them: part says which, and the others stay in their initial state.      *)
(***************************************************************************)
EXTENDS ItchFeed, LeaseStore, LeaseFencer, Reconciliation, OrderGateway, VenueSession

VARIABLE part

connectivityVars == <<feedVars, leaseVars, fenceVars, reconcileVars, gatewayVars, sessionVars,
                      part>>

ConnectivityInit ==
  /\ FeedInit /\ LeaseInit /\ FenceInit /\ ReconcileInit /\ GatewayInit /\ SessionInit
  /\ part \in {"feed", "lease", "fencer", "reconcile", "gateway", "session"}

ConnectivityNext ==
  /\ \/ /\ part = "feed" /\ FeedNext
        /\ UNCHANGED <<leaseVars, fenceVars, reconcileVars, gatewayVars, sessionVars>>
     \/ /\ part = "lease" /\ LeaseNext
        /\ UNCHANGED <<feedVars, fenceVars, reconcileVars, gatewayVars, sessionVars>>
     \/ /\ part = "fencer" /\ FenceNext
        /\ UNCHANGED <<feedVars, leaseVars, reconcileVars, gatewayVars, sessionVars>>
     \/ /\ part = "reconcile" /\ ReconcileNext
        /\ UNCHANGED <<feedVars, leaseVars, fenceVars, gatewayVars, sessionVars>>
     \/ /\ part = "gateway" /\ GatewayNext
        /\ UNCHANGED <<feedVars, leaseVars, fenceVars, reconcileVars, sessionVars>>
     \/ /\ part = "session" /\ SessionNext
        /\ UNCHANGED <<feedVars, leaseVars, fenceVars, reconcileVars, gatewayVars>>
  /\ UNCHANGED part

ConnectivitySpec == ConnectivityInit /\ [][ConnectivityNext]_connectivityVars

Order(side, price, shares, stock) ==
  [side |-> side, price |-> price, shares |-> shares, stock |-> stock]
MCNewOrders ==
  {Order("B", 10, 3, Target), Order("S", 11, 1, Target), Order("B", 10, 1, "other")}
MCRecords == [id : {0, 1, 2}, executed : {0, 1}, price : {0, 5, 6}]
MCRequests == [id : {0, 1, 2}, quantity : {0, 1, 2}, live : BOOLEAN]
=============================================================================
