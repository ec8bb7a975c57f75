--------------------------- MODULE Reconciliation ---------------------------
(***************************************************************************)
(* python/reconciliation/reconcile.py: the local records of the working    *)
(* orders are compared with the report of the venue, and anything that is  *)
(* not matched makes a failover ambiguous.                                 *)
(***************************************************************************)
EXTENDS Integers, Sequences

CONSTANTS
  Records,      \* [id, executed, price]; an id that is not positive is invalid
  MaxRecords    \* bound on the records of each side

ASSUME RecordsAssumption == Records \subseteq [id : Int, executed : Int, price : Int]

VARIABLES local, venue

reconcileVars == <<local, venue>>

Ids(records) == {records[n].id : n \in DOMAIN records}
First(records, id) ==
  records[CHOOSE n \in DOMAIN records :
            records[n].id = id /\ \A m \in 1 .. n - 1 : records[m].id # id]

\* Mutant: a later record of an order replaces the first without a finding.
IndexKeepsLast(records) ==
  [byId |-> [id \in {i \in Ids(records) : i > 0} |->
               records[CHOOSE n \in DOMAIN records :
                         records[n].id = id
                           /\ \A m \in n + 1 .. Len(records) : records[m].id # id]],
   findings |-> {[id |-> i, state |-> "invalid_record"] : i \in {j \in Ids(records) : j <= 0}}]

\* _index: the first record of every order, and a finding for every other one
Index(records) ==
  [byId |-> [id \in {i \in Ids(records) : i > 0} |-> First(records, id)],
   findings |->
     {[id |-> i, state |-> "invalid_record"] : i \in {j \in Ids(records) : j <= 0}}
       \cup {[id |-> records[n].id, state |-> "duplicate_record"] :
               n \in {k \in DOMAIN records :
                       records[k].id > 0 /\ \E m \in 1 .. k - 1 : records[m].id = records[k].id}}]

StateOf(order, reports) ==
  CASE order.id \notin DOMAIN reports -> "missing_venue"
    [] reports[order.id].executed < order.executed -> "quantity_mismatch"
    [] order.price # 0 /\ reports[order.id].price # order.price -> "price_mismatch"
    [] OTHER -> "matched"

\* compare
Compare(locals, reports) ==
  LET l == Index(locals)
      v == Index(reports)
  IN l.findings \cup v.findings
       \cup {[id |-> i, state |-> StateOf(l.byId[i], v.byId)] : i \in DOMAIN l.byId}
       \cup {[id |-> i, state |-> "missing_local"] : i \in DOMAIN v.byId \ DOMAIN l.byId}

Ambiguous == \E f \in Compare(local, venue) : f.state # "matched"

ReconcileInit == local = << >> /\ venue = << >>
AddLocal(r) == Len(local) < MaxRecords /\ local' = Append(local, r) /\ venue' = venue
AddVenue(r) == Len(venue) < MaxRecords /\ venue' = Append(venue, r) /\ local' = local
ReconcileNext == \E r \in Records : AddLocal(r) \/ AddVenue(r)
ReconcileSpec == ReconcileInit /\ [][ReconcileNext]_reconcileVars

-----------------------------------------------------------------------------
(* Properties                                                              *)

\* The comparison is unambiguous exactly when the two sides pair up one to one, and in
\* every pair the venue executed no less than the local record says, at its price: no
\* order of either side, however often it is listed, goes unmentioned (compare).
UnambiguousMeansPaired ==
  ~Ambiguous <=>
    \E pairing \in [DOMAIN local -> DOMAIN venue] :
      /\ Len(local) = Len(venue)
      /\ \A n \in DOMAIN local :
           LET l == local[n]
               v == venue[pairing[n]]
           IN /\ l.id = v.id /\ l.id > 0 /\ v.executed >= l.executed
              /\ l.price \in {0, v.price}
      /\ \A m, n \in DOMAIN local : m # n => local[m].id # local[n].id
=============================================================================
