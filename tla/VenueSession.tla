---------------------------- MODULE VenueSession ----------------------------
(***************************************************************************)
(* VenueSession of scripts/operations/production_gate_simulations.py and   *)
(* its client: numbered answers, a throttle, and reconnection at the       *)
(* number the client has reached.  Answers may be lost, repeated or        *)
(* overtaken on the way; a disconnection loses those under way.            *)
(***************************************************************************)
EXTENDS Integers, Sequences

CONSTANTS
  ClientIds,
  Throttle,        \* throttle_per_second
  MaxSends,        \* bound on the requests of one connection
  MaxConnections   \* bound on the connections

VARIABLES
  sequence, connected, window,   \* messages_in_window
  venueOrders,     \* orders: ClientIds -> "none", "accepted" or "canceled"
  sentHere,        \* the answers of this connection, in the order they were sent
  wire,            \* the answers that may still arrive
  expected,        \* the number of the last answer the client took
  taken,           \* the answers of this connection that the client took
  believed,        \* ClientIds -> the last status the client was told
  connections

sessionVars == <<sequence, connected, window, venueOrders, sentHere, wire, expected, taken,
                 believed, connections>>

SessionInit ==
  /\ sequence = 0 /\ connected = FALSE /\ window = 0
  /\ venueOrders = [id \in ClientIds |-> "none"]
  /\ sentHere = << >> /\ wire = {} /\ expected = 0 /\ taken = << >>
  /\ believed = venueOrders
  /\ connections = 0

\* connect, from number 0, or reconnect at a number the client names: the session takes
\* it for its own.  A client that connects plainly counts from 0 too.
Connect(number) ==
  /\ connections < MaxConnections
  /\ connected' = TRUE /\ connections' = connections + 1
  /\ sequence' = number /\ expected' = number /\ window' = 0
  /\ sentHere' = << >> /\ taken' = << >> /\ wire' = {}
  /\ UNCHANGED <<venueOrders, believed>>

Disconnect ==
  /\ connected
  /\ connected' = FALSE /\ wire' = {}
  /\ UNCHANGED <<sequence, window, venueOrders, sentHere, expected, taken, believed, connections>>

\* The simulations reset the count between their steps, for a second that has passed.
WindowPasses ==
  /\ connected /\ window > 0
  /\ window' = 0
  /\ UNCHANGED <<sequence, connected, venueOrders, sentHere, wire, expected, taken, believed,
                 connections>>

\* Mutant: the cancellation of an unknown order is confirmed.
OutcomeCancelsUnknown(id, action) ==
  CASE action = "new" ->
         IF venueOrders[id] # "none" THEN <<"DUPLICATE_REJECT", venueOrders[id]>>
         ELSE <<"ACK", "accepted">>
    [] action = "cancel" ->
         <<"CANCELLED", IF venueOrders[id] = "accepted" THEN "canceled" ELSE venueOrders[id]>>
    [] OTHER -> <<"REPLACE_REJECT", venueOrders[id]>>

\* What send answers below the throttle, and what becomes of the order.  A heartbeat and
\* a drop copy are answered and change nothing: "other".
Actions == {"new", "cancel", "replace", "other"}

Outcome(id, action) ==
  CASE action = "new" ->
         IF venueOrders[id] # "none" THEN <<"DUPLICATE_REJECT", venueOrders[id]>>
         ELSE <<"ACK", "accepted">>
    [] action = "cancel" ->
         IF venueOrders[id] # "accepted" THEN <<"CANCEL_REJECT", venueOrders[id]>>
         ELSE <<"CANCELLED", "canceled">>
    [] action = "replace" ->
         IF venueOrders[id] # "accepted" THEN <<"REPLACE_REJECT", venueOrders[id]>>
         ELSE <<"REPLACED", "accepted">>
    [] action = "other" -> <<"NO_CHANGE", venueOrders[id]>>

\* Mutant: the throttle refuses a request that was already carried out.
SendThrottlesLate(id, action) ==
  /\ connected /\ Len(sentHere) < MaxSends
  /\ LET message == [number |-> sequence + 1, id |-> id,
                    kind |-> IF window >= Throttle THEN "THROTTLE_REJECT"
                             ELSE Outcome(id, action)[1]]
     IN /\ venueOrders' = [venueOrders EXCEPT ![id] = Outcome(id, action)[2]]
        /\ window' = IF window >= Throttle THEN window ELSE window + 1
        /\ sequence' = sequence + 1
        /\ sentHere' = Append(sentHere, message)
        /\ wire' = wire \cup {message}
  /\ UNCHANGED <<connected, expected, taken, believed, connections>>

Send(id, action) ==
  /\ connected /\ Len(sentHere) < MaxSends
  /\ LET outcome == IF window >= Throttle THEN <<"THROTTLE_REJECT", venueOrders[id]>>
                    ELSE Outcome(id, action)
         message == [number |-> sequence + 1, kind |-> outcome[1], id |-> id]
     IN /\ venueOrders' = [venueOrders EXCEPT ![id] = outcome[2]]
        /\ window' = IF window >= Throttle THEN window ELSE window + 1
        /\ sequence' = sequence + 1
        /\ sentHere' = Append(sentHere, message)
        /\ wire' = wire \cup {message}
  /\ UNCHANGED <<connected, expected, taken, believed, connections>>

InSequence(message) == message.number = expected + 1

\* receive, which raises venue_sequence_gap for any other number; the answer stays on the
\* wire, for a network that delivers it again
Receive(message) ==
  /\ connected /\ message \in wire
  /\ InSequence(message)
  /\ expected' = message.number
  /\ taken' = Append(taken, message)
  /\ believed' = [believed EXCEPT ![message.id] =
       CASE message.kind \in {"ACK", "REPLACED"} -> "accepted"
         [] message.kind = "CANCELLED" -> "canceled"
         [] OTHER -> @]
  /\ UNCHANGED <<sequence, connected, window, venueOrders, sentHere, wire, connections>>

Lose(message) ==
  /\ message \in wire
  /\ wire' = wire \ {message}
  /\ UNCHANGED <<sequence, connected, window, venueOrders, sentHere, expected, taken, believed,
                 connections>>

SessionNext ==
  \/ Connect(0) \/ Connect(expected) \/ Disconnect \/ WindowPasses
  \/ \E id \in ClientIds, action \in Actions : Send(id, action)
  \/ \E message \in wire : Receive(message) \/ Lose(message)

SessionSpec == SessionInit /\ [][SessionNext]_sessionVars

-----------------------------------------------------------------------------
(* Properties                                                              *)

SessionClientOrders ==
  INSTANCE ClientOrders WITH Ids <- ClientIds, status <- venueOrders

\* Reconnections, repeated requests and the throttle included, an order is accepted at
\* most once and a canceled one is never entered again (send).
SessionKeepsOrders == SessionClientOrders!Spec

\* What the client was last told of an order is not ahead of the venue, also when the
\* answers in between were lost with a connection and their numbers used again.
BeliefIsNotAhead ==
  \A id \in ClientIds :
    /\ believed[id] = "canceled" => venueOrders[id] = "canceled"
    /\ believed[id] = "accepted" => venueOrders[id] # "none"

\* A client that has taken every answer of its first connection knows the status of
\* every order; after a reconnection it may not, for lost answers are not sent again.
CaughtUpClientKnows ==
  connections = 1 /\ taken = sentHere => believed = venueOrders
=============================================================================
