------------------------------ MODULE ItchFeed ------------------------------
(***************************************************************************)
(* The binary depth feed of python/connectivity/itch_handler.py: ITCH      *)
(* messages in MoldUDP64 packets, their capture in a pcap file, and the    *)
(* ItchOrderBookTracker that rebuilds a stock's book from them.            *)
(*                                                                         *)
(* A raw packet is a sequence of units: its 20-byte header, then its       *)
(* messages.  A frame of a capture puts the 42 bytes of Ethernet, IP and   *)
(* UDP headers in front.  A cut packet or file keeps the units that are    *)
(* complete.  The exchange that publishes is not part of the repository;   *)
(* the network may lose, delay, repeat and cut packets.                    *)
(***************************************************************************)
EXTENDS Sums

CONSTANTS
  NewOrders,       \* the orders that enter: [side, price, shares, stock]
  MaxRef,          \* bound on order references: the exchange never reuses one
  MaxMessages,     \* bound on the messages the exchange publishes
  MaxBatch,        \* bound on the messages of a packet
  MaxDeliveries    \* bound on the packets the network delivers

ASSUME FeedAssumption ==
  /\ NewOrders \subseteq [side : {"B", "S"}, price : Nat, shares : Nat \ {0}, stock : STRING]
  /\ {MaxRef, MaxMessages, MaxBatch, MaxDeliveries} \subseteq Nat

VARIABLES
  live,            \* the exchange: reference -> order
  nextRef,         \* the exchange: the next order reference
  batch,           \* messages not yet in a packet
  packets,         \* the packets sent, in order
  inbox,           \* messages of a packet the consumer has not processed
  arrived,         \* the packets that arrived
  deliveries,      \* how often a packet arrived
  repeated,        \* a packet arrived again
  added,           \* history: the references whose add was processed
  exact,           \* so far every packet arrived once, whole and in order
  book             \* the tracker: [orders, bids, asks]

exchangeVars == <<live, nextRef, batch>>
feedVars == <<exchangeVars, packets, inbox, arrived, deliveries, repeated, added, exact, book>>

Refs == 1 .. MaxRef
Target == "target"

With(f, x, v) == [y \in DOMAIN f \cup {x} |-> IF y = x THEN v ELSE f[y]]
Without(f, x) == [y \in DOMAIN f \ {x} |-> f[y]]
Nothing == [x \in {} |-> x]
Smaller(m, n) == IF m < n THEN m ELSE n

-----------------------------------------------------------------------------
(* Messages and packets                                                    *)

\* encode_itch_add_order, _order_executed, _order_cancel and _order_delete
AddOrder(r, o) == [type |-> "A", ref |-> r, order |-> o]
OrderExecuted(r, n) == [type |-> "E", ref |-> r, shares |-> n]
OrderCancel(r, n) == [type |-> "X", ref |-> r, shares |-> n]
OrderDelete(r) == [type |-> "D", ref |-> r]
\* A message of a kind the parser does not know, such as a system event.
SystemEvent == [type |-> "S"]

\* encode_mold_packet
EncodeMoldPacket(seq, messages) ==
  << [sequence |-> seq, count |-> Len(messages)] >> \o messages

\* parse_mold_packet: the messages of a packet.  Without a whole header it
\* raises; a packet cut after the header loses its tail and says nothing.
ParseMoldPacket(raw) ==
  IF raw = << >> THEN << >>
  ELSE SubSeq(raw, 2, Smaller(1 + raw[1].count, Len(raw)))

NoMessage == [type |-> "None"]

\* parse_itch_message
ParseItchMessage(m) ==
  IF m.type \in {"A", "E", "X", "D"} THEN m ELSE NoMessage

\* write_synthetic_pcap and read_pcap_payloads, which drops frames with nothing
\* after the 42 header bytes
Headers == "ethernet, ip, udp"
WriteSyntheticPcap(payloads) ==
  [k \in DOMAIN payloads |-> << Headers >> \o payloads[k]]
ReadPcapPayloads(file) ==
  LET payloads[k \in 0 .. Len(file)] ==
        IF k = 0 THEN << >>
        ELSE IF Len(file[k]) > 1 THEN Append(payloads[k - 1], Tail(file[k]))
        ELSE payloads[k - 1]
  IN payloads[Len(file)]

-----------------------------------------------------------------------------
(* ItchOrderBookTracker                                                    *)

EmptyBook == [orders |-> Nothing, bids |-> Nothing, asks |-> Nothing]

Ladder(b, side) == IF side = "B" THEN b.bids ELSE b.asks
At(ladder, price) == IF price \in DOMAIN ladder THEN ladder[price] ELSE 0
Monus(m, n) == IF m > n THEN m - n ELSE 0

\* ladder[price] = size, and the level goes when it is empty
SetLevel(ladder, price, size) ==
  IF size = 0 THEN Without(ladder, price) ELSE With(ladder, price, size)

\* The book with these orders and, on one side, this ladder.
Changed(b, orders, side, ladder) ==
  [orders |-> orders, bids |-> IF side = "B" THEN ladder ELSE b.bids,
   asks |-> IF side = "B" THEN b.asks ELSE ladder]

\* Mutant: the shares replace what the level held.
AddReplacingLevel(b, m) ==
  Changed(b, With(b.orders, m.ref, m.order), m.order.side,
          With(Ladder(b, m.order.side), m.order.price, m.order.shares))

ProcessAdd(b, m) ==
  LET order == m.order
      ladder == Ladder(b, order.side)
  IN IF order.stock # Target THEN b
     ELSE Changed(b, With(b.orders, m.ref, order), order.side,
                  With(ladder, order.price, At(ladder, order.price) + order.shares))

\* The book with these orders and n shares less at the level of order.
Lowered(b, orders, order, n) ==
  LET ladder == Ladder(b, order.side)
  IN Changed(b, orders, order.side,
             SetLevel(ladder, order.price, Monus(At(ladder, order.price), n)))

\* Mutant: the order goes with its first execution.
ReduceAndForget(b, m) ==
  IF m.ref \notin DOMAIN b.orders THEN b
  ELSE Lowered(b, Without(b.orders, m.ref), b.orders[m.ref], b.orders[m.ref].shares)

\* Mutant: what is executed is taken for what remains.
ReduceToExecuted(b, m) ==
  LET order == b.orders[m.ref]
  IN IF m.ref \notin DOMAIN b.orders THEN b
     ELSE Lowered(b, IF order.shares <= m.shares THEN Without(b.orders, m.ref)
                     ELSE With(b.orders, m.ref, [order EXCEPT !.shares = m.shares]),
                  order, m.shares)

\* Executed and cancelled shares leave the ladder and the order.
ProcessReduce(b, m) ==
  LET order == b.orders[m.ref]
  IN IF m.ref \notin DOMAIN b.orders THEN b
     ELSE Lowered(b, IF order.shares <= m.shares THEN Without(b.orders, m.ref)
                     ELSE With(b.orders, m.ref, [order EXCEPT !.shares = @ - m.shares]),
                  order, m.shares)

ProcessDelete(b, m) ==
  IF m.ref \notin DOMAIN b.orders THEN b
  ELSE Lowered(b, Without(b.orders, m.ref), b.orders[m.ref], b.orders[m.ref].shares)

Process(b, m) ==
  CASE m.type = "A" -> ProcessAdd(b, m)
    [] m.type \in {"E", "X"} -> ProcessReduce(b, m)
    [] m.type = "D" -> ProcessDelete(b, m)
    [] OTHER -> b

\* The consumer's loop over the messages of a packet.
ProcessAll(b, messages) ==
  LET books[n \in 0 .. Len(messages)] ==
        IF n = 0 THEN b ELSE Process(books[n - 1], ParseItchMessage(messages[n]))
  IN books[Len(messages)]

\* The book of a consumer that reads whole packets into an empty tracker.
Replay(payloads) ==
  LET books[k \in 0 .. Len(payloads)] ==
        IF k = 0 THEN EmptyBook ELSE ProcessAll(books[k - 1], ParseMoldPacket(payloads[k]))
  IN books[Len(payloads)]

-----------------------------------------------------------------------------
(* The exchange, the network and the consumer                              *)

FeedInit ==
  /\ live = Nothing
  /\ nextRef = 1
  /\ batch = << >>
  /\ packets = << >>
  /\ inbox = << >>
  /\ arrived = {}
  /\ deliveries = 0
  /\ repeated = FALSE
  /\ added = {}
  /\ exact = TRUE
  /\ book = EmptyBook

Published == SumOf([k \in DOMAIN packets |-> Len(packets[k]) - 1]) + Len(batch)

Publish(m) ==
  /\ Len(batch) < MaxBatch
  /\ Published < MaxMessages
  /\ batch' = Append(batch, m)
  /\ UNCHANGED <<packets, inbox, arrived, deliveries, repeated, added, exact, book>>

Enter ==
  /\ nextRef \in Refs
  /\ \E order \in NewOrders :
       live' = With(live, nextRef, order) /\ Publish(AddOrder(nextRef, order))
  /\ nextRef' = nextRef + 1

\* An execution or a cancellation of some of an order's shares; both may take all.
Reduce ==
  /\ \E r \in DOMAIN live : \E n \in 1 .. live[r].shares :
       /\ live' = IF n = live[r].shares THEN Without(live, r)
                  ELSE [live EXCEPT ![r].shares = @ - n]
       /\ Publish(OrderExecuted(r, n)) \/ Publish(OrderCancel(r, n))
  /\ UNCHANGED nextRef

Leave ==
  /\ \E r \in DOMAIN live : live' = Without(live, r) /\ Publish(OrderDelete(r))
  /\ UNCHANGED nextRef

Announce == Publish(SystemEvent) /\ UNCHANGED <<live, nextRef>>

SendPacket ==
  /\ batch # << >>
  /\ packets' = Append(packets, EncodeMoldPacket(1 + Published - Len(batch), batch))
  /\ batch' = << >>
  /\ UNCHANGED <<live, nextRef, inbox, arrived, deliveries, repeated, added, exact, book>>

\* A packet arrives, any time after it was sent, perhaps again, with only its
\* first units; nothing checks its sequence number.  A packet may never arrive.
Arrive ==
  /\ inbox = << >>
  /\ deliveries < MaxDeliveries
  /\ deliveries' = deliveries + 1
  /\ \E k \in DOMAIN packets : \E units \in 0 .. Len(packets[k]) :
       /\ inbox' = ParseMoldPacket(SubSeq(packets[k], 1, units))
       /\ arrived' = arrived \cup {k}
       /\ repeated' = (repeated \/ k \in arrived)
       /\ exact' = (exact /\ k = deliveries' /\ units = Len(packets[k]))
  /\ UNCHANGED <<exchangeVars, packets, added, book>>

\* The consumer's loop: tracker.process(parse_itch_message(raw))
Consume ==
  /\ inbox # << >>
  /\ book' = Process(book, ParseItchMessage(Head(inbox)))
  /\ inbox' = Tail(inbox)
  /\ added' = added \cup {m.ref : m \in {n \in {Head(inbox)} : n.type = "A"}}
  /\ UNCHANGED <<exchangeVars, packets, arrived, deliveries, repeated, exact>>

FeedNext == Enter \/ Reduce \/ Leave \/ Announce \/ SendPacket \/ Arrive \/ Consume

FeedSpec == FeedInit /\ [][FeedNext]_feedVars

-----------------------------------------------------------------------------
(* Properties                                                              *)

OfTarget(orders) ==
  [r \in {r \in DOMAIN orders : orders[r].stock = Target} |-> orders[r]]

AbstractBook ==
  INSTANCE OrderBook WITH live <- book.orders, bids <- book.bids,
                          asks <- book.asks, vouched <- ~repeated

\* Until a packet is repeated the tracker's book is an order book whose ladders
\* are the depth of its orders, although packets are lost, late or cut (process).
TracksABook == AbstractBook!Spec

\* A consumer that got every packet once, whole and in order has the exchange's
\* book of its stock once nothing is left on the way, and so has one that replays a
\* capture of the packets (process, write_synthetic_pcap, read_pcap_payloads).
ExactFeedGivesExactBook ==
  batch = << >> =>
    /\ exact /\ inbox = << >> /\ deliveries = Len(packets) => book.orders = OfTarget(live)
    /\ Replay(ReadPcapPayloads(WriteSyntheticPcap(packets))).orders = OfTarget(live)

\* Of an order whose add the tracker processed it never shows too little while the order
\* lives: lost, late and cut packets may leave it with shares that are gone, but what it
\* takes off really went (process).  An order whose add was lost it does not show at all,
\* and nothing in the tracker tells its reader so.
AddedOrdersKeepTheirShares ==
  ~repeated =>
    \A r \in added \cap DOMAIN OfTarget(live) :
      r \in DOMAIN book.orders /\ book.orders[r].shares >= live[r].shares

=============================================================================
