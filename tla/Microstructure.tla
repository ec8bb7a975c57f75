--------------------------- MODULE Microstructure ---------------------------
(***************************************************************************)
(* MicrostructureEngine of python/backtest/engine.py: a ladder of depth    *)
(* that market orders walk, and limit orders that rest in a queue until a  *)
(* trade or a quote fills them.                                            *)
(*                                                                         *)
(* run_simulation sorts its events: time never goes back, and at one time  *)
(* quotes come before trades and trades before signals.  Fees, slippage    *)
(* and adverse selection are left out; current_time_ns is never read.      *)
(***************************************************************************)
EXTENDS Sums

CONSTANTS
  Quotes,        \* [bid, ask, bids, asks]: the quote's own prices, and its two ladders of
                 \* [price, size] as update_from_quote leaves them: the best level first,
                 \* one level at the quote's own price where it brings no list
  Trades,        \* [price, quantity, side], the side of the aggressor
  Signals,       \* [type, side, quantity, limit, latency]; limit 0 and latency 0 are none
  MaxPosition,
  Latency,       \* of the configuration: wire and engine
  KeepTenths,    \* 10 * (1 - queue_cancellation_rate)
  MaxTime,       \* bound on the timestamps
  MaxEvents      \* bound on the events

Levels == [price : Int, size : Nat]

ASSUME MicrostructureAssumption ==
  /\ Quotes \subseteq [bid : Int, ask : Int, bids : Seq(Levels), asks : Seq(Levels)]
  /\ Trades \subseteq [price : Int, quantity : Int, side : {-1, 1}]
  /\ Signals \subseteq [type : {"market", "limit", "post_only"}, side : {-1, 1},
                       quantity : Nat \ {0}, limit : Int, latency : Int]
  /\ MaxPosition \in Nat \ {0} /\ Latency \in Int /\ KeepTenths \in 0 .. 10

VARIABLES
  position, fills,
  resting,       \* resting_orders
  bids, asks,    \* L2OrderBook
  shown,         \* the last quote, and how many fills there were at it
  now,           \* timestamp and kind of the last event
  events         \* how many events were processed

engineVars == <<position, fills, resting, bids, asks, shown, now, events>>

EngineInit ==
  /\ position = 0 /\ fills = << >> /\ resting = << >>
  /\ bids = << >> /\ asks = << >>
  /\ shown = [bids |-> << >>, asks |-> << >>, at |-> 0]
  /\ now = [time |-> 1, kind |-> 0]
  /\ events = 0

\* The order of run_simulation: by timestamp, then by kind.
Event(time, kind) ==
  /\ events < MaxEvents
  /\ time > now.time \/ kind >= now.kind
  /\ now' = [time |-> time, kind |-> kind]
  /\ events' = events + 1

Within(n) == -MaxPosition <= n /\ n <= MaxPosition
Smaller(m, n) == IF m < n THEN m ELSE n
BestPrice(ladder) == IF ladder = << >> THEN 0 ELSE ladder[1].price

\* A loop under way: the position, the fills, the levels or orders that are left behind,
\* and, of an order that walks the book, what remains and whether the limit stopped the walk.
Start(remaining) ==
  [position |-> position, fills |-> fills, left |-> << >>,
   remaining |-> remaining, walk |-> "on"]

Fill(o, time, price, quantity, by) ==
  [order |-> o.order, time |-> time, price |-> price, quantity |-> quantity,
   side |-> o.side, by |-> by]

\* Mutant: the limit is tested on the position before the fill.
BookLate(s, fill) ==
  IF ~Within(s.position) THEN s
  ELSE [s EXCEPT !.position = @ + fill.side * fill.quantity, !.fills = Append(@, fill)]

\* Every fill is tested against the position limit on its own, and is dropped whole.
Book(s, fill) ==
  IF ~Within(s.position + fill.side * fill.quantity) THEN s
  ELSE [s EXCEPT !.position = @ + fill.side * fill.quantity, !.fills = Append(@, fill)]

Booked(s, fill) == Book(s, fill).fills # s.fills
Keep(s, x) == [s EXCEPT !.left = Append(@, x)]

-----------------------------------------------------------------------------
(* Resting orders                                                          *)

Arrived(o, time) == o.order.arrival <= time

\* int(queue_ahead * (1.0 - queue_cancellation_rate))
DecayedQueue(queue) == (queue * KeepTenths) \div 10

\* Mutant: a filled part stays on the order.
KeepRemaining(o, quantity) == o

ReduceOrder(o, quantity) == [o EXCEPT !.remaining = @ - quantity]

\* Mutant: a trade fills only an order that it fills whole.
MatchWholeOrders(s, o, t) ==
  LET matches == o.side = -t.side /\ o.side * (o.order.price - t.price) >= 0
      fill == Fill(o, now'.time, o.order.price, o.remaining, "maker")
      whole == o.remaining + DecayedQueue(o.queue) <= t.quantity
  IN IF Arrived(o, now'.time) /\ matches /\ whole /\ Booked(s, fill) THEN Book(s, fill)
     ELSE Keep(s, o)

\* One order of the loop of on_market_trade: the trade first eats the queue that is
\* left ahead; what it has beyond fills the order, every order from the same trade.
MatchTrade(s, o, t) ==
  LET matches == o.side = -t.side /\ o.side * (o.order.price - t.price) >= 0
      queue == DecayedQueue(o.queue)
      fill == Fill(o, now'.time, o.order.price, Smaller(o.remaining, t.quantity - queue), "maker")
  IN IF ~Arrived(o, now'.time) \/ ~matches THEN Keep(s, o)
     ELSE IF t.quantity <= queue THEN Keep(s, [o EXCEPT !.queue = queue - t.quantity])
     ELSE IF ~Booked(s, fill) THEN Keep(s, o)
     ELSE IF o.remaining = fill.quantity THEN Book(s, fill)
     ELSE Keep(Book(s, fill), ReduceOrder(o, fill.quantity))

\* steps[n]: after the first n orders.
MatchTrades(t) ==
  LET steps[n \in 0 .. Len(resting)] ==
        IF n = 0 THEN Start(0) ELSE MatchTrade(steps[n - 1], resting[n], t)
  IN steps[Len(resting)]

OnMarketTrade(t, time) ==
  /\ Event(time, 1)
  /\ LET s == MatchTrades(t)
     IN position' = s.position /\ fills' = s.fills /\ resting' = s.left
  /\ UNCHANGED <<bids, asks, shown>>

FarPrice(o, q) == IF o.side > 0 THEN q.ask ELSE q.bid

\* One order of _evaluate_resting_orders: a quote whose own price is at or through the
\* limit fills all that remains, whatever is ahead in the queue or in the ladder.
MatchQuote(s, o, q) ==
  LET crosses == o.side * (o.order.price - FarPrice(o, q)) >= 0
      fill == Fill(o, now'.time, FarPrice(o, q), o.remaining, "maker")
  IN IF Arrived(o, now'.time) /\ crosses /\ Booked(s, fill)
     THEN Book(s, fill) ELSE Keep(s, o)

MatchQuotes(q) ==
  LET steps[n \in 0 .. Len(resting)] ==
        IF n = 0 THEN Start(0) ELSE MatchQuote(steps[n - 1], resting[n], q)
  IN steps[Len(resting)]

OnQuote(q, time) ==
  /\ Event(time, 0)
  /\ q.bid > 0 /\ q.ask >= q.bid
  /\ bids' = q.bids /\ asks' = q.asks
  /\ LET s == MatchQuotes(q)
     IN /\ position' = s.position /\ fills' = s.fills /\ resting' = s.left
        /\ shown' = [bids |-> q.bids, asks |-> q.asks, at |-> Len(s.fills)]

-----------------------------------------------------------------------------
(* Signals                                                                 *)

\* Mutant: a level that the position limit refuses is passed over.
WalkPastLimit(s, level, o) ==
  LET fill == Fill(o, o.order.arrival, level.price, Smaller(s.remaining, level.size), "taker")
  IN IF s.remaining <= 0 \/ level.size <= 0 \/ ~Booked(s, fill) THEN Keep(s, level)
     ELSE Keep([Book(s, fill) EXCEPT !.remaining = @ - fill.quantity],
                [level EXCEPT !.size = @ - fill.quantity])

\* One level of the walk of _execute_aggressive, which has no limit price and stops
\* at the first level that the position limit refuses.
WalkLevel(s, level, o) ==
  LET fill == Fill(o, o.order.arrival, level.price, Smaller(s.remaining, level.size), "taker")
  IN IF s.walk = "over" \/ s.remaining <= 0 \/ level.size <= 0 THEN Keep(s, level)
     ELSE IF ~Booked(s, fill) THEN Keep([s EXCEPT !.walk = "over"], level)
     ELSE Keep([Book(s, fill) EXCEPT !.remaining = @ - fill.quantity],
                [level EXCEPT !.size = @ - fill.quantity])

Walk(ladder, o) ==
  LET steps[n \in 0 .. Len(ladder)] ==
        IF n = 0 THEN Start(o.remaining) ELSE WalkLevel(steps[n - 1], ladder[n], o)
  IN steps[Len(ladder)]

ExecuteAggressive(o) ==
  LET s == Walk(IF o.side > 0 THEN asks ELSE bids, o)
  IN /\ position' = s.position /\ fills' = s.fills
     /\ IF o.side > 0 THEN asks' = s.left /\ bids' = bids ELSE bids' = s.left /\ asks' = asks
     /\ UNCHANGED <<resting, shown>>

ArrivalTime(signal, time) == time + (IF signal.latency = 0 THEN Latency ELSE signal.latency)

\* The order a signal makes; the size shown at its price is ahead of it.
OrderOf(signal, time) ==
  LET own == IF signal.side > 0 THEN bids ELSE asks
      price == IF signal.limit = 0 THEN BestPrice(own) ELSE signal.limit
      level == {n \in DOMAIN own : own[n].price = price}
  IN [order |-> [id |-> events + 1, arrival |-> ArrivalTime(signal, time), price |-> price,
                 quantity |-> signal.quantity],
      side |-> signal.side, remaining |-> signal.quantity,
      queue |-> IF level = {} THEN 0
                ELSE own[CHOOSE n \in level : \A m \in level : n <= m].size]

Crosses(o) ==
  LET far == BestPrice(IF o.side > 0 THEN asks ELSE bids)
  IN far > 0 /\ o.side * (o.order.price - far) >= 0

\* submit_order and _place_limit
SubmitOrder(signal, time) ==
  /\ Event(time, 2)
  /\ LET o == OrderOf(signal, time)
     IN \/ /\ signal.type = "market" \/ (signal.type = "limit" /\ Crosses(o))
           /\ ExecuteAggressive(o)
        \/ /\ signal.type \in {"limit", "post_only"} /\ ~Crosses(o)
           /\ resting' = Append(resting, o)
           /\ UNCHANGED <<position, fills, bids, asks, shown>>
        \/ /\ signal.type = "post_only" /\ Crosses(o)
           /\ UNCHANGED <<position, fills, resting, bids, asks, shown>>

EngineNext ==
  \E time \in now.time .. MaxTime :
    \/ \E q \in Quotes : OnQuote(q, time)
    \/ \E t \in Trades : OnMarketTrade(t, time)
    \/ \E signal \in Signals : SubmitOrder(signal, time)

EngineSpec == EngineInit /\ [][EngineNext]_engineVars

-----------------------------------------------------------------------------
(* Properties                                                              *)

EngineLedger == INSTANCE TradeLedger

\* However many fills one event makes, across resting orders and levels, the position
\* is their sum and no single one passes max_position.
EngineKeepsLedger == EngineLedger!Spec

\* What the fills to the order add up to.
FilledIn(trades, order) ==
  SumOf([n \in DOMAIN trades |-> IF trades[n].order = order THEN trades[n].quantity ELSE 0])
FilledOf(order) == FilledIn(fills, order)

\* What the taking fills at one price, after the first from ones, add up to.
TakenIn(trades, from, side, price) ==
  SumOf([n \in DOMAIN trades |->
           IF n > from /\ trades[n].by = "taker" /\ trades[n].side = side /\ trades[n].price = price
           THEN trades[n].quantity ELSE 0])
SizeAt(ladder, price) ==
  SumOf([n \in DOMAIN ladder |-> IF ladder[n].price = price THEN ladder[n].size ELSE 0])

\* Between two quotes market orders together take no more than the quote showed: what
\* is gone at a price is exactly what was filled there.  No order, also one that the
\* position limit stopped, takes from a level while a better one still shows size
\* (_execute_aggressive).
DepthIsTakenBestFirst ==
  LET prices(list) == {list[n].price : n \in DOMAIN list}
      sound(ladder, was, side) ==
        /\ \A n \in DOMAIN ladder : 0 <= ladder[n].size /\ ladder[n].size <= was[n].size
        /\ \A price \in prices(was) \cup prices(fills) :
             SizeAt(ladder, price) + TakenIn(fills, shown.at, side, price) = SizeAt(was, price)
        /\ \A m, n \in DOMAIN ladder :
             m < n /\ ladder[n].size < was[n].size => ladder[m].size = 0
  IN sound(asks, shown.asks, 1) /\ sound(bids, shown.bids, -1)

\* An order is never filled beyond its quantity, by trades and quotes in any order, and
\* what rests of it is what was not filled (remaining_quantity).  While it rests it is
\* filled at its limit or better, and never by an event that the exchange saw before
\* the order arrived there (arrival_time_ns).
FillsBelongToOrders ==
  /\ \A n \in DOMAIN fills :
       LET f == fills[n]
       IN /\ FilledOf(f.order) <= f.order.quantity
          /\ f.by = "maker" => f.time >= f.order.arrival /\ f.side * (f.order.price - f.price) >= 0
  /\ \A n \in DOMAIN resting :
       /\ resting[n].remaining > 0
       /\ resting[n].remaining + FilledOf(resting[n].order) = resting[n].order.quantity

Remaining(side) ==
  SumOf([n \in DOMAIN resting |-> IF resting[n].side = side THEN resting[n].remaining ELSE 0])

\* Of two orders at one price the later one, which arrives no earlier and has no less
\* volume ahead, is not filled by an event that does not fill the earlier one, unless the
\* position limit is what holds that one back (on_market_trade, _evaluate_resting_orders).
QueueKeepsPriority ==
  [][\A m, n \in DOMAIN resting :
       LET first == resting[m]
           second == resting[n]
           filledNow(o) == \E k \in Len(fills) + 1 .. Len(fills') : fills'[k].order = o.order
       IN /\ m < n /\ first.side = second.side /\ first.order.price = second.order.price
          /\ first.order.arrival <= second.order.arrival /\ first.queue <= second.queue
          /\ Within(position + first.side * Remaining(first.side))
          /\ filledNow(second)
          => filledNow(first)]_engineVars
=============================================================================
