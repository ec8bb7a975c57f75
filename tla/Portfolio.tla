----------------------------- MODULE Portfolio ------------------------------
(***************************************************************************)
(* The portfolio of python/portfolio/portfolio.py: fills, locates, the     *)
(* checks of an order before the trade and the snapshot after it.          *)
(*                                                                         *)
(* Prices are whole ticks.  Averages and profits, floats in the code, are  *)
(* exact fractions <<numerator, denominator>> in lowest terms; fees are    *)
(* left out.  validate_order leaves an empty position behind, which counts *)
(* for nothing: every instrument has one here from the start.              *)
(***************************************************************************)
EXTENDS Sums, FiniteSetsExt, Functions

CONSTANTS
  InstrumentCount, \* the instruments are numbered
  Orders,          \* orders and fills: [instrument, side, quantity, price]
  Limits,          \* PortfolioLimits
  Unit,            \* tick_size * multiplier: Instruments -> Nat
  LocateRequired,  \* the instruments sold short only with a locate
  Loading,         \* FactorModel.loadings: Instruments -> list of Int, one for each factor
  Covariance,      \* FactorModel.covariance_matrix: list of lists of Int
  SpecificVariance,\* FactorModel.specific_variance: Instruments -> Nat
  MarkQuotes,      \* the marks a snapshot may be given: [bid, ask]
  MaxFills,        \* bound on the fills
  MaxLocates       \* bound on the locates registered for an instrument

Instruments == 1 .. InstrumentCount

ASSUME PortfolioAssumption ==
  /\ InstrumentCount \in Nat
  /\ Min({Limits.net, Limits.gross, Limits.notional, Limits.concentration}) > 0
  /\ Limits.loss >= 0 /\ Limits.concentration \in Int
  /\ Orders \subseteq [instrument : Instruments, side : {-1, 1},
                       quantity : Nat \ {0}, price : Nat \ {0}]

VARIABLES
  positions,       \* Instruments -> [quantity, average, realized, last]
  locates,         \* Instruments -> locates left
  registered,      \* Instruments -> locates ever registered
  spent,           \* Instruments -> what the fills cost, less what they brought
  answer,          \* the last answer of validate_order, and its order filled next
  filled           \* how many fills were applied

portfolioVars == <<positions, locates, registered, spent, answer, filled>>

Abs(n) == IF n < 0 THEN -n ELSE n
Total(f) == FoldFunction(+, 0, f)

-----------------------------------------------------------------------------
(* Fractions                                                               *)

Fraction(n, d) ==
  LET gcd == Max({k \in 1 .. d : d % k = 0 /\ n % k = 0})
  IN <<n \div gcd, d \div gcd>>
Whole(n) == <<n, 1>>
Plus(a, b) == Fraction(a[1] * b[2] + b[1] * a[2], a[2] * b[2])
Times(k, a) == Fraction(k * a[1], a[2])
Minus(a, b) == Plus(a, Times(-1, b))
AtMost(a, b) == a[1] * b[2] <= b[1] * a[2]
Equal(a, b) == a[1] * b[2] = b[1] * a[2]
SumFractions(f) == FoldFunction(Plus, Whole(0), f)

\* int(round(x)): to the nearest, a half to the even neighbour
Round(a) ==
  LET floor == a[1] \div a[2]
      twice == 2 * (a[1] - floor * a[2])
  IN IF twice < a[2] \/ (twice = a[2] /\ floor % 2 = 0) THEN floor ELSE floor + 1

-----------------------------------------------------------------------------
(* Fills                                                                   *)

Flat == [quantity |-> 0, average |-> Whole(0), realized |-> Whole(0), last |-> 0]

Unasked == [order |-> CHOOSE o \in Orders : TRUE, is |-> "none"]
Approved(o) == answer = [order |-> o, is |-> "approved"]

PortfolioInit ==
  /\ positions = [i \in Instruments |-> Flat]
  /\ locates = [i \in Instruments |-> 0]
  /\ registered = locates
  /\ spent = [i \in Instruments |-> 0]
  /\ answer = Unasked
  /\ filled = 0

TargetQuantity(o) == positions[o.instrument].quantity + o.side * o.quantity

\* The part of a short position that needs new locates.
ShortIncrease(o) ==
  LET short(q) == Max({0, -q})
  IN short(TargetQuantity(o)) - short(positions[o.instrument].quantity)

Located == {i \in Instruments : Limits.requireLocates \/ i \in LocateRequired}
OpensShort(o) == o.side < 0 /\ TargetQuantity(o) < 0
NeedsLocate(o) ==
  OpensShort(o) /\ o.instrument \in Located
HasLocates(o) == ShortIncrease(o) <= locates[o.instrument]
ShortAllowed(o) == OpensShort(o) => Limits.allowShort

\* Mutant: a fill through zero keeps the old average.
AverageOfOldSide(p, o) ==
  LET old == Abs(p.quantity)
  IN IF p.quantity * o.side >= 0
     THEN Fraction(old * p.average[1] + o.quantity * o.price * p.average[2],
                   (old + o.quantity) * p.average[2])
     ELSE IF o.quantity = old THEN Whole(0) ELSE p.average

\* The weighted average of an increase; a reduction keeps it, a fill through zero
\* starts again at its price.
Average(p, o) ==
  LET old == Abs(p.quantity)
  IN IF p.quantity * o.side >= 0
     THEN Fraction(old * p.average[1] + o.quantity * o.price * p.average[2],
                   (old + o.quantity) * p.average[2])
     ELSE IF o.quantity = old THEN Whole(0)
     ELSE IF o.quantity > old THEN Whole(o.price)
     ELSE p.average

\* What the closed part of a position made.
ClosingPnl(p, o) ==
  LET closing == Min({Abs(p.quantity), o.quantity})
  IN IF p.quantity * o.side >= 0 THEN Whole(0)
     ELSE Times(-o.side * closing, Minus(Whole(o.price), p.average))

Filled(p, o) ==
  [quantity |-> p.quantity + o.side * o.quantity,
   average |-> Average(p, o),
   realized |-> Plus(p.realized, ClosingPnl(p, o)),
   last |-> o.price]

\* Mutant: a short sale uses up no locate.
ApplyFillKeepsLocates(o) ==
  /\ filled < MaxFills
  /\ ShortAllowed(o) /\ (NeedsLocate(o) => HasLocates(o))
  /\ positions' = [positions EXCEPT ![o.instrument] = Filled(@, o)]
  /\ spent' = [spent EXCEPT ![o.instrument] = @ + o.side * o.quantity * o.price]
  /\ filled' = filled + 1
  /\ answer' = IF Approved(o) THEN [order |-> o, is |-> "filled"] ELSE Unasked
  /\ UNCHANGED <<locates, registered>>

\* apply_fill, which raises and changes nothing when a short sale is not allowed
\* or not located, and checks no other limit
ApplyFill(o) ==
  /\ filled < MaxFills
  /\ ShortAllowed(o) /\ (NeedsLocate(o) => HasLocates(o))
  /\ locates' = IF NeedsLocate(o)
                THEN [locates EXCEPT ![o.instrument] = @ - ShortIncrease(o)] ELSE locates
  /\ positions' = [positions EXCEPT ![o.instrument] = Filled(@, o)]
  /\ spent' = [spent EXCEPT ![o.instrument] = @ + o.side * o.quantity * o.price]
  /\ filled' = filled + 1
  /\ answer' = IF Approved(o) THEN [order |-> o, is |-> "filled"] ELSE Unasked
  /\ UNCHANGED registered

\* register_locate; locates of other instruments are never read
RegisterLocate(i) ==
  /\ registered[i] < MaxLocates
  /\ locates' = [locates EXCEPT ![i] = @ + 1]
  /\ registered' = [registered EXCEPT ![i] = @ + 1]
  /\ UNCHANGED <<positions, spent, answer, filled>>

-----------------------------------------------------------------------------
(* The checks before the trade and the snapshot after it                   *)

Factors == DOMAIN Covariance

\* calculate_variance
Variance(notional) ==
  LET exposure == [f \in Factors |-> Total([i \in Instruments |-> notional[i] * Loading[i][f]])]
      common(f) == Total([g \in Factors |-> exposure[f] * exposure[g] * Covariance[f][g]])
      specific(i) == notional[i] * notional[i] * SpecificVariance[i]
  IN Max({0, Total([f \in Factors |-> common(f)]) + Total([i \in Instruments |-> specific(i)])})

\* z * sqrt(variance) > limit, squared; the squares of z are in thousandths
ExpectedShortfallSquare == 7102
ParametricVarSquare == 5412
Exceeds(square, variance, limit) == square * variance > 1000 * limit * limit

Net(quantity) == Abs(SumOf(quantity))
Gross(quantity) == SumOf([i \in Instruments |-> Abs(quantity[i])])
GrossNotional(quantity, price) == SumOf([i \in Instruments |-> Abs(quantity[i]) * price[i]])
Cash(quantity, price) == [i \in Instruments |-> quantity[i] * price[i] * Unit[i]]

Quantities == [i \in Instruments |-> positions[i].quantity]
LastPrices == [i \in Instruments |-> positions[i].last]

\* What the positions are worth in cash once the order is filled.
ProjectedCash(o) ==
  Cash([Quantities EXCEPT ![o.instrument] = TargetQuantity(o)],
       [LastPrices EXCEPT ![o.instrument] = o.price])

\* The checks of validate_order on the order itself and on the cash after it.
OrderFits(o) ==
  LET cash == ProjectedCash(o)
  IN /\ ~(Abs(TargetQuantity(o)) * o.price > Limits.concentration)
     /\ ShortAllowed(o) /\ (NeedsLocate(o) => HasLocates(o))
     /\ ~(SumOf([i \in Instruments |-> Abs(cash[i])]) > Limits.grossCash)
     /\ ~Exceeds(ExpectedShortfallSquare, Variance(cash), Limits.expectedShortfall)
     /\ ~Exceeds(ParametricVarSquare, Variance(cash), Limits.parametricVar)

\* Mutant: what the instrument counted for is taken out at the price of the order.
ApprovesAtOrderPrice(o) ==
  LET current == positions[o.instrument]
      target == TargetQuantity(o)
      gross == Gross(Quantities) - Abs(current.quantity) + Abs(target)
      notional == GrossNotional(Quantities, LastPrices)
                    - Abs(current.quantity) * o.price + Abs(target) * o.price
  IN /\ ~(Abs(SumOf(Quantities) + o.side * o.quantity) > Limits.net)
     /\ ~(gross > Limits.gross)
     /\ ~(notional > Limits.notional)
     /\ OrderFits(o)

\* validate_order answers "approved"; which check refuses is left out.  The sums of the
\* positions are not formed anew: the instrument's part is exchanged in each.
Approves(o) ==
  LET current == positions[o.instrument]
      target == TargetQuantity(o)
      gross == Gross(Quantities) - Abs(current.quantity) + Abs(target)
      notional == GrossNotional(Quantities, LastPrices)
                    - Abs(current.quantity) * current.last + Abs(target) * o.price
  IN /\ ~(Abs(SumOf(Quantities) + o.side * o.quantity) > Limits.net)
     /\ ~(gross > Limits.gross)
     /\ ~(notional > Limits.notional)
     /\ OrderFits(o)

ValidateOrder(o) ==
  /\ answer' = [order |-> o, is |-> IF Approves(o) THEN "approved" ELSE "refused"]
  /\ UNCHANGED <<positions, locates, registered, spent, filled>>

\* The mark of a quote by the method of the snapshot; a plain price is the quote
\* with that price on both sides.
Mark(i, quote, method) ==
  CASE method = "mid" -> Fraction(quote.bid + quote.ask, 2)
    [] method = "liquidation" ->
         Whole(IF positions[i].quantity >= 0 THEN quote.bid ELSE quote.ask)
    [] OTHER -> Whole(IF positions[i].quantity > 0 THEN quote.ask ELSE quote.bid)

Unrealized(i, mark) ==
  Times(positions[i].quantity, Minus(mark, positions[i].average))

\* Mutant: what was realized is left out of the loss.
LossOfOpenPositions(mark) ==
  -Round(SumFractions([i \in Instruments |-> Unrealized(i, mark[i])]))

\* loss_ticks of a snapshot: the two sums are rounded one by one
LossTicks(mark) ==
  -(Round(SumFractions([i \in Instruments |-> positions[i].realized]))
    + Round(SumFractions([i \in Instruments |-> Unrealized(i, mark[i])])))

LastMarks == [i \in Instruments |-> Whole(positions[i].last)]

\* limits_breached of a snapshot without marks, at the last prices
Breaches ==
  LET notional == [i \in Instruments |-> Abs(Quantities[i]) * LastPrices[i]]
      variance == Variance(Cash(Quantities, LastPrices))
      over(breach) ==
        \/ breach = "net" /\ Net(Quantities) > Limits.net
        \/ breach = "gross" /\ Gross(Quantities) > Limits.gross
        \/ breach = "notional" /\ GrossNotional(Quantities, LastPrices) > Limits.notional
        \/ breach = "concentration" /\ Max(Range(notional)) > Limits.concentration
        \/ breach = "loss" /\ LossTicks(LastMarks) > Limits.loss
        \/ /\ breach = "shortfall"
           /\ Exceeds(ExpectedShortfallSquare, variance, Limits.expectedShortfall)
        \/ breach = "var" /\ Exceeds(ParametricVarSquare, variance, Limits.parametricVar)
  IN {breach \in {"net", "gross", "notional", "concentration", "loss", "shortfall", "var"} :
        over(breach)}

PortfolioNext ==
  \/ \E o \in Orders : ApplyFill(o)
  \/ \E o \in Orders : ValidateOrder(o)
  \/ \E i \in Located : RegisterLocate(i)

PortfolioSpec == PortfolioInit /\ [][PortfolioNext]_portfolioVars

-----------------------------------------------------------------------------
(* Properties                                                              *)

\* Whatever fills came, through zero and back, an instrument's realized profit and
\* its average account for every tick paid and received: valued at its average, the
\* position is worth what it cost and what it made (apply_fill).
ProfitIsCash ==
  filled > 0 => \A i \in Instruments :
    Equal(positions[i].realized,
          Minus(Times(positions[i].quantity, positions[i].average), Whole(spent[i])))

\* A short position in an instrument that needs locates is covered by locates that
\* were registered and are used up, also after it is bought back and sold again.
ShortsAreLocated ==
  \A i \in Located : Max({0, -positions[i].quantity}) <= registered[i] - locates[i]

\* The approval of validate_order holds: whatever locates were registered since,
\* apply_fill does not refuse the order, and once it is filled at its price before any
\* other fill, a snapshot shows no breach but those validate_order does not answer for:
\* the loss, and the concentration in another instrument.
ApprovalHolds ==
  LET o == answer.order
      i == o.instrument
  IN /\ answer.is = "approved" => ShortAllowed(o) /\ (NeedsLocate(o) => HasLocates(o))
     /\ answer.is = "filled" =>
          /\ Breaches \subseteq {"loss", "concentration"}
          /\ Abs(Quantities[i]) * LastPrices[i] <= Limits.concentration

\* The loss that the snapshot compares with its limit, two rounded sums, is within
\* one tick of what the fills lost at those marks; and a position is never worth more
\* in liquidation than at the mid, and never more at the mid than by the default
\* method, which marks it against itself (snapshot).
SnapshotIsSound ==
  /\ filled > 0 => \A quote \in [Instruments -> MarkQuotes] :
       LET mark == [i \in Instruments |-> Mark(i, quote[i], "last")]
           lost == SumFractions([i \in Instruments |->
                     Minus(Whole(spent[i]), Times(positions[i].quantity, mark[i]))])
       IN AtMost(Minus(Whole(LossTicks(mark)), lost), Whole(1))
            /\ AtMost(Minus(lost, Whole(LossTicks(mark))), Whole(1))
  /\ \A i \in {j \in Instruments : positions[j].quantity # 0}, q \in MarkQuotes :
       LET worth(method) == Unrealized(i, Mark(i, q, method))
       IN AtMost(worth("liquidation"), worth("mid")) /\ AtMost(worth("mid"), worth("last"))
=============================================================================
