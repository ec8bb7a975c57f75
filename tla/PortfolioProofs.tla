--------------------------- MODULE PortfolioProofs -------------------------
(***************************************************************************)
(* Proofs about the portfolio, for any number of instruments and any       *)
(* orders, limits and factor model: short positions are located, approvals *)
(* hold, and the profit is the cash that was made.                         *)
(***************************************************************************)
EXTENDS Portfolio, WellFoundedInduction, TLAPS

-----------------------------------------------------------------------------
(* Sets of numbers                                                         *)

\* Every set of naturals that is not empty has a least element, as < is well-founded.
LEMMA LeastNumber ==
  ASSUME NEW S \in SUBSET Nat, S # {}
  PROVE  \E n \in S : \A m \in S : n <= m
<1> DEFINE R == {pair \in Nat \X Nat : pair[1] < pair[2]}
<1>1. IsWellFoundedOn(R, Nat)
  BY NatLessThanWellFounded, Zenon DEF OpToRel
<1>2. \A m, n \in Nat : m < n => <<m, n>> \in R
  OBVIOUS
<1> HIDE DEF R
<1>3. PICK n \in S : \A m \in S : <<m, n>> \notin R
  BY <1>1, WFMin, Zenon
<1>4. ASSUME NEW m \in S PROVE n <= m
  <2>1. m \in Nat /\ n \in Nat /\ ~(m < n)
    BY <1>2, <1>3, Zenon
  <2> QED BY <2>1
<1> QED BY <1>4

\* Max names an element of a set of naturals that is bounded: the one with the least
\* distance to the bound.
LEMMA MaxIsMember ==
  ASSUME NEW S \in SUBSET Nat, S # {}, NEW bound \in Nat, \A n \in S : n <= bound
  PROVE  Max(S) \in S
<1> DEFINE T == {bound - n : n \in S}
<1>1. T \subseteq Nat /\ T # {}
  <2>1. \A n \in S : bound - n \in Nat
    OBVIOUS
  <2> QED BY <2>1, Zenon
<1>2. PICK t \in T : \A u \in T : t <= u
  <2> HIDE DEF T
  <2> QED BY <1>1, LeastNumber
<1>3. PICK g \in S : t = bound - g
  OBVIOUS
<1>4. \A n \in S : n <= g
  <2>1. \A n \in S : bound - g <= bound - n
    BY <1>2, <1>3, Zenon
  <2> QED BY <2>1
<1> QED BY <1>4, Zenon DEF Max

-----------------------------------------------------------------------------
(* Sums                                                                    *)

\* What holds at the start of a count and is kept by each step holds at its end.
LEMMA CountUp ==
  ASSUME NEW N \in Nat, NEW G, 0 \in G, \A n \in 0 .. N - 1 : n \in G => n + 1 \in G
  PROVE  \A n \in 0 .. N : n \in G
<1> DEFINE Bad == {n \in 0 .. N : n \notin G}
<1> SUFFICES ASSUME Bad # {} PROVE FALSE
  OBVIOUS
<1>1. Bad \in SUBSET Nat
  OBVIOUS
<1>2. PICK b \in Bad : \A m \in Bad : b <= m
  BY <1>1, LeastNumber, Zenon
<1>3. b \in 0 .. N /\ b \notin G /\ b # 0
  OBVIOUS
<1>4. b - 1 \in 0 .. N - 1 /\ b - 1 \in 0 .. N /\ b - 1 + 1 = b
  BY <1>3
<1>5. b - 1 \notin Bad
  BY <1>2, <1>3
<1> QED BY <1>3, <1>4, <1>5

\* The running totals of a list, one for each of its first parts.
Totals(total, list, N) ==
  /\ total \in [0 .. N -> Int] /\ total[0] = 0
  /\ \A n \in 1 .. N : total[n] = total[n - 1] + list[n]

\* Every list has running totals.
LEMMA TotalsExist ==
  ASSUME NEW list \in Seq(Int)
  PROVE  \E total : Totals(total, list, Len(list))
<1> DEFINE G == {N \in 0 .. Len(list) : \E total : Totals(total, list, N)}
<1>1. Len(list) \in Nat /\ \A n \in 1 .. Len(list) : list[n] \in Int
  OBVIOUS
<1>2. 0 \in G
  <2>1. Totals([n \in 0 .. 0 |-> 0], list, 0)
    BY DEF Totals
  <2> QED BY <1>1, <2>1
<1>3. ASSUME NEW N \in 0 .. Len(list) - 1, N \in G PROVE N + 1 \in G
  <2>1. PICK total : Totals(total, list, N)
    BY <1>3
  <2>2. N \in Nat /\ N + 1 \in 0 .. Len(list) /\ total[N] \in Int /\ list[N + 1] \in Int
    BY <1>1, <1>3, <2>1 DEF Totals
  <2> DEFINE more == [n \in 0 .. N + 1 |-> IF n = N + 1 THEN total[N] + list[N + 1]
                                                        ELSE total[n]]
  <2>3. more \in [0 .. N + 1 -> Int] /\ more[0] = 0
    BY <2>1, <2>2 DEF Totals
  <2>4. ASSUME NEW n \in 1 .. N + 1 PROVE more[n] = more[n - 1] + list[n]
    <3>1. CASE n = N + 1
      BY <2>2, <3>1
    <3>2. CASE n \in 1 .. N
      <4>1. more[n] = total[n] /\ more[n - 1] = total[n - 1]
        BY <2>2, <3>2
      <4> QED BY <2>1, <3>2, <4>1, Zenon DEF Totals
    <3> QED BY <2>2, <3>1, <3>2
  <2>5. Totals(more, list, N + 1)
    BY <2>3, <2>4, Zenon DEF Totals
  <2> QED BY <2>2, <2>5
<1>4. \A N \in 0 .. Len(list) : N \in G
  <2> HIDE DEF G
  <2> QED BY <1>1, <1>2, <1>3, CountUp, Zenon
<1> QED BY <1>1, <1>4

\* The sum of a list is its last running total.
LEMMA SumIsTotal ==
  ASSUME NEW list \in Seq(Int)
  PROVE  \E total : Totals(total, list, Len(list)) /\ SumOf(list) = total[Len(list)]
<1> DEFINE Next(f) == [n \in 0 .. Len(list) |-> IF n = 0 THEN 0 ELSE f[n - 1] + list[n]]
           total == CHOOSE g : g = Next(g)
<1>1. Len(list) \in Nat
  OBVIOUS
<1>2. PICK f : Totals(f, list, Len(list))
  BY TotalsExist
<1>3. f = Next(f)
  BY <1>1, <1>2 DEF Totals
<1>4. total = Next(total)
  <2> HIDE DEF Next
  <2> QED BY <1>3
<1>5. SumOf(list) = total[Len(list)]
  BY DEF SumOf
<1> HIDE DEF total
<1> DEFINE G == {n \in 0 .. Len(list) : total[n] = f[n]}
<1>6. 0 \in G
  BY <1>1, <1>2, <1>4 DEF Totals
<1>7. ASSUME NEW n \in 0 .. Len(list) - 1, n \in G PROVE n + 1 \in G
  BY <1>1, <1>2, <1>4, <1>7 DEF Totals
<1>8. \A n \in 0 .. Len(list) : n \in G
  <2> HIDE DEF G, Next
  <2> QED BY <1>1, <1>6, <1>7, CountUp, Zenon
<1>9. SumOf(list) = f[Len(list)]
  BY <1>1, <1>5, <1>8
<1> QED BY <1>2, <1>9

\* A sum in which one number is exchanged changes by the difference.
LEMMA SumExchanges ==
  ASSUME NEW N \in Nat, NEW list \in [1 .. N -> Int], NEW other \in [1 .. N -> Int],
         NEW i \in 1 .. N, \A n \in 1 .. N : n # i => other[n] = list[n]
  PROVE  SumOf(list) \in Int /\ SumOf(other) = SumOf(list) - list[i] + other[i]
<1>1. list \in Seq(Int) /\ Len(list) = N /\ other \in Seq(Int) /\ Len(other) = N
  OBVIOUS
<1>2. PICK f : Totals(f, list, N) /\ SumOf(list) = f[N]
  BY <1>1, SumIsTotal
<1>3. PICK g : Totals(g, other, N) /\ SumOf(other) = g[N]
  BY <1>1, SumIsTotal
<1>4. /\ f \in [0 .. N -> Int] /\ f[0] = 0
      /\ \A n \in 1 .. N : f[n] = f[n - 1] + list[n]
  BY <1>2, Zenon DEF Totals
<1>5. /\ g \in [0 .. N -> Int] /\ g[0] = 0
      /\ \A n \in 1 .. N : g[n] = g[n - 1] + other[n]
  BY <1>3, Zenon DEF Totals
<1> DEFINE Moved(n) == IF n < i THEN f[n] ELSE f[n] - list[i] + other[i]
           G == {n \in 0 .. N : g[n] = Moved(n)}
<1>6. 0 \in G
  BY <1>4, <1>5
<1>7. ASSUME NEW n \in 0 .. N - 1, n \in G PROVE n + 1 \in G
  <2>1. n + 1 \in 1 .. N /\ n + 1 \in 0 .. N /\ n + 1 - 1 = n /\ n \in 0 .. N /\ i \in Int
    OBVIOUS
  <2>2. f[n + 1] = f[n] + list[n + 1]
    BY <1>4, <2>1
  <2>3. g[n + 1] = g[n] + other[n + 1]
    BY <1>5, <2>1
  <2>4. /\ f[n] \in Int /\ list[n + 1] \in Int /\ other[n + 1] \in Int
        /\ list[i] \in Int /\ other[i] \in Int
    BY <1>4, <2>1, Zenon
  <2>5. g[n] = Moved(n)
    BY <1>7
  <2> DEFINE a == f[n]
             b == g[n]
             x == list[n + 1]
             y == other[n + 1]
  <2>6. a \in Int /\ x \in Int /\ y \in Int /\ f[n + 1] = a + x /\ g[n + 1] = b + y
    BY <2>2, <2>3, <2>4
  <2>7. CASE n + 1 < i
    <3>1. x = y /\ b = a
      BY <2>1, <2>5, <2>7
    <3> QED BY <2>1, <2>2, <2>3, <2>7, <3>1
  <2>8. CASE n + 1 = i
    <3>1. b = a /\ ~(n + 1 < i)
      BY <2>1, <2>5, <2>8
    <3>2. a + y = a + x - x + y
      BY <2>6
    <3> HIDE DEF G
    <3>3. Moved(n + 1) = f[n + 1] - x + y
      BY <2>8, <3>1
    <3>4. g[n + 1] = Moved(n + 1)
      BY <2>6, <3>1, <3>2, <3>3
    <3> QED BY <2>1, <3>4, Zenon DEF G
  <2>9. CASE n + 1 > i
    <3>1. x = y /\ b = a - list[i] + other[i] /\ ~(n + 1 < i)
      BY <2>1, <2>5, <2>9
    <3>2. b + y = a + x - list[i] + other[i]
      <4> DEFINE c == list[i]
                 e == other[i]
      <4>1. a \in Int /\ x \in Int /\ c \in Int /\ e \in Int
        BY <2>4, Zenon
      <4>2. y = x /\ b = a - c + e
        BY <3>1
      <4> HIDE DEF a, b, c, e, x, y
      <4>3. b + y = a + x - c + e
        BY <4>1, <4>2
      <4> QED BY <4>3 DEF c, e
    <3> HIDE DEF G
    <3>3. g[n + 1] = Moved(n + 1)
      BY <2>6, <3>1, <3>2
    <3> QED BY <2>1, <3>3, Zenon DEF G
  <2> QED BY <2>1, <2>7, <2>8, <2>9
<1>8. \A n \in 0 .. N : n \in G
  <2> HIDE DEF G
  <2> QED BY <1>6, <1>7, CountUp, Zenon
<1>9. g[N] = f[N] - list[i] + other[i]
  BY <1>8
<1> QED BY <1>2, <1>3, <1>4, <1>9

-----------------------------------------------------------------------------
(* The portfolio                                                           *)

PortfolioTypes ==
  /\ DOMAIN positions = Instruments
  /\ \A i \in Instruments : positions[i].quantity \in Int /\ positions[i].last \in Int
  /\ locates \in [Instruments -> Int] /\ registered \in [Instruments -> Int]
  /\ answer.is # "none" => answer.order \in Orders

Short(q) == IF q < 0 THEN -q ELSE 0

\* max(0, -quantity), the size of a short position.
LEMMA ShortIsMax ==
  ASSUME NEW q \in Int
  PROVE  Max({0, -q}) = Short(q)
<1>1. Short(q) \in {0, -q} /\ \A y \in {0, -q} : Short(q) >= y
  BY DEF Short
<1>2. \A x \in {0, -q} : (\A y \in {0, -q} : x >= y) => x = Short(q)
  BY DEF Short
<1> QED BY <1>1, <1>2 DEF Max

\* What an order is made of.
LEMMA OrderTyped ==
  ASSUME NEW o \in Orders
  PROVE  /\ o.instrument \in Instruments /\ o.side \in {-1, 1}
         /\ o.quantity \in Nat \ {0} /\ o.price \in Nat \ {0}
         /\ o.side * o.quantity \in Int
         /\ o.side = 1 => o.side * o.quantity = o.quantity
         /\ o.side = -1 => o.side * o.quantity = -o.quantity
<1>1. /\ o.instrument \in Instruments /\ o.side \in {-1, 1}
      /\ o.quantity \in Nat \ {0} /\ o.price \in Nat \ {0}
  BY PortfolioAssumption
<1> QED BY <1>1

\* What apply_fill does to the quantities, the prices and the locates.
LEMMA FillChanges ==
  ASSUME PortfolioTypes, NEW o \in Orders, ApplyFill(o)
  PROVE  /\ DOMAIN positions' = Instruments
         /\ positions'[o.instrument].quantity = TargetQuantity(o)
         /\ positions'[o.instrument].last = o.price
         /\ \A i \in Instruments \ {o.instrument} : positions'[i] = positions[i]
         /\ TargetQuantity(o) \in Int
<1>1. positions' = [positions EXCEPT ![o.instrument] = Filled(positions[o.instrument], o)]
  BY DEF ApplyFill
<1>2. o.instrument \in Instruments /\ o.side * o.quantity \in Int
  BY OrderTyped
<1>3. /\ Filled(positions[o.instrument], o).quantity = TargetQuantity(o)
      /\ Filled(positions[o.instrument], o).last = o.price
  BY DEF Filled, TargetQuantity
<1>4. TargetQuantity(o) \in Int
  BY <1>2 DEF TargetQuantity, PortfolioTypes
<1> HIDE DEF Filled
<1> QED BY <1>1, <1>2, <1>3, <1>4 DEF PortfolioTypes

\* The locates that a short sale uses up.
LEMMA ShortIncreaseIs ==
  ASSUME PortfolioTypes, NEW o \in Orders
  PROVE  ShortIncrease(o) = Short(TargetQuantity(o)) - Short(positions[o.instrument].quantity)
<1>1. o.instrument \in Instruments /\ o.side * o.quantity \in Int
  BY OrderTyped
<1>2. TargetQuantity(o) \in Int /\ positions[o.instrument].quantity \in Int
  BY <1>1 DEF TargetQuantity, PortfolioTypes
<1> QED BY <1>2, ShortIsMax DEF ShortIncrease

\* Every call keeps the types.
LEMMA PortfolioTypesStep ==
  ASSUME PortfolioTypes, [PortfolioNext]_portfolioVars
  PROVE  PortfolioTypes'
<1>1. ASSUME NEW o \in Orders, ApplyFill(o) PROVE PortfolioTypes'
  <2>1. /\ DOMAIN positions' = Instruments
        /\ \A i \in Instruments : positions'[i].quantity \in Int /\ positions'[i].last \in Int
    BY <1>1, FillChanges, OrderTyped DEF PortfolioTypes
  <2>2. locates' \in [Instruments -> Int]
    <3>1. o.instrument \in Instruments /\ o.side * o.quantity \in Int
      BY OrderTyped
    <3>2. positions[o.instrument].quantity \in Int /\ TargetQuantity(o) \in Int
      BY <1>1, <3>1, FillChanges DEF PortfolioTypes
    <3>3. ShortIncrease(o) \in Int
      BY <3>2, ShortIncreaseIs DEF Short
    <3>4. locates \in [Instruments -> Int]
      BY DEF PortfolioTypes
    <3>5. locates[o.instrument] - ShortIncrease(o) \in Int
      BY <3>1, <3>3, <3>4
    <3> QED BY <1>1, <3>4, <3>5, Zenon DEF ApplyFill
  <2>3. answer'.is # "none" => answer'.order \in Orders
    BY <1>1 DEF ApplyFill, Unasked
  <2> QED BY <1>1, <2>1, <2>2, <2>3 DEF ApplyFill, PortfolioTypes
<1>2. ASSUME NEW o \in Orders, ValidateOrder(o) PROVE PortfolioTypes'
  BY <1>2 DEF ValidateOrder, PortfolioTypes
<1>3. ASSUME NEW i \in Located, RegisterLocate(i) PROVE PortfolioTypes'
  <2>1. i \in Instruments
    BY DEF Located
  <2>2. locates[i] + 1 \in Int /\ registered[i] + 1 \in Int
    BY <2>1 DEF PortfolioTypes
  <2> QED BY <1>3, <2>2, Zenon DEF RegisterLocate, PortfolioTypes
<1>4. CASE UNCHANGED portfolioVars
  BY <1>4 DEF portfolioVars, PortfolioTypes
<1> QED BY <1>1, <1>2, <1>3, <1>4, SMTT(30) DEF PortfolioNext

\* The types of the portfolio hold throughout.
LEMMA PortfolioTypesAlways == PortfolioSpec => []PortfolioTypes
<1>1. PortfolioInit => PortfolioTypes
  BY DEF PortfolioInit, PortfolioTypes, Flat, Unasked
<1> QED BY <1>1, PortfolioTypesStep, PTL DEF PortfolioSpec

\* Under the types, what ShortsAreLocated says of an instrument.
Covered(i) == Short(positions[i].quantity) <= registered[i] - locates[i]

\* ShortsAreLocated and Covered say the same of every instrument that needs locates.
LEMMA LocatedMeansCovered ==
  PortfolioTypes => (ShortsAreLocated <=> \A i \in Located : Covered(i))
  BY ShortIsMax, Zenon DEF PortfolioTypes, ShortsAreLocated, Covered, Located

\* A short position in an instrument that needs locates is covered by locates that were
\* registered and used up, through fills in any order (apply_fill, register_locate).
THEOREM ShortsAreLocatedAlways == PortfolioSpec => []ShortsAreLocated
<1> DEFINE AllCovered == \A i \in Located : Covered(i)
<1>1. PortfolioInit => AllCovered
  BY DEF PortfolioInit, Flat, Covered, Located, Short
<1>2. PortfolioTypes /\ AllCovered /\ [PortfolioNext]_portfolioVars => AllCovered'
  <2> SUFFICES ASSUME PortfolioTypes, AllCovered, [PortfolioNext]_portfolioVars,
                      NEW i \in Located
               PROVE  Covered(i)'
    OBVIOUS
  <2>1. /\ i \in Instruments /\ positions[i].quantity \in Int
        /\ locates[i] \in Int /\ registered[i] \in Int
    BY DEF Located, PortfolioTypes
  <2>2. ASSUME NEW o \in Orders, ApplyFill(o) PROVE Covered(i)'
    <3>1. registered' = registered
      BY <2>2 DEF ApplyFill
    <3>2. CASE i # o.instrument
      <4>1. positions'[i] = positions[i]
        BY <2>1, <2>2, <3>2, FillChanges, SMTT(30)
      <4>2. locates'[i] = locates[i]
        BY <2>1, <2>2, <3>2 DEF ApplyFill, PortfolioTypes
      <4> QED BY <3>1, <4>1, <4>2 DEF Covered
    <3>3. CASE i = o.instrument
      <4>1. /\ positions'[i].quantity = TargetQuantity(o) /\ TargetQuantity(o) \in Int
            /\ TargetQuantity(o) = positions[i].quantity + o.side * o.quantity
        BY <2>2, <3>3, FillChanges DEF TargetQuantity
      <4>2. Short(positions[i].quantity) <= registered[i] - locates[i]
        BY DEF Covered
      <4>3. CASE NeedsLocate(o)
        <5>1. locates'[i] = locates[i] - ShortIncrease(o)
          BY <2>1, <2>2, <3>3, <4>3 DEF ApplyFill, PortfolioTypes
        <5>2. ShortIncrease(o) = Short(TargetQuantity(o)) - Short(positions[i].quantity)
          BY <3>3, ShortIncreaseIs
        <5> QED BY <2>1, <3>1, <4>1, <4>2, <5>1, <5>2 DEF Covered, Short
      <4>4. CASE ~NeedsLocate(o)
        <5>1. locates'[i] = locates[i]
          BY <2>2, <4>4 DEF ApplyFill
        <5>2. ~(o.side < 0 /\ TargetQuantity(o) < 0)
          BY <3>3, <4>4 DEF NeedsLocate, OpensShort
        <5>3. o.side = -1 \/ o.side * o.quantity \in Nat
          BY OrderTyped
        <5>4. Short(TargetQuantity(o)) <= Short(positions[i].quantity)
          BY <2>1, <4>1, <5>2, <5>3 DEF Short
        <5> QED BY <2>1, <3>1, <4>1, <4>2, <5>1, <5>4 DEF Covered, Short
      <4> QED BY <4>3, <4>4
    <3> QED BY <3>2, <3>3
  <2>3. ASSUME NEW o \in Orders, ValidateOrder(o) PROVE Covered(i)'
    BY <2>3 DEF ValidateOrder, Covered
  <2>4. ASSUME NEW j \in Located, RegisterLocate(j) PROVE Covered(i)'
    <3>1. /\ positions' = positions
          /\ registered'[i] - locates'[i] = registered[i] - locates[i]
      BY <2>1, <2>4 DEF RegisterLocate, PortfolioTypes
    <3> QED BY <3>1 DEF Covered
  <2>5. CASE UNCHANGED portfolioVars
    BY <2>5 DEF portfolioVars, Covered
  <2> QED BY <2>2, <2>3, <2>4, <2>5 DEF PortfolioNext
<1>3. PortfolioTypes /\ AllCovered => ShortsAreLocated
  BY LocatedMeansCovered
<1> QED BY <1>1, <1>2, <1>3, PortfolioTypesAlways, PTL DEF PortfolioSpec

-----------------------------------------------------------------------------
(* The approval of an order                                                *)

\* What a snapshot shows right after an approved order was filled.
FilledWithin(o) ==
  /\ Breaches \subseteq {"loss", "concentration"}
  /\ Abs(Quantities[o.instrument]) * LastPrices[o.instrument] <= Limits.concentration

\* ApprovalHolds made inductive: an approval stays one until something is filled, since
\* every check but that of the locates looks at the positions only.
ApprovalInv ==
  /\ answer.is = "approved" => Approves(answer.order)
  /\ answer.is = "filled" => FilledWithin(answer.order)

\* Both depend on the positions only, and the approval on the locates.
LEMMA FilledWithinStays ==
  ASSUME positions' = positions, NEW o, FilledWithin(o)
  PROVE  FilledWithin(o)'
<1>1. Quantities' = Quantities /\ LastPrices' = LastPrices
  BY SMTT(30) DEF Quantities, LastPrices
<1>2. Breaches' = Breaches
  BY <1>1, SMTT(30) DEF Breaches, LossTicks, LastMarks, Unrealized
<1> QED BY <1>1, <1>2 DEF FilledWithin

\* An order validate_order approves is approved as long as nothing is filled or located.
LEMMA ApprovesStays ==
  ASSUME positions' = positions, locates' = locates, NEW o, Approves(o)
  PROVE  Approves(o)'
<1>1. Quantities' = Quantities /\ LastPrices' = LastPrices
  BY DEF Quantities, LastPrices
<1>2. TargetQuantity(o)' = TargetQuantity(o) /\ ShortIncrease(o)' = ShortIncrease(o)
  BY DEF TargetQuantity, ShortIncrease
<1>3. ProjectedCash(o)' = ProjectedCash(o)
  BY <1>1, <1>2, Zenon DEF ProjectedCash
<1>4. /\ ShortAllowed(o)' <=> ShortAllowed(o)
      /\ NeedsLocate(o)' <=> NeedsLocate(o)
      /\ HasLocates(o)' <=> HasLocates(o)
  BY <1>2 DEF ShortAllowed, OpensShort, NeedsLocate, HasLocates, Located
<1>5. OrderFits(o)' <=> OrderFits(o)
  BY <1>2, <1>3, <1>4, Zenon DEF OrderFits
<1> QED BY <1>1, <1>2, <1>5, Zenon DEF Approves

\* The sums of the positions after a fill are the ones validate_order looked at: those
\* before it, with the part of the one instrument exchanged.
LEMMA SumsAfter ==
  ASSUME PortfolioTypes, NEW o \in Orders,
         NEW quantity, quantity = [Quantities EXCEPT ![o.instrument] = TargetQuantity(o)],
         NEW price, price = [LastPrices EXCEPT ![o.instrument] = o.price]
  PROVE  LET current == positions[o.instrument]
         IN /\ SumOf(quantity) = SumOf(Quantities) + o.side * o.quantity
            /\ Gross(quantity)
                 = Gross(Quantities) - Abs(current.quantity) + Abs(TargetQuantity(o))
            /\ GrossNotional(quantity, price)
                 = GrossNotional(Quantities, LastPrices)
                     - Abs(current.quantity) * current.last + Abs(TargetQuantity(o)) * o.price
<1> DEFINE k == o.instrument
           target == TargetQuantity(o)
<1>1. /\ InstrumentCount \in Nat /\ Instruments = 1 .. InstrumentCount /\ k \in Instruments
      /\ o.price \in Int /\ o.side * o.quantity \in Int
  BY OrderTyped, PortfolioAssumption DEF Instruments
<1>2. /\ Quantities \in [Instruments -> Int] /\ LastPrices \in [Instruments -> Int]
      /\ Quantities[k] = positions[k].quantity /\ LastPrices[k] = positions[k].last
  BY <1>1, Zenon DEF PortfolioTypes, Quantities, LastPrices
<1>3. target \in Int /\ target = Quantities[k] + o.side * o.quantity
  BY <1>1, <1>2 DEF TargetQuantity
<1>4. /\ quantity \in [Instruments -> Int] /\ quantity[k] = target
      /\ \A i \in Instruments : i # k => quantity[i] = Quantities[i]
  BY <1>1, <1>2, <1>3, Zenon
<1>5. /\ price \in [Instruments -> Int] /\ price[k] = o.price
      /\ \A i \in Instruments : i # k => price[i] = LastPrices[i]
  BY <1>1, <1>2, Zenon
<1> HIDE DEF k, target
<1>6. \A n \in Int : Abs(n) \in Int
  BY DEF Abs
<1>7. SumOf(quantity) = SumOf(Quantities) + o.side * o.quantity
  <2>1. SumOf(Quantities) \in Int /\ SumOf(quantity) = SumOf(Quantities) - Quantities[k] + target
    <3> DEFINE before == Quantities
               after == quantity
    <3>1. /\ before \in [Instruments -> Int] /\ after \in [Instruments -> Int]
          /\ \A i \in Instruments : i # k => after[i] = before[i]
      BY <1>2, <1>4, Zenon
    <3> HIDE DEF before, after
    <3>2. SumOf(before) \in Int /\ SumOf(after) = SumOf(before) - before[k] + after[k]
      BY <1>1, <3>1, SumExchanges, Zenon
    <3> QED BY <1>4, <3>2, Zenon DEF before, after
  <2>2. Quantities[k] \in Int
    BY <1>1, <1>2
  <2> QED BY <1>1, <1>3, <2>1, <2>2
<1>8. Gross(quantity) = Gross(Quantities) - Abs(Quantities[k]) + Abs(target)
  <2> DEFINE before == [i \in Instruments |-> Abs(Quantities[i])]
             after == [i \in Instruments |-> Abs(quantity[i])]
  <2>1. before \in [Instruments -> Int] /\ after \in [Instruments -> Int]
    BY <1>2, <1>4, <1>6, Zenon
  <2>2. /\ \A i \in Instruments : i # k => after[i] = before[i]
        /\ before[k] = Abs(Quantities[k]) /\ after[k] = Abs(target)
    BY <1>1, <1>4, Zenon
  <2>3. Gross(quantity) = SumOf(after) /\ Gross(Quantities) = SumOf(before)
    BY Zenon DEF Gross
  <2> HIDE DEF before, after
  <2>4. SumOf(after) = SumOf(before) - before[k] + after[k]
    BY <1>1, <2>1, <2>2, SumExchanges, Zenon
  <2> QED BY <2>2, <2>3, <2>4, Zenon
<1>9. GrossNotional(quantity, price)
        = GrossNotional(Quantities, LastPrices)
            - Abs(Quantities[k]) * LastPrices[k] + Abs(target) * o.price
  <2> DEFINE before == [i \in Instruments |-> Abs(Quantities[i]) * LastPrices[i]]
             after == [i \in Instruments |-> Abs(quantity[i]) * price[i]]
  <2>1. before \in [Instruments -> Int] /\ after \in [Instruments -> Int]
    <3>1. \A m, n \in Int : m * n \in Int
      OBVIOUS
    <3> QED BY <1>2, <1>4, <1>5, <1>6, <3>1, Zenon
  <2>2. /\ \A i \in Instruments : i # k => after[i] = before[i]
        /\ before[k] = Abs(Quantities[k]) * LastPrices[k] /\ after[k] = Abs(target) * o.price
    BY <1>1, <1>4, <1>5, Zenon
  <2>3. GrossNotional(quantity, price) = SumOf(after)
        /\ GrossNotional(Quantities, LastPrices) = SumOf(before)
    BY Zenon DEF GrossNotional
  <2> HIDE DEF before, after
  <2>4. SumOf(after) = SumOf(before) - before[k] + after[k]
    BY <1>1, <2>1, <2>2, SumExchanges, Zenon
  <2> QED BY <2>2, <2>3, <2>4, Zenon
<1> QED BY <1>2, <1>7, <1>8, <1>9, Zenon DEF k, target

\* The fill of an approved order brings the positions and prices validate_order looked at.
LEMMA FillOfApproved ==
  ASSUME PortfolioTypes, NEW o \in Orders, ApplyFill(o), Approves(o)
  PROVE  FilledWithin(o)'
<1> DEFINE quantity == [Quantities EXCEPT ![o.instrument] = TargetQuantity(o)]
           price == [LastPrices EXCEPT ![o.instrument] = o.price]
<1>1. o.instrument \in Instruments /\ o.price \in Nat
  BY OrderTyped
<1>2. Quantities' = quantity /\ LastPrices' = price
  BY <1>1, FillChanges, Zenon DEF Quantities, LastPrices
<1>3. quantity[o.instrument] = TargetQuantity(o) /\ price[o.instrument] = o.price
  BY <1>1, SMTT(30) DEF Quantities, LastPrices
<1>4. /\ ~(Net(quantity) > Limits.net)
      /\ ~(Gross(quantity) > Limits.gross)
      /\ ~(GrossNotional(quantity, price) > Limits.notional)
  BY SumsAfter, Zenon DEF Approves, Net
<1>5. /\ ~(Abs(TargetQuantity(o)) * o.price > Limits.concentration)
      /\ ~Exceeds(ExpectedShortfallSquare, Variance(Cash(quantity, price)),
                  Limits.expectedShortfall)
      /\ ~Exceeds(ParametricVarSquare, Variance(Cash(quantity, price)), Limits.parametricVar)
  BY Zenon DEF Approves, OrderFits, ProjectedCash
<1> HIDE DEF quantity, price
<1>6. Breaches' \subseteq {"loss", "concentration"}
  <2>1. /\ ~(Net(Quantities') > Limits.net)
        /\ ~(Gross(Quantities') > Limits.gross)
        /\ ~(GrossNotional(Quantities', LastPrices') > Limits.notional)
        /\ ~Exceeds(ExpectedShortfallSquare, Variance(Cash(Quantities', LastPrices')),
                    Limits.expectedShortfall)
        /\ ~Exceeds(ParametricVarSquare, Variance(Cash(Quantities', LastPrices')),
                    Limits.parametricVar)
    BY <1>2, <1>4, <1>5
  <2> QED BY <2>1 DEF Breaches
<1>7. Abs(TargetQuantity(o)) * o.price <= Limits.concentration
  <2>1. Abs(TargetQuantity(o)) \in Int
    BY FillChanges DEF Abs
  <2>2. Abs(TargetQuantity(o)) * o.price \in Int /\ Limits.concentration \in Int
    BY <1>1, <2>1, PortfolioAssumption, SMTT(30)
  <2> QED BY <1>5, <2>2
<1> QED BY <1>2, <1>3, <1>6, <1>7 DEF FilledWithin

\* Registering a locate takes no approval back.
LEMMA LocateKeepsApproval ==
  ASSUME PortfolioTypes, NEW i \in Located, RegisterLocate(i), NEW o \in Orders, Approves(o)
  PROVE  Approves(o)'
<1>1. positions' = positions
  BY DEF RegisterLocate
<1>2. TargetQuantity(o)' = TargetQuantity(o) /\ ShortIncrease(o)' = ShortIncrease(o)
  BY <1>1 DEF TargetQuantity, ShortIncrease
<1>3. Quantities' = Quantities /\ LastPrices' = LastPrices
  BY <1>1 DEF Quantities, LastPrices
<1>4. (NeedsLocate(o) => HasLocates(o)) => (NeedsLocate(o) => HasLocates(o))'
  <2>1. o.instrument \in Instruments /\ i \in Instruments
    BY OrderTyped DEF Located
  <2>2. locates[o.instrument] \in Int /\ locates[o.instrument] <= locates'[o.instrument]
        /\ locates'[o.instrument] \in Int
    BY <2>1 DEF RegisterLocate, PortfolioTypes
  <2>3. ShortIncrease(o) \in Int
    <3>1. o.side * o.quantity \in Int
      BY OrderTyped
    <3>2. positions[o.instrument].quantity \in Int /\ TargetQuantity(o) \in Int
      BY <2>1, <3>1 DEF TargetQuantity, PortfolioTypes
    <3> QED BY <3>2, ShortIncreaseIs DEF Short
  <2>4. HasLocates(o) => HasLocates(o)'
    BY <1>2, <2>2, <2>3 DEF HasLocates
  <2>5. NeedsLocate(o)' <=> NeedsLocate(o)
    BY <1>2 DEF NeedsLocate, OpensShort, Located
  <2> QED BY <2>4, <2>5
<1>5. ShortAllowed(o)' <=> ShortAllowed(o)
  BY <1>2 DEF ShortAllowed, OpensShort
<1>6. ProjectedCash(o)' = ProjectedCash(o)
  BY <1>2, <1>3, Zenon DEF ProjectedCash
<1>7. OrderFits(o) => OrderFits(o)'
  BY <1>2, <1>4, <1>5, <1>6, Zenon DEF OrderFits
<1> QED BY <1>1, <1>2, <1>3, <1>7, Zenon DEF Approves

\* An order that validate_order approved is not refused by apply_fill, and filled next it
\* breaches none of the limits validate_order answers for.
THEOREM ApprovalHoldsAlways == PortfolioSpec => []ApprovalHolds
<1>1. PortfolioInit => ApprovalInv
  BY DEF PortfolioInit, Unasked, ApprovalInv
<1>2. PortfolioTypes /\ ApprovalInv /\ [PortfolioNext]_portfolioVars => ApprovalInv'
  <2> SUFFICES ASSUME PortfolioTypes, ApprovalInv, [PortfolioNext]_portfolioVars
               PROVE  ApprovalInv'
    OBVIOUS
  <2>1. ASSUME NEW o \in Orders, ApplyFill(o) PROVE ApprovalInv'
    <3>1. CASE Approved(o)
      <4>1. answer' = [order |-> o, is |-> "filled"] /\ Approves(o)
        BY <2>1, <3>1 DEF ApplyFill, Approved, ApprovalInv
      <4>2. FilledWithin(o)'
        BY <2>1, <4>1, FillOfApproved
      <4>3. \A d : d = o => (FilledWithin(d)' <=> FilledWithin(o)')
        OBVIOUS
      <4> QED BY <4>1, <4>2, <4>3 DEF ApprovalInv
    <3>2. CASE ~Approved(o)
      BY <2>1, <3>2 DEF ApplyFill, Unasked, ApprovalInv
    <3> QED BY <3>1, <3>2
  <2>2. ASSUME NEW o \in Orders, ValidateOrder(o) PROVE ApprovalInv'
    <3>1. /\ answer'.order = o /\ answer'.is # "filled"
          /\ answer'.is = "approved" => Approves(o)
      BY <2>2 DEF ValidateOrder
    <3>2. UNCHANGED <<positions, locates>>
      BY <2>2 DEF ValidateOrder
    <3>3. Approves(o) => Approves(o)'
      BY <3>2, ApprovesStays
    <3> QED BY <3>1, <3>3 DEF ApprovalInv
  <2>3. ASSUME NEW i \in Located, RegisterLocate(i) PROVE ApprovalInv'
    <3>1. answer' = answer /\ positions' = positions
      BY <2>3 DEF RegisterLocate
    <3>2. \A o \in Orders : Approves(o) => Approves(o)'
      BY <2>3, LocateKeepsApproval
    <3>3. \A o : FilledWithin(o) => FilledWithin(o)'
      BY <3>1, FilledWithinStays
    <3> QED BY <3>1, <3>2, <3>3 DEF ApprovalInv, PortfolioTypes
  <2>4. CASE UNCHANGED portfolioVars
    <3>1. UNCHANGED <<positions, locates, answer>>
      BY <2>4 DEF portfolioVars
    <3>2. \A o : Approves(o) => Approves(o)'
      BY <3>1, ApprovesStays
    <3>3. \A o : FilledWithin(o) => FilledWithin(o)'
      BY <3>1, FilledWithinStays, SMTT(30)
    <3> QED BY <3>1, <3>2, <3>3 DEF ApprovalInv
  <2> QED BY <2>1, <2>2, <2>3, <2>4 DEF PortfolioNext
<1>3. ApprovalInv => ApprovalHolds
  BY Zenon DEF ApprovalInv, ApprovalHolds, FilledWithin, Approves, OrderFits
<1> QED BY <1>1, <1>2, <1>3, PortfolioTypesAlways, PTL DEF PortfolioSpec

-----------------------------------------------------------------------------
(* The profit of a portfolio                                               *)
(*                                                                         *)
(* Averages and profits are fractions; a position balances if, over one    *)
(* denominator, what it realized is what it holds at its average less what *)
(* its fills cost.                                                         *)

\* A numerator and a denominator.
Fractions == Int \X (Nat \ {0})

\* The fraction a is the number x / d.
Is(a, x, d) == a[1] * d = x * a[2]

\* A number that leaves no rest is its quotient times the divisor.
LEMMA Divides ==
  ASSUME NEW n \in Int, NEW k \in Nat \ {0}, n % k = 0
  PROVE  n \div k \in Int /\ n = k * (n \div k)
  OBVIOUS

\* A common factor cancels.
LEMMA Cancel ==
  ASSUME NEW k \in Nat \ {0}, NEW x \in Int, NEW y \in Int, k * x = k * y
  PROVE  x = y
  OBVIOUS

\* The average in lowest terms is the same number.
LEMMA FractionIs ==
  ASSUME NEW n \in Int, NEW d \in Nat \ {0}
  PROVE  Fraction(n, d) \in Fractions /\ Is(Fraction(n, d), n, d)
<1> DEFINE S == {k \in 1 .. d : d % k = 0 /\ n % k = 0}
           g == Max(S)
<1>1. S \in SUBSET Nat /\ \A k \in S : k <= d
  OBVIOUS
<1>2. 1 \in S
  OBVIOUS
<1>3. g \in S
  <2> HIDE DEF S
  <2> QED BY <1>1, <1>2, MaxIsMember
<1>4. g \in Nat \ {0} /\ d % g = 0 /\ n % g = 0
  BY <1>3
<1>5. Fraction(n, d) = <<n \div g, d \div g>>
  BY DEF Fraction
<1> HIDE DEF g
<1> DEFINE a == n \div g
           b == d \div g
<1>6. a \in Int /\ n = g * a /\ b \in Int /\ d = g * b
  BY <1>4, Divides
<1>7. b \in Nat \ {0}
  <2> HIDE DEF b
  <2> QED BY <1>4, <1>6
<1>8. a * d = n * b
  <2> HIDE DEF a, b
  <2>1. a * (g * b) = (g * a) * b
    BY <1>4, <1>6
  <2> QED BY <1>6, <2>1
<1> QED BY <1>5, <1>6, <1>7, <1>8 DEF Is, Fractions

\* A whole price or cost, over any denominator.
LEMMA WholeIs ==
  ASSUME NEW n \in Int, NEW d \in Nat \ {0}
  PROVE  Whole(n) \in Fractions /\ Is(Whole(n), n * d, d)
  BY DEF Whole, Fractions, Is

\* The sum of two numbers.
LEMMA PlusIs ==
  ASSUME NEW a \in Fractions, NEW b \in Fractions, NEW x \in Int, NEW y \in Int,
         NEW d \in Nat \ {0}, Is(a, x, d), Is(b, y, d)
  PROVE  Plus(a, b) \in Fractions /\ Is(Plus(a, b), x + y, d)
<1> DEFINE n == a[1] * b[2] + b[1] * a[2]
           e == a[2] * b[2]
           f == Fraction(n, e)
<1>1. a[1] \in Int /\ a[2] \in Nat \ {0} /\ b[1] \in Int /\ b[2] \in Nat \ {0}
  BY DEF Fractions
<1>2. n \in Int /\ e \in Nat \ {0}
  BY <1>1
<1>3. Plus(a, b) = f
  BY DEF Plus
<1>4. n * d = (x + y) * e
  <2>1. n * d = (a[1] * d) * b[2] + (b[1] * d) * a[2]
    BY <1>1
  <2>2. n * d = (x * a[2]) * b[2] + (y * b[2]) * a[2]
    BY <2>1 DEF Is
  <2>3. (x * a[2]) * b[2] + (y * b[2]) * a[2] = (x + y) * e
    BY <1>1
  <2> QED BY <2>2, <2>3
<1> HIDE DEF n, e
<1>5. f \in Fractions /\ f[1] * e = n * f[2]
  BY <1>2, FractionIs DEF Is
<1>6. f[1] \in Int /\ f[2] \in Nat \ {0}
  BY <1>5 DEF Fractions
<1> HIDE DEF f
<1>7. e * (f[1] * d) = e * ((x + y) * f[2])
  <2>1. e * (f[1] * d) = (f[1] * e) * d
    BY <1>2, <1>6
  <2>2. e * (f[1] * d) = (n * f[2]) * d
    BY <1>5, <2>1
  <2>3. (n * f[2]) * d = (n * d) * f[2]
    BY <1>2, <1>6
  <2>4. e * (f[1] * d) = ((x + y) * e) * f[2]
    BY <1>4, <2>2, <2>3
  <2>5. ((x + y) * e) * f[2] = e * ((x + y) * f[2])
    BY <1>2, <1>6
  <2> QED BY <2>4, <2>5
<1>8. f[1] * d \in Int /\ (x + y) * f[2] \in Int
  BY <1>6
<1>9. f[1] * d = (x + y) * f[2]
  BY <1>2, <1>7, <1>8, Cancel
<1> QED BY <1>3, <1>5, <1>9 DEF Is

\* A multiple of a number.
LEMMA TimesIs ==
  ASSUME NEW a \in Fractions, NEW x \in Int, NEW d \in Nat \ {0}, Is(a, x, d), NEW k \in Int
  PROVE  Times(k, a) \in Fractions /\ Is(Times(k, a), k * x, d)
<1> DEFINE n == k * a[1]
           e == a[2]
           f == Fraction(n, e)
<1>1. a[1] \in Int /\ e \in Nat \ {0} /\ n \in Int
  BY DEF Fractions
<1>2. Times(k, a) = f
  BY DEF Times
<1>3. n * d = (k * x) * e
  <2>1. n * d = k * (a[1] * d)
    BY <1>1
  <2>2. n * d = k * (x * e)
    BY <2>1 DEF Is
  <2> QED BY <1>1, <2>2
<1> HIDE DEF n, e
<1>4. f \in Fractions /\ f[1] * e = n * f[2]
  BY <1>1, FractionIs DEF Is
<1>5. f[1] \in Int /\ f[2] \in Nat \ {0}
  BY <1>4 DEF Fractions
<1> HIDE DEF f
<1>6. e * (f[1] * d) = e * ((k * x) * f[2])
  <2>1. e * (f[1] * d) = (f[1] * e) * d
    BY <1>1, <1>5
  <2>2. e * (f[1] * d) = (n * f[2]) * d
    BY <1>4, <2>1
  <2>3. (n * f[2]) * d = (n * d) * f[2]
    BY <1>1, <1>5
  <2>4. e * (f[1] * d) = ((k * x) * e) * f[2]
    BY <1>3, <2>2, <2>3
  <2>5. ((k * x) * e) * f[2] = e * ((k * x) * f[2])
    BY <1>1, <1>5
  <2> QED BY <2>4, <2>5
<1>7. f[1] * d \in Int /\ (k * x) * f[2] \in Int
  BY <1>5
<1>8. f[1] * d = (k * x) * f[2]
  BY <1>1, <1>6, <1>7, Cancel
<1> QED BY <1>2, <1>4, <1>8 DEF Is

\* A difference.
LEMMA MinusIs ==
  ASSUME NEW a \in Fractions, NEW b \in Fractions, NEW x \in Int, NEW y \in Int,
         NEW d \in Nat \ {0}, Is(a, x, d), Is(b, y, d)
  PROVE  Minus(a, b) \in Fractions /\ Is(Minus(a, b), x - y, d)
<1> DEFINE m == -1
<1>1. m \in Int /\ m * y \in Int /\ x + m * y = x - y
  OBVIOUS
<1>2. Minus(a, b) = Plus(a, Times(m, b))
  BY DEF Minus
<1> HIDE DEF m
<1>3. Times(m, b) \in Fractions /\ Is(Times(m, b), m * y, d)
  BY <1>1, TimesIs, Zenon
<1>4. Plus(a, Times(m, b)) \in Fractions /\ Is(Plus(a, Times(m, b)), x + m * y, d)
  BY <1>1, <1>3, PlusIs
<1> QED BY <1>1, <1>2, <1>4

\* Two fractions of one number are equal.
LEMMA SameNumber ==
  ASSUME NEW a \in Fractions, NEW b \in Fractions, NEW x \in Int, NEW d \in Nat \ {0},
         Is(a, x, d), Is(b, x, d)
  PROVE  Equal(a, b)
<1>1. a[1] \in Int /\ a[2] \in Nat \ {0} /\ b[1] \in Int /\ b[2] \in Nat \ {0}
  BY DEF Fractions
<1>2. d * (a[1] * b[2]) = (x * a[2]) * b[2]
  <2>1. d * (a[1] * b[2]) = (a[1] * d) * b[2]
    BY <1>1
  <2> QED BY <2>1 DEF Is
<1>3. d * (b[1] * a[2]) = (x * b[2]) * a[2]
  <2>1. d * (b[1] * a[2]) = (b[1] * d) * a[2]
    BY <1>1
  <2> QED BY <2>1 DEF Is
<1>4. (x * a[2]) * b[2] = (x * b[2]) * a[2]
  BY <1>1
<1>5. a[1] * b[2] \in Int /\ b[1] * a[2] \in Int
  BY <1>1
<1>6. d * (a[1] * b[2]) = d * (b[1] * a[2])
  BY <1>2, <1>3, <1>4
<1>7. a[1] * b[2] = b[1] * a[2]
  BY <1>5, <1>6, Cancel
<1> QED BY <1>7 DEF Equal

\* The same number with a larger denominator.
LEMMA Rescale ==
  ASSUME NEW a \in Fractions, NEW x \in Int, NEW d \in Nat \ {0}, Is(a, x, d), NEW k \in Nat \ {0}
  PROVE  Is(a, x * k, d * k)
<1>1. a[1] \in Int /\ a[2] \in Nat \ {0}
  BY DEF Fractions
<1>2. a[1] * (d * k) = (a[1] * d) * k /\ (x * k) * a[2] = (x * a[2]) * k
  BY <1>1
<1> QED BY <1>2 DEF Is

\* What a position of q with average x / d that cost s has made, before and after a fill
\* of n on its side t at price p.
LEMMA IncreaseKeepsProfit ==
  ASSUME NEW q \in Int, NEW x \in Int, NEW d \in Int, NEW s \in Int, NEW t \in Int,
         NEW n \in Int, NEW p \in Int, NEW h \in Int, q = t * h
  PROVE  (q * x - s * d) * (h + n)
           = (q + t * n) * (h * x + n * p * d) - (s + t * n * p) * (d * (h + n))
<1>1. (t * h * x - s * d) * (h + n)
        = (t * h + t * n) * (h * x + n * p * d) - (s + t * n * p) * (d * (h + n))
  OBVIOUS
<1> QED BY <1>1

\* The same of a fill that closes a part of the position, at its average.
LEMMA ReductionKeepsProfit ==
  ASSUME NEW q \in Int, NEW x \in Int, NEW d \in Int, NEW s \in Int, NEW t \in Int,
         NEW n \in Int, NEW p \in Int
  PROVE  (q * x - s * d) + (-t * n) * (p * d - x) = (q + t * n) * x - (s + t * n * p) * d
  OBVIOUS

\* The same of a fill that closes the whole position of h and opens the other side.
LEMMA ReversalKeepsProfit ==
  ASSUME NEW q \in Int, NEW x \in Int, NEW d \in Int, NEW s \in Int, NEW t \in Int,
         NEW n \in Int, NEW p \in Int, NEW h \in Int, q = -t * h
  PROVE  (q * x - s * d) + (-t * h) * (p * d - x)
           = (q + t * n) * (p * d) - (s + t * n * p) * d
<1>1. (-t * h * x - s * d) + (-t * h) * (p * d - x)
        = (-t * h + t * n) * (p * d) - (s + t * n * p) * d
  OBVIOUS
<1> QED BY <1>1

\* The realized profit of a position is what it is worth at its average less its cost.
Balanced(p, cost, x, y, d) ==
  Is(p.average, x, d) /\ Is(p.realized, y, d) /\ y = p.quantity * x - cost * d

\* A position is accounted for if some denominator makes it balance.
Accounts(p, cost) ==
  /\ p.quantity \in Int /\ p.average \in Fractions /\ p.realized \in Fractions /\ cost \in Int
  /\ \E d \in Nat \ {0}, x \in Int, y \in Int : Balanced(p, cost, x, y, d)

\* A fill on the side of a position averages its price in and realizes nothing.
LEMMA IncreaseAccounts ==
  ASSUME NEW p, NEW cost, Accounts(p, cost), NEW o \in Orders, p.quantity * o.side >= 0
  PROVE  Accounts(Filled(p, o), cost + o.side * o.quantity * o.price)
<1> DEFINE q == p.quantity
           t == o.side
           n == o.quantity
           c == o.price
           h == Abs(q)
           a == p.average
           after == Filled(p, o)
<1>1. t \in {-1, 1} /\ n \in Nat \ {0} /\ c \in Nat \ {0} /\ q \in Int /\ cost \in Int
  BY OrderTyped DEF Accounts
<1>2. h \in Nat /\ q = t * h
  BY <1>1 DEF Abs
<1>3. PICK d \in Nat \ {0}, x \in Int, y \in Int : Balanced(p, cost, x, y, d)
  BY Zenon DEF Accounts
<1>4. /\ after.quantity = q + t * n /\ after.realized = Plus(p.realized, Whole(0))
      /\ after.average = Fraction(h * a[1] + n * c * a[2], (h + n) * a[2])
  BY Zenon DEF Filled, Average, ClosingPnl
<1>5. /\ a \in Fractions /\ a[1] \in Int /\ a[2] \in Nat \ {0} /\ p.realized \in Fractions
      /\ a[1] * d = x * a[2] /\ Is(p.realized, y, d) /\ y = q * x - cost * d
  BY <1>3 DEF Accounts, Balanced, Fractions, Is
<1> DEFINE k == h + n
           e == d * k
           u == h * x + n * c * d
           v == y * k
           num == h * a[1] + n * c * a[2]
           den == k * a[2]
           f == Fraction(num, den)
           w == cost + t * n * c
<1> HIDE DEF q, t, n, c, h, a, after
<1>6. /\ k \in Nat \ {0} /\ e \in Nat \ {0} /\ u \in Int /\ v \in Int /\ num \in Int
      /\ den \in Nat \ {0} /\ w \in Int /\ q + t * n \in Int
  BY <1>1, <1>2, <1>5
<1>7. after.average = f /\ f \in Fractions /\ f[1] * den = num * f[2]
  <2> HIDE DEF num, den
  <2>1. f \in Fractions /\ f[1] * den = num * f[2]
    BY <1>6, FractionIs DEF Is
  <2>2. after.average = f
    BY <1>4 DEF num, den
  <2> QED BY <2>1, <2>2
<1>8. Is(f, u, e)
  <2>1. f[1] \in Int /\ f[2] \in Nat \ {0}
    BY <1>7 DEF Fractions
  <2> HIDE DEF f
  <2>2. num * d = a[2] * u
    <3>1. num * d = h * (a[1] * d) + n * c * a[2] * d
      BY <1>1, <1>2, <1>5
    <3>2. num * d = h * (x * a[2]) + n * c * a[2] * d
      BY <1>5, <3>1
    <3>3. h * (x * a[2]) + n * c * a[2] * d = a[2] * u
      BY <1>1, <1>2, <1>5
    <3> QED BY <3>2, <3>3
  <2>3. a[2] * (f[1] * e) = a[2] * (u * f[2])
    <3> HIDE DEF num, u, k
    <3>1. a[2] * (f[1] * e) = (f[1] * den) * d
      BY <1>5, <1>6, <2>1
    <3>2. (f[1] * den) * d = (num * f[2]) * d
      <4> HIDE DEF den
      <4> QED BY <1>7
    <3>3. (num * f[2]) * d = (num * d) * f[2]
      BY <1>6, <2>1
    <3>4. (num * d) * f[2] = (a[2] * u) * f[2]
      BY <2>2
    <3>5. (a[2] * u) * f[2] = a[2] * (u * f[2])
      BY <1>5, <1>6, <2>1
    <3> HIDE DEF e, den
    <3> QED BY <3>1, <3>2, <3>3, <3>4, <3>5
  <2> HIDE DEF e, u
  <2>4. f[1] * e \in Int /\ u * f[2] \in Int
    BY <1>6, <2>1
  <2>5. f[1] * e = u * f[2]
    BY <1>5, <2>3, <2>4, Cancel, Zenon
  <2> QED BY <2>5 DEF Is
<1>9. after.realized \in Fractions /\ Is(after.realized, v, e)
  <2>1. Whole(0) \in Fractions /\ Is(Whole(0), 0 * d, d)
    BY WholeIs
  <2>2. 0 * d = 0 /\ y + 0 = y
    OBVIOUS
  <2>3. Is(Whole(0), 0, d)
    BY <2>1, <2>2
  <2>4. Plus(p.realized, Whole(0)) \in Fractions /\ Is(Plus(p.realized, Whole(0)), y + 0, d)
    BY <1>5, <2>1, <2>3, PlusIs
  <2>5. after.realized \in Fractions /\ Is(after.realized, y, d)
    BY <1>4, <2>2, <2>4
  <2> HIDE DEF k
  <2> QED BY <1>6, <2>5, Rescale
<1>10. v = after.quantity * u - w * e
  <2>1. (q * x - cost * d) * (h + n)
          = (q + t * n) * (h * x + n * c * d) - (cost + t * n * c) * (d * (h + n))
    BY <1>1, <1>2, IncreaseKeepsProfit, SMTT(30)
  <2> QED BY <1>4, <1>5, <2>1
<1>11. Balanced(after, w, u, v, e)
  BY <1>7, <1>8, <1>9, <1>10 DEF Balanced
<1>12. Accounts(after, w)
  <2> HIDE DEF e, u, v, w, f
  <2> QED BY <1>4, <1>6, <1>7, <1>9, <1>11, Zenon DEF Accounts
<1> QED BY <1>12 DEF after, t, n, c

\* A fill against a position realizes what the closed part made; what is left keeps its
\* average, and a fill through zero starts again.
LEMMA ReductionAccounts ==
  ASSUME NEW p, NEW cost, Accounts(p, cost), NEW o \in Orders, ~(p.quantity * o.side >= 0)
  PROVE  Accounts(Filled(p, o), cost + o.side * o.quantity * o.price)
<1> DEFINE q == p.quantity
           t == o.side
           n == o.quantity
           c == o.price
           h == Abs(q)
           a == p.average
           m == Min({h, n})
           after == Filled(p, o)
           pnl == Times(-t * m, Minus(Whole(c), a))
           w == cost + t * n * c
<1>1. t \in {-1, 1} /\ n \in Nat \ {0} /\ c \in Nat \ {0} /\ q \in Int /\ cost \in Int
  BY OrderTyped DEF Accounts
<1>2. h \in Nat /\ q = -t * h /\ q = -(t * h)
  BY <1>1 DEF Abs
<1>3. PICK d \in Nat \ {0}, x \in Int, y \in Int : Balanced(p, cost, x, y, d)
  BY Zenon DEF Accounts
<1>4. /\ after.quantity = q + t * n /\ after.realized = Plus(p.realized, pnl)
      /\ after.average = IF n = h THEN Whole(0) ELSE IF n > h THEN Whole(c) ELSE a
  BY Zenon DEF Filled, Average, ClosingPnl
<1>5. /\ a \in Fractions /\ p.realized \in Fractions
      /\ Is(a, x, d) /\ Is(p.realized, y, d) /\ y = q * x - cost * d
  BY <1>3 DEF Accounts, Balanced
<1> HIDE DEF q, t, n, c, h, a, after
<1>6. m = IF h <= n THEN h ELSE n
  <2> DEFINE k == IF h <= n THEN h ELSE n
  <2>1. k \in {h, n} /\ \A z \in {h, n} : k <= z
    BY <1>1, <1>2
  <2>2. \A z \in {h, n} : (\A g \in {h, n} : z <= g) => z = k
    BY <1>1, <1>2
  <2> QED BY <2>1, <2>2 DEF Min
<1> DEFINE r == -t * m
           v == y + r * (c * d - x)
<1>7. m \in Nat /\ r \in Int /\ v \in Int /\ w \in Int /\ q + t * n \in Int /\ c * d - x \in Int
  <2>1. m \in Nat
    BY <1>1, <1>2, <1>6
  <2> HIDE DEF m
  <2> QED BY <1>1, <1>2, <2>1
<1> HIDE DEF m
<1>8. after.realized \in Fractions /\ Is(after.realized, v, d)
  <2>1. Whole(c) \in Fractions /\ Is(Whole(c), c * d, d) /\ c * d \in Int
    BY <1>1, WholeIs
  <2>2. Minus(Whole(c), a) \in Fractions /\ Is(Minus(Whole(c), a), c * d - x, d)
    BY <1>5, <2>1, MinusIs
  <2> DEFINE z == c * d - x
             g == Minus(Whole(c), a)
  <2> HIDE DEF r, z, g
  <2>3. Times(r, g) \in Fractions /\ Is(Times(r, g), r * z, d) /\ r * z \in Int
    BY <1>7, <2>2, TimesIs DEF z, g
  <2>4. pnl = Times(r, g)
    BY DEF r, g
  <2>5. Plus(p.realized, Times(r, g)) \in Fractions /\ Is(Plus(p.realized, Times(r, g)), y + r * z, d)
    BY <1>5, <2>3, PlusIs
  <2> QED BY <1>4, <2>4, <2>5 DEF z
<1>9. CASE n < h
  <2>1. after.average = a /\ m = n
    BY <1>1, <1>2, <1>4, <1>6, <1>9, SMTT(30)
  <2>2. v = after.quantity * x - w * d
    <3>1. (q * x - cost * d) + (-t * n) * (c * d - x) = (q + t * n) * x - (cost + t * n * c) * d
      BY <1>1, ReductionKeepsProfit
    <3> QED BY <1>4, <1>5, <2>1, <3>1
  <2>3. Balanced(after, w, x, v, d)
    BY <1>5, <1>8, <2>1, <2>2 DEF Balanced
  <2> HIDE DEF v, w
  <2>4. Accounts(after, w)
    BY <1>4, <1>5, <1>7, <1>8, <2>1, <2>3, Zenon DEF Accounts
  <2> QED BY <2>4 DEF after, t, n, c, w
<1>10. CASE n >= h
  <2>1. m = h
    BY <1>6, <1>10
  <2>2. v = (q + t * n) * (c * d) - w * d
    <3>1. (q * x - cost * d) + (-t * h) * (c * d - x)
            = (q + t * n) * (c * d) - (cost + t * n * c) * d
      BY <1>1, <1>2, ReversalKeepsProfit
    <3> QED BY <1>5, <2>1, <3>1
  <2>3. CASE n = h
    <3>1. after.average = Whole(0) /\ Whole(0) \in Fractions /\ Is(Whole(0), 0, d)
      <4>1. Whole(0) \in Fractions /\ Is(Whole(0), 0 * d, d) /\ 0 * d = 0
        BY WholeIs
      <4> QED BY <1>4, <2>3, <4>1
    <3>2. after.quantity = 0
      <4>1. t * n = t * h /\ t * h \in Int
        BY <1>1, <1>2, <2>3
      <4> QED BY <1>2, <1>4, <4>1
    <3>3. v = after.quantity * 0 - w * d
      <4>1. q + t * n = 0
        BY <1>4, <3>2
      <4>2. 0 * (c * d) = 0 /\ after.quantity * 0 = 0
        BY <1>1, <3>2
      <4> HIDE DEF v, w
      <4> QED BY <2>2, <4>1, <4>2
    <3>4. Balanced(after, w, 0, v, d)
      BY <1>8, <3>1, <3>3 DEF Balanced
    <3> HIDE DEF v, w
    <3>5. Accounts(after, w)
      <4>1. \E z \in Int : Balanced(after, w, z, v, d)
        BY <3>4
      <4>2. after.quantity \in Int /\ after.average \in Fractions
        BY <3>1, <3>2
      <4> QED BY <1>7, <1>8, <4>1, <4>2, Zenon DEF Accounts
    <3> QED BY <3>5 DEF after, t, n, c, w
  <2>4. CASE n > h
    <3>1. after.average = Whole(c)
      BY <1>1, <1>2, <1>4, <2>4, SMTT(30)
    <3>2. Whole(c) \in Fractions /\ Is(Whole(c), c * d, d) /\ c * d \in Int
      BY <1>1, WholeIs
    <3>3. Balanced(after, w, c * d, v, d)
      BY <1>4, <1>8, <2>2, <3>1, <3>2 DEF Balanced
    <3> HIDE DEF v, w
    <3>4. Accounts(after, w)
      BY <1>4, <1>7, <1>8, <3>1, <3>2, <3>3, Zenon DEF Accounts
    <3> QED BY <3>4 DEF after, t, n, c, w
  <2> QED BY <1>1, <1>2, <1>10, <2>3, <2>4
<1> QED BY <1>1, <1>2, <1>9, <1>10

\* ProfitIsCash made inductive: every position is accounted for.
AllAccount ==
  /\ DOMAIN positions = Instruments /\ DOMAIN spent = Instruments
  /\ \A i \in Instruments : Accounts(positions[i], spent[i])

\* An empty position cost nothing and made nothing.
LEMMA FlatAccounts == Accounts(Flat, 0)
<1>1. /\ Flat.quantity = 0 /\ Flat.average = Whole(0) /\ Flat.realized = Whole(0)
      /\ Whole(0) \in Fractions
  BY DEF Flat, Whole, Fractions
<1>2. Is(Whole(0), 0, 1)
  BY DEF Is, Whole
<1>3. Balanced(Flat, 0, 0, 0, 1)
  BY <1>1, <1>2 DEF Balanced
<1>4. \E d \in Nat \ {0}, x \in Int, y \in Int : Balanced(Flat, 0, x, y, d)
  <2>1. 1 \in Nat \ {0} /\ 0 \in Int
    OBVIOUS
  <2> HIDE DEF Balanced
  <2> QED BY <1>3, <2>1
<1>5. Flat.quantity \in Int /\ Flat.average \in Fractions /\ Flat.realized \in Fractions
      /\ 0 \in Int
  BY <1>1
<1> QED BY <1>4, <1>5, Zenon DEF Accounts

\* Every call keeps the accounts.
LEMMA AccountsStep == AllAccount /\ [PortfolioNext]_portfolioVars => AllAccount'
<1> SUFFICES ASSUME AllAccount, [PortfolioNext]_portfolioVars PROVE AllAccount'
  OBVIOUS
<1>1. ASSUME NEW o \in Orders, ApplyFill(o) PROVE AllAccount'
  <2> DEFINE j == o.instrument
             more == o.side * o.quantity * o.price
  <2>1. /\ positions' = [positions EXCEPT ![j] = Filled(positions[j], o)]
        /\ spent' = [spent EXCEPT ![j] = spent[j] + more] /\ j \in Instruments
    BY <1>1, OrderTyped, SMTT(30) DEF ApplyFill
  <2>2. Accounts(Filled(positions[j], o), spent[j] + more)
    <3>1. Accounts(positions[j], spent[j])
      BY <2>1 DEF AllAccount
    <3> QED BY <3>1, IncreaseAccounts, ReductionAccounts
  <2> HIDE DEF j, more
  <2> QED BY <2>1, <2>2 DEF AllAccount
<1>2. CASE UNCHANGED <<positions, spent>>
  BY <1>2 DEF AllAccount
<1> QED BY <1>1, <1>2 DEF PortfolioNext, ValidateOrder, RegisterLocate, portfolioVars

\* Whatever fills came, through zero and back, the realized profit of an instrument is
\* what its position is worth at its average less what the fills cost (apply_fill).
THEOREM ProfitIsCashAlways == PortfolioSpec => []ProfitIsCash
<1>1. PortfolioInit => AllAccount
  BY FlatAccounts DEF PortfolioInit, AllAccount
<1>2. AllAccount => ProfitIsCash
  <2> SUFFICES ASSUME AllAccount, NEW i \in Instruments
               PROVE  Equal(positions[i].realized,
                            Minus(Times(positions[i].quantity, positions[i].average),
                                  Whole(spent[i])))
    BY DEF ProfitIsCash
  <2> DEFINE p == positions[i]
             cost == spent[i]
  <2>1. Accounts(p, cost)
    BY DEF AllAccount
  <2> HIDE DEF p, cost
  <2>2. PICK d \in Nat \ {0}, x \in Int, y \in Int : Balanced(p, cost, x, y, d)
    BY <2>1 DEF Accounts
  <2>3. /\ p.quantity \in Int /\ p.average \in Fractions /\ p.realized \in Fractions /\ cost \in Int
        /\ Is(p.average, x, d) /\ Is(p.realized, y, d) /\ y = p.quantity * x - cost * d
    BY <2>1, <2>2 DEF Accounts, Balanced
  <2>4. Times(p.quantity, p.average) \in Fractions /\ Is(Times(p.quantity, p.average), p.quantity * x, d)
    BY <2>3, TimesIs, Zenon
  <2>5. Whole(cost) \in Fractions /\ Is(Whole(cost), cost * d, d)
    BY <2>3, WholeIs, Zenon
  <2> DEFINE worth == Times(p.quantity, p.average)
             u == p.quantity * x
             v == cost * d
  <2>6. u \in Int /\ v \in Int
    BY <2>3
  <2>7. Minus(worth, Whole(cost)) \in Fractions /\ Is(Minus(worth, Whole(cost)), u - v, d)
    <3> HIDE DEF worth, u, v
    <3> QED BY <2>4, <2>5, <2>6, MinusIs, Zenon DEF worth, u, v
  <2>8. Equal(p.realized, Minus(worth, Whole(cost)))
    <3>1. Is(Minus(worth, Whole(cost)), y, d)
      BY <2>3, <2>7
    <3> HIDE DEF worth, u, v
    <3> QED BY <2>3, <2>7, <3>1, SameNumber, Zenon
  <2> QED BY <2>8 DEF p, cost
<1> QED BY <1>1, <1>2, AccountsStep, PTL DEF PortfolioSpec

=============================================================================
