---------------------------- MODULE RecordProofs ----------------------------
(***************************************************************************)
(* Theorems about what a reply says and what is recorded of it: Pricing,   *)
(* for any groups, candidates, tariffs and freights; ReplyChecks and       *)
(* Audits, for any products, words, cases and labels that are finite; and  *)
(* TurnRecord, for every set of processes and facts, every number of turns *)
(* and every room for sources.                                             *)
(***************************************************************************)
EXTENDS TurnRecord, Audits, OrderingProofs, FunctionTheorems, FiniteSetTheorems, TLAPS

-----------------------------------------------------------------------------
(***************************************************************************)
(* Numbers and prices                                                      *)
(*                                                                         *)
(* PricesIInv says of a call what has been made of its arguments, and      *)
(* BestSoFar of the search that the best combination can be paid and that  *)
(* none of those considered so far is better.  When all have been, it is   *)
(* the best of all.                                                        *)
(***************************************************************************)

\* Products of numbers.
LEMMA Multiples ==
  /\ \A x, y \in Int : x * y \in Int
  /\ \A x, y \in Nat : x * y \in Nat
  /\ \A x, y \in Nat \ {0} : x * y \in Nat \ {0} /\ x * y >= x
OBVIOUS

\* Division with a remainder.
LEMMA DivisionFacts ==
  ASSUME NEW n \in Int, NEW d \in Nat \ {0}
  PROVE  /\ n \div d \in Int /\ n % d \in 0..(d - 1)
         /\ n = d * (n \div d) + (n % d)
OBVIOUS

\* Division is the only way to take a number apart like that.
LEMMA DivisionIsUnique ==
  ASSUME NEW d \in Nat \ {0}, NEW q \in Int, NEW p \in Int, NEW r \in 0..(d - 1), NEW s \in 0..(d - 1),
         d * q + r = d * p + s
  PROVE  q = p /\ r = s
<1>1. ASSUME NEW a \in Int, NEW b \in Int, NEW x \in 0..(d - 1), NEW y \in 0..(d - 1),
             d * a + x = d * b + y, a < b
      PROVE  FALSE
  <2>1. d * (b - a) = d * b - d * a /\ d * a \in Int /\ d * b \in Int
    OBVIOUS
  <2>2. d * (b - a) >= d
    BY <1>1, Multiples
  <2> QED BY <1>1, <2>1, <2>2
<1>2. ~(q < p)
  BY <1>1
<1>3. ~(p < q)
  BY <1>1
<1>4. q = p
  BY <1>2, <1>3
<1>5. d * q \in Int
  OBVIOUS
<1> QED BY <1>4, <1>5

\* Rounding errs by half the divisor at most.
LEMMA RoundFacts ==
  ASSUME NEW n \in Int, NEW d \in Nat \ {0}
  PROVE  /\ Round(n, d) \in Int
         /\ 2 * (d * Round(n, d)) <= 2 * n + d /\ 2 * n <= 2 * (d * Round(n, d)) + d
         /\ n >= 0 => Round(n, d) \in Nat
<1> DEFINE q == n \div d
           r == n % d
<1>1. q \in Int /\ r \in 0..(d - 1) /\ n = d * q + r
  BY DivisionFacts
<1>2. (Round(n, d) = q + 1 /\ 2 * r >= d) \/ (Round(n, d) = q /\ 2 * r <= d)
  BY <1>1 DEF Round
<1> HIDE DEF q, r
<1>3. d * (q + 1) = d * q + d /\ d * q \in Int
  BY <1>1
<1>4. n >= 0 => q >= 0
  <2> SUFFICES ASSUME n >= 0, q <= -1 PROVE FALSE
    BY <1>1
  <2>1. d * (-q) >= d /\ d * (-q) = -(d * q)
    BY <1>1, Multiples
  <2> QED BY <1>1, <1>3, <2>1
<1>5. Round(n, d) = q + 1 => d * Round(n, d) = d * q + d
  BY <1>3
<1>6. Round(n, d) = q => d * Round(n, d) = d * q
  OBVIOUS
<1> QED
  <2> DEFINE R == Round(n, d)
             x == d * q
             y == d * R
  <2>1. /\ (R = q + 1 /\ 2 * r >= d) \/ (R = q /\ 2 * r <= d)
        /\ R = q + 1 => y = x + d
        /\ R = q => y = x
        /\ x \in Int /\ n = x + r
    BY <1>1, <1>2, <1>3, <1>5, <1>6
  <2> HIDE DEF R, x, y
  <2>2. R \in Int /\ 2 * y <= 2 * n + d /\ 2 * n <= 2 * y + d /\ (n >= 0 => R \in Nat)
    BY <1>1, <1>4, <2>1
  <2> QED BY <2>2 DEF R, y

\* A positive factor keeps the order.
LEMMA Less == \A x, y \in Int : \A k \in Nat \ {0} :
                /\ x * k > y * k <=> x > y
                /\ x * k = y * k <=> x = y
<1> TAKE x, y \in Int
<1> TAKE k \in Nat \ {0}
<1>1. ASSUME NEW a \in Int, NEW b \in Int, a < b PROVE a * k < b * k
  <2>1. k * (b - a) >= k
    BY <1>1, Multiples
  <2>2. k * (b - a) = b * k - a * k /\ a * k \in Int /\ b * k \in Int
    OBVIOUS
  <2> QED BY <2>1, <2>2
<1>2. x * k \in Int /\ y * k \in Int
  OBVIOUS
<1>3. /\ x < y => x * k < y * k
      /\ y < x => y * k < x * k
      /\ x = y => x * k = y * k
  BY <1>1
<1> QED BY <1>2, <1>3

\* It is the same in every unit.
LEMMA RoundScales ==
  ASSUME NEW n \in Int, NEW d \in Nat \ {0}, NEW k \in Nat \ {0}
  PROVE  Round(n * k, d * k) = Round(n, d)
<1> DEFINE q == n \div d
           r == n % d
           D == d * k
           N == n * k
           t == r * k
<1>1. q \in Int /\ r \in 0..(d - 1) /\ n = d * q + r
  BY DivisionFacts
<1>2. D \in Nat \ {0} /\ N \in Int
  BY Multiples
<1>3. N \div D \in Int /\ N % D \in 0..(D - 1) /\ N = D * (N \div D) + (N % D)
  BY <1>2, DivisionFacts
<1>4. N = D * q + t
  <2>1. \A a, b, c, x \in Int : (a * b + c) * x = (a * x) * b + c * x
    OBVIOUS
  <2> HIDE DEF q, r
  <2> QED BY <1>1, <2>1
<1>5. t \in 0..(D - 1)
  <2> HIDE DEF q, r
  <2>1. t \in Nat
    BY <1>1, Multiples
  <2>2. d * k > r * k
    BY <1>1, Less
  <2> QED BY <1>2, <2>1, <2>2
<1>6. (2 * t > D <=> 2 * r > d) /\ (2 * t = D <=> 2 * r = d)
  <2> HIDE DEF q, r
  <2>1. 2 * t = (2 * r) * k /\ 2 * r \in Int /\ d \in Int
    BY <1>1
  <2> QED BY <2>1, Less
<1>7. N \div D = q /\ N % D = t
  <2> DEFINE p == N \div D
             s == N % D
  <2>1. p \in Int /\ s \in 0..(D - 1) /\ D * p + s = D * q + t
    BY <1>3, <1>4
  <2> HIDE DEF q, r, D, N, t, p, s
  <2>2. p = q /\ s = t
    BY <1>1, <1>2, <1>5, <2>1, DivisionIsUnique
  <2> QED BY <2>2 DEF p, s
<1>8. Round(N, D) = IF 2 * t > D \/ (2 * t = D /\ q % 2 = 1) THEN q + 1 ELSE q
  <2> HIDE DEF q, r, D, N, t
  <2> QED BY <1>7 DEF Round
<1>9. Round(n, d) = IF 2 * r > d \/ (2 * r = d /\ q % 2 = 1) THEN q + 1 ELSE q
  BY DEF Round
<1>10. Round(N, D) = Round(n, d)
  <2> HIDE DEF q, r, D, N, t
  <2> QED BY <1>6, <1>8, <1>9
<1> QED BY <1>10
-----------------------------------------------------------------------------
(***************************************************************************)
(* Money                                                                   *)
(***************************************************************************)
LEMMA Tables ==
  /\ Products \subseteq Nat /\ "CNY" \in Currencies
  /\ Price \in [Products -> Nat \ {0}] /\ CurrencyOf \in [Products -> Currencies]
  /\ RateToCNY \in [Currencies -> Nat \ {0}] /\ BaseFreight \in [Destinations -> Nat]
  /\ \A d \in Destinations : DeMinimis[d].amount \in Nat /\ DeMinimis[d].currency \in Currencies
BY PricingAssumption

\* What quote_basket is given for one item.
LineSet == [product : Products, quantity : Nat \ {0}]

\* A sum of natural numbers is one.
LEMMA SumOverFinite ==
  ASSUME NEW w, IsFiniteSet(DOMAIN w), \A i \in DOMAIN w : w[i] \in Nat
  PROVE  SumFunction(w) \in Nat
BY SumOfNaturals DEF SumFunction

\* The first n numbers.
LEMMA FirstNumbers == \A n \in Nat : IsFiniteSet(1..n) /\ Cardinality(1..n) = n
<1> TAKE n \in Nat
<1>1. 1 \in Int /\ n \in Int
  OBVIOUS
<1>2. IsFiniteSet(1..n) /\ Cardinality(1..n) = IF 1 > n THEN 0 ELSE n - 1 + 1
  BY <1>1, FS_Interval
<1> QED BY <1>2

\* The sum of one number.
LEMMA SumOfOne ==
  ASSUME NEW w, NEW x, DOMAIN w = {x}, w[x] \in Int
  PROVE  SumFunction(w) = w[x]
<1>1. IsFiniteSet({x}) /\ x \in {x} /\ {x} \ {x} = {}
  BY FS_Singleton
<1>2. SumFunctionOnSet(w, {x}) = w[x] + SumFunctionOnSet(w, {x} \ {x})
  <2>1. \A y \in {x} : w[y] \in Int
    OBVIOUS
  <2> QED BY <1>1, <2>1, SumStep
<1>3. SumFunctionOnSet(w, {x} \ {x}) = 0
  BY <1>1, SumOfNone
<1>4. SumFunction(w) = SumFunctionOnSet(w, {x})
  BY DEF SumFunction
<1> QED BY <1>2, <1>3, <1>4

\* What Round is away from the quotient.
LEMMA Rounding ==
  \A n \in Nat : \A d \in Nat \ {0} :
    Round(n, d) \in Nat /\ 2 * (d * Round(n, d)) <= 2 * n + d /\ 2 * n <= 2 * (d * Round(n, d)) + d
<1> SUFFICES ASSUME NEW n \in Nat, NEW d \in Nat \ {0}
             PROVE  Round(n, d) \in Nat /\ 2 * (d * Round(n, d)) <= 2 * n + d /\ 2 * n <= 2 * (d * Round(n, d)) + d
  OBVIOUS
<1>1. n \in Int /\ n >= 0
  OBVIOUS
<1> QED BY ONLY <1>1, n \in Nat, d \in Nat \ {0}, RoundFacts

\* What Convert is away from the worth of an amount.
LEMMA ConvertFacts ==
  ASSUME NEW amount \in Nat, NEW from \in Currencies, NEW to \in Currencies
  PROVE  /\ Convert(amount, from, to) \in Nat
         /\ 2 * (RateToCNY[to] * Convert(amount, from, to)) <= 2 * (amount * RateToCNY[from]) + RateToCNY[to]
         /\ 2 * (amount * RateToCNY[from]) <= 2 * (RateToCNY[to] * Convert(amount, from, to)) + RateToCNY[to]
<1>1. RateToCNY[from] \in Nat \ {0} /\ RateToCNY[to] \in Nat \ {0}
  BY Tables
<1>2. CASE from = to
  <2> DEFINE r == RateToCNY[to]
  <2>1. amount * r = r * amount /\ r * amount \in Int /\ r \in Nat
    BY <1>1
  <2>2. Convert(amount, from, to) = amount
    BY <1>2 DEF Convert
  <2> QED BY <1>2, <2>1, <2>2
<1>3. CASE from # to
  <2> DEFINE n == amount * RateToCNY[from]
  <2>1. n \in Nat
    BY <1>1, Multiples
  <2>2. Convert(amount, from, to) = Round(n, RateToCNY[to])
    BY <1>3 DEF Convert
  <2> HIDE DEF n
  <2>3. /\ Round(n, RateToCNY[to]) \in Nat
        /\ 2 * (RateToCNY[to] * Round(n, RateToCNY[to])) <= 2 * n + RateToCNY[to]
        /\ 2 * n <= 2 * (RateToCNY[to] * Round(n, RateToCNY[to])) + RateToCNY[to]
    BY <1>1, <2>1, Rounding
  <2> QED BY <2>2, <2>3 DEF n
<1> QED BY <1>2, <1>3

\* What max(0, n) is.
LEMMA NotNegativeFacts == \A n \in Int : NotNegative(n) \in Nat /\ NotNegative(n) >= n
  BY DEF NotNegative

\* The de minimis threshold in cents of a yuan.
LEMMA ThresholdType == ASSUME NEW dest \in Destinations PROVE Threshold(dest) \in Nat
  BY Tables, ConvertFacts DEF Threshold

\* What the freight is away from its base and its tenths an item.
LEMMA FreightFacts ==
  ASSUME NEW dest \in Destinations, NEW quantity \in Nat
  PROVE  /\ Freight(dest, quantity) \in Nat
         /\ 10 * Freight(dest, quantity) <= BaseFreight[dest] * (4 + 6 * quantity) + 5
         /\ BaseFreight[dest] * (4 + 6 * quantity) <= 10 * Freight(dest, quantity) + 5
<1> DEFINE n == BaseFreight[dest] * (4 + 6 * quantity)
           f == Round(n, 10)
<1>1. n \in Nat
  <2>1. BaseFreight[dest] \in Nat /\ 4 + 6 * quantity \in Nat
    BY Tables
  <2> QED BY <2>1, Multiples
<1>2. f \in Nat /\ 2 * (10 * f) <= 2 * n + 10 /\ 2 * n <= 2 * (10 * f) + 10
  <2>1. 10 \in Nat \ {0}
    OBVIOUS
  <2> HIDE DEF n
  <2> QED BY <1>1, <2>1, Rounding
<1>3. Freight(dest, quantity) = f
  BY DEF Freight
<1> HIDE DEF n, f
<1>4. f \in Nat /\ 10 * f <= n + 5 /\ n <= 10 * f + 5
  BY <1>1, <1>2
<1> QED BY <1>3, <1>4 DEF n

\* The amount of a line, in every currency.
LEMMA LineTypes ==
  ASSUME NEW line \in LineSet
  PROVE  /\ Amount(line) \in Nat /\ InCNY(line) \in Nat
         /\ \A c \in Currencies : Convert(Amount(line), CurrencyOf[line.product], c) \in Nat
<1>1. Price[line.product] \in Nat /\ line.quantity \in Nat /\ CurrencyOf[line.product] \in Currencies
  BY Tables DEF LineSet
<1>2. Amount(line) \in Nat
  BY <1>1, Multiples DEF Amount
<1> QED BY <1>1, <1>2, Tables, ConvertFacts DEF InCNY

\* The worth of a parcel; it is worth something when some of it is taxed.
LEMMA ParcelTypes ==
  ASSUME NEW lines \in Seq(LineSet), NEW dest \in Destinations
  PROVE  /\ IsFiniteSet(DOMAIN lines) /\ Cardinality(DOMAIN lines) = Len(lines)
         /\ WorthInCNY(lines) \in Nat /\ Quantity(lines) \in Nat
         /\ Taxable(lines, dest) \in Nat
         /\ Taxable(lines, dest) # 0 => WorthInCNY(lines) > 0
<1>1. DOMAIN lines = 1..Len(lines) /\ Len(lines) \in Nat
  OBVIOUS
<1>2. IsFiniteSet(DOMAIN lines) /\ Cardinality(DOMAIN lines) = Len(lines)
  BY <1>1, FirstNumbers
<1>3. \A i \in DOMAIN lines : InCNY(lines[i]) \in Nat /\ lines[i].quantity \in Nat
  <2> SUFFICES ASSUME NEW i \in DOMAIN lines
               PROVE  InCNY(lines[i]) \in Nat /\ lines[i].quantity \in Nat
    OBVIOUS
  <2>1. lines[i] \in LineSet
    OBVIOUS
  <2> QED BY <2>1, LineTypes DEF LineSet
<1>4. WorthInCNY(lines) \in Nat /\ Quantity(lines) \in Nat
  BY <1>2, <1>3, SumOverFinite DEF WorthInCNY, Quantity
<1>5. Threshold(dest) \in Nat
  BY ThresholdType
<1>6. Taxable(lines, dest) \in Nat /\ (Taxable(lines, dest) # 0 => WorthInCNY(lines) > 0)
  BY <1>4, <1>5 DEF Taxable, NotNegative
<1> QED BY <1>2, <1>4, <1>6

\* The rate of a line.
LEMMA RateType ==
  ASSUME NEW line \in LineSet, NEW dest \in Destinations
  PROVE  DutyRate[dest][Category[line.product]] \in Nat
<1>1. line.product \in Products
  BY DEF LineSet
<1>2. \A p \in Products : DutyRate[dest][Category[p]] \in 0..1000
  BY PricingAssumption
<1>3. DutyRate[dest][Category[line.product]] \in 0..1000
  BY ONLY <1>1, <1>2
<1> HIDE DEF LineSet
<1>4. \A n \in 0..1000 : n \in Nat
  OBVIOUS
<1> QED BY ONLY <1>3, <1>4

\* The duty of a line.
LEMMA LineDutyType ==
  ASSUME NEW line \in LineSet, NEW dest \in Destinations,
         NEW taxable \in Nat, NEW subtotal \in Nat \ {0}
  PROVE  LineDuty(line, taxable, subtotal, dest) \in Nat
<1> DEFINE w == InCNY(line)
           r == DutyRate[dest][Category[line.product]]
           n == taxable * w * r
           D == subtotal * 1000
<1>1. w \in Nat /\ r \in Nat
  BY LineTypes, RateType
<1>2. LineDuty(line, taxable, subtotal, dest) = Round(n, D)
  BY DEF LineDuty
<1> HIDE DEF w, r
<1>3. n \in Nat /\ D \in Nat \ {0}
  BY <1>1, Multiples
<1> HIDE DEF n, D
<1> QED BY <1>2, <1>3, Rounding

\* The parts of a quote.
LEMMA QuoteTypes ==
  ASSUME NEW lines \in Seq(LineSet), NEW dest \in Destinations, NEW target \in Currencies
  PROVE  LET quote == QuoteBasket(lines, dest, target)
         IN quote.subtotal \in Nat /\ quote.freight \in Nat /\ quote.tariff \in Nat /\ Landed(quote) \in Nat
<1> DEFINE quote == QuoteBasket(lines, dest, target)
<1>1. IsFiniteSet(DOMAIN lines) /\ \A i \in DOMAIN lines : lines[i] \in LineSet
  <2>1. \A i \in DOMAIN lines : lines[i] \in LineSet
    OBVIOUS
  <2> QED BY <2>1, ParcelTypes
<1>2. quote.subtotal \in Nat
  <2> DEFINE w == [i \in DOMAIN lines |-> Convert(Amount(lines[i]), CurrencyOf[lines[i].product], target)]
  <2>1. \A i \in DOMAIN lines : w[i] \in Nat
    BY <1>1, LineTypes
  <2>2. quote.subtotal = SumFunction(w)
    BY DEF QuoteBasket
  <2>3. DOMAIN w = DOMAIN lines
    OBVIOUS
  <2> HIDE DEF w
  <2> QED BY <1>1, <2>1, <2>2, <2>3, SumOverFinite
<1>3. quote.freight \in Nat
  <2>1. quote.freight = Convert(Freight(dest, Quantity(lines)), "CNY", target)
    BY DEF QuoteBasket
  <2>2. Quantity(lines) \in Nat
    BY ParcelTypes
  <2>3. Freight(dest, Quantity(lines)) \in Nat /\ "CNY" \in Currencies
    BY <2>2, Tables, FreightFacts
  <2> QED BY <2>1, <2>3, ConvertFacts
<1>4. Duty(lines, dest) \in Nat
  <2>1. CASE Taxable(lines, dest) = 0
    BY <2>1 DEF Duty
  <2>2. CASE Taxable(lines, dest) # 0
    <3>1. WorthInCNY(lines) \in Nat \ {0} /\ Taxable(lines, dest) \in Nat
      BY <2>2, ParcelTypes
    <3>2. ASSUME NEW i \in DOMAIN lines
          PROVE  LineDuty(lines[i], Taxable(lines, dest), WorthInCNY(lines), dest) \in Nat
      <4>1. lines[i] \in LineSet
        BY <1>1
      <4> QED BY <3>1, <4>1, LineDutyType
    <3> DEFINE w == [i \in DOMAIN lines |-> LineDuty(lines[i], Taxable(lines, dest), WorthInCNY(lines), dest)]
    <3>3. DOMAIN w = DOMAIN lines /\ \A i \in DOMAIN lines : w[i] \in Nat
      BY <3>2
    <3>4. SumFunction(w) \in Nat
      <4> HIDE DEF w
      <4> QED BY <1>1, <3>3, SumOverFinite
    <3>5. Duty(lines, dest) = SumFunction(w)
      BY <2>2 DEF Duty
    <3> QED BY <3>4, <3>5
  <2> QED BY <2>1, <2>2
<1>5. quote.tariff \in Nat
  <2>1. quote.tariff = Convert(Duty(lines, dest), "CNY", target) /\ "CNY" \in Currencies
    BY Tables DEF QuoteBasket
  <2> QED BY <1>4, <2>1, ConvertFacts
<1> HIDE DEF quote
<1>6. Landed(quote) \in Nat
  <2> DEFINE x == quote.subtotal
             y == quote.freight
             z == quote.tariff
  <2>1. Landed(quote) = x + y + z
    BY DEF Landed
  <2>2. x \in Nat /\ y \in Nat /\ z \in Nat
    BY <1>2, <1>3, <1>5
  <2> HIDE DEF x, y, z
  <2>3. x + y + z \in Nat
    BY ONLY <2>2
  <2> QED BY <2>1, <2>3
<1> QED BY <1>2, <1>3, <1>5, <1>6 DEF quote
-----------------------------------------------------------------------------
(***************************************************************************)
(* QuotesAgree                                                             *)
(***************************************************************************)

\* A basket of one line.
LEMMA OneLine ==
  ASSUME NEW l \in LineSet, NEW dest \in Destinations, NEW target \in Currencies
  PROVE  QuoteBasket(<<l>>, dest, target) =
           Quote(Amount(l), CurrencyOf[l.product], Category[l.product], dest, l.quantity, target)
<1> DEFINE w == InCNY(l)
           t == NotNegative(w - Threshold(dest))
           r == DutyRate[dest][Category[l.product]]
<1>1. DOMAIN <<l>> = {1} /\ <<l>>[1] = l
  OBVIOUS
<1>2. w \in Nat /\ r \in Nat /\ Threshold(dest) \in Nat /\ l.quantity \in Nat
  BY LineTypes, RateType, ThresholdType DEF LineSet
<1>3. SumFunction([i \in DOMAIN <<l>> |-> Convert(Amount(<<l>>[i]), CurrencyOf[<<l>>[i].product], target)])
        = Convert(Amount(l), CurrencyOf[l.product], target)
  <2> DEFINE f == [i \in DOMAIN <<l>> |-> Convert(Amount(<<l>>[i]), CurrencyOf[<<l>>[i].product], target)]
  <2>1. DOMAIN f = {1} /\ f[1] = Convert(Amount(l), CurrencyOf[l.product], target)
    BY <1>1
  <2>2. Convert(Amount(l), CurrencyOf[l.product], target) \in Int
    BY LineTypes
  <2> HIDE DEF f
  <2>3. SumFunction(f) = f[1]
    BY <2>1, <2>2, SumOfOne
  <2> QED BY <2>1, <2>3 DEF f
<1>4. WorthInCNY(<<l>>) = w
  <2> DEFINE f == [i \in DOMAIN <<l>> |-> InCNY(<<l>>[i])]
  <2>1. DOMAIN f = {1} /\ f[1] = w /\ f[1] \in Int
    BY <1>1, <1>2
  <2> HIDE DEF f
  <2>2. SumFunction(f) = w
    BY <2>1, SumOfOne
  <2> QED BY <2>2 DEF f, WorthInCNY
<1>5. Quantity(<<l>>) = l.quantity
  <2> DEFINE f == [i \in DOMAIN <<l>> |-> <<l>>[i].quantity]
  <2>1. DOMAIN f = {1} /\ f[1] = l.quantity /\ f[1] \in Int
    BY <1>1, <1>2
  <2> HIDE DEF f
  <2>2. SumFunction(f) = l.quantity
    BY <2>1, SumOfOne
  <2> QED BY <2>2 DEF f, Quantity
<1>6. Taxable(<<l>>, dest) = t
  BY <1>4 DEF Taxable
<1>7. Duty(<<l>>, dest) = Round(t * r, 1000)
  <2> HIDE DEF r, w
  <2>1. t \in Nat /\ (t # 0 => w \in Nat \ {0})
    BY <1>2 DEF NotNegative
  <2>2. CASE t = 0
    <3>1. t * r = 0
      BY <1>2, <2>2
    <3>2. Round(0, 1000) = 0
      BY DEF Round
    <3>3. Duty(<<l>>, dest) = 0
      BY <1>6, <2>2 DEF Duty
    <3> QED BY <3>1, <3>2, <3>3
  <2>3. CASE t # 0
    <3> DEFINE f == [i \in DOMAIN <<l>> |-> LineDuty(<<l>>[i], t, w, dest)]
    <3>1. DOMAIN f = {1} /\ f[1] = LineDuty(l, t, w, dest)
      BY <1>1
    <3>2. LineDuty(l, t, w, dest) \in Int
      BY <2>1, <2>3, LineDutyType
    <3>3. Duty(<<l>>, dest) = SumFunction(f)
      BY <1>4, <1>6, <2>3 DEF Duty
    <3> HIDE DEF f
    <3>4. SumFunction(f) = LineDuty(l, t, w, dest)
      BY <3>1, <3>2, SumOfOne
    <3>5. LineDuty(l, t, w, dest) = Round(t * w * r, w * 1000)
      BY DEF LineDuty, w, r
    <3> HIDE DEF t
    <3>6. t * w * r = (t * r) * w /\ w * 1000 = 1000 * w /\ t * r \in Int
      BY <1>2, <2>1
    <3>7. Round((t * r) * w, 1000 * w) = Round(t * r, 1000)
      <4>1. w \in Nat \ {0} /\ 1000 \in Nat \ {0}
        BY <2>1, <2>3
      <4> QED BY <3>6, <4>1, RoundScales
    <3> QED BY <3>3, <3>4, <3>5, <3>6, <3>7
  <2> QED BY <2>2, <2>3
<1> QED BY <1>3, <1>5, <1>7 DEF QuoteBasket, Quote, InCNY

\* What the freight of a parcel comes to in another currency, rounded twice.
LEMMA FreightWorth ==
  ASSUME NEW dest \in Destinations, NEW target \in Currencies, NEW q \in Nat
  PROVE  LET K == RateToCNY["CNY"]
             R == RateToCNY[target]
             P == K * BaseFreight[dest]
             c == Convert(Freight(dest, q), "CNY", target)
         IN /\ c \in Nat
            /\ 20 * (R * c) <= 8 * P + 12 * (P * q) + 10 * (K + R)
            /\ 20 * (R * c) >= 8 * P + 12 * (P * q) - 10 * (K + R)
<1> DEFINE K == RateToCNY["CNY"]
           R == RateToCNY[target]
           B == BaseFreight[dest]
           P == K * B
           F == Freight(dest, q)
           c == Convert(F, "CNY", target)
<1>1. K \in Nat \ {0} /\ R \in Nat \ {0} /\ B \in Nat
  BY Tables
<1>2. F \in Nat /\ 10 * F <= B * (4 + 6 * q) + 5 /\ B * (4 + 6 * q) <= 10 * F + 5
  BY FreightFacts
<1>3. c \in Nat /\ 2 * (R * c) <= 2 * (F * K) + R /\ 2 * (F * K) <= 2 * (R * c) + R
  BY <1>2, Tables, ConvertFacts
<1> HIDE DEF F, c, K, R, B
<1>4. P \in Nat /\ P * q \in Nat /\ R * c \in Nat /\ F * K \in Nat
  BY <1>1, <1>2, <1>3, Multiples
<1>5. 10 * (F * K) <= 4 * P + 6 * (P * q) + 5 * K /\ 4 * P + 6 * (P * q) <= 10 * (F * K) + 5 * K
  <2> DEFINE a == 10 * F
             b == B * (4 + 6 * q)
  <2>1. a \in Nat /\ b \in Nat /\ a <= b + 5 /\ b <= a + 5
    <3>1. 4 + 6 * q \in Nat
      OBVIOUS
    <3> QED BY <1>1, <1>2, <3>1, Multiples
  <2>2. a * K = 10 * (F * K) /\ b * K = 4 * P + 6 * (P * q)
    <3>1. \A x, y, z \in Int : (x * (4 + 6 * y)) * z = 4 * (z * x) + 6 * ((z * x) * y)
      OBVIOUS
    <3>2. \A x, z \in Int : (10 * x) * z = 10 * (x * z)
      OBVIOUS
    <3> QED BY <1>1, <1>2, <3>1, <3>2
  <2> HIDE DEF a, b
  <2>3. \A x, y \in Int : x <= y => x * K <= y * K
    BY <1>1, Less
  <2>4. (b + 5) * K = b * K + 5 * K /\ (a + 5) * K = a * K + 5 * K
    BY <1>1, <2>1
  <2>5. a * K <= (b + 5) * K /\ b * K <= (a + 5) * K
    <3>1. a \in Int /\ b \in Int /\ b + 5 \in Int /\ a + 5 \in Int
      BY <2>1
    <3> QED BY <2>1, <2>3, <3>1
  <2> QED BY <2>2, <2>4, <2>5
<1> DEFINE x == R * c
           y == F * K
           z == P * q
<1>6. /\ 2 * x <= 2 * y + R /\ 2 * y <= 2 * x + R
      /\ 10 * y <= 4 * P + 6 * z + 5 * K /\ 4 * P + 6 * z <= 10 * y + 5 * K
      /\ x \in Nat /\ y \in Nat /\ z \in Nat
  BY <1>3, <1>4, <1>5
<1> HIDE DEF x, y, z, P
<1>7. 20 * x <= 8 * P + 12 * z + 10 * (K + R) /\ 20 * x >= 8 * P + 12 * z - 10 * (K + R)
  BY <1>1, <1>4, <1>6
<1> QED BY <1>3, <1>7 DEF x, z, P, K, R, B, F, c

\* A bound on every term is one on the sum.
LEMMA SumBound ==
  ASSUME NEW S, IsFiniteSet(S), NEW u, NEW f, NEW a \in Int, NEW b \in Int, NEW c \in Int,
         \A x \in S : u[x] \in Int /\ f[x] \in Int /\ a * u[x] + b <= c * f[x]
  PROVE  /\ SumFunctionOnSet(u, S) \in Int /\ SumFunctionOnSet(f, S) \in Int
         /\ a * SumFunctionOnSet(u, S) + b * Cardinality(S) <= c * SumFunctionOnSet(f, S)
<1> DEFINE ones == [x \in S |-> 1]
           low == [x \in S |-> a * u[x] + b * ones[x]]
           high == [x \in S |-> c * f[x] + 0 * ones[x]]
<1>1. \A x \in S : u[x] \in Int /\ f[x] \in Int /\ ones[x] \in Int /\ ones[x] = 1
  OBVIOUS
<1>2. \A x \in S : low[x] = a * u[x] + b * ones[x] /\ high[x] = c * f[x] + 0 * ones[x]
  OBVIOUS
<1> HIDE DEF ones, low, high
<1>3. \A x \in S : low[x] \in Int /\ high[x] \in Int /\ low[x] <= high[x]
  <2> SUFFICES ASSUME NEW x \in S PROVE low[x] \in Int /\ high[x] \in Int /\ low[x] <= high[x]
    OBVIOUS
  <2> DEFINE y == a * u[x]
             z == c * f[x]
  <2>1. y \in Int /\ z \in Int
    BY <1>1, Multiples
  <2>2. y + b <= z /\ low[x] = y + b * 1 /\ high[x] = z + 0 * 1
    BY <1>1, <1>2
  <2> HIDE DEF y, z
  <2> QED BY <2>1, <2>2
<1>4. SumFunctionOnSet(low, S) = a * SumFunctionOnSet(u, S) + b * SumFunctionOnSet(ones, S)
  BY <1>1, <1>2, SumLinear
<1>5. SumFunctionOnSet(high, S) = c * SumFunctionOnSet(f, S) + 0 * SumFunctionOnSet(ones, S)
  <2>1. 0 \in Int
    OBVIOUS
  <2> QED BY <1>1, <1>2, <2>1, SumLinear
<1>6. SumFunctionOnSet(low, S) <= SumFunctionOnSet(high, S)
  BY <1>3, SumOrder
<1>7. SumFunctionOnSet(ones, S) = 1 * Cardinality(S)
  BY <1>1, SumOfSame
<1>8. SumFunctionOnSet(u, S) \in Int /\ SumFunctionOnSet(f, S) \in Int /\ Cardinality(S) \in Nat
  BY <1>1, SumType, FS_CardinalityType
<1>9. SumFunctionOnSet(ones, S) = Cardinality(S)
  BY <1>7, <1>8
<1>10. c * SumFunctionOnSet(f, S) \in Int
  BY <1>8, Multiples
<1>11. SumFunctionOnSet(high, S) = c * SumFunctionOnSet(f, S)
  BY <1>5, <1>8, <1>9, <1>10
<1> QED BY <1>4, <1>6, <1>8, <1>9, <1>11

\* Of two lines or more, one parcel's freight is no more than that of all of them apart.
LEMMA TogetherIsCheaper ==
  ASSUME NEW lines \in Seq(LineSet), lines # <<>>, NEW dest \in Destinations, NEW target \in Currencies
  PROVE  Convert(Freight(dest, Quantity(lines)), "CNY", target) <=
           SumFunction([i \in DOMAIN lines |-> Convert(Freight(dest, lines[i].quantity), "CNY", target)])
<1> DEFINE K == RateToCNY["CNY"]
           R == RateToCNY[target]
           P == K * BaseFreight[dest]
           n == Len(lines)
           I == DOMAIN lines
           Q == Quantity(lines)
           C(q) == Convert(Freight(dest, q), "CNY", target)
           f == [i \in I |-> C(lines[i].quantity)]
           u == [i \in I |-> lines[i].quantity]
           e == 10 * (K + R)
           S == SumFunctionOnSet(f, I)
<1>1. K \in Nat \ {0} /\ R \in Nat \ {0} /\ P \in Nat
  BY Tables, Multiples
<1>2. I = 1..n /\ n \in Nat \ {0} /\ IsFiniteSet(I) /\ Cardinality(I) = n
  BY ParcelTypes
<1>3. \A i \in I : u[i] \in Nat
  <2> SUFFICES ASSUME NEW i \in I PROVE u[i] \in Nat
    OBVIOUS
  <2>1. lines[i] \in LineSet
    OBVIOUS
  <2> QED BY <2>1 DEF LineSet
<1>4. Q \in Nat /\ Q = SumFunctionOnSet(u, I)
  BY ParcelTypes DEF Quantity, SumFunction
<1>5. \A q \in Nat : /\ C(q) \in Nat
                     /\ 20 * (R * C(q)) <= 8 * P + 12 * (P * q) + e
                     /\ 20 * (R * C(q)) >= 8 * P + 12 * (P * q) - e
  BY FreightWorth
<1>6. /\ C(Q) \in Nat /\ R * C(Q) \in Nat /\ 20 * (R * C(Q)) <= 8 * P + 12 * (P * Q) + e
      /\ P * Q \in Nat
  <2>1. C(Q) \in Nat /\ 20 * (R * C(Q)) <= 8 * P + 12 * (P * Q) + e
    BY <1>4, <1>5
  <2> HIDE DEF C, P, R, Q, e
  <2> QED BY <1>1, <1>4, <2>1, Multiples
<1>7. \A i \in I : f[i] \in Nat /\ f[i] = C(u[i])
  <2>1. \A i \in I : f[i] = C(u[i])
    OBVIOUS
  <2> HIDE DEF f, u, C, P, R, e
  <2> QED BY <1>3, <1>5, <2>1
<1>8. SumFunction(f) = S
  BY DEF SumFunction
<1>9. CASE n = 1
  <2>1. I = {1} /\ DOMAIN f = {1} /\ DOMAIN u = {1}
    BY <1>2, <1>9
  <2>2. SumFunction(u) = u[1] /\ SumFunction(f) = f[1]
    <3>1. u[1] \in Int /\ f[1] \in Int
      BY <1>3, <1>7, <2>1
    <3> HIDE DEF u, f
    <3> QED BY <2>1, <3>1, SumOfOne
  <2>3. Q = u[1]
    BY <1>4, <2>2 DEF SumFunction
  <2>4. SumFunction(f) = C(Q)
    BY <1>7, <2>1, <2>2, <2>3
  <2>5. C(Q) <= SumFunction(f)
    <3> HIDE DEF f, C, Q
    <3> QED BY <1>6, <2>4
  <2> QED BY <2>5
<1>10. CASE n # 1
  <2> DEFINE a == 12 * P
             b == 8 * P - e
             c == 20 * R
  <2>1. b >= 2 * e /\ e \in Nat /\ b \in Nat /\ a \in Int /\ c \in Int
    <3>1. 4 * BaseFreight[dest] * K >= 15 * (R + K)
      BY PricingAssumption
    <3>2. 4 * BaseFreight[dest] * K = 4 * P
      <4>1. \A x, y \in Int : 4 * x * y = 4 * (y * x)
        OBVIOUS
      <4>2. BaseFreight[dest] \in Int /\ K \in Int
        BY Tables
      <4> HIDE DEF K
      <4> QED BY <4>1, <4>2
    <3> HIDE DEF K, R, P
    <3> QED BY <1>1, <3>1, <3>2
  <2>2. \A i \in I : u[i] \in Int /\ f[i] \in Int /\ a * u[i] + b <= c * f[i]
    <3> SUFFICES ASSUME NEW i \in I PROVE u[i] \in Int /\ f[i] \in Int /\ a * u[i] + b <= c * f[i]
      OBVIOUS
    <3> DEFINE x == R * f[i]
               y == P * u[i]
    <3>1. u[i] \in Nat /\ f[i] \in Nat /\ f[i] = C(u[i])
      BY <1>3, <1>7
    <3> HIDE DEF u, f
    <3>2. 20 * x >= 8 * P + 12 * y - e
      <4> HIDE DEF C, P, R, e
      <4> QED BY <1>5, <3>1
    <3>3. x \in Int /\ y \in Int /\ a * u[i] = 12 * y /\ c * f[i] = 20 * x
      <4>1. \A v, w \in Int : (12 * v) * w = 12 * (v * w) /\ (20 * v) * w = 20 * (v * w)
        OBVIOUS
      <4>2. P \in Int /\ R \in Int /\ u[i] \in Int /\ f[i] \in Int
        BY <1>1, <3>1
      <4> HIDE DEF P, R
      <4> QED BY <4>1, <4>2, Multiples
    <3> HIDE DEF x, y, P, R, e, a, c
    <3> QED BY <1>1, <2>1, <3>1, <3>2, <3>3
  <2>3. S \in Int /\ a * Q + b * n <= c * S
    <3> HIDE DEF a, b, c, u, f
    <3>1. a * SumFunctionOnSet(u, I) + b * Cardinality(I) <= c * S /\ S \in Int
      <4>1. IsFiniteSet(I) /\ a \in Int /\ b \in Int /\ c \in Int
        BY <1>2, <2>1
      <4> HIDE DEF e, K, R, P, C, Q
      <4> QED BY ONLY <4>1, <2>2, SumBound, Zenon
    <3> QED BY <1>2, <1>4, <3>1
  <2>4. b * n >= 2 * b /\ b * n \in Int
    <3> HIDE DEF b
    <3>1. n - 2 \in Nat /\ n \in Nat
      BY <1>2, <1>10
    <3>2. b * (n - 2) \in Nat
      BY <2>1, <3>1, Multiples
    <3>3. b * (n - 2) = b * n - 2 * b /\ b * n \in Int
      BY <2>1, <3>1
    <3> QED BY <2>1, <3>2, <3>3
  <2>5. R * C(Q) <= R * S
    <3> DEFINE x == R * C(Q)
               y == R * S
               z == P * Q
    <3>1. 20 * x <= 8 * P + 12 * z + e /\ x \in Int /\ z \in Int
      BY <1>6
    <3>2. y \in Int /\ a * Q = 12 * z /\ c * S = 20 * y
      <4>1. \A v, w \in Int : (12 * v) * w = 12 * (v * w) /\ (20 * v) * w = 20 * (v * w)
        OBVIOUS
      <4>2. P \in Int /\ R \in Int /\ Q \in Int /\ S \in Int
        BY <1>1, <1>4, <2>3
      <4> HIDE DEF P, R, Q, S
      <4> QED BY <4>1, <4>2, Multiples
    <3> HIDE DEF x, y, z, a, c
    <3>3. 12 * z + b * n <= 20 * y
      BY <2>3, <3>2
    <3>4. 8 * P = b + e
      <4> HIDE DEF P, e
      <4> QED BY <1>1, <2>1
    <3> HIDE DEF P, R, b, e, Q, S
    <3>5. x <= y
      BY <2>1, <2>4, <3>1, <3>2, <3>3, <3>4
    <3> QED BY <3>5 DEF x, y
  <2>6. C(Q) <= S
    <3> DEFINE x == C(Q)
    <3>1. x \in Int /\ R * x <= R * S
      BY <1>6, <2>5
    <3> HIDE DEF S, R, x
    <3>2. R * x = x * R /\ R * S = S * R /\ x * R \in Int /\ S * R \in Int
      BY <1>1, <2>3, <3>1
    <3>3. ~(x * R > S * R)
      BY <3>1, <3>2
    <3>4. x <= S
      BY <1>1, <2>3, <3>1, <3>3, Less
    <3> QED BY <3>4 DEF x
  <2> QED BY <1>8, <2>6
<1> QED BY <1>9, <1>10

\* The duty of a basket is off by half a cent a line at most.
LEMMA DutyIsClose ==
  ASSUME NEW lines \in Seq(LineSet), NEW dest \in Destinations
  PROVE  LET whole == WorthInCNY(lines)
             due == SumFunction([i \in DOMAIN lines |->
                      InCNY(lines[i]) * DutyRate[dest][Category[lines[i].product]]])
         IN Duty(lines, dest) * whole * 1000 - Taxable(lines, dest) * due
              \in -(Len(lines) * whole * 500)..(Len(lines) * whole * 500)
<1> DEFINE W == WorthInCNY(lines)
           t == Taxable(lines, dest)
           n == Len(lines)
           I == DOMAIN lines
           g == [i \in I |-> InCNY(lines[i]) * DutyRate[dest][Category[lines[i].product]]]
           due == SumFunction(g)
<1>1. W \in Nat /\ t \in Nat /\ n \in Nat /\ IsFiniteSet(I) /\ Cardinality(I) = n /\ (t # 0 => W \in Nat \ {0})
  BY ParcelTypes
<1>2. \A i \in I : lines[i] \in LineSet
  OBVIOUS
<1>3. \A i \in I : g[i] \in Nat
  <2> SUFFICES ASSUME NEW i \in I PROVE g[i] \in Nat
    OBVIOUS
  <2>1. InCNY(lines[i]) \in Nat /\ DutyRate[dest][Category[lines[i].product]] \in Nat
    BY <1>2, LineTypes, RateType
  <2> QED BY <2>1, Multiples
<1>4. due \in Nat
  <2>1. DOMAIN g = I
    OBVIOUS
  <2> HIDE DEF g
  <2> QED BY <1>1, <1>3, <2>1, SumOverFinite
<1> HIDE DEF W, t, n
<1>5. n * W \in Nat /\ n * W * 500 \in Nat
  <2>1. n * W \in Nat
    BY <1>1, Multiples
  <2> QED BY <2>1
<1>6. CASE t = 0
  <2>1. Duty(lines, dest) = 0
    BY <1>6 DEF Duty, t
  <2> HIDE DEF due
  <2>2. 0 * W * 1000 = 0 /\ t * due = 0
    BY <1>1, <1>4, <1>6
  <2>3. Duty(lines, dest) * W * 1000 - t * due \in -(n * W * 500)..(n * W * 500)
    BY <1>5, <2>1, <2>2
  <2> QED BY <2>3 DEF W, t, n, due
<1>7. CASE t # 0
  <2> DEFINE d == [i \in I |-> LineDuty(lines[i], t, W, dest)]
             D == W * 1000
             m == -D
             a == 2 * D
             b == 2 * t
             S == SumFunctionOnSet(d, I)
             G == SumFunctionOnSet(g, I)
  <2>1. D \in Nat \ {0} /\ a \in Int /\ b \in Int /\ m \in Int /\ W \in Nat \ {0}
    BY <1>1, <1>7
  <2>2. \A i \in I : d[i] \in Int /\ g[i] \in Int /\ b * g[i] + m <= a * d[i] /\ a * d[i] + m <= b * g[i]
    <3> SUFFICES ASSUME NEW i \in I
                 PROVE  d[i] \in Int /\ g[i] \in Int /\ b * g[i] + m <= a * d[i] /\ a * d[i] + m <= b * g[i]
      OBVIOUS
    <3> DEFINE l == lines[i]
               w == InCNY(l)
               r == DutyRate[dest][Category[l.product]]
               o == t * (w * r)
               ld == LineDuty(l, t, W, dest)
               x == D * ld
    <3>1. l \in LineSet
      BY <1>2
    <3>2. ld \in Nat /\ o \in Nat /\ 2 * x <= 2 * o + D /\ 2 * o <= 2 * x + D
      <4>1. w \in Nat /\ r \in Nat
        BY <3>1, LineTypes, RateType
      <4>2. ld = Round(t * w * r, D)
        BY DEF LineDuty
      <4> HIDE DEF w, r, l
      <4>3. o \in Nat
        BY <1>1, <4>1, Multiples
      <4>4. t * w * r = o
        BY <1>1, <4>1
      <4> HIDE DEF o, D, ld
      <4>5. ld = Round(o, D)
        BY <4>2, <4>4
      <4>6. Round(o, D) \in Nat /\ 2 * (D * Round(o, D)) <= 2 * o + D /\ 2 * o <= 2 * (D * Round(o, D)) + D
        BY <2>1, <4>3, Rounding
      <4> QED BY <4>3, <4>5, <4>6
    <3>3. d[i] = ld /\ o = t * g[i] /\ g[i] \in Nat
      BY <1>3
    <3> HIDE DEF d, o, ld, g, D
    <3>4. x \in Nat /\ a * d[i] = 2 * x /\ b * g[i] = 2 * o
      <4>1. \A v, z \in Int : (2 * v) * z = 2 * (v * z)
        OBVIOUS
      <4>2. D \in Int /\ t \in Int /\ ld \in Int /\ g[i] \in Int
        BY <1>1, <2>1, <3>2, <3>3
      <4> QED BY <2>1, <3>2, <3>3, <4>1, <4>2, Multiples
    <3>5. m = -D /\ D \in Int
      BY <2>1
    <3> HIDE DEF x, a, b, m
    <3>6. 2 * o + m <= 2 * x /\ 2 * x + m <= 2 * o
      BY <3>2, <3>4, <3>5
    <3> QED BY <3>2, <3>3, <3>4, <3>6
  <2>3. S \in Int /\ G \in Int /\ b * G + m * n <= a * S /\ a * S + m * n <= b * G
    <3> HIDE DEF a, b, m, d, g, D
    <3>1. S \in Int /\ G \in Int /\ b * G + m * Cardinality(I) <= a * S
      BY <1>1, <2>1, <2>2, SumBound
    <3>2. a * S + m * Cardinality(I) <= b * G
      BY <1>1, <2>1, <2>2, SumBound
    <3> QED BY <1>1, <3>1, <3>2
  <2>4. due = G
    BY DEF SumFunction
  <2>5. Duty(lines, dest) = S
    BY <1>7 DEF Duty, SumFunction, t, W
  <2>6. S * W * 1000 - t * G \in -(n * W * 500)..(n * W * 500)
    <3> HIDE DEF S, G
    <3> DEFINE x == S * W
               y == t * G
               z == n * W
    <3>1. x \in Int /\ y \in Int /\ z \in Nat
      BY <1>1, <2>3, Multiples
    <3>2. a * S = 2000 * x /\ b * G = 2 * y /\ m * n = -(1000 * z)
      <4>1. \A v, w \in Int : /\ (2 * (v * 1000)) * w = 2000 * (w * v) /\ (2 * v) * w = 2 * (v * w)
                              /\ (-(v * 1000)) * w = -(1000 * (w * v))
        OBVIOUS
      <4>2. S \in Int /\ G \in Int /\ W \in Int /\ t \in Int /\ n \in Int
        BY <1>1, <2>3
      <4> QED BY <4>1, <4>2
    <3>3. S * W * 1000 = 1000 * x /\ n * W * 500 = 500 * z
      BY <1>1, <2>3, <3>1
    <3>4. 2 * y + -(1000 * z) <= 2000 * x /\ 2000 * x + -(1000 * z) <= 2 * y
      <4> HIDE DEF a, b, m, x, y, z
      <4> QED BY <2>3, <3>2
    <3> HIDE DEF x, y, z
    <3>5. 1000 * x - y \in -(500 * z)..(500 * z)
      BY <3>1, <3>4
    <3> QED BY <3>3, <3>5 DEF y
  <2>7. Duty(lines, dest) * W * 1000 - t * due \in -(n * W * 500)..(n * W * 500)
    BY <2>4, <2>5, <2>6
  <2> QED BY <2>7 DEF W, t, n
<1> QED BY <1>6, <1>7
-----------------------------------------------------------------------------
(***************************************************************************)
(* Orders on sequences, and on combinations                                *)
(***************************************************************************)

\* The first place at which two of them differ.
LEMMA FirstDifference ==
  ASSUME NEW n \in Nat, NEW s, NEW t, \E k \in 1..n : s[k] # t[k]
  PROVE  \E k \in 1..n : s[k] # t[k] /\ \A j \in 1..(k - 1) : s[j] = t[j]
<1> DEFINE T == {k \in 1..n : s[k] # t[k]}
<1>1. T \subseteq Nat /\ T # {}
  OBVIOUS
<1>2. PICK k \in T : \A m \in T : k <= m
  <2> HIDE DEF T
  <2> QED BY <1>1, LeastNumber
<1>3. \A j \in 1..(k - 1) : s[j] = t[j]
  <2> SUFFICES ASSUME NEW j \in 1..(k - 1) PROVE s[j] = t[j]
    OBVIOUS
  <2>1. j \in 1..n /\ j < k
    OBVIOUS
  <2>2. j \notin T
    BY <1>2, <2>1
  <2> QED BY <2>1, <2>2
<1> QED BY <1>2, <1>3

\* No sequence comes before itself.
LEMMA BeforeIrreflexive ==
  ASSUME NEW s, \A k \in DOMAIN s : s[k] \in Int
  PROVE  ~Before(s, s)
BY DEF Before

\* Of sequences of one length, what is before a second is before a third.
LEMMA BeforeTransitive ==
  ASSUME NEW n \in Nat, NEW s, NEW t, NEW u,
         DOMAIN s = 1..n, DOMAIN t = 1..n, DOMAIN u = 1..n,
         \A k \in 1..n : s[k] \in Int /\ t[k] \in Int /\ u[k] \in Int,
         Before(s, t), Before(t, u)
  PROVE  Before(s, u)
<1>1. PICK k \in 1..n : s[k] < t[k] /\ \A j \in 1..(k - 1) : s[j] = t[j]
  BY DEF Before
<1>2. PICK m \in 1..n : t[m] < u[m] /\ \A j \in 1..(m - 1) : t[j] = u[j]
  BY DEF Before
<1>3. CASE k <= m
  <2>1. \A j \in 1..(k - 1) : s[j] = u[j]
    BY <1>1, <1>2, <1>3
  <2>2. s[k] < u[k]
    <3>1. k = m \/ k \in 1..(m - 1)
      BY <1>3
    <3>2. s[k] \in Int /\ t[k] \in Int /\ u[k] \in Int
      OBVIOUS
    <3> QED BY <1>1, <1>2, <3>1, <3>2
  <2> QED BY <2>1, <2>2 DEF Before
<1>4. CASE m < k
  <2>1. \A j \in 1..(m - 1) : s[j] = u[j]
    BY <1>1, <1>2, <1>4
  <2>2. s[m] < u[m]
    <3>1. m \in 1..(k - 1)
      BY <1>4
    <3>2. s[m] = t[m]
      BY <1>1, <3>1
    <3> QED BY <1>2, <3>2
  <2> QED BY <2>1, <2>2 DEF Before
<1> QED BY <1>3, <1>4

\* Of two sets of a size, the one with the least number only one of them has
\* is first.
LEMMA EarlierFirst ==
  ASSUME NEW n \in Nat, NEW S \in SUBSET (1..n), NEW T \in SUBSET (1..n),
         Cardinality(S) = Cardinality(T), S # T, ~Before(Ascending(S), Ascending(T))
  PROVE  Min(SymDiff(S, T)) \in T
<1> DEFINE A == Ascending(S)
           B == Ascending(T)
           D == SymDiff(S, T)
<1>1. D = (S \ T) \cup (T \ S) /\ D \subseteq Nat /\ D # {}
  BY DEF SymDiff
<1>2. PICK least \in D : \A x \in D : least <= x
  <2> HIDE DEF D
  <2> QED BY <1>1, LeastNumber
<1> DEFINE m == Min(D)
<1>3. m \in D /\ \A x \in D : m <= x
  <2> HIDE DEF D
  <2> QED BY <1>2 DEF Min
<1> HIDE DEF m
<1>4. IsFiniteSet(S) /\ IsFiniteSet(T) /\ S \in SUBSET Int /\ T \in SUBSET Int
  <2>1. IsFiniteSet(1..n) /\ 1..n \in SUBSET Int
    BY FirstNumbers
  <2>2. S \subseteq 1..n /\ T \subseteq 1..n
    OBVIOUS
  <2>3. IsFiniteSet(S) /\ IsFiniteSet(T)
    BY <2>1, <2>2, FS_Subset
  <2> QED BY <2>1, <2>2, <2>3
<1>5. /\ A \in Seq(S) /\ ToSet(A) = S
      /\ \A i, j \in DOMAIN A : i < j => A[i] < A[j]
      /\ B \in Seq(T) /\ ToSet(B) = T
      /\ \A i, j \in DOMAIN B : i < j => B[i] < B[j]
      /\ Len(A) = Cardinality(S) /\ Len(B) = Cardinality(S)
  BY <1>4, AscendingFacts
<1> DEFINE c == Cardinality(S)
<1>6. c \in Nat /\ DOMAIN A = 1..c /\ DOMAIN B = 1..c
  <2>1. c \in Nat
    BY <1>4, FS_CardinalityType
  <2> HIDE DEF A, B
  <2> QED BY <1>5, <2>1
<1> HIDE DEF A, B, c, D
<1>7. \A x \in S : \E i \in 1..c : A[i] = x
  BY <1>5, <1>6 DEF ToSet
<1>8. \A i \in 1..c : A[i] \in S /\ A[i] \in Int /\ B[i] \in T /\ B[i] \in Int
  <2>1. \A i \in 1..c : A[i] \in S /\ B[i] \in T
    BY <1>5, <1>6
  <2> QED BY <1>4, <2>1
<1>9. \A x \in T : \E i \in 1..c : B[i] = x
  BY <1>5, <1>6 DEF ToSet
<1>10. \E k \in 1..c : A[k] # B[k]
  <2> SUFFICES ASSUME \A k \in 1..c : A[k] = B[k] PROVE FALSE
    OBVIOUS
  <2>1. \A x \in S : x \in T
    BY <1>7, <1>8
  <2>2. \A x \in T : x \in S
    BY <1>8, <1>9
  <2>3. S = T
    BY <2>1, <2>2
  <2> QED BY <2>3
<1>11. PICK k \in 1..c : A[k] # B[k] /\ \A j \in 1..(k - 1) : A[j] = B[j]
  <2>1. c \in Nat
    BY <1>6
  <2> QED BY <1>10, <2>1, FirstDifference
<1>12. ~(A[k] < B[k])
  <2>1. ~Before(A, B)
    BY DEF A, B
  <2> QED BY <1>6, <1>11, <2>1 DEF Before
<1>13. B[k] < A[k]
  BY <1>8, <1>11, <1>12
<1>14. B[k] \notin S
  <2> SUFFICES ASSUME NEW i \in 1..c, A[i] = B[k] PROVE FALSE
    BY <1>7
  <2>1. i < k
    <3>1. k < i => A[k] < A[i]
      BY <1>5, <1>6
    <3>2. A[i] < A[k]
      BY <1>13
    <3> QED BY <1>8, <3>1, <3>2
  <2>2. A[i] = B[i] /\ B[i] < B[k]
    <3>1. i \in 1..(k - 1)
      BY <2>1
    <3> QED BY <1>5, <1>6, <1>11, <2>1, <3>1
  <2> QED BY <1>8, <2>2
<1>15. m \in S \ T => FALSE
  <2> SUFFICES ASSUME m \in S \ T PROVE FALSE
    OBVIOUS
  <2>1. PICK i \in 1..c : A[i] = m
    BY <1>7
  <2>2. ~(i < k)
    <3> SUFFICES ASSUME i < k PROVE FALSE
      OBVIOUS
    <3>1. i \in 1..(k - 1)
      OBVIOUS
    <3>2. A[i] = B[i]
      BY <1>11, <3>1
    <3> QED BY <1>8, <2>1, <3>2
  <2>3. A[k] <= A[i]
    <3>1. k = i \/ k < i
      BY <2>2
    <3>2. k < i => A[k] < A[i]
      BY <1>5, <1>6
    <3>3. A[k] \in Int /\ A[i] \in Int
      BY <1>8
    <3> QED BY <3>1, <3>2, <3>3
  <2>4. B[k] \in D
    BY <1>1, <1>8, <1>14
  <2>5. m <= B[k]
    BY <1>3, <2>4
  <2> QED BY <1>8, <1>13, <2>1, <2>3, <2>5
<1>16. m \in T
  BY <1>1, <1>3, <1>15
<1> QED BY <1>16 DEF m, D

\* There are finitely many functions from a finite set to another.
LEMMA FunctionsAreFinite ==
  ASSUME NEW S, NEW T, IsFiniteSet(S), IsFiniteSet(T)
  PROVE  IsFiniteSet([S -> T])
<1> DEFINE graph(g) == {<<i, g[i]>> : i \in S}
           f == [g \in [S -> T] |-> graph(g)]
<1>1. IsFiniteSet(SUBSET (S \X T))
  <2>1. IsFiniteSet(S \X T)
    BY FS_Product
  <2> QED BY <2>1, FS_SUBSET
<1>2. f \in [[S -> T] -> SUBSET (S \X T)]
  <2> SUFFICES ASSUME NEW g \in [S -> T] PROVE graph(g) \in SUBSET (S \X T)
    OBVIOUS
  <2> QED OBVIOUS
<1>3. ASSUME NEW g \in [S -> T], NEW h \in [S -> T], f[g] = f[h] PROVE g = h
  <2> SUFFICES ASSUME NEW i \in S PROVE g[i] = h[i]
    OBVIOUS
  <2>1. <<i, g[i]>> \in graph(h)
    BY <1>3
  <2> QED BY <2>1
<1>4. f \in Injection([S -> T], SUBSET (S \X T))
  <2> HIDE DEF f
  <2> QED BY <1>2, <1>3 DEF Injection, IsInjective
<1>5. [S -> T] \in SUBSET [S -> T]
  OBVIOUS
<1> HIDE DEF f
<1> QED BY <1>1, <1>4, FS_Injection

\* A group of candidates, as optimize_basket parses it.
GroupSet == [need : STRING, candidates : SUBSET Products, quantity : Nat \ {0}]

\* The request is one the tools serve.
Served == request \in Requests /\ request.dest \in Destinations

\* The arguments of a request.
LEMMA ServedTypes ==
  ASSUME Served
  PROVE  request.dest \in Destinations /\ request.currency \in Currencies /\ request.budget \in Nat
BY PricingAssumption DEF Served

\* _sort_candidates puts no two products at one place.
LEMMA SoonerOrder ==
  ASSUME Served
  PROVE  /\ \A p \in Products \cup {Nil} : ~Sooner(p, p)
         /\ \A p, q, r \in Products \cup {Nil} : Sooner(p, q) /\ Sooner(q, r) => Sooner(p, r)
         /\ \A p, q \in Products \cup {Nil} : p # q => Sooner(p, q) \/ Sooner(q, p)
<1>1. \A p \in Products : UnitPrice(p) \in Nat
  <2> SUFFICES ASSUME NEW p \in Products PROVE UnitPrice(p) \in Nat
    OBVIOUS
  <2>1. Price[p] \in Nat /\ CurrencyOf[p] \in Currencies
    BY Tables
  <2> QED BY <2>1, ServedTypes, ConvertFacts DEF UnitPrice
<1>2. Products \subseteq Nat /\ Nil \notin Products
  BY PricingAssumption
<1> QED BY <1>1, <1>2 DEF Sooner

\* The combinations are so many.
LEMMA CombosAreFinite ==
  ASSUME NEW gs \in Seq(GroupSet)
  PROVE  IsFiniteSet(Combos(gs)) /\ Cardinality(Combos(gs)) \in Nat
<1> DEFINE all == [DOMAIN gs -> Products \cup {Nil}]
<1>1. IsFiniteSet(DOMAIN gs)
  <2>1. DOMAIN gs = 1..Len(gs) /\ Len(gs) \in Nat
    OBVIOUS
  <2> QED BY <2>1, FirstNumbers
<1>2. IsFiniteSet(Products \cup {Nil})
  BY PricingAssumption, FS_AddElement
<1>3. IsFiniteSet(all)
  BY <1>1, <1>2, FunctionsAreFinite
<1>4. Combos(gs) \subseteq all
  BY DEF Combos
<1> HIDE DEF all
<1>5. IsFiniteSet(Combos(gs))
  BY <1>3, <1>4, FS_Subset
<1> QED BY <1>5, FS_CardinalityType

\* Every combination has its turn.
LEMMA EveryCombination ==
  ASSUME Served, NEW gs \in Seq(GroupSet)
  PROVE  /\ DOMAIN Combinations(gs) = 1..Cardinality(Combos(gs))
         /\ ToSet(Combinations(gs)) = Combos(gs)
         /\ Combinations(gs) \in Seq(Combos(gs))
<1> DEFINE C == Combos(gs)
           n == Len(gs)
           Earlier(a, b) == \E i \in DOMAIN gs : Sooner(a[i], b[i]) /\ \A j \in 1..(i - 1) : a[j] = b[j]
           R == {pair \in C \X C :
                  \E i \in DOMAIN gs : Sooner(pair[1][i], pair[2][i]) /\ \A j \in 1..(i - 1) : pair[1][j] = pair[2][j]}
<1>1. n \in Nat /\ DOMAIN gs = 1..n
  OBVIOUS
<1>2. \A c \in C : c \in [1..n -> Products \cup {Nil}]
  BY <1>1 DEF Combos
<1>3. \A a, b \in C : <<a, b>> \in R <=> Earlier(a, b)
  OBVIOUS
<1> HIDE DEF R, C
<1>4. \A a \in C : ~Earlier(a, a)
  BY <1>1, <1>2, SoonerOrder
<1>5. ASSUME NEW a \in C, NEW b \in C, NEW c \in C, Earlier(a, b), Earlier(b, c)
      PROVE  Earlier(a, c)
  <2>1. PICK i \in 1..n : Sooner(a[i], b[i]) /\ \A j \in 1..(i - 1) : a[j] = b[j]
    BY <1>1, <1>5
  <2>2. PICK k \in 1..n : Sooner(b[k], c[k]) /\ \A j \in 1..(k - 1) : b[j] = c[j]
    BY <1>1, <1>5
  <2>3. CASE i < k
    <3>1. \A j \in 1..(i - 1) : a[j] = c[j]
      BY <2>1, <2>2, <2>3
    <3>2. b[i] = c[i]
      BY <2>2, <2>3
    <3> QED BY <1>1, <2>1, <3>1, <3>2
  <2>4. CASE k < i
    <3>1. \A j \in 1..(k - 1) : a[j] = c[j]
      BY <2>1, <2>2, <2>4
    <3>2. a[k] = b[k]
      BY <2>1, <2>4
    <3> QED BY <1>1, <2>2, <3>1, <3>2
  <2>5. CASE i = k
    <3>1. \A j \in 1..(i - 1) : a[j] = c[j]
      BY <2>1, <2>2, <2>5
    <3>2. a[i] \in Products \cup {Nil} /\ b[i] \in Products \cup {Nil} /\ c[i] \in Products \cup {Nil}
      BY <1>2
    <3>3. Sooner(a[i], c[i])
      BY <2>1, <2>2, <2>5, <3>2, SoonerOrder
    <3> QED BY <1>1, <3>1, <3>3
  <2> QED BY <2>3, <2>4, <2>5
<1>6. ASSUME NEW a \in C, NEW b \in C, a # b
      PROVE  Earlier(a, b) \/ Earlier(b, a)
  <2>1. \E k \in 1..n : a[k] # b[k]
    BY <1>2, <1>6
  <2>2. PICK k \in 1..n : a[k] # b[k] /\ \A j \in 1..(k - 1) : a[j] = b[j]
    <3>1. n \in Nat
      BY <1>1
    <3> HIDE DEF n, C
    <3> QED BY ONLY <2>1, <3>1, FirstDifference
  <2>3. a[k] \in Products \cup {Nil} /\ b[k] \in Products \cup {Nil}
    BY <1>2
  <2>4. Sooner(a[k], b[k]) \/ Sooner(b[k], a[k])
    BY <2>2, <2>3, SoonerOrder
  <2>5. \A j \in 1..(k - 1) : b[j] = a[j]
    BY <2>2
  <2> QED BY <1>1, <2>2, <2>4, <2>5
<1> HIDE DEF Earlier
<1>7. /\ \A a \in C : <<a, a>> \notin R
      /\ \A a, b, c \in C : <<a, b>> \in R /\ <<b, c>> \in R => <<a, c>> \in R
      /\ \A a, b \in C : a # b => <<a, b>> \in R \/ <<b, a>> \in R
  BY <1>3, <1>4, <1>5, <1>6
<1>8. IsFiniteSet(C)
  BY CombosAreFinite DEF C
<1>9. /\ InOrder(C, R) \in Seq(C) /\ DOMAIN InOrder(C, R) = 1..Cardinality(C) /\ ToSet(InOrder(C, R)) = C
  BY <1>7, <1>8, OrderFacts
<1>10. Combinations(gs) = InOrder(C, R)
  BY DEF Combinations, C, R
<1> QED BY <1>9, <1>10 DEF C

\* The needs a combination meets.
Have(gs, combo) == {i \in DOMAIN gs : combo[i] # Nil}

\* The lines and the ids of a combination.
LEMMA PickedFacts ==
  ASSUME NEW gs \in Seq(GroupSet), NEW combo \in Combos(gs)
  PROVE  /\ combo \in [1..Len(gs) -> Products \cup {Nil}]
         /\ Have(gs, combo) \in SUBSET (1..Len(gs)) /\ IsFiniteSet(Have(gs, combo))
         /\ Picked(combo) = Ascending(Have(gs, combo))
         /\ Picked(combo) \in Seq(Have(gs, combo))
         /\ ToSet(Picked(combo)) = Have(gs, combo)
         /\ Len(Picked(combo)) = Cardinality(Have(gs, combo))
         /\ Cardinality(Have(gs, combo)) \in Nat
         /\ Lines(gs, combo) \in Seq(LineSet)
         /\ DOMAIN Lines(gs, combo) = 1..Len(Picked(combo))
         /\ Ids(combo) \in Seq(Products)
         /\ DOMAIN Ids(combo) = 1..Len(Picked(combo))
<1> DEFINE n == Len(gs)
           H == Have(gs, combo)
           P == Picked(combo)
<1>1. n \in Nat /\ DOMAIN gs = 1..n /\ \A i \in 1..n : gs[i] \in GroupSet
  OBVIOUS
<1>2. combo \in [1..n -> Products \cup {Nil}] /\ DOMAIN combo = 1..n
  BY <1>1 DEF Combos
<1>3. H \in SUBSET (1..n) /\ IsFiniteSet(H) /\ H \in SUBSET Int
  <2>1. IsFiniteSet(1..n) /\ H \subseteq 1..n
    BY <1>1, FirstNumbers DEF Have
  <2>2. IsFiniteSet(H)
    BY <2>1, FS_Subset
  <2> QED BY <2>1, <2>2
<1>4. P = Ascending(H)
  BY <1>1, <1>2 DEF Picked, Have
<1>5. P \in Seq(H) /\ ToSet(P) = H /\ Len(P) = Cardinality(H)
  BY <1>3, <1>4, AscendingFacts
<1>6. Len(P) \in Nat /\ DOMAIN P = 1..Len(P) /\ \A k \in 1..Len(P) : P[k] \in H
  <2> HIDE DEF P, H
  <2> QED BY <1>5
<1>7. \A i \in H : i \in 1..n /\ combo[i] \in Products /\ gs[i].quantity \in Nat \ {0}
  <2>1. \A i \in 1..n : gs[i].quantity \in Nat \ {0}
    BY <1>1 DEF GroupSet
  <2> QED BY <1>1, <1>2, <2>1 DEF Have
<1>8. Lines(gs, combo) = [k \in 1..Len(P) |-> [product |-> combo[P[k]], quantity |-> gs[P[k]].quantity]]
  BY <1>6 DEF Lines
<1>9. Ids(combo) = [k \in 1..Len(P) |-> combo[P[k]]]
  BY <1>6 DEF Ids
<1> HIDE DEF P, H, n
<1>10. \A k \in 1..Len(P) : /\ combo[P[k]] \in Products
                            /\ [product |-> combo[P[k]], quantity |-> gs[P[k]].quantity] \in LineSet
  BY <1>6, <1>7 DEF LineSet
<1>11. Lines(gs, combo) \in Seq(LineSet) /\ DOMAIN Lines(gs, combo) = 1..Len(P)
  BY <1>6, <1>8, <1>10
<1>12. Ids(combo) \in Seq(Products) /\ DOMAIN Ids(combo) = 1..Len(P)
  <2> DEFINE m == Len(P)
             f == [k \in 1..m |-> combo[P[k]]]
  <2>1. m \in Nat /\ \A k \in 1..m : f[k] \in Products
    BY <1>6, <1>10
  <2>2. DOMAIN f = 1..m /\ f = [k \in 1..m |-> f[k]]
    OBVIOUS
  <2> HIDE DEF m, f
  <2>3. f \in [1..m -> Products]
    BY <2>1, <2>2
  <2>4. f \in Seq(Products)
    BY <2>1, <2>3
  <2> QED BY <1>9, <2>2, <2>4 DEF m, f
<1> QED BY <1>2, <1>3, <1>4, <1>5, <1>6, <1>11, <1>12 DEF P, H, n

\* The cost of a combination.
LEMMA CostType ==
  ASSUME Served, NEW gs \in Seq(GroupSet), NEW combo \in Combos(gs)
  PROVE  Cost(gs, combo) \in Nat
<1>1. Lines(gs, combo) \in Seq(LineSet)
  BY PickedFacts
<1>2. Landed(QuoteBasket(Lines(gs, combo), request.dest, request.currency)) \in Nat
  BY <1>1, ServedTypes, QuoteTypes
<1> QED BY <1>2 DEF Cost

\* A combination is not better than itself, nor is one that beats it worse.
LEMMA BetterOrder ==
  ASSUME Served, NEW gs \in Seq(GroupSet)
  PROVE  /\ \A a \in Combos(gs) : ~Better(gs, a, a)
         /\ \A a, b, c \in Combos(gs) : Better(gs, a, b) /\ Better(gs, b, c) => Better(gs, a, c)
<1>1. \A a \in Combos(gs) :
        /\ Len(Picked(a)) \in Nat /\ Cost(gs, a) \in Nat
        /\ DOMAIN Picked(a) = 1..Len(Picked(a)) /\ DOMAIN Ids(a) = 1..Len(Picked(a))
        /\ \A k \in 1..Len(Picked(a)) : Picked(a)[k] \in Int /\ Ids(a)[k] \in Int
  <2> SUFFICES ASSUME NEW a \in Combos(gs)
               PROVE  /\ Len(Picked(a)) \in Nat /\ Cost(gs, a) \in Nat
                      /\ DOMAIN Picked(a) = 1..Len(Picked(a)) /\ DOMAIN Ids(a) = 1..Len(Picked(a))
                      /\ \A k \in 1..Len(Picked(a)) : Picked(a)[k] \in Int /\ Ids(a)[k] \in Int
    OBVIOUS
  <2> DEFINE P == Picked(a)
             H == Have(gs, a)
             D == Ids(a)
  <2>1. P \in Seq(H) /\ H \in SUBSET (1..Len(gs)) /\ D \in Seq(Products) /\ DOMAIN D = 1..Len(P)
    BY PickedFacts
  <2>2. Products \subseteq Int
    <3>1. Products \subseteq Nat
      BY Tables
    <3> QED BY ONLY <3>1
  <2>3. Cost(gs, a) \in Nat
    BY CostType
  <2> HIDE DEF P, H, D
  <2>4. Len(P) \in Nat /\ DOMAIN P = 1..Len(P) /\ \A k \in 1..Len(P) : P[k] \in Int /\ D[k] \in Int
    <3>1. Len(P) \in Nat /\ DOMAIN P = 1..Len(P) /\ \A k \in 1..Len(P) : P[k] \in H
      BY <2>1
    <3>2. \A k \in DOMAIN D : D[k] \in Products
      BY <2>1
    <3>3. H \subseteq Int
      BY <2>1
    <3> QED BY <2>1, <2>2, <3>1, <3>2, <3>3
  <2> QED BY <2>1, <2>3, <2>4 DEF P, D
<1>2. ASSUME NEW a \in Combos(gs) PROVE ~Better(gs, a, a)
  <2>1. ~Before(Picked(a), Picked(a)) /\ ~Before(Ids(a), Ids(a))
    BY <1>1, BeforeIrreflexive
  <2> QED BY <1>1, <2>1 DEF Better
<1>3. ASSUME NEW a \in Combos(gs), NEW b \in Combos(gs), NEW c \in Combos(gs),
             Better(gs, a, b), Better(gs, b, c)
      PROVE  Better(gs, a, c)
  <2>1. /\ Len(Picked(a)) = Len(Picked(b)) /\ Len(Picked(b)) = Len(Picked(c)) =>
             (Before(Picked(a), Picked(b)) /\ Before(Picked(b), Picked(c)) => Before(Picked(a), Picked(c)))
        /\ Len(Picked(a)) = Len(Picked(b)) /\ Len(Picked(b)) = Len(Picked(c)) =>
             (Before(Ids(a), Ids(b)) /\ Before(Ids(b), Ids(c)) => Before(Ids(a), Ids(c)))
    <3> DEFINE n == Len(Picked(a))
    <3> SUFFICES ASSUME Len(Picked(b)) = n, Len(Picked(c)) = n
                 PROVE  /\ Before(Picked(a), Picked(b)) /\ Before(Picked(b), Picked(c)) => Before(Picked(a), Picked(c))
                        /\ Before(Ids(a), Ids(b)) /\ Before(Ids(b), Ids(c)) => Before(Ids(a), Ids(c))
      OBVIOUS
    <3>1. /\ n \in Nat /\ DOMAIN Picked(a) = 1..n /\ DOMAIN Picked(b) = 1..n /\ DOMAIN Picked(c) = 1..n
          /\ DOMAIN Ids(a) = 1..n /\ DOMAIN Ids(b) = 1..n /\ DOMAIN Ids(c) = 1..n
          /\ \A k \in 1..n : /\ Picked(a)[k] \in Int /\ Picked(b)[k] \in Int /\ Picked(c)[k] \in Int
                             /\ Ids(a)[k] \in Int /\ Ids(b)[k] \in Int /\ Ids(c)[k] \in Int
      BY <1>1
    <3> HIDE DEF n
    <3>2. Before(Picked(a), Picked(b)) /\ Before(Picked(b), Picked(c)) => Before(Picked(a), Picked(c))
      BY <3>1, BeforeTransitive
    <3>3. Before(Ids(a), Ids(b)) /\ Before(Ids(b), Ids(c)) => Before(Ids(a), Ids(c))
      BY <3>1, BeforeTransitive
    <3> QED BY <3>2, <3>3
  <2>2. /\ Len(Picked(a)) \in Nat /\ Len(Picked(b)) \in Nat /\ Len(Picked(c)) \in Nat
        /\ Cost(gs, a) \in Nat /\ Cost(gs, b) \in Nat /\ Cost(gs, c) \in Nat
    BY <1>1
  <2> QED BY <1>3, <2>1, <2>2 DEF Better
<1> QED BY <1>2, <1>3
-----------------------------------------------------------------------------
(***************************************************************************)
(* The search                                                              *)
(***************************************************************************)

\* The best of the combinations considered so far, among those one can pay.
BestSoFar ==
  /\ best \in Combos(groups) /\ Affordable(groups, best)
  /\ \A k \in 1..considered :
       Affordable(groups, Combinations(groups)[k]) => ~Better(groups, Combinations(groups)[k], best)

\* What is so between the steps of a request: the arguments are known, and
\* the search has found the best of what it has seen.
PricesIInv ==
  /\ stage = "called" => request \in Requests /\ considered = 0
  /\ stage = "quoted" => /\ Served /\ groups \in Seq(GroupSet) /\ groups # <<>>
                         /\ best \in [DOMAIN groups -> Products]
  /\ stage = "searching" => /\ Served /\ groups \in Seq(GroupSet)
                            /\ considered \in 0..Cardinality(Combos(groups)) /\ BestSoFar
  /\ BasketIsRight

\* Nothing is quoted yet.
LEMMA PricesStart == PricingInit => PricesIInv
BY DEF PricingInit, PricesIInv, BasketIsRight, PlanIsBest, GapsAreReal

\* All that is quoted is bought.
LEMMA QuotedLines ==
  ASSUME groups \in Seq(GroupSet), groups # <<>>, best \in [DOMAIN groups -> Products]
  PROVE  Lines(groups, best) \in Seq(LineSet) /\ Lines(groups, best) # <<>>
<1> DEFINE lines == Lines(groups, best)
<1>1. DOMAIN groups = 1..Len(groups) /\ Len(groups) \in Nat /\ Len(groups) # 0
  OBVIOUS
<1>2. /\ IsFiniteSet(DOMAIN groups) /\ Cardinality(DOMAIN groups) = Len(groups) /\ DOMAIN groups \in SUBSET Int
  BY <1>1, FirstNumbers
<1>3. {i \in DOMAIN best : best[i] # Nil} = DOMAIN groups
  <2>1. Nil \notin Products
    BY PricingAssumption
  <2> QED BY <2>1
<1> DEFINE P == Picked(best)
           G == DOMAIN groups
<1>4. P = Ascending(G)
  BY <1>3 DEF Picked
<1>5. P \in Seq(G) /\ Len(P) = Len(groups)
  BY <1>2, <1>4, AscendingFacts
<1>6. Len(P) \in Nat /\ DOMAIN P = 1..Len(P) /\ \A k \in 1..Len(P) : P[k] \in G
  <2> HIDE DEF P, G
  <2> QED BY <1>5
<1>7. lines = [k \in 1..Len(P) |-> [product |-> best[P[k]], quantity |-> groups[P[k]].quantity]]
  BY <1>6 DEF Lines
<1>8. \A i \in G : best[i] \in Products /\ groups[i].quantity \in Nat \ {0}
  <2>1. \A i \in G : groups[i] \in GroupSet
    OBVIOUS
  <2> QED BY <2>1 DEF GroupSet
<1> HIDE DEF P, G, lines
<1>9. \A k \in 1..Len(P) : [product |-> best[P[k]], quantity |-> groups[P[k]].quantity] \in LineSet
  BY <1>6, <1>8 DEF LineSet
<1>10. lines \in Seq(LineSet) /\ DOMAIN lines = 1..Len(P)
  BY <1>6, <1>7, <1>9
<1>11. lines # <<>>
  <2>1. 1 \in DOMAIN lines
    BY <1>1, <1>5, <1>10
  <2> QED BY <2>1
<1> QED BY <1>10, <1>11 DEF lines

\* Both ways to a price agree for what is quoted.
LEMMA QuoteIsRight ==
  ASSUME PricesIInv
  PROVE  QuotesAgree
<1> SUFFICES ASSUME stage = "quoted" PROVE QuotesAgree
  BY DEF QuotesAgree
<1> DEFINE lines == Lines(groups, best)
           dest == request.dest
           target == request.currency
           basket == QuoteBasket(lines, dest, target)
           I == DOMAIN lines
<1>1. Served /\ groups \in Seq(GroupSet) /\ groups # <<>> /\ best \in [DOMAIN groups -> Products]
  BY DEF PricesIInv
<1>2. dest \in Destinations /\ target \in Currencies
  BY <1>1, ServedTypes
<1>4. lines \in Seq(LineSet) /\ lines # <<>>
  BY <1>1, QuotedLines
<1> HIDE DEF lines
<1>5. ASSUME NEW l \in ToSet(lines)
      PROVE  QuoteBasket(<<l>>, dest, target) =
               Quote(Amount(l), CurrencyOf[l.product], Category[l.product], dest, l.quantity, target)
  <2>1. l \in LineSet
    BY <1>4 DEF ToSet
  <2> QED BY <1>2, <2>1, OneLine
<1>6. Landed(basket) - basket.tariff <= Separately(lines, dest, target)
  <2> DEFINE alone(i) == QuoteBasket(<<lines[i]>>, dest, target)
             sub == [i \in I |-> Convert(Amount(lines[i]), CurrencyOf[lines[i].product], target)]
             fre == [i \in I |-> Convert(Freight(dest, lines[i].quantity), "CNY", target)]
             both == [i \in I |-> 1 * sub[i] + 1 * fre[i]]
             each == [i \in I |-> Landed(alone(i))]
  <2>1. IsFiniteSet(I)
    BY <1>2, <1>4, ParcelTypes
  <2>2. \A i \in I : /\ sub[i] \in Nat /\ fre[i] \in Nat /\ each[i] \in Nat
                     /\ both[i] = sub[i] + fre[i] /\ sub[i] + fre[i] <= each[i]
    <3> SUFFICES ASSUME NEW i \in I
                 PROVE  /\ sub[i] \in Nat /\ fre[i] \in Nat /\ each[i] \in Nat
                        /\ both[i] = sub[i] + fre[i] /\ sub[i] + fre[i] <= each[i]
      OBVIOUS
    <3>1. lines[i] \in LineSet
      BY <1>4
    <3> DEFINE l == lines[i]
               q == alone(i)
    <3>2. q = Quote(Amount(l), CurrencyOf[l.product], Category[l.product], dest, l.quantity, target)
      BY <1>2, <3>1, OneLine
    <3>3. sub[i] = q.subtotal /\ fre[i] = q.freight
      BY <3>2 DEF Quote
    <3>4. <<l>> \in Seq(LineSet)
      BY <3>1
    <3>5. q.subtotal \in Nat /\ q.freight \in Nat /\ q.tariff \in Nat /\ Landed(q) \in Nat
      BY <1>2, <3>4, QuoteTypes
    <3>6. each[i] = Landed(q) /\ both[i] = 1 * sub[i] + 1 * fre[i]
      OBVIOUS
    <3> DEFINE x == q.subtotal
               y == q.freight
               z == q.tariff
    <3>7. Landed(q) = x + y + z
      BY DEF Landed
    <3> HIDE DEF x, y, z, sub, fre, each, both
    <3>8. x \in Nat /\ y \in Nat /\ z \in Nat /\ sub[i] = x /\ fre[i] = y
      BY <3>3, <3>5 DEF x, y, z
    <3>9. each[i] = x + y + z /\ both[i] = 1 * x + 1 * y
      BY <3>6, <3>7, <3>8
    <3> QED BY <3>8, <3>9
  <2>3. SumFunctionOnSet(both, I) = SumFunctionOnSet(sub, I) + SumFunctionOnSet(fre, I)
    <3>1. \A i \in I : sub[i] \in Int /\ fre[i] \in Int /\ both[i] = 1 * sub[i] + 1 * fre[i]
      <4>1. \A i \in I : both[i] = 1 * sub[i] + 1 * fre[i]
        OBVIOUS
      <4> HIDE DEF sub, fre, both, each
      <4> QED BY <2>2, <4>1
    <3>2. 1 \in Int
      OBVIOUS
    <3> HIDE DEF sub, fre, both
    <3>3. SumFunctionOnSet(both, I) = 1 * SumFunctionOnSet(sub, I) + 1 * SumFunctionOnSet(fre, I)
      BY <2>1, <3>1, <3>2, SumLinear
    <3>4. SumFunctionOnSet(sub, I) \in Int /\ SumFunctionOnSet(fre, I) \in Int
      BY <2>1, <3>1, SumType
    <3> QED BY <3>3, <3>4
  <2>4. SumFunctionOnSet(both, I) <= SumFunctionOnSet(each, I)
    <3>1. \A i \in I : both[i] \in Int /\ each[i] \in Int /\ both[i] <= each[i]
      BY <2>2
    <3> HIDE DEF both, each
    <3> QED BY <2>1, <3>1, SumOrder
  <2>5. Separately(lines, dest, target) = SumFunctionOnSet(each, I)
    BY DEF Separately, SumFunction
  <2>6. basket.subtotal = SumFunctionOnSet(sub, I)
    BY DEF QuoteBasket, SumFunction
  <2>7. basket.freight <= SumFunctionOnSet(fre, I)
    <3>1. Convert(Freight(dest, Quantity(lines)), "CNY", target) <= SumFunction(fre)
      BY <1>2, <1>4, TogetherIsCheaper
    <3>2. SumFunction(fre) = SumFunctionOnSet(fre, I)
      BY DEF SumFunction
    <3> QED BY <3>1, <3>2 DEF QuoteBasket
  <2>8. basket.subtotal \in Nat /\ basket.freight \in Nat /\ basket.tariff \in Nat
    BY <1>2, <1>4, QuoteTypes
  <2>9. SumFunctionOnSet(fre, I) \in Nat /\ SumFunctionOnSet(each, I) \in Nat
    <3>1. \A i \in I : fre[i] \in Nat /\ each[i] \in Nat
      BY <2>2
    <3> HIDE DEF fre, each
    <3> QED BY <2>1, <3>1, SumOfNaturals
  <2> DEFINE x == basket.subtotal
             y == basket.freight
             z == basket.tariff
             f == SumFunctionOnSet(fre, I)
             e == SumFunctionOnSet(each, I)
             b == SumFunctionOnSet(both, I)
  <2>10. Landed(basket) = x + y + z
    BY DEF Landed
  <2>11. x \in Nat /\ y \in Nat /\ z \in Nat /\ f \in Nat /\ e \in Nat /\ b <= e /\ b = x + f /\ y <= f
    BY <2>3, <2>4, <2>6, <2>7, <2>8, <2>9
  <2> HIDE DEF x, y, z, f, e, b, basket, fre, each, both
  <2>12. x + y + z - z <= e
    BY <2>11
  <2>13. basket.tariff = z
    BY DEF z
  <2>14. Separately(lines, dest, target) = e
    BY <2>5 DEF e
  <2>15. Landed(basket) - basket.tariff = x + y + z - z
    BY <2>10, <2>11, <2>13
  <2> QED BY <2>12, <2>14, <2>15
<1>7. LET whole == WorthInCNY(lines)
          due == SumFunction([i \in I |-> InCNY(lines[i]) * DutyRate[dest][Category[lines[i].product]]])
      IN Duty(lines, dest) * whole * 1000 - Taxable(lines, dest) * due
           \in -(Len(lines) * whole * 500)..(Len(lines) * whole * 500)
  BY <1>2, <1>4, DutyIsClose
<1> QED BY <1>5, <1>6, <1>7 DEF QuotesAgree, lines

\* A request that is refused changes nothing.
LEMMA RejectStep == PricesIInv /\ Reject => PricesIInv'
BY DEF Reject, PricesIInv, BasketIsRight, PlanIsBest, GapsAreReal

\* What the request asks for, as groups.
LEMMA GroupsAreTyped ==
  ASSUME request \in Requests, ~Invalid, NEW gs,
         gs = [i \in DOMAIN request.needs |-> gs[i]],
         \A i \in DOMAIN request.needs :
           /\ gs[i] = [need |-> request.needs[i].need, candidates |-> gs[i].candidates,
                       quantity |-> Bought(request.needs[i].quantity)]
           /\ gs[i].candidates \subseteq request.needs[i].ids
  PROVE  Served /\ gs \in Seq(GroupSet) /\ gs # <<>>
<1> DEFINE Need == [need : STRING, ids : SUBSET Nat, quantity : Int]
           needs == request.needs
           n == Len(needs)
<1>1. needs \in Seq(Need)
  BY PricingAssumption
<1>2. needs # <<>> /\ request.dest \in Destinations
  BY DEF Invalid
<1>3. n \in Nat \ {0} /\ DOMAIN needs = 1..n /\ \A i \in 1..n : needs[i] \in Need
  <2> HIDE DEF Need
  <2> QED BY <1>1, <1>2
<1>4. \A i \in 1..n : gs[i] \in GroupSet
  <2> SUFFICES ASSUME NEW i \in 1..n PROVE gs[i] \in GroupSet
    OBVIOUS
  <2>1. needs[i] \in Need
    BY <1>3
  <2>2. needs[i] \in ToSet(needs)
    BY <1>3 DEF ToSet
  <2>3. needs[i].ids \subseteq Products /\ ~(Bought(needs[i].quantity) < 0)
    <3>1. needs[i].ids \ Products = {} /\ ~(Bought(needs[i].quantity) < 0)
      BY <2>2 DEF Invalid
    <3> QED BY <3>1
  <2>4. needs[i].need \in STRING /\ Bought(needs[i].quantity) \in Nat \ {0}
    BY <2>1, <2>3 DEF Bought
  <2>5. /\ gs[i] = [need |-> needs[i].need, candidates |-> gs[i].candidates, quantity |-> Bought(needs[i].quantity)]
        /\ gs[i].candidates \subseteq needs[i].ids
    BY <1>3
  <2> QED BY <2>3, <2>4, <2>5 DEF GroupSet
<1>5. gs = [i \in 1..n |-> gs[i]] /\ n \in Nat
  BY <1>3
<1> HIDE DEF n, needs
<1>6. gs \in Seq(GroupSet) /\ DOMAIN gs = 1..n
  <2>1. gs \in [1..n -> GroupSet] /\ DOMAIN gs = 1..n
    BY <1>4, <1>5
  <2> QED BY <1>5, <2>1
<1>7. gs # <<>>
  <2>1. 1 \in DOMAIN gs
    BY <1>3, <1>6
  <2> QED BY <2>1
<1> QED BY <1>2, <1>6, <1>7 DEF Served

\* quote_basket quotes what it is asked for.
LEMMA QuoteStep == PricesIInv /\ QuoteTool => PricesIInv'
<1> SUFFICES ASSUME PricesIInv, QuoteTool PROVE PricesIInv'
  OBVIOUS
<1> DEFINE needs == request.needs
<1>1. /\ request \in Requests /\ ~Invalid /\ request.tool = "quote" /\ stage' = "quoted"
      /\ request' = request
      /\ groups' = [i \in DOMAIN needs |->
           [need |-> needs[i].need, candidates |-> needs[i].ids, quantity |-> Bought(needs[i].quantity)]]
      /\ best' = [i \in DOMAIN needs |-> CHOOSE p \in needs[i].ids : TRUE]
  BY DEF QuoteTool, PricesIInv
<1>2. Served /\ groups' \in Seq(GroupSet) /\ groups' # <<>>
  <2>1. /\ \A i \in DOMAIN needs :
             /\ groups'[i] = [need |-> needs[i].need, candidates |-> groups'[i].candidates,
                              quantity |-> Bought(needs[i].quantity)]
             /\ groups'[i].candidates \subseteq needs[i].ids
        /\ groups' = [i \in DOMAIN needs |-> groups'[i]]
    BY <1>1
  <2> QED BY <1>1, <2>1, GroupsAreTyped
<1>3. best' \in [DOMAIN groups' -> Products]
  <2> SUFFICES ASSUME NEW i \in DOMAIN needs PROVE (CHOOSE p \in needs[i].ids : TRUE) \in Products
    BY <1>1
  <2>1. needs[i] \in ToSet(needs)
    BY DEF ToSet
  <2>2. needs[i].ids \subseteq Products
    <3>1. needs[i].ids \ Products = {}
      BY <1>1, <2>1 DEF Invalid
    <3> QED BY <3>1
  <2>3. Cardinality(needs[i].ids) = 1
    BY <1>1, <2>1, PricingAssumption
  <2>4. needs[i].ids # {}
    BY <2>3, FS_EmptySet
  <2> QED BY <2>2, <2>4
<1>4. Served'
  BY <1>1, <1>2 DEF Served
<1> QED BY <1>1, <1>2, <1>3, <1>4 DEF PricesIInv, BasketIsRight, PlanIsBest, GapsAreReal

\* The search begins with the empty combination.
LEMMA OptimizeStep == PricesIInv /\ Optimize => PricesIInv'
<1> SUFFICES ASSUME PricesIInv, Optimize PROVE PricesIInv'
  OBVIOUS
<1> DEFINE needs == request.needs
           gs == [i \in DOMAIN needs |->
                    [need |-> needs[i].need,
                     candidates |-> {p \in needs[i].ids : request.dest \in ShipsTo[p]},
                     quantity |-> Bought(needs[i].quantity)]]
<1>1. /\ request \in Requests /\ ~Invalid /\ considered = 0 /\ considered' = considered /\ request' = request
      /\ \/ stage' = "error"
         \/ stage' = "searching" /\ groups' = gs /\ best' = Nothing(gs)
  BY DEF Optimize, PricesIInv
<1>2. CASE stage' = "error"
  BY <1>2 DEF PricesIInv, BasketIsRight, PlanIsBest, GapsAreReal
<1>3. CASE stage' = "searching" /\ groups' = gs /\ best' = Nothing(gs)
  <2>1. Served /\ gs \in Seq(GroupSet) /\ gs # <<>>
    <3>1. /\ \A i \in DOMAIN needs :
               /\ gs[i] = [need |-> needs[i].need, candidates |-> gs[i].candidates,
                           quantity |-> Bought(needs[i].quantity)]
               /\ gs[i].candidates \subseteq needs[i].ids
          /\ gs = [i \in DOMAIN needs |-> gs[i]]
      OBVIOUS
    <3> HIDE DEF gs
    <3> QED BY <1>1, <3>1, GroupsAreTyped
  <2> HIDE DEF gs
  <2>2. Nothing(gs) \in Combos(gs)
    BY DEF Nothing, Combos
  <2>3. Cost(gs, Nothing(gs)) = 0
    <3>1. Have(gs, Nothing(gs)) = {}
      BY DEF Have, Nothing
    <3>2. Lines(gs, Nothing(gs)) \in Seq(LineSet) /\ DOMAIN Lines(gs, Nothing(gs)) = 1..0
      BY <2>1, <2>2, <3>1, PickedFacts, FS_EmptySet
    <3>3. Lines(gs, Nothing(gs)) = <<>>
      BY <3>2
    <3> QED BY <3>3 DEF Cost
  <2>4. Affordable(gs, Nothing(gs))
    BY <2>1, <2>3, ServedTypes DEF Affordable
  <2>5. Served'
    BY <1>1, <2>1 DEF Served
  <2>6. Affordable(groups, best)'
    BY <1>1, <1>3, <2>4 DEF Affordable, Cost
  <2>7. BestSoFar'
    BY <1>1, <1>3, <2>2, <2>6 DEF BestSoFar
  <2>8. Cardinality(Combos(gs)) \in Nat
    BY <2>1, CombosAreFinite
  <2>9. considered' \in 0..Cardinality(Combos(groups'))
    BY <1>1, <1>3, <2>8
  <2> QED BY <1>3, <2>1, <2>5, <2>7, <2>9 DEF PricesIInv, BasketIsRight, PlanIsBest, GapsAreReal
<1> QED BY <1>1, <1>2, <1>3

\* A better one that can be paid takes the place of the best.
LEMMA ConsiderStep == PricesIInv /\ Consider => PricesIInv'
<1> SUFFICES ASSUME PricesIInv, Consider PROVE PricesIInv'
  OBVIOUS
<1> DEFINE Best(b, n) ==
             /\ b \in Combos(groups) /\ Affordable(groups, b)
             /\ \A k \in 1..n :
                  Affordable(groups, Combinations(groups)[k]) => ~Better(groups, Combinations(groups)[k], b)
           combo == Combinations(groups)[considered + 1]
           total == Cardinality(Combos(groups))
<1>1. /\ Served /\ groups \in Seq(GroupSet) /\ considered \in 0..total /\ Best(best, considered)
      /\ stage = "searching" /\ considered < total
      /\ best' = IF Affordable(groups, combo) /\ Better(groups, combo, best) THEN combo ELSE best
      /\ considered' = considered + 1 /\ request' = request /\ stage' = stage /\ groups' = groups
  BY DEF PricesIInv, Consider, BestSoFar
<1>2. total \in Nat /\ \A k \in 1..total : Combinations(groups)[k] \in Combos(groups)
  <2>1. total \in Nat
    BY <1>1, CombosAreFinite
  <2>2. DOMAIN Combinations(groups) = 1..total /\ Combinations(groups) \in Seq(Combos(groups))
    BY <1>1, EveryCombination
  <2> HIDE DEF total
  <2> QED BY <2>1, <2>2
<1>3. considered + 1 \in 1..total /\ combo \in Combos(groups)
  <2> HIDE DEF total
  <2> QED BY <1>1, <1>2
<1>4. Best(best', considered + 1)
  <2>1. \A k \in 1..(considered + 1) : k \in 1..considered \/ k = considered + 1
    BY <1>1
  <2>2. \A k \in 1..considered : Combinations(groups)[k] \in Combos(groups)
    <3> HIDE DEF total
    <3> QED BY <1>1, <1>2
  <2>3. CASE Affordable(groups, combo) /\ Better(groups, combo, best)
    <3>1. best' = combo
      BY <1>1, <2>3
    <3>2. ASSUME NEW k \in 1..considered, Affordable(groups, Combinations(groups)[k])
          PROVE  ~Better(groups, Combinations(groups)[k], combo)
      <4>1. ~Better(groups, Combinations(groups)[k], best)
        BY <1>1, <3>2
      <4>2. best \in Combos(groups)
        BY <1>1
      <4>3. Combinations(groups)[k] \in Combos(groups)
        BY <2>2
      <4> HIDE DEF combo
      <4> QED BY <1>1, <1>3, <2>3, <4>1, <4>2, <4>3, BetterOrder
    <3>3. ~Better(groups, combo, combo)
      <4> HIDE DEF combo
      <4> QED BY <1>1, <1>3, BetterOrder
    <3>4. Best(combo, considered + 1)
      BY <1>3, <2>1, <2>3, <3>2, <3>3
    <3> HIDE DEF Best, combo
    <3> QED BY <3>1, <3>4
  <2>4. CASE ~(Affordable(groups, combo) /\ Better(groups, combo, best))
    <3>1. best' = best
      BY <1>1, <2>4
    <3>2. Best(best, considered + 1)
      BY <1>1, <2>1, <2>4
    <3> HIDE DEF Best
    <3> QED BY <3>1, <3>2
  <2> QED BY <2>3, <2>4
<1>5. BestSoFar'
  <2>1. Combinations(groups)' = Combinations(groups)
    BY <1>1 DEF Combinations, Sooner, UnitPrice
  <2>2. \A a, b : /\ Better(groups, a, b)' <=> Better(groups, a, b)
                  /\ Affordable(groups, a)' <=> Affordable(groups, a)
    BY <1>1 DEF Better, Affordable, Cost
  <2>3. PICK B, C : B = best' /\ C = Combinations(groups)
    OBVIOUS
  <2>4. BestSoFar' <=>
          /\ B \in Combos(groups) /\ Affordable(groups, B)'
          /\ \A k \in 1..(considered + 1) : Affordable(groups, C[k])' => ~Better(groups, C[k], B)'
    BY <1>1, <2>1, <2>3 DEF BestSoFar, Affordable, Better, Cost
  <2> QED BY <1>4, <2>2, <2>3, <2>4
<1>6. Served' /\ considered' \in 0..Cardinality(Combos(groups'))
  <2>1. considered + 1 \in 0..total
    <3> HIDE DEF total
    <3> QED BY <1>2, <1>3
  <2> QED BY <1>1, <2>1 DEF Served
<1> QED BY <1>1, <1>5, <1>6 DEF PricesIInv, BasketIsRight, PlanIsBest, GapsAreReal

\* What Better says of what a combination has.
LEMMA NoneIsBetter ==
  ASSUME Served, NEW gs \in Seq(GroupSet), NEW a \in Combos(gs), NEW b \in Combos(gs), ~Better(gs, a, b)
  PROVE  /\ Cardinality(Have(gs, a)) <= Cardinality(Have(gs, b))
         /\ Cardinality(Have(gs, a)) = Cardinality(Have(gs, b)) /\ Have(gs, a) # Have(gs, b) =>
              Min(SymDiff(Have(gs, a), Have(gs, b))) \in Have(gs, b)
         /\ Have(gs, a) = Have(gs, b) => Cost(gs, b) <= Cost(gs, a)
<1>1. /\ Len(Picked(a)) = Cardinality(Have(gs, a)) /\ Len(Picked(b)) = Cardinality(Have(gs, b))
      /\ Cardinality(Have(gs, a)) \in Nat /\ Cardinality(Have(gs, b)) \in Nat
      /\ Picked(a) = Ascending(Have(gs, a)) /\ Picked(b) = Ascending(Have(gs, b))
      /\ Have(gs, a) \in SUBSET (1..Len(gs)) /\ Have(gs, b) \in SUBSET (1..Len(gs))
  BY PickedFacts
<1>2. Cost(gs, a) \in Nat /\ Cost(gs, b) \in Nat
  BY CostType
<1>3. Len(gs) \in Nat
  OBVIOUS
<1>4. Cardinality(Have(gs, a)) <= Cardinality(Have(gs, b))
  BY <1>1 DEF Better
<1>5. ASSUME Cardinality(Have(gs, a)) = Cardinality(Have(gs, b)), Have(gs, a) # Have(gs, b)
      PROVE  Min(SymDiff(Have(gs, a), Have(gs, b))) \in Have(gs, b)
  <2>1. ~Before(Ascending(Have(gs, a)), Ascending(Have(gs, b)))
    BY <1>1, <1>5 DEF Better
  <2> QED BY <1>1, <1>3, <1>5, <2>1, EarlierFirst
<1>6. ASSUME Have(gs, a) = Have(gs, b) PROVE Cost(gs, b) <= Cost(gs, a)
  BY <1>1, <1>2, <1>6 DEF Better
<1> QED BY <1>4, <1>5, <1>6

\* When all have been considered, the best so far is the best, and what it
\* lacks could not be paid.
LEMMA ReportStep == PricesIInv /\ Report => PricesIInv'
<1> SUFFICES ASSUME PricesIInv, Report PROVE PricesIInv'
  OBVIOUS
<1>1. /\ Served /\ groups \in Seq(GroupSet) /\ best \in Combos(groups) /\ Affordable(groups, best)
      /\ \A k \in 1..Cardinality(Combos(groups)) :
           Affordable(groups, Combinations(groups)[k]) => ~Better(groups, Combinations(groups)[k], best)
      /\ stage' = "planned" /\ request' = request /\ groups' = groups /\ best' = best
  BY DEF PricesIInv, Report, BestSoFar
<1>2. PICK cheapest \in [DOMAIN groups -> Products \cup {Nil}] :
        /\ \A i \in DOMAIN groups : cheapest[i] \in Cheapest(i)
        /\ uncovered' = {[group |-> i, product |-> cheapest[i],
                          gap |-> IF cheapest[i] = Nil \/ request.budget = 0 THEN Nil ELSE Gap(i, cheapest[i])] :
                            i \in {i \in DOMAIN groups : groups[i].need \notin ChosenNeeds}}
  BY DEF Report
<1>3. ASSUME NEW c \in Combos(groups), Affordable(groups, c) PROVE ~Better(groups, c, best)
  <2>1. \E k \in 1..Cardinality(Combos(groups)) : Combinations(groups)[k] = c
    BY <1>1, EveryCombination DEF ToSet
  <2> QED BY <1>1, <1>3, <2>1
<1>4. PlanIsBest'
  <2>1. ASSUME NEW c \in Combos(groups), Affordable(groups, c)
        PROVE  /\ Cardinality(Have(groups, c)) <= Cardinality(Have(groups, best))
               /\ Cardinality(Have(groups, c)) = Cardinality(Have(groups, best))
                    /\ Have(groups, c) # Have(groups, best) =>
                    Min(SymDiff(Have(groups, c), Have(groups, best))) \in Have(groups, best)
               /\ Have(groups, c) = Have(groups, best) => Cost(groups, best) <= Cost(groups, c)
    <3>1. ~Better(groups, c, best)
      BY <1>3, <2>1
    <3> QED BY <1>1, <3>1, NoneIsBetter
  <2>2. \A c : /\ Affordable(groups, c)' <=> Affordable(groups, c)
               /\ Cost(groups, c)' = Cost(groups, c)
    BY <1>1 DEF Affordable, Cost
  <2>3. Affordable(groups, best)' /\ Cost(groups, best)' = Cost(groups, best)
    BY <1>1 DEF Affordable, Cost
  <2> QED BY <1>1, <2>1, <2>2, <2>3 DEF PlanIsBest, Have
<1>5. ASSUME NEW i \in DOMAIN groups, groups[i].need \notin ChosenNeeds, cheapest[i] # Nil
      PROVE  /\ request.budget # 0 /\ Gap(i, cheapest[i]) > 0
             /\ Cost(groups, [best EXCEPT ![i] = cheapest[i]]) = request.budget + Gap(i, cheapest[i])
  <2> DEFINE p == cheapest[i]
             c == [best EXCEPT ![i] = p]
  <2>1. best[i] = Nil
    BY <1>5 DEF ChosenNeeds
  <2>2. p \in groups[i].candidates
    <3>1. cheapest[i] \in Cheapest(i)
      BY <1>2
    <3> QED BY <1>5, <3>1 DEF Cheapest
  <2>3. c \in Combos(groups)
    <3>1. groups[i] \in GroupSet
      BY <1>1
    <3>2. p \in Products
      BY <2>2, <3>1 DEF GroupSet
    <3> QED BY <1>1, <2>2, <3>2 DEF Combos
  <2>4. Have(groups, c) = Have(groups, best) \cup {i} /\ i \notin Have(groups, best)
    <3>1. DOMAIN best = DOMAIN groups
      BY <1>1 DEF Combos
    <3>2. c[i] = p /\ \A j \in DOMAIN groups \ {i} : c[j] = best[j]
      BY <3>1
    <3> HIDE DEF c
    <3> QED BY <1>5, <2>1, <3>2 DEF Have
  <2> HIDE DEF c
  <2>5. Cardinality(Have(groups, c)) = Cardinality(Have(groups, best)) + 1
    <3>1. IsFiniteSet(Have(groups, best))
      BY <1>1, PickedFacts
    <3> QED BY <2>4, <3>1, FS_AddElement
  <2>6. ~Affordable(groups, c)
    <3> SUFFICES ASSUME Affordable(groups, c) PROVE FALSE
      OBVIOUS
    <3>1. ~Better(groups, c, best)
      BY <1>3, <2>3
    <3>2. Cardinality(Have(groups, c)) <= Cardinality(Have(groups, best))
      BY <1>1, <2>3, <3>1, NoneIsBetter
    <3>3. Cardinality(Have(groups, best)) \in Nat
      BY <1>1, PickedFacts
    <3> QED BY <2>5, <3>2, <3>3
  <2>7. Cost(groups, c) \in Nat /\ request.budget \in Nat
    BY <1>1, <2>3, CostType, ServedTypes
  <2>8. request.budget # 0 /\ Cost(groups, c) > request.budget
    BY <2>6, <2>7 DEF Affordable
  <2>9. Gap(i, p) = NotNegative(Cost(groups, c) - request.budget)
    BY DEF Gap, c
  <2>10. Gap(i, p) = Cost(groups, c) - request.budget
    BY <2>7, <2>8, <2>9 DEF NotNegative
  <2>11. request.budget # 0 /\ Gap(i, p) > 0 /\ Cost(groups, c) = request.budget + Gap(i, p)
    BY <2>7, <2>8, <2>10
  <2> QED BY <2>11 DEF c
<1>6. GapsAreReal'
  <2>1. ChosenNeeds' = ChosenNeeds
    BY <1>1 DEF ChosenNeeds
  <2>2. \A i \in DOMAIN groups :
          best[i] # Nil \/ groups[i].need \in ChosenNeeds \/ \E u \in uncovered' : u.group = i
    <3> SUFFICES ASSUME NEW i \in DOMAIN groups, groups[i].need \notin ChosenNeeds
                 PROVE  \E u \in uncovered' : u.group = i
      OBVIOUS
    <3> DEFINE v == [group |-> i, product |-> cheapest[i],
                     gap |-> IF cheapest[i] = Nil \/ request.budget = 0 THEN Nil ELSE Gap(i, cheapest[i])]
    <3>1. v \in uncovered'
      BY <1>2
    <3>2. v.group = i
      OBVIOUS
    <3> HIDE DEF v
    <3> QED BY <3>1, <3>2
  <2>3. ASSUME NEW u \in uncovered', u.product # Nil
        PROVE  /\ request.budget # 0 /\ u.gap > 0
               /\ Cost(groups, [best EXCEPT ![u.group] = u.product]) = request.budget + u.gap
    <3>1. PICK i \in DOMAIN groups :
            /\ groups[i].need \notin ChosenNeeds
            /\ u = [group |-> i, product |-> cheapest[i],
                    gap |-> IF cheapest[i] = Nil \/ request.budget = 0 THEN Nil ELSE Gap(i, cheapest[i])]
      BY <1>2
    <3>2. cheapest[i] # Nil
      BY <2>3, <3>1
    <3>3. /\ request.budget # 0 /\ Gap(i, cheapest[i]) > 0
          /\ Cost(groups, [best EXCEPT ![i] = cheapest[i]]) = request.budget + Gap(i, cheapest[i])
      BY <1>5, <3>1, <3>2
    <3>4. u.group = i /\ u.product = cheapest[i] /\ u.gap = Gap(i, cheapest[i])
      BY <3>1, <3>2, <3>3
    <3> QED BY <3>3, <3>4
  <2>4. \A c : Cost(groups, c)' = Cost(groups, c)
    BY <1>1 DEF Cost
  <2>5. PICK B : B = best
    OBVIOUS
  <2>6. GapsAreReal' <=>
          /\ \A i \in DOMAIN groups :
               B[i] # Nil \/ groups[i].need \in ChosenNeeds \/ \E u \in uncovered' : u.group = i
          /\ \A u \in uncovered' :
               u.product # Nil =>
                 /\ request.budget # 0 /\ u.gap > 0
                 /\ Cost(groups, [B EXCEPT ![u.group] = u.product])' = request.budget + u.gap
    BY <1>1, <2>1, <2>5 DEF GapsAreReal, Cost
  <2> QED BY <2>2, <2>3, <2>4, <2>5, <2>6
<1> QED BY <1>1, <1>4, <1>6 DEF PricesIInv, BasketIsRight

\* Every step of Pricing.
LEMMA PricesStep == PricesIInv /\ [PricingNext]_pricingVars => PricesIInv'
<1>1. PricesIInv /\ UNCHANGED pricingVars => PricesIInv'
  <2> SUFFICES ASSUME PricesIInv, UNCHANGED pricingVars PROVE PricesIInv'
    OBVIOUS
  <2>1. /\ request' = request /\ stage' = stage /\ groups' = groups /\ considered' = considered
        /\ best' = best /\ uncovered' = uncovered
    BY DEF pricingVars
  <2>2. Served' <=> Served
    BY <2>1 DEF Served
  <2>3. Combinations(groups)' = Combinations(groups)
    BY <2>1 DEF Combinations, Sooner, UnitPrice
  <2>4. BestSoFar' <=> BestSoFar
    BY <2>1, <2>3 DEF BestSoFar, Affordable, Better, Cost
  <2>5. PlanIsBest' <=> PlanIsBest
    BY <2>1 DEF PlanIsBest, Affordable, Cost
  <2>6. GapsAreReal' <=> GapsAreReal
    BY <2>1 DEF GapsAreReal, Cost, ChosenNeeds
  <2> QED BY <2>1, <2>2, <2>4, <2>5, <2>6 DEF PricesIInv, BasketIsRight
<1> QED BY <1>1, RejectStep, QuoteStep, OptimizeStep, ConsiderStep, ReportStep DEF PricingNext

\* A quote's landed price is that of its parts, one parcel is never dearer
\* than its lines apart but for the cents that rounding takes (quote_basket),
\* the plan is the best the budget allows and what it leaves out is named
\* (optimize_basket): of every request, whatever the tables say.
THEOREM PricesHold == PricingSpec => []PricesAreRight
<1>1. PricingInit => PricesIInv
  BY PricesStart
<1>2. PricesIInv /\ [PricingNext]_pricingVars => PricesIInv'
  BY PricesStep
<1>3. PricesIInv => PricesAreRight
  BY QuoteIsRight DEF PricesAreRight, PricesIInv
<1> QED BY <1>1, <1>2, <1>3, PTL DEF PricingSpec

-----------------------------------------------------------------------------
(***************************************************************************)
(* The numbers of a reply                                                  *)
(*                                                                         *)
(* TalkOfTheBasket ties the reply to the basket quoted.  What is shown of  *)
(* a basket of two is little, so no addend is left out when an amount is   *)
(* explained, and an exact sum of two is the best explanation there is.    *)
(***************************************************************************)

\* The least and the greatest of two numbers.
LEMMA TwoNumbers ==
  \A a, b \in Int :
    /\ Min({a, b}) = IF a <= b THEN a ELSE b
    /\ Max({a, b}) = IF a >= b THEN a ELSE b
<1> TAKE a, b \in Int
<1>1. \E x \in {a, b} : \A y \in {a, b} : x <= y
  OBVIOUS
<1>2. \E x \in {a, b} : \A y \in {a, b} : x >= y
  OBVIOUS
<1>3. Min({a, b}) \in {a, b} /\ \A y \in {a, b} : Min({a, b}) <= y
  BY <1>1 DEF Min
<1>4. Max({a, b}) \in {a, b} /\ \A y \in {a, b} : Max({a, b}) >= y
  BY <1>2 DEF Max
<1> QED BY <1>3, <1>4

\* The scales of the checks.
LEMMA Scales == Cent \in Nat \ {0} /\ Major \in Nat /\ MaxPool \in Nat /\ MaxPool > 24
                /\ OwnWords \subseteq Nat /\ Remarks \subseteq Nat
BY ReplyChecksAssumption

\* A number that is shown is sourced.
LEMMA MatchesItself == ASSUME NEW v \in Nat PROVE Matches(v, v)
<1> DEFINE m == Max({Cent * 500, v})
           M == Min({Major * 500, m})
<1>1. Cent * 500 \in Nat /\ Major * 500 \in Nat
  BY Scales
<1>2. m \in Nat
  <2> DEFINE c == Cent * 500
  <2>1. c \in Int /\ c \in Nat /\ v \in Int
    BY <1>1
  <2> HIDE DEF c
  <2>2. Max({c, v}) = IF c >= v THEN c ELSE v
    BY ONLY <2>1, TwoNumbers
  <2> QED BY <2>1, <2>2 DEF c
<1> HIDE DEF m
<1>3. M \in Nat
  BY <1>1, <1>2, TwoNumbers
<1>4. Distance(v, v) * 500 = 0
  BY DEF Distance
<1> QED BY <1>3, <1>4 DEF Matches, m

\* So is one among the numbers of the sources.
LEMMA ShownIsSourced ==
  ASSUME NEW sourced, NEW v \in Nat, v \in sourced.numbers
  PROVE  Has(sourced, v)
BY MatchesItself DEF Has
-----------------------------------------------------------------------------
(***************************************************************************)
(* Duties                                                                  *)
(***************************************************************************)

\* Rounded twice, base and duty, in a currency with rate R where the yuan has
\* rate K: T is the base and D the duty in yuan, Y and t what is shown of them,
\* r the rate of the duty.
LEMMA DutyIsConsistent ==
  ASSUME NEW T \in Nat, NEW D \in Nat, NEW Y \in Nat, NEW t \in Nat, NEW r \in Nat,
         NEW K \in Nat \ {0}, NEW R \in Nat \ {0},
         2 * (1000 * D) <= 2 * (T * r) + 1000, 2 * (T * r) <= 2 * (1000 * D) + 1000,
         2 * (R * Y) <= 2 * (T * K) + R, 2 * (T * K) <= 2 * (R * Y) + R,
         2 * (R * t) <= 2 * (D * K) + R, 2 * (D * K) <= 2 * (R * t) + R,
         1000 * K + r * R <= 1000 * R
  PROVE  1000 * t <= Y * r + 1000 /\ Y * r <= 1000 * t + 1000
<1> DEFINE A == R * t
           B == D * K
           C == (T * K) * r
           E == (R * Y) * r
           rR == r * R
           u == T * r
           v == T * K
           w == R * Y
           Yr == Y * r
<1>1. A \in Int /\ B \in Int /\ C \in Int /\ E \in Int /\ rR \in Int
      /\ u \in Int /\ v \in Int /\ w \in Int /\ Yr \in Int
  BY Multiples
<1>2. 2 * A <= 2 * B + R /\ 2 * B <= 2 * A + R
  OBVIOUS
<1>3. \A x, y \in Int : \A k \in Nat : x <= y => x * k <= y * k
  <2> SUFFICES ASSUME NEW x \in Int, NEW y \in Int, NEW k \in Nat, x <= y PROVE x * k <= y * k
    OBVIOUS
  <2>1. CASE k = 0
    BY <2>1
  <2>2. CASE k # 0
    <3>1. x < y \/ x = y
      OBVIOUS
    <3> QED BY <2>2, <3>1, Less
  <2> QED BY <2>1, <2>2
<1>4. 2000 * B <= 2 * C + 1000 * K /\ 2 * C <= 2000 * B + 1000 * K
  <2> HIDE DEF B, C, v
  <2>1. 2 * (1000 * D) <= 2 * u + 1000 /\ 2 * u <= 2 * (1000 * D) + 1000
    OBVIOUS
  <2> HIDE DEF u
  <2>2. 2 * (1000 * D) * K <= (2 * u + 1000) * K /\ 2 * u * K <= (2 * (1000 * D) + 1000) * K
    BY <1>1, <1>3, <2>1
  <2>3. /\ 2 * (1000 * D) * K = 2000 * (D * K) /\ (2 * u + 1000) * K = 2 * (u * K) + 1000 * K
        /\ 2 * u * K = 2 * (u * K) /\ (2 * (1000 * D) + 1000) * K = 2000 * (D * K) + 1000 * K
    BY <1>1
  <2>4. u * K = C /\ D * K = B
    BY DEF u, C, B
  <2> QED BY <1>1, <2>2, <2>3, <2>4
<1>5. 2 * E <= 2 * C + rR /\ 2 * C <= 2 * E + rR
  <2>1. 2 * w <= 2 * v + R /\ 2 * v <= 2 * w + R
    OBVIOUS
  <2>2. w * r = E /\ v * r = C /\ R * r = rR
    OBVIOUS
  <2> HIDE DEF w, v, C, E, rR
  <2>3. (2 * w) * r <= (2 * v + R) * r /\ (2 * v) * r <= (2 * w + R) * r
    BY <1>1, <1>3, <2>1
  <2>4. /\ (2 * w) * r = 2 * (w * r) /\ (2 * v + R) * r = 2 * (v * r) + R * r
        /\ (2 * v) * r = 2 * (v * r) /\ (2 * w + R) * r = 2 * (w * r) + R * r
    BY <1>1
  <2> QED BY <1>1, <2>2, <2>3, <2>4
<1>6. 1000 * K + rR <= 1000 * R
  OBVIOUS
<1>7. 1000 * A <= E + 1000 * R /\ E <= 1000 * A + 1000 * R
  <2> HIDE DEF A, B, C, E, rR
  <2> QED BY <1>1, <1>2, <1>4, <1>5, <1>6
<1>8. 1000 * A = (1000 * t) * R /\ E = Yr * R
  <2>1. \A x, y, z \in Int : (x * y) * z = (y * z) * x /\ 1000 * (x * y) = (1000 * y) * x
    OBVIOUS
  <2> QED BY <2>1
<1>9. (1000 * t) * R <= (Yr + 1000) * R /\ Yr * R <= (1000 * t + 1000) * R
  <2>1. (Yr + 1000) * R = Yr * R + 1000 * R /\ (1000 * t + 1000) * R = (1000 * t) * R + 1000 * R
    <3> HIDE DEF Yr
    <3> QED BY <1>1
  <2> HIDE DEF A, E, Yr
  <2> QED BY <1>7, <1>8, <2>1
<1> HIDE DEF Yr
<1>10. ~((1000 * t) * R > (Yr + 1000) * R) /\ ~(Yr * R > (1000 * t + 1000) * R)
  BY <1>1, <1>9, Multiples
<1>11. ~(1000 * t > Yr + 1000) /\ ~(Yr > 1000 * t + 1000)
  <2>1. 1000 * t \in Int /\ Yr + 1000 \in Int /\ 1000 * t + 1000 \in Int
    BY <1>1
  <2> QED BY <1>1, <1>10, <2>1, Less
<1> QED BY <1>1, <1>11 DEF Yr
-----------------------------------------------------------------------------
(***************************************************************************)
(* The basket that is talked about                                         *)
(***************************************************************************)
LEMMA SumOfTwo ==
  ASSUME NEW w, DOMAIN w = {1, 2}, w[1] \in Int, w[2] \in Int
  PROVE  SumFunction(w) = w[1] + w[2]
<1> DEFINE S == {1, 2}
<1>1. IsFiniteSet(S) /\ 1 \in S /\ S \ {1} = {2} /\ \A y \in S : w[y] \in Int
  <2>1. {1, 2} = 1..2 /\ 2 \in Nat
    OBVIOUS
  <2>2. IsFiniteSet(1..2)
    BY <2>1, FirstNumbers
  <2> QED BY <2>1, <2>2
<1>2. SumFunctionOnSet(w, S) = w[1] + SumFunctionOnSet(w, S \ {1})
  BY <1>1, SumStep
<1>3. IsFiniteSet({2}) /\ 2 \in {2} /\ {2} \ {2} = {} /\ \A y \in {2} : w[y] \in Int
  BY FS_Singleton
<1>4. SumFunctionOnSet(w, {2}) = w[2] + SumFunctionOnSet(w, {2} \ {2})
  BY <1>3, SumStep
<1>5. SumFunctionOnSet(w, {2} \ {2}) = 0
  BY <1>3, SumOfNone
<1>6. SumFunction(w) = SumFunctionOnSet(w, S)
  BY DEF SumFunction
<1> QED BY <1>1, <1>2, <1>4, <1>5, <1>6

\* One item of a product.
LEMMA SingleQuote ==
  ASSUME Served, NEW p \in Products
  PROVE  /\ Single(p) \in LineSet /\ <<Single(p)>> \in Seq(LineSet)
         /\ LET quote == QuoteBasket(<<Single(p)>>, request.dest, request.currency)
            IN /\ quote.subtotal \in Nat /\ quote.freight \in Nat /\ quote.tariff \in Nat
               /\ Landed(quote) \in Nat /\ Landed(quote) > 0
<1> DEFINE dest == request.dest
           target == request.currency
           quote == QuoteBasket(<<Single(p)>>, dest, target)
           K == RateToCNY["CNY"]
           R == RateToCNY[target]
           B == BaseFreight[dest]
           P == K * B
           c == Convert(Freight(dest, 1), "CNY", target)
<1>1. Single(p) \in LineSet /\ Single(p).quantity = 1
  BY DEF Single, LineSet
<1>2. <<Single(p)>> \in Seq(LineSet)
  BY <1>1
<1>3. dest \in Destinations /\ target \in Currencies
  BY ServedTypes
<1>4. quote.subtotal \in Nat /\ quote.freight \in Nat /\ quote.tariff \in Nat /\ Landed(quote) \in Nat
  BY <1>2, <1>3, QuoteTypes
<1>5. quote.freight = c
  <2> DEFINE l == Single(p)
  <2> HIDE DEF l
  <2>1. QuoteBasket(<<l>>, dest, target)
          = Quote(Amount(l), CurrencyOf[l.product], Category[l.product], dest, l.quantity, target)
    BY <1>1, <1>3, OneLine DEF l
  <2> QED BY <1>1, <2>1 DEF Quote, l
<1>6. c \in Nat /\ 20 * (R * c) >= 8 * P + 12 * (P * 1) - 10 * (K + R)
  <2>1. 1 \in Nat
    OBVIOUS
  <2> QED BY <1>3, <2>1, FreightWorth
<1>7. 4 * B * K >= 15 * (R + K)
  BY <1>3, PricingAssumption
<1>8. K \in Nat \ {0} /\ R \in Nat \ {0} /\ B \in Nat
  BY <1>3, Tables
<1>9. c > 0
  <2> HIDE DEF K, R, B, c
  <2>1. P \in Nat /\ 4 * B * K = 4 * P /\ P * 1 = P
    BY <1>8
  <2> HIDE DEF P
  <2> SUFFICES ASSUME c = 0 PROVE FALSE
    BY <1>6
  <2>2. R * c = 0
    BY <1>8
  <2> QED BY <1>6, <1>7, <1>8, <2>1, <2>2
<1> HIDE DEF quote, c
<1>10. Landed(quote) > 0
  BY <1>4, <1>5, <1>9 DEF Landed
<1> QED BY <1>1, <1>2, <1>4, <1>10 DEF quote

\* The base of the duty, in whatever currency.
LEMMA BasesAreNumbers ==
  ASSUME Served, NEW lines \in Seq(LineSet)
  PROVE  Bases(lines) \subseteq Nat
<1>1. request.dest \in Destinations /\ request.currency \in Currencies
  BY ServedTypes
<1>2. Taxable(lines, request.dest) \in Nat
  BY <1>1, ParcelTypes
<1>3. "CNY" \in Currencies /\ DeMinimis[request.dest].currency \in Currencies
  BY <1>1, Tables
<1> QED BY <1>1, <1>2, <1>3, ConvertFacts DEF Bases

\* An explanation by the base of the duty is not called wrong.
LEMMA BaseExplainsTheDuty ==
  ASSUME Served, NEW p \in Products, RateToCNY[request.currency] >= RateToCNY["CNY"],
         NEW equation,
         equation.left = Convert(Taxable(<<Single(p)>>, request.dest), "CNY", request.currency),
         equation.rate = DutyRate[request.dest][Category[p]],
         equation.result = QuoteBasket(<<Single(p)>>, request.dest, request.currency).tariff
  PROVE  Consistent(equation)
<1> DEFINE dest == request.dest
           target == request.currency
           l == Single(p)
           T == Taxable(<<l>>, dest)
           r == DutyRate[dest][Category[p]]
           D == Round(T * r, 1000)
           Y == Convert(T, "CNY", target)
           t == Convert(D, "CNY", target)
           K == RateToCNY["CNY"]
           R == RateToCNY[target]
<1>1. dest \in Destinations /\ target \in Currencies /\ "CNY" \in Currencies
  BY ServedTypes, Tables
<1>2. l \in LineSet /\ <<l>> \in Seq(LineSet) /\ l.product = p
  BY SingleQuote DEF Single
<1>3. T \in Nat /\ r \in Nat
  BY <1>1, <1>2, ParcelTypes, RateType
<1>4. T = NotNegative(Convert(Amount(l), CurrencyOf[p], "CNY") - Threshold(dest))
  <2> DEFINE f == [i \in DOMAIN <<l>> |-> InCNY(<<l>>[i])]
  <2>1. DOMAIN f = {1} /\ f[1] = InCNY(l) /\ InCNY(l) \in Int
    BY <1>2, LineTypes
  <2> HIDE DEF f
  <2>2. SumFunction(f) = InCNY(l)
    BY <2>1, SumOfOne
  <2>3. WorthInCNY(<<l>>) = InCNY(l)
    BY <2>2 DEF f, WorthInCNY
  <2> QED BY <1>2, <2>3 DEF Taxable, InCNY
<1>5. QuoteBasket(<<l>>, dest, target).tariff = t
  <2>1. QuoteBasket(<<l>>, dest, target)
          = Quote(Amount(l), CurrencyOf[l.product], Category[l.product], dest, l.quantity, target)
    <3> HIDE DEF l
    <3> QED BY <1>1, <1>2, OneLine
  <2> QED BY <1>2, <1>4, <2>1 DEF Quote
<1>6. D \in Nat /\ 2 * (1000 * D) <= 2 * (T * r) + 1000 /\ 2 * (T * r) <= 2 * (1000 * D) + 1000
  <2> DEFINE n == T * r
  <2>1. n \in Nat /\ 1000 \in Nat \ {0}
    BY <1>3, Multiples
  <2> HIDE DEF n
  <2>2. /\ Round(n, 1000) \in Nat /\ 2 * (1000 * Round(n, 1000)) <= 2 * n + 1000
        /\ 2 * n <= 2 * (1000 * Round(n, 1000)) + 1000
    BY ONLY <2>1, Rounding
  <2> QED BY <2>2 DEF n
<1>7. /\ Y \in Nat /\ 2 * (R * Y) <= 2 * (T * K) + R /\ 2 * (T * K) <= 2 * (R * Y) + R
      /\ t \in Nat /\ 2 * (R * t) <= 2 * (D * K) + R /\ 2 * (D * K) <= 2 * (R * t) + R
  <2> HIDE DEF T, D
  <2> QED BY <1>1, <1>3, <1>6, ConvertFacts
<1>8. K \in Nat \ {0} /\ R \in Nat \ {0}
  BY <1>1, Tables
<1>9. 1000 * t <= Y * r + 1000 /\ Y * r <= 1000 * t + 1000
  <2>1. CASE target = "CNY"
    <3>1. Y = T /\ t = D
      BY <2>1 DEF Convert
    <3> DEFINE n == T * r
    <3>2. n \in Nat
      BY <1>3, Multiples
    <3> HIDE DEF T, r, D, Y, t
    <3> QED
      <4>1. Y * r = n
        BY <3>1
      <4>2. 1000 * t = 1000 * D
        BY <3>1
      <4>3. 2 * (1000 * D) <= 2 * n + 1000 /\ 2 * n <= 2 * (1000 * D) + 1000
        BY <1>6
      <4> HIDE DEF n
      <4> QED BY <1>6, <3>2, <4>1, <4>2, <4>3
  <2>2. CASE target # "CNY"
    <3>1. 1000 * K + r * R <= 1000 * R
      BY <1>1, <2>2, ReplyChecksAssumption
    <3> HIDE DEF T, r, D, Y, t, K, R
    <3> QED BY <1>3, <1>6, <1>7, <1>8, <3>1, DutyIsConsistent
  <2> QED BY <2>1, <2>2
<1>10. equation.left = Y /\ equation.rate = r /\ equation.result = t
  BY <1>5
<1> HIDE DEF T, r, D, Y, t
<1> DEFINE e == Y * r
           d == Distance(t * 1000, e)
           m == Max({Cent * 50000, e})
<1>11. e \in Nat /\ t * 1000 \in Nat /\ Cent * 50000 \in Nat /\ Cent * 50000 >= 50000
  <2>1. Cent \in Nat \ {0}
    BY Scales
  <2>2. Cent >= 1 /\ Cent \in Int
    BY <2>1
  <2> QED BY <1>3, <1>7, <2>2, Multiples
<1>12. d \in Nat /\ d <= 1000
  <2>1. t * 1000 = 1000 * t /\ t * 1000 <= e + 1000 /\ e <= t * 1000 + 1000
    BY <1>7, <1>9
  <2> HIDE DEF e
  <2> QED BY <1>7, <1>11, <2>1 DEF Distance
<1>13. m >= 50000 /\ m \in Int
  <2> DEFINE c == Cent * 50000
  <2>1. c \in Int /\ e \in Int /\ c >= 50000
    BY <1>11
  <2> HIDE DEF c, e
  <2>2. Max({c, e}) = IF c >= e THEN c ELSE e
    BY ONLY <2>1, TwoNumbers
  <2> QED BY <2>1, <2>2 DEF c
<1>14. d * 50 <= m
  <2> HIDE DEF d, m
  <2> QED BY <1>12, <1>13
<1> QED BY <1>10, <1>14 DEF Consistent
-----------------------------------------------------------------------------
(***************************************************************************)
(* What is shown of it                                                     *)
(***************************************************************************)
LEMMA FieldFacts ==
  ASSUME NEW name, NEW values, NEW basket
  PROVE  /\ \A f \in Fields(name, values, basket) : f.name = name /\ f.value \in values /\ f.basket = basket
         /\ \A v \in values : [name |-> name, value |-> v, basket |-> basket] \in Fields(name, values, basket)
BY DEF Fields

\* The money on a card, and in the quote of a basket.
CardMoney(p) ==
  LET quote == QuoteBasket(<<Single(p)>>, request.dest, request.currency)
  IN {Price[p], quote.subtotal, quote.freight, quote.tariff, Landed(quote)} \cup Bases(<<Single(p)>>)

BasketMoney(lines) ==
  LET quote == QuoteBasket(lines, request.dest, request.currency)
  IN {quote.subtotal, quote.freight, quote.tariff, CombiningSaving(lines), Quantity(lines) * Major, Landed(quote)}
     \cup {Price[line.product] : line \in ToSet(lines)} \cup Bases(lines)

\* The prices a buyer is told.
LEMMA SeparatelyType ==
  ASSUME Served, NEW lines \in Seq(LineSet)
  PROVE  Separately(lines, request.dest, request.currency) \in Nat
<1> DEFINE f == [i \in DOMAIN lines |-> Landed(QuoteBasket(<<lines[i]>>, request.dest, request.currency))]
<1>1. request.dest \in Destinations /\ request.currency \in Currencies
  BY ServedTypes
<1>2. ASSUME NEW i \in DOMAIN lines PROVE f[i] \in Nat
  <2>1. lines[i] \in LineSet
    OBVIOUS
  <2>2. <<lines[i]>> \in Seq(LineSet)
    BY <2>1
  <2>3. Landed(QuoteBasket(<<lines[i]>>, request.dest, request.currency)) \in Nat
    BY <1>1, <2>2, QuoteTypes
  <2> QED BY <2>3
<1>3. IsFiniteSet(DOMAIN lines)
  BY <1>1, ParcelTypes
<1>4. DOMAIN f = DOMAIN lines /\ \A i \in DOMAIN f : f[i] \in Nat
  BY <1>2
<1> HIDE DEF f
<1>5. SumFunction(f) \in Nat
  BY <1>3, <1>4, SumOverFinite
<1> QED BY <1>5 DEF Separately, f

\* The thresholds shown with a basket.
LEMMA ThresholdFacts ==
  ASSUME Served, NEW basket
  PROVE  \A f \in Thresholds(basket) : f.value \in Nat /\ f.name = "other"
<1> DEFINE dest == request.dest
           a == Convert(Threshold(dest), "CNY", request.currency)
           b == DeMinimis[dest].amount
<1>1. dest \in Destinations /\ request.currency \in Currencies /\ "CNY" \in Currencies
  BY ServedTypes, Tables
<1>2. Threshold(dest) \in Nat /\ b \in Nat
  BY <1>1, ThresholdType, Tables
<1>3. a \in Nat
  BY <1>1, <1>2, ConvertFacts
<1>4. Thresholds(basket) = Fields("other", {a, b}, basket)
  BY DEF Thresholds
<1> HIDE DEF a, b
<1> QED BY <1>2, <1>3, <1>4, FieldFacts

\* What a card shows.
LEMMA CardFacts ==
  ASSUME Served, NEW p \in Products
  PROVE  /\ CardMoney(p) \subseteq Nat
         /\ \A f \in Card(p) : f.value \in Nat /\ (IsMoney(f) => f.value \in CardMoney(p))
         /\ LET quote == QuoteBasket(<<Single(p)>>, request.dest, request.currency)
            IN [name |-> "landed", value |-> Landed(quote), basket |-> FALSE] \in Card(p)
<1> DEFINE quote == QuoteBasket(<<Single(p)>>, request.dest, request.currency)
           main == {Price[p], quote.subtotal, quote.freight, quote.tariff}
           bases == Bases(<<Single(p)>>)
<1>1. CardMoney(p) = main \cup {Landed(quote)} \cup bases
  BY DEF CardMoney
<1>2. main \subseteq Nat /\ Landed(quote) \in Nat /\ bases \subseteq Nat
  <2>1. Price[p] \in Nat
    BY Tables
  <2>2. quote.subtotal \in Nat /\ quote.freight \in Nat /\ quote.tariff \in Nat /\ Landed(quote) \in Nat
    BY SingleQuote
  <2>3. bases \subseteq Nat
    BY SingleQuote, BasesAreNumbers
  <2> QED BY <2>1, <2>2, <2>3
<1>3. \A f \in Thresholds(FALSE) : f.value \in Nat /\ f.name = "other"
  BY ThresholdFacts
<1>4. Card(p) = Fields("money", main, FALSE) \cup Fields("money", bases, FALSE)
                  \cup Fields("landed", {Landed(quote)}, FALSE) \cup Thresholds(FALSE)
  BY DEF Card
<1> HIDE DEF quote, main, bases
<1>5. ASSUME NEW f \in Card(p)
      PROVE  f.value \in Nat /\ (IsMoney(f) => f.value \in CardMoney(p))
  <2>1. CASE f \in Fields("money", main, FALSE)
    BY <1>1, <1>2, <2>1, FieldFacts
  <2>2. CASE f \in Fields("money", bases, FALSE)
    BY <1>1, <1>2, <2>2, FieldFacts
  <2>3. CASE f \in Fields("landed", {Landed(quote)}, FALSE)
    BY <1>1, <1>2, <2>3, FieldFacts
  <2>4. CASE f \in Thresholds(FALSE)
    BY <1>3, <2>4 DEF IsMoney
  <2> QED BY <1>4, <2>1, <2>2, <2>3, <2>4
<1>6. [name |-> "landed", value |-> Landed(quote), basket |-> FALSE] \in Card(p)
  <2>1. Landed(quote) \in {Landed(quote)}
    OBVIOUS
  <2>2. [name |-> "landed", value |-> Landed(quote), basket |-> FALSE] \in Fields("landed", {Landed(quote)}, FALSE)
    BY <2>1 DEF Fields
  <2> QED BY <1>4, <2>2
<1> QED BY <1>1, <1>2, <1>5, <1>6 DEF quote

\* What the quote of a basket shows.
LEMMA BasketFacts ==
  ASSUME Served, NEW lines \in Seq(LineSet)
  PROVE  /\ BasketMoney(lines) \subseteq Nat
         /\ \A f \in BasketPayload(lines) : f.value \in Nat /\ (IsMoney(f) => f.value \in BasketMoney(lines))
         /\ LET quote == QuoteBasket(lines, request.dest, request.currency)
            IN /\ [name |-> "landed", value |-> Landed(quote), basket |-> TRUE] \in BasketPayload(lines)
               /\ [name |-> "other", value |-> Separately(lines, request.dest, request.currency), basket |-> TRUE]
                    \in BasketPayload(lines)
<1> DEFINE quote == QuoteBasket(lines, request.dest, request.currency)
           apart == Separately(lines, request.dest, request.currency)
           main == {quote.subtotal, quote.freight, quote.tariff, CombiningSaving(lines), Quantity(lines) * Major}
           prices == {Price[line.product] : line \in ToSet(lines)}
           bases == Bases(lines)
<1>1. BasketMoney(lines) = main \cup {Landed(quote)} \cup prices \cup bases
  BY DEF BasketMoney
<1>2. apart \in Nat /\ Landed(quote) \in Nat /\ main \subseteq Nat /\ prices \subseteq Nat /\ bases \subseteq Nat
  <2>1. quote.subtotal \in Nat /\ quote.freight \in Nat /\ quote.tariff \in Nat /\ Landed(quote) \in Nat
    BY ServedTypes, QuoteTypes
  <2>2. apart \in Nat
    BY SeparatelyType
  <2>3. CombiningSaving(lines) \in Nat
    <3> DEFINE n == apart - Landed(quote)
    <3>1. n \in Int
      <4> HIDE DEF apart, quote
      <4> QED BY <2>1, <2>2
    <3>2. CombiningSaving(lines) = NotNegative(n)
      BY DEF CombiningSaving
    <3> HIDE DEF n
    <3> QED BY <3>1, <3>2, NotNegativeFacts
  <2>4. Quantity(lines) * Major \in Nat
    <3>1. Quantity(lines) \in Nat
      BY ServedTypes, ParcelTypes
    <3> QED BY <3>1, Scales, Multiples
  <2>5. prices \subseteq Nat
    <3> SUFFICES ASSUME NEW line \in ToSet(lines) PROVE Price[line.product] \in Nat
      OBVIOUS
    <3>1. line \in LineSet
      BY DEF ToSet
    <3> QED BY <3>1, Tables DEF LineSet
  <2>6. bases \subseteq Nat
    BY BasesAreNumbers
  <2> QED BY <2>1, <2>2, <2>3, <2>4, <2>5, <2>6
<1>3. \A f \in Thresholds(TRUE) : f.value \in Nat /\ f.name = "other"
  BY ThresholdFacts
<1>4. BasketPayload(lines) =
        Fields("money", main, TRUE) \cup Fields("money", prices, TRUE) \cup Fields("money", bases, TRUE)
          \cup Fields("landed", {Landed(quote)}, TRUE) \cup Fields("other", {apart}, TRUE) \cup Thresholds(TRUE)
  BY DEF BasketPayload
<1> HIDE DEF quote, apart, main, prices, bases
<1>5. ASSUME NEW f \in BasketPayload(lines)
      PROVE  f.value \in Nat /\ (IsMoney(f) => f.value \in BasketMoney(lines))
  <2>1. CASE f \in Fields("money", main, TRUE)
    BY <1>1, <1>2, <2>1, FieldFacts
  <2>2. CASE f \in Fields("money", prices, TRUE)
    BY <1>1, <1>2, <2>2, FieldFacts
  <2>3. CASE f \in Fields("money", bases, TRUE)
    BY <1>1, <1>2, <2>3, FieldFacts
  <2>4. CASE f \in Fields("landed", {Landed(quote)}, TRUE)
    BY <1>1, <1>2, <2>4, FieldFacts
  <2>5. CASE f \in Fields("other", {apart}, TRUE)
    <3>1. f.name = "other" /\ f.value \in {apart}
      BY <2>5 DEF Fields
    <3> QED BY <1>2, <3>1 DEF IsMoney
  <2>6. CASE f \in Thresholds(TRUE)
    BY <1>3, <2>6 DEF IsMoney
  <2> QED BY <1>4, <2>1, <2>2, <2>3, <2>4, <2>5, <2>6
<1>6. /\ [name |-> "landed", value |-> Landed(quote), basket |-> TRUE] \in BasketPayload(lines)
      /\ [name |-> "other", value |-> apart, basket |-> TRUE] \in BasketPayload(lines)
  <2>1. [name |-> "landed", value |-> Landed(quote), basket |-> TRUE] \in Fields("landed", {Landed(quote)}, TRUE)
    BY DEF Fields
  <2>2. [name |-> "other", value |-> apart, basket |-> TRUE] \in Fields("other", {apart}, TRUE)
    BY DEF Fields
  <2> QED BY <1>4, <2>1, <2>2
<1> QED BY <1>1, <1>2, <1>5, <1>6 DEF quote, apart

\* The money that is shown is that of the basket and of its cards.
LEMMA ShownFacts ==
  ASSUME Served, NEW lines \in Seq(LineSet)
  PROVE  \A f \in Shown(lines) :
           /\ f.value \in Nat
           /\ IsMoney(f) =>
                f.value \in BasketMoney(lines) \cup UNION {CardMoney(line.product) : line \in ToSet(lines)}
<1> SUFFICES ASSUME NEW f \in Shown(lines)
             PROVE  /\ f.value \in Nat
                    /\ IsMoney(f) =>
                         f.value \in BasketMoney(lines) \cup UNION {CardMoney(line.product) : line \in ToSet(lines)}
  OBVIOUS
<1>1. CASE f \in BasketPayload(lines)
  BY <1>1, BasketFacts
<1>2. CASE f \notin BasketPayload(lines)
  <2>1. PICK line \in ToSet(lines) : f \in Card(line.product)
    BY <1>2 DEF Shown
  <2>2. line.product \in Products
    <3>1. line \in LineSet
      BY DEF ToSet
    <3> QED BY <3>1 DEF LineSet
  <2>3. f.value \in Nat /\ (IsMoney(f) => f.value \in CardMoney(line.product))
    BY <2>1, <2>2, CardFacts
  <2> QED BY <2>3
<1> QED BY <1>1, <1>2

\* Sets of at most n members.
Few(S, n) == IsFiniteSet(S) /\ Cardinality(S) <= n

\* How many a union or a part has.
LEMMA FewFacts ==
  /\ \A a : Few({a}, 1)
  /\ \A S, T : \A m, n \in Nat : Few(S, m) /\ Few(T, n) => Few(S \cup T, m + n)
  /\ \A S : \A T \in SUBSET S : \A n \in Nat : Few(S, n) => Few(T, n)
<1>1. \A a : Few({a}, 1)
  <2> SUFFICES ASSUME NEW a PROVE Few({a}, 1)
    OBVIOUS
  <2>1. IsFiniteSet({a}) /\ Cardinality({a}) = 1
    BY FS_Singleton
  <2> QED BY <2>1 DEF Few
<1>2. ASSUME NEW S, NEW T, NEW m \in Nat, NEW n \in Nat, Few(S, m), Few(T, n) PROVE Few(S \cup T, m + n)
  <2>1. IsFiniteSet(S) /\ Cardinality(S) \in Nat /\ IsFiniteSet(T) /\ Cardinality(T) \in Nat
    BY <1>2, FS_CardinalityType DEF Few
  <2>2. IsFiniteSet(S \cap T) /\ Cardinality(S \cap T) \in Nat
    <3>1. IsFiniteSet(S \cap T)
      BY <2>1, FS_Subset
    <3> QED BY <3>1, FS_CardinalityType
  <2>3. /\ IsFiniteSet(S \cup T)
        /\ Cardinality(S \cup T) = Cardinality(S) + Cardinality(T) - Cardinality(S \cap T)
    BY <2>1, FS_Union
  <2> QED BY <1>2, <2>1, <2>2, <2>3 DEF Few
<1>3. ASSUME NEW S, NEW T \in SUBSET S, NEW n \in Nat, Few(S, n) PROVE Few(T, n)
  <2>1. IsFiniteSet(T) /\ Cardinality(T) <= Cardinality(S) /\ Cardinality(S) \in Nat /\ Cardinality(T) \in Nat
    <3>1. IsFiniteSet(T) /\ Cardinality(T) <= Cardinality(S)
      BY <1>3, FS_Subset DEF Few
    <3> QED BY <1>3, <3>1, FS_CardinalityType DEF Few
  <2> QED BY <1>3, <2>1 DEF Few
<1> QED BY <1>1, <1>2, <1>3

\* How many a list of names has.
LEMMA FewNames ==
  /\ \A a, b : Few({a, b}, 2)
  /\ \A a, b, c, d, e : Few({a, b, c, d, e}, 5)
  /\ \A a, b, c, d, e, f : Few({a, b, c, d, e, f}, 6)
<1>1. \A a, b : Few({a, b}, 2)
  <2> TAKE a, b
  <2>1. Few({a} \cup {b}, 1 + 1)
    BY FewFacts
  <2>2. {a, b} = {a} \cup {b}
    OBVIOUS
  <2> QED BY <2>1, <2>2
<1>2. \A a, b, c, d, e : Few({a, b, c, d, e}, 5)
  <2> TAKE a, b, c, d, e
  <2>1. Few({a, b} \cup {c, d}, 2 + 2)
    BY <1>1, FewFacts
  <2>2. Few({a, b} \cup {c, d}, 4)
    BY <2>1
  <2>3. Few(({a, b} \cup {c, d}) \cup {e}, 4 + 1)
    BY <2>2, FewFacts
  <2>4. {a, b, c, d, e} = ({a, b} \cup {c, d}) \cup {e}
    OBVIOUS
  <2> QED BY <2>3, <2>4
<1>3. \A a, b, c, d, e, f : Few({a, b, c, d, e, f}, 6)
  <2> TAKE a, b, c, d, e, f
  <2>1. Few({a, b, c, d, e} \cup {f}, 5 + 1)
    BY <1>2, FewFacts
  <2>2. {a, b, c, d, e, f} = {a, b, c, d, e} \cup {f}
    OBVIOUS
  <2> QED BY <2>1, <2>2
<1> QED BY <1>1, <1>2, <1>3

\* The largest of the classification has room for all of it.
LEMMA MoneyIsLittle ==
  ASSUME Served, NEW lines \in Seq(LineSet), Len(lines) = 2
  PROVE  Few(Values({f \in Shown(lines) : IsMoney(f)}), 24)
<1> DEFINE p == lines[1].product
           q == lines[2].product
           all == (BasketMoney(lines) \cup CardMoney(p)) \cup CardMoney(q)
<1>1. ToSet(lines) = {lines[1], lines[2]}
  <2>1. DOMAIN lines = {1, 2}
    <3>1. DOMAIN lines = 1..2
      OBVIOUS
    <3> QED BY <3>1
  <2> QED BY <2>1 DEF ToSet
<1>2. \A ls \in {lines, <<Single(p)>>, <<Single(q)>>} : Few(Bases(ls), 2)
  <2> SUFFICES ASSUME NEW ls PROVE Few(Bases(ls), 2)
    OBVIOUS
  <2> DEFINE B(c) == Convert(Taxable(ls, request.dest), "CNY", c)
  <2>1. Bases(ls) = {B(request.currency), B(DeMinimis[request.dest].currency)}
    BY DEF Bases
  <2> HIDE DEF B
  <2> QED BY <2>1, FewNames
<1>3. Few(CardMoney(p), 7) /\ Few(CardMoney(q), 7)
  <2>1. Few(CardMoney(p), 5 + 2) /\ Few(CardMoney(q), 5 + 2)
    BY <1>2, FewNames, FewFacts DEF CardMoney
  <2> QED BY <2>1
<1>4. Few(BasketMoney(lines), 10)
  <2> DEFINE quote == QuoteBasket(lines, request.dest, request.currency)
             main == {quote.subtotal, quote.freight, quote.tariff, CombiningSaving(lines), Quantity(lines) * Major, Landed(quote)}
             prices == {Price[line.product] : line \in ToSet(lines)}
  <2>1. Few(main, 6)
    BY FewNames
  <2>2. Few(prices, 2)
    <3>1. prices = {Price[p], Price[q]}
      BY <1>1
    <3> QED BY <3>1, FewNames
  <2>3. Few(Bases(lines), 2)
    BY <1>2
  <2>4. BasketMoney(lines) = (main \cup prices) \cup Bases(lines)
    BY DEF BasketMoney
  <2> HIDE DEF main, prices
  <2>5. Few(main \cup prices, 6 + 2)
    BY <2>1, <2>2, FewFacts
  <2>6. Few(main \cup prices, 8)
    BY <2>5
  <2>7. Few((main \cup prices) \cup Bases(lines), 8 + 2)
    BY <2>3, <2>6, FewFacts
  <2> QED BY <2>4, <2>7
<1>5. Few(all, 24)
  <2>1. Few(BasketMoney(lines) \cup CardMoney(p), 10 + 7)
    BY <1>3, <1>4, FewFacts
  <2>2. Few(BasketMoney(lines) \cup CardMoney(p), 17)
    BY <2>1
  <2>3. Few(all, 17 + 7)
    BY <1>3, <2>2, FewFacts
  <2> QED BY <2>3
<1>6. Values({f \in Shown(lines) : IsMoney(f)}) \subseteq all
  <2>1. UNION {CardMoney(line.product) : line \in ToSet(lines)} = CardMoney(p) \cup CardMoney(q)
    BY <1>1
  <2>2. \A f \in Shown(lines) : IsMoney(f) => f.value \in all
    BY <2>1, ShownFacts
  <2> QED BY <2>2 DEF Values
<1> HIDE DEF all
<1> QED BY <1>5, <1>6, FewFacts
-----------------------------------------------------------------------------
(***************************************************************************)
(* Why an amount is what it is                                             *)
(***************************************************************************)
LEMMA DistanceFacts ==
  \A a, b \in Int : Distance(a, b) \in Nat /\ (Distance(a, b) = 0 <=> a = b)
BY DEF Distance

\* What two addends come to.
LEMMA SumOfPair == \A a, b \in Int : SumOf(<<a, b>>) = a + b
<1> TAKE a, b \in Int
<1> DEFINE w == <<a, b>>
<1>1. DOMAIN w = {1, 2} /\ w[1] = a /\ w[2] = b
  OBVIOUS
<1> HIDE DEF w
<1>2. SumFunction(w) = w[1] + w[2]
  BY <1>1, SumOfTwo
<1> QED BY <1>1, <1>2 DEF SumOf, w

\* What three addends come to.
LEMMA SumOfThree == \A a, b, c \in Nat : SumOf(<<a, b, c>>) \in Nat
<1> TAKE a, b, c \in Nat
<1> DEFINE w == <<a, b, c>>
<1>1. DOMAIN w = 1..3 /\ \A i \in 1..3 : w[i] \in Nat
  OBVIOUS
<1> HIDE DEF w
<1>2. IsFiniteSet(1..3)
  BY FirstNumbers
<1>3. SumFunction(w) \in Nat
  BY <1>1, <1>2, SumOverFinite
<1> QED BY <1>3 DEF SumOf, w

\* No explanation is better than two amounts that add up exactly.
LEMMA ExactPairIsBest ==
  ASSUME NEW d \in Nat, NEW n \in {2, 3}, NEW z \in {0, 1}
  PROVE  /\ ~Before(<<d, n, z>>, <<0, 2, 0>>)
         /\ ~Before(<<0, 2, 0>>, <<d, n, z>>) => <<d, n, z>> = <<0, 2, 0>>
<1> DEFINE k == <<d, n, z>>
           o == <<0, 2, 0>>
<1>1. DOMAIN k = 1..3 /\ DOMAIN o = 1..3 /\ k[1] = d /\ k[2] = n /\ k[3] = z /\ o[1] = 0 /\ o[2] = 2 /\ o[3] = 0
  OBVIOUS
<1>2. k \in [1..3 -> Nat] /\ o \in [1..3 -> Nat]
  OBVIOUS
<1> HIDE DEF k, o
<1>3. \A i \in 1..3 : i = 1 \/ i = 2 \/ i = 3
  OBVIOUS
<1>4. ~Before(k, o)
  <2> SUFFICES ASSUME NEW i \in 1..3, k[i] < o[i], \A j \in 1..(i - 1) : k[j] = o[j] PROVE FALSE
    BY <1>1 DEF Before
  <2>1. i = 2
    BY <1>1, <1>3
  <2> QED BY <1>1, <2>1
<1>5. ASSUME ~Before(o, k) PROVE k = o
  <2>1. \A i \in 1..3 : ~(o[i] < k[i] /\ \A j \in 1..(i - 1) : o[j] = k[j])
    BY <1>1, <1>5 DEF Before
  <2>2. d = 0
    <3>1. ~(o[1] < k[1])
      BY <2>1
    <3> QED BY <1>1, <3>1
  <2>3. n = 2
    <3>1. \A j \in 1..(2 - 1) : o[j] = k[j]
      <4> SUFFICES ASSUME NEW j \in 1..(2 - 1) PROVE o[j] = k[j]
        OBVIOUS
      <4>1. j = 1
        OBVIOUS
      <4> QED BY <1>1, <2>2, <4>1
    <3>2. ~(o[2] < k[2])
      BY <2>1, <3>1
    <3> QED BY <1>1, <3>2
  <2>4. z = 0
    <3>1. \A j \in 1..(3 - 1) : o[j] = k[j]
      <4> SUFFICES ASSUME NEW j \in 1..(3 - 1) PROVE o[j] = k[j]
        OBVIOUS
      <4>1. j = 1 \/ j = 2
        OBVIOUS
      <4> QED BY <1>1, <2>2, <2>3, <4>1
    <3>2. ~(o[3] < k[3])
      BY <2>1, <3>1
    <3> QED BY <1>1, <3>2
  <2> QED BY <2>2, <2>3, <2>4 DEF k, o
<1> QED BY <1>4, <1>5 DEF k, o

\* An amount that is the sum of two of the few shown is taken for the sum of
\* two of them, if not of these.
LEMMA SumsAreTaken ==
  ASSUME NEW sourced, sourced.numbers \subseteq Nat, sourced.money \subseteq Nat, sourced.stated \subseteq Nat,
         Few(sourced.money, 24),
         NEW x \in sourced.money, NEW y \in sourced.money, 0 < x, x < y, NEW value, value = x + y
  PROVE  LET cause == Classify(value, sourced)
         IN /\ cause.kind = "sum"
            /\ \E a, b \in sourced.money : a < b /\ a + b = value /\ cause.addends = <<a, b>>
<1> DEFINE money == sourced.money
           few == {n \in Positive(money) : n <= value + Major}
           largest == Largest(few)
           sums == Sums(value, sourced)
           differences == DifferenceKeys(value, sourced)
           keys == {SumKey(value, s) : s \in sums} \cup differences
           k0 == <<0, 2, 0>>
           top == CHOOSE k \in keys : \A j \in keys : ~Before(j, k)
           winners == {s \in sums : SumKey(value, s) = top}
<1>1. x \in Nat /\ y \in Nat /\ value \in Nat /\ money \subseteq Nat
  OBVIOUS
<1>2. largest \subseteq money /\ x \in largest /\ y \in largest
  <2>1. few \subseteq money /\ largest \subseteq few
    BY DEF Positive, Largest
  <2>2. x \in few /\ y \in few
    BY <1>1, Scales DEF Positive
  <2>3. ASSUME NEW n PROVE Cardinality({m \in few : m > n}) < MaxPool
    <3> DEFINE T == {m \in few : m > n}
    <3>1. T \in SUBSET money
      BY <2>1
    <3> HIDE DEF T
    <3>2. Few(T, 24)
      <4>1. 24 \in Nat
        OBVIOUS
      <4> QED BY <3>1, <4>1, FewFacts
    <3>3. Cardinality(T) \in Nat /\ Cardinality(T) <= 24
      BY <3>2, FS_CardinalityType DEF Few
    <3> QED BY <3>3, Scales DEF T
  <2> QED BY <2>1, <2>2, <2>3 DEF Largest
<1>3. sums = {s \in (largest \X largest) \cup (largest \X largest \X largest) :
                /\ \A i \in 1..(Len(s) - 1) : s[i] < s[i + 1]
                /\ Distance(value, SumOf(s)) <= Major}
  BY DEF Sums
<1> HIDE DEF few, largest, sums, differences
<1>4. ASSUME NEW a \in largest, NEW b \in largest, a < b, a + b = value
      PROVE  <<a, b>> \in sums /\ SumKey(value, <<a, b>>) = k0
  <2>1. a \in Int /\ b \in Int
    BY <1>1, <1>2
  <2>2. Len(<<a, b>>) = 2 /\ <<a, b>>[1] = a /\ <<a, b>>[2] = b
    OBVIOUS
  <2>3. \A i \in 1..(2 - 1) : i = 1 /\ i + 1 = 2
    OBVIOUS
  <2>4. \A i \in 1..(Len(<<a, b>>) - 1) : <<a, b>>[i] < <<a, b>>[i + 1]
    BY <1>4, <2>2, <2>3
  <2>5. SumOf(<<a, b>>) = value
    BY <1>4, <2>1, SumOfPair
  <2>6. Distance(value, SumOf(<<a, b>>)) = 0 /\ 0 <= Major
    BY <1>1, <2>5, DistanceFacts, Scales
  <2>7. <<a, b>> \in largest \X largest
    OBVIOUS
  <2> QED BY <1>3, <2>2, <2>4, <2>6, <2>7 DEF SumKey
<1>5. ASSUME NEW s \in sums
      PROVE  /\ \E d \in Nat, n \in {2, 3} : SumKey(value, s) = <<d, n, 0>>
             /\ SumKey(value, s) = k0 => \E a, b \in largest : a < b /\ a + b = value /\ s = <<a, b>>
  <2>1. CASE s \in largest \X largest
    <3>1. PICK a \in largest, b \in largest : s = <<a, b>>
      BY <2>1
    <3>2. a \in Int /\ b \in Int /\ Len(s) = 2 /\ s[1] = a /\ s[2] = b
      BY <1>1, <1>2, <3>1
    <3>3. a < b
      <4>1. \A i \in 1..(Len(s) - 1) : s[i] < s[i + 1]
        BY <1>3
      <4>2. 1 \in 1..(2 - 1) /\ 1 + 1 = 2
        OBVIOUS
      <4> QED BY <3>2, <4>1, <4>2
    <3>4. SumOf(s) = a + b /\ a + b \in Int
      BY <3>1, <3>2, SumOfPair
    <3>5. Distance(value, a + b) \in Nat /\ (Distance(value, a + b) = 0 => a + b = value)
      <4> DEFINE c == a + b
      <4>1. c \in Int /\ value \in Int
        BY <1>1, <3>4
      <4> HIDE DEF c
      <4>2. Distance(value, c) \in Nat /\ (Distance(value, c) = 0 => value = c)
        BY ONLY <4>1, DistanceFacts
      <4> QED BY <4>2 DEF c
    <3>6. SumKey(value, s) = <<Distance(value, a + b), 2, 0>>
      BY <3>2, <3>4 DEF SumKey
    <3> HIDE DEF k0
    <3>7. SumKey(value, s) = k0 => Distance(value, a + b) = 0
      BY <3>6 DEF k0
    <3> QED BY <3>1, <3>3, <3>5, <3>6, <3>7
  <2>2. CASE s \in largest \X largest \X largest
    <3>1. PICK a \in largest, b \in largest, c \in largest : s = <<a, b, c>>
      BY <2>2
    <3>2. a \in Nat /\ b \in Nat /\ c \in Nat /\ Len(s) = 3
      BY <1>1, <1>2, <3>1
    <3>3. SumOf(s) \in Nat
      BY <3>1, <3>2, SumOfThree
    <3>4. Distance(value, SumOf(s)) \in Nat
      <4>1. SumOf(s) \in Int /\ value \in Int
        BY <1>1, <3>3
      <4> QED BY ONLY <4>1, DistanceFacts
    <3>5. SumKey(value, s) = <<Distance(value, SumOf(s)), 3, 0>>
      BY <3>2 DEF SumKey
    <3>6. SumKey(value, s) # k0
      BY <3>5
    <3> QED BY <3>4, <3>5, <3>6
  <2> QED BY <1>3, <2>1, <2>2
<1>6. \A k \in differences : \E d \in Nat, z \in {0, 1} : k = <<d, 2, z>>
  <2> DEFINE strong == Subtrahends(sourced)
             near == {pair \in sourced.numbers \X Largest(strong) :
                        pair[1] > pair[2] /\ Distance(value, pair[1] - pair[2]) <= Major}
  <2>1. differences = {<<Distance(value, pair[1] - pair[2]), 2, IF pair[1] \in strong THEN 0 ELSE 1>> : pair \in near}
    BY DEF DifferenceKeys, differences
  <2>2. strong \subseteq Nat /\ Largest(strong) \subseteq strong
    BY DEF Subtrahends, Positive, Largest
  <2> SUFFICES ASSUME NEW pair \in near
               PROVE  Distance(value, pair[1] - pair[2]) \in Nat
    BY <2>1
  <2>3. pair[1] \in Nat /\ pair[2] \in Nat
    BY <2>2
  <2> DEFINE c == pair[1] - pair[2]
  <2>4. c \in Int /\ value \in Int
    BY <1>1, <2>3
  <2> HIDE DEF c, near
  <2>5. Distance(value, c) \in Nat
    BY ONLY <2>4, DistanceFacts
  <2> QED BY <2>5 DEF c
<1>7. <<x, y>> \in sums /\ k0 \in keys
  BY <1>2, <1>4
<1>8. \A k \in keys : \E d \in Nat, n \in {2, 3}, z \in {0, 1} : k = <<d, n, z>>
  BY <1>5, <1>6
<1> HIDE DEF keys, k0
<1>9. \A k \in keys : ~Before(k, k0) /\ (~Before(k0, k) => k = k0)
  <2> SUFFICES ASSUME NEW k \in keys PROVE ~Before(k, k0) /\ (~Before(k0, k) => k = k0)
    OBVIOUS
  <2>1. PICK d \in Nat, n \in {2, 3}, z \in {0, 1} : k = <<d, n, z>>
    BY <1>8
  <2>2. ~Before(<<d, n, z>>, <<0, 2, 0>>) /\ (~Before(<<0, 2, 0>>, <<d, n, z>>) => <<d, n, z>> = <<0, 2, 0>>)
    BY ExactPairIsBest
  <2> QED BY <2>1, <2>2 DEF k0
<1>10. top = k0
  <2>1. top \in keys /\ \A j \in keys : ~Before(j, top)
    BY <1>7, <1>9
  <2> QED BY <1>7, <1>9, <2>1
<1>11. <<x, y>> \in winners /\ \A s \in winners : \E a, b \in largest : a < b /\ a + b = value /\ s = <<a, b>>
  <2>1. SumKey(value, <<x, y>>) = k0
    BY <1>2, <1>4
  <2> QED BY <1>5, <1>7, <1>10, <2>1
<1>12. \E s \in winners : \A t \in winners : s = t \/ Before(s, t)
  <2> DEFINE firsts == {s[1] : s \in winners}
  <2>1. firsts \subseteq Nat /\ firsts # {}
    <3>1. \A s \in winners : s[1] \in Nat
      BY <1>1, <1>2, <1>11
    <3> QED BY <1>11, <3>1
  <2>2. PICK m \in firsts : \A n \in firsts : m <= n
    <3> HIDE DEF firsts
    <3> QED BY <2>1, LeastNumber
  <2>3. PICK s \in winners : s[1] = m
    OBVIOUS
  <2>4. ASSUME NEW t \in winners PROVE s = t \/ Before(s, t)
    <3>1. PICK a \in largest, b \in largest : a + b = value /\ s = <<a, b>>
      BY <1>11
    <3>2. PICK c \in largest, d \in largest : c + d = value /\ t = <<c, d>>
      BY <1>11
    <3>3. a \in Nat /\ b \in Nat /\ c \in Nat /\ d \in Nat
      BY <1>1, <1>2
    <3>4. a <= c
      BY <2>2, <2>3, <3>1, <3>2
    <3>5. CASE a = c
      <4>1. b = d
        BY <1>1, <3>1, <3>2, <3>3, <3>5
      <4> QED BY <3>1, <3>2, <3>5, <4>1
    <3>6. CASE a < c
      <4>1. 1 \in DOMAIN s /\ s[1] = a /\ t[1] = c /\ 1..(1 - 1) = {}
        BY <3>1, <3>2
      <4> QED BY <3>6, <4>1 DEF Before
    <3> QED BY <3>3, <3>4, <3>5, <3>6
  <2> QED BY <2>4
<1> DEFINE addends == CHOOSE s \in winners : \A t \in winners : s = t \/ Before(s, t)
<1>13. addends \in winners
  <2> HIDE DEF winners
  <2> QED BY <1>12
<1>14. Classify(value, sourced) = [kind |-> "sum", addends |-> addends]
  <2>1. keys # {} /\ winners # {}
    BY <1>7, <1>11
  <2> QED BY <2>1 DEF Classify, keys, sums, differences
<1> HIDE DEF addends, winners
<1>15. PICK a \in largest, b \in largest : a < b /\ a + b = value /\ addends = <<a, b>>
  BY <1>11, <1>13
<1> QED BY <1>2, <1>14, <1>15
-----------------------------------------------------------------------------
(***************************************************************************)
(* What is said of a basket                                                *)
(***************************************************************************)

\* The reply is about the basket that was quoted.
TalkOfTheBasket ==
  stage = "replied" =>
    /\ Served /\ groups \in Seq(GroupSet) /\ groups # <<>> /\ best \in [DOMAIN groups -> Products]
    /\ Len(Basket) <= 2
    /\ \E value \in Totals(Basket), words \in SUBSET {"combined", "separate"},
          equation \in Explanations(Basket[1]) :
         spoken = [amounts |-> <<[value |-> value, words |-> words]>>, equations |-> <<equation>>,
                   fields |-> {}, lines |-> {}]

\* The sources of the checks when a basket has been quoted.
BasketSources(lines) == Sources(Shown(lines), OwnWords, Remarks)

\* What the sources hold: the price, the price apart and every card price.
LEMMA SourcesFacts ==
  ASSUME Served, NEW lines \in Seq(LineSet)
  PROVE  LET sourced == BasketSources(lines)
             quote == QuoteBasket(lines, request.dest, request.currency)
         IN /\ sourced.numbers \subseteq Nat /\ sourced.stated \subseteq Nat
            /\ sourced.money = Values({f \in Shown(lines) : IsMoney(f)})
            /\ sourced.money \subseteq sourced.numbers /\ sourced.basket \subseteq sourced.numbers
            /\ sourced.landed \subseteq sourced.money
            /\ Landed(quote) \in sourced.basket /\ Landed(quote) \in sourced.numbers
            /\ Separately(lines, request.dest, request.currency) \in sourced.numbers
            /\ \A line \in ToSet(lines) : CardPrice(line) \in sourced.landed
<1> DEFINE fields == Shown(lines)
           sourced == BasketSources(lines)
           quote == QuoteBasket(lines, request.dest, request.currency)
           apart == Separately(lines, request.dest, request.currency)
           f1 == [name |-> "landed", value |-> Landed(quote), basket |-> TRUE]
           f2 == [name |-> "other", value |-> apart, basket |-> TRUE]
<1>1. /\ sourced.numbers = Values(fields) \cup OwnWords \cup Remarks
      /\ sourced.money = Values({f \in fields : IsMoney(f)}) /\ sourced.stated = OwnWords
      /\ sourced.landed = Values({f \in fields : f.name = "landed"})
      /\ sourced.basket = Values({f \in fields : IsMoney(f) /\ f.basket})
  BY DEF BasketSources, Sources
<1>2. \A f \in fields : f.value \in Nat
  BY ShownFacts
<1>3. f1 \in fields /\ f2 \in fields
  BY BasketFacts DEF Shown
<1>4. \A line \in ToSet(lines) :
        [name |-> "landed", value |-> CardPrice(line), basket |-> FALSE] \in fields
  <2> SUFFICES ASSUME NEW line \in ToSet(lines)
               PROVE  [name |-> "landed", value |-> CardPrice(line), basket |-> FALSE] \in fields
    OBVIOUS
  <2>1. line \in LineSet
    BY DEF ToSet
  <2>2. line.product \in Products
    BY <2>1 DEF LineSet
  <2>3. [name |-> "landed", value |-> CardPrice(line), basket |-> FALSE] \in Card(line.product)
    BY <2>2, CardFacts DEF CardPrice
  <2> QED BY <2>3 DEF Shown
<1> HIDE DEF fields, quote, apart, sourced
<1>5. Values(fields) \subseteq Nat
  BY <1>2 DEF Values
<1>6. sourced.numbers \subseteq Nat /\ sourced.stated \subseteq Nat
  BY <1>1, <1>5, Scales
<1>7. /\ sourced.money \subseteq sourced.numbers /\ sourced.basket \subseteq sourced.numbers
      /\ sourced.landed \subseteq sourced.money
  BY <1>1 DEF Values, IsMoney
<1>8. Landed(quote) \in sourced.basket /\ apart \in sourced.numbers
  <2>1. f1.value = Landed(quote) /\ f1.basket /\ IsMoney(f1) /\ f2.value = apart
    BY DEF IsMoney
  <2> HIDE DEF f1, f2
  <2> QED BY <1>1, <1>3, <2>1 DEF Values
<1>9. \A line \in ToSet(lines) : CardPrice(line) \in sourced.landed
  <2> SUFFICES ASSUME NEW line \in ToSet(lines) PROVE CardPrice(line) \in sourced.landed
    OBVIOUS
  <2> DEFINE f == [name |-> "landed", value |-> CardPrice(line), basket |-> FALSE]
  <2>1. f.name = "landed" /\ f.value = CardPrice(line) /\ f \in fields
    BY <1>4
  <2> HIDE DEF f
  <2> QED BY <1>1, <2>1 DEF Values
<1> QED BY <1>1, <1>6, <1>7, <1>8, <1>9 DEF fields, quote, apart, sourced

\* A card price is something to pay.
LEMMA CardPriceType ==
  ASSUME Served, NEW lines \in Seq(LineSet), NEW i \in DOMAIN lines
  PROVE  lines[i] \in ToSet(lines) /\ CardPrice(lines[i]) \in Nat /\ CardPrice(lines[i]) > 0
<1>1. lines[i] \in LineSet /\ lines[i] \in ToSet(lines)
  BY DEF ToSet
<1>2. lines[i].product \in Products
  BY <1>1 DEF LineSet
<1> QED BY <1>1, <1>2, SingleQuote DEF CardPrice

\* The card prices of two products add up to what the sum says.
LEMMA TwoCards ==
  ASSUME Served, NEW lines \in Seq(LineSet), Len(lines) = 2
  PROVE  /\ SumOfCards(lines) = CardPrice(lines[1]) + CardPrice(lines[2])
         /\ {CardPrice(l) : l \in ToSet(lines)} = {CardPrice(lines[1]), CardPrice(lines[2])}
<1> DEFINE w == [i \in DOMAIN lines |-> CardPrice(lines[i])]
<1>1. DOMAIN lines = {1, 2}
  <2>1. DOMAIN lines = 1..2
    OBVIOUS
  <2> QED BY <2>1
<1>2. DOMAIN w = {1, 2} /\ w[1] = CardPrice(lines[1]) /\ w[2] = CardPrice(lines[2])
  BY <1>1
<1>3. w[1] \in Int /\ w[2] \in Int
  BY <1>1, <1>2, CardPriceType
<1>4. ToSet(lines) = {lines[1], lines[2]}
  BY <1>1 DEF ToSet
<1> HIDE DEF w
<1>5. SumFunction(w) = w[1] + w[2]
  BY <1>2, <1>3, SumOfTwo
<1> QED BY <1>2, <1>4, <1>5 DEF SumOfCards, w

\* One of each, the price apart is that sum.
LEMMA OneOfEach ==
  ASSUME Served, NEW lines \in Seq(LineSet), \A l \in ToSet(lines) : l.quantity = 1
  PROVE  SumOfCards(lines) = Separately(lines, request.dest, request.currency)
<1> DEFINE v == [i \in DOMAIN lines |-> CardPrice(lines[i])]
           w == [i \in DOMAIN lines |-> Landed(QuoteBasket(<<lines[i]>>, request.dest, request.currency))]
<1>1. ASSUME NEW i \in DOMAIN lines PROVE v[i] = w[i]
  <2>1. lines[i] \in LineSet /\ lines[i].quantity = 1
    BY DEF ToSet
  <2>2. Single(lines[i].product) = lines[i]
    BY <2>1 DEF LineSet, Single
  <2> QED BY <2>2 DEF CardPrice
<1>2. v = w
  BY <1>1
<1> HIDE DEF v, w
<1>3. SumFunction(v) = SumFunction(w)
  BY <1>2
<1> QED BY <1>3 DEF SumOfCards, Separately, v, w

\* The sum of two card prices, called the price together, is told to be that.
LEMMA MisaddIsTold ==
  ASSUME Served, NEW lines \in Seq(LineSet), Len(lines) = 2,
         CardPrice(lines[1]) # CardPrice(lines[2]),
         NEW amount, amount.value = SumOfCards(lines), amount.words = {"combined"},
         KindOf(amount, BasketSources(lines)) \notin {"sourced", "basket_misadd"}
  PROVE  \E a, b \in BasketSources(lines).money :
           a < b /\ a + b = amount.value /\ {a, b} # {CardPrice(l) : l \in ToSet(lines)}
<1> DEFINE sourced == BasketSources(lines)
           p == CardPrice(lines[1])
           q == CardPrice(lines[2])
           value == amount.value
           cause == Classify(value, sourced)
<1>1. 1 \in DOMAIN lines /\ 2 \in DOMAIN lines
  OBVIOUS
<1>2. p \in Nat /\ q \in Nat /\ p > 0 /\ q > 0 /\ lines[1] \in ToSet(lines) /\ lines[2] \in ToSet(lines)
  BY <1>1, CardPriceType
<1>3. value = p + q /\ {CardPrice(l) : l \in ToSet(lines)} = {p, q}
  BY TwoCards
<1>4. /\ sourced.numbers \subseteq Nat /\ sourced.stated \subseteq Nat /\ sourced.money \subseteq Nat
      /\ sourced.basket \subseteq sourced.numbers /\ sourced.basket # {}
      /\ p \in sourced.landed /\ q \in sourced.landed /\ sourced.landed \subseteq sourced.money
      /\ Few(sourced.money, 24)
  <2>1. /\ sourced.numbers \subseteq Nat /\ sourced.stated \subseteq Nat
        /\ sourced.money = Values({f \in Shown(lines) : IsMoney(f)})
        /\ sourced.money \subseteq sourced.numbers /\ sourced.basket \subseteq sourced.numbers
        /\ sourced.landed \subseteq sourced.money /\ sourced.basket # {}
        /\ \A line \in ToSet(lines) : CardPrice(line) \in sourced.landed
    BY SourcesFacts
  <2>2. Few(Values({f \in Shown(lines) : IsMoney(f)}), 24)
    BY MoneyIsLittle
  <2> HIDE DEF sourced
  <2> QED BY <1>2, <2>1, <2>2
<1> HIDE DEF sourced, p, q, value
<1>5. PICK x \in {p, q}, y \in {p, q} : x < y /\ x + y = p + q
  <2>1. p # q
    BY DEF p, q
  <2>2. p < q \/ q < p
    BY <1>2, <2>1
  <2> QED BY <1>2, <2>2
<1>6. /\ cause.kind = "sum"
      /\ \E a, b \in sourced.money : a < b /\ a + b = value /\ cause.addends = <<a, b>>
  <2>1. x \in sourced.money /\ y \in sourced.money /\ 0 < x /\ x < y /\ value = x + y
    BY <1>2, <1>3, <1>4, <1>5
  <2> QED BY <1>4, <2>1, SumsAreTaken
<1>7. PICK a \in sourced.money, b \in sourced.money : a < b /\ a + b = value /\ cause.addends = <<a, b>>
  BY <1>6
<1>8. ~Has(sourced, value) /\ ~IsBasketMisadd(amount, cause.addends, sourced)
  BY <1>6 DEF KindOf, sourced, value
<1>9. ASSUME {a, b} = {p, q} PROVE FALSE
  <2>1. ToSet(cause.addends) \subseteq sourced.landed
    <3>1. ToSet(<<a, b>>) = {a, b}
      BY DEF ToSet
    <3> HIDE DEF cause
    <3> QED BY <1>4, <1>7, <1>9, <3>1
  <2>2. ~\E n \in sourced.basket : Matches(amount.value, n)
    BY <1>4, <1>8 DEF Has, value
  <2>3. "combined" \in amount.words /\ "separate" \notin amount.words
    OBVIOUS
  <2> QED BY <1>4, <1>8, <2>1, <2>2, <2>3 DEF IsBasketMisadd
<1> QED BY <1>3, <1>7, <1>9 DEF sourced, value

\* The checks judge such a reply as they should.
LEMMA TalkIsJudged ==
  ASSUME TalkOfTheBasket
  PROVE  FiguresAreJudged
<1> SUFFICES ASSUME stage = "replied" PROVE FiguresAreJudged
  BY DEF FiguresAreJudged
<1> DEFINE lines == Basket
           sourced == Sources(Shown(lines), OwnWords, Remarks)
           amount == spoken.amounts[1]
           equation == spoken.equations[1]
           kind == KindOf(amount, sourced)
           together == Landed(QuoteBasket(lines, request.dest, request.currency))
           apart == Separately(lines, request.dest, request.currency)
           added == Len(lines) = 2 /\ CardPrice(lines[1]) # CardPrice(lines[2]) /\ amount.value = SumOfCards(lines)
<1>1. Served /\ lines \in Seq(LineSet) /\ lines # <<>> /\ Len(lines) <= 2
  BY QuotedLines DEF TalkOfTheBasket, Basket
<1>2. PICK explained \in Explanations(lines[1]) : equation = explained
  BY DEF TalkOfTheBasket
<1> HIDE DEF lines
<1>3. sourced = BasketSources(lines)
  BY DEF BasketSources
<1>4. sourced.numbers \subseteq Nat /\ together \in sourced.numbers /\ apart \in sourced.numbers
  BY <1>1, <1>3, SourcesFacts
<1>5. amount.value \in {together, apart} => kind = "sourced"
  <2> HIDE DEF sourced, together, apart, amount
  <2> SUFFICES ASSUME amount.value \in {together, apart} PROVE kind = "sourced"
    OBVIOUS
  <2>1. amount.value \in Nat /\ amount.value \in sourced.numbers
    BY <1>4
  <2>2. Has(sourced, amount.value)
    BY <2>1, ShownIsSourced
  <2> QED BY <2>2 DEF KindOf
<1>6. (added /\ amount.words = {"combined"} /\ kind # "basket_misadd") =>
        \/ kind = "sourced"
        \/ \E a, b \in sourced.money :
             a < b /\ a + b = amount.value /\ {a, b} # {CardPrice(l) : l \in ToSet(lines)}
  <2> HIDE DEF sourced, amount
  <2> SUFFICES ASSUME added, amount.words = {"combined"}, kind # "basket_misadd", kind # "sourced"
               PROVE  \E a, b \in sourced.money :
                        a < b /\ a + b = amount.value /\ {a, b} # {CardPrice(l) : l \in ToSet(lines)}
    OBVIOUS
  <2>1. KindOf(amount, BasketSources(lines)) \notin {"sourced", "basket_misadd"}
    BY <1>3
  <2>2. \E a, b \in BasketSources(lines).money :
          a < b /\ a + b = amount.value /\ {a, b} # {CardPrice(l) : l \in ToSet(lines)}
    <3> HIDE DEF kind
    <3> QED BY <1>1, <2>1, MisaddIsTold
  <2> QED BY <1>3, <2>2
<1>7. (added /\ \A l \in ToSet(lines) : l.quantity = 1) => kind = "sourced"
  <2> HIDE DEF sourced, amount, kind
  <2> QED BY <1>1, <1>5, OneOfEach
<1>8. ASSUME equation.left = Convert(Taxable(<<Single(lines[1].product)>>, request.dest), "CNY", request.currency),
             RateToCNY[request.currency] >= RateToCNY["CNY"]
      PROVE  Consistent(equation)
  <2> DEFINE p == lines[1].product
  <2>1. p \in Products
    <3>1. lines[1] \in LineSet
      BY <1>1
    <3> QED BY <3>1 DEF LineSet
  <2>2. /\ equation.rate = DutyRate[request.dest][Category[p]]
        /\ equation.result = QuoteBasket(<<Single(p)>>, request.dest, request.currency).tariff
    BY <1>2 DEF Explanations
  <2> HIDE DEF p, equation
  <2> QED BY <1>1, <1>8, <2>1, <2>2, BaseExplainsTheDuty DEF p
<1> QED BY <1>5, <1>6, <1>7, <1>8 DEF FiguresAreJudged, lines

-----------------------------------------------------------------------------
(***************************************************************************)
(* The records                                                             *)
(*                                                                         *)
(* RecordsKept: what is logged is counted, and a row names the             *)
(* conversation of its case or none.  From that follows what a scan finds  *)
(* (Follows); once the scans have spoken nothing happens to what they      *)
(* spoke of.                                                               *)
(***************************************************************************)

\* The gates that scan a run.
Gates == {"number", "basket", "arithmetic", "contact", "knowledge"}

\* What audit_conversation counts is a number.
IsJudged(audit) == \A gate \in Gates : audit[gate].found \in Nat /\ audit[gate].bad \in Nat

\* The session a case runs in, and that of its run.
RunSessions == {"eval"} \X Cases \X Nat

\* The rows of a report; a row without a session is one that failed early.
Rows ==
  {r \in [case : Cases, session : RunSessions \cup {Nil}, of : RunSessions,
          verdict : {"PASS", "FAIL", "ERROR"}, failed : SUBSET {"p0"}] :
     r.session \in {r.of, Nil} /\ r.of[2] = r.case}

\* What is logged is counted, the rows name the conversations of their cases,
\* and once the scans have spoken nothing happens any more.
RecordsKept ==
  /\ IsFiniteSet(logs) /\ \A l \in logs : IsJudged(l.audit)
  /\ rows \in Seq(Rows) /\ (report # Nil => report.rows \in Seq(Rows))
  /\ stage = "replied" => IsFiniteReply(spoken)
  /\ verdicts # Nil => stage = "audited"

\* The inductive invariant of the audits.
AuditsIInv == RecordsKept /\ VerdictsFollowTheRun /\ Filed

\* The numbers of a conversation that is finite.
LEMMA CountedFacts ==
  ASSUME NEW found, IsFiniteSet(DOMAIN found), \A i \in DOMAIN found : IsFiniteSet(found[i])
  PROVE  Counted(found) \in Nat
<1> DEFINE w == [i \in DOMAIN found |-> Cardinality(found[i])]
<1>1. \A i \in DOMAIN found : w[i] \in Nat
  BY FS_CardinalityType
<1>2. DOMAIN w = DOMAIN found
  OBVIOUS
<1>3. Counted(found) = SumFunctionOnSet(w, DOMAIN w)
  BY DEF Counted, SumFunction
<1> HIDE DEF w
<1> QED BY <1>1, <1>2, <1>3, SumOfNaturals

\* Of a finite conversation, audit_conversation counts everything.
LEMMA ConversationsAreJudged ==
  ASSUME NEW d, IsFiniteSet(DOMAIN d.replies), \A i \in DOMAIN d.replies : IsFiniteReply(d.replies[i])
  PROVE  IsJudged(Audit(d))
<1> DEFINE D == DOMAIN d.replies
<1>1. ASSUME NEW i \in D
      PROVE  /\ IsFiniteSet(DOMAIN d.replies[i].amounts) /\ IsFiniteSet(DOMAIN d.replies[i].equations)
             /\ IsFiniteSet(d.replies[i].fields) /\ IsFiniteSet(d.replies[i].lines)
  BY DEF IsFiniteReply
<1>2. ASSUME NEW i \in D
      PROVE  /\ IsFiniteSet(DOMAIN Unsourced(d)[i])
             /\ IsFiniteSet({k \in DOMAIN Unsourced(d)[i] : Unsourced(d)[i][k] = "basket_misadd"})
  <2>1. DOMAIN Unsourced(d)[i] \subseteq DOMAIN d.replies[i].amounts
    BY DEF Unsourced, CheckReply, Restrict
  <2> QED BY <1>1, <2>1, FS_Subset
<1>3. ASSUME NEW i \in D
      PROVE  /\ IsFiniteSet(CheckArithmetic(d.replies[i]))
             /\ IsFiniteSet(ExtractContactClaims(d.replies[i]))
             /\ IsFiniteSet(CheckContact(d.replies[i], d.known))
             /\ IsFiniteSet(KnowledgeClaims(d.replies[i]))
             /\ IsFiniteSet(CheckKnowledge(d.replies[i], d.insight))
  <2>1. CheckArithmetic(d.replies[i]) \subseteq DOMAIN d.replies[i].equations
    BY DEF CheckArithmetic
  <2>2. /\ ExtractContactClaims(d.replies[i]) \subseteq d.replies[i].fields
        /\ CheckContact(d.replies[i], d.known) \subseteq d.replies[i].fields
    BY DEF CheckContact, ExtractContactClaims, LabeledFieldClaims
  <2>3. /\ KnowledgeClaims(d.replies[i]) \subseteq d.replies[i].lines
        /\ CheckKnowledge(d.replies[i], d.insight) \subseteq d.replies[i].lines
    BY DEF KnowledgeClaims, CheckKnowledge
  <2> QED BY <1>1, <2>1, <2>2, <2>3, FS_Subset
<1>4. AuditNumbers(d).found \in Nat /\ AuditNumbers(d).bad \in Nat
  BY <1>1, <1>2, CountedFacts DEF AuditNumbers
<1>5. AuditBasket(d).found \in Nat /\ AuditBasket(d).bad \in Nat
  BY <1>2, CountedFacts DEF AuditBasket
<1>6. AuditArithmetic(d).found \in Nat /\ AuditArithmetic(d).bad \in Nat
  BY <1>1, <1>3, CountedFacts DEF AuditArithmetic
<1>7. AuditContact(d).found \in Nat /\ AuditContact(d).bad \in Nat
  BY <1>3, CountedFacts DEF AuditContact
<1>8. AuditKnowledge(d).found \in Nat /\ AuditKnowledge(d).bad \in Nat
  BY <1>3, CountedFacts DEF AuditKnowledge
<1> QED BY <1>4, <1>5, <1>6, <1>7, <1>8 DEF IsJudged, Gates, Audit

\* What a scan counts, and of which conversations.
LEMMA TallyFacts ==
  ASSUME RecordsKept, NEW gate \in Gates, NEW part \in {"found", "bad"}
  PROVE  /\ Tally(gate, part) \in Nat
         /\ \A l \in SelectAudits : l.audit[gate][part] <= Tally(gate, part) /\ l.audit[gate][part] \in Nat
         /\ Tally(gate, part) > 0 => \E l \in SelectAudits : l.audit[gate][part] > 0
<1> DEFINE w == [l \in SelectAudits |-> l.audit[gate][part]]
<1>1. SelectAudits \subseteq logs
  BY DEF SelectAudits, InDirectory
<1>2. IsFiniteSet(SelectAudits)
  BY <1>1, FS_Subset DEF RecordsKept
<1>3. \A l \in SelectAudits : w[l] = l.audit[gate][part]
  OBVIOUS
<1>4. \A l \in SelectAudits : w[l] \in Nat
  BY <1>1 DEF RecordsKept, IsJudged
<1>5. DOMAIN w = SelectAudits /\ Tally(gate, part) = SumFunctionOnSet(w, DOMAIN w)
  BY DEF Tally, SumFunction
<1> HIDE DEF w
<1> QED BY <1>2, <1>3, <1>4, <1>5, SumOfNaturals

\* What --report selects is of the run, and all of the run that has a row.
LEMMA SelectedAreOfTheRun ==
  ASSUME RecordsKept, report # Nil
  PROVE  /\ SelectAudits \subseteq OfTheRun
         /\ \A l \in logs :
              l.dir = report.dir /\ (\E r \in ToSet(report.rows) : r.session = l.session /\ r.session # Nil)
              => l \in SelectAudits
<1>1. \A r \in ToSet(report.rows) : r \in Rows
  BY DEF RecordsKept, ToSet
<1>2. ASSUME NEW l \in SelectAudits PROVE l \in OfTheRun
  <2>1. l \in logs /\ l.session \in SessionsFromReport
    BY DEF SelectAudits, InDirectory
  <2>2. PICK r \in ToSet(report.rows) : r.session = l.session /\ r.session # Nil
    BY <2>1 DEF SessionsFromReport
  <2>3. r.of = l.session
    BY <1>1, <2>2 DEF Rows
  <2> QED BY <2>1, <2>3 DEF OfTheRun
<1>3. ASSUME NEW l \in logs, l.dir = report.dir,
             NEW r \in ToSet(report.rows), r.session = l.session, r.session # Nil
      PROVE  l \in SelectAudits
  <2>1. ConversationsDir = l.dir
    BY <1>3 DEF ConversationsDir
  <2> QED BY <1>3, <2>1 DEF SelectAudits, InDirectory, SessionsFromReport
<1> QED BY <1>2, <1>3

\* What a verdict has to say of the run it is about.
Follows(gate, colour) ==
  /\ colour = "green" =>
       /\ \E l \in OfTheRun : l.audit[gate].found > 0
       /\ \A l \in OfTheRun : l.audit[gate].bad > 0 =>
            \/ ~ \E r \in ToSet(report.rows) : r.session = l.session
            \/ l.dir # report.dir \/ gate = "number"
  /\ colour = "red" => \E l \in OfTheRun : l.audit[gate].bad > 0

\* The scan for numbers follows the run.
LEMMA NumberFollows ==
  ASSUME RecordsKept, report # Nil
  PROVE  Follows("number", NumberScan)
<1> DEFINE found == Tally("number", "found")
           bad == Tally("number", "bad")
<1>1. /\ found \in Nat /\ bad \in Nat
      /\ found > 0 => \E l \in SelectAudits : l.audit["number"].found > 0
      /\ bad > 0 => \E l \in SelectAudits : l.audit["number"].bad > 0
  BY TallyFacts DEF Gates
<1>2. SelectAudits \subseteq OfTheRun
  BY SelectedAreOfTheRun
<1>3. NumberScan = "green" => ~(found < MinAmounts)
  BY DEF NumberScan, Scan, NumberGate
<1>4. NumberScan = "red" => bad * 100 > MaxPercent * found
  BY DEF NumberScan, Scan, NumberGate
<1> HIDE DEF found, bad
<1>5. NumberScan = "green" => found > 0
  BY AuditsAssumption, <1>1, <1>3
<1>6. NumberScan = "red" => bad > 0
  <2> SUFFICES ASSUME bad = 0, bad * 100 > MaxPercent * found PROVE FALSE
    BY <1>1, <1>4
  <2>1. \A m, n \in Nat : m * n \in Nat
    OBVIOUS
  <2>2. MaxPercent * found \in Nat
    BY AuditsAssumption, <1>1, <2>1
  <2> QED BY <2>2
<1> QED BY <1>1, <1>2, <1>5, <1>6 DEF Follows

\* So does the scan of every gate.
LEMMA GateFollows ==
  ASSUME RecordsKept, report # Nil, NEW gate \in Gates
  PROVE  Follows(gate, Scan(Gate(gate)))
<1> DEFINE found == Tally(gate, "found")
           bad == Tally(gate, "bad")
<1>1. /\ found \in Nat /\ bad \in Nat
      /\ found > 0 => \E l \in SelectAudits : l.audit[gate].found > 0
      /\ bad > 0 => \E l \in SelectAudits : l.audit[gate].bad > 0
      /\ \A l \in SelectAudits : l.audit[gate].bad <= bad /\ l.audit[gate].bad \in Nat
  BY TallyFacts
<1>2. SelectAudits \subseteq OfTheRun
  BY SelectedAreOfTheRun
<1>3. Scan(Gate(gate)) = "green" => found > 0 /\ bad = 0
  BY <1>1 DEF Scan, Gate
<1>4. Scan(Gate(gate)) = "red" => bad > 0
  BY DEF Scan, Gate
<1>5. ASSUME NEW l \in OfTheRun, l.audit[gate].bad > 0, bad = 0, l.dir = report.dir,
             NEW r \in ToSet(report.rows), r.session = l.session
      PROVE  FALSE
  <2>1. l \in logs /\ \E s \in ToSet(report.rows) : s.of = l.session
    BY DEF OfTheRun
  <2>2. l.session # Nil
    BY AuditsAssumption, <2>1 DEF RecordsKept, ToSet, Rows, RunSessions
  <2>3. l \in SelectAudits
    BY <1>5, <2>1, <2>2, SelectedAreOfTheRun
  <2> QED BY <1>1, <1>5, <2>3
<1> HIDE DEF found, bad
<1>6. Scan(Gate(gate)) = "green" => Follows(gate, "green")
  BY <1>1, <1>2, <1>3, <1>5 DEF Follows
<1>7. Scan(Gate(gate)) = "red" => Follows(gate, "red")
  BY <1>1, <1>2, <1>4 DEF Follows
<1> QED BY <1>6, <1>7 DEF Follows

\* Nothing is logged yet.
LEMMA AuditsInvInit == ASSUME AuditsInit PROVE AuditsIInv
<1>1. /\ stage = "called" /\ logs = {} /\ rows = <<>> /\ report = Nil /\ verdicts = Nil /\ last = "other"
  BY DEF AuditsInit, ReplyInit, PricingInit
<1>2. IsFiniteSet(logs) /\ rows \in Seq(Rows)
  BY <1>1, FS_EmptySet
<1>3. RecordsKept
  BY <1>1, <1>2 DEF RecordsKept
<1> QED BY <1>1, <1>3 DEF AuditsIInv, VerdictsFollowTheRun, Filed

\* A conversation is logged.
LEMMA LoggedFacts ==
  ASSUME RecordsKept, NEW session, NEW d, logs' = Recorded(session, d),
         IsFiniteSet(DOMAIN d.replies), \A i \in DOMAIN d.replies : IsFiniteReply(d.replies[i])
  PROVE  IsFiniteSet(logs') /\ \A l \in logs' : IsJudged(l.audit)
<1> DEFINE new == [session |-> session, dir |-> dir, audit |-> Audit(d)]
<1>1. logs' = logs \cup {new} /\ new.audit = Audit(d)
  BY DEF Recorded
<1>2. IsJudged(Audit(d))
  BY ConversationsAreJudged
<1> HIDE DEF new
<1>3. IsFiniteSet(logs \cup {new})
  BY FS_AddElement DEF RecordsKept
<1> QED BY <1>1, <1>2, <1>3 DEF RecordsKept

\* A sequence of one.
LEMMA OnlyOne == IsFiniteSet(1..1)
<1>1. 1..1 = {1}
  OBVIOUS
<1> QED BY <1>1, FS_Singleton

\* A reply is finite.
LEMMA FinishedReply == ASSUME Say PROVE IsFiniteReply(spoken')
<1>1. PICK value \in Totals(Basket), words \in SUBSET {"combined", "separate"}, equation \in Explanations(Basket[1]) :
        spoken' = [amounts |-> <<[value |-> value, words |-> words]>>, equations |-> <<equation>>,
                   fields |-> {}, lines |-> {}]
  BY DEF Say
<1>2. DOMAIN spoken'.amounts = 1..1 /\ DOMAIN spoken'.equations = 1..1
      /\ spoken'.fields = {} /\ spoken'.lines = {}
  BY <1>1
<1>3. IsFiniteSet({})
  BY FS_EmptySet
<1> QED BY <1>2, <1>3, OnlyOne DEF IsFiniteReply

\* A conversation of the run.
LEMMA ConverseKeeps ==
  ASSUME RecordsKept, NEW c \in Cases, NEW d, Converse(c, d),
         IsFiniteSet(DOMAIN d.replies), \A i \in DOMAIN d.replies : IsFiniteReply(d.replies[i])
  PROVE  /\ IsFiniteSet(logs') /\ \A l \in logs' : IsJudged(l.audit)
         /\ rows' \in Seq(Rows) /\ report' = report /\ verdicts' = verdicts /\ last' = "other"
<1>1. IsFiniteSet(logs') /\ \A l \in logs' : IsJudged(l.audit)
  <2>1. logs' = Recorded(Session(c), d)
    BY DEF Converse
  <2> QED BY <2>1, LoggedFacts
<1>2. Cardinality(logs) + 1 \in Nat
  BY FS_CardinalityType DEF RecordsKept
<1>3. Results(c, Session(c)) \subseteq Rows
  <2>1. Session(c) \in RunSessions /\ Session(c)[2] = c
    BY <1>2 DEF Session, RunSessions
  <2> HIDE DEF RunSessions
  <2> QED BY <2>1 DEF Results, Rows
<1>4. rows' \in Seq(Rows)
  <2>1. PICK result \in Results(c, Session(c)) : rows' = Append(rows, result)
    BY DEF Converse
  <2> QED BY <1>3, <2>1 DEF RecordsKept
<1> QED BY <1>1, <1>4 DEF Converse

\* Every step keeps the records.
LEMMA RecordsKeptStep == ASSUME RecordsKept, [AuditsNext]_allVars PROVE RecordsKept'
<1> USE DEF RecordsKept
<1>1. CASE (PricingSteps \/ Say) /\ UNCHANGED auditVars
  <2>1. stage' = "replied" => IsFiniteReply(spoken')
    BY <1>1, FinishedReply DEF PricingSteps, PricingNext, Reject, QuoteTool, Optimize, Consider, Report
  <2>2. stage # "audited"
    BY <1>1 DEF PricingSteps, PricingNext, Reject, QuoteTool, Optimize, Consider, Report, Say
  <2> QED BY <1>1, <2>1, <2>2 DEF auditVars
<1>2. CASE LogReply
  <2>1. PICK c \in Cases :
          Converse(c, [fields |-> Shown(Basket), stated |-> OwnWords, remarks |-> Remarks,
                       known |-> {}, insight |-> "none", replies |-> <<spoken>>])
    BY <1>2 DEF LogReply
  <2>2. DOMAIN <<spoken>> = 1..1 /\ <<spoken>>[1] = spoken /\ IsFiniteReply(spoken)
    BY <1>2 DEF LogReply
  <2>3. IsFiniteSet(DOMAIN <<spoken>>) /\ \A i \in DOMAIN <<spoken>> : IsFiniteReply(<<spoken>>[i])
    BY <2>2, OnlyOne
  <2> DEFINE d == [fields |-> Shown(Basket), stated |-> OwnWords, remarks |-> Remarks,
                   known |-> {}, insight |-> "none", replies |-> <<spoken>>]
  <2>4. d.replies = <<spoken>> /\ Converse(c, d)
    BY <2>1
  <2> HIDE DEF d
  <2>5. /\ IsFiniteSet(logs') /\ \A l \in logs' : IsJudged(l.audit)
        /\ rows' \in Seq(Rows) /\ report' = report /\ verdicts' = verdicts
    BY <2>3, <2>4, ConverseKeeps
  <2> QED BY <1>2, <2>5 DEF LogReply
<1>3. ASSUME NEW c \in Cases, RunCase(c) PROVE RecordsKept'
  <2>1. PICK d \in Dialogues : Converse(c, d)
    BY <1>3 DEF RunCase
  <2>2. /\ IsFiniteSet(logs') /\ \A l \in logs' : IsJudged(l.audit)
        /\ rows' \in Seq(Rows) /\ report' = report /\ verdicts' = verdicts
    BY AuditsAssumption, <2>1, ConverseKeeps
  <2> QED BY <1>3, <2>2 DEF RunCase, replyVars
<1>4. ASSUME NEW d \in Dialogues, Elsewhere(d) PROVE RecordsKept'
  <2>1. IsFiniteSet(logs') /\ \A l \in logs' : IsJudged(l.audit)
    <3>1. /\ logs' = Recorded(<<"ab", Cardinality(logs) + 1>>, d)
          /\ IsFiniteSet(DOMAIN d.replies) /\ \A i \in DOMAIN d.replies : IsFiniteReply(d.replies[i])
      BY AuditsAssumption, <1>4 DEF Elsewhere
    <3> QED BY <3>1, LoggedFacts
  <2> QED BY <1>4, <2>1 DEF Elsewhere, replyVars
<1>5. CASE Move
  BY <1>5 DEF Move, replyVars
<1>6. CASE Save
  BY <1>6 DEF Save, replyVars
<1>7. CASE NewRun
  BY <1>7 DEF NewRun, replyVars
<1>8. CASE RunScans
  BY <1>8 DEF RunScans, AtWork, replyVars
<1>9. CASE Collect
  BY <1>9 DEF Collect, replyVars
<1>10. ASSUME NEW p \in DOMAIN pool, NEW status \in Decisions, NEW force \in BOOLEAN,
              TriageEntry(p, status) \/ TriageCase(p.case, status, force)
       PROVE  RecordsKept'
  BY <1>10 DEF TriageEntry, TriageCase, Mark, replyVars
<1>11. CASE UNCHANGED allVars
  BY <1>11 DEF allVars, replyVars, auditVars
<1> QED BY <1>1, <1>2, <1>3, <1>4, <1>5, <1>6, <1>7, <1>8, <1>9, <1>10, <1>11 DEF AuditsNext
\* The scans of the run speak only of the run.
LEMMA ScansFollow == ASSUME AuditsIInv, RunScans PROVE VerdictsFollowTheRun'
<1>1. /\ report # Nil /\ report' = report /\ logs' = logs
      /\ verdicts' = [number |-> NumberScan, basket |-> BasketScan, arithmetic |-> ArithmeticScan,
                      contact |-> ContactScan, knowledge |-> KnowledgeScan]
  BY DEF RunScans
<1>2. ASSUME NEW gate \in Gates PROVE Follows(gate, verdicts'[gate])
  <2>1. verdicts'[gate] = IF gate = "number" THEN NumberScan ELSE Scan(Gate(gate))
    BY <1>1 DEF Gates, BasketScan, ArithmeticScan, ContactScan, KnowledgeScan,
                BasketGate, ArithmeticGate, ContactGate, KnowledgeGate
  <2> QED BY <1>1, <2>1, NumberFollows, GateFollows DEF AuditsIInv
<1>3. DOMAIN verdicts' = Gates
  BY <1>1 DEF Gates
<1> QED BY <1>1, <1>2, <1>3 DEF VerdictsFollowTheRun, Follows, OfTheRun

\* The scans speak once, and nothing they spoke of changes after that.
LEMMA VerdictsKept == ASSUME AuditsIInv, [AuditsNext]_allVars PROVE VerdictsFollowTheRun'
<1>1. ASSUME verdicts' # Nil, verdicts' = verdicts PROVE logs' = logs /\ report' = report
  <2>1. verdicts # Nil /\ ~AtWork /\ stage = "audited"
    BY <1>1 DEF AtWork, AuditsIInv, RecordsKept
  <2> QED
    BY <2>1 DEF AuditsNext, LogReply, RunCase, Elsewhere, Move, Save, NewRun, RunScans, Collect, Reported,
                TriageEntry, TriageCase, Mark, auditVars, allVars
<1>2. ASSUME verdicts' # verdicts PROVE RunScans
  BY <1>2 DEF AuditsNext, LogReply, Converse, RunCase, Elsewhere, Move, Save, NewRun, Collect,
              TriageEntry, TriageCase, Mark, auditVars, allVars
<1>3. CASE verdicts' = verdicts
  BY <1>1, <1>3 DEF AuditsIInv, VerdictsFollowTheRun, OfTheRun
<1> QED BY <1>2, <1>3, ScansFollow

\* What collecting with the report files.
LEMMA CollectFiles == ASSUME RecordsKept, Collect PROVE Filed'
<1> SUFFICES ASSUME last' = "collected" PROVE Filed'
  BY DEF Filed
<1>1. /\ pool' = Merge(FromProvenance(InDirectory("default")) \cup FromReport)
      /\ report # Nil /\ report' = report /\ logs' = logs
  BY DEF Collect, Reported
<1>2. FromProvenance(InDirectory("default")) \cup FromReport \subseteq DOMAIN pool'
  BY <1>1 DEF Merge
<1>3. ASSUME NEW r \in ToSet(report.rows), r.verdict # "PASS"
      PROVE  \E p \in DOMAIN pool' : p.case = <<r.case>>
  <2>1. Fingerprint("rubric", <<r.case>>, r.failed) \in FromReport
    BY <1>3 DEF FromReport
  <2>2. Fingerprint("rubric", <<r.case>>, r.failed).case = <<r.case>>
    BY DEF Fingerprint
  <2> QED BY <1>2, <2>1, <2>2
<1>4. ASSUME NEW l \in OfTheRun, l.audit.number.bad > 0, l.dir = "default"
      PROVE  \E p \in DOMAIN pool' : p.source = "provenance" /\ p.case = <<l.session[2]>>
  <2>1. l \in logs /\ \E r \in ToSet(report.rows) : r.of = l.session
    BY DEF OfTheRun
  <2>2. l.session \in RunSessions
    BY <1>1, <2>1 DEF RecordsKept, ToSet, Rows
  <2>3. CaseOf(l.session) = <<l.session[2]>>
    BY <2>2 DEF CaseOf, RunSessions
  <2> DEFINE print == Fingerprint("provenance", CaseOf(l.session), l.audit.number.kinds)
  <2>4. print \in FromProvenance(InDirectory("default"))
    BY <1>4, <2>1 DEF FromProvenance, InDirectory
  <2>5. print.source = "provenance" /\ print.case = CaseOf(l.session)
    BY DEF Fingerprint
  <2> HIDE DEF print
  <2> QED BY <1>2, <2>3, <2>4, <2>5
<1> QED BY <1>1, <1>3, <1>4 DEF Filed, OfTheRun

\* Collecting files, and nothing takes an entry out of the pool.
LEMMA FiledStep == ASSUME AuditsIInv, [AuditsNext]_allVars PROVE Filed'
<1> SUFFICES ASSUME last' = "collected" PROVE Filed'
  BY DEF Filed
<1>1. Collect \/ (last' = last /\ UNCHANGED <<report, logs, pool>>)
  <2>1. ASSUME NEW c \in Cases, NEW d, Converse(c, d) PROVE FALSE
    BY <2>1 DEF Converse
  <2>2. ~LogReply /\ \A c \in Cases : ~RunCase(c)
    BY <2>1 DEF LogReply, RunCase
  <2>3. /\ \A d \in Dialogues : ~Elsewhere(d)
        /\ ~Move /\ ~Save /\ ~NewRun
        /\ \A p, status : ~TriageEntry(p, status) /\ \A force \in BOOLEAN : ~TriageCase(p.case, status, force)
    BY DEF Elsewhere, Move, Save, NewRun, TriageEntry, TriageCase, Mark
  <2> QED BY <2>2, <2>3 DEF AuditsNext, RunScans, auditVars, allVars
<1>2. CASE Collect
  BY <1>2, CollectFiles DEF AuditsIInv
<1>3. CASE last' = last /\ UNCHANGED <<report, logs, pool>>
  BY <1>3 DEF AuditsIInv, Filed, OfTheRun
<1> QED BY <1>1, <1>2, <1>3

\* The inductive invariant holds in every behaviour.
LEMMA AuditsInvariance == AuditsSpec => []AuditsIInv
<1>1. ASSUME AuditsIInv, [AuditsNext]_allVars PROVE AuditsIInv'
  <2>1. RecordsKept'
    BY <1>1, RecordsKeptStep DEF AuditsIInv
  <2>2. VerdictsFollowTheRun' /\ Filed'
    BY <1>1, VerdictsKept, FiledStep
  <2> QED BY <2>1, <2>2 DEF AuditsIInv
<1> QED BY <1>1, AuditsInvInit, PTL DEF AuditsSpec

\* What the offline scans say of a run they say of that run: a red gate has a
\* conversation of the run to show for it, and a green one has read something
\* and, but for the numbers, left out no bad conversation it could have found
\* (run_scan, select_audits).
THEOREM VerdictsHold == AuditsSpec => []VerdictsFollowTheRun
<1>1. AuditsIInv => VerdictsFollowTheRun
  BY DEF AuditsIInv
<1> QED BY <1>1, AuditsInvariance, PTL

\* A change of the pool.
LEMMA PoolSteps == ASSUME [AuditsNext]_allVars PROVE [DecisionsStand]_auditVars
<1>1. ASSUME pool' = pool PROVE DecisionsStand
  BY <1>1 DEF DecisionsStand
<1>2. ASSUME Collect PROVE DecisionsStand
  BY <1>2 DEF Collect, Merge, DecisionsStand
<1>3. ASSUME NEW p \in DOMAIN pool, NEW status \in Decisions, TriageEntry(p, status) PROVE DecisionsStand
  BY <1>3 DEF TriageEntry, Mark, DecisionsStand
<1>4. ASSUME NEW p \in DOMAIN pool, NEW status \in Decisions, NEW force \in BOOLEAN,
             TriageCase(p.case, status, force)
      PROVE  DecisionsStand
  BY <1>4 DEF TriageCase, Mark, Reached, DecisionsStand
<1>5. \/ pool' = pool \/ Collect
      \/ \E p \in DOMAIN pool, status \in Decisions :
           \/ TriageEntry(p, status)
           \/ \E force \in BOOLEAN : TriageCase(p.case, status, force)
  BY DEF AuditsNext, LogReply, Converse, RunCase, Elsewhere, Move, Save, NewRun, RunScans, auditVars, allVars
<1> QED BY <1>1, <1>2, <1>3, <1>4, <1>5

\* After collecting with a report every case that did not pass is in the pool of
\* bad cases, and what a person decided about an entry no collecting undoes
\* (collect_report, upsert_entries).
THEOREM PoolStaysTrue == AuditsSpec => PoolIsTrue
<1>1. AuditsIInv => Filed
  BY DEF AuditsIInv
<1> QED BY <1>1, AuditsInvariance, PoolSteps, PTL DEF AuditsSpec, PoolIsTrue
-----------------------------------------------------------------------------
(***************************************************************************)
(* Prices and replies in a run                                             *)
(***************************************************************************)

\* What is so of the prices and of the reply that is said of them.
Talk == PricesIInv /\ TalkOfTheBasket

\* The basket is the same while the request and the plan are.
LEMMA SameBasket ==
  ASSUME UNCHANGED <<request, groups, best>>
  PROVE  /\ Basket' = Basket /\ Served' = Served
         /\ Totals(Basket)' = Totals(Basket) /\ Explanations(Basket[1])' = Explanations(Basket[1])
<1>1. request' = request /\ groups' = groups /\ best' = best
  OBVIOUS
<1>2. Basket' = Basket
  BY <1>1 DEF Basket
<1>3. Totals(Basket)' = Totals(Basket)
  BY <1>1, <1>2 DEF Totals, SumOfCards, CardPrice
<1>4. Explanations(Basket[1])' = Explanations(Basket[1])
  BY <1>1, <1>2 DEF Explanations
<1> QED BY <1>1, <1>2, <1>3, <1>4 DEF Served

\* Every step of the audits.
LEMMA TalkStep == ASSUME Talk, [AuditsNext]_allVars PROVE Talk'
<1>1. CASE PricingSteps
  <2>1. PricesIInv'
    BY <1>1, PricesStep DEF Talk, PricingSteps
  <2>2. stage' # "replied"
    BY <1>1 DEF PricingSteps, PricingNext, Reject, QuoteTool, Optimize, Consider, Report
  <2> QED BY <2>1, <2>2 DEF Talk, TalkOfTheBasket
<1>2. CASE Say
  <2>1. stage = "quoted" /\ stage' = "replied" /\ UNCHANGED <<request, groups, best>> /\ Len(Basket) <= 2
    BY <1>2 DEF Say
  <2>2. Served /\ groups \in Seq(GroupSet) /\ groups # <<>> /\ best \in [DOMAIN groups -> Products]
    BY <2>1 DEF Talk, PricesIInv
  <2>3. PricesIInv'
    BY <2>1 DEF PricesIInv, BasketIsRight, PlanIsBest, GapsAreReal
  <2>4. \E value \in Totals(Basket), words \in SUBSET {"combined", "separate"}, equation \in Explanations(Basket[1]) :
          spoken' = [amounts |-> <<[value |-> value, words |-> words]>>, equations |-> <<equation>>,
                     fields |-> {}, lines |-> {}]
    BY <1>2 DEF Say
  <2>5. Basket' = Basket /\ Served'
        /\ Totals(Basket)' = Totals(Basket) /\ Explanations(Basket[1])' = Explanations(Basket[1])
    BY <2>1, <2>2, SameBasket
  <2> QED BY <2>1, <2>2, <2>3, <2>4, <2>5 DEF Talk, TalkOfTheBasket
<1>3. CASE LogReply
  <2>1. stage' = "audited"
    BY <1>3 DEF LogReply
  <2> QED BY <2>1 DEF Talk, TalkOfTheBasket, PricesIInv, BasketIsRight, PlanIsBest, GapsAreReal
<1>4. CASE UNCHANGED replyVars
  <2>1. UNCHANGED pricingVars /\ UNCHANGED <<request, groups, best>> /\ stage' = stage /\ spoken' = spoken
    BY <1>4 DEF replyVars, pricingVars
  <2>2. PricesIInv'
    BY <2>1, PricesStep DEF Talk
  <2>3. Basket' = Basket /\ Served' = Served
        /\ Totals(Basket)' = Totals(Basket) /\ Explanations(Basket[1])' = Explanations(Basket[1])
    BY <2>1, SameBasket
  <2> QED BY <2>1, <2>2, <2>3 DEF Talk, TalkOfTheBasket
<1>5. PricingSteps \/ Say \/ LogReply \/ UNCHANGED replyVars
  BY DEF AuditsNext, RunCase, Elsewhere, Move, Save, NewRun, RunScans, Collect, TriageEntry, TriageCase, Mark, allVars
<1> QED BY <1>1, <1>2, <1>3, <1>4, <1>5

\* In every run the prices are right, and so is what the checks say of a reply
\* about them: the price of the basket, together or apart, is sourced, a sum of
\* two card prices called the price together is told to be that sum, and a true
\* explanation of the duty is not called wrong (audit_arithmetic, classify,
\* is_basket_misadd).
THEOREM RepliesHold == AuditsSpec => [](PricesAreRight /\ FiguresAreJudged)
<1>1. AuditsInit => Talk
  BY PricesStart DEF AuditsInit, ReplyInit, PricingInit, Talk, TalkOfTheBasket
<1>2. Talk /\ [AuditsNext]_allVars => Talk'
  BY TalkStep
<1>3. Talk => PricesAreRight /\ FiguresAreJudged
  BY QuoteIsRight, TalkIsJudged DEF Talk, PricesAreRight, PricesIInv
<1> QED BY <1>1, <1>2, <1>3, PTL DEF AuditsSpec

-----------------------------------------------------------------------------
(***************************************************************************)
(* The turn and its record                                                 *)
(*                                                                         *)
(* Besides its type, the inductive invariant says three things of every    *)
(* state.                                                                  *)
(*   Heard: a turn that has heard nobody else holds as many events as it   *)
(*     made calls.                                                         *)
(*   Sourced: what an agent knows is a source of its process's checks, or  *)
(*     a gap, or is still in a turn that will bring it to them.            *)
(*   Logged: whatever is a source of some process's checks is one for the  *)
(*     audits too, in the log or in a closed turn about to be written.     *)
(***************************************************************************)
USE TurnRecordAssumption

Words == Amounts \cup Contacts \cup {None}
Known == [amount : Seq(Facts), contact : Seq(Facts), insight : BOOLEAN]

TypeOK ==
  /\ pc \in [Turns -> {"idle", "open", "answered", "closed", "done"}]
  /\ proc \in [Turns -> Processes \cup {None}]
  /\ \A t \in Turns : pc[t] \in {"open", "answered", "closed"} => proc[t] \in Processes
  /\ asked \in [Turns -> Words] /\ said \in [Turns -> Facts \cup {None}]
  /\ replayed \subseteq Turns /\ flagged \subseteq Turns /\ joined \subseteq Turns
  /\ trace \in [Turns -> Seq(Facts \cup {None})]
  /\ context \in [Processes -> AgentStates \cup {None}] /\ saved \in AgentStates
  /\ \A t \in Turns : Listening(t) => context[proc[t]] # None
  /\ sources \in [Processes -> Known]
  /\ log \in [sources : SUBSET Facts, replies : SUBSET Facts]
  /\ usage \in [Turns -> Nat] /\ calls \in [Turns -> Nat]
  /\ gaps \in [Processes -> SUBSET Facts]
  /\ incomplete \in BOOLEAN

-----------------------------------------------------------------------------
(***************************************************************************)
(* The facts in a sequence                                                 *)
(***************************************************************************)

\* The indices up to each index count it: no two the same, so all numbers occur.
LEMMA Ranks ==
  ASSUME NEW n \in Nat, NEW at \in SUBSET (1..n)
  PROVE  /\ Cardinality(at) \in Nat
         /\ \A i \in at : Cardinality({j \in at : j <= i}) \in 1..Cardinality(at)
         /\ \A i, k \in at :
              Cardinality({j \in at : j <= i}) = Cardinality({j \in at : j <= k}) => i = k
         /\ \A k \in 1..Cardinality(at) :
              \E i \in at : Cardinality({j \in at : j <= i}) = k
<1> DEFINE upto(i) == {j \in at : j <= i}
           m == Cardinality(at)
           rank == [i \in at |-> Cardinality(upto(i))]
<1>1. IsFiniteSet(at) /\ m \in Nat
  <2>1. IsFiniteSet(1..n)
    BY FS_Interval
  <2>2. IsFiniteSet(at)
    BY <2>1, FS_Subset
  <2>3. QED
    BY <2>2, FS_CardinalityType
<1>2. \A i \in at : IsFiniteSet(upto(i)) /\ Cardinality(upto(i)) \in 1..m
  <2> TAKE i \in at
  <2>1. upto(i) \in SUBSET at /\ upto(i) # {}
    OBVIOUS
  <2>2. IsFiniteSet(upto(i)) /\ Cardinality(upto(i)) <= m
    BY <1>1, <2>1, FS_Subset
  <2>3. Cardinality(upto(i)) \in Nat /\ Cardinality(upto(i)) # 0
    BY <2>1, <2>2, FS_CardinalityType, FS_EmptySet
  <2>4. QED
    BY <1>1, <2>2, <2>3
<1>3. \A i, j \in at : i < j => Cardinality(upto(i)) # Cardinality(upto(j))
  <2> SUFFICES ASSUME NEW i \in at, NEW j \in at, i < j,
                      Cardinality(upto(i)) = Cardinality(upto(j))
               PROVE  FALSE
    OBVIOUS
  <2>1. upto(i) \in SUBSET upto(j)
    <3>1. \A k \in at : k \in Int
      OBVIOUS
    <3>2. \A k \in at : k <= i => k <= j
      BY <3>1
    <3>3. QED
      BY <3>2
  <2>2. upto(i) = upto(j)
    BY <1>2, <2>1, FS_Subset
  <2>3. j \in upto(j) /\ j \notin upto(i)
    OBVIOUS
  <2>4. QED
    BY <2>2, <2>3
<1>4. rank \in Injection(at, 1..m)
  <2>1. rank \in [at -> 1..m]
    BY <1>2
  <2>2. \A i, j \in at : rank[i] = rank[j] => i = j
    BY <1>3
  <2>3. QED
    BY <2>1, <2>2, Fun_IsInj
<1>5. Cardinality(1..m) = m /\ IsFiniteSet(1..m)
  BY <1>1, FS_Interval
<1>6. rank \in Surjection(at, 1..m)
  BY <1>4, <1>5, FS_Injection
<1>7. \A k \in 1..m : \E i \in at : rank[i] = k
  <2> HIDE DEF rank, m
  <2>1. QED
    BY <1>6, Fun_SurjectionProperties
<1>8. QED
  BY <1>1, <1>2, <1>3, <1>7

LEMMA OfFacts ==
  ASSUME NEW kind \in SUBSET Facts, NEW seq \in Seq(Facts \cup {None})
  PROVE  Of(kind, seq) \in Seq(kind) /\ Carried(Of(kind, seq)) = Carried(seq) \cap kind
<1> DEFINE at == {i \in DOMAIN seq : seq[i] \in kind}
           m == Cardinality(at)
           kth(k) == CHOOSE i \in at : Cardinality({j \in at : j <= i}) = k
<1>1. at \in SUBSET (1..Len(seq)) /\ Len(seq) \in Nat
  OBVIOUS
<1>2. /\ m \in Nat
      /\ \A i \in at : Cardinality({j \in at : j <= i}) \in 1..m
      /\ \A i, k \in at :
           Cardinality({j \in at : j <= i}) = Cardinality({j \in at : j <= k}) => i = k
      /\ \A k \in 1..m : \E i \in at : Cardinality({j \in at : j <= i}) = k
  <2> HIDE DEF at
  <2>1. QED
    BY <1>1, Ranks, ZenonT(30)
<1>3. \A k \in 1..m : kth(k) \in at /\ Cardinality({j \in at : j <= kth(k)}) = k
  <2> TAKE k \in 1..m
  <2>1. \E i \in at : Cardinality({j \in at : j <= i}) = k
    BY <1>2
  <2>2. QED
    BY <2>1, Zenon
<1>4. \A i \in at : \E k \in 1..m : kth(k) = i
  <2> TAKE i \in at
  <2>1. Cardinality({j \in at : j <= i}) \in 1..m
    BY <1>2
  <2>2. kth(Cardinality({j \in at : j <= i})) = i
    BY <1>2, <1>3, <2>1
  <2>3. QED
    BY <2>1, <2>2
<1> DEFINE of == [k \in 1..m |-> seq[kth(k)]]
<1>5. Of(kind, seq) = of
  BY DEF Of
<1>6. of \in Seq(kind) /\ DOMAIN of = 1..m
  <2>1. \A k \in 1..m : seq[kth(k)] \in kind
    BY <1>3
  <2> HIDE DEF kth, m, at
  <2>2. QED
    BY <1>2, <2>1
<1>7. \A f : (\E k \in 1..m : of[k] = f) <=> f \in kind /\ \E i \in DOMAIN seq : seq[i] = f
  BY <1>3, <1>4, ZenonT(30)
<1>8. Carried(of) = Carried(seq) \cap kind
  <2> HIDE DEF of, kth, m, at
  <2>1. QED
    BY <1>6, <1>7 DEF Carried
<1>9. QED
  BY <1>5, <1>6, <1>8

LEMMA CarriedAppend ==
  ASSUME NEW S, NEW seq \in Seq(S), NEW f \in Facts \cup {None}
  PROVE  Carried(Append(seq, f)) = Carried(seq) \cup Fact(f)
<1>1. /\ DOMAIN Append(seq, f) = 1..(Len(seq) + 1) /\ DOMAIN seq = 1..Len(seq)
      /\ Len(seq) \in Nat
      /\ \A i \in 1..Len(seq) : Append(seq, f)[i] = seq[i]
      /\ Append(seq, f)[Len(seq) + 1] = f
  OBVIOUS
<1>2. \A g : (\E i \in DOMAIN Append(seq, f) : Append(seq, f)[i] = g)
               <=> g = f \/ \E i \in DOMAIN seq : seq[i] = g
  <2>1. \A i \in 1..(Len(seq) + 1) : i \in 1..Len(seq) \/ i = Len(seq) + 1
    BY <1>1
  <2>2. 1..Len(seq) \subseteq 1..(Len(seq) + 1) /\ Len(seq) + 1 \in 1..(Len(seq) + 1)
    BY <1>1
  <2>3. QED
    BY <1>1, <2>1, <2>2
<1>3. QED
  BY <1>2 DEF Carried, Fact

LEMMA CarriedConcat ==
  ASSUME NEW S, NEW a \in Seq(S), NEW b \in Seq(S)
  PROVE  Carried(a \o b) = Carried(a) \cup Carried(b)
<1>1. /\ DOMAIN a = 1..Len(a) /\ DOMAIN b = 1..Len(b) /\ Len(a) \in Nat /\ Len(b) \in Nat
      /\ DOMAIN (a \o b) = 1..(Len(a) + Len(b))
      /\ \A i \in 1..(Len(a) + Len(b)) :
           (a \o b)[i] = IF i <= Len(a) THEN a[i] ELSE b[i - Len(a)]
  OBVIOUS
<1>2. ASSUME NEW i \in DOMAIN (a \o b)
      PROVE  (\E j \in DOMAIN a : (a \o b)[i] = a[j]) \/ (\E j \in DOMAIN b : (a \o b)[i] = b[j])
  <2>1. CASE i <= Len(a)
    BY <1>1, <2>1
  <2>2. CASE i > Len(a)
    BY <1>1, <2>2
  <2>3. QED
    BY <1>1, <2>1, <2>2
<1>3. ASSUME NEW j \in DOMAIN a
      PROVE  \E i \in DOMAIN (a \o b) : (a \o b)[i] = a[j]
  BY <1>1
<1>4. ASSUME NEW j \in DOMAIN b
      PROVE  \E i \in DOMAIN (a \o b) : (a \o b)[i] = b[j]
  <2>1. Len(a) + j \in DOMAIN (a \o b) /\ (a \o b)[Len(a) + j] = b[j]
    BY <1>1
  <2>2. QED
    BY <2>1
<1>5. QED
  BY <1>2, <1>3, <1>4 DEF Carried

LEMMA KeptFacts ==
  ASSUME NEW seq \in Seq(Facts)
  PROVE  /\ Kept(seq) \in Seq(Facts) /\ Carried(Kept(seq)) \subseteq Carried(seq)
         /\ Len(seq) <= Retained => Kept(seq) = seq
<1>1. CASE Len(seq) > Retained
  <2> DEFINE n == Len(seq) - Retained + 1
             tail == SubSeq(seq, n, Len(seq))
  <2>1. n \in 1..Len(seq) /\ Len(seq) \in Nat /\ DOMAIN seq = 1..Len(seq)
    BY <1>1
  <2>2. /\ tail \in Seq(Facts) /\ Len(tail) = Len(seq) - n + 1
        /\ \A i \in 1..(Len(seq) - n + 1) : tail[i] = seq[n + i - 1]
    <3> HIDE DEF n
    <3>1. QED
      BY <2>1
  <2>3. \A i \in DOMAIN tail : n + i - 1 \in DOMAIN seq /\ tail[i] = seq[n + i - 1]
    <3> HIDE DEF n, tail
    <3>1. DOMAIN tail = 1..(Len(seq) - n + 1)
      BY <2>2
    <3>2. QED
      BY <2>1, <2>2, <3>1
  <2>4. Kept(seq) = tail
    BY <1>1 DEF Kept
  <2>5. Carried(tail) \subseteq Carried(seq)
    <3> HIDE DEF n, tail
    <3>1. QED
      BY <2>3 DEF Carried
  <2>6. ~(Len(seq) <= Retained)
    BY <1>1, <2>1
  <2>7. QED
    BY <2>2, <2>4, <2>5, <2>6
<1>2. CASE ~(Len(seq) > Retained)
  BY <1>2 DEF Kept
<1>3. QED
  BY <1>1, <1>2

-----------------------------------------------------------------------------
(***************************************************************************)
(* What a check gains and loses when a turn closes                         *)
(***************************************************************************)

\* What a turn brings to the checks of its process and to the log.
Stated(t) == Carried(trace[t]) \cup Fact(asked[t])

\* What the audits accept once the log holds the facts s as sources.
Audited(s) == s \cup (IF s \cap Insights # {} THEN Insights ELSE {})

LEMMA AuditedGrows ==
  ASSUME NEW r, NEW s, r \subseteq s
  PROVE  r \subseteq Audited(s) /\ Audited(r) \subseteq Audited(s)
BY DEF Audited

\* One kind of facts: nothing is gained but from the turn, nothing lost but by
\* an overflow.
LEMMA KindObserved ==
  ASSUME NEW kind \in SUBSET Facts, NEW old \in Seq(Facts),
         NEW new \in Seq(Facts \cup {None})
  PROVE  /\ Kept(old \o Of(kind, new)) \in Seq(Facts)
         /\ Carried(Kept(old \o Of(kind, new))) \subseteq Carried(old) \cup Carried(new)
         /\ \/ Len(old) + Len(Of(kind, new)) > Retained
            \/ Carried(old) \cup (Carried(new) \cap kind) \subseteq Carried(Kept(old \o Of(kind, new)))
         /\ Carried(old) \cup (Carried(new) \cap kind) \subseteq Carried(old \o Of(kind, new))
<1> DEFINE of == Of(kind, new)
<1>1. of \in Seq(Facts) /\ Carried(of) = Carried(new) \cap kind
  <2>1. of \in Seq(kind) /\ Carried(of) = Carried(new) \cap kind
    BY OfFacts
  <2> HIDE DEF of
  <2>2. QED
    BY <2>1
<1> HIDE DEF of
<1>2. old \o of \in Seq(Facts) /\ Len(old \o of) = Len(old) + Len(of)
  BY <1>1
<1>3. Carried(old \o of) = Carried(old) \cup Carried(of)
  BY <1>1, CarriedConcat
<1>4. /\ Kept(old \o of) \in Seq(Facts) /\ Carried(Kept(old \o of)) \subseteq Carried(old \o of)
      /\ Len(old) + Len(of) <= Retained => Kept(old \o of) = old \o of
  BY <1>2, KeptFacts
<1>5. Len(old) + Len(of) \in Nat
  BY <1>1
<1>6. Len(old) + Len(of) > Retained \/ Len(old) + Len(of) <= Retained
  BY <1>5
<1>7. QED
  BY <1>1, <1>3, <1>4, <1>6 DEF of

LEMMA CloseObserves ==
  ASSUME TypeOK, NEW t \in Turns, NEW p \in Processes, p = proc[t]
  PROVE  /\ Observed(t) \in Known
         /\ Covered(Observed(t)) \subseteq Covered(sources[p]) \cup Audited(Stated(t))
         /\ Covered(sources[p]) \cup Stated(t) \subseteq Covered(Observed(t)) \cup Overflow(t)
<1> DEFINE new == Append(trace[t], asked[t])
           old == sources[p]
           seen == Observed(t)
<1>1. /\ trace[t] \in Seq(Facts \cup {None}) /\ asked[t] \in Words
      /\ asked[t] \in Facts \cup {None}
      /\ old \in Known
  BY DEF TypeOK, Words, Facts
<1>2. new \in Seq(Facts \cup {None}) /\ Carried(new) = Stated(t)
  BY <1>1, CarriedAppend DEF Stated
<1>3. Amounts \subseteq Facts /\ Contacts \subseteq Facts /\ Insights \subseteq Facts
  BY DEF Facts
<1>4. /\ old.amount \in Seq(Facts) /\ old.contact \in Seq(Facts) /\ old.insight \in BOOLEAN
  BY <1>1 DEF Known
<1>5. seen = [amount |-> Kept(old.amount \o Of(Amounts, new)),
              contact |-> Kept(old.contact \o Of(Contacts, new)),
              insight |-> old.insight \/ Carried(trace[t]) \cap Insights # {}]
  BY DEF Observed
<1>6. Overflow(t) =
        (IF Len(old.amount) + Len(Of(Amounts, new)) > Retained
         THEN Carried(old.amount \o Of(Amounts, new)) ELSE {})
        \cup (IF Len(old.contact) + Len(Of(Contacts, new)) > Retained
              THEN Carried(old.contact \o Of(Contacts, new)) ELSE {})
  BY DEF Overflow
<1> HIDE DEF new, old, seen
<1>7. /\ seen.amount = Kept(old.amount \o Of(Amounts, new))
      /\ seen.contact = Kept(old.contact \o Of(Contacts, new))
      /\ seen.insight = (old.insight \/ Carried(trace[t]) \cap Insights # {})
  BY <1>5
<1>8. /\ seen.amount \in Seq(Facts)
      /\ Carried(seen.amount) \subseteq Carried(old.amount) \cup Stated(t)
      /\ Carried(old.amount) \cup (Stated(t) \cap Amounts) \subseteq Carried(seen.amount) \cup Overflow(t)
  <2> DEFINE now == Kept(old.amount \o Of(Amounts, new))
  <2>1. /\ now \in Seq(Facts)
        /\ Carried(now) \subseteq Carried(old.amount) \cup Carried(new)
        /\ \/ Len(old.amount) + Len(Of(Amounts, new)) > Retained
           \/ Carried(old.amount) \cup (Carried(new) \cap Amounts) \subseteq Carried(now)
        /\ Carried(old.amount) \cup (Carried(new) \cap Amounts) \subseteq Carried(old.amount \o Of(Amounts, new))
    BY <1>2, <1>3, <1>4, KindObserved
  <2>2. seen.amount = now
    BY <1>7
  <2> HIDE DEF now
  <2>3. QED
    BY <1>2, <1>6, <2>1, <2>2
<1>9. /\ seen.contact \in Seq(Facts)
      /\ Carried(seen.contact) \subseteq Carried(old.contact) \cup Stated(t)
      /\ Carried(old.contact) \cup (Stated(t) \cap Contacts)
           \subseteq Carried(seen.contact) \cup Overflow(t)
  <2> DEFINE now == Kept(old.contact \o Of(Contacts, new))
  <2>1. /\ now \in Seq(Facts)
        /\ Carried(now) \subseteq Carried(old.contact) \cup Carried(new)
        /\ \/ Len(old.contact) + Len(Of(Contacts, new)) > Retained
           \/ Carried(old.contact) \cup (Carried(new) \cap Contacts) \subseteq Carried(now)
        /\ Carried(old.contact) \cup (Carried(new) \cap Contacts) \subseteq Carried(old.contact \o Of(Contacts, new))
    BY <1>2, <1>3, <1>4, KindObserved
  <2>2. seen.contact = now
    BY <1>7
  <2> HIDE DEF now
  <2>3. QED
    BY <1>2, <1>6, <2>1, <2>2
<1>10. seen \in Known
  <2>1. seen.insight \in BOOLEAN
    BY <1>4, <1>7
  <2>2. QED
    BY <1>5, <1>7, <1>8, <1>9, <2>1 DEF Known
<1>11. Covered(seen) \subseteq Covered(old) \cup Audited(Stated(t))
  BY <1>7, <1>8, <1>9, Zenon DEF Covered, Audited, Stated
<1>12. Covered(old) \cup Stated(t) \subseteq Covered(seen) \cup Overflow(t)
  <2>1. Stated(t) \subseteq Amounts \cup Contacts \cup (Carried(trace[t]) \cap Insights)
    BY <1>1 DEF Stated, Carried, Fact, Words, Facts
  <2>2. Carried(trace[t]) \cap Insights \subseteq Covered(seen)
    BY <1>7 DEF Covered
  <2>3. QED
    BY <1>7, <1>8, <1>9, <2>1, <2>2 DEF Covered
<1>13. QED
  BY <1>10, <1>11, <1>12 DEF seen, old

-----------------------------------------------------------------------------
(***************************************************************************)
(* Types                                                                   *)
(***************************************************************************)
LEMMA InitTypes == Init => TypeOK
<1> SUFFICES ASSUME Init PROVE TypeOK
  OBVIOUS
<1>1. <<>> \in Seq(Facts \cup {None}) /\ <<>> \in Seq(Facts)
  OBVIOUS
<1>2. NoSources \in Known
  BY <1>1 DEF NoSources, Known
<1>3. Blank \in AgentStates
  BY DEF Blank, AgentStates
<1>4. None \in Words
  BY DEF Words
<1>5. QED
  BY <1>1, <1>2, <1>3, <1>4 DEF Init, TypeOK, Listening

\* Beginning: the agent of the process, or the one its snapshot gives, with
\* the words or the hint in its dialogue.
Agent(p) == IF context[p] = None THEN saved ELSE context[p]

LEMMA BeginIs ==
  ASSUME TypeOK, NEW t \in Turns, NEW p \in Processes, NEW f \in Words,
         NEW hinted \in BOOLEAN, NEW hit \in BOOLEAN, Begin(t, p, f, hinted, hit)
  PROVE  /\ Agent(p) \in AgentStates
         /\ context' \in [Processes -> AgentStates \cup {None}] /\ context'[p] \in AgentStates
         /\ \A q \in Processes \ {p} : context'[q] = context[q] /\ gaps'[q] = gaps[q]
         /\ gaps' \in [Processes -> SUBSET Facts]
         /\ asked' \in [Turns -> Words] /\ asked'[t] = (IF hinted THEN None ELSE f)
         /\ context'[p].knows \subseteq Agent(p).knows \cup (IF hit THEN {} ELSE Fact(f))
         /\ gaps[p] \cup (IF context[p] = None THEN saved.knows ELSE {})
              \cup (IF hinted THEN Fact(f) ELSE {}) \subseteq gaps'[p]
<1>1. Agent(p) \in AgentStates
  BY DEF Agent, TypeOK
<1>2. Fact(f) \subseteq Facts
  BY DEF Fact, Words, Facts
<1> DEFINE agent == IF hit THEN Agent(p)
                    ELSE [talked |-> TRUE, knows |-> Agent(p).knows \cup Fact(f)]
           gap == gaps[p] \cup (IF context[p] = None THEN saved.knows ELSE {})
                    \cup (IF hinted THEN Fact(f) ELSE {})
<1>3. agent \in AgentStates /\ agent.knows \subseteq Agent(p).knows \cup (IF hit THEN {} ELSE Fact(f))
  BY <1>1, <1>2 DEF AgentStates
<1>4. gap \in SUBSET Facts
  BY <1>2 DEF TypeOK, AgentStates
<1>5. context' = [context EXCEPT ![p] = agent] /\ gaps' = [gaps EXCEPT ![p] = gap]
  BY DEF Begin, Agent
<1>6. asked' = [asked EXCEPT ![t] = IF hinted THEN None ELSE f]
  BY DEF Begin
<1>7. (IF hinted THEN None ELSE f) \in Words
  BY DEF Words
<1> HIDE DEF agent, gap
<1>8. /\ context \in [Processes -> AgentStates \cup {None}] /\ gaps \in [Processes -> SUBSET Facts]
      /\ asked \in [Turns -> Words]
  BY DEF TypeOK
<1>9. context' \in [Processes -> AgentStates \cup {None}] /\ context'[p] = agent
  BY <1>3, <1>5, <1>8
<1>10. gaps' \in [Processes -> SUBSET Facts] /\ gaps'[p] = gap
  BY <1>4, <1>5, <1>8
<1>11. \A q \in Processes \ {p} : context'[q] = context[q] /\ gaps'[q] = gaps[q]
  BY <1>5, <1>8
<1>12. asked' \in [Turns -> Words] /\ asked'[t] = (IF hinted THEN None ELSE f)
  BY <1>6, <1>7, <1>8
<1>13. gap = gaps[p] \cup (IF context[p] = None THEN saved.knows ELSE {})
               \cup (IF hinted THEN Fact(f) ELSE {})
  BY DEF gap
<1>14. QED
  BY <1>1, <1>3, <1>9, <1>10, <1>11, <1>12, <1>13

\* One model call: its event goes to every turn that listens in the process.
LEMMA CallIs ==
  ASSUME TypeOK, NEW t \in Turns, NEW f \in Facts \cup {None}, NEW shown \in BOOLEAN,
         NEW p \in Processes, p = proc[t], Call(t, f, shown)
  PROVE  /\ \A u \in Turns : trace'[u] = IF u \in Hearers(t)
                                         THEN Append(trace[u], IF shown THEN f ELSE None)
                                         ELSE trace[u]
         /\ trace' \in [Turns -> Seq(Facts \cup {None})]
         /\ context' \in [Processes -> AgentStates \cup {None}]
         /\ context'[p] \in AgentStates /\ context'[p].knows = context[p].knows \cup Fact(f)
         /\ gaps' \in [Processes -> SUBSET Facts]
         /\ gaps'[p] = gaps[p] \cup (IF shown THEN {} ELSE Fact(f))
         /\ \A q \in Processes \ {p} : context'[q] = context[q] /\ gaps'[q] = gaps[q]
<1>1. Fact(f) \subseteq Facts
  BY DEF Fact
<1>2. context[p] \in AgentStates
  BY DEF Call, TypeOK, Listening
<1> DEFINE agent == [context[p] EXCEPT !.knows = @ \cup Fact(f)]
           gap == gaps[p] \cup (IF shown THEN {} ELSE Fact(f))
           event == IF shown THEN f ELSE None
<1>3. agent \in AgentStates /\ agent.knows = context[p].knows \cup Fact(f)
  BY <1>1, <1>2 DEF AgentStates
<1>4. gap \in SUBSET Facts
  BY <1>1 DEF TypeOK
<1>5. context' = [context EXCEPT ![p] = agent]
  BY DEF Call
<1>6. gaps' = [gaps EXCEPT ![p] = gap]
  BY DEF Call
<1>7. trace' = [u \in Turns |-> IF u \in Hearers(t) THEN Append(trace[u], event) ELSE trace[u]]
  BY DEF Call
<1>8. event \in Facts \cup {None}
  OBVIOUS
<1>9. /\ context \in [Processes -> AgentStates \cup {None}] /\ gaps \in [Processes -> SUBSET Facts]
      /\ trace \in [Turns -> Seq(Facts \cup {None})]
  BY DEF TypeOK
<1>10. trace' \in [Turns -> Seq(Facts \cup {None})]
  <2> HIDE DEF event
  <2>1. \A u \in Turns : Append(trace[u], event) \in Seq(Facts \cup {None})
    BY <1>8, <1>9
  <2>2. QED
    BY <1>7, <1>9, <2>1
<1>11. \A u \in Turns : trace'[u] = IF u \in Hearers(t) THEN Append(trace[u], event) ELSE trace[u]
  BY <1>7
<1> HIDE DEF agent, gap
<1>12. /\ context' \in [Processes -> AgentStates \cup {None}] /\ context'[p] = agent
       /\ gaps' \in [Processes -> SUBSET Facts] /\ gaps'[p] = gap
  BY <1>3, <1>4, <1>5, <1>6, <1>9
<1>13. \A q \in Processes \ {p} : context'[q] = context[q] /\ gaps'[q] = gaps[q]
  BY <1>5, <1>6, <1>9
<1>14. gap = gaps[p] \cup (IF shown THEN {} ELSE Fact(f))
  BY DEF gap
<1>15. QED
  BY <1>3, <1>10, <1>11, <1>12, <1>13, <1>14

\* Closing, of a turn whose reply was not a cached one.
Lack(t) == (gaps[proc[t]] \cup Overflow(t)) \ Covered(Observed(t))
Alarm(t) == said[t] # None /\ said[t] \notin Covered(Observed(t))
Open(t) == UNION {Carried(trace[u]) \cup Fact(asked[u]) : u \in Together(t)}

LEMMA CloseIs ==
  ASSUME TypeOK, NEW t \in Turns, NEW p \in Processes, p = proc[t], Close(t), t \notin replayed
  PROVE  /\ sources' = [sources EXCEPT ![p] = Observed(t)] /\ sources' \in [Processes -> Known]
         /\ gaps' = [gaps EXCEPT ![p] = Lack(t)] /\ gaps' \in [Processes -> SUBSET Facts]
         /\ flagged' = IF Alarm(t) THEN flagged \cup {t} ELSE flagged
         /\ innocent' = IF Alarm(t) /\ said[t] \in context[p].knows \ (Lack(t) \cup Open(t))
                        THEN innocent \cup {t} ELSE innocent
<1>1. Observed(t) \in Known
  BY CloseObserves
<1>2. Lack(t) \in SUBSET Facts
  <2>1. \A seq : Carried(seq) \subseteq Facts
    BY DEF Carried
  <2>2. Overflow(t) \subseteq Facts
    BY <2>1 DEF Overflow
  <2>3. QED
    BY <2>2 DEF Lack, TypeOK
<1>3. /\ sources' = [sources EXCEPT ![p] = Observed(t)]
      /\ gaps' = [gaps EXCEPT ![p] = Lack(t)]
      /\ flagged' = IF Alarm(t) THEN flagged \cup {t} ELSE flagged
      /\ innocent' = IF Alarm(t) /\ said[t] \in context[p].knows \ (Lack(t) \cup Open(t))
                     THEN innocent \cup {t} ELSE innocent
  BY DEF Close, Lack, Alarm, Open
<1>4. /\ sources \in [Processes -> Known] /\ gaps \in [Processes -> SUBSET Facts]
  BY DEF TypeOK
<1>5. QED
  BY <1>1, <1>2, <1>3, <1>4

\* What is cleared of a turn, and what is not.
LEMMA ClearIs ==
  ASSUME TypeOK, NEW ts \in SUBSET Turns, Clear(ts)
  PROVE  /\ proc' \in [Turns -> Processes \cup {None}]
         /\ asked' \in [Turns -> Words] /\ said' \in [Turns -> Facts \cup {None}]
         /\ trace' \in [Turns -> Seq(Facts \cup {None})]
         /\ usage' \in [Turns -> Nat] /\ calls' \in [Turns -> Nat]
         /\ replayed' = replayed \ ts /\ flagged' = flagged \ ts /\ joined' = joined \ ts
         /\ \A u \in Turns \ ts :
              /\ proc'[u] = proc[u] /\ asked'[u] = asked[u] /\ said'[u] = said[u]
              /\ trace'[u] = trace[u] /\ usage'[u] = usage[u] /\ calls'[u] = calls[u]
<1>1. <<>> \in Seq(Facts \cup {None}) /\ None \in Words
  BY DEF Words
<1>2. QED
  BY <1>1 DEF Clear, TypeOK

LEMMA StepTypes == TypeOK /\ [Next]_vars => TypeOK'
<1> SUFFICES ASSUME TypeOK, [Next]_vars PROVE TypeOK'
  OBVIOUS
<1> USE DEF turnVars, checkVars, histVars, Goto
<1>1. ASSUME NEW t \in Turns, NEW p \in Processes, NEW f \in Words,
             NEW hinted \in BOOLEAN, NEW hit \in BOOLEAN, Begin(t, p, f, hinted, hit)
      PROVE  TypeOK'
  <2>1. /\ context' \in [Processes -> AgentStates \cup {None}] /\ context'[p] \in AgentStates
        /\ \A q \in Processes \ {p} : context'[q] = context[q]
        /\ gaps' \in [Processes -> SUBSET Facts] /\ asked' \in [Turns -> Words]
    BY <1>1, BeginIs
  <2>2. /\ pc' = [pc EXCEPT ![t] = "open"] /\ proc' = [proc EXCEPT ![t] = p]
        /\ replayed' \subseteq Turns /\ joined' \subseteq Turns
        /\ UNCHANGED <<said, trace, sources, flagged, usage, saved, log, calls, incomplete>>
    BY <1>1 DEF Begin, TypeOK
  <2>3. /\ pc' \in [Turns -> {"idle", "open", "answered", "closed", "done"}]
        /\ proc' \in [Turns -> Processes \cup {None}]
        /\ \A u \in Turns : pc'[u] \in {"open", "answered", "closed"} => proc'[u] \in Processes
    BY <2>2 DEF TypeOK
  <2>4. \A u \in Turns : Listening(u)' => context'[proc'[u]] # None
    BY <2>1, <2>2 DEF TypeOK, Listening
  <2>5. QED
    BY <2>1, <2>2, <2>3, <2>4 DEF TypeOK
<1>2. ASSUME NEW t \in Turns, NEW f \in Facts \cup {None}, NEW shown \in BOOLEAN, Call(t, f, shown)
      PROVE  TypeOK'
  <2>1. PICK p \in Processes : p = proc[t]
    BY <1>2 DEF Call, TypeOK
  <2>2. /\ context' \in [Processes -> AgentStates \cup {None}] /\ context'[p] \in AgentStates
        /\ \A q \in Processes \ {p} : context'[q] = context[q]
        /\ gaps' \in [Processes -> SUBSET Facts]
        /\ trace' \in [Turns -> Seq(Facts \cup {None})]
    BY <1>2, <2>1, CallIs
  <2>3. /\ calls' = [calls EXCEPT ![t] = calls[t] + 1]
        /\ UNCHANGED <<pc, proc, asked, said, replayed, sources, flagged, usage, saved, log, joined,
                       incomplete>>
    BY <1>2 DEF Call
  <2>4. calls' \in [Turns -> Nat]
    BY <2>3 DEF TypeOK
  <2>5. \A u \in Turns : Listening(u)' => context'[proc'[u]] # None
    BY <2>2, <2>3 DEF TypeOK, Listening
  <2>6. QED
    BY <2>2, <2>3, <2>4, <2>5 DEF TypeOK
<1>3. ASSUME NEW t \in Turns, NEW f \in Facts \cup {None}, Answer(t, f)
      PROVE  TypeOK'
  <2>1. /\ pc[t] = "open" /\ pc' = [pc EXCEPT ![t] = "answered"]
        /\ said' = [said EXCEPT ![t] = f]
        /\ UNCHANGED <<proc, asked, replayed, checkVars, context, saved, log, histVars>>
    BY <1>3 DEF Answer
  <2>2. /\ pc' \in [Turns -> {"idle", "open", "answered", "closed", "done"}]
        /\ \A u \in Turns : pc'[u] \in {"open", "answered", "closed"} => proc'[u] \in Processes
        /\ said' \in [Turns -> Facts \cup {None}]
    BY <2>1 DEF TypeOK
  <2>3. \A u \in Turns : Listening(u)' => context'[proc'[u]] # None
    BY <2>1 DEF TypeOK, Listening
  <2>4. QED
    BY <2>1, <2>2, <2>3 DEF TypeOK
<1>4. ASSUME NEW t \in Turns, Close(t)
      PROVE  TypeOK'
  <2>1. /\ pc[t] = "answered" /\ pc' = [pc EXCEPT ![t] = "closed"]
        /\ saved' = context[proc[t]] /\ usage' = [usage EXCEPT ![t] = Len(trace[t])]
        /\ UNCHANGED <<proc, asked, said, replayed, trace, context, log, calls, joined, incomplete>>
    BY <1>4 DEF Close
  <2>2. /\ pc' \in [Turns -> {"idle", "open", "answered", "closed", "done"}]
        /\ \A u \in Turns : pc'[u] \in {"open", "answered", "closed"} => proc'[u] \in Processes
    BY <2>1 DEF TypeOK
  <2>3. \A u \in Turns : Listening(u)' => context'[proc'[u]] # None
    BY <2>1 DEF TypeOK, Listening
  <2>4. saved' \in AgentStates
    BY <2>1 DEF TypeOK, Listening
  <2>5. Len(trace[t]) \in Nat
    BY DEF TypeOK
  <2>6. usage' \in [Turns -> Nat]
    BY <2>1, <2>5 DEF TypeOK
  <2>7. /\ sources' \in [Processes -> Known] /\ gaps' \in [Processes -> SUBSET Facts]
        /\ flagged' \subseteq Turns
    <3>1. CASE t \in replayed
      BY <1>4, <3>1 DEF Close, TypeOK
    <3>2. CASE t \notin replayed
      <4>1. PICK p \in Processes : p = proc[t]
        BY <2>1 DEF TypeOK
      <4>2. flagged \subseteq Turns
        BY DEF TypeOK
      <4>3. QED
        BY <1>4, <3>2, <4>1, <4>2, CloseIs
    <3>3. QED
      BY <3>1, <3>2
  <2>8. QED
    BY <2>1, <2>2, <2>3, <2>4, <2>6, <2>7 DEF TypeOK
<1>5. ASSUME NEW t \in Turns, NEW n \in 0..3, Record(t, n)
      PROVE  TypeOK'
  <2>1. /\ pc[t] = "closed" /\ pc' = [pc EXCEPT ![t] = "done"]
        /\ log' = Written(t, n) /\ incomplete' \in BOOLEAN
        /\ UNCHANGED <<sources, context, saved, gaps>>
    BY <1>5 DEF Record, TypeOK
  <2>2. Clear({t}) /\ {t} \in SUBSET Turns
    BY <1>5 DEF Record
  <2>3. /\ proc' \in [Turns -> Processes \cup {None}]
        /\ asked' \in [Turns -> Words] /\ said' \in [Turns -> Facts \cup {None}]
        /\ trace' \in [Turns -> Seq(Facts \cup {None})]
        /\ usage' \in [Turns -> Nat] /\ calls' \in [Turns -> Nat]
        /\ replayed' = replayed \ {t} /\ flagged' = flagged \ {t} /\ joined' = joined \ {t}
        /\ \A u \in Turns \ {t} : proc'[u] = proc[u]
    BY <2>2, ClearIs
  <2>4. /\ pc' \in [Turns -> {"idle", "open", "answered", "closed", "done"}]
        /\ \A u \in Turns : pc'[u] \in {"open", "answered", "closed"} => proc'[u] \in Processes
    BY <2>1, <2>3 DEF TypeOK
  <2>5. \A u \in Turns : Listening(u)' => context'[proc'[u]] # None
    BY <2>1, <2>3 DEF TypeOK, Listening
  <2>6. log' \in [sources : SUBSET Facts, replies : SUBSET Facts]
    <3>1. Fact(asked[t]) \subseteq Facts /\ Fact(said[t]) \subseteq Facts
          /\ Carried(trace[t]) \subseteq Facts
      BY DEF Fact, Carried, TypeOK, Words, Facts
    <3>2. QED
      BY <2>1, <3>1 DEF Written, TypeOK
  <2>7. QED
    BY <2>1, <2>3, <2>4, <2>5, <2>6 DEF TypeOK
<1>6. ASSUME NEW p \in Processes, Forget(p)
      PROVE  TypeOK'
  <2>1. /\ context' = [context EXCEPT ![p] = None] /\ sources' = [sources EXCEPT ![p] = NoSources]
        /\ gaps' = [gaps EXCEPT ![p] = {}]
        /\ \A t \in Turns : proc[t] = p => ~Listening(t)
        /\ UNCHANGED <<turnVars, trace, flagged, usage, saved, log, calls, joined, incomplete>>
    BY <1>6 DEF Forget
  <2>2. NoSources \in Known
    <3>1. <<>> \in Seq(Facts)
      OBVIOUS
    <3>2. QED
      BY <3>1 DEF NoSources, Known
  <2>3. /\ context' \in [Processes -> AgentStates \cup {None}] /\ sources' \in [Processes -> Known]
        /\ gaps' \in [Processes -> SUBSET Facts]
    BY <2>1, <2>2 DEF TypeOK
  <2>4. \A u \in Turns : Listening(u)' => context'[proc'[u]] # None
    BY <2>1 DEF TypeOK, Listening
  <2>5. QED
    BY <2>1, <2>3, <2>4 DEF TypeOK
<1>7. ASSUME NEW p \in Processes, Restart(p)
      PROVE  TypeOK'
  <2> DEFINE lost == {t \in Turns : proc[t] = p /\ pc[t] \notin {"idle", "done"}}
  <2>1. /\ context' = [context EXCEPT ![p] = None] /\ sources' = [sources EXCEPT ![p] = NoSources]
        /\ gaps' = [gaps EXCEPT ![p] = {}]
        /\ pc' = [t \in Turns |-> IF t \in lost THEN "done" ELSE pc[t]]
        /\ Clear(lost) /\ lost \in SUBSET Turns /\ incomplete' \in BOOLEAN
        /\ UNCHANGED <<saved, log>>
    BY <1>7 DEF Restart, TypeOK
  <2>2. NoSources \in Known
    <3>1. <<>> \in Seq(Facts)
      OBVIOUS
    <3>2. QED
      BY <3>1 DEF NoSources, Known
  <2>3. /\ context' \in [Processes -> AgentStates \cup {None}] /\ sources' \in [Processes -> Known]
        /\ gaps' \in [Processes -> SUBSET Facts]
    BY <2>1, <2>2 DEF TypeOK
  <2>4. \A u \in Turns : u \notin lost /\ pc[u] \in {"open", "answered", "closed"} => proc[u] # p
    OBVIOUS
  <2> HIDE DEF lost
  <2>5. /\ proc' \in [Turns -> Processes \cup {None}]
        /\ asked' \in [Turns -> Words] /\ said' \in [Turns -> Facts \cup {None}]
        /\ trace' \in [Turns -> Seq(Facts \cup {None})]
        /\ usage' \in [Turns -> Nat] /\ calls' \in [Turns -> Nat]
        /\ replayed' = replayed \ lost /\ flagged' = flagged \ lost /\ joined' = joined \ lost
        /\ \A u \in Turns \ lost : proc'[u] = proc[u]
    BY <2>1, ClearIs
  <2>6. /\ pc' \in [Turns -> {"idle", "open", "answered", "closed", "done"}]
        /\ \A u \in Turns : pc'[u] \in {"open", "answered", "closed"} => proc'[u] \in Processes
    BY <2>1, <2>5 DEF TypeOK
  <2>7. \A u \in Turns : Listening(u)' => context'[proc'[u]] # None
    BY <2>1, <2>4, <2>5 DEF TypeOK, Listening
  <2>8. QED
    BY <2>1, <2>3, <2>5, <2>6, <2>7 DEF TypeOK
<1>8. CASE UNCHANGED vars
  BY <1>8 DEF vars, TypeOK, Listening
<1>9. QED
  BY <1>1, <1>2, <1>3, <1>4, <1>5, <1>6, <1>7, <1>8 DEF Next, Words

-----------------------------------------------------------------------------
(***************************************************************************)
(* Counts                                                                  *)
(***************************************************************************)
Apart(t) == \A u \in Turns \ {t} : Listening(u) => proc[u] # proc[t]

Heard ==
  \A t \in Turns :
    /\ pc[t] = "idle" => trace[t] = <<>> /\ calls[t] = 0
    /\ Listening(t) /\ t \notin joined => Len(trace[t]) = calls[t] /\ Apart(t)
    /\ pc[t] = "closed" /\ t \notin joined => usage[t] = calls[t]

LEMMA InitCounted == Init => Heard
BY DEF Init, Heard, Listening

\* Turns that end, by a record or with their process, leave the others as they are.
LEMMA ClearCounted ==
  ASSUME TypeOK, Heard, NEW ts \in SUBSET Turns, Clear(ts),
         pc' = [t \in Turns |-> IF t \in ts THEN "done" ELSE pc[t]]
  PROVE  Heard'
<1>1. /\ joined' = joined \ ts
      /\ \A u \in Turns \ ts :
           /\ proc'[u] = proc[u] /\ trace'[u] = trace[u] /\ usage'[u] = usage[u]
           /\ calls'[u] = calls[u]
  BY ClearIs
<1>2. \A u \in Turns : pc'[u] = IF u \in ts THEN "done" ELSE pc[u]
  OBVIOUS
<1>3. QED
  BY <1>1, <1>2 DEF Heard, Apart, Listening

LEMMA StepCounted == TypeOK /\ Heard /\ [Next]_vars => Heard'
<1> SUFFICES ASSUME TypeOK, Heard, [Next]_vars PROVE Heard'
  OBVIOUS
<1> USE DEF turnVars, checkVars, histVars, Goto
<1>1. ASSUME NEW t \in Turns, NEW p \in Processes, NEW f \in Words,
             NEW hinted \in BOOLEAN, NEW hit \in BOOLEAN, Begin(t, p, f, hinted, hit)
      PROVE  Heard'
  <2> DEFINE others == {u \in Turns : Listening(u) /\ proc[u] = p}
  <2>1. /\ pc[t] = "idle" /\ pc' = [pc EXCEPT ![t] = "open"] /\ proc' = [proc EXCEPT ![t] = p]
        /\ joined' = IF others = {} THEN joined ELSE joined \cup {t} \cup others
        /\ UNCHANGED <<trace, usage, calls>>
    BY <1>1 DEF Begin
  <2>2. /\ pc'[t] = "open" /\ proc'[t] = p
        /\ \A u \in Turns \ {t} : pc'[u] = pc[u] /\ proc'[u] = proc[u]
    BY <2>1 DEF TypeOK
  <2>3. /\ joined \subseteq joined'
        /\ t \notin joined' => \A u \in Turns : Listening(u) => proc[u] # p
        /\ \A u \in Turns \ joined' : Listening(u) => proc[u] # p
    BY <2>1
  <2>4. Len(trace[t]) = 0 /\ calls[t] = 0
    BY <2>1 DEF Heard
  <2>5. QED
    BY <2>1, <2>2, <2>3, <2>4 DEF Heard, Apart, Listening
<1>2. ASSUME NEW t \in Turns, NEW f \in Facts \cup {None}, NEW shown \in BOOLEAN, Call(t, f, shown)
      PROVE  Heard'
  <2>1. PICK p \in Processes : p = proc[t]
    BY <1>2 DEF Call, TypeOK
  <2>2. /\ pc[t] = "open" /\ calls' = [calls EXCEPT ![t] = calls[t] + 1]
        /\ UNCHANGED <<pc, proc, usage, joined>>
    BY <1>2 DEF Call
  <2> DEFINE event == IF shown THEN f ELSE None
  <2>3. \A u \in Turns : trace'[u] = IF u \in Hearers(t) THEN Append(trace[u], event) ELSE trace[u]
    BY <1>2, <2>1, CallIs
  <2>4. Len(trace'[t]) = Len(trace[t]) + 1
    <3>1. t \in Hearers(t) /\ trace[t] \in Seq(Facts \cup {None})
      BY DEF Hearers, TypeOK
    <3>2. trace'[t] = Append(trace[t], event) /\ event \in Facts \cup {None}
      BY <2>3, <3>1
    <3> HIDE DEF event
    <3>3. QED
      BY <3>1, <3>2
  <2>5. calls'[t] = calls[t] + 1 /\ \A u \in Turns \ {t} : calls'[u] = calls[u]
    BY <2>2 DEF TypeOK
  <2>6. \A u \in Turns \ {t} :
          trace'[u] = trace[u] \/ (Listening(u) /\ proc[u] = proc[t])
    BY <2>3 DEF Hearers, Together
  <2>7. \A u \in Turns \ {t} : u \in joined \/ ~Listening(u) \/ trace'[u] = trace[u]
    BY <2>2, <2>6 DEF Heard, Apart, Listening
  <2>8. ASSUME NEW u \in Turns
        PROVE  /\ (pc[u] = "idle" => trace[u] = <<>> /\ calls[u] = 0)'
               /\ (Listening(u) /\ u \notin joined => Len(trace[u]) = calls[u] /\ Apart(u))'
               /\ (pc[u] = "closed" /\ u \notin joined => usage[u] = calls[u])'
    <3>1. CASE u = t
      BY <2>2, <2>4, <2>5, <3>1 DEF Heard, Apart, Listening
    <3>2. CASE u # t
      BY <2>2, <2>5, <2>6, <2>7, <3>2 DEF Heard, Apart, Listening
    <3>3. QED
      BY <3>1, <3>2
  <2>9. QED
    BY <2>8 DEF Heard
<1>3. ASSUME NEW t \in Turns, NEW f \in Facts \cup {None}, Answer(t, f)
      PROVE  Heard'
  <2>1. /\ pc[t] = "open" /\ pc'[t] = "answered" /\ \A u \in Turns \ {t} : pc'[u] = pc[u]
        /\ UNCHANGED <<proc, trace, usage, calls, joined>>
    BY <1>3 DEF Answer, TypeOK
  <2>2. QED
    BY <2>1 DEF Heard, Apart, Listening
<1>4. ASSUME NEW t \in Turns, Close(t)
      PROVE  Heard'
  <2>1. /\ pc[t] = "answered" /\ pc'[t] = "closed" /\ \A u \in Turns \ {t} : pc'[u] = pc[u]
        /\ usage'[t] = Len(trace[t]) /\ \A u \in Turns \ {t} : usage'[u] = usage[u]
        /\ UNCHANGED <<proc, trace, calls, joined>>
    BY <1>4 DEF Close, TypeOK
  <2>2. QED
    BY <2>1 DEF Heard, Apart, Listening
<1>5. ASSUME NEW t \in Turns, NEW n \in 0..3, Record(t, n)
      PROVE  Heard'
  <2>1. Clear({t}) /\ pc' = [pc EXCEPT ![t] = "done"]
    BY <1>5 DEF Record
  <2>2. pc' = [u \in Turns |-> IF u \in {t} THEN "done" ELSE pc[u]]
    BY <2>1 DEF TypeOK
  <2>3. QED
    BY <2>1, <2>2, ClearCounted
<1>6. ASSUME NEW p \in Processes, Forget(p)
      PROVE  Heard'
  BY <1>6 DEF Forget, Heard, Apart, Listening
<1>7. ASSUME NEW p \in Processes, Restart(p)
      PROVE  Heard'
  <2> DEFINE lost == {t \in Turns : proc[t] = p /\ pc[t] \notin {"idle", "done"}}
  <2>1. /\ pc' = [t \in Turns |-> IF t \in lost THEN "done" ELSE pc[t]]
        /\ Clear(lost) /\ lost \in SUBSET Turns
    BY <1>7 DEF Restart
  <2> HIDE DEF lost
  <2>2. QED
    BY <2>1, ClearCounted
<1>8. CASE UNCHANGED vars
  BY <1>8 DEF vars, Heard, Apart, Listening
<1>9. QED
  BY <1>1, <1>2, <1>3, <1>4, <1>5, <1>6, <1>7, <1>8 DEF Next, Words

-----------------------------------------------------------------------------
(***************************************************************************)
(* Sources                                                                 *)
(***************************************************************************)

\* A turn whose trace and words will still be observed.
Observing(u, p) == u \notin replayed /\ Listening(u) /\ proc[u] = p

Sourced ==
  /\ innocent = {}
  /\ \A t \in Turns : pc[t] = "idle" => t \notin replayed
  /\ \A p \in Processes :
       context[p] # None =>
         \A f \in context[p].knows :
           \/ f \in Covered(sources[p]) \cup gaps[p]
           \/ \E u \in Turns : Observing(u, p) /\ f \in Stated(u)

LEMMA InitSourced == Init => Sourced
BY DEF Init, Sourced

LEMMA StepSourced == TypeOK /\ Sourced /\ [Next]_vars => Sourced'
<1> SUFFICES ASSUME TypeOK, Sourced, [Next]_vars PROVE Sourced'
  OBVIOUS
<1> USE DEF turnVars, checkVars, histVars, Goto
<1>1. ASSUME NEW t \in Turns, NEW p \in Processes, NEW f \in Words,
             NEW hinted \in BOOLEAN, NEW hit \in BOOLEAN, Begin(t, p, f, hinted, hit)
      PROVE  Sourced'
  <2>1. /\ pc[t] = "idle" /\ pc' = [pc EXCEPT ![t] = "open"] /\ proc' = [proc EXCEPT ![t] = p]
        /\ replayed' = IF hit THEN replayed \cup {t} ELSE replayed
        /\ hit => ~hinted
        /\ asked' = [asked EXCEPT ![t] = IF hinted THEN None ELSE f]
        /\ UNCHANGED <<trace, sources, innocent>>
    BY <1>1 DEF Begin
  <2>2. /\ pc'[t] = "open" /\ proc'[t] = p /\ asked'[t] = (IF hinted THEN None ELSE f)
        /\ \A u \in Turns \ {t} : pc'[u] = pc[u] /\ proc'[u] = proc[u] /\ asked'[u] = asked[u]
    BY <2>1 DEF TypeOK
  <2>3. /\ \A q \in Processes \ {p} : context'[q] = context[q] /\ gaps'[q] = gaps[q]
        /\ context'[p].knows \subseteq Agent(p).knows \cup (IF hit THEN {} ELSE Fact(f))
        /\ gaps[p] \cup (IF context[p] = None THEN saved.knows ELSE {})
             \cup (IF hinted THEN Fact(f) ELSE {}) \subseteq gaps'[p]
    BY <1>1, BeginIs
  <2>4. ASSUME NEW q \in Processes, NEW u \in Turns, Observing(u, q)
        PROVE  Observing(u, q)' /\ Stated(u) \subseteq Stated(u)'
    <3>1. u # t
      BY <2>1, <2>4 DEF Observing, Listening
    <3>2. QED
      BY <2>1, <2>2, <2>4, <3>1 DEF Observing, Listening, Stated
  <2>5. ASSUME NEW q \in Processes \ {p}, context'[q] # None, NEW g \in context'[q].knows
        PROVE  \/ g \in Covered(sources'[q]) \cup gaps'[q]
               \/ \E u \in Turns : Observing(u, q)' /\ g \in Stated(u)'
    BY <2>1, <2>3, <2>4, <2>5 DEF Sourced
  <2>6. ASSUME NEW g \in context'[p].knows
        PROVE  \/ g \in Covered(sources'[p]) \cup gaps'[p]
               \/ \E u \in Turns : Observing(u, p)' /\ g \in Stated(u)'
    <3>1. CASE g \in Agent(p).knows /\ context[p] = None
      BY <2>3, <3>1 DEF Agent
    <3>2. CASE g \in Agent(p).knows /\ context[p] # None
      <4>1. \/ g \in Covered(sources[p]) \cup gaps[p]
            \/ \E u \in Turns : Observing(u, p) /\ g \in Stated(u)
        BY <3>2 DEF Sourced, Agent
      <4>2. QED
        BY <2>1, <2>3, <2>4, <4>1
    <3>3. CASE ~hit /\ hinted /\ g \in Fact(f)
      BY <2>3, <3>3
    <3>4. CASE ~hit /\ ~hinted /\ g \in Fact(f)
      <4>1. t \notin replayed'
        BY <2>1, <3>4 DEF Sourced
      <4>2. QED
        BY <2>2, <3>4, <4>1 DEF Observing, Stated, Listening
    <3>5. QED
      BY <2>3, <2>6, <3>1, <3>2, <3>3, <3>4
  <2>7. \A u \in Turns : pc'[u] = "idle" => u \notin replayed'
    BY <2>1, <2>2 DEF Sourced
  <2>8. QED
    BY <2>1, <2>5, <2>6, <2>7 DEF Sourced
<1>2. ASSUME NEW t \in Turns, NEW f \in Facts \cup {None}, NEW shown \in BOOLEAN, Call(t, f, shown)
      PROVE  Sourced'
  <2>1. PICK p \in Processes : p = proc[t]
    BY <1>2 DEF Call, TypeOK
  <2>2. /\ pc[t] = "open" /\ t \notin replayed
        /\ UNCHANGED <<pc, proc, asked, replayed, sources, innocent>>
    BY <1>2 DEF Call
  <2> DEFINE event == IF shown THEN f ELSE None
  <2>3. /\ \A u \in Turns : trace'[u] = IF u \in Hearers(t) THEN Append(trace[u], event) ELSE trace[u]
        /\ context'[p].knows = context[p].knows \cup Fact(f)
        /\ gaps'[p] = gaps[p] \cup (IF shown THEN {} ELSE Fact(f))
        /\ \A q \in Processes \ {p} : context'[q] = context[q] /\ gaps'[q] = gaps[q]
    <3>1. \A u \in Turns : trace'[u] = IF u \in Hearers(t) THEN Append(trace[u], event) ELSE trace[u]
      BY <1>2, <2>1, CallIs
    <3>2. /\ context'[p].knows = context[p].knows \cup Fact(f)
          /\ gaps'[p] = gaps[p] \cup (IF shown THEN {} ELSE Fact(f))
          /\ \A q \in Processes \ {p} : context'[q] = context[q] /\ gaps'[q] = gaps[q]
      BY <1>2, <2>1, CallIs
    <3>3. QED
      BY <3>1, <3>2
  <2>4. event \in Facts \cup {None} /\ (shown => event = f)
    OBVIOUS
  <2> HIDE DEF event
  <2>5. \A u \in Turns : Carried(trace[u]) \subseteq Carried(trace'[u])
    <3> TAKE u \in Turns
    <3>1. trace[u] \in Seq(Facts \cup {None})
      BY DEF TypeOK
    <3>2. Carried(Append(trace[u], event)) = Carried(trace[u]) \cup Fact(event)
      BY <2>4, <3>1, CarriedAppend
    <3>3. QED
      BY <2>3, <3>2
  <2>6. shown => Fact(f) \subseteq Carried(trace'[t])
    <3>1. trace[t] \in Seq(Facts \cup {None}) /\ t \in Hearers(t)
      BY DEF TypeOK, Hearers
    <3>2. Carried(Append(trace[t], event)) = Carried(trace[t]) \cup Fact(event)
      BY <2>4, <3>1, CarriedAppend
    <3>3. QED
      BY <2>3, <2>4, <3>1, <3>2
  <2>7. \A q \in Processes, u \in Turns :
          Observing(u, q) => Observing(u, q)' /\ Stated(u) \subseteq Stated(u)'
    BY <2>2, <2>5 DEF Observing, Listening, Stated
  <2>8. ASSUME NEW q \in Processes \ {p}, context'[q] # None, NEW g \in context'[q].knows
        PROVE  \/ g \in Covered(sources'[q]) \cup gaps'[q]
               \/ \E u \in Turns : Observing(u, q)' /\ g \in Stated(u)'
    BY <2>2, <2>3, <2>7, <2>8 DEF Sourced
  <2>9. ASSUME NEW g \in context'[p].knows
        PROVE  \/ g \in Covered(sources'[p]) \cup gaps'[p]
               \/ \E u \in Turns : Observing(u, p)' /\ g \in Stated(u)'
    <3>1. context[p] # None
      BY <2>1, <2>2 DEF TypeOK, Listening
    <3>2. CASE g \in context[p].knows
      BY <2>2, <2>3, <2>7, <3>1, <3>2 DEF Sourced
    <3>3. CASE g \in Fact(f) /\ ~shown
      BY <2>3, <3>3
    <3>4. CASE g \in Fact(f) /\ shown
      <4>1. Observing(t, p)' /\ g \in Stated(t)'
        BY <2>1, <2>2, <2>6, <3>4 DEF Observing, Listening, Stated
      <4>2. QED
        BY <4>1
    <3>5. QED
      BY <2>3, <2>9, <3>2, <3>3, <3>4
  <2>10. QED
    BY <2>2, <2>8, <2>9 DEF Sourced
<1>3. ASSUME NEW t \in Turns, NEW f \in Facts \cup {None}, Answer(t, f)
      PROVE  Sourced'
  <2>1. /\ pc[t] = "open" /\ pc'[t] = "answered" /\ \A u \in Turns \ {t} : pc'[u] = pc[u]
        /\ UNCHANGED <<proc, asked, replayed, checkVars, context, histVars>>
    BY <1>3 DEF Answer, TypeOK
  <2>2. \A q \in Processes, u \in Turns :
          Observing(u, q) => Observing(u, q)' /\ Stated(u) \subseteq Stated(u)'
    BY <2>1 DEF Observing, Listening, Stated
  <2>3. QED
    BY <2>1, <2>2 DEF Sourced
<1>4. ASSUME NEW t \in Turns, Close(t)
      PROVE  Sourced'
  <2>1. /\ pc[t] = "answered" /\ pc'[t] = "closed" /\ \A u \in Turns \ {t} : pc'[u] = pc[u]
        /\ UNCHANGED <<proc, asked, replayed, trace, context>>
    BY <1>4 DEF Close, TypeOK
  <2>2. \A q \in Processes, u \in Turns \ {t} :
          Observing(u, q) => Observing(u, q)' /\ Stated(u) \subseteq Stated(u)'
    BY <2>1 DEF Observing, Listening, Stated
  <2>3. \A u \in Turns : pc'[u] = "idle" => u \notin replayed'
    BY <2>1 DEF Sourced
  <2>4. CASE t \in replayed
    <3>1. UNCHANGED <<sources, gaps, innocent>>
      BY <1>4, <2>4 DEF Close
    <3>2. \A q \in Processes : ~Observing(t, q)
      BY <2>4 DEF Observing
    <3>3. QED
      BY <2>1, <2>2, <2>3, <3>1, <3>2 DEF Sourced
  <2>5. CASE t \notin replayed
    <3>1. PICK p \in Processes : p = proc[t]
      BY <2>1 DEF TypeOK
    <3>2. /\ sources' = [sources EXCEPT ![p] = Observed(t)]
          /\ gaps' = [gaps EXCEPT ![p] = Lack(t)]
          /\ innocent' = IF Alarm(t) /\ said[t] \in context[p].knows \ (Lack(t) \cup Open(t))
                         THEN innocent \cup {t} ELSE innocent
      BY <1>4, <2>5, <3>1, CloseIs
    <3>3. /\ sources'[p] = Observed(t) /\ gaps'[p] = Lack(t)
          /\ \A q \in Processes \ {p} : sources'[q] = sources[q] /\ gaps'[q] = gaps[q]
      BY <3>2 DEF TypeOK
    <3>4. Covered(sources[p]) \cup Stated(t) \subseteq Covered(Observed(t)) \cup Overflow(t)
      BY <3>1, CloseObserves
    <3>5. Lack(t) = (gaps[p] \cup Overflow(t)) \ Covered(Observed(t))
      BY <3>1 DEF Lack
    <3>6. ASSUME NEW g \in context[p].knows
          PROVE  \/ g \in Covered(Observed(t)) \cup Lack(t)
                 \/ \E u \in Turns \ {t} : Observing(u, p) /\ g \in Stated(u)
      <4>1. context[p] # None
        BY <2>1, <3>1 DEF TypeOK, Listening
      <4>2. \/ g \in Covered(sources[p]) \cup gaps[p]
            \/ \E u \in Turns : Observing(u, p) /\ g \in Stated(u)
        BY <4>1 DEF Sourced
      <4>3. QED
        BY <3>4, <3>5, <4>2
    <3>7. innocent' = {}
      <4>1. \A u \in Turns \ {t} : Observing(u, p) => Stated(u) \subseteq Open(t)
        BY <3>1 DEF Observing, Stated, Open, Together
      <4>2. Alarm(t) => said[t] \notin Covered(Observed(t))
        BY DEF Alarm
      <4>3. ~(Alarm(t) /\ said[t] \in context[p].knows \ (Lack(t) \cup Open(t)))
        BY <3>6, <4>1, <4>2
      <4>4. QED
        BY <3>2, <4>3 DEF Sourced
    <3>8. ASSUME NEW q \in Processes \ {p}, context'[q] # None, NEW g \in context'[q].knows
          PROVE  \/ g \in Covered(sources'[q]) \cup gaps'[q]
                 \/ \E u \in Turns : Observing(u, q)' /\ g \in Stated(u)'
      <4>1. ~Observing(t, q)
        BY <3>1 DEF Observing
      <4>2. QED
        BY <2>1, <2>2, <3>3, <3>8, <4>1 DEF Sourced
    <3>9. ASSUME NEW g \in context'[p].knows
          PROVE  \/ g \in Covered(sources'[p]) \cup gaps'[p]
                 \/ \E u \in Turns : Observing(u, p)' /\ g \in Stated(u)'
      BY <2>1, <2>2, <3>3, <3>6, <3>9
    <3>10. QED
      BY <2>3, <3>7, <3>8, <3>9 DEF Sourced
  <2>6. QED
    BY <2>4, <2>5
<1>5. ASSUME NEW t \in Turns, NEW n \in 0..3, Record(t, n)
      PROVE  Sourced'
  <2>1. /\ pc[t] = "closed" /\ pc'[t] = "done" /\ \A u \in Turns \ {t} : pc'[u] = pc[u]
        /\ Clear({t}) /\ {t} \in SUBSET Turns
        /\ UNCHANGED <<sources, context, gaps, innocent>>
    BY <1>5 DEF Record, TypeOK
  <2>2. /\ replayed' = replayed \ {t}
        /\ \A u \in Turns \ {t} : proc'[u] = proc[u] /\ asked'[u] = asked[u] /\ trace'[u] = trace[u]
    BY <2>1, ClearIs
  <2>3. \A q \in Processes, u \in Turns :
          Observing(u, q) => Observing(u, q)' /\ Stated(u) \subseteq Stated(u)'
    BY <2>1, <2>2 DEF Observing, Listening, Stated
  <2>4. QED
    BY <2>1, <2>2, <2>3 DEF Sourced
<1>6. ASSUME NEW p \in Processes, Forget(p)
      PROVE  Sourced'
  <2>1. /\ context'[p] = None
        /\ \A q \in Processes \ {p} :
             context'[q] = context[q] /\ sources'[q] = sources[q] /\ gaps'[q] = gaps[q]
        /\ UNCHANGED <<turnVars, trace, innocent>>
    BY <1>6 DEF Forget, TypeOK
  <2>2. \A q \in Processes, u \in Turns :
          Observing(u, q) => Observing(u, q)' /\ Stated(u) \subseteq Stated(u)'
    BY <2>1 DEF Observing, Listening, Stated
  <2>3. QED
    BY <2>1, <2>2 DEF Sourced
<1>7. ASSUME NEW p \in Processes, Restart(p)
      PROVE  Sourced'
  <2> DEFINE lost == {t \in Turns : proc[t] = p /\ pc[t] \notin {"idle", "done"}}
  <2>1. /\ context'[p] = None
        /\ \A q \in Processes \ {p} :
             context'[q] = context[q] /\ sources'[q] = sources[q] /\ gaps'[q] = gaps[q]
        /\ pc' = [t \in Turns |-> IF t \in lost THEN "done" ELSE pc[t]]
        /\ Clear(lost) /\ lost \in SUBSET Turns
        /\ innocent' = innocent
    BY <1>7 DEF Restart, TypeOK
  <2>2. \A q \in Processes \ {p}, u \in lost : ~Observing(u, q)
    BY DEF Observing
  <2> HIDE DEF lost
  <2>3. \A u \in Turns : pc'[u] = IF u \in lost THEN "done" ELSE pc[u]
    BY <2>1
  <2>4. /\ replayed' = replayed \ lost
        /\ \A u \in Turns \ lost : proc'[u] = proc[u] /\ asked'[u] = asked[u] /\ trace'[u] = trace[u]
    BY <2>1, ClearIs
  <2>5. \A q \in Processes \ {p}, u \in Turns :
          Observing(u, q) => Observing(u, q)' /\ Stated(u) \subseteq Stated(u)'
    BY <2>2, <2>3, <2>4 DEF Observing, Listening, Stated
  <2>6. QED
    BY <2>1, <2>3, <2>4, <2>5 DEF Sourced
<1>8. CASE UNCHANGED vars
  BY <1>8 DEF vars, Sourced, Observing, Listening, Stated
<1>9. QED
  BY <1>1, <1>2, <1>3, <1>4, <1>5, <1>6, <1>7, <1>8 DEF Next, Words

-----------------------------------------------------------------------------
(***************************************************************************)
(* The log                                                                 *)
(***************************************************************************)

\* The sources in the log, once the closed turns are written.
Pending == log.sources \cup UNION {Stated(u) : u \in {u \in Turns : pc[u] = "closed"}}

Logged ==
  ~incomplete =>
    /\ log.replies \subseteq Audited(Pending)
    /\ \A p \in Processes : Covered(sources[p]) \subseteq Audited(Pending)
    /\ \A t \in Turns :
         pc[t] = "closed" /\ t \notin replayed \cup flagged => Fact(said[t]) \subseteq Audited(Pending)

LEMMA NothingCovered == Covered(NoSources) = {}
BY DEF Covered, NoSources, Carried

LEMMA InitLogged == Init => Logged
BY NothingCovered DEF Init, Logged

\* A step keeps Logged when it takes nothing from the sources and what it adds
\* to the replies or to the checks has a source afterwards.
LEMMA StaysLogged ==
  ASSUME Logged, incomplete \in BOOLEAN, incomplete => incomplete',
         Pending \subseteq Pending',
         log.replies' \subseteq log.replies \cup Audited(Pending'),
         \A p \in Processes : Covered(sources'[p]) \subseteq Covered(sources[p]) \cup Audited(Pending'),
         \A t \in Turns :
           pc'[t] = "closed" /\ t \notin replayed' \cup flagged' =>
             \/ Fact(said'[t]) \subseteq Audited(Pending')
             \/ pc[t] = "closed" /\ t \notin replayed \cup flagged /\ said'[t] = said[t]
  PROVE  Logged'
<1> DEFINE now == Pending
           next == Pending'
<1>1. Audited(now) \subseteq Audited(next)
  <2> HIDE DEF now, next
  <2>1. now \subseteq next
    BY DEF now, next
  <2>2. QED
    BY <2>1, AuditedGrows
<1>2. CASE incomplete'
  BY <1>2 DEF Logged
<1>3. CASE ~incomplete'
  <2>1. /\ log.replies \subseteq Audited(now)
        /\ \A p \in Processes : Covered(sources[p]) \subseteq Audited(now)
        /\ \A t \in Turns :
             pc[t] = "closed" /\ t \notin replayed \cup flagged => Fact(said[t]) \subseteq Audited(now)
    BY <1>3 DEF Logged
  <2>2. /\ log.replies' \subseteq Audited(next)
        /\ \A p \in Processes : Covered(sources'[p]) \subseteq Audited(next)
        /\ \A t \in Turns :
             pc'[t] = "closed" /\ t \notin replayed' \cup flagged' => Fact(said'[t]) \subseteq Audited(next)
    BY <1>1, <2>1
  <2>3. QED
    BY <2>2 DEF Logged
<1>4. QED
  BY <1>2, <1>3

LEMMA StepLogged == TypeOK /\ Logged /\ [Next]_vars => Logged'
<1> SUFFICES ASSUME TypeOK, Logged, [Next]_vars PROVE Logged'
  OBVIOUS
<1> USE DEF turnVars, checkVars, histVars, Goto
<1>1. ASSUME NEW t \in Turns, NEW p \in Processes, NEW f \in Words,
             NEW hinted \in BOOLEAN, NEW hit \in BOOLEAN, Begin(t, p, f, hinted, hit)
      PROVE  Logged'
  <2>1. /\ pc[t] = "idle" /\ pc'[t] = "open" /\ \A u \in Turns \ {t} : pc'[u] = pc[u]
        /\ \A u \in Turns \ {t} : asked'[u] = asked[u] /\ (u \in replayed' <=> u \in replayed)
        /\ UNCHANGED <<trace, sources, flagged, said, log, incomplete>>
    BY <1>1 DEF Begin, TypeOK
  <2>2. Pending' = Pending
    BY <2>1 DEF Pending, Stated
  <2>3. QED
    BY <2>1, <2>2, StaysLogged DEF TypeOK
<1>2. ASSUME NEW t \in Turns, NEW f \in Facts \cup {None}, NEW shown \in BOOLEAN, Call(t, f, shown)
      PROVE  Logged'
  <2>1. PICK p \in Processes : p = proc[t]
    BY <1>2 DEF Call, TypeOK
  <2>2. /\ pc[t] = "open"
        /\ UNCHANGED <<pc, asked, said, replayed, sources, flagged, log, incomplete>>
    BY <1>2 DEF Call
  <2>3. \A u \in Turns : trace'[u] = IF u \in Hearers(t)
                                     THEN Append(trace[u], IF shown THEN f ELSE None) ELSE trace[u]
    BY <1>2, <2>1, CallIs
  <2>4. \A u \in Turns : pc[u] = "closed" => trace'[u] = trace[u]
    BY <2>2, <2>3 DEF Hearers, Together, Listening
  <2>5. Pending' = Pending
    BY <2>2, <2>4 DEF Pending, Stated
  <2>6. QED
    BY <2>2, <2>5, StaysLogged DEF TypeOK
<1>3. ASSUME NEW t \in Turns, NEW f \in Facts \cup {None}, Answer(t, f)
      PROVE  Logged'
  <2>1. /\ pc[t] = "open" /\ pc'[t] = "answered" /\ \A u \in Turns \ {t} : pc'[u] = pc[u]
        /\ \A u \in Turns \ {t} : said'[u] = said[u]
        /\ UNCHANGED <<asked, replayed, checkVars, log, incomplete>>
    BY <1>3 DEF Answer, TypeOK
  <2>2. Pending' = Pending
    BY <2>1 DEF Pending, Stated
  <2>3. QED
    BY <2>1, <2>2, StaysLogged DEF TypeOK
<1>4. ASSUME NEW t \in Turns, Close(t)
      PROVE  Logged'
  <2>1. /\ pc[t] = "answered" /\ pc'[t] = "closed" /\ \A u \in Turns \ {t} : pc'[u] = pc[u]
        /\ UNCHANGED <<asked, said, replayed, trace, log, incomplete>>
    BY <1>4 DEF Close, TypeOK
  <2>2. Pending \cup Stated(t) \subseteq Pending'
    BY <2>1 DEF Pending, Stated
  <2>3. CASE t \in replayed
    <3>1. UNCHANGED <<sources, flagged>>
      BY <1>4, <2>3 DEF Close
    <3>2. QED
      BY <2>1, <2>2, <2>3, <3>1, StaysLogged DEF TypeOK
  <2>4. CASE t \notin replayed /\ incomplete
    BY <2>1, <2>4 DEF Logged
  <2>5. CASE t \notin replayed /\ ~incomplete
    <3>1. PICK p \in Processes : p = proc[t]
      BY <2>1 DEF TypeOK
    <3>2. /\ sources' = [sources EXCEPT ![p] = Observed(t)]
          /\ flagged' = IF Alarm(t) THEN flagged \cup {t} ELSE flagged
      BY <1>4, <2>5, <3>1, CloseIs
    <3>3. sources'[p] = Observed(t) /\ \A q \in Processes \ {p} : sources'[q] = sources[q]
      BY <3>2 DEF TypeOK
    <3>4. Covered(Observed(t)) \subseteq Audited(Pending')
      <4>1. Covered(Observed(t)) \subseteq Covered(sources[p]) \cup Audited(Stated(t))
        BY <3>1, CloseObserves
      <4>2. Covered(sources[p]) \subseteq Audited(Pending)
        BY <2>5 DEF Logged
      <4>3. Audited(Pending) \subseteq Audited(Pending') /\ Audited(Stated(t)) \subseteq Audited(Pending')
        BY <2>2, AuditedGrows
      <4>4. QED
        BY <4>1, <4>2, <4>3
    <3>5. t \notin flagged' => Fact(said[t]) \subseteq Covered(Observed(t))
      BY <3>2 DEF Alarm, Fact
    <3>6. \A q \in Processes :
            Covered(sources'[q]) \subseteq Covered(sources[q]) \cup Audited(Pending')
      BY <3>3, <3>4
    <3>7. \A u \in Turns :
            pc'[u] = "closed" /\ u \notin replayed' \cup flagged' =>
              \/ Fact(said'[u]) \subseteq Audited(Pending')
              \/ pc[u] = "closed" /\ u \notin replayed \cup flagged /\ said'[u] = said[u]
      BY <2>1, <3>2, <3>4, <3>5
    <3>8. QED
      BY <2>1, <2>2, <3>6, <3>7, StaysLogged DEF TypeOK
  <2>6. QED
    BY <2>3, <2>4, <2>5
<1>5. ASSUME NEW t \in Turns, NEW n \in 0..3, Record(t, n)
      PROVE  Logged'
  <2>1. /\ pc[t] = "closed" /\ pc'[t] = "done" /\ \A u \in Turns \ {t} : pc'[u] = pc[u]
        /\ Clear({t}) /\ {t} \in SUBSET Turns /\ log' = Written(t, n)
        /\ UNCHANGED sources
        /\ n # 3 => incomplete'
        /\ n = 3 => incomplete' = incomplete
    BY <1>5 DEF Record, TypeOK
  <2>2. /\ replayed' = replayed \ {t} /\ flagged' = flagged \ {t}
        /\ \A u \in Turns \ {t} : asked'[u] = asked[u] /\ said'[u] = said[u] /\ trace'[u] = trace[u]
    BY <2>1, ClearIs
  <2>3. CASE n # 3 \/ incomplete
    BY <2>1, <2>3 DEF Logged
  <2>4. CASE n = 3 /\ ~incomplete
    <3>1. /\ log'.sources = log.sources \cup Fact(asked[t]) \cup Carried(trace[t])
          /\ log'.replies = log.replies
               \cup (IF t \notin replayed \cup flagged THEN Fact(said[t]) ELSE {})
      BY <2>1, <2>4 DEF Written
    <3>2. Pending \subseteq Pending'
      BY <2>1, <2>2, <3>1 DEF Pending, Stated
    <3>3. t \notin replayed \cup flagged => Fact(said[t]) \subseteq Audited(Pending')
      <4>1. Audited(Pending) \subseteq Audited(Pending')
        BY <3>2, AuditedGrows
      <4>2. QED
        BY <2>1, <2>4, <4>1 DEF Logged
    <3>4. log'.replies \subseteq log.replies \cup Audited(Pending')
      BY <3>1, <3>3
    <3>5. \A u \in Turns :
            pc'[u] = "closed" /\ u \notin replayed' \cup flagged' =>
              pc[u] = "closed" /\ u \notin replayed \cup flagged /\ said'[u] = said[u]
      BY <2>1, <2>2
    <3>6. QED
      BY <2>1, <2>4, <3>2, <3>4, <3>5, StaysLogged DEF TypeOK
  <2>5. QED
    BY <2>3, <2>4
<1>6. ASSUME NEW p \in Processes, Forget(p)
      PROVE  Logged'
  <2>1. /\ sources' = [sources EXCEPT ![p] = NoSources]
        /\ UNCHANGED <<turnVars, trace, flagged, log, incomplete>>
    BY <1>6 DEF Forget
  <2>2. \A q \in Processes : Covered(sources'[q]) \subseteq Covered(sources[q])
    BY <2>1, NothingCovered DEF TypeOK
  <2>3. Pending' = Pending
    BY <2>1 DEF Pending, Stated
  <2>4. QED
    BY <2>1, <2>2, <2>3, StaysLogged DEF TypeOK
<1>7. ASSUME NEW p \in Processes, Restart(p)
      PROVE  Logged'
  <2> DEFINE lost == {t \in Turns : proc[t] = p /\ pc[t] \notin {"idle", "done"}}
  <2>1. /\ sources' = [sources EXCEPT ![p] = NoSources]
        /\ pc' = [t \in Turns |-> IF t \in lost THEN "done" ELSE pc[t]]
        /\ Clear(lost) /\ lost \in SUBSET Turns /\ log' = log
        /\ incomplete' = (incomplete \/ \E t \in lost : pc[t] = "closed")
    BY <1>7 DEF Restart
  <2> HIDE DEF lost
  <2>2. \A u \in Turns : pc'[u] = IF u \in lost THEN "done" ELSE pc[u]
    BY <2>1
  <2>3. /\ replayed' = replayed \ lost /\ flagged' = flagged \ lost
        /\ \A u \in Turns \ lost : asked'[u] = asked[u] /\ said'[u] = said[u] /\ trace'[u] = trace[u]
    BY <2>1, ClearIs
  <2>4. \A q \in Processes : Covered(sources'[q]) \subseteq Covered(sources[q])
    BY <2>1, NothingCovered DEF TypeOK
  <2>5. CASE incomplete'
    BY <2>5 DEF Logged
  <2>6. CASE ~incomplete'
    <3>1. \A u \in Turns : pc[u] = "closed" => u \notin lost /\ pc'[u] = "closed"
      BY <2>1, <2>2, <2>6
    <3>2. Pending \subseteq Pending'
      BY <2>1, <2>3, <3>1 DEF Pending, Stated
    <3>3. \A u \in Turns :
            pc'[u] = "closed" /\ u \notin replayed' \cup flagged' =>
              pc[u] = "closed" /\ u \notin replayed \cup flagged /\ said'[u] = said[u]
      BY <2>2, <2>3
    <3>4. incomplete => incomplete'
      BY <2>1
    <3>5. QED
      BY <2>1, <2>4, <3>2, <3>3, <3>4, StaysLogged DEF TypeOK
  <2>7. QED
    BY <2>5, <2>6
<1>8. CASE UNCHANGED vars
  BY <1>8 DEF vars, Logged, Pending, Stated
<1>9. QED
  BY <1>1, <1>2, <1>3, <1>4, <1>5, <1>6, <1>7, <1>8 DEF Next, Words

-----------------------------------------------------------------------------
(***************************************************************************)
(* The theorems                                                            *)
(***************************************************************************)
IInv == TypeOK /\ Heard /\ Sourced /\ Logged

\* The invariant holds from handle_intent's first step to _record_conversation.
THEOREM Inductive == Spec => []IInv
<1>1. Init => IInv
  BY InitTypes, InitCounted, InitSourced, InitLogged DEF IInv
<1>2. IInv /\ [Next]_vars => IInv'
  BY StepTypes, StepCounted, StepSourced, StepLogged DEF IInv
<1>3. QED
  BY <1>1, <1>2, PTL DEF Spec

\* The state keeps its type.
THEOREM TypeCorrect == Spec => []TypeOK
<1>1. IInv => TypeOK
  BY DEF IInv
<1>2. QED
  BY <1>1, Inductive, PTL

\* check_reply over SessionSources: a reply is flagged for a fact its agent had
\* learned only across one of the gaps the checks are known to have.
THEOREM NoFalseAlarm == Spec => []AlarmsAreReal
<1>1. IInv => AlarmsAreReal
  BY DEF IInv, Sourced, AlarmsAreReal
<1>2. QED
  BY <1>1, Inductive, PTL

\* _record_conversation: a log without a gap gives the audits a source for every reply the checks let
\* pass, and a turn's recorded calls are its own.
THEOREM TheLogIsTrue == Spec => []LogIsTrue
<1>1. IInv => AuditAgrees
  <2> SUFFICES ASSUME IInv, ~incomplete, \A t \in Turns : pc[t] # "closed"
               PROVE  log.replies \subseteq
                        log.sources \cup (IF log.sources \cap Insights # {} THEN Insights ELSE {})
    BY DEF AuditAgrees
  <2>1. log.replies \subseteq Audited(Pending)
    BY DEF IInv, Logged
  <2>2. Pending = log.sources
    BY DEF Pending
  <2>3. QED
    BY <2>1, <2>2 DEF Audited
<1>2. IInv => UsageIsOwn
  BY DEF IInv, Heard, UsageIsOwn
<1>3. IInv => LogIsTrue
  BY <1>1, <1>2 DEF LogIsTrue
<1>4. QED
  BY <1>3, Inductive, PTL

=============================================================================
