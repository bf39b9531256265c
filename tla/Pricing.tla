------------------------------ MODULE Pricing ------------------------------
(***************************************************************************)
(* Landed prices: Money and ExchangeRateTable, TariffSchedule.quote and    *)
(* quote_basket, optimize_basket, and the two tools that call them.        *)
(* Amounts are minor units.  round() of Python rounds halves to even; the  *)
(* floating-point rates are taken as the fractions they are written as.    *)
(***************************************************************************)
EXTENDS Integers, Sequences, FiniteSets, SequencesExt, FiniteSetsExt, Ordering

CONSTANTS Products,   \* numbers in the order of their ids
          Currencies,
          Price, CurrencyOf, Category, ShipsTo,  \* of each product's primary SKU
          RateToCNY,    \* of each currency, in units all of them share
          Destinations, \* those of _TARIFF_RATES
          DutyRate,     \* [destination -> [category -> per mille]]
          DeMinimis,    \* [destination -> [amount, currency]]
          BaseFreight,  \* [destination -> CNY]
          MaxCombinations,
          Requests,     \* the calls the model makes
          Nil

ASSUME PricingAssumption ==
  /\ Products \subseteq Nat /\ IsFiniteSet(Products) /\ Nil \notin Products
  /\ "CNY" \in Currencies
  /\ Price \in [Products -> Nat \ {0}] /\ CurrencyOf \in [Products -> Currencies]
  /\ ShipsTo \in [Products -> SUBSET STRING]
  /\ RateToCNY \in [Currencies -> Nat \ {0}]
  /\ BaseFreight \in [Destinations -> Nat]
  /\ \A d \in Destinations : DeMinimis[d].amount \in Nat /\ DeMinimis[d].currency \in Currencies
  /\ \A d \in Destinations : \A p \in Products : DutyRate[d][Category[p]] \in 0..1000
  \* Freight is no small change: the share an item more does not pay is more
  \* than what rounding can make of it (2500 fen at least, of at most 9.1 CNY).
  /\ \A d \in Destinations : \A c \in Currencies :
       4 * BaseFreight[d] * RateToCNY["CNY"] >= 15 * (RateToCNY[c] + RateToCNY["CNY"])
  /\ \A r \in Requests :
       /\ r.needs \in Seq([need : STRING, ids : SUBSET Nat, quantity : Int])
       /\ r.tool \in {"quote", "optimize"} /\ r.currency \in Currencies /\ r.budget \in Nat
       /\ r.tool = "quote" => \A g \in ToSet(r.needs) : Cardinality(g.ids) = 1

VARIABLES request, stage,
          groups,      \* the needs with the candidates that can be sent there
          considered,  \* combinations tried so far
          best,        \* the best of them: a product or Nil for each group
          uncovered    \* the needs reported as not covered

pricingVars == <<request, stage, groups, considered, best, uncovered>>

-----------------------------------------------------------------------------
(***************************************************************************)
(* Money                                                                   *)
(***************************************************************************)

\* round(n / d), halves to even.
Round(n, d) ==
  LET q == n \div d
      twice == 2 * (n % d)
  IN IF twice > d \/ (twice = d /\ q % 2 = 1) THEN q + 1 ELSE q

Convert(amount, from, to) ==
  IF from = to THEN amount ELSE Round(amount * RateToCNY[from], RateToCNY[to])

(***************************************************************************)
(* TariffSchedule                                                          *)
(***************************************************************************)
NotNegative(n) == IF n < 0 THEN 0 ELSE n

\* One parcel: the first item in full, 60 % for each further one.
Freight(dest, quantity) == Round(BaseFreight[dest] * (4 + 6 * quantity), 10)

Threshold(dest) == Convert(DeMinimis[dest].amount, DeMinimis[dest].currency, "CNY")

\* quote.
Quote(amount, currency, category, dest, quantity, target) ==
  LET taxable == NotNegative(Convert(amount, currency, "CNY") - Threshold(dest))
      duty == Round(taxable * DutyRate[dest][category], 1000)
  IN [subtotal |-> Convert(amount, currency, target),
      freight |-> Convert(Freight(dest, quantity), "CNY", target),
      tariff |-> Convert(duty, "CNY", target)]

Amount(line) == Price[line.product] * line.quantity
InCNY(line) == Convert(Amount(line), CurrencyOf[line.product], "CNY")

\* The part of the duty one line bears.
LineDuty(line, taxable, subtotal, dest) ==
  Round(taxable * InCNY(line) * DutyRate[dest][Category[line.product]], subtotal * 1000)

WorthInCNY(lines) == SumFunction([i \in DOMAIN lines |-> InCNY(lines[i])])

Taxable(lines, dest) == NotNegative(WorthInCNY(lines) - Threshold(dest))

Duty(lines, dest) ==
  LET taxable == Taxable(lines, dest)
  IN IF taxable = 0 THEN 0
     ELSE SumFunction([i \in DOMAIN lines |-> LineDuty(lines[i], taxable, WorthInCNY(lines), dest)])

Quantity(lines) == SumFunction([i \in DOMAIN lines |-> lines[i].quantity])

\* quote_basket: freight and threshold once for the whole parcel.
QuoteBasket(lines, dest, target) ==
  [subtotal |-> SumFunction([i \in DOMAIN lines |->
                  Convert(Amount(lines[i]), CurrencyOf[lines[i].product], target)]),
   freight |-> Convert(Freight(dest, Quantity(lines)), "CNY", target),
   tariff |-> Convert(Duty(lines, dest), "CNY", target)]

Landed(quote) == quote.subtotal + quote.freight + quote.tariff

\* Each line a parcel of its own: separate_purchase_landed.
Separately(lines, dest, target) ==
  SumFunction([i \in DOMAIN lines |-> Landed(QuoteBasket(<<lines[i]>>, dest, target))])

-----------------------------------------------------------------------------
(***************************************************************************)
(* optimize_basket                                                         *)
(***************************************************************************)
Picked(combo) == Ascending({i \in DOMAIN combo : combo[i] # Nil})

Lines(gs, combo) ==
  [k \in DOMAIN Picked(combo) |->
     [product |-> combo[Picked(combo)[k]], quantity |-> gs[Picked(combo)[k]].quantity]]

Cost(gs, combo) ==
  IF Lines(gs, combo) = <<>> THEN 0
  ELSE Landed(QuoteBasket(Lines(gs, combo), request.dest, request.currency))

Space(gs) == FoldSeq(LAMBDA g, product : (Cardinality(g.candidates) + 1) * product, 1, gs)

\* What is tried first for a need: nothing, then its candidates by price and id.
UnitPrice(p) == Convert(Price[p], CurrencyOf[p], request.currency)

Sooner(p, q) ==
  \/ p = Nil /\ q # Nil
  \/ /\ p # Nil /\ q # Nil
     /\ UnitPrice(p) < UnitPrice(q) \/ (UnitPrice(p) = UnitPrice(q) /\ p < q)

Combos(gs) ==
  {c \in [DOMAIN gs -> Products \cup {Nil}] : \A i \in DOMAIN gs : c[i] \in gs[i].candidates \cup {Nil}}

\* itertools.product: the last group varies fastest.
Combinations(gs) ==
  InOrder(Combos(gs), {pair \in Combos(gs) \X Combos(gs) :
     \E i \in DOMAIN gs : Sooner(pair[1][i], pair[2][i]) /\ \A j \in 1..(i - 1) : pair[1][j] = pair[2][j]})

Before(s, t) == \E k \in DOMAIN s : s[k] < t[k] /\ \A j \in 1..(k - 1) : s[j] = t[j]

\* The order of the keys: more needs, the earlier needs, the lower price, the
\* ids.  Defect: the price comes before which needs are kept.
Better_Cheapest(gs, a, b) ==
  \/ Len(Picked(a)) > Len(Picked(b))
  \/ Len(Picked(a)) = Len(Picked(b)) /\ Cost(gs, a) < Cost(gs, b)

Ids(combo) == [k \in DOMAIN Picked(combo) |-> combo[Picked(combo)[k]]]

Better(gs, a, b) ==
  \/ Len(Picked(a)) > Len(Picked(b))
  \/ Len(Picked(a)) = Len(Picked(b)) /\ Before(Picked(a), Picked(b))
  \/ Picked(a) = Picked(b) /\ Cost(gs, a) < Cost(gs, b)
  \/ Picked(a) = Picked(b) /\ Cost(gs, a) = Cost(gs, b) /\ Before(Ids(a), Ids(b))

\* A budget of 0 is none.
Affordable(gs, combo) == request.budget = 0 \/ Cost(gs, combo) <= request.budget

Nothing(gs) == [i \in DOMAIN gs |-> Nil]

-----------------------------------------------------------------------------
(***************************************************************************)
(* The tools                                                               *)
(***************************************************************************)
PricingInit ==
  /\ request \in Requests /\ stage = "called"
  /\ groups = <<>> /\ considered = 0 /\ best = <<>> /\ uncovered = {}

\* int(raw.get("quantity", 1) or 1): how many 0 asks for is 1.
Bought(quantity) == IF quantity = 0 THEN 1 ELSE quantity

\* A request neither tool can serve: no need, a destination the rules do not
\* know (said before anything about the products), an unknown product, a
\* quantity below 0 (_validate, Money.multiply).
Invalid ==
  \/ request.needs = <<>> \/ request.dest \notin Destinations
  \/ \E g \in ToSet(request.needs) : g.ids \ Products # {} \/ Bought(g.quantity) < 0

Reject ==
  /\ stage = "called"
  /\ \/ Invalid
     \/ request.tool = "quote" /\ \E g \in ToSet(request.needs) :
          \E p \in g.ids : request.dest \notin ShipsTo[p]
  /\ stage' = "error"
  /\ UNCHANGED <<request, groups, considered, best, uncovered>>

\* quote_basket_tool: every item is bought.
QuoteTool ==
  /\ stage = "called" /\ request.tool = "quote" /\ ~Invalid
  /\ \A g \in ToSet(request.needs) : \A p \in g.ids : request.dest \in ShipsTo[p]
  /\ groups' = [i \in DOMAIN request.needs |->
       [need |-> request.needs[i].need, candidates |-> request.needs[i].ids,
        quantity |-> Bought(request.needs[i].quantity)]]
  /\ best' = [i \in DOMAIN request.needs |-> CHOOSE p \in request.needs[i].ids : TRUE]
  /\ stage' = "quoted"
  /\ UNCHANGED <<request, considered, uncovered>>

\* optimize_basket_tool: what cannot be sent there is no candidate.
Optimize ==
  LET gs == [i \in DOMAIN request.needs |->
               [need |-> request.needs[i].need,
                candidates |-> {p \in request.needs[i].ids : request.dest \in ShipsTo[p]},
                quantity |-> Bought(request.needs[i].quantity)]]
  IN /\ stage = "called" /\ request.tool = "optimize" /\ ~Invalid
     /\ IF Space(gs) > MaxCombinations
        THEN stage' = "error" /\ UNCHANGED <<groups, best>>
        ELSE stage' = "searching" /\ groups' = gs /\ best' = Nothing(gs)
     /\ UNCHANGED <<request, considered, uncovered>>

\* The next combination.
Consider ==
  LET combo == Combinations(groups)[considered + 1]
  IN /\ stage = "searching" /\ considered < Cardinality(Combos(groups))
     /\ best' = IF Affordable(groups, combo) /\ Better(groups, combo, best) THEN combo ELSE best
     /\ considered' = considered + 1
     /\ UNCHANGED <<request, stage, groups, uncovered>>

ChosenNeeds == {groups[i].need : i \in {j \in DOMAIN groups : best[j] # Nil}}

Alone(i, p) == Landed(QuoteBasket(<<[product |-> p, quantity |-> groups[i].quantity]>>,
                                  request.dest, request.currency))

\* What the budget lacks for p beside what is chosen.
Gap(i, p) == NotNegative(Cost(groups, [best EXCEPT ![i] = p]) - request.budget)

\* The candidates of a group that are cheapest by themselves.
Cheapest(i) ==
  IF groups[i].candidates = {} THEN {Nil}
  ELSE {p \in groups[i].candidates : \A q \in groups[i].candidates : Alone(i, p) <= Alone(i, q)}

\* The groups whose needs are not met, with the first cheapest candidate there is.
Report ==
  /\ stage = "searching" /\ considered = Cardinality(Combos(groups))
  /\ \E cheapest \in [DOMAIN groups -> Products \cup {Nil}] :
       /\ \A i \in DOMAIN groups : cheapest[i] \in Cheapest(i)
       /\ uncovered' = {[group |-> i, product |-> cheapest[i],
                         gap |-> IF cheapest[i] = Nil \/ request.budget = 0 THEN Nil ELSE Gap(i, cheapest[i])] :
                           i \in {i \in DOMAIN groups : groups[i].need \notin ChosenNeeds}}
  /\ stage' = "planned"
  /\ UNCHANGED <<request, groups, considered, best>>

PricingNext == Reject \/ QuoteTool \/ Optimize \/ Consider \/ Report

PricingSpec == PricingInit /\ [][PricingNext]_pricingVars

-----------------------------------------------------------------------------
(***************************************************************************)
(* Properties                                                              *)
(***************************************************************************)

\* The two ways to a price agree: a basket of one line costs what the quote
\* on the product card says, and the duty of a basket, rounded line by line,
\* is off by at most half a cent a line from the duty of the whole.  Buying
\* together costs more than buying apart, if at all, by no more than its duty.
QuotesAgree ==
  stage = "quoted" =>
    LET lines == Lines(groups, best)
        dest == request.dest
        whole == WorthInCNY(lines)
        rate(line) == DutyRate[dest][Category[line.product]]
        due == SumFunction([i \in DOMAIN lines |-> InCNY(lines[i]) * rate(lines[i])])
        error == Duty(lines, dest) * whole * 1000 - Taxable(lines, dest) * due
    IN /\ \A l \in ToSet(lines) :
            QuoteBasket(<<l>>, dest, request.currency) =
              Quote(Amount(l), CurrencyOf[l.product], Category[l.product], dest, l.quantity, request.currency)
       /\ LET basket == QuoteBasket(lines, dest, request.currency)
          IN Landed(basket) - basket.tariff <= Separately(lines, dest, request.currency)
       /\ error \in -(Len(lines) * whole * 500)..(Len(lines) * whole * 500)

\* The plan is within the budget, and no choice within it covers more needs,
\* covers as many and keeps an earlier one the plan gives up, or covers the
\* same needs at a lower price.
PlanIsBest ==
  stage = "planned" =>
    /\ Affordable(groups, best)
    /\ \A c \in Combos(groups) :
         Affordable(groups, c) =>
           LET have == {i \in DOMAIN groups : best[i] # Nil}
               alt == {i \in DOMAIN groups : c[i] # Nil}
           IN /\ Cardinality(alt) <= Cardinality(have)
              /\ Cardinality(alt) = Cardinality(have) /\ alt # have =>
                   Min(SymDiff(alt, have)) \in have
              /\ alt = have => Cost(groups, best) <= Cost(groups, c)

\* A need that is left out is reported, unless another need of its name is
\* met; when there is a budget, the gap reported for it is a real one: with
\* that much more, and no less, the product fits beside what is chosen.
GapsAreReal ==
  stage = "planned" =>
    /\ \A i \in DOMAIN groups :
         best[i] # Nil \/ groups[i].need \in ChosenNeeds \/ \E u \in uncovered : u.group = i
    /\ \A u \in uncovered :
         u.product # Nil =>
           /\ request.budget # 0 /\ u.gap > 0
           /\ Cost(groups, [best EXCEPT ![u.group] = u.product]) = request.budget + u.gap

\* The basket the optimiser proposes is the one to buy, and what it leaves out
\* comes with the true reason (optimize_basket).
BasketIsRight == PlanIsBest /\ GapsAreReal

\* The prices the agent is given are right: the same by every way to them, and
\* the best for the needs (TariffSchedule, optimize_basket).
PricesAreRight == QuotesAgree /\ BasketIsRight
=============================================================================
