---------------------------- MODULE ReplyChecks ----------------------------
(***************************************************************************)
(* What a reply says, held against what its session was shown: amounts     *)
(* (number_provenance), written-out percentages (arithmetic_check),        *)
(* addresses and numbers of the buyer (contact_provenance) and appeals to  *)
(* the knowledge base (knowledge_provenance).  A reply about a basket just *)
(* quoted is judged here; Audits judges whole sessions with it.            *)
(*                                                                         *)
(* A text is what the patterns find in it: amounts with the words of their *)
(* line, equations, contact fields, marks of a line.                       *)
(***************************************************************************)
EXTENDS Pricing

CONSTANTS Cent,      \* 0.01 and
          Major,     \* 1.0 of a currency, in the unit of the amounts
          MaxPool,   \* _MAX_CLASSIFY_POOL
          OwnWords,  \* the numbers in the buyer's own words
          Remarks    \* the numbers in the free text of the payloads

\* The pool (60) has room for all the money shown of a basket of two; and in a
\* currency worth more than the yuan (4.7 CNY at least) the yuan's cent, and
\* the duty (13 % at most) on half a cent of the base, are small.
ASSUME ReplyChecksAssumption ==
  /\ Cent \in Nat \ {0} /\ Major \in Nat /\ MaxPool \in Nat /\ MaxPool > 24
  /\ OwnWords \subseteq Nat /\ Remarks \subseteq Nat
  /\ \A c \in Currencies \ {"CNY"} : \A d \in Destinations : \A p \in Products :
       RateToCNY[c] >= RateToCNY["CNY"] =>
         1000 * RateToCNY["CNY"] + DutyRate[d][Category[p]] * RateToCNY[c] <= 1000 * RateToCNY[c]

VARIABLE spoken   \* the reply about the basket, or Nil

replyVars == <<request, stage, groups, considered, best, uncovered, spoken>>

-----------------------------------------------------------------------------
(***************************************************************************)
(* What the tools return                                                   *)
(***************************************************************************)

\* A field by what its name says: "landed" is money, too.
Fields(name, values, basket) == [name : {name}, value : values, basket : {basket}]

Single(p) == [product |-> p, quantity |-> 1]

Thresholds(basket) ==
  Fields("other", {Convert(Threshold(request.dest), "CNY", request.currency),
                   DeMinimis[request.dest].amount}, basket)

Bases(lines) ==
  {Convert(Taxable(lines, request.dest), "CNY", c) :
     c \in {request.currency, DeMinimis[request.dest].currency}}

\* The card of a product: its price, converted, and the quote for one.
Card(p) ==
  LET quote == QuoteBasket(<<Single(p)>>, request.dest, request.currency)
  IN Fields("money", {Price[p], quote.subtotal, quote.freight, quote.tariff}, FALSE)
     \cup Fields("money", Bases(<<Single(p)>>), FALSE)
     \cup Fields("landed", {Landed(quote)}, FALSE) \cup Thresholds(FALSE)

CombiningSaving(lines) ==
  NotNegative(Separately(lines, request.dest, request.currency)
                - Landed(QuoteBasket(lines, request.dest, request.currency)))

\* The quote of a basket.  total_quantity has a name of money, and the price
\* apart has none: "separate" ends in "rate".
BasketPayload(lines) ==
  LET quote == QuoteBasket(lines, request.dest, request.currency)
  IN Fields("money", {quote.subtotal, quote.freight, quote.tariff, CombiningSaving(lines),
                      Quantity(lines) * Major}, TRUE)
     \cup Fields("money", {Price[line.product] : line \in ToSet(lines)}, TRUE)
     \cup Fields("money", Bases(lines), TRUE)
     \cup Fields("landed", {Landed(quote)}, TRUE)
     \cup Fields("other", {Separately(lines, request.dest, request.currency)}, TRUE)
     \cup Thresholds(TRUE)

-----------------------------------------------------------------------------
(***************************************************************************)
(* Amounts                                                                 *)
(***************************************************************************)
Values(fields) == {f.value : f \in fields}

IsMoney(field) == field.name \in {"money", "landed"}

\* collect_sources
Sources(fields, stated, remarks) ==
  [numbers |-> Values(fields) \cup stated \cup remarks,
   money |-> Values({f \in fields : IsMoney(f)}),
   stated |-> stated,
   landed |-> Values({f \in fields : f.name = "landed"}),
   basket |-> Values({f \in fields : IsMoney(f) /\ f.basket})]

Distance(a, b) == IF a < b THEN b - a ELSE a - b

\* 0.2 %, but at least a cent and at most one.
Matches(value, source) ==
  Distance(value, source) * 500 <= Min({Major * 500, Max({Cent * 500, source})})

Has(sources, value) == \E n \in sources.numbers : Matches(value, n)

Positive(values) == {n \in values : n > 0}
Largest(pool) == {n \in pool : Cardinality({m \in pool : m > n}) < MaxPool}

Subtrahends(sources) == Positive(sources.money \cup sources.stated)

SumOf(addends) == SumFunction(addends)

\* The ways to add up to about the value: two or three addends, ascending.
Sums(value, sources) ==
  LET pool == Largest({n \in Positive(sources.money) : n <= value + Major})
  IN {s \in (pool \X pool) \cup (pool \X pool \X pool) :
        /\ \A i \in 1..(Len(s) - 1) : s[i] < s[i + 1]
        /\ Distance(value, SumOf(s)) <= Major}

\* Smaller error first, then fewer operands, then operands of a better kind.
SumKey(value, addends) == <<Distance(value, SumOf(addends)), Len(addends), 0>>

DifferenceKeys(value, sources) ==
  LET strong == Subtrahends(sources)
      near == {pair \in sources.numbers \X Largest(strong) :
                 pair[1] > pair[2] /\ Distance(value, pair[1] - pair[2]) <= Major}
  IN {<<Distance(value, pair[1] - pair[2]), 2, IF pair[1] \in strong THEN 0 ELSE 1>> : pair \in near}

\* _classify: the best of all explanations, sums before differences, the first
\* sum in ascending order; with the addends of a sum.  Defect: the first one
\* found within the tolerance is taken.
Classify_First(value, sources) ==
  LET sums == Sums(value, sources)
  IN IF sums # {}
     THEN [kind |-> "sum",
           addends |-> CHOOSE s \in sums :
             \A t \in sums : s = t \/ Len(s) < Len(t) \/ (Len(s) = Len(t) /\ Before(s, t))]
     ELSE [kind |-> IF DifferenceKeys(value, sources) # {} THEN "difference" ELSE "unsourced",
           addends |-> <<>>]

Classify(value, sources) ==
  LET sums == Sums(value, sources)
      differences == DifferenceKeys(value, sources)
      keys == {SumKey(value, s) : s \in sums} \cup differences
      top == CHOOSE k \in keys : \A j \in keys : ~Before(j, k)
      winners == {s \in sums : SumKey(value, s) = top}
  IN IF keys = {} THEN [kind |-> "unsourced", addends |-> <<>>]
     ELSE IF winners = {} THEN [kind |-> "difference", addends |-> <<>>]
     ELSE [kind |-> "sum",
           addends |-> CHOOSE s \in winners : \A t \in winners : s = t \/ Before(s, t)]

\* Prices of single products added up where the line speaks of buying together
\* and a basket was quoted.
IsBasketMisadd(amount, addends, sources) ==
  /\ sources.basket # {} /\ ToSet(addends) \subseteq sources.landed
  /\ "combined" \in amount.words /\ "separate" \notin amount.words
  /\ ~\E n \in sources.basket : Matches(amount.value, n)

\* What check_reply says of one amount.
KindOf(amount, sources) ==
  LET cause == Classify(amount.value, sources)
  IN IF Has(sources, amount.value) THEN "sourced"
     ELSE IF cause.kind = "sum" /\ IsBasketMisadd(amount, cause.addends, sources)
          THEN "basket_misadd"
     ELSE cause.kind

\* The findings, by the amounts they are about.
CheckReply(reply, sources) ==
  LET kinds == [i \in DOMAIN reply.amounts |-> KindOf(reply.amounts[i], sources)]
  IN Restrict(kinds, {i \in DOMAIN kinds : kinds[i] # "sourced"})

-----------------------------------------------------------------------------
(***************************************************************************)
(* Equations, contact fields, the knowledge base                           *)
(***************************************************************************)

\* left x rate % = result, the rate per mille: right to 2 %, or to a cent.
Consistent(equation) ==
  LET expected == equation.left * equation.rate
  IN Distance(equation.result * 1000, expected) * 50 <= Max({Cent * 50000, expected})

CheckArithmetic(reply) == {i \in DOMAIN reply.equations : ~Consistent(reply.equations[i])}

\* In a field of a confirmation card: a value that asserts something, neither a
\* place to fill, nor a list of field names, nor mangled by the layout.
LabeledFieldClaims(fields) ==
  {f \in fields : f.card /\ ~f.complete /\ f.value = "content"}

ExtractContactClaims(reply) == {f \in reply.fields : f.complete} \cup LabeledFieldClaims(reply.fields)

\* A complete address counts by the part below its district, a labelled value
\* by all its pieces.
Covers(known, claim) ==
  IF claim.complete THEN claim.core \in known
  ELSE claim.parts # {} /\ claim.parts \subseteq known

CheckContact(reply, known) == {c \in ExtractContactClaims(reply) : ~Covers(known, c)}

\* A line that attributes something to the knowledge base, and says neither
\* that it failed nor that it has nothing.
KnowledgeClaims(reply) ==
  {marks \in reply.lines : {"mention", "attribution"} \subseteq marks /\ marks \cap {"degraded", "absent"} = {}}

\* insight: what the knowledge tool returned in the session, if it was called.
CheckKnowledge(reply, insight) == IF insight = "full" THEN {} ELSE KnowledgeClaims(reply)

IsFiniteReply(reply) ==
  /\ IsFiniteSet(DOMAIN reply.amounts) /\ IsFiniteSet(DOMAIN reply.equations)
  /\ IsFiniteSet(reply.fields) /\ IsFiniteSet(reply.lines)

-----------------------------------------------------------------------------
(***************************************************************************)
(* A reply about the quoted basket                                         *)
(***************************************************************************)
Basket == Lines(groups, best)

Shown(lines) == BasketPayload(lines) \cup UNION {Card(line.product) : line \in ToSet(lines)}

CardPrice(line) == Landed(QuoteBasket(<<Single(line.product)>>, request.dest, request.currency))
SumOfCards(lines) == SumFunction([i \in DOMAIN lines |-> CardPrice(lines[i])])

\* The totals a model might name: the basket's, the price apart, the card
\* prices added up or multiplied, the total without the duty.
Totals(lines) ==
  LET quote == QuoteBasket(lines, request.dest, request.currency)
  IN {Landed(quote), Separately(lines, request.dest, request.currency), SumOfCards(lines),
      SumFunction([i \in DOMAIN lines |-> lines[i].quantity * CardPrice(lines[i])]), quote.subtotal + quote.freight}

\* How it explains the duty of a product: by the taxable base, or by the price.
Explanations(line) ==
  LET quote == QuoteBasket(<<Single(line.product)>>, request.dest, request.currency)
      base == Convert(Taxable(<<Single(line.product)>>, request.dest), "CNY", request.currency)
  IN [left : {base, quote.subtotal}, rate : {DutyRate[request.dest][Category[line.product]]},
      result : {quote.tariff}]

ReplyInit == PricingInit /\ spoken = Nil

Say ==
  /\ stage = "quoted" /\ Len(Basket) <= 2
  /\ \E value \in Totals(Basket), words \in SUBSET {"combined", "separate"},
        equation \in Explanations(Basket[1]) :
       spoken' = [amounts |-> <<[value |-> value, words |-> words]>>, equations |-> <<equation>>,
                fields |-> {}, lines |-> {}]
  /\ stage' = "replied"
  /\ UNCHANGED <<request, groups, considered, best, uncovered>>

PricingSteps == PricingNext /\ UNCHANGED spoken

-----------------------------------------------------------------------------
\* What a reply says of a quoted basket is judged as it deserves: the prices
\* quoted, together and apart, are never flagged.  The card prices added up
\* as the price of buying together are flagged as just that, unless some
\* number shown is as close (with one of each, the price apart is that sum,
\* and the mistake goes unseen), or money shown adds up to it in another way;
\* and a duty explained by the taxable base shown is not called wrong, in a
\* currency no weaker than the one duties are rounded in (check_reply,
\* check_arithmetic).
FiguresAreJudged ==
  stage = "replied" =>
    LET sources == Sources(Shown(Basket), OwnWords, Remarks)
        amount == spoken.amounts[1]
        equation == spoken.equations[1]
        kind == KindOf(amount, sources)
        quoted == {Landed(QuoteBasket(Basket, request.dest, request.currency)),
                   Separately(Basket, request.dest, request.currency)}
        added == Len(Basket) = 2 /\ CardPrice(Basket[1]) # CardPrice(Basket[2])
                   /\ amount.value = SumOfCards(Basket)
    IN /\ amount.value \in quoted => kind = "sourced"
       /\ (added /\ amount.words = {"combined"} /\ kind # "basket_misadd") =>
            \/ kind = "sourced"
            \/ \E a, b \in sources.money :
                 /\ a < b /\ a + b = amount.value
                 /\ {a, b} # {CardPrice(l) : l \in ToSet(Basket)}
       /\ (added /\ \A l \in ToSet(Basket) : l.quantity = 1) => kind = "sourced"
       /\ (/\ equation.left = Convert(Taxable(<<Single(Basket[1].product)>>, request.dest), "CNY", request.currency)
           /\ RateToCNY[request.currency] >= RateToCNY["CNY"]) => Consistent(equation)
=============================================================================
