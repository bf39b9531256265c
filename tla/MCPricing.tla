----------------------------- MODULE MCPricing -----------------------------
(***************************************************************************)
(* A small catalogue and rule table for TLC, with amounts of a few cents   *)
(* so that every rounding case occurs.                                     *)
(***************************************************************************)
EXTENDS Pricing

MCPrice == <<7, 12, 5, 31>>
MCCurrencyOf == <<"CNY", "USD", "USD", "CNY">>
MCCategory == <<"digital", "travel", "digital", "travel">>
MCShipsTo == <<{"US", "EU"}, {"US", "EU"}, {"US"}, {"US", "EU"}>>
MCRateToCNY == [CNY |-> 2, USD |-> 15]
MCDutyRate == [US |-> [digital |-> 125, travel |-> 75], EU |-> [digital |-> 500, travel |-> 500]]
MCDeMinimis == [US |-> [amount |-> 5, currency |-> "USD"], EU |-> [amount |-> 3, currency |-> "CNY"]]
MCBaseFreight == [US |-> 32, EU |-> 37]

Needs == [need : {"a"}, ids : {{1}, {4}, {1, 2}, {2, 3}, {3}, {9}}, quantity : {1, 2}]
     \cup [need : {"b"}, ids : {{1}, {2, 4}, {}}, quantity : {0, 3}]
     \cup [need : {"b"}, ids : {{1}}, quantity : {-1}]

MCRequests ==
  [tool : {"optimize"}, needs : {<<>>} \cup {<<m>> : m \in Needs} \cup (Needs \X Needs),
   dest : {"US", "EU", "DE"}, currency : {"CNY", "USD"}, budget : {0, 40, 90, 140}]
  \cup
  [tool : {"quote"},
   needs : UNION {[1..n -> [need : {"item"}, ids : {{p} : p \in 1..4}, quantity : {0, 2}]] : n \in 1..3},
   dest : {"US", "EU"}, currency : {"CNY", "USD"}, budget : {0}]
=============================================================================
