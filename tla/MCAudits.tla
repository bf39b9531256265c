------------------------------ MODULE MCAudits ------------------------------
(***************************************************************************)
(* Beside the catalogue of MCPricing: conversations with a good and a bad  *)
(* amount, equation, address and appeal to the knowledge base.             *)
(***************************************************************************)
EXTENDS Audits, MCPricing

Reply(amounts, equations, fields, lines) ==
  [amounts |-> amounts, equations |-> equations, fields |-> fields, lines |-> lines]

Plain(values) == [i \in DOMAIN values |-> [value |-> values[i], words |-> {}]]
Equation(result) == [left |-> 200, rate |-> 500, result |-> result]
Address(core) == [complete |-> TRUE, card |-> FALSE, value |-> "content", core |-> core, parts |-> {core}]
InCard(value) == [complete |-> FALSE, card |-> TRUE, value |-> value, core |-> "mine", parts |-> {"mine", "usual"}]

Honest ==
  [fields |-> Fields("landed", {40}, TRUE), stated |-> {300}, remarks |-> {}, known |-> {"mine"}, insight |-> "full",
   replies |-> <<Reply(Plain(<<40>>), <<>>, {InCard("placeholder")}, {{"mention", "attribution", "absent"}}),
                 Reply(Plain(<<300, 41>>), <<Equation(100)>>, {Address("mine")}, {{"mention", "attribution"}})>>]

Invented ==
  [fields |-> {}, stated |-> {}, remarks |-> {}, known |-> {"mine"}, insight |-> "empty",
   replies |-> <<Reply(Plain(<<77>>), <<Equation(80)>>, {InCard("content")},
                       {{"mention", "attribution"}, {"mention"}})>>]

MCDialogues == {Honest, Invented}

MCAudited == {[tool |-> "quote", dest |-> "US", currency |-> "CNY", budget |-> 0,
               needs |-> <<[need |-> "item", ids |-> {1}, quantity |-> 2],
                           [need |-> "item", ids |-> {4}, quantity |-> 0]>>]}

CaseSymmetry == Permutations(Cases)
=============================================================================
