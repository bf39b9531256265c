------------------------------ MODULE Ordering ------------------------------
(***************************************************************************)
(* What sorting and filtering make of sets and sequences.                  *)
(***************************************************************************)
EXTENDS Integers, Sequences, FiniteSets

\* A set in the order of a relation: the k-th is the one k - 1 others precede.
InOrder(set, before) ==
  [k \in 1..Cardinality(set) |->
     CHOOSE x \in set : Cardinality({y \in set : <<y, x>> \in before}) = k - 1]

Ascending(set) == InOrder(set, {pair \in set \X set : pair[1] < pair[2]})

\* What a ranking has of a set, in its order.
Those(ranking, set) ==
  LET places == Ascending({i \in DOMAIN ranking : ranking[i] \in set})
  IN [k \in DOMAIN places |-> ranking[places[k]]]
=============================================================================
