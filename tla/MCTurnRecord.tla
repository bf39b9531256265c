---------------------------- MODULE MCTurnRecord ----------------------------
(***************************************************************************)
(* A small instance of TurnRecord for TLC: two amounts and room for one.   *)
(***************************************************************************)
EXTENDS TurnRecord, TLC

Symmetry == Permutations(Processes) \cup Permutations(Amounts)
=============================================================================
