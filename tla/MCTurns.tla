------------------------------ MODULE MCTurns ------------------------------
(***************************************************************************)
(* Small instances of Turns for TLC.                                       *)
(***************************************************************************)
EXTENDS Turns, TLC

\* Turns, sessions and processes are interchangeable.
Symmetry ==
  Permutations(Turns) \cup Permutations(Sessions) \cup Permutations(Processes)
=============================================================================
