--------------------------- MODULE MCReplyMemory ---------------------------
(***************************************************************************)
(* A small instance of ReplyMemory for TLC.                                *)
(***************************************************************************)
EXTENDS ReplyMemory, TLC

\* One statement held as a dislike and as a like, with room for one of them if
\* they had to compete.
MCPreferences == {<<"dislike", "plastic">>, <<"like", "plastic">>}

Symmetry ==
  Permutations(Turns) \cup Permutations(Sessions) \cup Permutations(Processes)
=============================================================================
