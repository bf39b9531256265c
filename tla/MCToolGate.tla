----------------------------- MODULE MCToolGate -----------------------------
(***************************************************************************)
(* A small instance of ToolGate for TLC.                                   *)
(***************************************************************************)
EXTENDS ToolGate, TLC

\* Two variants of one product, and a product nobody searched for; an answer
\* of the optimiser names a product without a sku.
MCItems == "variant" :> {<<"p1", "k1">>} @@ "other" :> {<<"p1", "k2">>, <<"p2", "k1">>}
MCFindings == {{<<"p1", "k1">>}, {<<"p2", "none">>}}

\* A sub-agent concludes with a text, or names a product nobody searched for.
MCConclusions == {{}, {<<"p2", "k1">>}}

\* Turns and sessions are interchangeable.
Symmetry == Permutations(Turns) \cup Permutations(Sessions)
=============================================================================
