---------------------------- MODULE MCEvaluation ----------------------------
(***************************************************************************)
(* A small instance of Evaluation for TLC: a case that stores preferences  *)
(* under a declared fault, and one that reads them without a fault.        *)
(***************************************************************************)
EXTENDS Evaluation

MCCases == <<"write", "recall">>
MCRequires == [c \in Range(MCCases) |-> IF c = "recall" THEN {"write"} ELSE {}]
MCVariant == "A" :> "mem-inject-off" @@ "B" :> "mem-inject-on"
MCDownstream == "write" :> "recall"
MCSelections == {MCCases}

MCJudgements ==
  {[l \in Levels |-> IF l = "p0" THEN p0 ELSE <<"met">>] :
     p0 \in {<<"met">>, <<"met", "unmet">>, NoList}}

Invoke(c, k) == [type |-> "invoke", call |-> c, kind |-> k, saved |-> FALSE]
Result(c, ok) == [type |-> "result", call |-> c, kind |-> "", saved |-> ok]

\* One call; two calls one after the other; two that overlap.
MCLogs ==
  {<<Invoke(1, "like"), Result(1, ok)>> : ok \in BOOLEAN}
  \cup {<<Invoke(1, "dislike"), Result(1, FALSE), Invoke(2, "dislike"), Result(2, TRUE)>>}
  \cup {<<Invoke(1, "like"), Invoke(2, k), Result(1, TRUE), Result(2, FALSE)>> : k \in {"dislike", "none"}}

Reply(mentions, present, claims) ==
  [mentions |-> mentions, present |-> present, explained |-> FALSE, main |-> present, claims |-> claims]
Mentioned == Reply(TRUE, FALSE, FALSE)
Shown(claims) == Reply(FALSE, TRUE, claims)
MCAnswered == {"on" :> Mentioned @@ "off" :> Shown(TRUE)}
              \cup {"on" :> Shown(claims) @@ "off" :> Mentioned : claims \in BOOLEAN}
=============================================================================
