------------------------------- MODULE AbRun -------------------------------
(***************************************************************************)
(* The A/B evaluation runner (scripts/eval/ab_run.py): executing the cases *)
(* one sample after the other on two services, the file of partial results *)
(* and resuming from it, judging every pair in both orders, the            *)
(* statistics, the report and the end of the partial file.  With Purge it  *)
(* is the memory replay of scripts/eval/mem_replay.py, which moves the     *)
(* preferences of earlier runs out of the way before it begins.            *)
(***************************************************************************)
EXTENDS CaseRunner

CONSTANTS K,           \* samples of a case and arm
          Votes,       \* judgements of a pair and order
          Purge,       \* is it the memory replay?
          Variant      \* [arm -> the PROMPT_VARIANT it was started with]

ASSUME AbRunAssumption ==
  /\ K \in Nat \ {0} /\ Votes \in 1..5 /\ Purge \in BOOLEAN
  /\ Variant \in [Range(Arms) -> STRING]

VARIABLES
  left, rows, \* pairs not judged yet; how the others were judged
  runJson,    \* the results of the run whose ab-run-*.json was written last
  swayed      \* history: pairs whose judges went by the position

judgeVars == <<left, rows>>
abVars == <<judgeVars, runJson, swayed>>

NoRows == [wins |-> 0, losses |-> 0, ties |-> 0, flips |-> 0, errors |-> 0]

AbInit == left = 0 /\ rows = NoRows /\ runJson = <<>> /\ swayed = 0

-----------------------------------------------------------------------------
(***************************************************************************)
(* Plan, preflight and resume                                              *)
(***************************************************************************)

Samples == {Sample(c, a, k) : c \in Range(Cases), a \in Range(Arms), k \in 1..K}

PlaceOf(x, list) == CHOOSE i \in DOMAIN list : list[i] = x

\* build_execution_plan: arm by arm, case by case, sample by sample.
Sooner(s, t) ==
  \/ PlaceOf(s.arm, Arms) < PlaceOf(t.arm, Arms)
  \/ /\ s.arm = t.arm
     /\ \/ PlaceOf(s.case, Cases) < PlaceOf(t.case, Cases)
        \/ s.case = t.case /\ s.k < t.k

Plan == InOrder(Samples, {pair \in Samples \X Samples : Sooner(pair[1], pair[2])})

\* partition_pending: what has no record, after what it requires of the rest.
\* Defect: what is done is not run again.
Pending_Only(done) == Those(Plan, Samples \ done)

Pending(done) ==
  LET pending == Samples \ done
      rerun == {p \in done : \E s \in pending : p \in Prerequisites(s)}
  IN Those(Plan, rerun) \o Those(Plan, pending)

\* preflight: the guards hold for both arms.
Preflight == \A a \in Range(Arms) : Fresh(a) /\ Sound(a)

\* preflight_arms: one prompt, the preferences injected into arm B only, or
\* wrong ones into arm A (the positive control).
ArmsDiffer ==
  /\ config["A"].prompt = config["B"].prompt
  /\ Variant["A"] \in {"mem-inject-off", "mem-weaker-corrupt-injection"} /\ Variant["B"] = "mem-inject-on"

\* check_resume_config: both prompts are those of the file.  The code is not
\* asked for.
Resumable(r) == \A a \in Range(Arms) : partials[r].config[a].prompt = config[a].prompt

\* purge_eval_preference_leftovers.
PurgeLeftovers == prefs' = IF Purge THEN {} ELSE prefs

MayStart == pc = "idle" /\ round < MaxRounds /\ Preflight /\ (Purge => ArmsDiffer)

\* main_async and run_ab_pipeline to the first _write_partial, anew or with --resume.
AbStart ==
  /\ MayStart
  /\ PurgeLeftovers
  /\ \E r \in {0} \cup DOMAIN partials :
       /\ r # 0 => Readable(r, "ab") /\ Resumable(r)
       /\ Begin("ab", r, IF r = 0 THEN <<>> ELSE partials[r].results)
  /\ todo' = Pending(DOMAIN results')
  /\ WritePartial(round', results')
  /\ left' = 0 /\ rows' = NoRows /\ runJson' = <<>>
  /\ UNCHANGED <<disk, config, faulted, boundVars, worked, reported, swayed>>

\* The file is of another prompt: only the preferences are gone.
AbStartRefused ==
  /\ MayStart
  /\ \E r \in DOMAIN partials : Readable(r, "ab") /\ ~Resumable(r)
  /\ PurgeLeftovers
  /\ UNCHANGED <<disk, config, faulted, partials, runVars, boundVars, historyVars, abVars>>

\* execute_ab_case's record; results.append and _write_partial.  The latest
\* record of a sample counts.
AbRecord ==
  /\ pc = "executed" /\ kind = "ab"
  /\ LET s == Head(todo)
         record == [ok |-> executed.ok, clearError |-> executed.clearError, declared |-> executed.declared,
                    premised |-> executed.premised, config |-> config[s.arm]]
     IN /\ results' = [t \in DOMAIN results \cup {s} |-> IF t = s THEN record ELSE results[t]]
        /\ own' = own \cup {s}
  /\ UNCHANGED <<kind, named>>
  /\ WritePartial(round, results')
  /\ todo' = Tail(todo) /\ pc' = "next" /\ executed' = NotExecuted
  /\ worked' = worked \cup {round}
  /\ UNCHANGED <<serviceVars, round, from, boundVars, reported, abVars>>

-----------------------------------------------------------------------------
(***************************************************************************)
(* Judging                                                                 *)
(***************************************************************************)

\* build_pairs_from_executions (diagonal): what both arms have executed.
Pairs == Cardinality({pair \in Range(Cases) \X (1..K) :
                        \A a \in Range(Arms) : results[Sample(pair[1], a, pair[2])].ok})

\* Defect: the partial file goes when the last sample has been executed.
Judge_Unlinks ==
  /\ pc = "next" /\ kind = "ab" /\ todo = <<>>
  /\ left' = Pairs /\ pc' = "judging" /\ Without(round)
  /\ UNCHANGED <<serviceVars, kind, round, from, todo, results, executed, boundVars, historyVars,
                 rows, runJson, swayed>>

\* All samples executed: now the pairs are judged.
Judge ==
  /\ pc = "next" /\ kind = "ab" /\ todo = <<>>
  /\ left' = Pairs /\ pc' = "judging"
  /\ UNCHANGED <<serviceVars, partials, kind, round, from, todo, results, executed, boundVars, historyVars,
                 rows, runJson, swayed>>

\* map_winner: the place the judge names, as the arm that stood there.
\* Defect: the order of the two is not looked at.
MapWinner_Fixed(winner, order) == CASE winner = "1" -> "A" [] winner = "2" -> "B" [] OTHER -> winner

MapWinner(winner, order) ==
  CASE winner = "1" -> order[1] [] winner = "2" -> order[2] [] OTHER -> winner

\* majority_verdict; a vote that fails or no majority fails the order.
Majority(winners) ==
  IF "error" \in Range(winners) THEN "error"
  ELSE LET count(w) == Cardinality({i \in DOMAIN winners : winners[i] = w})
       IN IF \E w \in Range(winners) : 2 * count(w) > Len(winners)
          THEN CHOOSE w \in Range(winners) : 2 * count(w) > Len(winners)
          ELSE "error"

\* What the judge can answer to a pair in one order, as a place.
Answers == {Majority(winners) : winners \in [1..Votes -> {"1", "2", "tie", "error"}]}

\* position_swap_consistency, decisive_indicators.
Tally(ab, ba) ==
  IF "error" \in {ab, ba} THEN "errors"
  ELSE IF ab # ba THEN "flips"
  ELSE CASE ab = "A" -> "wins" [] ab = "B" -> "losses" [] OTHER -> "ties"

\* _judge_one_pair.
JudgePair ==
  /\ pc = "judging" /\ left > 0
  /\ \E first, second \in Answers :
       LET row == Tally(MapWinner(first, <<"A", "B">>), MapWinner(second, <<"B", "A">>))
       IN /\ rows' = [rows EXCEPT ![row] = @ + 1]
          /\ swayed' = IF first = second /\ first \in {"1", "2"} THEN swayed + 1 ELSE swayed
  /\ left' = left - 1
  /\ UNCHANGED <<serviceVars, partials, runVars, boundVars, historyVars, runJson>>

\* significance's judge_valid: nine of ten pairs judged the same both ways.
JudgeValid ==
  LET same == rows.wins + rows.losses + rows.ties
  IN same + rows.flips > 0 /\ 10 * same >= 9 * (same + rows.flips)

\* May the partial file go?
Spent == JudgeValid /\ rows.errors = 0

Forgotten == left' = 0 /\ rows' = NoRows /\ swayed' = 0

\* The report and ab-run-*.json are written; then the partial files go, that
\* of this run first.
AbReport ==
  /\ pc = "judging" /\ left = 0
  /\ runJson' = results
  /\ reported' = reported \cup {round, from}
  /\ IF Spent THEN pc' = "unlink" /\ UNCHANGED <<todo, results, executed>> ELSE Ended
  /\ Forgotten
  /\ UNCHANGED <<serviceVars, partials, kind, round, from, boundVars, named, own, worked>>

AbUnlink ==
  /\ pc \in {"unlink", "unlink_old"} /\ kind = "ab"
  /\ Without(IF pc = "unlink" THEN round ELSE from)
  /\ IF pc = "unlink" /\ from # 0
     THEN pc' = "unlink_old" /\ UNCHANGED <<todo, results, executed>>
     ELSE Ended
  /\ UNCHANGED <<serviceVars, kind, round, from, boundVars, historyVars, abVars>>

AbNext == AbStart \/ AbStartRefused \/ AbRecord \/ Judge \/ JudgePair \/ AbReport \/ AbUnlink
=============================================================================
