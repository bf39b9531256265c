----------------------------- MODULE Regression -----------------------------
(***************************************************************************)
(* The regression runner (scripts/eval_regression.py) and what is read     *)
(* from its reports: executing the selected cases on one service, judging  *)
(* every dialogue by the criteria of its case, the partial file, resuming, *)
(* the report; the groups of readings whose spread scripts/eval/variance.py*)
(* computes, and the second judging of scripts/eval/rejudge_transcripts.py.*)
(***************************************************************************)
EXTENDS CaseRunner

CONSTANTS Selections,  \* what --only, --tag and --exclude-tag select, in order
          Judgements,  \* what the judge answers: [level -> which criteria are met]
          Retries      \* attempts of a call of the judge

Levels == {"p0", "p1", "p2"}

\* What the judge says of a level: of each criterion whether it is met; or the
\* level is missing or no list.
NoList == <<"no_list">>

ASSUME RegressionAssumption ==
  /\ \A sel \in Selections : sel # <<>> /\ sel = Those(Cases, Range(sel))
  /\ \A j \in Judgements, l \in Levels : j[l] = NoList \/ j[l] \in Seq({"met", "unmet"})
  /\ Retries \in Nat \ {0}

VARIABLES
  chosen,     \* the selection of the current run
  readings,   \* what the reports hold of every case that was judged
  rejudged    \* the row of a second judging, after its step: the versions of
              \* the criteria of the two, and whether the verdict flips

regVars == <<chosen, readings, rejudged>>

NoRow == [rulers |-> <<0, 0>>, delta |-> 0, flip |-> FALSE]

RegInit == chosen = Cases /\ readings = {} /\ rejudged = NoRow

Service == "A"
Buyer == 0
Case(c) == Sample(c, Service, Buyer)

-----------------------------------------------------------------------------
(***************************************************************************)
(* Starting and resuming                                                   *)
(***************************************************************************)

\* plan_resume: what is not completed, with the completed cases it requires,
\* in the order of the selection.
PlanResume(selection, completed) ==
  LET pending == Range(selection) \ completed
      required == {d \in completed : \E c \in pending : d \in Requires[c]}
  IN Those(selection, pending \cup required)

\* merge_results, before anything is run: only what is selected is kept.
Kept(selection, previous) ==
  [s \in {s \in DOMAIN previous : s.case \in Range(selection)} |-> previous[s]]

\* main to the loop.  Neither the configuration nor the criteria of the file
\* are compared with those of now.
RegStart ==
  /\ Fresh(Service) /\ Sound(Service)
  /\ \E r \in {0} \cup DOMAIN partials, selection \in Selections :
       LET previous == IF r = 0 THEN <<>> ELSE partials[r].results
           completed == {s.case : s \in DOMAIN previous}
           plan == PlanResume(selection, completed)
       IN /\ Begin("regression", r, Kept(selection, previous))
          /\ chosen' = selection
          /\ todo' = [i \in DOMAIN plan |-> Case(plan[i])]
  /\ UNCHANGED <<serviceVars, partials, boundVars, worked, reported, readings>>

-----------------------------------------------------------------------------
(***************************************************************************)
(* Judging a dialogue                                                      *)
(***************************************************************************)

\* call_llm_with_retry: the first attempt that is no transient error, or the
\* last one.
Lasting(attempts) ==
  LET final == {i \in DOMAIN attempts : attempts[i] # "transient"}
  IN IF final = {} THEN "error" ELSE attempts[Min(final)]

Fetched == {Lasting(attempts) : attempts \in [1..Retries -> {"transient", "error", "answer"}]}

\* _validate_judged_shape: every level is a list.  It may be empty.
WellShaped(judged) == \A l \in Levels : judged[l] # NoList

\* score_case, in thousandths: a level counts by the share it meets, an empty
\* one in full.
Share(items) ==
  IF items = <<>> THEN 1000
  ELSE (1000 * Cardinality({i \in DOMAIN items : items[i] = "met"})) \div Len(items)

Score(judged) ==
  (50 * Share(judged["p0"]) + 35 * Share(judged["p1"]) + 15 * Share(judged["p2"])) \div 100

Verdict(judged) == IF Share(judged["p0"]) = 1000 /\ Score(judged) >= 700 THEN "PASS" ELSE "FAIL"

\* run_case after execute_case.  When the judging fails, the exception does not
\* carry the clearing that failed before it.
CaseResult(ok, verdict, judged, told) ==
  [ok |-> ok, verdict |-> verdict, judged |-> judged,
   clearError |-> executed.clearError /\ told, lost |-> executed.clearError /\ ~told,
   declared |-> executed.declared, premised |-> executed.premised,
   config |-> config[Head(todo).arm], rubric |-> disk.cases]

Outcome(judged) == CaseResult(TRUE, Verdict(judged), judged, TRUE)

Failure(told) == CaseResult(FALSE, "ERROR", <<>>, told)

Judged(outcome) ==
  IF ~executed.ok THEN outcome = Failure(TRUE) /\ UNCHANGED fails
  ELSE \E fetched \in Fetched, judged \in Judgements :
         IF fetched = "answer" /\ WellShaped(judged)
         THEN outcome = Outcome(judged) /\ UNCHANGED fails
         ELSE Fails /\ outcome = Failure(FALSE)

\* The rest of run_case and of the loop's body: what came of the case is kept,
\* and everything so far is written to the partial file.
RegRecord ==
  /\ pc = "executed" /\ kind = "regression"
  /\ LET s == Head(todo) IN
       \E outcome \in {Failure(TRUE), Failure(FALSE)} \cup {Outcome(j) : j \in {j \in Judgements : WellShaped(j)}} :
         /\ Judged(outcome)
         /\ own' = own \cup {s}
         /\ results' = [t \in DOMAIN results \cup {s} |-> IF t = s THEN outcome ELSE results[t]]
  /\ UNCHANGED <<kind, named>>
  /\ WritePartial(round, results')
  /\ todo' = Tail(todo) /\ pc' = "next" /\ executed' = NotExecuted
  /\ worked' = worked \cup {round}
  /\ UNCHANGED <<serviceVars, round, from, kills, torn, reported, chosen, readings>>

-----------------------------------------------------------------------------
(***************************************************************************)
(* The report, and what is read from it                                    *)
(***************************************************************************)

\* describe_run and config_key: the prompt the service reported as the run
\* began, and whether it named active faults.
Line(faults) == [prompt |-> config[Service].prompt, faults |-> faults]

\* The order of the report.
Before(c, d) == \E i, j \in DOMAIN chosen : i < j /\ chosen[i] = c /\ chosen[j] = d

\* collect_scores: what is judged, under its line, its criteria and its case.
Reading(s) ==
  [round |-> round, resumed |-> from # 0,
   told |-> \E t \in DOMAIN results :
     (results[t].clearError \/ results[t].lost) /\ (t = s \/ Before(t.case, s.case)),
   group |-> <<Line(Service \in named), results[s].rubric, s.case>>,
   judged |-> results[s].judged,
   truth |-> [prompt |-> results[s].config.prompt, declared |-> results[s].declared]]

\* The report is written, then the partial file of this run goes; the one it
\* was resumed from stays.
RegReport ==
  /\ pc = "next" /\ kind = "regression" /\ todo = <<>>
  /\ readings' = readings \cup {Reading(s) : s \in {s \in DOMAIN results : results[s].verdict # "ERROR"}}
  /\ reported' = reported \cup {round}
  /\ pc' = "unlink"
  /\ UNCHANGED <<serviceVars, partials, kind, round, from, todo, results, executed, boundVars,
                 named, own, worked, chosen>>

RegUnlink ==
  /\ pc = "unlink" /\ kind = "regression"
  /\ Without(round)
  /\ Ended
  /\ UNCHANGED <<serviceVars, kind, round, from, boundVars, historyVars, chosen, readings>>

\* pick_cases: the criteria are those the reading was judged by.
Eligible(reading) == reading.group[2] = disk.cases

\* _validate_judged, of the second judging: no level the case declares is empty.
Complete(judged) == \A l \in Levels : judged[l] \notin {NoList, <<>>}

\* rejudge_all and compare_result; a failing judge is a row without a score.
Rejudge ==
  /\ pc = "idle"
  /\ \E reading \in readings, judged \in Judgements :
       /\ Eligible(reading) /\ Complete(reading.judged) /\ Complete(judged)
       /\ rejudged' = [rulers |-> <<reading.group[2], disk.cases>>,
                        delta |-> Score(judged) - Score(reading.judged),
                        flip |-> Verdict(judged) # Verdict(reading.judged)]
  /\ UNCHANGED <<runnerVars, chosen, readings>>

RegNext ==
  \/ (RegStart \/ RegRecord \/ RegReport \/ RegUnlink) /\ rejudged' = NoRow
  \/ Rejudge
=============================================================================
