----------------------------- MODULE CaseRunner -----------------------------
(***************************************************************************)
(* What the evaluation runners share (scripts/eval_regression.py, used by  *)
(* scripts/eval/ab_run.py and mem_replay.py): the services under test      *)
(* ("arms"), the guards on what their /health reports, the execution of    *)
(* one case with the faults it declares, the file of partial results, and  *)
(* what happens around a run: edits, restarts of a service, kills.         *)
(***************************************************************************)
EXTENDS Ordering, SequencesExt, FiniteSetsExt, Functions

CONSTANTS Cases,       \* the ids of the cases, in the order of cases.yaml
          Requires,    \* [case -> the cases it requires]
          Faulty,      \* the cases that declare faults
          MaxRounds,   \* bound: starts of a runner
          MaxFails,    \* bound: calls of a service or a judge that fail, and services
                       \*        started without the settings the guards demand
          MaxKills,    \* bound: kills of a runner
          MaxEdits     \* bound: edits of the code, the prompt or cases.yaml

ASSUME CaseRunnerAssumption ==
  /\ Cases \in Seq(STRING) /\ IsInjective(Cases) /\ Cases # <<>>
  /\ Faulty \subseteq Range(Cases)
  /\ Requires \in [Range(Cases) -> SUBSET Range(Cases)]
  /\ \A i, j \in DOMAIN Cases : Cases[j] \in Requires[Cases[i]] => j < i /\ Requires[Cases[j]] = {}
  /\ {MaxRounds, MaxFails, MaxKills, MaxEdits} \subseteq Nat

Arms == <<"A", "B">>

VARIABLES
  disk,       \* the sources: versions of code, prompt and cases.yaml
  config,     \* [arm -> what /health reports: code, prompt, and whether it was
              \*         started as the guards demand]
  faulted,    \* the arms whose FaultRegistry has active faults
  prefs,      \* the samples whose preferences are in the common store
  partials,   \* [round -> the partial file it has left]
  pc,         \* of the runner: "idle", or what it does next
  kind,       \* "ab" or "regression"
  round, from,   \* the number of the run, and of the one it was resumed from (0: none)
  todo,       \* the samples still to run
  results,    \* [sample -> the record of its execution]
  executed,   \* of the sample at hand: how its execution went
  fails, kills, \* bounds
  torn,       \* the rounds killed while they wrote the partial file
  named,      \* the arms whose line of this run names active faults: those
              \* it had as the run began
  own,        \* history: the samples this run has recorded itself
  worked,     \* history: the rounds that have recorded a sample
  reported    \* history: the rounds whose results are in a report

serviceVars == <<disk, config, faulted, prefs>>
runVars == <<pc, kind, round, from, todo, results, executed>>
boundVars == <<fails, kills, torn>>
historyVars == <<named, own, worked, reported>>
runnerVars == <<serviceVars, partials, runVars, boundVars, historyVars>>

NotExecuted == [ok |-> FALSE, clearError |-> FALSE, declared |-> TRUE, premised |-> TRUE]

RunnerInit ==
  /\ disk = [code |-> 0, prompt |-> 0, cases |-> 0]
  /\ config = [a \in Range(Arms) |-> [code |-> 0, prompt |-> 0, sound |-> TRUE]]
  /\ faulted = {} /\ prefs = {}
  /\ partials = <<>>
  /\ pc = "idle" /\ kind = "ab" /\ round = 0 /\ from = 0 /\ todo = <<>> /\ results = <<>>
  /\ executed = NotExecuted
  /\ fails = 0 /\ kills = 0 /\ torn = {}
  /\ named = {} /\ own = {} /\ worked = {} /\ reported = {}

-----------------------------------------------------------------------------
(***************************************************************************)
(* Guards                                                                  *)
(***************************************************************************)

\* _guard_stale_service: the process is as new as the sources.
Fresh(arm) == config[arm].code = disk.code

\* _guard_semantic_cache, _guard_ephemeral_data_dir, guard_fault_support: no
\* cached replies, a log that stays, faults where a case declares them.
Sound(arm) == config[arm].sound

\* A sample: a case, the arm that runs it, and whose buyer it is (0: that of
\* the regression, k: that of the k-th sample of the arm).
Sample(c, a, k) == [case |-> c, arm |-> a, k |-> k]

\* What a sample needs to have been run before it, by its own buyer.
Prerequisites(s) == {Sample(c, s.arm, s.k) : c \in Requires[s.case]}

\* The file of a run that can be read, of the same runner.
Readable(r, k) == r \in DOMAIN partials \ torn /\ partials[r].kind = k

WritePartial(n, res) ==
  partials' = [r \in DOMAIN partials \cup {n} |->
                 IF r = n THEN [kind |-> kind', results |-> res, config |-> config] ELSE partials[r]]

Without(r) == partials' = [n \in DOMAIN partials \ {r} |-> partials[n]]

\* The start of a run, anew (r = 0) or from the results of another one.
Begin(k, r, previous) ==
  /\ pc = "idle" /\ round < MaxRounds
  /\ r # 0 => Readable(r, k)
  /\ kind' = k /\ round' = round + 1 /\ from' = r
  /\ results' = previous
  /\ named' = faulted /\ own' = {}
  /\ pc' = "next" /\ executed' = NotExecuted

-----------------------------------------------------------------------------
(***************************************************************************)
(* Executing a case                                                        *)
(***************************************************************************)
Fails == fails < MaxFails /\ fails' = fails + 1

\* apply_faults: the service may have done it though the call fails.
ApplyFaults(arm, on, ok) ==
  LET done == IF on THEN faulted \cup {arm} ELSE faulted \ {arm}
  IN \/ ok /\ faulted' = done /\ UNCHANGED fails
     \/ ~ok /\ Fails /\ faulted' \in {faulted, done}

\* The dialogue: the preferences it states are stored, though it may fail later.
Converse(s, ok) ==
  LET writes == \E c \in Range(Cases) : s.case \in Requires[c]
      stored == IF writes THEN prefs \cup {s} ELSE prefs
  IN \/ ok /\ prefs' = stored /\ UNCHANGED fails
     \/ ~ok /\ Fails /\ prefs' \in {prefs, stored}

\* Did the sample run under the faults it declares, and after what it requires?
Declared(s) == (s.arm \in faulted) = (s.case \in Faulty)
Premised(s) ==
  \A p \in Prerequisites(s) : p \in DOMAIN results /\ results[p].ok => p \in prefs

\* execute_case of a case without faults.
Execute ==
  /\ pc = "next" /\ todo # <<>> /\ Head(todo).case \notin Faulty
  /\ LET s == Head(todo) IN
       \E ok \in BOOLEAN :
         /\ Converse(s, ok)
         /\ executed' = [ok |-> ok, clearError |-> FALSE,
                         declared |-> Declared(s), premised |-> Premised(s)]
  /\ pc' = "executed"
  /\ UNCHANGED <<disk, config, faulted, partials, kind, round, from, todo, results, kills, torn, historyVars>>

\* execute_case of a case with faults: inject, converse, clear whatever happened.
Inject ==
  /\ pc = "next" /\ todo # <<>> /\ Head(todo).case \in Faulty
  /\ \E ok \in BOOLEAN :
       /\ ApplyFaults(Head(todo).arm, TRUE, ok)
       /\ pc' = IF ok THEN "conversing" ELSE "clearing"
  /\ executed' = NotExecuted
  /\ UNCHANGED <<disk, config, prefs, partials, kind, round, from, todo, results, kills, torn, historyVars>>

ConverseFaulty ==
  /\ pc = "conversing"
  /\ LET s == Head(todo) IN
       \E ok \in BOOLEAN :
         /\ Converse(s, ok)
         /\ executed' = [ok |-> ok, clearError |-> FALSE,
                         declared |-> ok => Declared(s), premised |-> Premised(s)]
  /\ pc' = "clearing"
  /\ UNCHANGED <<disk, config, faulted, partials, kind, round, from, todo, results, kills, torn, historyVars>>

\* A clearing that fails is told with the result, or with the exception.
ClearError(ok) == ~ok

Clear ==
  /\ pc = "clearing"
  /\ \E ok \in BOOLEAN :
       /\ ApplyFaults(Head(todo).arm, FALSE, ok)
       /\ executed' = [executed EXCEPT !.clearError = ClearError(ok)]
  /\ pc' = "executed"
  /\ UNCHANGED <<disk, config, prefs, partials, kind, round, from, todo, results, kills, torn, historyVars>>

-----------------------------------------------------------------------------
(***************************************************************************)
(* The surroundings                                                        *)
(***************************************************************************)

\* The process is gone, with what it had in memory.
Ended ==
  /\ pc' = "idle" /\ todo' = <<>> /\ results' = <<>> /\ executed' = NotExecuted

\* A runner is killed, perhaps while it writes the partial file, which is then
\* no JSON any more.
Kill ==
  /\ pc # "idle" /\ kills < MaxKills /\ kills' = kills + 1
  /\ Ended
  /\ torn' \in {torn, IF pc = "next" /\ round \in DOMAIN partials THEN torn \cup {round} ELSE torn}
  /\ UNCHANGED <<serviceVars, partials, kind, round, from, fails, historyVars>>

\* The sources change between two runs (a run reads them as it begins).
Edit ==
  /\ pc = "idle" /\ disk.code + disk.cases < MaxEdits
  /\ disk' \in {[disk EXCEPT !.code = @ + 1],
                [disk EXCEPT !.code = @ + 1, !.prompt = @ + 1],
                [disk EXCEPT !.cases = @ + 1]}
  /\ UNCHANGED <<config, faulted, prefs, partials, runVars, boundVars, historyVars>>

\* A service is started again between two runs, from the sources as they are.
Deploy ==
  /\ pc = "idle"
  /\ \E a \in Range(Arms), sound \in BOOLEAN :
       LET now == [code |-> disk.code, prompt |-> disk.prompt, sound |-> sound]
       IN /\ config[a] # now \/ a \in faulted
          /\ config' = [config EXCEPT ![a] = now] /\ faulted' = faulted \ {a}
          /\ IF sound THEN UNCHANGED fails ELSE Fails
  /\ UNCHANGED <<disk, prefs, partials, runVars, kills, torn, historyVars>>
=============================================================================
