----------------------------- MODULE Evaluation -----------------------------
(***************************************************************************)
(* The evaluation of the agent from beginning to end: regression runs and  *)
(* A/B runs or memory replays, one after the other, over the same two      *)
(* services and the same data directory, with their files of partial       *)
(* results, their reports and what is derived from the reports.            *)
(***************************************************************************)
EXTENDS Regression, Deposits

vars == <<runnerVars, abVars, regVars, deposits>>

Init == RunnerInit /\ AbInit /\ RegInit /\ deposits = {}

\* The deposits and the row of a second judging stand for the step that makes them.
OutsideAb == deposits' = {} /\ rejudged' = NoRow /\ UNCHANGED <<chosen, readings>>

Next ==
  \/ AbNext /\ OutsideAb
  \/ RegNext /\ UNCHANGED <<left, rows, swayed>> /\ deposits' = {}
             /\ runJson' = IF pc' # "idle" THEN <<>> ELSE runJson
  \/ Verify /\ rejudged' = NoRow /\ UNCHANGED <<chosen, readings>>
  \/ (Execute \/ Inject \/ ConverseFaulty \/ Clear) /\ UNCHANGED abVars /\ OutsideAb
  \/ Kill /\ Forgotten /\ UNCHANGED runJson /\ OutsideAb
  \/ (Edit \/ Deploy) /\ UNCHANGED abVars /\ OutsideAb

Spec == Init /\ [][Next]_vars

-----------------------------------------------------------------------------
(***************************************************************************)
(* Properties                                                              *)
(***************************************************************************)

\* Does what is recorded of a sample, or was left out of it by a failing judge,
\* show that the faults stayed on?
Tells(t) == results[t].clearError \/ (kind = "regression" /\ results[t].lost)

\* A case that reads what another case has stored for its buyer finds it, also
\* in a run that was resumed after the preferences were moved away.
PremiseHolds == \A s \in DOMAIN results : results[s].ok => results[s].premised

\* Every sample of an A/B run was executed under one prompt of its arm; every
\* sample a run has executed itself under the faults its case declares, unless
\* its arm had active faults as the run began, or one of these samples tells of
\* a clearing that failed or had its judging fail after such a clearing.  (Of
\* the samples a resumed run takes over this is not true: the run may execute
\* again, or leave out, the case whose record told of the clearing.)
ConditionsAreKnown ==
  /\ pc # "idle" /\ kind = "ab" =>
       \A s \in DOMAIN results : results[s].config.prompt = config[s.arm].prompt
  /\ \A s \in own \cap DOMAIN results :
       results[s].declared \/ s.arm \in named \/ \E t \in own : Tells(t)

\* A judge who goes by the position decides no pair.
WinsSurviveSwap ==
  pc = "judging" => swayed + rows.wins + rows.losses <= Pairs - left

\* What a run has executed is on disk, wherever the runner is killed: in its
\* partial file or in a report.  (A kill in the middle of a write leaves a
\* file that cannot be read.)
NothingIsLost ==
  /\ \A r \in worked : r \in DOMAIN partials \/ r \in reported
  /\ \A s \in DOMAIN results :
       round \in reported
       \/ IF round \in DOMAIN partials THEN s \in DOMAIN partials[round].results
          ELSE s \in DOMAIN partials[from].results

\* Scores whose spread is taken for that of the agent were measured under one
\* prompt, one set of criteria and the declared faults, unless a run was
\* resumed or its report tells of the faults; a score is only compared with a
\* second judging by the same criteria.
ComparedAlike ==
  /\ \A r, q \in readings :
       r.group = q.group /\ ~(\E x \in {r, q} : x.resumed \/ x.told \/ x.group[1].faults) => r.truth = q.truth
  /\ rejudged.rulers[1] = rejudged.rulers[2]

\* Every sample that is counted was made under the conditions the report gives
\* for it, its prerequisites among them (partition_pending, execute_case).
SamplesAreValid == PremiseHolds /\ ConditionsAreKnown

\* What is called better is better by like measures (map_winner, variance,
\* rejudge_transcripts).
ComparisonsAreFair == WinsSurviveSwap /\ ComparedAlike

\* A deposit stands for a preference that was really stored, before the dialogue
\* it is confirmed by, unless calls overlapped in the log.
DepositsAreEarned == \A d \in deposits : (d.saved \/ d.overlapping) /\ d.heard
=============================================================================
