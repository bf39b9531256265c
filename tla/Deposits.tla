------------------------------ MODULE Deposits ------------------------------
(***************************************************************************)
(* The deposits of the memory replay (scripts/eval/mem_deposit.py,         *)
(* app/domain/buyer/deposit.py, app/application/memory/deposit_store.py):  *)
(* taking the stored preferences from the log of a session, choosing the   *)
(* verifier of each, comparing what the two arms answered, and the store.  *)
(***************************************************************************)
EXTENDS AbRun

CONSTANTS Downstream,  \* [trigger case -> the case in which its preference shows]
          Chains,      \* what the trigger case is of: "kept" or "withdrawn"
          Logs,        \* the logs of a session: calls of remember_preference_tool
          Answered     \* what the replies of the two arms can show of a preference

\* A log is a sequence of events; "call" is not in it, it names the call an
\* event really belongs to: a call begins once, and ends at most once, after that.
Events == [type : {"invoke", "result"}, call : Nat, kind : STRING, saved : BOOLEAN]

WellFormed(log) ==
  /\ log \in Seq(Events)
  /\ \A i, j \in DOMAIN log : log[i].type = log[j].type /\ log[i].call = log[j].call => i = j
  /\ \A j \in DOMAIN log : log[j].type = "result" =>
       \E i \in 1..(j - 1) : log[i].type = "invoke" /\ log[i].call = log[j].call

ASSUME DepositsAssumption ==
  /\ \A log \in Logs : WellFormed(log)
  /\ DOMAIN Downstream \subseteq Range(Cases) /\ Range(Downstream) \subseteq Range(Cases)
  /\ Chains \subseteq {"kept", "withdrawn"}
  /\ Answered \subseteq [{"on", "off"} -> [mentions : BOOLEAN, present : BOOLEAN, explained : BOOLEAN,
                                          main : BOOLEAN, claims : BOOLEAN]]

VARIABLE deposits      \* what the last step has added to the deposit store

-----------------------------------------------------------------------------
(***************************************************************************)
(* The log                                                                 *)
(***************************************************************************)

\* extract_remember_calls: one pending call, which the next result settles.
\* Defect: a result that failed counts too.
Settles_Always(event) == TRUE

Settles(event) == event.saved

Writes(log) ==
  LET settling == {i \in 2..Len(log) : /\ log[i].type = "result" /\ Settles(log[i])
                                       /\ log[i - 1].type = "invoke"}
      places == Ascending(settling)
  IN [n \in DOMAIN places |-> log[places[n] - 1]]

\* What really happened: was the call's preference stored; did calls overlap?
Saved(log, call) == \E i \in DOMAIN log : log[i].type = "result" /\ log[i].call = call /\ log[i].saved
Overlapping(log) == \E i \in 1..(Len(log) - 1) : log[i].type = "invoke" /\ log[i + 1].type = "invoke"

-----------------------------------------------------------------------------
(***************************************************************************)
(* The verifiers                                                           *)
(***************************************************************************)

\* build_deposit: the verifier registered for the kind of a preference; a kind
\* without one is not verifiable.
Verifier(chain, kindOf) ==
  CASE kindOf = "like" -> "preference_mention"
    [] kindOf = "dislike" /\ chain = "withdrawn" -> "recall_restored"
    [] kindOf = "dislike" /\ chain = "kept" -> "recommendation_compliance"
    [] OTHER -> "none"

\* RecommendationComplianceVerifier._judge: the product is not the main
\* recommendation, and where it is named the conflict is explained.
Complies(reply) == reply.present => ~reply.main /\ reply.explained

\* PreferenceRecallRestoredVerifier._judge.
Restored(reply) == reply.present /\ ~reply.claims

\* The verifiers' check, arm B (preferences injected) against arm A.
Confirms(verifier, on, off) ==
  CASE verifier = "preference_mention" -> on.mentions /\ ~off.mentions
    [] verifier = "recommendation_compliance" -> Complies(on) /\ ~Complies(off)
    [] verifier = "recall_restored" -> Restored(on)

-----------------------------------------------------------------------------
(***************************************************************************)
(* Verifying a run                                                         *)
(***************************************************************************)

\* The samples of arm B whose session is read.
Triggers == {s \in DOMAIN runJson : s.arm = "B" /\ runJson[s].ok /\ s.case \in DOMAIN Downstream}

\* _paired_transcripts: both arms have executed the downstream case.
Paired(s) == \A a \in Range(Arms) : runJson[Sample(Downstream[s.case], a, s.k)].ok

Deposit(s, log, write, verifier) ==
  [sample |-> s, call |-> write.call, verifier |-> verifier,
   saved |-> Saved(log, write.call), overlapping |-> Overlapping(log),
   heard |-> runJson[Sample(Downstream[s.case], "B", s.k)].premised]

\* verify_against_run of one session: what is confirmed is stored at once, also
\* when a write without a verifier makes the report of the run fail later.
\* DepositStore.append keeps one deposit of a preference and session.
Verify ==
  /\ runJson # <<>> /\ Variant["A"] = "mem-inject-off"
  /\ \E s \in Triggers, log \in Logs, chain \in Chains, reply \in Answered :
       LET writes == Writes(log)
           confirmed == {i \in DOMAIN writes :
                           LET verifier == Verifier(chain, writes[i].kind)
                           IN verifier # "none" /\ Paired(s) /\ Confirms(verifier, reply["on"], reply["off"])}
       IN deposits' = {Deposit(s, log, writes[i], Verifier(chain, writes[i].kind)) : i \in confirmed}
  /\ UNCHANGED <<runnerVars, abVars>>
=============================================================================
