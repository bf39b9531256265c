------------------------------- MODULE Turns -------------------------------
(***************************************************************************)
(* The turns of shopping sessions: MainAgentOrchestrator.handle_intent     *)
(* with the agents SessionRegistry caches for it in each process (least    *)
(* recently used out), the snapshots SessionStore keeps between processes, *)
(* and the per-session records of the harness that decide whether an order *)
(* may be created: the turn count of ConfirmationTracker and the calls of  *)
(* SequencingTracker.  The steps between two awaits are one action.        *)
(***************************************************************************)
EXTENDS Naturals, Sequences, FiniteSets

CONSTANTS Turns,        \* the buyers' messages, each handled once
          Sessions,
          Processes,    \* API or worker processes with a registry of their own
          MaxSessions,  \* SESSION_CACHE_MAX
          MaxFaults,    \* bound: store failures and restarts
          NoAgent

ASSUME TurnsAssumption ==
  /\ MaxSessions \in Nat \ {0}
  /\ MaxFaults \in Nat
  /\ NoAgent \notin Turns

VARIABLES
  pc, session, process,  \* of each turn
  agents,    \* _agents: the cached agent of each session, per process
  lru,       \* its order: the sessions cached, least recently used first
  context,   \* AgentState: what the agent built by a turn has heard
  agent,     \* the agent a turn talks to, named by the turn that built it
  draft,     \* the snapshot a turn has read or is about to write
  saved,     \* the snapshot in the SessionStore ({}: none)
  count,     \* ConfirmationTracker._turns, counted up to 2
  called,    \* SequencingTracker._called: nothing, a search, or others only
  prior,     \* history: turns of the session answered before this one came
  answered,  \* history: turns whose reply or error was published
  said,      \* history: turns whose message reached their agent
  faults,    \* store failures and restarts so far
  frayed     \* history: what went wrong around each session (see Causes)

turnVars  == <<session, process>>
cacheVars == <<agents, lru>>
trackers  == <<count, called>>
vars == <<pc, turnVars, prior, cacheVars, context, agent, draft, saved, trackers, answered, said, faults, frayed>>

\* What may come between a session and its dialogue: two turns at once, the
\* eviction of its agent in mid-turn, a move to another process while one
\* still caches it, a snapshot that is not written or not read.
Causes == {"overlap", "evicted", "moved", "unsaved", "unread"}

Talking == {"loading", "restored", "fresh", "known", "replying"}
Active  == Talking \cup {"answered", "saving"}

Of(s)      == {t \in Turns : pc[t] # "idle" /\ session[t] = s}
ActiveIn(p) == {t \in Turns : pc[t] \in Active /\ process[t] = p}

Init ==
  /\ pc = [t \in Turns |-> "idle"]
  /\ session \in [Turns -> Sessions]
  /\ process \in [Turns -> Processes]
  /\ agents = [p \in Processes |-> [s \in Sessions |-> NoAgent]]
  /\ lru = [p \in Processes |-> <<>>]
  /\ context = [t \in Turns |-> {}]
  /\ agent = [t \in Turns |-> NoAgent]
  /\ draft = [t \in Turns |-> {}]
  /\ saved = [s \in Sessions |-> {}]
  /\ count = [p \in Processes |-> [s \in Sessions |-> 0]]
  /\ called = [p \in Processes |-> [s \in Sessions |-> "nothing"]]
  /\ faults = 0
  /\ prior = [t \in Turns |-> {}]
  /\ answered = {} /\ said = {}
  /\ frayed = [s \in Sessions |-> {}]

-----------------------------------------------------------------------------
Goto(t, l) == pc' = [pc EXCEPT ![t] = l]

Fray(s, cause) == frayed' = [frayed EXCEPT ![s] = @ \cup {cause}]
Keep == UNCHANGED frayed
FaultIf(fault) == IF fault THEN faults < MaxFaults /\ faults' = faults + 1 ELSE UNCHANGED faults
FrayIf(fault, s, cause) == IF fault THEN Fray(s, cause) ELSE Keep

(***************************************************************************)
(* get_or_create and begin_turn                                            *)
(***************************************************************************)

\* begin_turn.
NextCount(n, hasHistory) == IF n = 0 /\ ~hasHistory THEN 1 ELSE 2

\* The semantic cache is asked only without history.
Prepared(hasHistory) == IF hasHistory THEN "known" ELSE "fresh"

\* t comes to process p: get_or_create up to its first await.
Arrive(t) ==
  LET s == session[t]
      p == process[t]
      a == agents[p][s]
  IN /\ pc[t] = "idle"
     /\ prior' = [prior EXCEPT ![t] = answered \cap Of(s)]
     /\ frayed' = [frayed EXCEPT ![s] =
          @ \cup (IF \E u \in Of(s) : pc[u] \in Talking THEN {"overlap"} ELSE {})
            \cup (IF \E q \in Processes \ {p} : agents[q][s] # NoAgent THEN {"moved"} ELSE {})]
     /\ IF a = NoAgent
        THEN Goto(t, "loading") /\ UNCHANGED <<lru, agent, count>>
        ELSE /\ lru' = [lru EXCEPT ![p] = Append(SelectSeq(@, LAMBDA x : x # s), s)]
             /\ agent' = [agent EXCEPT ![t] = a]
             /\ count' = [count EXCEPT ![p][s] = NextCount(@, context[a] # {})]
             /\ Goto(t, Prepared(context[a] # {}))
     /\ UNCHANGED <<session, process, agents, context, draft, saved, called, faults, answered, said>>

\* _try_restore: an error reads as "no snapshot".
Load(t, ok) ==
  LET s == session[t]
  IN /\ pc[t] = "loading"
     /\ draft' = [draft EXCEPT ![t] = IF ok THEN saved[s] ELSE {}]
     /\ Goto(t, "restored")
     /\ FrayIf(~ok, s, "unread") /\ FaultIf(~ok)
     /\ UNCHANGED <<turnVars, prior, cacheVars, context, agent, saved, trackers, answered, said>>

\* An entry of the OrderedDict keeps its place when it is overwritten.
Queue(p, s) == IF agents[p][s] = NoAgent THEN Append(lru[p], s) ELSE lru[p]

\* _evict_if_needed.
Evicted(q) == IF Len(q) > MaxSessions THEN {Head(q)} ELSE {}

\* _forget_session.  Defect: nothing is forgotten.
Forget_Nothing(tracker, none, gone) == tracker

Forget(tracker, none, gone) ==
  [x \in Sessions |-> IF x \in gone THEN none ELSE tracker[x]]

\* The agent is built and cached, whatever was cached since; then begin_turn.
\* Defect: the snapshot is not handed to the agent.
Install_Blank(t) ==
  LET s == session[t]
      p == process[t]
      gone == Evicted(Queue(p, s))
  IN /\ pc[t] = "restored"
     /\ context' = [context EXCEPT ![t] = {}]
     /\ agent' = [agent EXCEPT ![t] = t]
     /\ agents' = [agents EXCEPT ![p] =
          [x \in Sessions |-> IF x \in gone THEN NoAgent ELSE IF x = s THEN t ELSE @[x]]]
     /\ lru' = [lru EXCEPT ![p] = SelectSeq(Queue(p, s), LAMBDA x : x \notin gone)]
     /\ draft' = [draft EXCEPT ![t] = {}]
     /\ called' = [called EXCEPT ![p] = Forget(@, "nothing", gone)]
     /\ count' = [count EXCEPT ![p] =
          [x \in Sessions |-> IF x = s THEN NextCount(@[s], draft[t] # {})
                                       ELSE Forget(@, 0, gone)[x]]]
     /\ Goto(t, Prepared(draft[t] # {}))
     /\ frayed' = [x \in Sessions |->
          frayed[x] \cup IF x \in gone /\ Of(x) \cap ActiveIn(p) # {} THEN {"evicted"} ELSE {}]
     /\ UNCHANGED <<turnVars, prior, saved, faults, answered, said>>

Install(t) ==
  LET s == session[t]
      p == process[t]
      gone == Evicted(Queue(p, s))
  IN /\ pc[t] = "restored"
     /\ context' = [context EXCEPT ![t] = draft[t]]
     /\ agent' = [agent EXCEPT ![t] = t]
     /\ agents' = [agents EXCEPT ![p] =
          [x \in Sessions |-> IF x \in gone THEN NoAgent ELSE IF x = s THEN t ELSE @[x]]]
     /\ lru' = [lru EXCEPT ![p] = SelectSeq(Queue(p, s), LAMBDA x : x \notin gone)]
     /\ draft' = [draft EXCEPT ![t] = {}]
     /\ called' = [called EXCEPT ![p] = Forget(@, "nothing", gone)]
     /\ count' = [count EXCEPT ![p] =
          [x \in Sessions |-> IF x = s THEN NextCount(@[s], draft[t] # {})
                                       ELSE Forget(@, 0, gone)[x]]]
     /\ Goto(t, Prepared(draft[t] # {}))
     /\ frayed' = [x \in Sessions |->
          frayed[x] \cup IF x \in gone /\ Of(x) \cap ActiveIn(p) # {} THEN {"evicted"} ELSE {}]
     /\ UNCHANGED <<turnVars, prior, saved, faults, answered, said>>

(***************************************************************************)
(* The reply and its tool calls                                            *)
(***************************************************************************)

\* No semantic-cache hit: the message goes to the agent.
Speak(t) ==
  /\ pc[t] \in {"fresh", "known"}
  /\ context' = [context EXCEPT ![agent[t]] = @ \cup {t}]
  /\ said' = said \cup {t}
  /\ Goto(t, "replying") /\ Keep
  /\ UNCHANGED <<turnVars, prior, cacheVars, agent, draft, saved, trackers, faults, answered>>

Record(t, tool) ==
  called' = [called EXCEPT ![process[t]][session[t]] = IF @ = "search" THEN @ ELSE tool]

\* HarnessToolMiddleware lets a tool call through: recorded before it runs.
Call(t, tool) ==
  /\ pc[t] = "replying"
  /\ Record(t, tool) /\ Keep
  /\ UNCHANGED <<pc, turnVars, prior, cacheVars, context, agent, draft, saved, count, faults, answered, said>>

\* SequencingTracker.check of create_order_tool: refused on evidence only.
Searched(t) ==
  called[process[t]][session[t]] # "other"

\* ConfirmationTracker.check: without a count it only warns.
\* Defect: the first turn only warns, too.
Confirmed_Warns(t) == TRUE

Confirmed(t) == count[process[t]][session[t]] # 1

\* create_order_tool passes both checks.  A call that they or those of
\* OrderProvenanceTracker refuse changes nothing.
Order(t) ==
  /\ pc[t] = "replying"
  /\ Searched(t) /\ Confirmed(t)
  /\ Record(t, "other") /\ Keep
  /\ UNCHANGED <<pc, turnVars, prior, cacheVars, context, agent, draft, saved, count, faults, answered, said>>

\* The reply, a reply from the semantic cache, or an error is published.
Answer(t) ==
  /\ pc[t] \in {"fresh", "known", "replying"}
  /\ answered' = answered \cup {t}
  /\ Goto(t, "answered") /\ Keep
  /\ UNCHANGED <<turnVars, prior, cacheVars, context, agent, draft, saved, trackers, faults, said>>

(***************************************************************************)
(* persist                                                                 *)
(***************************************************************************)

\* The turn lets go of all it holds.
End(t) ==
  /\ Goto(t, "done")
  /\ agent' = [agent EXCEPT ![t] = NoAgent]
  /\ draft' = [draft EXCEPT ![t] = {}]
  /\ prior' = [prior EXCEPT ![t] = {}]

\* The state of the agent cached by now is dumped, if there is one.
Persist(t) ==
  LET s == session[t]
      a == agents[process[t]][s]
  IN /\ pc[t] = "answered"
     /\ IF a = NoAgent
        THEN End(t) /\ Keep
        ELSE /\ draft' = [draft EXCEPT ![t] = context[a]]
             /\ FrayIf(\E u \in Of(s) : pc[u] = "saving", s, "overlap")
             /\ Goto(t, "saving") /\ UNCHANGED <<agent, prior>>
     /\ UNCHANGED <<turnVars, cacheVars, context, saved, trackers, faults, answered, said>>

\* SessionStore.save; a failure is only logged.
\* Defect: the turn's end clears the turn count with the loop detector.
Save_Uncounts(t, ok) ==
  LET s == session[t]
  IN /\ pc[t] = "saving"
     /\ saved' = IF ok THEN [saved EXCEPT ![s] = draft[t]] ELSE saved
     /\ count' = [count EXCEPT ![process[t]][s] = 0]
     /\ FrayIf(~ok, s, "unsaved") /\ FaultIf(~ok)
     /\ End(t)
     /\ UNCHANGED <<turnVars, cacheVars, context, called, answered, said>>

Save(t, ok) ==
  LET s == session[t]
  IN /\ pc[t] = "saving"
     /\ saved' = IF ok THEN [saved EXCEPT ![s] = draft[t]] ELSE saved
     /\ FrayIf(~ok, s, "unsaved") /\ FaultIf(~ok)
     /\ End(t)
     /\ UNCHANGED <<turnVars, cacheVars, context, trackers, answered, said>>

\* Process p goes down with its turns and its memory, and comes up empty.
Restart(p) ==
  /\ pc' = [t \in Turns |-> IF t \in ActiveIn(p) THEN "done" ELSE pc[t]]
  /\ agent' = [t \in Turns |-> IF t \in ActiveIn(p) THEN NoAgent ELSE agent[t]]
  /\ draft' = [t \in Turns |-> IF t \in ActiveIn(p) THEN {} ELSE draft[t]]
  /\ prior' = [t \in Turns |-> IF t \in ActiveIn(p) THEN {} ELSE prior[t]]
  /\ frayed' = [s \in Sessions |->
       frayed[s] \cup IF answered \cap Of(s) \cap ActiveIn(p) # {} THEN {"unsaved"} ELSE {}]
  /\ agents' = [agents EXCEPT ![p] = [s \in Sessions |-> NoAgent]]
  /\ lru' = [lru EXCEPT ![p] = <<>>]
  /\ count' = [count EXCEPT ![p] = [s \in Sessions |-> 0]]
  /\ called' = [called EXCEPT ![p] = [s \in Sessions |-> "nothing"]]
  /\ FaultIf(TRUE)
  /\ UNCHANGED <<turnVars, context, saved, answered, said>>

-----------------------------------------------------------------------------
Next ==
  \/ \E t \in Turns :
       \/ Arrive(t) \/ Install(t)
       \/ Speak(t) \/ Order(t) \/ Answer(t)
       \/ Persist(t)
       \/ \E ok \in BOOLEAN : Load(t, ok) \/ Save(t, ok)
       \/ \E tool \in {"search", "other"} : Call(t, tool)
  \/ \E p \in Processes : Restart(p)

Spec == Init /\ [][Next]_vars

(***************************************************************************)
(* Properties                                                              *)
(***************************************************************************)

Cached(p) == {s \in Sessions : agents[p][s] # NoAgent}

Replying(t) == pc[t] = "replying"
Heard(t) == prior[t] \cap said
Hears(t) == Heard(t) \subseteq context[agent[t]]

\* A turn is answered by an agent that has heard every message of the session
\* the buyer had an answer to before, across evictions and restarts, unless
\* one of the Causes came between.  (get_or_create, persist.)
SeesHistory ==
  \A t \in Turns : Replying(t) /\ frayed[session[t]] = {} => Hears(t)

\* create_order_tool cannot get through before the buyer had an answer, unless
\* the turn overlaps another one or its records were evicted under it.
\* (ConfirmationTracker, confirmation.py.)
FirstTurnNeverOrders ==
  \A t \in Turns :
    Replying(t) /\ prior[t] = {} /\ frayed[session[t]] \cap {"overlap", "evicted"} = {}
      => ~Confirmed(t)

\* A buyer whom the session has heard and answered before is not told that
\* this is the first turn, unless the snapshot was lost.  (begin_turn's
\* has_history: "a restart must not kill a lawful order".)
NoFalseRefusal ==
  \A t \in Turns :
    Replying(t) /\ Heard(t) # {} /\ frayed[session[t]] = {} => Confirmed(t)

\* A cached agent's turns are counted: the confirmation check never falls back
\* to its warning while the agent is there.  (composition._forget_session:
\* no "the agent is there and its records are gone".)
CountedWhileCached ==
  \A p \in Processes : \A s \in Cached(p) : count[p][s] > 0

\* Records are kept only for cached sessions, unless one was evicted in
\* mid-turn: its tool calls go on recording.  (forget_session: otherwise a
\* record stays until the process ends.)
RecordsFollowAgents ==
  \A p \in Processes, s \in Sessions :
    (called[p][s] # "nothing" \/ count[p][s] > 0) /\ "evicted" \notin frayed[s] => s \in Cached(p)

\* The confirmation check stands in the way of the turns it is meant for and
\* of no others (ConfirmationTracker.check, begin_turn's has_history).
ConfirmsTheRightTurns == FirstTurnNeverOrders /\ NoFalseRefusal
=============================================================================
