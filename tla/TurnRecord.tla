----------------------------- MODULE TurnRecord -----------------------------
(***************************************************************************)
(* The end of a turn (handle_intent's finally block): the turn's events    *)
(* are drained from the bus, every amount, shipping field and knowledge    *)
(* claim of the reply must have a source among the tool results and buyer  *)
(* words of the session, and the turn is appended to the conversation      *)
(* log, from which the offline audits judge the same replies again.        *)
(*                                                                         *)
(* One session, whose turns run in several processes.  A fact stands for   *)
(* what a reply can state: the text matching of the checks is abstracted   *)
(* to equality, and a reply states at most one fact.  That two turns build *)
(* or lose an agent of one session is Turns' subject: here an agent is     *)
(* installed in one step and evicted between turns.                        *)
(***************************************************************************)
EXTENDS Naturals, Sequences, FiniteSets

CONSTANTS Processes,
          Amounts, Contacts, Insights,  \* the facts, by the check that judges them
          Retained,    \* MAX_RETAINED_NUMBERS, MAX_RETAINED_TEXTS
          MaxCalls,    \* bound: model calls of a turn
          MaxTurns,    \* bound: turns of the session, numbered as they begin
          MaxFaults,   \* bound: restarts, evictions and failed writes
          None

Turns == 1..MaxTurns
Facts == Amounts \cup Contacts \cup Insights
AgentStates == [talked : BOOLEAN, knows : SUBSET Facts]

ASSUME TurnRecordAssumption ==
  /\ Retained \in Nat \ {0}
  /\ MaxCalls \in Nat /\ MaxTurns \in Nat /\ MaxFaults \in Nat
  /\ None \notin Facts \cup Processes \cup AgentStates

VARIABLES
  pc, proc, asked, said,  \* of each turn: where it is, where it runs, its words
  replayed,  \* the turns answered by the semantic cache
  trace,     \* the events each turn has recorded, what they carry of facts
  context,   \* AgentState of the session's agent in each process, None when not cached
  saved,     \* the snapshot of the AgentState
  sources,   \* SessionSources, SessionContactSources, SessionKnowledgeSources
  flagged,   \* the turns that published an "unsourced" event
  log,       \* the conversation log, what its audits can tell apart: the sources in
             \* the buyer's words and the events, the replies made and not flagged
  usage,     \* the model calls each turn was recorded with
  faults,
  calls,     \* history: the model calls each turn made
  joined,    \* history: turns that ran together with another one of their process
  gaps,      \* history: facts each process's agent knows, and why no check can
  innocent,  \* history: turns flagged for a fact their agent knew, without such a gap
  incomplete \* history: some record of a finished turn was not written

turnVars == <<pc, proc, asked, said, replayed>>
checkVars == <<trace, sources, flagged, usage>>
histVars == <<calls, joined, gaps, innocent, incomplete>>
vars == <<turnVars, checkVars, context, saved, log, faults, histVars>>

Blank == [talked |-> FALSE, knows |-> {}]
NoSources == [amount |-> <<>>, contact |-> <<>>, insight |-> FALSE]

Init ==
  /\ pc = [t \in Turns |-> "idle"] /\ proc = [t \in Turns |-> None]
  /\ asked = [t \in Turns |-> None] /\ said = [t \in Turns |-> None]
  /\ replayed = {}
  /\ trace = [t \in Turns |-> <<>>]
  /\ context = [p \in Processes |-> None]
  /\ saved = Blank
  /\ sources = [p \in Processes |-> NoSources]
  /\ flagged = {}
  /\ log = [sources |-> {}, replies |-> {}]
  /\ usage = [t \in Turns |-> 0]
  /\ faults = 0
  /\ calls = [t \in Turns |-> 0] /\ joined = {}
  /\ gaps = [p \in Processes |-> {}] /\ innocent = {} /\ incomplete = FALSE

-----------------------------------------------------------------------------
Goto(t, l) == pc' = [pc EXCEPT ![t] = l]
Fact(f) == {f} \ {None}
Listening(t) == pc[t] \in {"open", "answered"}
Together(t) == {u \in Turns \ {t} : Listening(u) /\ proc[u] = proc[t]}

\* deliver_local: the subscribers of the session in the process of the turn.
Hearers(t) == {t} \cup Together(t)

(***************************************************************************)
(* The turn                                                                *)
(***************************************************************************)

\* subscribe, get_or_create (from the snapshot when the process has no
\* agent), and either a cached reply, for a session without a history, or the
\* inputs: f is in the buyer's words, or only in the hint of the preferences.
Begin(t, p, f, hinted, hit) ==
  /\ pc[t] = "idle" /\ \A u \in 1..(t - 1) : pc[u] # "idle"
  /\ proc' = [proc EXCEPT ![t] = p]
  /\ LET agent == IF context[p] = None THEN saved ELSE context[p]
         restored == IF context[p] = None THEN saved.knows ELSE {}
         hint == IF hinted THEN Fact(f) ELSE {}
     IN /\ hit => ~agent.talked /\ ~hinted
        /\ context' = [context EXCEPT ![p] =
             IF hit THEN agent ELSE [talked |-> TRUE, knows |-> agent.knows \cup Fact(f)]]
        /\ gaps' = [gaps EXCEPT ![p] = @ \cup restored \cup hint]
  /\ asked' = [asked EXCEPT ![t] = IF hinted THEN None ELSE f]
  /\ replayed' = IF hit THEN replayed \cup {t} ELSE replayed
  /\ LET others == {u \in Turns : Listening(u) /\ proc[u] = p}
     IN joined' = IF others = {} THEN joined ELSE joined \cup {t} \cup others
  /\ Goto(t, "open")
  /\ UNCHANGED <<said, checkVars, saved, log, faults, calls, innocent, incomplete>>

\* One model call and what its tool returns: llm.usage and tool.result are
\* published.  The event of web_search_tool carries no result, only a count.
Call(t, f, shown) ==
  /\ pc[t] = "open" /\ t \notin replayed /\ calls[t] < MaxCalls
  /\ calls' = [calls EXCEPT ![t] = @ + 1]
  /\ trace' = [u \in Turns |-> IF u \in Hearers(t)
                               THEN Append(trace[u], IF shown THEN f ELSE None) ELSE trace[u]]
  /\ LET p == proc[t]
     IN /\ context' = [context EXCEPT ![p].knows = @ \cup Fact(f)]
        /\ gaps' = [gaps EXCEPT ![p] = IF shown THEN @ ELSE @ \cup Fact(f)]
  /\ UNCHANGED <<turnVars, sources, flagged, usage, saved, log, faults, joined, innocent,
                 incomplete>>

\* final.result is published: what the cache replays or the model makes up may
\* be anything; an error reply states nothing.
Answer(t, f) ==
  /\ pc[t] = "open"
  /\ said' = [said EXCEPT ![t] = f]
  /\ Goto(t, "answered")
  /\ UNCHANGED <<proc, asked, replayed, checkVars, context, saved, log, faults, histVars>>

(***************************************************************************)
(* The checks                                                              *)
(***************************************************************************)
Carried(seq) == {f \in Facts : \E i \in DOMAIN seq : seq[i] = f}
Kept(seq) == IF Len(seq) > Retained THEN SubSeq(seq, Len(seq) - Retained + 1, Len(seq)) ELSE seq

\* The facts of a kind, as they came: the k-th is where k of them have come.
Of(kind, seq) ==
  LET at == {i \in DOMAIN seq : seq[i] \in kind}
      Kth(k) == CHOOSE i \in at : Cardinality({j \in at : j <= i}) = k
  IN [k \in 1..Cardinality(at) |-> seq[Kth(k)]]

\* observe, of the three checks.  One result of the knowledge base is a source
\* for whatever is said of it.
\* Defect: cleared at the end of the turn, like the loop detector.
Observed_ThisTurn(t) ==
  LET new == Append(trace[t], asked[t])
  IN [amount |-> Of(Amounts, new), contact |-> Of(Contacts, new), insight |-> Carried(trace[t]) \cap Insights # {}]

Observed(t) ==
  LET new == Append(trace[t], asked[t])
      old == sources[proc[t]]
  IN [amount |-> Kept(old.amount \o Of(Amounts, new)),
      contact |-> Kept(old.contact \o Of(Contacts, new)),
      insight |-> old.insight \/ Carried(trace[t]) \cap Insights # {}]

\* The facts that found their bucket full, or were in it.
Overflow(t) ==
  LET new == Append(trace[t], asked[t])
      old == sources[proc[t]]
      Pushed(kind, bucket) ==
        IF Len(bucket) + Len(Of(kind, new)) > Retained THEN Carried(bucket \o Of(kind, new)) ELSE {}
  IN Pushed(Amounts, old.amount) \cup Pushed(Contacts, old.contact)

\* check_reply, check_contact, check_knowledge.
Covered(s) == Carried(s.amount) \cup Carried(s.contact) \cup (IF s.insight THEN Insights ELSE {})

\* The finally block up to its first write of the log: persist, drain, check.
Close(t) ==
  /\ pc[t] = "answered"
  /\ Goto(t, "closed")
  /\ saved' = context[proc[t]]
  /\ usage' = [usage EXCEPT ![t] = Len(trace[t])]
  /\ IF t \in replayed THEN UNCHANGED <<sources, flagged, gaps, innocent>>
     ELSE LET p == proc[t]
              seen == Observed(t)
              alarm == said[t] # None /\ said[t] \notin Covered(seen)
              \* what no turn has observed yet, and what fell out of a full bucket
              open == UNION {Carried(trace[u]) \cup Fact(asked[u]) : u \in Together(t)}
              lack == (gaps[p] \cup Overflow(t)) \ Covered(seen)
          IN /\ sources' = [sources EXCEPT ![p] = seen]
             /\ flagged' = IF alarm THEN flagged \cup {t} ELSE flagged
             /\ gaps' = [gaps EXCEPT ![p] = lack]
             /\ innocent' = IF alarm /\ said[t] \in context[p].knows \ (lack \cup open)
                            THEN innocent \cup {t} ELSE innocent
  /\ UNCHANGED <<proc, asked, said, replayed, trace, context, log, faults, calls, joined,
                 incomplete>>

(***************************************************************************)
(* The log                                                                 *)
(***************************************************************************)
\* _record_conversation writes the buyer's turn, the agent's turn and the events;
\* n of these writes succeed.  The log is only appended to and nothing reads it
\* before the audits do, so the writes of one turn are one step.
\* Defect: a turn that failed leaves no events.
Written_OnSuccess(t, n) ==
  [sources |-> log.sources \cup (IF n >= 1 THEN Fact(asked[t]) ELSE {})
                           \cup (IF n = 3 /\ said[t] # None THEN Carried(trace[t]) ELSE {}),
   replies |-> log.replies \cup (IF n >= 2 /\ t \notin replayed \cup flagged THEN Fact(said[t]) ELSE {})]

Written(t, n) ==
  [sources |-> log.sources \cup (IF n >= 1 THEN Fact(asked[t]) ELSE {})
                           \cup (IF n = 3 THEN Carried(trace[t]) ELSE {}),
   replies |-> log.replies \cup (IF n >= 2 /\ t \notin replayed \cup flagged THEN Fact(said[t]) ELSE {})]

\* What is left of a turn that is over, or that died with its process.
Clear(ts) ==
  /\ proc' = [t \in Turns |-> IF t \in ts THEN None ELSE proc[t]]
  /\ asked' = [t \in Turns |-> IF t \in ts THEN None ELSE asked[t]]
  /\ said' = [t \in Turns |-> IF t \in ts THEN None ELSE said[t]]
  /\ trace' = [t \in Turns |-> IF t \in ts THEN <<>> ELSE trace[t]]
  /\ usage' = [t \in Turns |-> IF t \in ts THEN 0 ELSE usage[t]]
  /\ calls' = [t \in Turns |-> IF t \in ts THEN 0 ELSE calls[t]]
  /\ replayed' = replayed \ ts /\ flagged' = flagged \ ts /\ joined' = joined \ ts

\* A failed write is logged as a warning, and the rest is not written.
Record(t, n) ==
  /\ pc[t] = "closed"
  /\ log' = Written(t, n)
  /\ IF n = 3 THEN UNCHANGED <<faults, incomplete>>
     ELSE faults < MaxFaults /\ faults' = faults + 1 /\ incomplete' = TRUE
  /\ Goto(t, "done") /\ Clear({t})
  /\ UNCHANGED <<sources, context, saved, gaps, innocent>>

(***************************************************************************)
(* What is lost                                                            *)
(***************************************************************************)

\* forget_session, called when the agent is evicted.
Forget(p) ==
  /\ context[p] # None /\ faults < MaxFaults /\ faults' = faults + 1
  /\ \A t \in Turns : proc[t] = p => ~Listening(t)
  /\ context' = [context EXCEPT ![p] = None]
  /\ sources' = [sources EXCEPT ![p] = NoSources]
  /\ gaps' = [gaps EXCEPT ![p] = {}]
  /\ UNCHANGED <<turnVars, trace, flagged, usage, saved, log, calls, joined, innocent, incomplete>>

Restart(p) ==
  /\ context[p] # None /\ faults < MaxFaults /\ faults' = faults + 1
  /\ LET lost == {t \in Turns : proc[t] = p /\ pc[t] \notin {"idle", "done"}}
     IN /\ pc' = [t \in Turns |-> IF t \in lost THEN "done" ELSE pc[t]]
        /\ Clear(lost)
        /\ incomplete' = (incomplete \/ \E t \in lost : pc[t] = "closed")
  /\ context' = [context EXCEPT ![p] = None]
  /\ sources' = [sources EXCEPT ![p] = NoSources]
  /\ gaps' = [gaps EXCEPT ![p] = {}]
  /\ UNCHANGED <<saved, log, innocent>>

Next ==
  \/ \E t \in Turns, p \in Processes, f \in Amounts \cup Contacts \cup {None} :
       \E hinted, hit \in BOOLEAN : Begin(t, p, f, hinted, hit)
  \/ \E t \in Turns, f \in Facts \cup {None} :
       \/ \E shown \in BOOLEAN : Call(t, f, shown)
       \/ Answer(t, f)
  \/ \E t \in Turns : Close(t) \/ \E n \in 0..3 : Record(t, n)
  \/ \E p \in Processes : Forget(p) \/ Restart(p)

Spec == Init /\ [][Next]_vars

-----------------------------------------------------------------------------
(***************************************************************************)
(* Properties                                                              *)
(***************************************************************************)

\* A reply is flagged for a fact its agent did learn in the session only when
\* the fact came back with a snapshot, with a hint or in a result whose event
\* leaves it out, fell out of a full bucket, or is still in the trace of a
\* turn that has not ended: the checks keep their sources from turn to turn
\* (_check_number_provenance, _check_contact_provenance,
\* _check_knowledge_provenance).
AlarmsAreReal == innocent = {}

\* When every record of the finished turns was written, the offline audits
\* find nothing in a reply the service made in the session that the checks
\* had not flagged when it was given (audit_session and its siblings read the
\* sources of the whole session, the checks those of one process so far).
AuditAgrees ==
  ~incomplete /\ (\A t \in Turns : pc[t] # "closed") =>
    log.replies \subseteq log.sources \cup (IF log.sources \cap Insights # {} THEN Insights ELSE {})

\* The tokens a turn is recorded with are those of its own model calls, unless
\* another turn of the session ran in the same process meanwhile
\* (_summarize_usage sums whatever its subscription heard).
UsageIsOwn ==
  \A t \in Turns : pc[t] = "closed" /\ t \notin joined => usage[t] = calls[t]

\* What is written of a turn can be relied on afterwards: for the facts its
\* reply rests on, and for what it has cost.
LogIsTrue == AuditAgrees /\ UsageIsOwn
=============================================================================
