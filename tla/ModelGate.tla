----------------------------- MODULE ModelGate -----------------------------
(***************************************************************************)
(* The calls of the agents of one intent to the language model, through    *)
(* ThrottledChatModel: the slot of GatewayThrottle, taken before the first *)
(* attempt and held through retries, back-off, the fallback model and the  *)
(* whole of the stream; the spacing of the starts; the token budget that   *)
(* chooses the model; and the retry of the whole reply by the              *)
(* orchestrator around it.                                                 *)
(***************************************************************************)
EXTENDS Naturals, Sequences, FiniteSets

CONSTANTS Agents,      \* the main agent and its sub-agents, one call each at a time
          Slots,       \* LLM_MAX_CONCURRENCY
          Interval,    \* LLM_MIN_INTERVAL_SECONDS, in ticks
          MaxRetries,  \* LLM_MAX_RETRIES
          MaxRounds,   \* _MAX_TURN_RETRIES
          Total,       \* TOKEN_BUDGET_TOTAL
          Costs,       \* the tokens a call may report; 0: it reports none
          Nobody

ASSUME ModelGateAssumption ==
  /\ Slots \in Nat \ {0} /\ Interval \in Nat
  /\ MaxRetries \in Nat /\ MaxRounds \in Nat
  /\ Total \in Nat \ {0} /\ Costs \subseteq Nat
  /\ \E m \in Costs : \A n \in Costs : n <= m    \* the model's context window
  /\ IsFiniteSet(Agents) /\ Nobody \notin Agents

VARIABLES
  pc,        \* of each agent's call
  fallback,  \* whether LLM_FALLBACK_MODEL is set
  free,      \* the semaphore's value
  queue,     \* its waiters, first come first served
  sleeper,   \* the holder of _interval_lock
  wait,      \* how long a call still sleeps in _space_out
  since,     \* time since _last_start, up to Interval
  attempt, round,  \* retries of a call, of a reply
  serving,   \* the model a call is with
  used,      \* TokenBudget.used
  spent      \* history: the part of it the main model was charged for

gate == <<free, queue, sleeper, wait, since>>
gateVars == <<pc, fallback, gate, attempt, round, serving, used, spent>>

Upstream == {"calling", "rescue", "streaming"}     \* a request is in flight
Holding  == Upstream \cup {"locking", "sleeping", "backoff"}
Ended    == {"done", "failed", "cancelled"}

GateInit ==
  /\ pc = [a \in Agents |-> "idle"]
  /\ fallback \in BOOLEAN
  /\ free = Slots /\ queue = <<>>
  /\ sleeper = Nobody
  /\ wait = [a \in Agents |-> 0]
  /\ since = Interval
  /\ attempt = [a \in Agents |-> 0]
  /\ round = [a \in Agents |-> 0]
  /\ serving = [a \in Agents |-> "main"]
  /\ used = 0 /\ spent = 0

Goto(a, l) == pc' = [pc EXCEPT ![a] = l]

-----------------------------------------------------------------------------
(***************************************************************************)
(* GatewayThrottle.slot                                                    *)
(***************************************************************************)

Ask(a) ==
  /\ pc[a] = "idle"
  /\ Goto(a, "queued")
  /\ queue' = Append(queue, a)
  /\ UNCHANGED <<fallback, free, sleeper, wait, since, attempt, round, serving, used, spent>>

Admit(a) ==
  /\ pc[a] = "queued" /\ Head(queue) = a /\ free > 0
  /\ free' = free - 1 /\ queue' = Tail(queue)
  /\ Goto(a, "locking")
  /\ UNCHANGED <<fallback, sleeper, wait, since, attempt, round, serving, used, spent>>

\* _space_out: how long to sleep is worked out under the lock.
\* Defect: without the lock two calls work out the same time.
LockFree_Never(a) == TRUE

LockFree(a) == sleeper = Nobody

Lock(a) ==
  /\ pc[a] = "locking" /\ LockFree(a)
  /\ sleeper' = a
  /\ wait' = [wait EXCEPT ![a] = Interval - since]
  /\ Goto(a, "sleeping")
  /\ UNCHANGED <<fallback, free, queue, since, attempt, round, serving, used, spent>>

\* current_tier: more than half, a fifth, a twentieth of the budget is left.
Left == IF used > Total THEN 0 ELSE Total - used

Tier == CASE 2 * Left > Total -> "main"
          [] 2 * Left <= Total /\ 5 * Left > Total -> "lite"
          [] 5 * Left <= Total /\ 20 * Left > Total -> "minimal"
          [] OTHER -> "fallback"

\* _invoke_upstream: the tier is looked up at every attempt; without a
\* fallback model it is the main one in every tier, the last included.
Chosen == IF Tier # "main" /\ fallback THEN "fallback" ELSE "main"

\* The slot is entered; the first attempt starts.
Start(a) ==
  /\ pc[a] = "sleeping" /\ wait[a] = 0
  /\ since' = 0 /\ sleeper' = Nobody
  /\ Goto(a, "calling")
  /\ serving' = [serving EXCEPT ![a] = Chosen]
  /\ UNCHANGED <<fallback, free, queue, wait, attempt, round, used, spent>>

Tick ==
  /\ since < Interval \/ \E a \in Agents : wait[a] > 0
  /\ since' = IF since < Interval THEN since + 1 ELSE since
  /\ wait' = [a \in Agents |-> IF wait[a] > 0 THEN wait[a] - 1 ELSE 0]
  /\ UNCHANGED <<pc, fallback, free, queue, sleeper, attempt, round, serving, used, spent>>

-----------------------------------------------------------------------------
(***************************************************************************)
(* __call__ and _call_with_fallback                                        *)
(***************************************************************************)

\* Whatever ends the call gives the slot back, and the agent is as new.
\* Defect: an error leaves the slot with the call.
Release_OnSuccess(a, l) == free' = IF l = "done" THEN free + 1 ELSE free

Release(a, l) == free' = free + 1

Leave(a, l) ==
  /\ Goto(a, l) /\ Release(a, l)
  /\ attempt' = [attempt EXCEPT ![a] = 0]
  /\ serving' = [serving EXCEPT ![a] = "main"]

\* _charge_budget, with the model the tokens were spent on.
Charge(a, cost) ==
  /\ used' = used + cost
  /\ spent' = IF serving[a] = "main" THEN spent + cost ELSE spent

Uncharged == UNCHANGED <<used, spent>>

\* An answer without a stream.
Answer(a, cost) ==
  /\ pc[a] \in {"calling", "rescue"}
  /\ Charge(a, cost)
  /\ Leave(a, "done")
  /\ UNCHANGED <<fallback, queue, sleeper, wait, since, round>>

\* The slot goes with the stream.  Defect: it is given back with the generator.
Hold_Never(a) == free' = free + 1

Hold(a) == UNCHANGED free

Stream(a) ==
  /\ pc[a] \in {"calling", "rescue"}
  /\ Goto(a, "streaming") /\ Hold(a)
  /\ UNCHANGED <<fallback, queue, sleeper, wait, since, attempt, round, serving, used, spent>>

\* is_transient_error: back off, then the next attempt in the same slot, then
\* the fallback model, which is asked once.
BackOff(a) ==
  /\ pc[a] = "calling" /\ attempt[a] < MaxRetries
  /\ Goto(a, "backoff")
  /\ UNCHANGED <<fallback, gate, attempt, round, serving, used, spent>>

Retry(a) ==
  /\ pc[a] = "backoff"
  /\ Goto(a, "calling")
  /\ attempt' = [attempt EXCEPT ![a] = @ + 1]
  /\ serving' = [serving EXCEPT ![a] = Chosen]
  /\ UNCHANGED <<fallback, gate, round, used, spent>>

Rescue(a) ==
  /\ pc[a] = "calling" /\ attempt[a] = MaxRetries /\ fallback
  /\ Goto(a, "rescue")
  /\ serving' = [serving EXCEPT ![a] = "fallback"]
  /\ UNCHANGED <<fallback, gate, attempt, round, used, spent>>

\* _reply_with_retry: a transient failure asks again from the start.
Again(a, transient) ==
  IF transient /\ round[a] < MaxRounds
  THEN Leave(a, "idle") /\ round' = [round EXCEPT ![a] = @ + 1]
  ELSE Leave(a, "failed") /\ UNCHANGED round

\* No attempt is left, or the error is not transient.
Fail(a, transient) ==
  /\ \/ pc[a] = "rescue"
     \/ pc[a] = "calling" /\ (transient => attempt[a] = MaxRetries /\ ~fallback)
  /\ Again(a, transient) /\ Uncharged
  /\ UNCHANGED <<fallback, queue, sleeper, wait, since>>

-----------------------------------------------------------------------------
(***************************************************************************)
(* _release_after_stream                                                   *)
(***************************************************************************)

\* The stream is read to its end: usage comes with the last chunk.
ReadOut(a, cost) ==
  /\ pc[a] = "streaming"
  /\ Charge(a, cost) /\ Leave(a, "done")
  /\ UNCHANGED <<fallback, queue, sleeper, wait, since, round>>

\* It breaks: the error is the agent's, outside the retries of the call.
Break(a, transient) ==
  /\ pc[a] = "streaming"
  /\ Again(a, transient) /\ Uncharged
  /\ UNCHANGED <<fallback, queue, sleeper, wait, since>>

\* The turn is cancelled at any of the awaits, or lets go of the stream.
Cancel(a) ==
  /\ pc[a] \in Holding \cup {"queued"}
  /\ IF pc[a] = "queued"
     THEN /\ queue' = SelectSeq(queue, LAMBDA x : x # a)
          /\ Goto(a, "cancelled")
          /\ UNCHANGED <<free, attempt, serving>>
     ELSE Leave(a, "cancelled") /\ UNCHANGED queue
  /\ sleeper' = IF pc[a] = "sleeping" THEN Nobody ELSE sleeper
  /\ wait' = [wait EXCEPT ![a] = 0]
  /\ UNCHANGED <<fallback, since, round, used, spent>>

-----------------------------------------------------------------------------
Progress(a) ==
  \/ round[a] > 0 /\ Ask(a)
  \/ Admit(a) \/ Lock(a) \/ Start(a)
  \/ Stream(a) \/ BackOff(a) \/ Retry(a) \/ Rescue(a)
  \/ \E cost \in Costs : Answer(a, cost) \/ ReadOut(a, cost)
  \/ \E transient \in BOOLEAN : Fail(a, transient) \/ Break(a, transient)

GateNext ==
  \/ \E a \in Agents : Ask(a) \/ Progress(a) \/ Cancel(a)
  \/ Tick

GateSpec == GateInit /\ [][GateNext]_gateVars

\* The event loop runs what is ready, a retried reply asks again, the clock
\* goes on, a request ends in an answer or an error (the client has a time
\* limit), streams are read.
FairSpec == GateSpec /\ WF_gateVars(Tick) /\ \A a \in Agents : WF_gateVars(Progress(a))

(***************************************************************************)
(* Properties                                                              *)
(***************************************************************************)

InFlight == {a \in Agents : pc[a] \in Upstream}

\* Retries, fallback and streams included, the gateway never sees more than
\* Slots requests at once, and no slot is lost or given back twice.
\* (throttle.py: "the context must be held until the stream is exhausted".)
SlotsBound ==
  /\ Cardinality(InFlight) <= Slots
  /\ free + Cardinality({a \in Agents : pc[a] \in Holding}) = Slots

\* Two calls never start within Interval of each other, whoever is cancelled
\* while it sleeps.  (_space_out; retries and fallback calls are not spaced.)
StartsSpaced == [][\A a \in Agents : pc[a] = "sleeping" /\ pc'[a] = "calling" => since = Interval]_gateVars

\* With a fallback model, the main model costs less than half the budget and
\* what fits into the slots besides: calls in flight do not see each other's
\* tokens.  (budget.py, _charge_budget at the end of the stream.)
MostCost == CHOOSE m \in Costs : \A n \in Costs : n <= m
MainOverrunBounded == fallback => 2 * spent < Total + 2 * Slots * MostCost

\* What the gateway and the budget are promised of a busy intent: the slots
\* are a bound on the requests and, through them, on the overdraft.
WithinBounds == SlotsBound /\ MainOverrunBounded

\* A call that waits for a slot is served or cancelled, whatever the calls
\* before it come to.
Served == \A a \in Agents : pc[a] = "queued" ~> pc[a] \in Ended
=============================================================================
