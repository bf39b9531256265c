--------------------------- MODULE SharedBreaker ---------------------------
(***************************************************************************)
(* The circuit breaker of one tool as the tool calls meet it: through a    *)
(* CircuitBreakerRegistry (one process, every operation at once) or a      *)
(* SharedCircuitBreakerRegistry, where the state is a Redis key that all   *)
(* replicas read and write with a GET and a SET of their own, so that      *)
(* anything may happen in between.  A Redis call that fails is swallowed:  *)
(* a failed GET reads as "no state", a failed SET or DEL does nothing.     *)
(***************************************************************************)
EXTENDS Naturals, FiniteSets

CONSTANTS Calls, Threshold, Reset, Closed,
          Absent       \* Redis: no such key

VARIABLES
  shared,      \* which registry the container was built with
  healthy,     \* from some point on the tool works and Redis answers
  store,       \* the registry's state
  position,    \* where each tool call is in on_tool_call
  held,        \* the state a call has computed and not written yet
  current,     \* history: calls whose last read is still what the store holds
  streak,      \* history: failures recorded since the last success recorded
  recent,      \* history: time since the last failure, up to Reset
  disturbed    \* history: a write met another one's, Redis failed, a key expired

breakerVars == <<shared, healthy, store, position, held, current, streak, recent, disturbed>>

View(s) == IF s = Absent THEN [failures |-> 0, open |-> Closed, half |-> FALSE] ELSE s

Running == {c \in Calls : position[c] \in {"running", "recording"}}

\* The registry of a single process.
Local == INSTANCE CircuitBreaker WITH state <- View(store), running <- Running

ASSUME SharedBreakerAssumption ==
  /\ Threshold \in Nat \ {0}
  /\ Reset \in Nat \ {0}
  /\ Closed \notin Nat
  /\ Absent \notin Local!State

BreakerInit ==
  /\ shared \in BOOLEAN
  /\ healthy = FALSE
  /\ store = Absent
  /\ position = [c \in Calls |-> "idle"]
  /\ held = [c \in Calls |-> Local!Fresh]
  /\ current = {}
  /\ streak = 0
  /\ recent = Reset
  /\ disturbed = FALSE

-----------------------------------------------------------------------------
Reach(c, l) == position' = [position EXCEPT ![c] = l]

\* c writes s, or its write is lost: whatever others have read is out of date.
Write(c, s, lost) ==
  /\ lost => shared /\ ~healthy
  /\ store' = IF lost THEN store ELSE s
  /\ current' = IF lost THEN current \ {c} ELSE {}

\* What a GET returns: the key, or nothing when Redis fails.
Reads == IF shared /\ ~healthy THEN {store, Absent} ELSE {store}

CountFailure == streak' = Local!OneMore(streak) /\ recent' = 0
KeepCounts   == UNCHANGED <<streak, recent>>

(***************************************************************************)
(* allow, allow_async                                                      *)
(***************************************************************************)

\* The process's own registry: let through at once.
LocalAllow(c) ==
  /\ ~shared /\ position[c] = "idle"
  /\ ~Local!Cooling(View(store))
  /\ store' = Local!Marked(View(store))
  /\ Reach(c, "running")
  /\ KeepCounts
  /\ UNCHANGED <<shared, healthy, held, current, disturbed>>

\* GET: no key or a closed breaker lets the call through, a cooled one after
\* the half-open mark is written.  A call that is refused changes nothing.
Allow(c, read) ==
  /\ shared /\ position[c] = "idle"
  /\ ~Local!Cooling(View(read))
  /\ IF View(read).open = Closed
     THEN Reach(c, "running") /\ UNCHANGED <<held, current>>
     ELSE /\ Reach(c, "marking")
          /\ held' = [held EXCEPT ![c] = Local!Marked(read)]
          /\ current' = current \cup {c}
  /\ disturbed' = (disturbed \/ read # store)
  /\ KeepCounts
  /\ UNCHANGED <<shared, healthy, store>>

\* SET of the state read before, now marked half-open.  Defect: the cooling
\* starts over.
Mark_Restamps(c, lost) ==
  /\ position[c] = "marking"
  /\ Write(c, [held[c] EXCEPT !.open = 0], lost)
  /\ Reach(c, "running")
  /\ disturbed' = (disturbed \/ lost \/ c \notin current)
  /\ KeepCounts
  /\ UNCHANGED <<shared, healthy, held>>

Mark(c, lost) ==
  /\ position[c] = "marking"
  /\ Write(c, held[c], lost)
  /\ Reach(c, "running")
  /\ disturbed' = (disturbed \/ lost \/ c \notin current)
  /\ KeepCounts
  /\ UNCHANGED <<shared, healthy, held>>

(***************************************************************************)
(* record_success, record_failure                                          *)
(***************************************************************************)

\* The state is forgotten (DEL).
\* Defects: the count survives; an open breaker stays open.
Succeed_KeepsCount(c, lost) ==
  /\ position[c] = "running"
  /\ Write(c, [View(store) EXCEPT !.open = Closed, !.half = FALSE], lost)
  /\ Reach(c, "idle")
  /\ disturbed' = (disturbed \/ lost)
  /\ streak' = 0
  /\ UNCHANGED <<shared, healthy, held, recent>>

Succeed_StaysOpen(c, lost) ==
  /\ position[c] = "running"
  /\ Write(c, IF View(store).open = Closed THEN Absent ELSE store, lost)
  /\ Reach(c, "idle")
  /\ disturbed' = (disturbed \/ lost)
  /\ streak' = 0
  /\ UNCHANGED <<shared, healthy, held, recent>>

Succeed(c, lost) ==
  /\ position[c] = "running"
  /\ Write(c, Absent, lost)
  /\ Reach(c, "idle")
  /\ disturbed' = (disturbed \/ lost)
  /\ streak' = 0
  /\ UNCHANGED <<shared, healthy, held, recent>>

\* An exception, an ERROR chunk or a timeout.
LocalFail(c) ==
  /\ ~shared /\ ~healthy /\ position[c] = "running"
  /\ store' = Local!Failed(View(store))
  /\ Reach(c, "idle")
  /\ CountFailure
  /\ UNCHANGED <<shared, healthy, held, current, disturbed>>

\* The same with the shared registry: GET, and the new state is computed.
Fail(c, read) ==
  /\ shared /\ ~healthy /\ position[c] = "running"
  /\ held' = [held EXCEPT ![c] = Local!Failed(View(read))]
  /\ current' = current \cup {c}
  /\ disturbed' = (disturbed \/ read # store)
  /\ recent' = 0
  /\ Reach(c, "recording")
  /\ UNCHANGED <<shared, healthy, store, streak>>

\* SET.  Defect: only a state that opens the breaker is written.
Record_OnlyOpen(c, lost) ==
  /\ position[c] = "recording"
  /\ Write(c, IF held[c].open = Closed THEN store ELSE held[c], lost)
  /\ Reach(c, "idle")
  /\ disturbed' = (disturbed \/ lost \/ c \notin current)
  /\ streak' = Local!OneMore(streak)
  /\ UNCHANGED <<shared, healthy, held, recent>>

Record(c, lost) ==
  /\ position[c] = "recording"
  /\ Write(c, held[c], lost)
  /\ Reach(c, "idle")
  /\ disturbed' = (disturbed \/ lost \/ c \notin current)
  /\ streak' = Local!OneMore(streak)
  /\ UNCHANGED <<shared, healthy, held, recent>>

\* The turn is cancelled at one of these awaits: nothing (more) is recorded.
Abandon(c) ==
  /\ ~healthy /\ position[c] # "idle"
  /\ Reach(c, "idle")
  /\ disturbed' = (disturbed \/ position[c] = "recording")
  /\ current' = current \ {c}
  /\ KeepCounts
  /\ UNCHANGED <<shared, healthy, store, held>>

(***************************************************************************)
(* Time                                                                    *)
(***************************************************************************)

\* The key's TTL is ten times the cooling time and starts over with each SET:
\* the key of a breaker that is still cooling does not expire.
KeyExpires ==
  /\ shared /\ store # Absent
  /\ ~Local!Cooling(store)
  /\ store' = Absent
  /\ current' = {}
  /\ disturbed' = TRUE
  /\ KeepCounts
  /\ UNCHANGED <<shared, healthy, position, held>>

\* A state computed before the clock moved has an old stamp when it is written.
Tick ==
  /\ recent < Reset
  /\ recent' = recent + 1
  /\ store' = IF store = Absent THEN Absent ELSE Local!Older(store)
  /\ held' = [c \in Calls |-> Local!Older(held[c])]
  /\ current' = {c \in current : position[c] # "recording"}
  /\ UNCHANGED <<shared, healthy, position, streak, disturbed>>

Heal ==
  /\ ~healthy
  /\ healthy' = TRUE
  /\ KeepCounts
  /\ UNCHANGED <<shared, store, position, held, current, disturbed>>

-----------------------------------------------------------------------------
Begin(c) == LocalAllow(c) \/ \E read \in Reads : Allow(c, read)

End(c) ==
  \E lost \in BOOLEAN : Mark(c, lost) \/ Succeed(c, lost) \/ Record(c, lost)

BreakerNext ==
  \/ \E c \in Calls :
       \/ Begin(c) \/ End(c)
       \/ LocalFail(c) \/ \E read \in Reads : Fail(c, read)
       \/ Abandon(c)
  \/ KeyExpires \/ Tick \/ Heal

BreakerSpec == BreakerInit /\ [][BreakerNext]_breakerVars

\* Calls that were let through end, and there is always another one.  Whether
\* the tool ever works again is not assumed.
BreakerFairSpec ==
  /\ BreakerSpec
  /\ WF_breakerVars(Tick)
  /\ \A c \in Calls : WF_breakerVars(End(c))
  /\ WF_breakerVars(\E c \in Calls : Begin(c))

(***************************************************************************)
(* Properties                                                              *)
(***************************************************************************)

\* Every variable has its type.
BreakerTypeOK ==
  /\ shared \in BOOLEAN
  /\ healthy \in BOOLEAN
  /\ store \in Local!State \cup {Absent}
  /\ position \in [Calls -> {"idle", "marking", "running", "recording"}]
  /\ held \in [Calls -> Local!State]
  /\ current \subseteq Calls
  /\ streak \in 0..Threshold
  /\ recent \in 0..Reset
  /\ disturbed \in BOOLEAN

\* The breaker is open exactly when the last Threshold outcomes that were
\* recorded are failures, however calls overlap and whenever they were let
\* through, as long as no write of the shared registry met another.
\* (record_success, record_failure of both registries.)
OpensOnStreak == ~disturbed => (View(store).open # Closed <=> streak = Threshold)

\* A tool is refused only within reset_seconds of a failure of its own:
\* neither overlapping writes, nor lost ones, nor states written back after a
\* success can lock out a tool that works.  ("Never refuse everything because
\* the store is broken", docstring of shared_breaker.py.)
RefusalsAreFresh == Local!Cooling(View(store)) => recent < Reset

\* Until a write meets another one's, the shared registry does what the one of
\* a single process does, step by step ("the middleware need not know", the
\* docstring of shared_breaker.py).
ImplementsLocal ==
  [][Local!Next \/ disturbed']_<<View(store), Running>>

\* Once the tool works again, the breaker closes, time and again: a half-open
\* mark written back after a success can reopen it, but only to probes.
Recovers == healthy ~> View(store).open = Closed
=============================================================================
