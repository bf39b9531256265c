--------------------------- MODULE CircuitBreaker ---------------------------
(***************************************************************************)
(* The circuit breaker of one tool as CircuitBreakerRegistry (resilience.  *)
(* py) keeps it inside one process, where allow, record_success and        *)
(* record_failure run without interruption: what every registry promises   *)
(* to the tool calls that ToolResilienceMiddleware lets through it.        *)
(***************************************************************************)
EXTENDS Naturals

CONSTANTS Calls,       \* tool calls that may be running at once
          Threshold,   \* failure_threshold
          Reset,       \* reset_seconds, in steps of the clock
          Closed       \* opened_at is None

VARIABLES state,     \* the tool's _CircuitState
          running    \* the calls that were let through and have not ended

vars == <<state, running>>

\* open is the time since opened_at, up to Reset: all that allow asks of it.
\* failures counts up to Threshold: it is only ever compared with it.
State == [failures : 0..Threshold, open : (0..Reset) \cup {Closed}, half : BOOLEAN]
Fresh == [failures |-> 0, open |-> Closed, half |-> FALSE]

Cooling(s) == s.open # Closed /\ s.open # Reset

\* allow, of a call it lets through.
Marked(s) == IF s.open = Closed THEN s ELSE [s EXCEPT !.half = TRUE]

OneMore(n) == IF n < Threshold THEN n + 1 ELSE Threshold

\* record_failure.
Failed(s) ==
  IF s.half
  THEN [s EXCEPT !.open = 0, !.half = FALSE]
  ELSE [s EXCEPT !.failures = OneMore(@),
                 !.open = IF OneMore(s.failures) = Threshold THEN 0 ELSE @]

Older(s) == IF Cooling(s) THEN [s EXCEPT !.open = @ + 1] ELSE s

Init == state = Fresh /\ running = {}

\* A call that is refused changes nothing.
Admit(c) ==
  /\ c \notin running
  /\ ~Cooling(state)
  /\ state' = Marked(state)
  /\ running' = running \cup {c}

Succeed(c) ==
  /\ c \in running
  /\ state' = Fresh
  /\ running' = running \ {c}

\* An exception, an ERROR chunk or a timeout.
Fail(c) ==
  /\ c \in running
  /\ state' = Failed(state)
  /\ running' = running \ {c}

\* CancelledError is no Exception: nothing is recorded.
Abandon(c) ==
  /\ c \in running
  /\ running' = running \ {c}
  /\ UNCHANGED state

Tick == Cooling(state) /\ state' = Older(state) /\ UNCHANGED running

Next == (\E c \in Calls : Admit(c) \/ Succeed(c) \/ Fail(c) \/ Abandon(c)) \/ Tick

Spec == Init /\ [][Next]_vars
=============================================================================
