------------------------------ MODULE ToolGate ------------------------------
(***************************************************************************)
(* HarnessToolMiddleware.on_tool_call around every tool call of a process: *)
(* the refusals and notices it takes from what its four trackers remember  *)
(* of the session, and what a returned call adds to them.  The checks run  *)
(* without an await, the tool does not: the calls of one model step, those *)
(* of sub-agents and those of two turns of a session run beside each other *)
(* and share the session's records, which the end of a turn clears in part *)
(* and an eviction altogether.                                             *)
(***************************************************************************)
EXTENDS Naturals, Sequences, FiniteSets

CONSTANTS Turns, Sessions,
          Tools,         \* create_order_tool and others, by their names
          Carts,         \* the argument lists of create_order_tool
          Items,         \* the <<product, sku>> of each cart
          Findings,      \* what a tool's answer may show: sets of <<product, sku>>
          Conclusions,   \* what a sub-agent's may name, which its model writes: any sets
          NoSku, NoCart,
          Threshold,     \* LOOP_REPEAT_THRESHOLD
          Window,        \* maxlen of the deque of calls
          MaxCalls, MaxEvictions  \* bounds

ASSUME ToolGateAssumption ==
  /\ Items \in [Carts -> SUBSET (STRING \X STRING)] /\ NoCart \notin Carts
  /\ \A x \in Carts : Items[x] # {}    \* Order.__post_init__
  /\ Threshold \in 1..Window
  /\ MaxCalls \in Nat /\ MaxEvictions \in Nat

VARIABLES
  stage, session,  \* of each turn
  calls,    \* history: every call in the order of its check
  count,    \* ConfirmationTracker._turns, counted up to 2
  called,   \* SequencingTracker._called, as a set
  window,   \* LoopDetector._calls
  shown,    \* OrderProvenanceTracker: _products and _product_skus
  ordered,  \* its _orders: the calls whose order was filed
  epoch     \* history: evictions of each session so far

trackers == <<count, called, window, shown, ordered>>
vars == <<stage, session, calls, trackers, epoch>>

Products(items) == {i[1] : i \in items}
SkusOf(p, items) == {i[2] : i \in {j \in items : j[1] = p}} \ {NoSku}

CallsOf(s) == {c \in DOMAIN calls : session[calls[c].turn] = s}
Running(s) == {c \in CallsOf(s) : calls[c].state = "running"}

\* What the answers of the session have named, whatever is still recorded.
EverShown(s) == UNION {calls[c].found : c \in CallsOf(s)}

Init ==
  /\ stage = [t \in Turns |-> "idle"]
  /\ session \in [Turns -> Sessions]
  /\ calls = <<>>
  /\ count = [s \in Sessions |-> 0]
  /\ called = [s \in Sessions |-> {}]
  /\ window = [s \in Sessions |-> <<>>]
  /\ shown = [s \in Sessions |-> {}]
  /\ ordered = [s \in Sessions |-> {}]
  /\ epoch = [s \in Sessions |-> 0]

-----------------------------------------------------------------------------
(***************************************************************************)
(* The turns                                                               *)
(***************************************************************************)

\* begin_turn; a session that has been talked to starts at its second turn.
Begin(t) ==
  LET s == session[t]
      hasHistory == \E u \in Turns : stage[u] = "ended" /\ session[u] = s
  IN /\ stage[t] = "idle"
     /\ stage' = [stage EXCEPT ![t] = "open"]
     /\ count' = [count EXCEPT ![s] = IF @ = 0 /\ ~hasHistory THEN 1 ELSE 2]
     /\ UNCHANGED <<session, calls, called, window, shown, ordered, epoch>>

\* The finally block of handle_intent.
ClearWindow(s) == [window EXCEPT ![s] = <<>>]

End(t) ==
  /\ stage[t] = "open"
  /\ \A c \in DOMAIN calls : calls[c].turn = t => calls[c].state # "running"
  /\ stage' = [stage EXCEPT ![t] = "ended"]
  /\ window' = ClearWindow(session[t])
  /\ UNCHANGED <<session, calls, count, called, shown, ordered, epoch>>

\* _forget_session, when the cache pushes s out, also in mid-turn.  A session
\* is in the cache from its first turn on.
Evict(s) ==
  /\ count[s] > 0 /\ epoch[s] < MaxEvictions
  /\ epoch' = [epoch EXCEPT ![s] = @ + 1]
  /\ count' = [count EXCEPT ![s] = 0]
  /\ called' = [called EXCEPT ![s] = {}]
  /\ window' = [window EXCEPT ![s] = <<>>]
  /\ shown' = [shown EXCEPT ![s] = {}]
  /\ ordered' = [ordered EXCEPT ![s] = {}]
  /\ UNCHANGED <<stage, session, calls>>

-----------------------------------------------------------------------------
(***************************************************************************)
(* pre_tool_call                                                           *)
(***************************************************************************)

Note(kind, holds) == IF holds THEN {kind} ELSE {}

\* PREREQUISITES.
Prerequisite(tool) ==
  CASE tool = "create_order_tool" -> "product_search_tool"
    [] tool = "cancel_order_tool" -> "query_order_tool"
    [] OTHER -> tool

\* SequencingTracker.check: refused on evidence, else a notice.
\* Defect: a session without records is refused, too.
Sequencing_Strict(s, tool) ==
  IF Prerequisite(tool) \in called[s] \cup {tool} THEN {}
  ELSE IF tool = "create_order_tool" THEN {"unsearched"} ELSE {"early"}

Sequencing(s, tool) ==
  IF Prerequisite(tool) \in called[s] \cup {tool} THEN {}
  ELSE IF tool = "create_order_tool" /\ called[s] # {} THEN {"unsearched"} ELSE {"early"}

\* ConfirmationTracker.check.
Confirmation(s, tool) ==
  CASE tool # "create_order_tool" \/ count[s] = 2 -> {}
    [] count[s] = 1 -> {"unconfirmed"}
    [] OTHER -> {"uncounted"}

\* _find_duplicate.
Duplicate(s, cart) == \E c \in ordered[s] : calls[c].cart = cart

\* OrderProvenanceTracker.check: a sku is only missed where others were shown.
Provenance(s, cart) ==
  LET unknown == {i \in Items[cart] : SkusOf(i[1], shown[s]) # {} /\ i[2] \notin SkusOf(i[1], shown[s])}
  IN CASE shown[s] = {} -> {"unproven"}
       [] shown[s] # {} /\ ~(Products(Items[cart]) \subseteq Products(shown[s])) -> {"unshown"}
       [] OTHER -> Note("sku", unknown # {}) \cup Note("duplicate", Duplicate(s, cart))

Refusals == {"unsearched", "unconfirmed", "unshown"}

\* The deque keeps the last Window calls.
Pushed(s, tool) ==
  LET q == Append(window[s], tool)
  IN IF Len(q) > Window THEN Tail(q) ELSE q

\* LoopDetector.check on the deque q that holds this call already.
Repeats(q, tool) ==
  /\ Len(q) >= Threshold
  /\ \A i \in Len(q) - Threshold + 1 .. Len(q) : q[i] = tool

\* A call of turn t reaches the middleware: refused, or recorded and let through.
Call(t, tool, cart) ==
  LET s == session[t]
      own == Sequencing(s, tool) \cup Confirmation(s, tool)
      checked == IF cart = NoCart \/ own \cap Refusals # {} THEN own
                 ELSE own \cup Provenance(s, cart)
      refused == checked \cap Refusals # {}
      q == Pushed(s, tool)
  IN /\ stage[t] = "open" /\ Len(calls) < MaxCalls
     /\ calls' = Append(calls,
          [turn |-> t, tool |-> tool, cart |-> cart,
           state |-> IF refused THEN "refused" ELSE "running",
           notes |-> IF refused THEN checked \cap Refusals
                     ELSE checked \cup Note("loop", Repeats(q, tool)),
           found |-> {}, filed |-> 0,
           \* history: what ran beside it, what was known then
           beside |-> Running(s), epoch |-> epoch[s], known |-> EverShown(s)])
     /\ IF refused THEN UNCHANGED <<called, window>>
        ELSE /\ called' = [called EXCEPT ![s] = @ \cup {tool}]
             /\ window' = [window EXCEPT ![s] = q]
     /\ UNCHANGED <<stage, session, count, shown, ordered, epoch>>

-----------------------------------------------------------------------------
(***************************************************************************)
(* post_tool_call                                                          *)
(***************************************************************************)

\* extract_identifiers: every answer that parses is evidence, whoever wrote it.
\* Defect: the identifiers an error quotes are taken for evidence.
Evidence_Errors(outcome, found) == found

Evidence(outcome, found) == IF outcome = "ok" THEN found ELSE {}

\* record_order.  Defect: left out.
Filed_Never(outcome, tool) == FALSE

Filed(outcome, tool) == outcome = "ok" /\ tool = "create_order_tool"

\* Call c returns.  "ok": its answer shows found; an order shows its own lines,
\* a dispatch the identifiers in the JSON its sub-agent's model concludes with,
\* seen or made up (none in a plain text).  "failed": an [error] text that may
\* quote found.  "lost": the tool timeout cancelled it after the order was saved.
Return(c, outcome, found) ==
  LET s == session[calls[c].turn]
      tool == calls[c].tool
      seen == Evidence(outcome, found)
  IN /\ calls[c].state = "running"
     /\ outcome = "lost" => tool = "create_order_tool"
     /\ CASE tool = "create_order_tool" -> found = Items[calls[c].cart]
          [] tool = "task_dispatch" -> found \in Conclusions
          [] OTHER -> found \in Findings
     /\ calls' = [calls EXCEPT ![c] =
          [@ EXCEPT !.state = outcome, !.filed = epoch[s],
                    !.found = IF outcome = "ok" THEN found ELSE {}]]
     /\ shown' = [shown EXCEPT ![s] = @ \cup seen]
     /\ ordered' = IF Filed(outcome, tool) THEN [ordered EXCEPT ![s] = @ \cup {c}] ELSE ordered
     /\ UNCHANGED <<stage, session, count, called, window, epoch>>

Next ==
  \/ \E t \in Turns :
       \/ Begin(t) \/ End(t)
       \/ \E tool \in Tools \ {"create_order_tool"} : Call(t, tool, NoCart)
       \/ \E cart \in Carts : Call(t, "create_order_tool", cart)
  \/ \E c \in DOMAIN calls, outcome \in {"ok", "failed", "lost"} :
       \E found \in Findings \cup Conclusions \cup {Items[x] : x \in Carts} : Return(c, outcome, found)
  \/ \E s \in Sessions : Evict(s)

Spec == Init /\ [][Next]_vars

(***************************************************************************)
(* Properties                                                              *)
(***************************************************************************)

Admitted(c) == calls[c].state # "refused"
Orders == {c \in DOMAIN calls : calls[c].tool = "create_order_tool"}
Placed == {c \in Orders : calls[c].state \in {"ok", "lost"}}

\* An order that gets through buys products that answers of the same session
\* have named before, in skus they have named when they named any of that
\* product, or the model was told that this cannot be vouched for: not one of
\* another session, not one an error named.  The conclusion of a sub-agent is
\* an answer like any other, the identifiers its model makes up with it.
OrdersAsShown ==
  \A c \in Orders : Admitted(c) /\ "unproven" \notin calls[c].notes =>
    /\ Products(Items[calls[c].cart]) \subseteq Products(calls[c].known)
    /\ "sku" \in calls[c].notes \/ calls[c].epoch > 0
         \/ \A i \in Items[calls[c].cart] :
              LET skus == SkusOf(i[1], calls[c].known) IN skus = {} \/ i[2] \in skus

\* Two equal orders of a session get through without a notice only when the
\* first had not returned by the second's check, was cut off by the timeout
\* after it was saved, or was forgotten with the session.
NoSilentTwin ==
  \A c, d \in Placed :
    /\ c < d /\ calls[c].cart = calls[d].cart
    /\ session[calls[c].turn] = session[calls[d].turn]
    /\ "duplicate" \notin calls[d].notes
    => \/ c \in calls[d].beside
       \/ calls[c].state = "lost"
       \/ calls[c].filed < calls[d].epoch

\* What the session had let through when c was checked, since its last eviction.
Heard(c) == {d \in CallsOf(session[calls[c].turn]) :
               d < c /\ Admitted(d) /\ calls[d].epoch = calls[c].epoch}
Returned(c) == {d \in CallsOf(session[calls[c].turn]) :
               d < c /\ d \notin calls[c].beside /\ calls[d].found # {} /\ calls[d].filed = calls[c].epoch}

\* An order is refused as unsearched or unshown only if the session really has
\* not searched or no answer has named the product, or if its records were lost
\* and have begun to fill again: with nothing observed since, it is only warned.
RefusalsHaveEvidence ==
  \A c \in Orders :
    /\ "unsearched" \in calls[c].notes =>
         /\ Heard(c) # {}
         /\ calls[c].epoch > 0
              \/ \A d \in Heard(c) : calls[d].tool # "product_search_tool"
    /\ "unshown" \in calls[c].notes =>
         /\ Returned(c) # {}
         /\ calls[c].epoch > 0
              \/ ~(Products(Items[calls[c].cart]) \subseteq Products(calls[c].known))
=============================================================================
