----------------------------- MODULE GateProofs -----------------------------
(***************************************************************************)
(* Theorems about the two gates an agent works behind: ToolGate, for any   *)
(* turns, sessions, tools, carts and answers, any window and any number of *)
(* evictions; and ModelGate, for any agents, any number of slots, any      *)
(* interval, budget and costs.                                             *)
(***************************************************************************)
EXTENDS ToolGate, ModelGate, SequenceTheorems, FiniteSetTheorems, TLAPS

USE ToolGateAssumption

-----------------------------------------------------------------------------
(***************************************************************************)
(* The inductive invariant: what the trackers hold is exactly what the     *)
(* calls of the session, since its last eviction, have done.               *)
(***************************************************************************)

Things == UNION (Findings \cup Conclusions \cup {Items[x] : x \in Carts})

NoteKinds == {"early", "uncounted", "unproven", "sku", "duplicate", "loop"} \cup Refusals

CallRecord ==
  [turn : Turns, tool : Tools \cup {"create_order_tool"}, cart : Carts \cup {NoCart},
   state : {"refused", "running", "ok", "failed", "lost"},
   notes : SUBSET NoteKinds, found : SUBSET Things, filed : Nat,
   beside : SUBSET Nat, epoch : Nat, known : SUBSET Things]

TypeOK ==
  /\ stage \in [Turns -> {"idle", "open", "ended"}]
  /\ session \in [Turns -> Sessions]
  /\ calls \in Seq(CallRecord)
  /\ count \in [Sessions -> 0..2]
  /\ called \in [Sessions -> SUBSET (Tools \cup {"create_order_tool"})]
  /\ window \in [Sessions -> Seq(Tools \cup {"create_order_tool"})]
  /\ shown \in [Sessions -> SUBSET Things]
  /\ ordered \in [Sessions -> SUBSET Nat]
  /\ epoch \in [Sessions -> Nat]

Of(c) == session[calls[c].turn]

\* A record of a call makes sense: an order has a cart and shows it when it is
\* filed, nothing but an answer shows anything, and no call is of a later epoch
\* than its session is in.
Sane ==
  \A c \in DOMAIN calls :
    /\ calls[c].tool = "create_order_tool" => calls[c].cart \in Carts
    /\ calls[c].state # "ok" => calls[c].found = {}
    /\ calls[c].tool = "create_order_tool" /\ calls[c].state = "ok" =>
         calls[c].found = Items[calls[c].cart]
    /\ calls[c].epoch <= epoch[Of(c)] /\ calls[c].filed <= epoch[Of(c)]

\* The trackers.
CalledIsTrue ==
  \A s \in Sessions :
    called[s] = {calls[c].tool : c \in {d \in CallsOf(s) : Admitted(d) /\ calls[d].epoch = epoch[s]}}

ShownIsTrue ==
  \A s \in Sessions :
    shown[s] = UNION {calls[c].found : c \in {d \in CallsOf(s) : calls[d].filed = epoch[s]}}

OrderedIsTrue ==
  \A s \in Sessions :
    ordered[s] = {c \in CallsOf(s) : c \in Orders /\ calls[c].state = "ok" /\ calls[c].filed = epoch[s]}

\* A call that runs was running when a later one of its session was checked.
RunningWasBeside ==
  \A c, d \in DOMAIN calls :
    c < d /\ Of(c) = Of(d) /\ calls[c].state = "running" => c \in calls[d].beside

\* NoSilentTwin, stated of every order let through and not only of the placed.
Twins(c, d) ==
  /\ c < d /\ calls[c].cart = calls[d].cart /\ Of(c) = Of(d)
  /\ "duplicate" \notin calls[d].notes

TwinsAreNoticed ==
  \A c, d \in Orders :
    Twins(c, d) /\ calls[c].state = "ok" /\ Admitted(d) =>
      c \in calls[d].beside \/ calls[c].filed < calls[d].epoch

Records == Sane /\ CalledIsTrue /\ ShownIsTrue /\ OrderedIsTrue
History == RunningWasBeside /\ TwinsAreNoticed /\ OrdersAsShown /\ RefusalsHaveEvidence

IInv == TypeOK /\ Records /\ History

-----------------------------------------------------------------------------
(***************************************************************************)
(* What a step does to the history of the calls                            *)
(***************************************************************************)

\* The checks of pre_tool_call, in the order they run.
OwnNotes(t, tool) == Sequencing(session[t], tool) \cup Confirmation(session[t], tool)

Checked(t, tool, cart) ==
  IF cart = NoCart \/ OwnNotes(t, tool) \cap Refusals # {} THEN OwnNotes(t, tool)
  ELSE OwnNotes(t, tool) \cup Provenance(session[t], cart)

Refused(t, tool, cart) == Checked(t, tool, cart) \cap Refusals # {}

New == Len(calls) + 1

\* A call that reaches the middleware, and only such a call.
IsCall(t, tool, cart) ==
  /\ t \in Turns /\ tool \in Tools \cup {"create_order_tool"}
  /\ IF tool = "create_order_tool" THEN cart \in Carts ELSE cart = NoCart
  /\ Call(t, tool, cart)

\* What the checks may say.
LEMMA CheckedTypes ==
  ASSUME NEW t, NEW tool, NEW cart
  PROVE  /\ Sequencing(session[t], tool) \in SUBSET {"early", "unsearched"}
         /\ Confirmation(session[t], tool) \in SUBSET {"unconfirmed", "uncounted"}
         /\ Provenance(session[t], cart) \in SUBSET {"unproven", "unshown", "sku", "duplicate"}
         /\ Checked(t, tool, cart) \in SUBSET NoteKinds
<1>1. Sequencing(session[t], tool) \in SUBSET {"early", "unsearched"}
  BY DEF Sequencing
<1>2. Confirmation(session[t], tool) \in SUBSET {"unconfirmed", "uncounted"}
  BY Zenon DEF Confirmation
<1>3. Provenance(session[t], cart) \in SUBSET {"unproven", "unshown", "sku", "duplicate"}
  BY Zenon DEF Provenance, Note
<1> QED BY <1>1, <1>2, <1>3 DEF Checked, OwnNotes, NoteKinds, Refusals

LEMMA CallAppends ==
  ASSUME TypeOK, NEW t, NEW tool, NEW cart, IsCall(t, tool, cart)
  PROVE  /\ calls' \in Seq(CallRecord)
         /\ DOMAIN calls' = DOMAIN calls \cup {New}
         /\ New \notin DOMAIN calls /\ New \in Nat /\ \A c \in DOMAIN calls : c \in Nat /\ c < New
         /\ \A c \in DOMAIN calls : calls'[c] = calls[c]
         /\ calls'[New].turn = t /\ calls'[New].tool = tool /\ calls'[New].cart = cart
         /\ calls'[New].state = IF Refused(t, tool, cart) THEN "refused" ELSE "running"
         /\ Refused(t, tool, cart) => calls'[New].notes = Checked(t, tool, cart) \cap Refusals
         /\ ~Refused(t, tool, cart) =>
              calls'[New].notes \in {Checked(t, tool, cart), Checked(t, tool, cart) \cup {"loop"}}
         /\ calls'[New].found = {} /\ calls'[New].filed = 0
         /\ calls'[New].beside = Running(session[t])
         /\ calls'[New].epoch = epoch[session[t]]
         /\ calls'[New].known = EverShown(session[t])
<1> DEFINE s == session[t]
           checked == Checked(t, tool, cart)
           refused == Refused(t, tool, cart)
           q == Pushed(s, tool)
           loop == Note("loop", Repeats(q, tool))
           rec == [turn |-> t, tool |-> tool, cart |-> cart,
                   state |-> IF refused THEN "refused" ELSE "running",
                   notes |-> IF refused THEN checked \cap Refusals ELSE checked \cup loop,
                   found |-> {}, filed |-> 0,
                   beside |-> Running(s), epoch |-> epoch[s], known |-> EverShown(s)]
<1>1. calls' = Append(calls, rec)
  BY DEF IsCall, Call, Refused, Checked, OwnNotes
<1>2. DOMAIN calls = 1..Len(calls) /\ Len(calls) \in Nat /\ \A c \in DOMAIN calls : calls[c] \in CallRecord
  BY LenProperties, ElementOfSeq DEF TypeOK
<1>3. loop \in SUBSET {"loop"}
  BY DEF Note
<1>4. rec \in CallRecord
  <2>1. checked \in SUBSET NoteKinds
    BY CheckedTypes
  <2>2. Running(s) \in SUBSET Nat
    BY <1>2 DEF Running, CallsOf
  <2>3. EverShown(s) \in SUBSET Things
    BY <1>2 DEF EverShown, CallsOf, CallRecord
  <2>4. s \in Sessions /\ epoch[s] \in Nat /\ t \in Turns
    BY DEF TypeOK, IsCall
  <2>5. cart \in Carts \cup {NoCart} /\ tool \in Tools \cup {"create_order_tool"}
    BY DEF IsCall
  <2> HIDE DEF s, checked, refused, loop
  <2>6. (IF refused THEN checked \cap Refusals ELSE checked \cup loop) \in SUBSET NoteKinds
    BY <1>3, <2>1 DEF NoteKinds
  <2> QED BY <2>2, <2>3, <2>4, <2>5, <2>6 DEF CallRecord
<1> HIDE DEF rec
<1>5. /\ calls' \in Seq(CallRecord) /\ Len(calls') = Len(calls) + 1
      /\ \A i \in 1..Len(calls) : calls'[i] = calls[i]
      /\ calls'[New] = rec
  BY <1>1, <1>4, AppendProperties DEF TypeOK, New
<1>6. DOMAIN calls' = 1..(Len(calls) + 1)
  BY <1>5, LenProperties
<1> QED BY <1>2, <1>3, <1>5, <1>6 DEF rec, New

\* A call that returns, and only such a call: the rest of its record, and the
\* records of all others, stay as they are.
IsReturn(c, outcome, found) ==
  /\ c \in DOMAIN calls /\ outcome \in {"ok", "failed", "lost"}
  /\ found \in Findings \cup Conclusions \cup {Items[x] : x \in Carts}
  /\ Return(c, outcome, found)

SameButResult(r, q) ==
  /\ r.turn = q.turn /\ r.tool = q.tool /\ r.cart = q.cart /\ r.notes = q.notes
  /\ r.beside = q.beside /\ r.epoch = q.epoch /\ r.known = q.known

LEMMA CallsTyped ==
  ASSUME TypeOK
  PROVE  /\ DOMAIN calls = 1..Len(calls) /\ Len(calls) \in Nat
         /\ \A c \in DOMAIN calls : calls[c] \in CallRecord /\ Of(c) \in Sessions /\ c \in Nat
<1>1. DOMAIN calls = 1..Len(calls) /\ Len(calls) \in Nat /\ \A c \in DOMAIN calls : calls[c] \in CallRecord
  BY LenProperties, ElementOfSeq DEF TypeOK
<1> QED BY <1>1 DEF TypeOK, CallRecord, Of

LEMMA ReturnRewrites ==
  ASSUME TypeOK, NEW c, NEW outcome, NEW found, IsReturn(c, outcome, found)
  PROVE  /\ calls' \in Seq(CallRecord) /\ DOMAIN calls' = DOMAIN calls
         /\ \A d \in DOMAIN calls : d # c => calls'[d] = calls[d]
         /\ \A d \in DOMAIN calls : SameButResult(calls'[d], calls[d])
         /\ calls[c].state = "running" /\ calls'[c].state = outcome
         /\ calls'[c].filed = epoch[Of(c)]
         /\ calls'[c].found = Evidence(outcome, found)
<1> DEFINE rec == [calls[c] EXCEPT !.state = outcome, !.filed = epoch[Of(c)],
                                   !.found = Evidence(outcome, found)]
<1>1. calls' = [calls EXCEPT ![c] = rec]
  BY DEF IsReturn, Return, Evidence, Of
<1>2. calls[c] \in CallRecord /\ c \in DOMAIN calls /\ DOMAIN calls = 1..Len(calls) /\ Of(c) \in Sessions
  BY CallsTyped DEF IsReturn
<1>3. Evidence(outcome, found) \in SUBSET Things /\ epoch[Of(c)] \in Nat
  BY <1>2 DEF IsReturn, Evidence, Things, TypeOK
<1>4. rec \in CallRecord
  BY <1>2, <1>3 DEF CallRecord, IsReturn
<1>5. /\ rec.turn = calls[c].turn /\ rec.tool = calls[c].tool /\ rec.cart = calls[c].cart
      /\ rec.notes = calls[c].notes /\ rec.beside = calls[c].beside /\ rec.epoch = calls[c].epoch
      /\ rec.known = calls[c].known /\ rec.state = outcome /\ rec.filed = epoch[Of(c)]
      /\ rec.found = Evidence(outcome, found)
  BY <1>2 DEF CallRecord
<1> HIDE DEF rec
<1>6. calls' \in Seq(CallRecord) /\ DOMAIN calls' = DOMAIN calls
  BY <1>1, <1>2, <1>4, ExceptSeq DEF TypeOK
<1>7. calls'[c] = rec /\ \A d \in DOMAIN calls : d # c => calls'[d] = calls[d]
  BY <1>1, <1>2
<1>8. calls[c].state = "running"
  BY DEF IsReturn, Return
<1> QED BY <1>2, <1>5, <1>6, <1>7, <1>8 DEF SameButResult

\* The steps, by what they do to the calls.
LEMMA StepsByCalls ==
  ASSUME [Next]_vars
  PROVE  \/ \E t, tool, cart : IsCall(t, tool, cart)
         \/ \E c, outcome, found : IsReturn(c, outcome, found)
         \/ \E s \in Sessions : Evict(s)
         \/ \E t \in Turns : Begin(t) \/ End(t)
         \/ UNCHANGED vars
BY DEF Next, IsCall, IsReturn

LEMMA TypeInit == Init => TypeOK
<1> SUFFICES ASSUME Init PROVE TypeOK
  OBVIOUS
<1>1. <<>> \in Seq(CallRecord) /\ <<>> \in Seq(Tools \cup {"create_order_tool"})
  BY EmptySeq
<1> QED BY <1>1 DEF Init, TypeOK

LEMMA TypeNext == TypeOK /\ [Next]_vars => TypeOK'
<1> SUFFICES ASSUME TypeOK, [Next]_vars PROVE TypeOK'
  OBVIOUS
<1> DEFINE Names == Tools \cup {"create_order_tool"}
<1>0. <<>> \in Seq(Names)
  BY EmptySeq
<1>1. ASSUME NEW t, NEW tool, NEW cart, IsCall(t, tool, cart) PROVE TypeOK'
  <2>1. calls' \in Seq(CallRecord)
    BY <1>1, CallAppends
  <2>2. session[t] \in Sessions /\ tool \in Names
    BY <1>1 DEF TypeOK, IsCall
  <2>3. window[session[t]] \in Seq(Names)
    BY <2>2 DEF TypeOK
  <2> DEFINE s == session[t]  q == Append(window[s], tool)
  <2>4. q \in Seq(Names) /\ q # <<>>
    BY <2>2, <2>3, AppendProperties
  <2>5. Tail(q) \in Seq(Names)
    BY <2>4, HeadTailProperties
  <2>6. Pushed(s, tool) \in Seq(Names)
    BY <2>4, <2>5 DEF Pushed
  <2>7. /\ window' \in {window, [window EXCEPT ![s] = Pushed(s, tool)]}
        /\ called' \in {called, [called EXCEPT ![s] = @ \cup {tool}]}
        /\ UNCHANGED <<stage, session, count, shown, ordered, epoch>>
    BY <1>1 DEF IsCall, Call
  <2> HIDE DEF s, q
  <2>8. window' \in [Sessions -> Seq(Names)]
    BY <2>6, <2>7, ZenonT(30) DEF TypeOK
  <2>9. called' \in [Sessions -> SUBSET Names]
    <3>1. called[s] \cup {tool} \in SUBSET Names
      BY <2>2 DEF TypeOK, s
    <3>2. called' = called \/ called' = [called EXCEPT ![s] = called[s] \cup {tool}]
      BY <2>7
    <3> QED BY <2>2, <3>1, <3>2 DEF TypeOK
  <2> QED BY <2>1, <2>7, <2>8, <2>9 DEF TypeOK
<1>2. ASSUME NEW c, NEW outcome, NEW found, IsReturn(c, outcome, found) PROVE TypeOK'
  <2>1. calls' \in Seq(CallRecord)
    BY <1>2, ReturnRewrites
  <2>2. c \in Nat /\ Of(c) \in Sessions
    BY <1>2, CallsTyped DEF IsReturn
  <2>3. Evidence(outcome, found) \in SUBSET Things
    BY <1>2 DEF IsReturn, Evidence, Things
  <2>4. /\ shown' = [shown EXCEPT ![Of(c)] = @ \cup Evidence(outcome, found)]
        /\ ordered' \in {ordered, [ordered EXCEPT ![Of(c)] = @ \cup {c}]}
        /\ UNCHANGED <<stage, session, count, called, window, epoch>>
    BY <1>2 DEF IsReturn, Return, Of
  <2>5. shown' \in [Sessions -> SUBSET Things]
    BY <2>2, <2>3, <2>4 DEF TypeOK
  <2>6. ordered' \in [Sessions -> SUBSET Nat]
    <3>1. ordered[Of(c)] \cup {c} \in SUBSET Nat
      BY <2>2 DEF TypeOK
    <3>2. ordered' = ordered \/ ordered' = [ordered EXCEPT ![Of(c)] = ordered[Of(c)] \cup {c}]
      BY <2>4
    <3> QED BY <2>2, <3>1, <3>2 DEF TypeOK
  <2> QED BY <2>1, <2>4, <2>5, <2>6 DEF TypeOK
<1>3. ASSUME NEW s \in Sessions, Evict(s) PROVE TypeOK'
  BY <1>0, <1>3 DEF TypeOK, Evict
<1>4. ASSUME NEW t \in Turns, Begin(t) PROVE TypeOK'
  BY <1>4 DEF TypeOK, Begin
<1>5. ASSUME NEW t \in Turns, End(t) PROVE TypeOK'
  BY <1>0, <1>5 DEF TypeOK, End, ClearWindow
<1>6. CASE UNCHANGED vars
  BY <1>6 DEF TypeOK, vars, trackers
<1> QED BY <1>1, <1>2, <1>3, <1>4, <1>5, <1>6, StepsByCalls

\* The state of the middleware and its trackers keeps its types.
THEOREM TypeCorrect == Spec => []TypeOK
BY TypeInit, TypeNext, PTL DEF Spec

-----------------------------------------------------------------------------
(***************************************************************************)
(* The trackers                                                            *)
(***************************************************************************)

LEMMA CallRecords ==
  ASSUME TypeOK, Records, NEW t, NEW tool, NEW cart, IsCall(t, tool, cart)
  PROVE  Records'
<1>1. /\ DOMAIN calls' = DOMAIN calls \cup {New} /\ New \notin DOMAIN calls
      /\ \A c \in DOMAIN calls : calls'[c] = calls[c]
      /\ calls'[New].turn = t /\ calls'[New].tool = tool /\ calls'[New].cart = cart
      /\ calls'[New].state = IF Refused(t, tool, cart) THEN "refused" ELSE "running"
      /\ calls'[New].found = {} /\ calls'[New].filed = 0
      /\ calls'[New].epoch = epoch[session[t]]
  BY CallAppends
<1>2. /\ UNCHANGED <<session, shown, ordered, epoch>>
      /\ called' = IF Refused(t, tool, cart) THEN called
                   ELSE [called EXCEPT ![session[t]] = @ \cup {tool}]
  BY DEF IsCall, Call, Refused, Checked, OwnNotes
<1>3. /\ session[t] \in Sessions /\ epoch \in [Sessions -> Nat]
      /\ DOMAIN called = Sessions
      /\ tool = "create_order_tool" => cart \in Carts
  BY DEF TypeOK, IsCall
<1>4. Sane'
  BY <1>1, <1>2, <1>3 DEF Records, Sane, Of
<1>5. \A s \in Sessions : CallsOf(s)' = CallsOf(s) \cup {c \in {New} : s = session[t]}
  BY <1>1, <1>2 DEF CallsOf
<1>6. CalledIsTrue'
  <2> SUFFICES ASSUME NEW s \in Sessions
               PROVE  called'[s] = {calls'[c].tool : c \in {d \in CallsOf(s)' :
                                      calls'[d].state # "refused" /\ calls'[d].epoch = epoch[s]}}
    BY <1>2 DEF CalledIsTrue, Admitted
  <2>1. called[s] = {calls[c].tool : c \in {d \in CallsOf(s) :
                                      calls[d].state # "refused" /\ calls[d].epoch = epoch[s]}}
    BY DEF Records, CalledIsTrue, Admitted
  <2>2. \A c \in CallsOf(s) : calls'[c] = calls[c]
    BY <1>1 DEF CallsOf
  <2>3. CASE s = session[t] /\ ~Refused(t, tool, cart)
    <3>1. called'[s] = called[s] \cup {tool}
      BY <1>2, <1>3, <2>3
    <3>2. CallsOf(s)' = CallsOf(s) \cup {New}
      BY <1>5, <2>3
    <3>3. calls'[New].state # "refused" /\ calls'[New].epoch = epoch[s] /\ calls'[New].tool = tool
      BY <1>1, <2>3
    <3> QED BY <2>1, <2>2, <3>1, <3>2, <3>3
  <2>4. CASE s # session[t] \/ Refused(t, tool, cart)
    <3>1. called'[s] = called[s]
      BY <1>2, <1>3, <2>4
    <3>2. \A c \in CallsOf(s)' : c \in CallsOf(s) \/ calls'[c].state = "refused"
      BY <1>1, <1>5, <2>4
    <3>3. CallsOf(s) \subseteq CallsOf(s)'
      BY <1>5
    <3> QED BY <2>1, <2>2, <3>1, <3>2, <3>3
  <2> QED BY <2>3, <2>4
<1>7. ShownIsTrue'
  <2> SUFFICES ASSUME NEW s \in Sessions
               PROVE  shown[s] = UNION {calls'[c].found : c \in {d \in CallsOf(s)' :
                                                               calls'[d].filed = epoch[s]}}
    BY <1>2 DEF ShownIsTrue
  <2>1. shown[s] = UNION {calls[c].found : c \in {d \in CallsOf(s) : calls[d].filed = epoch[s]}}
    BY DEF Records, ShownIsTrue
  <2>2. \A c \in CallsOf(s) : calls'[c] = calls[c]
    BY <1>1 DEF CallsOf
  <2>3. \A c \in CallsOf(s)' : c \in CallsOf(s) \/ calls'[c].found = {}
    BY <1>1, <1>5
  <2>4. CallsOf(s) \subseteq CallsOf(s)'
    BY <1>5
  <2> QED BY <2>1, <2>2, <2>3, <2>4
<1>8. OrderedIsTrue'
  <2>1. \A c \in DOMAIN calls' : c \in DOMAIN calls \/ calls'[c].state # "ok"
    BY <1>1
  <2> QED BY <1>1, <1>2, <2>1 DEF Records, OrderedIsTrue, CallsOf, Orders
<1> QED BY <1>4, <1>6, <1>7, <1>8 DEF Records

LEMMA ReturnRecords ==
  ASSUME TypeOK, Records, NEW c, NEW outcome, NEW found, IsReturn(c, outcome, found)
  PROVE  Records'
<1> DEFINE e == Of(c)
<1>1. /\ DOMAIN calls' = DOMAIN calls /\ c \in DOMAIN calls
      /\ \A d \in DOMAIN calls : d # c => calls'[d] = calls[d]
      /\ \A d \in DOMAIN calls : SameButResult(calls'[d], calls[d])
      /\ calls[c].state = "running" /\ calls'[c].state = outcome
      /\ calls'[c].filed = epoch[e]
      /\ calls'[c].found = Evidence(outcome, found)
  BY ReturnRewrites DEF IsReturn
<1>2. /\ UNCHANGED <<session, called, epoch>>
      /\ shown' = [shown EXCEPT ![e] = @ \cup Evidence(outcome, found)]
      /\ ordered' = IF Filed(outcome, calls[c].tool) THEN [ordered EXCEPT ![e] = @ \cup {c}]
                    ELSE ordered
  BY DEF IsReturn, Return, Of
<1>3. /\ e \in Sessions /\ epoch \in [Sessions -> Nat]
      /\ DOMAIN shown = Sessions /\ DOMAIN ordered = Sessions
      /\ outcome # "refused" /\ outcome # "running"
  BY <1>1, CallsTyped DEF TypeOK, IsReturn
<1>4. \A d \in DOMAIN calls : Of(d)' = Of(d)
  BY <1>1, <1>2 DEF Of, SameButResult
<1>5. Sane'
  <2>1. outcome # "ok" => Evidence(outcome, found) = {}
    BY DEF Evidence
  <2>2. calls[c].tool = "create_order_tool" /\ outcome = "ok" =>
          Evidence(outcome, found) = Items[calls[c].cart]
    BY Zenon DEF Evidence, IsReturn, Return
  <2> QED BY <1>1, <1>2, <1>3, <1>4, <2>1, <2>2 DEF Records, Sane, SameButResult
<1>6. \A s \in Sessions : CallsOf(s)' = CallsOf(s) /\ (c \in CallsOf(s) <=> s = e)
  BY <1>1, <1>4 DEF CallsOf, Of
<1>7. CalledIsTrue'
  <2> SUFFICES ASSUME NEW s \in Sessions
               PROVE  called[s] = {calls'[d].tool : d \in {b \in CallsOf(s) :
                                      calls'[b].state # "refused" /\ calls'[b].epoch = epoch[s]}}
    BY <1>2, <1>6 DEF CalledIsTrue, Admitted
  <2>1. called[s] = {calls[d].tool : d \in {b \in CallsOf(s) :
                                      calls[b].state # "refused" /\ calls[b].epoch = epoch[s]}}
    BY DEF Records, CalledIsTrue, Admitted
  <2>2. \A d \in CallsOf(s) : /\ calls'[d].tool = calls[d].tool /\ calls'[d].epoch = calls[d].epoch
                              /\ calls'[d].state = "refused" <=> calls[d].state = "refused"
    BY <1>1, <1>3 DEF CallsOf, SameButResult
  <2> QED BY <2>1, <2>2
<1>8. ShownIsTrue'
  <2> SUFFICES ASSUME NEW s \in Sessions
               PROVE  shown'[s] = UNION {calls'[d].found : d \in {b \in CallsOf(s) :
                                                                calls'[b].filed = epoch[s]}}
    BY <1>2, <1>6 DEF ShownIsTrue
  <2>1. shown[s] = UNION {calls[d].found : d \in {b \in CallsOf(s) : calls[b].filed = epoch[s]}}
    BY DEF Records, ShownIsTrue
  <2>2. \A d \in CallsOf(s) : d # c => calls'[d] = calls[d]
    BY <1>1 DEF CallsOf
  <2>3. calls[c].found = {}
    BY <1>1 DEF Records, Sane
  <2>4. CASE s = e
    <3>1. shown'[s] = shown[s] \cup Evidence(outcome, found)
      BY <1>2, <1>3, <2>4
    <3>2. c \in CallsOf(s) /\ calls'[c].filed = epoch[s] /\ calls'[c].found = Evidence(outcome, found)
      BY <1>1, <1>6, <2>4
    <3> QED BY <2>1, <2>2, <2>3, <3>1, <3>2
  <2>5. CASE s # e
    <3>1. shown'[s] = shown[s] /\ c \notin CallsOf(s)
      BY <1>2, <1>3, <1>6, <2>5
    <3> QED BY <2>1, <2>2, <3>1
  <2> QED BY <2>4, <2>5
<1>9. OrderedIsTrue'
  <2> SUFFICES ASSUME NEW s \in Sessions
               PROVE  ordered'[s] = {d \in CallsOf(s) : /\ d \in Orders' /\ calls'[d].state = "ok"
                                                        /\ calls'[d].filed = epoch[s]}
    BY <1>2, <1>6 DEF OrderedIsTrue
  <2>1. ordered[s] = {d \in CallsOf(s) : /\ d \in Orders /\ calls[d].state = "ok"
                                         /\ calls[d].filed = epoch[s]}
    BY DEF Records, OrderedIsTrue
  <2>2. \A d \in CallsOf(s) : d # c => calls'[d] = calls[d]
    BY <1>1 DEF CallsOf
  <2>3. Orders' = Orders /\ (c \in Orders <=> calls[c].tool = "create_order_tool")
    BY <1>1 DEF Orders, SameButResult
  <2>4. calls[c].state # "ok" /\ calls'[c].filed = epoch[e] /\ calls'[c].state = outcome
    BY <1>1
  <2>5. CASE s = e /\ Filed(outcome, calls[c].tool)
    <3>1. ordered'[s] = ordered[s] \cup {c}
      BY <1>2, <1>3, <2>5
    <3>2. c \in CallsOf(s) /\ c \in Orders /\ outcome = "ok"
      BY <1>6, <2>3, <2>5 DEF Filed
    <3> QED BY <2>1, <2>2, <2>3, <2>4, <2>5, <3>1, <3>2
  <2>6. CASE s # e \/ ~Filed(outcome, calls[c].tool)
    <3>1. ordered'[s] = ordered[s]
      BY <1>2, <1>3, <2>6
    <3>2. c \notin CallsOf(s) \/ c \notin Orders \/ outcome # "ok"
      BY <1>6, <2>3, <2>6 DEF Filed
    <3> QED BY <2>1, <2>2, <2>3, <2>4, <3>1, <3>2
  <2> QED BY <2>5, <2>6
<1> QED BY <1>5, <1>7, <1>8, <1>9 DEF Records

LEMMA EvictRecords ==
  ASSUME TypeOK, Records, NEW s \in Sessions, Evict(s)
  PROVE  Records'
<1>1. /\ UNCHANGED <<session, calls>> /\ epoch \in [Sessions -> Nat]
      /\ epoch' = [epoch EXCEPT ![s] = @ + 1] /\ called' = [called EXCEPT ![s] = {}]
      /\ shown' = [shown EXCEPT ![s] = {}] /\ ordered' = [ordered EXCEPT ![s] = {}]
      /\ DOMAIN called = Sessions /\ DOMAIN shown = Sessions /\ DOMAIN ordered = Sessions
  BY DEF Evict, TypeOK
<1>2. \A c \in DOMAIN calls : Of(c) \in Sessions /\ calls[c].epoch \in Nat /\ calls[c].filed \in Nat
  BY CallsTyped DEF CallRecord
<1>3. Sane'
  BY <1>1, <1>2 DEF Records, Sane, Of
<1>4. \A c \in CallsOf(s) : calls[c].epoch # epoch'[s] /\ calls[c].filed # epoch'[s]
  BY <1>1, <1>2 DEF Records, Sane, Of, CallsOf
<1>5. CalledIsTrue'
  BY <1>1, <1>4 DEF Records, CalledIsTrue, CallsOf, Admitted
<1>6. ShownIsTrue'
  BY <1>1, <1>4 DEF Records, ShownIsTrue, CallsOf
<1>7. OrderedIsTrue'
  BY <1>1, <1>4 DEF Records, OrderedIsTrue, CallsOf, Orders
<1> QED BY <1>3, <1>5, <1>6, <1>7 DEF Records

LEMMA QuietRecords ==
  ASSUME Records, UNCHANGED <<session, calls, called, shown, ordered, epoch>>
  PROVE  Records'
BY DEF Records, Sane, CalledIsTrue, ShownIsTrue, OrderedIsTrue, CallsOf, Of, Orders, Admitted

-----------------------------------------------------------------------------
(***************************************************************************)
(* What was true when a call was checked                                   *)
(***************************************************************************)

\* The skus of a cart that are missed where others of the product were shown.
Unknown(items, seen) ==
  {i \in items : SkusOf(i[1], seen) # {} /\ i[2] \notin SkusOf(i[1], seen)}

LEMMA ProvenanceCases ==
  ASSUME NEW s, NEW cart
  PROVE  /\ shown[s] = {} => Provenance(s, cart) = {"unproven"}
         /\ shown[s] # {} /\ ~(Products(Items[cart]) \subseteq Products(shown[s])) =>
              Provenance(s, cart) = {"unshown"}
         /\ shown[s] # {} /\ Products(Items[cart]) \subseteq Products(shown[s]) =>
              /\ "sku" \in Provenance(s, cart) <=> Unknown(Items[cart], shown[s]) # {}
              /\ "duplicate" \in Provenance(s, cart) <=> Duplicate(s, cart)
<1> DEFINE bad == {i \in Items[cart] : SkusOf(i[1], shown[s]) # {} /\ i[2] \notin SkusOf(i[1], shown[s])}
<1>1. ASSUME shown[s] = {} PROVE Provenance(s, cart) = {"unproven"}
  BY <1>1, Zenon DEF Provenance
<1>2. ASSUME shown[s] # {}, ~(Products(Items[cart]) \subseteq Products(shown[s]))
      PROVE  Provenance(s, cart) = {"unshown"}
  BY <1>2, Zenon DEF Provenance
<1>3. ASSUME shown[s] # {}, Products(Items[cart]) \subseteq Products(shown[s])
      PROVE  Provenance(s, cart) = Note("sku", bad # {}) \cup Note("duplicate", Duplicate(s, cart))
  BY <1>3, Zenon DEF Provenance
<1>4. bad = Unknown(Items[cart], shown[s])
  BY DEF Unknown
<1> HIDE DEF bad
<1>5. ASSUME NEW a \in BOOLEAN, NEW b \in BOOLEAN
      PROVE  /\ "sku" \in Note("sku", a) \cup Note("duplicate", b) <=> a
             /\ "duplicate" \in Note("sku", a) \cup Note("duplicate", b) <=> b
  BY DEF Note
<1>6. Duplicate(s, cart) \in BOOLEAN /\ (bad # {}) \in BOOLEAN
  BY DEF Duplicate
<1> QED BY <1>1, <1>2, <1>3, <1>4, <1>5, <1>6

\* An order is let through with every notice the records give cause for.
LEMMA AdmittedOrders ==
  ASSUME TypeOK, NEW t, NEW cart, IsCall(t, "create_order_tool", cart),
         ~Refused(t, "create_order_tool", cart)
  PROVE  LET s == session[t]
             notes == calls'[New].notes
         IN /\ "unsearched" \notin notes /\ "unshown" \notin notes
            /\ shown[s] = {} => "unproven" \in notes
            /\ shown[s] # {} => /\ Products(Items[cart]) \subseteq Products(shown[s])
                                /\ "sku" \in notes \/ Unknown(Items[cart], shown[s]) = {}
                                /\ "duplicate" \in notes \/ ~Duplicate(s, cart)
<1> DEFINE s == session[t]
           checked == Checked(t, "create_order_tool", cart)
           notes == calls'[New].notes
<1>1. notes \in {checked, checked \cup {"loop"}} /\ checked \cap Refusals = {}
  BY CallAppends DEF Refused
<1>2. cart # NoCart
  BY DEF IsCall
<1>3. checked = OwnNotes(t, "create_order_tool") \cup Provenance(s, cart)
  BY <1>1, <1>2 DEF Checked
<1>4. Provenance(s, cart) \subseteq notes /\ "unshown" \notin Provenance(s, cart)
  BY <1>1, <1>3 DEF Refusals
<1>5. "unsearched" \notin notes /\ "unshown" \notin notes
  BY <1>1 DEF Refusals
<1> HIDE DEF s, checked, notes
<1>6. /\ shown[s] = {} => "unproven" \in notes
      /\ shown[s] # {} => /\ Products(Items[cart]) \subseteq Products(shown[s])
                          /\ "sku" \in notes \/ Unknown(Items[cart], shown[s]) = {}
                          /\ "duplicate" \in notes \/ ~Duplicate(s, cart)
  BY <1>4, ProvenanceCases
<1> QED BY <1>5, <1>6 DEF s, notes

\* An order is refused for what the records hold, not for what they lack.
LEMMA RefusedOrders ==
  ASSUME TypeOK, NEW t, NEW cart, IsCall(t, "create_order_tool", cart),
         Refused(t, "create_order_tool", cart)
  PROVE  LET s == session[t]
             notes == calls'[New].notes
         IN /\ "unsearched" \in notes => called[s] # {} /\ "product_search_tool" \notin called[s]
            /\ "unshown" \in notes => /\ shown[s] # {}
                                      /\ ~(Products(Items[cart]) \subseteq Products(shown[s]))
<1> DEFINE s == session[t]
           checked == Checked(t, "create_order_tool", cart)
           notes == calls'[New].notes
<1>1. notes = checked \cap Refusals
  BY CallAppends
<1>2. checked \subseteq OwnNotes(t, "create_order_tool") \cup Provenance(s, cart)
  BY DEF Checked
<1>3. "unsearched" \in notes => "unsearched" \in Sequencing(s, "create_order_tool")
  BY <1>1, <1>2, CheckedTypes DEF OwnNotes
<1>4. "unshown" \in notes => "unshown" \in Provenance(s, cart)
  BY <1>1, <1>2, CheckedTypes DEF OwnNotes
<1>5. Prerequisite("create_order_tool") = "product_search_tool"
  BY Zenon DEF Prerequisite
<1>6. "unsearched" \in Sequencing(s, "create_order_tool") =>
        called[s] # {} /\ "product_search_tool" \notin called[s]
  BY <1>5 DEF Sequencing
<1> HIDE DEF s, checked, notes
<1>7. "unshown" \in Provenance(s, cart) =>
        shown[s] # {} /\ ~(Products(Items[cart]) \subseteq Products(shown[s]))
  <2>1. CASE shown[s] = {}
    BY <2>1, ProvenanceCases
  <2>2. CASE shown[s] # {} /\ Products(Items[cart]) \subseteq Products(shown[s])
    <3>1. Provenance(s, cart) = Note("sku", Unknown(Items[cart], shown[s]) # {})
                                  \cup Note("duplicate", Duplicate(s, cart))
      BY <2>2, Zenon DEF Provenance, Unknown
    <3> QED BY <3>1 DEF Note
  <2> QED BY <2>1, <2>2
<1> QED BY <1>3, <1>4, <1>6, <1>7 DEF s, notes

-----------------------------------------------------------------------------
(***************************************************************************)
(* The history                                                             *)
(***************************************************************************)

LEMMA CallHistory ==
  ASSUME TypeOK, Records, History, NEW t, NEW tool, NEW cart, IsCall(t, tool, cart)
  PROVE  History'
<1> DEFINE s == session[t]
<1>1. /\ DOMAIN calls' = DOMAIN calls \cup {New} /\ New \notin DOMAIN calls
      /\ New \in Nat /\ \A c \in DOMAIN calls : c \in Nat /\ c < New
      /\ \A c \in DOMAIN calls : calls'[c] = calls[c]
      /\ calls'[New].turn = t /\ calls'[New].tool = tool /\ calls'[New].cart = cart
      /\ calls'[New].state = IF Refused(t, tool, cart) THEN "refused" ELSE "running"
      /\ calls'[New].beside = Running(s)
      /\ calls'[New].epoch = epoch[s] /\ calls'[New].known = EverShown(s)
  BY CallAppends
<1>2. UNCHANGED <<session, epoch>> /\ s \in Sessions
  BY DEF IsCall, Call, TypeOK
<1>3. /\ \A c \in DOMAIN calls : Of(c)' = Of(c)
      /\ \A c : c = New => Of(c)' = s
  BY <1>1, <1>2 DEF Of
<1>4. Orders' = Orders \cup {c \in {New} : tool = "create_order_tool"} /\ Orders \subseteq DOMAIN calls
  BY <1>1 DEF Orders
<1>5. \A c \in DOMAIN calls : calls[c].epoch \in Nat /\ calls[c].filed \in Nat /\ Of(c) \in Sessions
  BY CallsTyped DEF CallRecord
<1>6. RunningWasBeside'
  <2> SUFFICES ASSUME NEW c \in DOMAIN calls', NEW d \in DOMAIN calls',
                      c < d, Of(c)' = Of(d)', calls'[c].state = "running"
               PROVE  c \in calls'[d].beside
    BY DEF RunningWasBeside
  <2>1. c \in DOMAIN calls
    BY <1>1
  <2>2. CASE d \in DOMAIN calls
    BY <1>1, <1>3, <2>1, <2>2 DEF History, RunningWasBeside
  <2>3. CASE d = New
    BY <1>1, <1>3, <2>1, <2>3 DEF Running, CallsOf, Of
  <2> QED BY <1>1, <2>2, <2>3
<1>7. TwinsAreNoticed'
  <2> SUFFICES ASSUME NEW c \in Orders', NEW d \in Orders', Twins(c, d)',
                      calls'[c].state = "ok", Admitted(d)', c \notin calls'[d].beside
               PROVE  calls'[c].filed < calls'[d].epoch
    BY DEF TwinsAreNoticed
  <2>0. c < d /\ calls'[c].cart = calls'[d].cart /\ Of(c)' = Of(d)' /\ "duplicate" \notin calls'[d].notes
    BY DEF Twins
  <2>1. c \in DOMAIN calls /\ c \in Orders
    BY <1>1, <1>4, <2>0
  <2>2. CASE d \in DOMAIN calls
    BY <1>1, <1>3, <1>4, <2>0, <2>1, <2>2 DEF History, TwinsAreNoticed, Twins, Admitted
  <2>3. CASE d = New
    <3>1. tool = "create_order_tool" /\ ~Refused(t, tool, cart) /\ cart \in Carts
      BY <1>1, <1>4, <2>3 DEF Admitted, IsCall
    <3>2. c \in CallsOf(s) /\ calls[c].cart = cart /\ calls[c].tool = "create_order_tool"
          /\ calls[c].state = "ok"
      BY <1>1, <1>3, <2>0, <2>1, <2>3 DEF CallsOf, Of, Orders
    <3>3. ASSUME calls[c].filed = epoch[s] PROVE FALSE
      <4>1. c \in ordered[s]
        BY <1>2, <2>1, <3>2, <3>3 DEF Records, OrderedIsTrue
      <4>2. Duplicate(s, cart)
        BY <3>2, <4>1 DEF Duplicate
      <4>3. calls[c].found # {}
        BY <2>1, <3>1, <3>2 DEF Records, Sane
      <4>4. shown[s] # {}
        BY <1>2, <3>2, <3>3, <4>3 DEF Records, ShownIsTrue
      <4> QED BY <2>0, <2>3, <3>1, <4>2, <4>4, AdmittedOrders
    <3>4. calls[c].filed <= epoch[s] /\ epoch[s] \in Nat
      BY <1>2, <2>1, <3>2 DEF Records, Sane, CallsOf, Of, TypeOK
    <3> QED BY <1>1, <1>5, <2>1, <2>3, <3>3, <3>4
  <2> QED BY <1>1, <1>4, <2>2, <2>3
<1>8. epoch[s] = 0 => shown[s] = EverShown(s)
  <2>1. \A c \in CallsOf(s) : calls[c].filed \in Nat /\ calls[c].filed <= epoch[s]
    BY <1>5 DEF CallsOf, Of, Records, Sane
  <2>2. ASSUME epoch[s] = 0 PROVE {d \in CallsOf(s) : calls[d].filed = epoch[s]} = CallsOf(s)
    BY <2>1, <2>2
  <2> QED BY <1>2, <2>2 DEF Records, ShownIsTrue, EverShown
<1>9. shown[s] \subseteq EverShown(s)
  BY <1>2 DEF Records, ShownIsTrue, EverShown
<1>10. OrdersAsShown'
  <2> SUFFICES ASSUME NEW c \in Orders', Admitted(c)', "unproven" \notin calls'[c].notes
               PROVE  LET k == calls'[c].known
                          items == Items[calls'[c].cart]
                      IN /\ Products(items) \subseteq Products(k)
                         /\ "sku" \in calls'[c].notes \/ calls'[c].epoch > 0
                              \/ \A i \in items : SkusOf(i[1], k) = {} \/ i[2] \in SkusOf(i[1], k)
    BY DEF OrdersAsShown
  <2>1. CASE c \in DOMAIN calls
    <3>1. c \in Orders /\ Admitted(c) /\ calls'[c] = calls[c]
      BY <1>1, <1>4, <2>1 DEF Admitted
    <3> QED BY <3>1 DEF History, OrdersAsShown
  <2>2. CASE c = New
    <3>1. tool = "create_order_tool" /\ ~Refused(t, tool, cart)
      BY <1>1, <1>4, <2>2 DEF Admitted
    <3>2. /\ shown[s] # {} /\ Products(Items[cart]) \subseteq Products(shown[s])
          /\ "sku" \in calls'[c].notes \/ Unknown(Items[cart], shown[s]) = {}
      <4>1. IsCall(t, "create_order_tool", cart) /\ ~Refused(t, "create_order_tool", cart)
        BY <3>1
      <4>2. "unproven" \notin calls'[New].notes
        BY <2>2
      <4>3. /\ shown[s] # {} /\ Products(Items[cart]) \subseteq Products(shown[s])
            /\ "sku" \in calls'[New].notes \/ Unknown(Items[cart], shown[s]) = {}
        BY <4>1, <4>2, AdmittedOrders
      <4> QED BY <2>2, <4>3
    <3>3. Products(Items[cart]) \subseteq Products(EverShown(s))
      BY <1>9, <3>2 DEF Products
    <3>4. ASSUME epoch[s] = 0, Unknown(Items[cart], shown[s]) = {}
          PROVE  \A i \in Items[cart] : SkusOf(i[1], EverShown(s)) = {} \/ i[2] \in SkusOf(i[1], EverShown(s))
      BY <1>8, <3>4 DEF Unknown
    <3>5. epoch[s] \in Nat
      BY <1>2 DEF TypeOK
    <3> QED BY <1>1, <2>2, <3>2, <3>3, <3>4, <3>5
  <2> QED BY <1>1, <1>4, <2>1, <2>2
<1>11. RefusalsHaveEvidence'
  <2> SUFFICES ASSUME NEW c \in Orders'
               PROVE  /\ "unsearched" \in calls'[c].notes =>
                           /\ Heard(c)' # {}
                           /\ calls'[c].epoch > 0 \/ \A d \in Heard(c)' : calls'[d].tool # "product_search_tool"
                      /\ "unshown" \in calls'[c].notes =>
                           /\ Returned(c)' # {}
                           /\ calls'[c].epoch > 0
                                \/ ~(Products(Items[calls'[c].cart]) \subseteq Products(calls'[c].known))
    BY DEF RefusalsHaveEvidence
  <2>0. \A d \in DOMAIN calls' : d < c => d \in DOMAIN calls /\ calls'[d] = calls[d]
    BY <1>1, <1>4
  <2>1. CASE c \in DOMAIN calls
    <3>1. c \in Orders /\ calls'[c] = calls[c]
      BY <1>1, <1>4, <2>1
    <3>2. Heard(c)' = Heard(c)
      BY <1>1, <1>2, <2>0, <2>1 DEF Heard, CallsOf, Admitted
    <3>3. Returned(c)' = Returned(c)
      BY <1>1, <1>2, <2>0, <2>1 DEF Returned, CallsOf
    <3>4. \A d \in Heard(c) : calls'[d] = calls[d]
      BY <1>1 DEF Heard, CallsOf
    <3> QED BY <3>1, <3>2, <3>3, <3>4 DEF History, RefusalsHaveEvidence
  <2>2. CASE c = New
    <3>1. tool = "create_order_tool"
      BY <1>1, <1>4, <2>2
    <3>2. CASE ~Refused(t, tool, cart)
      BY <2>2, <3>1, <3>2, AdmittedOrders
    <3>3. CASE Refused(t, tool, cart)
      <4>1. Heard(c)' = {d \in CallsOf(s) : Admitted(d) /\ calls[d].epoch = epoch[s]}
        BY <1>1, <1>2, <1>3, <2>0, <2>2 DEF Heard, CallsOf, Admitted, Of
      <4>2. called[s] = {calls[d].tool : d \in Heard(c)'}
        BY <1>2, <4>1 DEF Records, CalledIsTrue
      <4>3. \A d \in Heard(c)' : calls'[d] = calls[d]
        BY <1>1, <4>1 DEF CallsOf
      <4>4. "unsearched" \in calls'[c].notes =>
              Heard(c)' # {} /\ \A d \in Heard(c)' : calls'[d].tool # "product_search_tool"
        BY <2>2, <3>1, <3>3, <4>2, <4>3, RefusedOrders
      <4>5. ASSUME NEW d \in CallsOf(s), calls[d].found # {}, calls[d].filed = epoch[s]
            PROVE  d \in Returned(c)'
        <5>1. d \in DOMAIN calls /\ Of(d) = s /\ d < New
          BY <1>1 DEF CallsOf, Of
        <5>2. calls[d].state = "ok"
          BY <4>5, <5>1 DEF Records, Sane
        <5>3. d \notin Running(s)
          BY <5>2 DEF Running
        <5> QED BY <1>1, <1>2, <1>3, <2>2, <4>5, <5>1, <5>3 DEF Returned, CallsOf, Of
      <4>6. shown[s] # {} => Returned(c)' # {}
        BY <1>2, <4>5 DEF Records, ShownIsTrue
      <4>7. "unshown" \in calls'[c].notes =>
              shown[s] # {} /\ ~(Products(Items[cart]) \subseteq Products(shown[s]))
        BY <2>2, <3>1, <3>3, RefusedOrders
      <4>8. epoch[s] > 0 \/ epoch[s] = 0
        BY <1>2 DEF TypeOK
      <4> QED BY <1>1, <1>8, <2>2, <4>4, <4>6, <4>7, <4>8
    <3> QED BY <3>2, <3>3
  <2> QED BY <1>1, <1>4, <2>1, <2>2
<1> QED BY <1>6, <1>7, <1>10, <1>11 DEF History

LEMMA ReturnHistory ==
  ASSUME TypeOK, Records, History, NEW b, NEW outcome, NEW found, IsReturn(b, outcome, found)
  PROVE  History'
<1>1. /\ DOMAIN calls' = DOMAIN calls /\ b \in DOMAIN calls
      /\ \A d \in DOMAIN calls : d # b => calls'[d] = calls[d]
      /\ \A d \in DOMAIN calls : SameButResult(calls'[d], calls[d])
      /\ calls[b].state = "running" /\ calls'[b].state = outcome
      /\ outcome # "refused" /\ outcome # "running"
  BY ReturnRewrites DEF IsReturn
<1>2. UNCHANGED session
  BY DEF IsReturn, Return
<1>3. \A d \in DOMAIN calls : Of(d)' = Of(d) /\ (Admitted(d)' <=> Admitted(d))
  BY <1>1, <1>2 DEF Of, SameButResult, Admitted
<1>4. Orders' = Orders /\ Orders \subseteq DOMAIN calls
  BY <1>1 DEF Orders, SameButResult
<1>5. RunningWasBeside'
  BY <1>1, <1>3 DEF History, RunningWasBeside, SameButResult
<1>6. TwinsAreNoticed'
  <2> SUFFICES ASSUME NEW c \in Orders, NEW d \in Orders, Twins(c, d)',
                      calls'[c].state = "ok", Admitted(d)', c \notin calls'[d].beside
               PROVE  calls'[c].filed < calls'[d].epoch
    BY <1>4 DEF TwinsAreNoticed
  <2>1. Twins(c, d) /\ Admitted(d) /\ c \notin calls[d].beside /\ calls[d].epoch = calls'[d].epoch
    BY <1>1, <1>3, <1>4 DEF Twins, SameButResult
  <2>2. c # b
    BY <1>1, <1>4, <2>1 DEF History, RunningWasBeside, Twins
  <2> QED BY <1>1, <1>4, <2>1, <2>2 DEF History, TwinsAreNoticed
<1>7. OrdersAsShown'
  BY <1>1, <1>3, <1>4 DEF History, OrdersAsShown, SameButResult
<1>8. RefusalsHaveEvidence'
  <2> SUFFICES ASSUME NEW c \in Orders
               PROVE  /\ "unsearched" \in calls'[c].notes =>
                           /\ Heard(c)' # {}
                           /\ calls'[c].epoch > 0 \/ \A d \in Heard(c)' : calls'[d].tool # "product_search_tool"
                      /\ "unshown" \in calls'[c].notes =>
                           /\ Returned(c)' # {}
                           /\ calls'[c].epoch > 0
                                \/ ~(Products(Items[calls'[c].cart]) \subseteq Products(calls'[c].known))
    BY <1>4 DEF RefusalsHaveEvidence
  <2>1. \A d \in DOMAIN calls :
          /\ calls'[d].turn = calls[d].turn /\ calls'[d].tool = calls[d].tool
          /\ calls'[d].epoch = calls[d].epoch /\ calls'[d].beside = calls[d].beside
          /\ calls'[d].notes = calls[d].notes /\ calls'[d].cart = calls[d].cart
          /\ calls'[d].known = calls[d].known
    BY <1>1 DEF SameButResult
  <2>2. CallsOf(session[calls[c].turn])' = CallsOf(session[calls[c].turn])
        /\ session'[calls'[c].turn] = session[calls[c].turn]
        /\ CallsOf(session[calls[c].turn]) \subseteq DOMAIN calls
    BY <1>1, <1>2, <1>4, <2>1 DEF CallsOf
  <2>3. Heard(c)' = Heard(c)
    BY <1>2, <1>3, <1>4, <2>1, <2>2 DEF Heard
  <2>4. Heard(c) \subseteq DOMAIN calls
    BY <2>2 DEF Heard
  <2>5. Returned(c) \subseteq Returned(c)'
    <3> SUFFICES ASSUME NEW d \in Returned(c) PROVE d \in Returned(c)'
      OBVIOUS
    <3>1. d \in CallsOf(session[calls[c].turn]) /\ d \in DOMAIN calls
          /\ d < c /\ d \notin calls[c].beside /\ calls[d].found # {} /\ calls[d].filed = calls[c].epoch
      BY <2>2 DEF Returned
    <3>2. d # b
      BY <1>1, <3>1 DEF Records, Sane
    <3> QED BY <1>1, <1>4, <2>1, <2>2, <3>1, <3>2 DEF Returned
  <2> QED BY <1>4, <2>1, <2>3, <2>4, <2>5 DEF History, RefusalsHaveEvidence
<1> QED BY <1>5, <1>6, <1>7, <1>8 DEF History

LEMMA QuietHistory ==
  ASSUME History, UNCHANGED <<session, calls>>
  PROVE  History'
BY SMTT(30) DEF History, RunningWasBeside, TwinsAreNoticed, Twins, OrdersAsShown, RefusalsHaveEvidence,
       Heard, Returned, CallsOf, Of, Orders, Admitted

-----------------------------------------------------------------------------
(***************************************************************************)
(* Theorems                                                                *)
(***************************************************************************)

LEMMA InvInit == Init => IInv
<1> SUFFICES ASSUME Init PROVE IInv
  OBVIOUS
<1>1. DOMAIN calls = {}
  BY DEF Init
<1>2. Records
  BY <1>1 DEF Init, Records, Sane, CalledIsTrue, ShownIsTrue, OrderedIsTrue, CallsOf
<1>3. History
  BY <1>1 DEF History, RunningWasBeside, TwinsAreNoticed, OrdersAsShown, RefusalsHaveEvidence, Orders
<1> QED BY <1>2, <1>3, TypeInit DEF IInv

LEMMA InvNext == IInv /\ [Next]_vars => IInv'
<1> SUFFICES ASSUME IInv, [Next]_vars PROVE IInv'
  OBVIOUS
<1>0. TypeOK /\ Records /\ History /\ TypeOK'
  BY TypeNext DEF IInv
<1>1. ASSUME NEW t, NEW tool, NEW cart, IsCall(t, tool, cart) PROVE IInv'
  BY <1>0, <1>1, CallRecords, CallHistory DEF IInv
<1>2. ASSUME NEW c, NEW outcome, NEW found, IsReturn(c, outcome, found) PROVE IInv'
  BY <1>0, <1>2, ReturnRecords, ReturnHistory DEF IInv
<1>3. ASSUME NEW s \in Sessions, Evict(s) PROVE IInv'
  <2>1. UNCHANGED <<session, calls>>
    BY <1>3 DEF Evict
  <2> QED BY <1>0, <1>3, <2>1, EvictRecords, QuietHistory DEF IInv
<1>4. CASE (\E t \in Turns : Begin(t) \/ End(t)) \/ UNCHANGED vars
  <2>1. UNCHANGED <<session, calls, called, shown, ordered, epoch>>
    BY <1>4 DEF Begin, End, vars, trackers
  <2> QED BY <1>0, <2>1, QuietRecords, QuietHistory DEF IInv
<1> QED BY <1>1, <1>2, <1>3, <1>4, StepsByCalls

LEMMA Invariance == Spec => []IInv
BY InvInit, InvNext, PTL DEF Spec

\* order_provenance.py, through every interleaving of turns, sub-agents and
\* evictions: an order that gets through unwarned buys what an answer of its own
\* session named (the conclusion of a sub-agent is one, whatever it names), not
\* what only another session saw or an error text named.
THEOREM OrdersComeFromAnswers == Spec => []OrdersAsShown
<1>1. IInv => OrdersAsShown
  BY DEF IInv, History
<1> QED BY <1>1, Invariance, PTL

\* _find_duplicate and record_order: the second of two equal orders is noticed
\* unless the first ran beside its check, was cut off by the tool timeout, or
\* was forgotten with the session.
THEOREM TwinsDoNotPass == Spec => []NoSilentTwin
<1>1. ASSUME IInv PROVE NoSilentTwin
  <2> SUFFICES ASSUME NEW c \in Placed, NEW d \in Placed, Twins(c, d)
               PROVE  c \in calls[d].beside \/ calls[c].state = "lost" \/ calls[c].filed < calls[d].epoch
    BY DEF NoSilentTwin, Twins, Of
  <2>1. c \in Orders /\ d \in Orders /\ Admitted(d) /\ calls[c].state \in {"ok", "lost"}
    BY DEF Placed, Admitted
  <2> QED BY <1>1, <2>1 DEF IInv, History, TwinsAreNoticed
<1>2. IInv => NoSilentTwin
  BY <1>1
<1> QED BY <1>2, Invariance, PTL

\* SequencingTracker.check and OrderProvenanceTracker.check refuse an order on
\* evidence of the session's own calls only: a session whose records are empty
\* is warned.
THEOREM RefusedOnEvidence == Spec => []RefusalsHaveEvidence
<1>1. IInv => RefusalsHaveEvidence
  BY DEF IInv, History
<1> QED BY <1>1, Invariance, PTL

-----------------------------------------------------------------------------
(***************************************************************************)
(* ModelGate                                                               *)
(***************************************************************************)

USE ModelGateAssumption

-----------------------------------------------------------------------------
(***************************************************************************)
(* The inductive invariant                                                 *)
(***************************************************************************)

Holders == {a \in Agents : pc[a] \in Holding}

\* The calls whose tokens the main model will be charged for.
OnMain == {a \in Agents : pc[a] \in Upstream \cup {"backoff"} /\ serving[a] = "main"}

GateTypeOK ==
  /\ pc \in [Agents -> {"idle", "queued"} \cup Holding \cup Ended]
  /\ fallback \in BOOLEAN
  /\ free \in Nat
  /\ since \in 0..Interval
  /\ wait \in [Agents -> 0..Interval]
  /\ attempt \in [Agents -> Nat] /\ round \in [Agents -> Nat]
  /\ serving \in [Agents -> {"main", "fallback"}]
  /\ used \in Nat /\ spent \in Nat

\* Every slot is free or held by one call, whatever the call is doing.
SlotsKept == free + Cardinality(Holders) = Slots

\* One call sleeps at a time, for what is left of the interval.
OneSleeper ==
  \A a \in Agents :
    /\ pc[a] = "sleeping" => sleeper = a /\ wait[a] = Interval - since
    /\ wait[a] > 0 => pc[a] = "sleeping"

\* What the main model was charged for, and what it still may be by the calls
\* it is serving now.
MainBound ==
  /\ spent <= used
  /\ fallback =>
       2 * spent + 2 * (Cardinality(OnMain) * MostCost) < Total + 2 * (Slots * MostCost)

GateIInv == GateTypeOK /\ SlotsKept /\ OneSleeper /\ MainBound

-----------------------------------------------------------------------------
(***************************************************************************)
(* Lemmas                                                                  *)
(***************************************************************************)

\* Nothing a call may cost is more than MostCost.
LEMMA MostCostBounds == MostCost \in Nat /\ \A cost \in Costs : cost <= MostCost
BY DEF MostCost

\* A set of calls is finite, and what a call that comes or goes does to its size.
LEMMA Sizes ==
  ASSUME NEW S \in SUBSET Agents, NEW a \in Agents
  PROVE  /\ IsFiniteSet(S) /\ Cardinality(S) \in Nat
         /\ a \notin S => Cardinality(S \cup {a}) = Cardinality(S) + 1
         /\ a \in S => Cardinality(S \ {a}) = Cardinality(S) - 1
         /\ Cardinality(S \ {a}) \in Nat
         /\ Cardinality(S \ {a}) <= Cardinality(S)
<1>1. IsFiniteSet(S)
  BY FS_Subset
<1>2. IsFiniteSet(S \ {a})
  BY <1>1, FS_RemoveElement
<1> QED BY <1>1, <1>2, FS_CardinalityType, FS_AddElement, FS_RemoveElement, FS_Subset

\* The calls the main model serves hold slots, so they are no more than those.
LEMMA OnMainFits ==
  ASSUME GateTypeOK, SlotsKept
  PROVE  /\ Cardinality(OnMain) \in Nat /\ Cardinality(OnMain) <= Slots
<1>1. OnMain \in SUBSET Holders /\ Holders \in SUBSET Agents
  BY DEF OnMain, Holders, Holding
<1>2. IsFiniteSet(Holders)
  BY <1>1, FS_Subset
<1>3. /\ Cardinality(OnMain) <= Cardinality(Holders)
      /\ Cardinality(OnMain) \in Nat /\ Cardinality(Holders) \in Nat
  BY <1>1, <1>2, FS_Subset, FS_CardinalityType
<1> QED BY <1>3 DEF GateTypeOK, SlotsKept

\* current_tier: with a fallback model, the main one is asked only while less
\* than half the budget is used.
LEMMA MainIsForTheFirstHalf ==
  ASSUME GateTypeOK
  PROVE  /\ Chosen \in {"main", "fallback"}
         /\ fallback /\ Chosen = "main" => 2 * used < Total
<1>1. Chosen \in {"main", "fallback"}
  BY DEF Chosen
<1>2. ASSUME fallback, Chosen = "main" PROVE 2 * used < Total
  <2>1. Tier = "main"
    BY <1>2 DEF Chosen
  <2>2. 2 * Left > Total
    BY <2>1 DEF Tier
  <2>3. used \in Nat /\ Total \in Nat
    BY DEF GateTypeOK
  <2> QED BY <2>2, <2>3 DEF Left
<1> QED BY <1>1, <1>2

\* A product grows with its factor.
LEMMA Scaled ==
  ASSUME NEW i \in Nat, NEW j \in Nat, NEW k \in Nat, i <= j
  PROVE  /\ i * k \in Nat /\ j * k \in Nat /\ i * k <= j * k
         /\ (i + 1) * k = i * k + k
BY SMT

-----------------------------------------------------------------------------
(***************************************************************************)
(* Types and the sleeper                                                   *)
(***************************************************************************)

LEMMA GateTypeInit == GateInit => GateTypeOK
BY DEF GateInit, GateTypeOK

\* The calls of an agent, for a proof that goes through the actions: what the
\* agent does next, and what is done to it.
LEMMA GateTypeNext == GateTypeOK /\ OneSleeper /\ [GateNext]_gateVars => GateTypeOK'
<1> SUFFICES ASSUME GateTypeOK, OneSleeper, [GateNext]_gateVars PROVE GateTypeOK'
  OBVIOUS
<1> USE DEF Holding, Upstream, Ended, gate
<1>1. ASSUME NEW a \in Agents, Ask(a) PROVE GateTypeOK'
  BY <1>1 DEF GateTypeOK, Ask, Goto
<1>2. ASSUME NEW a \in Agents, Admit(a) PROVE GateTypeOK'
  BY <1>2 DEF GateTypeOK, Admit, Goto
<1>3. ASSUME NEW a \in Agents, Lock(a) PROVE GateTypeOK'
  BY <1>3 DEF GateTypeOK, Lock, Goto
<1>4. ASSUME NEW a \in Agents, Start(a) PROVE GateTypeOK'
  BY <1>4, MainIsForTheFirstHalf DEF GateTypeOK, Start, Goto
<1>5. ASSUME NEW a \in Agents, NEW l \in {"idle"} \cup Ended, Leave(a, l)
      PROVE  /\ pc' \in [Agents -> {"idle", "queued"} \cup Holding \cup Ended]
             /\ free' \in Nat /\ attempt' \in [Agents -> Nat]
             /\ serving' \in [Agents -> {"main", "fallback"}]
  BY <1>5 DEF GateTypeOK, Leave, Release, Goto
<1>6. ASSUME NEW a \in Agents, NEW cost \in Costs, Charge(a, cost)
      PROVE  used' \in Nat /\ spent' \in Nat
  BY <1>6 DEF GateTypeOK, Charge
<1>7. ASSUME NEW a \in Agents, NEW cost \in Costs, Answer(a, cost) \/ ReadOut(a, cost)
      PROVE  GateTypeOK'
  BY <1>5, <1>6, <1>7 DEF GateTypeOK, Answer, ReadOut
<1>8. ASSUME NEW a \in Agents, Stream(a) \/ BackOff(a) PROVE GateTypeOK'
  BY <1>8 DEF GateTypeOK, Stream, Hold, BackOff, Goto
<1>9. ASSUME NEW a \in Agents, Retry(a) \/ Rescue(a) PROVE GateTypeOK'
  BY <1>9, MainIsForTheFirstHalf DEF GateTypeOK, Retry, Rescue, Goto
<1>10. ASSUME NEW a \in Agents, NEW transient \in BOOLEAN,
              Fail(a, transient) \/ Break(a, transient)
       PROVE  GateTypeOK'
  BY <1>5, <1>10 DEF GateTypeOK, Fail, Break, Again, Uncharged
<1>11. ASSUME NEW a \in Agents, Cancel(a) PROVE GateTypeOK'
  <2>1. CASE pc[a] = "queued"
    BY <1>11, <2>1 DEF GateTypeOK, Cancel, Goto
  <2>2. CASE pc[a] # "queued"
    BY <1>5, <1>11, <2>2 DEF GateTypeOK, Cancel
  <2> QED BY <2>1, <2>2
<1>12. CASE Tick
  BY <1>12 DEF GateTypeOK, Tick
<1>13. CASE UNCHANGED gateVars
  BY <1>13 DEF GateTypeOK, gateVars
<1> QED BY <1>1, <1>2, <1>3, <1>4, <1>7, <1>8, <1>9, <1>10, <1>11, <1>12, <1>13
        DEF GateNext, Progress

LEMMA SleeperNext == GateTypeOK /\ OneSleeper /\ [GateNext]_gateVars => OneSleeper'
<1> SUFFICES ASSUME GateTypeOK, OneSleeper, [GateNext]_gateVars PROVE OneSleeper'
  OBVIOUS
<1> USE DEF Holding, Upstream, Ended, gate
<1>1. ASSUME NEW a \in Agents, Ask(a) \/ Admit(a) PROVE OneSleeper'
  BY <1>1 DEF GateTypeOK, OneSleeper, Ask, Admit, Goto
<1>2. ASSUME NEW a \in Agents, Lock(a) PROVE OneSleeper'
  <2>1. \A b \in Agents : pc[b] # "sleeping" /\ wait[b] = 0
    BY <1>2 DEF GateTypeOK, OneSleeper, Lock, LockFree
  <2> QED BY <1>2, <2>1 DEF GateTypeOK, OneSleeper, Lock, Goto
<1>3. ASSUME NEW a \in Agents, Start(a) PROVE OneSleeper'
  BY <1>3 DEF GateTypeOK, OneSleeper, Start, Goto
<1>4. ASSUME NEW a \in Agents, pc[a] # "sleeping", NEW l, l # "sleeping",
             Goto(a, l), UNCHANGED <<sleeper, wait, since>>
      PROVE  OneSleeper'
  BY <1>4 DEF GateTypeOK, OneSleeper, Goto
<1>5. ASSUME NEW a \in Agents, NEW cost \in Costs, Answer(a, cost) \/ ReadOut(a, cost)
      PROVE  OneSleeper'
  BY <1>4, <1>5 DEF Answer, ReadOut, Leave
<1>6. ASSUME NEW a \in Agents, Stream(a) \/ BackOff(a) \/ Retry(a) \/ Rescue(a)
      PROVE  OneSleeper'
  BY <1>4, <1>6 DEF Stream, BackOff, Retry, Rescue
<1>7. ASSUME NEW a \in Agents, NEW transient \in BOOLEAN,
             Fail(a, transient) \/ Break(a, transient)
      PROVE  OneSleeper'
  BY <1>4, <1>7 DEF Fail, Break, Again, Leave
<1>8. ASSUME NEW a \in Agents, Cancel(a) PROVE OneSleeper'
  <2>1. pc' = [pc EXCEPT ![a] = "cancelled"]
    BY <1>8 DEF Cancel, Leave, Goto
  <2> QED BY <1>8, <2>1 DEF GateTypeOK, OneSleeper, Cancel
<1>9. CASE Tick
  BY <1>9 DEF GateTypeOK, OneSleeper, Tick
<1>10. CASE UNCHANGED gateVars
  BY <1>10 DEF OneSleeper, gateVars
<1> QED BY <1>1, <1>2, <1>3, <1>5, <1>6, <1>7, <1>8, <1>9, <1>10 DEF GateNext, Progress

-----------------------------------------------------------------------------
(***************************************************************************)
(* The slots                                                               *)
(***************************************************************************)

\* A call takes a slot, keeps it, or gives it back, and the count with it.
LEMMA SlotTaken ==
  ASSUME GateTypeOK, SlotsKept, NEW a \in Agents, a \notin Holders,
         Holders' = Holders \cup {a}, free' = free - 1
  PROVE  SlotsKept'
<1>1. Cardinality(Holders') = Cardinality(Holders) + 1 /\ Cardinality(Holders) \in Nat
  BY Sizes DEF Holders
<1> QED BY <1>1 DEF GateTypeOK, SlotsKept

LEMMA SlotKept ==
  ASSUME SlotsKept, Holders' = Holders, free' = free
  PROVE  SlotsKept'
BY DEF SlotsKept

LEMMA SlotGiven ==
  ASSUME GateTypeOK, SlotsKept, NEW a \in Holders, NEW l \in {"idle"} \cup Ended, Leave(a, l)
  PROVE  SlotsKept'
<1>1. Holders' = Holders \ {a} /\ free' = free + 1
  BY DEF GateTypeOK, Leave, Release, Goto, Holders, Holding, Upstream, Ended
<1>2. Cardinality(Holders') = Cardinality(Holders) - 1 /\ Cardinality(Holders) \in Nat
  BY <1>1, Sizes DEF Holders
<1> QED BY <1>1, <1>2 DEF GateTypeOK, SlotsKept

LEMMA SlotsNext == GateTypeOK /\ SlotsKept /\ [GateNext]_gateVars => SlotsKept'
<1> SUFFICES ASSUME GateTypeOK, SlotsKept, [GateNext]_gateVars PROVE SlotsKept'
  OBVIOUS
<1> USE DEF Holding, Upstream, Ended, gate
<1>1. ASSUME NEW a \in Agents, pc[a] = "queued", Goto(a, "locking"), free' = free - 1
      PROVE  SlotsKept'
  <2>1. a \notin Holders /\ Holders' = Holders \cup {a}
    BY <1>1 DEF GateTypeOK, Holders, Goto
  <2> QED BY <1>1, <2>1, SlotTaken
<1>2. ASSUME NEW a \in Agents, NEW l, Goto(a, l), pc[a] \in Holding <=> l \in Holding, free' = free
      PROVE  SlotsKept'
  <2>1. Holders' = Holders
    BY <1>2 DEF GateTypeOK, Holders, Goto
  <2> QED BY <1>2, <2>1, SlotKept
<1>3. ASSUME NEW a \in Agents, NEW l \in {"idle"} \cup Ended, pc[a] \in Holding, Leave(a, l)
      PROVE  SlotsKept'
  BY <1>3, SlotGiven DEF Holders
<1>4. ASSUME NEW a \in Agents, Ask(a) \/ Admit(a) \/ Lock(a) \/ Start(a) PROVE SlotsKept'
  BY <1>1, <1>2, <1>4 DEF Ask, Admit, Lock, Start
<1>5. ASSUME NEW a \in Agents, Stream(a) \/ BackOff(a) \/ Retry(a) \/ Rescue(a)
      PROVE  SlotsKept'
  BY <1>2, <1>5 DEF Stream, Hold, BackOff, Retry, Rescue
<1>6. ASSUME NEW a \in Agents, NEW cost \in Costs, Answer(a, cost) \/ ReadOut(a, cost)
      PROVE  SlotsKept'
  BY <1>3, <1>6 DEF Answer, ReadOut
<1>7. ASSUME NEW a \in Agents, NEW transient \in BOOLEAN,
             Fail(a, transient) \/ Break(a, transient)
      PROVE  SlotsKept'
  BY <1>3, <1>7 DEF Fail, Break, Again
<1>8. ASSUME NEW a \in Agents, Cancel(a) PROVE SlotsKept'
  BY <1>2, <1>3, <1>8 DEF Cancel
<1>9. CASE Tick \/ UNCHANGED gateVars
  BY <1>9, SlotKept DEF Tick, gateVars, Holders
<1> QED BY <1>4, <1>5, <1>6, <1>7, <1>8, <1>9 DEF GateNext, Progress

-----------------------------------------------------------------------------
(***************************************************************************)
(* The budget                                                              *)
(***************************************************************************)

\* A call gets its model, or ends uncharged: the main model is given out below
\* half of the budget and to no more than Slots, whatever was given before.
LEMMA ModelChosen ==
  ASSUME GateTypeOK, GateTypeOK', SlotsKept', MainBound, UNCHANGED <<fallback, used, spent>>,
         OnMain' \subseteq OnMain \/ Chosen = "main"
  PROVE  MainBound'
<1>1. (GateTypeOK /\ SlotsKept => Cardinality(OnMain) \in Nat /\ Cardinality(OnMain) <= Slots)'
  BY OnMainFits, PTL
<1>2. Cardinality(OnMain') \in Nat /\ Cardinality(OnMain') <= Slots
  BY <1>1
<1>3. /\ Cardinality(OnMain') * MostCost \in Nat
      /\ Slots * MostCost \in Nat
      /\ Cardinality(OnMain') * MostCost <= Slots * MostCost
  BY <1>2, Scaled, MostCostBounds
<1>4. used \in Nat /\ spent \in Nat
  BY DEF GateTypeOK
<1>5. CASE OnMain' \subseteq OnMain
  <2>1. OnMain \in SUBSET Agents /\ IsFiniteSet(OnMain)
    BY FS_Subset DEF OnMain
  <2>2. Cardinality(OnMain) \in Nat /\ Cardinality(OnMain') <= Cardinality(OnMain)
    BY <1>5, <2>1, FS_Subset, FS_CardinalityType
  <2>3. /\ Cardinality(OnMain) * MostCost \in Nat
        /\ Cardinality(OnMain') * MostCost <= Cardinality(OnMain) * MostCost
    BY <1>2, <2>2, Scaled, MostCostBounds
  <2> QED BY <1>3, <1>4, <2>3 DEF MainBound
<1>6. CASE Chosen = "main"
  <2>1. fallback => 2 * used < Total
    BY <1>6, MainIsForTheFirstHalf
  <2> QED BY <1>3, <1>4, <2>1 DEF MainBound
<1> QED BY <1>5, <1>6

\* A call is charged as it leaves the slot: what it may cost the main model is
\* no longer held against it.
LEMMA CallCharged ==
  ASSUME GateTypeOK, MainBound, UNCHANGED fallback, NEW a \in Agents, NEW cost \in Costs,
         pc[a] \in Upstream, Charge(a, cost), OnMain' = OnMain \ {a}
  PROVE  MainBound'
<1>1. /\ Cardinality(OnMain) \in Nat /\ Cardinality(OnMain') \in Nat
      /\ a \in OnMain => Cardinality(OnMain) = Cardinality(OnMain') + 1
      /\ Cardinality(OnMain') <= Cardinality(OnMain)
  <2>1. OnMain \in SUBSET Agents
    BY DEF OnMain
  <2> DEFINE rest == OnMain \ {a}
  <2>2. /\ Cardinality(OnMain) \in Nat /\ Cardinality(rest) \in Nat
        /\ a \in OnMain => Cardinality(rest) = Cardinality(OnMain) - 1
        /\ Cardinality(rest) <= Cardinality(OnMain)
    BY <2>1, Sizes
  <2>3. Cardinality(OnMain') = Cardinality(rest)
    OBVIOUS
  <2> HIDE DEF rest
  <2> QED BY <2>2, <2>3
<1>2. MostCost \in Nat /\ cost \in Nat /\ cost <= MostCost
  BY MostCostBounds
<1>3. /\ Cardinality(OnMain) * MostCost \in Nat
      /\ Cardinality(OnMain') * MostCost \in Nat
      /\ Cardinality(OnMain') * MostCost <= Cardinality(OnMain) * MostCost
      /\ a \in OnMain =>
           Cardinality(OnMain) * MostCost = Cardinality(OnMain') * MostCost + MostCost
  BY <1>1, <1>2, Scaled
<1>4. Slots * MostCost \in Nat
  BY <1>2, Scaled
<1>5. used \in Nat /\ spent \in Nat
  BY DEF GateTypeOK
<1>6. serving[a] = "main" <=> a \in OnMain
  BY DEF OnMain
<1> QED BY <1>2, <1>3, <1>4, <1>5, <1>6 DEF MainBound, Charge

LEMMA BoundNext ==
  GateTypeOK /\ MainBound /\ GateTypeOK' /\ SlotsKept' /\ [GateNext]_gateVars => MainBound'
<1> SUFFICES ASSUME GateTypeOK, MainBound, GateTypeOK', SlotsKept', [GateNext]_gateVars PROVE MainBound'
  OBVIOUS
<1> USE DEF Holding, Upstream, Ended, gate
<1>1. ASSUME OnMain' \subseteq OnMain, UNCHANGED <<fallback, used, spent>> PROVE MainBound'
  BY <1>1, ModelChosen
<1>2. ASSUME NEW a \in Agents, Ask(a) \/ Admit(a) \/ Lock(a) \/ Stream(a) \/ BackOff(a)
      PROVE  MainBound'
  <2>1. OnMain' \subseteq OnMain
    BY <1>2 DEF GateTypeOK, OnMain, Ask, Admit, Lock, Stream, BackOff, Goto
  <2> QED BY <1>1, <1>2, <2>1 DEF Ask, Admit, Lock, Stream, BackOff
<1>3. ASSUME NEW a \in Agents, Start(a) \/ Retry(a) PROVE MainBound'
  <2>1. OnMain' \subseteq OnMain \/ Chosen = "main"
    BY <1>3 DEF GateTypeOK, OnMain, Start, Retry, Goto
  <2> QED BY <1>3, <2>1, ModelChosen DEF Start, Retry
<1>4. ASSUME NEW a \in Agents, Rescue(a) PROVE MainBound'
  <2>1. OnMain' \subseteq OnMain
    BY <1>4 DEF GateTypeOK, OnMain, Rescue, Goto
  <2> QED BY <1>1, <1>4, <2>1 DEF Rescue
<1>5. ASSUME NEW a \in Agents, NEW l \in {"idle"} \cup Ended, Leave(a, l)
      PROVE  OnMain' = OnMain \ {a}
  BY <1>5 DEF GateTypeOK, OnMain, Leave, Goto
<1>6. ASSUME NEW a \in Agents, NEW cost \in Costs, Answer(a, cost) \/ ReadOut(a, cost)
      PROVE  MainBound'
  <2>1. OnMain' = OnMain \ {a}
    BY <1>5, <1>6 DEF Answer, ReadOut
  <2>2. pc[a] \in Upstream /\ Charge(a, cost) /\ UNCHANGED fallback
    BY <1>6 DEF Answer, ReadOut
  <2> QED BY <2>1, <2>2, CallCharged
<1>7. ASSUME NEW a \in Agents, NEW transient \in BOOLEAN,
             Fail(a, transient) \/ Break(a, transient)
      PROVE  MainBound'
  <2>1. OnMain' = OnMain \ {a}
    BY <1>5, <1>7 DEF Fail, Break, Again
  <2> QED BY <1>1, <1>7, <2>1 DEF Fail, Break, Uncharged
<1>8. ASSUME NEW a \in Agents, Cancel(a) PROVE MainBound'
  <2>1. OnMain' \subseteq OnMain
    BY <1>5, <1>8 DEF GateTypeOK, OnMain, Cancel, Goto
  <2> QED BY <1>1, <1>8, <2>1 DEF Cancel
<1>9. CASE Tick \/ UNCHANGED gateVars
  <2>1. OnMain' = OnMain /\ UNCHANGED <<fallback, used, spent>>
    BY <1>9 DEF Tick, gateVars, OnMain
  <2> QED BY <1>1, <2>1
<1> QED BY <1>2, <1>3, <1>4, <1>6, <1>7, <1>8, <1>9 DEF GateNext, Progress

-----------------------------------------------------------------------------
(***************************************************************************)
(* Theorems                                                                *)
(***************************************************************************)

LEMMA GateInvInit == GateInit => GateIInv
<1> SUFFICES ASSUME GateInit PROVE GateIInv
  OBVIOUS
<1>1. GateTypeOK
  BY GateTypeInit
<1>2. Holders = {} /\ OnMain = {}
  BY DEF GateInit, Holders, OnMain, Holding, Upstream
<1>3. SlotsKept
  BY <1>2, FS_EmptySet DEF GateInit, SlotsKept
<1>4. OneSleeper
  BY DEF GateInit, OneSleeper
<1>5. MainBound
  <2>1. Slots * MostCost \in Nat /\ 0 * MostCost = 0
    BY MostCostBounds, Scaled
  <2> QED BY <1>2, <2>1, FS_EmptySet DEF GateInit, MainBound
<1> QED BY <1>1, <1>3, <1>4, <1>5 DEF GateIInv

LEMMA GateInvNext == GateIInv /\ [GateNext]_gateVars => GateIInv'
BY GateTypeNext, SleeperNext, SlotsNext, BoundNext DEF GateIInv

LEMMA GateInvariance == GateSpec => []GateIInv
BY GateInvInit, GateInvNext, PTL DEF GateSpec

\* The state of the gate keeps its types: throttle.py, chat_model_factory.py.
THEOREM GateTypeCorrect == GateSpec => []GateTypeOK
<1>1. GateIInv => GateTypeOK
  BY DEF GateIInv
<1> QED BY <1>1, GateInvariance, PTL

\* GatewayThrottle.slot: through retries, back-off, rescue, streams and
\* cancellation no slot is lost or given back twice, so that the gateway never
\* has more than Slots requests; and budget.py: while the fallback model is set,
\* the main one costs less than half the budget and what fits into the slots.
THEOREM GatewayIsSpared == GateSpec => []WithinBounds
<1>1. ASSUME GateIInv PROVE SlotsBound
  <2>1. free + Cardinality(Holders) = Slots /\ free \in Nat
    BY <1>1 DEF GateIInv, GateTypeOK, SlotsKept
  <2>2. InFlight \in SUBSET Holders /\ Holders \in SUBSET Agents
    BY DEF InFlight, Holders, Holding
  <2>3. IsFiniteSet(Holders)
    BY <2>2, FS_Subset
  <2>4. /\ Cardinality(InFlight) <= Cardinality(Holders)
        /\ Cardinality(InFlight) \in Nat /\ Cardinality(Holders) \in Nat
    BY <2>2, <2>3, FS_Subset, FS_CardinalityType
  <2> QED BY <2>1, <2>4 DEF SlotsBound, Holders
<1>2. ASSUME GateIInv PROVE MainOverrunBounded
  <2>1. Cardinality(OnMain) * MostCost \in Nat /\ Slots * MostCost \in Nat
    BY <1>2, OnMainFits, MostCostBounds, Scaled DEF GateIInv
  <2>2. 2 * (Slots * MostCost) = 2 * Slots * MostCost
    BY MostCostBounds
  <2> QED BY <1>2, <2>1, <2>2 DEF GateIInv, GateTypeOK, MainBound, MainOverrunBounded
<1>3. GateIInv => WithinBounds
  BY <1>1, <1>2 DEF WithinBounds
<1> QED BY <1>3, GateInvariance, PTL

\* _space_out: whoever is cancelled while it sleeps under the lock, two calls
\* never start within the interval of each other.
THEOREM StartsAreSpaced == GateSpec => StartsSpaced
<1> USE DEF Holding, Upstream, Ended, gate
<1> DEFINE Spaced == \A a \in Agents : pc[a] = "sleeping" /\ pc'[a] = "calling" => since = Interval
<1>1. ASSUME GateIInv, [GateNext]_gateVars PROVE Spaced
  <2> SUFFICES ASSUME NEW a \in Agents, pc[a] = "sleeping", pc'[a] = "calling"
               PROVE  since = Interval
    OBVIOUS
  <2>1. ASSUME NEW b \in Agents, NEW l, l # "calling", Goto(b, l) PROVE FALSE
    BY <1>1, <2>1 DEF GateIInv, GateTypeOK, Goto
  <2>2. ASSUME NEW b \in Agents, pc[b] # "sleeping", NEW l, Goto(b, l) PROVE FALSE
    BY <1>1, <2>2 DEF GateIInv, GateTypeOK, Goto
  <2>3. PICK b \in Agents : Start(b)
    <3>1. ~Tick /\ ~UNCHANGED gateVars
      BY DEF Tick, gateVars
    <3>2. \A b \in Agents : ~(Ask(b) \/ Admit(b) \/ Lock(b) \/ Stream(b) \/ BackOff(b) \/ Rescue(b) \/ Retry(b))
      BY <2>1, <2>2 DEF Ask, Admit, Lock, Stream, BackOff, Rescue, Retry
    <3>3. \A b \in Agents, cost \in Costs : ~(Answer(b, cost) \/ ReadOut(b, cost))
      BY <2>1 DEF Answer, ReadOut, Leave
    <3>4. \A b \in Agents, transient \in BOOLEAN : ~(Fail(b, transient) \/ Break(b, transient))
      BY <2>1 DEF Fail, Break, Again, Leave
    <3>5. \A b \in Agents : ~Cancel(b)
      BY <2>1 DEF Cancel, Leave
    <3> QED BY <1>1, <3>1, <3>2, <3>3, <3>4, <3>5 DEF GateNext, Progress
  <2>4. b = a
    BY <1>1, <2>3 DEF Start, Goto, GateIInv, GateTypeOK
  <2> QED BY <1>1, <2>3, <2>4 DEF Start, GateIInv, GateTypeOK, OneSleeper
<1> HIDE DEF Spaced
<1>2. GateIInv /\ [GateNext]_gateVars => [Spaced]_gateVars
  BY <1>1
<1>3. GateSpec => [][Spaced]_gateVars
  BY <1>2, GateInvariance, PTL DEF GateSpec
<1> QED BY <1>3 DEF Spaced, StartsSpaced
=============================================================================
