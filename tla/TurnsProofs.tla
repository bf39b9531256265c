---------------------------- MODULE TurnsProofs ----------------------------
(***************************************************************************)
(* Proofs about Turns, for every number of messages, sessions, processes   *)
(* and cached agents.                                                      *)
(*                                                                         *)
(* Ordered: which of a session's turns holds the agent, which one builds   *)
(* it, and what was answered before.  FirstTurns: a session without an     *)
(* answer has no snapshot, and its counts are of the turn under way.       *)
(* Dialogues: as long as nothing frayed a session, all its buyer was told is*)
(* in the one cached agent, in a draft read for it, or in the snapshot.    *)
(***************************************************************************)
EXTENDS Turns, TLAPS

\* The part of the type invariant that the turn counts rest on.
CountsOK ==
  /\ session \in [Turns -> Sessions]
  /\ process \in [Turns -> Processes]
  /\ agents \in [Processes -> [Sessions -> Turns \cup {NoAgent}]]
  /\ count \in [Processes -> [Sessions -> 0..2]]

\* A turn that begins is counted (begin_turn).
LEMMA NextCountOK ==
  ASSUME NEW n \in 0..2, NEW hasHistory \in BOOLEAN
  PROVE  NextCount(n, hasHistory) \in 1..2
BY DEF NextCount

\* No other step touches what CountsOK and CountedWhileCached speak of.
LEMMA Untouched ==
  ASSUME NEW t \in Turns,
         \/ \E ok \in BOOLEAN : Load(t, ok) \/ Save(t, ok)
         \/ Speak(t) \/ Order(t) \/ Answer(t) \/ Persist(t)
         \/ \E tool \in {"search", "other"} : Call(t, tool)
  PROVE  UNCHANGED <<session, process, agents, count>>
BY DEF Load, Save, Speak, Order, Answer, Persist, Call, turnVars, cacheVars, trackers

LEMMA CountsNext == CountsOK /\ CountedWhileCached /\ [Next]_vars => CountsOK' /\ CountedWhileCached'
<1> SUFFICES ASSUME CountsOK, CountedWhileCached, [Next]_vars
             PROVE  CountsOK' /\ CountedWhileCached'
  OBVIOUS
<1> USE TurnsAssumption
<1>1. CASE UNCHANGED <<session, process, agents, count>>
  BY <1>1 DEF CountsOK, CountedWhileCached, Cached
<1>2. ASSUME NEW t \in Turns, Arrive(t) PROVE CountsOK' /\ CountedWhileCached'
  <2> DEFINE s == session[t]
             p == process[t]
             h == context[agents[p][s]] # {}
  <2>1. s \in Sessions /\ p \in Processes
    BY DEF CountsOK
  <2>2. UNCHANGED <<session, process, agents>>
    BY <1>2 DEF Arrive
  <2>3. CASE agents[p][s] = NoAgent
    <3>1. UNCHANGED count
      BY <1>2, <2>3 DEF Arrive
    <3> QED BY <2>2, <3>1, <1>1
  <2>4. CASE agents[p][s] # NoAgent
    <3> DEFINE n == NextCount(count[p][s], h)
    <3>1. count' = [count EXCEPT ![p][s] = n]
      BY <1>2, <2>4 DEF Arrive
    <3>2. n \in 1..2
      <4>1. count[p][s] \in 0..2
        BY <2>1 DEF CountsOK
      <4>2. h \in BOOLEAN
        OBVIOUS
      <4> HIDE DEF h
      <4> QED BY <4>1, <4>2, NextCountOK
    <3> HIDE DEF n, s, p
    <3>3. CountsOK'
      BY <2>1, <2>2, <3>1, <3>2 DEF CountsOK
    <3>4. CountedWhileCached'
      BY <2>1, <2>2, <3>1, <3>2 DEF CountsOK, CountedWhileCached, Cached
    <3> QED BY <3>3, <3>4
  <2> QED BY <2>3, <2>4
<1>3. ASSUME NEW t \in Turns, Install(t) PROVE CountsOK' /\ CountedWhileCached'
  <2> DEFINE s == session[t]
             p == process[t]
             gone == Evicted(Queue(p, s))
             n == NextCount(count[p][s], draft[t] # {})
             kept == Forget(count[p], 0, gone)
             cached == [x \in Sessions |->
                         IF x \in gone THEN NoAgent ELSE IF x = s THEN t ELSE agents[p][x]]
  <2>1. s \in Sessions /\ p \in Processes
    BY DEF CountsOK
  <2>2. UNCHANGED <<session, process>>
    BY <1>3 DEF Install, turnVars
  <2>3. agents' = [agents EXCEPT ![p] = cached]
    BY <1>3, <2>1 DEF Install, CountsOK
  <2>4. count' = [count EXCEPT ![p] = [x \in Sessions |-> IF x = s THEN n ELSE kept[x]]]
    BY <1>3, <2>1 DEF Install, CountsOK
  <2>5. /\ kept \in [Sessions -> 0..2]
        /\ \A x \in Sessions : x \notin gone => kept[x] = count[p][x]
    <3> HIDE DEF gone, p
    <3> QED BY <2>1 DEF Forget, CountsOK
  <2>6. n \in 1..2
    <3>1. count[p][s] \in 0..2
      BY <2>1 DEF CountsOK
    <3> QED BY <3>1, NextCountOK
  <2>7. /\ cached \in [Sessions -> Turns \cup {NoAgent}]
        /\ \A x \in Sessions : cached[x] # NoAgent => x = s \/ (x \notin gone /\ agents[p][x] # NoAgent)
    <3> HIDE DEF gone, p, s
    <3> QED BY <2>1 DEF CountsOK
  <2> HIDE DEF gone, n, kept, cached, s, p
  <2>8. CountsOK'
    BY <2>1, <2>2, <2>3, <2>4, <2>5, <2>6, <2>7 DEF CountsOK
  <2>9. CountedWhileCached'
    <3> SUFFICES ASSUME NEW q \in Processes, NEW x \in Sessions, agents'[q][x] # NoAgent
                 PROVE  count'[q][x] > 0
      BY DEF CountedWhileCached, Cached
    <3>1. CASE q # p
      BY <3>1, <2>3, <2>4 DEF CountsOK, CountedWhileCached, Cached
    <3>2. CASE q = p /\ x = s
      BY <3>2, <2>1, <2>4, <2>5, <2>6 DEF CountsOK
    <3>3. CASE q = p /\ x # s
      <4>1. agents'[q][x] = cached[x]
        BY <3>3, <2>1, <2>3 DEF CountsOK
      <4>2. x \notin gone /\ agents[p][x] # NoAgent
        BY <4>1, <3>3, <2>7
      <4>3. count'[q][x] = count[p][x]
        BY <4>2, <3>3, <2>1, <2>4, <2>5 DEF CountsOK
      <4> QED BY <4>2, <4>3, <2>1 DEF CountedWhileCached, Cached
    <3> QED BY <3>1, <3>2, <3>3
  <2> QED BY <2>8, <2>9
<1>4. ASSUME NEW p \in Processes, Restart(p) PROVE CountsOK' /\ CountedWhileCached'
  <2>1. /\ UNCHANGED <<session, process>>
        /\ agents' = [agents EXCEPT ![p] = [s \in Sessions |-> NoAgent]]
        /\ count' = [count EXCEPT ![p] = [s \in Sessions |-> 0]]
    BY <1>4 DEF Restart, turnVars
  <2> QED BY <2>1 DEF CountsOK, CountedWhileCached, Cached
<1>5. CASE UNCHANGED vars
  BY <1>1, <1>5 DEF vars, turnVars, cacheVars, trackers
<1> QED BY <1>1, <1>2, <1>3, <1>4, <1>5, Untouched DEF Next

\* In every behaviour a cached agent's turns are counted, so the confirmation
\* check falls back to its warning only where the agent is gone, too.
THEOREM NeverUncounted == Spec => []CountedWhileCached
<1>1. Init => CountsOK /\ CountedWhileCached
  BY TurnsAssumption DEF Init, CountsOK, CountedWhileCached, Cached
<1>2. CountsOK /\ CountedWhileCached /\ [Next]_vars => CountsOK' /\ CountedWhileCached'
  BY CountsNext
<1> QED BY <1>1, <1>2, PTL DEF Spec

-----------------------------------------------------------------------------
(***************************************************************************)
(* The invariant behind the other properties.  TypeOK: all but lru, which  *)
(* only picks the session whose agent goes.  Stages, Builders, InPlace:    *)
(* what the place a turn has reached says of the histories and the caches. *)
(* OneTalks, PriorKept: what a session without overlapping turns is like.  *)
(* FirstTurns: where nothing was answered yet, nothing was kept that could *)
(* pass for an earlier turn.  Dialogues: where nothing frayed the session, *)
(* what was heard and answered is in the cached agent, on its way to the   *)
(* store, in the store, or on its way back.                                *)
(***************************************************************************)
TypeOK ==
  /\ CountsOK
  /\ pc \in [Turns -> {"idle", "done"} \cup Active]
  /\ context \in [Turns -> SUBSET Turns]
  /\ agent \in [Turns -> Turns \cup {NoAgent}]
  /\ draft \in [Turns -> SUBSET Turns]
  /\ saved \in [Sessions -> SUBSET Turns]
  /\ called \in [Processes -> [Sessions -> {"nothing", "search", "other"}]]
  /\ prior \in [Turns -> SUBSET Turns]
  /\ answered \in SUBSET Turns
  /\ said \in SUBSET Turns
  /\ frayed \in [Sessions -> SUBSET Causes]

\* A turn that has its agent, and one that may still use it.
Begun  == {"fresh", "known", "replying"}
InHand == Begun \cup {"answered", "saving"}

Stages ==
  /\ \A t \in answered : pc[t] \in {"answered", "saving", "done"}
  /\ \A t \in said : pc[t] \in {"replying", "answered", "saving", "done"}
  /\ \A t \in Turns : pc[t] \in {"answered", "saving"} => t \in answered

Builders ==
  \A p \in Processes, s \in Sessions : agents[p][s] # NoAgent =>
    /\ session[agents[p][s]] = s /\ process[agents[p][s]] = p
    /\ pc[agents[p][s]] \in InHand \cup {"done"}

InPlace ==
  \A t \in Turns : pc[t] \in InHand /\ "evicted" \notin frayed[session[t]]
    => agents[process[t]][session[t]] # NoAgent

OneTalks ==
  \A t, u \in Turns :
    /\ pc[t] \in Talking /\ pc[u] \in Talking
    /\ session[t] = session[u] /\ "overlap" \notin frayed[session[t]]
    => t = u

PriorKept ==
  \A t \in Turns : pc[t] \in Talking /\ "overlap" \notin frayed[session[t]]
    => prior[t] = answered \cap Of(session[t])

\* What get_or_create leaves behind, entry by entry, where it evicts `gone`.
InstallLeaves(t, gone) ==
  /\ pc[t] = "restored"
  /\ pc' = [pc EXCEPT ![t] = Prepared(draft[t] # {})]
  /\ context' = [context EXCEPT ![t] = draft[t]]
  /\ agent' = [agent EXCEPT ![t] = t]
  /\ draft' = [draft EXCEPT ![t] = {}]
  /\ agents' \in [Processes -> [Sessions -> Turns \cup {NoAgent}]]
  /\ called' \in [Processes -> [Sessions -> {"nothing", "search", "other"}]]
  /\ frayed' \in [Sessions -> SUBSET Causes]
  /\ \A p \in Processes, s \in Sessions :
       /\ agents'[p][s] = IF p # process[t] THEN agents[p][s]
                          ELSE IF s \in gone THEN NoAgent
                          ELSE IF s = session[t] THEN t ELSE agents[p][s]
       /\ called'[p][s] = IF p = process[t] /\ s \in gone THEN "nothing" ELSE called[p][s]
       /\ count'[p][s] = IF p # process[t] THEN count[p][s]
                         ELSE IF s = session[t] THEN NextCount(count[p][s], draft[t] # {})
                         ELSE IF s \in gone THEN 0 ELSE count[p][s]
  /\ \A s \in Sessions :
       /\ frayed[s] \subseteq frayed'[s]
       /\ frayed'[s] \subseteq frayed[s] \cup {"evicted"}
       /\ s \in gone /\ Of(s) \cap ActiveIn(process[t]) # {} => "evicted" \in frayed'[s]
  /\ UNCHANGED <<session, process, prior, saved, answered, said>>

LEMMA InstallDoes ==
  ASSUME TypeOK, NEW t \in Turns, Install(t)
  PROVE  \E gone : InstallLeaves(t, gone)
<1> DEFINE s == session[t]
           p == process[t]
           gone == Evicted(Queue(p, s))
           n == NextCount(count[p][s], draft[t] # {})
           cached == [x \in Sessions |-> IF x \in gone THEN NoAgent ELSE IF x = s THEN t ELSE agents[p][x]]
           counts == [x \in Sessions |-> IF x = s THEN n ELSE Forget(count[p], 0, gone)[x]]
           calls == Forget(called[p], "nothing", gone)
           kept == [x \in Sessions |->
             frayed[x] \cup IF x \in gone /\ Of(x) \cap ActiveIn(p) # {} THEN {"evicted"} ELSE {}]
<1>1. s \in Sessions /\ p \in Processes
  BY DEF TypeOK, CountsOK
<1>2. /\ agents' = [agents EXCEPT ![p] = cached]
      /\ count' = [count EXCEPT ![p] = counts]
      /\ called' = [called EXCEPT ![p] = calls]
      /\ frayed' = kept
      /\ pc[t] = "restored"
      /\ pc' = [pc EXCEPT ![t] = Prepared(draft[t] # {})]
      /\ context' = [context EXCEPT ![t] = draft[t]]
      /\ agent' = [agent EXCEPT ![t] = t]
      /\ draft' = [draft EXCEPT ![t] = {}]
      /\ UNCHANGED <<session, process, prior, saved, answered, said>>
  BY <1>1 DEF Install, Goto, turnVars, TypeOK, CountsOK
<1> HIDE DEF gone
<1>3. /\ cached \in [Sessions -> Turns \cup {NoAgent}]
      /\ \A x \in Sessions :
           cached[x] = IF x \in gone THEN NoAgent ELSE IF x = s THEN t ELSE agents[p][x]
  <2> HIDE DEF s, p
  <2> QED BY <1>1 DEF TypeOK, CountsOK
<1>4. /\ calls \in [Sessions -> {"nothing", "search", "other"}]
      /\ \A x \in Sessions : calls[x] = IF x \in gone THEN "nothing" ELSE called[p][x]
  <2> HIDE DEF s, p
  <2> QED BY <1>1 DEF TypeOK, Forget
<1>5. \A x \in Sessions : counts[x] = IF x = s THEN n ELSE IF x \in gone THEN 0 ELSE count[p][x]
  <2> HIDE DEF s, p, n
  <2> QED BY DEF Forget
<1>6. /\ kept \in [Sessions -> SUBSET Causes]
      /\ \A x \in Sessions :
           /\ frayed[x] \subseteq kept[x]
           /\ kept[x] \subseteq frayed[x] \cup {"evicted"}
           /\ x \in gone /\ Of(x) \cap ActiveIn(p) # {} => "evicted" \in kept[x]
  <2> HIDE DEF s, p
  <2>1. "evicted" \in Causes /\ \A x \in Sessions : frayed[x] \subseteq Causes
    BY DEF TypeOK, Causes
  <2> QED BY <2>1
<1>7. /\ agents' \in [Processes -> [Sessions -> Turns \cup {NoAgent}]]
      /\ called' \in [Processes -> [Sessions -> {"nothing", "search", "other"}]]
  <2> HIDE DEF cached, calls, s, p
  <2> QED BY <1>1, <1>2, <1>3, <1>4 DEF TypeOK, CountsOK
<1>8. \A q \in Processes, x \in Sessions :
        /\ agents'[q][x] = IF q # p THEN agents[q][x] ELSE cached[x]
        /\ called'[q][x] = IF q # p THEN called[q][x] ELSE calls[x]
        /\ count'[q][x] = IF q # p THEN count[q][x] ELSE counts[x]
  <2> HIDE DEF cached, calls, counts, s, p
  <2> QED BY <1>1, <1>2 DEF TypeOK, CountsOK
<1>9. \A q \in Processes, x \in Sessions : q = p /\ x = s => n = NextCount(count[q][x], draft[t] # {})
  OBVIOUS
<1> HIDE DEF cached, calls, counts, kept, n
<1>10. InstallLeaves(t, gone)
  BY <1>2, <1>3, <1>4, <1>5, <1>6, <1>7, <1>8, <1>9 DEF InstallLeaves
<1> QED BY <1>10

\* What a message finds and leaves at its coming.
ArriveLeaves(t) ==
  LET s == session[t]
      p == process[t]
      a == agents[p][s]
  IN /\ pc[t] = "idle"
     /\ prior' = [prior EXCEPT ![t] = answered \cap Of(s)]
     /\ frayed' \in [Sessions -> SUBSET Causes]
     /\ \A x \in Sessions : frayed[x] \subseteq frayed'[x]
     /\ (\E u \in Of(s) : pc[u] \in Talking) => "overlap" \in frayed'[s]
     /\ (\E q \in Processes : q # p /\ agents[q][s] # NoAgent) => "moved" \in frayed'[s]
     /\ \/ /\ a = NoAgent
           /\ pc' = [pc EXCEPT ![t] = "loading"]
           /\ UNCHANGED <<agent, count>>
        \/ /\ a # NoAgent
           /\ pc' = [pc EXCEPT ![t] = Prepared(context[a] # {})]
           /\ agent' = [agent EXCEPT ![t] = a]
           /\ count' = [count EXCEPT ![p][s] = NextCount(@, context[a] # {})]
     /\ UNCHANGED <<session, process, agents, context, draft, saved, called, answered, said>>

LEMMA ArriveDoes ==
  ASSUME TypeOK, NEW t \in Turns, Arrive(t)
  PROVE  ArriveLeaves(t)
<1> DEFINE s == session[t]
           p == process[t]
           a == agents[p][s]
           o == IF \E u \in Of(s) : pc[u] \in Talking THEN {"overlap"} ELSE {}
           m == IF \E q \in Processes \ {p} : agents[q][s] # NoAgent THEN {"moved"} ELSE {}
<1>1. s \in Sessions /\ p \in Processes
  BY DEF TypeOK, CountsOK
<1>2. frayed' = [frayed EXCEPT ![s] = frayed[s] \cup o \cup m]
  BY <1>1 DEF Arrive, TypeOK
<1>3. /\ pc[t] = "idle"
      /\ prior' = [prior EXCEPT ![t] = answered \cap Of(s)]
      /\ \/ /\ a = NoAgent
            /\ pc' = [pc EXCEPT ![t] = "loading"]
            /\ UNCHANGED <<agent, count>>
         \/ /\ a # NoAgent
            /\ pc' = [pc EXCEPT ![t] = Prepared(context[a] # {})]
            /\ agent' = [agent EXCEPT ![t] = a]
            /\ count' = [count EXCEPT ![p][s] = NextCount(@, context[a] # {})]
      /\ UNCHANGED <<session, process, agents, context, draft, saved, called, answered, said>>
  BY DEF Arrive, Goto
<1>4. o \subseteq {"overlap"} /\ m \subseteq {"moved"}
  OBVIOUS
<1>5. /\ (\E u \in Of(s) : pc[u] \in Talking) => "overlap" \in o
      /\ (\E q \in Processes : q # p /\ agents[q][s] # NoAgent) => "moved" \in m
  OBVIOUS
<1>6. /\ frayed' \in [Sessions -> SUBSET Causes]
      /\ \A x \in Sessions : frayed[x] \subseteq frayed'[x]
      /\ o \subseteq frayed'[s] /\ m \subseteq frayed'[s]
  <2> HIDE DEF s, p, a, o, m
  <2>1. frayed[s] \cup o \cup m \in SUBSET Causes
    BY <1>1, <1>4 DEF TypeOK, Causes
  <2> QED BY <1>1, <1>2, <1>4, <2>1 DEF TypeOK
<1>7. /\ (\E u \in Of(s) : pc[u] \in Talking) => "overlap" \in frayed'[s]
      /\ (\E q \in Processes : q # p /\ agents[q][s] # NoAgent) => "moved" \in frayed'[s]
  BY <1>5, <1>6
<1> HIDE DEF o, m
<1> QED BY <1>3, <1>6, <1>7 DEF ArriveLeaves

\* What a restart leaves of the turns and of the process.
RestartLeaves(p) ==
  /\ \A t \in Turns :
       IF t \in ActiveIn(p)
       THEN pc'[t] = "done" /\ agent'[t] = NoAgent /\ draft'[t] = {} /\ prior'[t] = {}
       ELSE pc'[t] = pc[t] /\ agent'[t] = agent[t] /\ draft'[t] = draft[t] /\ prior'[t] = prior[t]
  /\ \A s \in Sessions :
       /\ frayed[s] \subseteq frayed'[s]
       /\ frayed'[s] \subseteq frayed[s] \cup {"unsaved"}
       /\ answered \cap Of(s) \cap ActiveIn(p) # {} => "unsaved" \in frayed'[s]
  /\ \A q \in Processes, s \in Sessions :
       IF q = p
       THEN agents'[q][s] = NoAgent /\ count'[q][s] = 0 /\ called'[q][s] = "nothing"
       ELSE agents'[q][s] = agents[q][s] /\ count'[q][s] = count[q][s] /\ called'[q][s] = called[q][s]
  /\ UNCHANGED <<session, process, context, saved, answered, said>>

LEMMA RestartDoes ==
  ASSUME TypeOK, NEW p \in Processes, Restart(p)
  PROVE  RestartLeaves(p) /\ frayed' \in [Sessions -> SUBSET Causes]
<1>1. \A t \in Turns :
        IF t \in ActiveIn(p)
        THEN pc'[t] = "done" /\ agent'[t] = NoAgent /\ draft'[t] = {} /\ prior'[t] = {}
        ELSE pc'[t] = pc[t] /\ agent'[t] = agent[t] /\ draft'[t] = draft[t] /\ prior'[t] = prior[t]
  BY DEF Restart
<1>2. /\ frayed' \in [Sessions -> SUBSET Causes]
      /\ \A s \in Sessions :
           /\ frayed[s] \subseteq frayed'[s]
           /\ frayed'[s] \subseteq frayed[s] \cup {"unsaved"}
           /\ answered \cap Of(s) \cap ActiveIn(p) # {} => "unsaved" \in frayed'[s]
  <2>1. frayed' = [s \in Sessions |->
       frayed[s] \cup IF answered \cap Of(s) \cap ActiveIn(p) # {} THEN {"unsaved"} ELSE {}]
    BY DEF Restart
  <2>2. "unsaved" \in Causes /\ \A x \in Sessions : frayed[x] \subseteq Causes
    BY DEF TypeOK, Causes
  <2> QED BY <2>1, <2>2
<1>3. \A q \in Processes, s \in Sessions :
        IF q = p
        THEN agents'[q][s] = NoAgent /\ count'[q][s] = 0 /\ called'[q][s] = "nothing"
        ELSE agents'[q][s] = agents[q][s] /\ count'[q][s] = count[q][s] /\ called'[q][s] = called[q][s]
  BY DEF Restart, TypeOK, CountsOK
<1>4. UNCHANGED <<session, process, context, saved, answered, said>>
  BY DEF Restart, turnVars
<1> QED BY <1>1, <1>2, <1>3, <1>4 DEF RestartLeaves

\* frayed only grows, and by what went wrong.
LEMMA Frays ==
  ASSUME TypeOK, NEW s \in Sessions, NEW cause \in Causes, NEW fault, FrayIf(fault, s, cause)
  PROVE  /\ frayed' \in [Sessions -> SUBSET Causes]
         /\ \A x \in Sessions : frayed[x] \subseteq frayed'[x] /\ frayed'[x] \subseteq frayed[x] \cup {cause}
         /\ fault => cause \in frayed'[s]
<1>1. CASE ~fault
  BY <1>1 DEF FrayIf, Keep, TypeOK
<1>2. CASE fault
  <2>1. frayed' = [frayed EXCEPT ![s] = @ \cup {cause}]
    BY <1>2 DEF FrayIf, Fray
  <2>2. frayed[s] \cup {cause} \in SUBSET Causes
    BY DEF TypeOK
  <2> QED BY <2>1, <2>2 DEF TypeOK
<1> QED BY <1>1, <1>2

\* begin_turn leads to the reply.
LEMMA PreparedOK ==
  ASSUME NEW hasHistory \in BOOLEAN
  PROVE  Prepared(hasHistory) \in {"fresh", "known"}
BY DEF Prepared

LEMMA TypesNext == TypeOK /\ CountedWhileCached /\ [Next]_vars => TypeOK'
<1> SUFFICES ASSUME TypeOK, CountedWhileCached, [Next]_vars
             PROVE  TypeOK'
  OBVIOUS
<1>1. CountsOK'
  BY CountsNext DEF TypeOK
<1>2. ASSUME NEW t \in Turns, Arrive(t) PROVE TypeOK'
  <2>1. ArriveLeaves(t)
    BY <1>2, ArriveDoes
  <2>2. pc' \in [Turns -> {"idle", "done"} \cup Active]
    BY <2>1 DEF ArriveLeaves, Prepared, TypeOK, Active, Talking
  <2>3. agent' \in [Turns -> Turns \cup {NoAgent}]
    <3>1. agents[process[t]][session[t]] \in Turns \cup {NoAgent}
      BY DEF TypeOK, CountsOK
    <3> QED BY <2>1, <3>1 DEF ArriveLeaves, TypeOK
  <2>4. prior' \in [Turns -> SUBSET Turns]
    BY <2>1 DEF ArriveLeaves, TypeOK
  <2> QED BY <1>1, <2>1, <2>2, <2>3, <2>4 DEF ArriveLeaves, TypeOK
<1>3. ASSUME NEW t \in Turns, NEW ok \in BOOLEAN, Load(t, ok) PROVE TypeOK'
  <2>1. session[t] \in Sessions /\ "unread" \in Causes
    BY DEF TypeOK, CountsOK, Causes
  <2>2. frayed' \in [Sessions -> SUBSET Causes]
    BY <1>3, <2>1, Frays DEF Load
  <2>3. pc' \in [Turns -> {"idle", "done"} \cup Active]
    BY <1>3 DEF Load, Goto, TypeOK, Active, Talking
  <2>4. draft' \in [Turns -> SUBSET Turns]
    BY <1>3, <2>1 DEF Load, TypeOK
  <2> QED BY <1>1, <1>3, <2>2, <2>3, <2>4 DEF Load, TypeOK, turnVars, cacheVars, trackers
<1>4. ASSUME NEW t \in Turns, Install(t) PROVE TypeOK'
  <2>1. PICK gone : InstallLeaves(t, gone)
    BY <1>4, InstallDoes
  <2>2. pc' \in [Turns -> {"idle", "done"} \cup Active]
    BY <2>1 DEF InstallLeaves, Prepared, TypeOK, Active, Talking
  <2>3. context' \in [Turns -> SUBSET Turns] /\ draft' \in [Turns -> SUBSET Turns]
    BY <2>1 DEF InstallLeaves, TypeOK
  <2>4. agent' \in [Turns -> Turns \cup {NoAgent}]
    BY <2>1 DEF InstallLeaves, TypeOK
  <2> QED BY <1>1, <2>1, <2>2, <2>3, <2>4 DEF InstallLeaves, TypeOK
<1>5. ASSUME NEW t \in Turns, Speak(t) PROVE TypeOK'
  <2>1. pc' \in [Turns -> {"idle", "done"} \cup Active]
    BY <1>5 DEF Speak, Goto, TypeOK, Active, Talking
  <2>2. context' \in [Turns -> SUBSET Turns]
    <3>1. context' = [context EXCEPT ![agent[t]] = context[agent[t]] \cup {t}]
      BY <1>5 DEF Speak
    <3>2. agent[t] \in Turns => context[agent[t]] \cup {t} \in SUBSET Turns
      BY DEF TypeOK
    <3>3. context \in [Turns -> SUBSET Turns]
      BY DEF TypeOK
    <3> QED BY <3>1, <3>2, <3>3
  <2> QED BY <1>1, <1>5, <2>1, <2>2 DEF Speak, TypeOK, turnVars, cacheVars, trackers, Keep
<1>6. ASSUME NEW t \in Turns, NEW tool \in {"search", "other"}, Record(t, tool)
      PROVE  called' \in [Processes -> [Sessions -> {"nothing", "search", "other"}]]
  BY <1>6 DEF Record, TypeOK, CountsOK
<1>7. ASSUME NEW t \in Turns, Order(t) PROVE TypeOK'
  BY <1>1, <1>6, <1>7 DEF Order, TypeOK, turnVars, cacheVars, Keep
<1>8. ASSUME NEW t \in Turns, NEW tool \in {"search", "other"}, Call(t, tool) PROVE TypeOK'
  BY <1>1, <1>6, <1>8 DEF Call, TypeOK, turnVars, cacheVars, Keep
<1>9. ASSUME NEW t \in Turns, Answer(t) PROVE TypeOK'
  <2>1. pc' \in [Turns -> {"idle", "done"} \cup Active]
    BY <1>9 DEF Answer, Goto, TypeOK, Active, Talking
  <2> QED BY <1>1, <1>9, <2>1 DEF Answer, TypeOK, turnVars, cacheVars, trackers, Keep
<1>10. ASSUME NEW t \in Turns, End(t)
       PROVE  /\ pc' \in [Turns -> {"idle", "done"} \cup Active]
              /\ agent' \in [Turns -> Turns \cup {NoAgent}]
              /\ draft' \in [Turns -> SUBSET Turns]
              /\ prior' \in [Turns -> SUBSET Turns]
  BY <1>10 DEF End, Goto, TypeOK
<1>11. ASSUME NEW t \in Turns, Persist(t) PROVE TypeOK'
  <2> DEFINE s == session[t]
             a == agents[process[t]][s]
             busy == \E u \in Of(s) : pc[u] = "saving"
  <2>1. s \in Sessions /\ "overlap" \in Causes /\ a \in Turns \cup {NoAgent}
    BY DEF TypeOK, CountsOK, Causes
  <2>2. CASE a = NoAgent
    BY <1>1, <1>10, <1>11, <2>2 DEF Persist, TypeOK, turnVars, cacheVars, trackers, Keep
  <2>3. CASE a # NoAgent
    <3>1. FrayIf(busy, s, "overlap")
      BY <1>11, <2>3 DEF Persist
    <3>2. frayed' \in [Sessions -> SUBSET Causes]
      <4> HIDE DEF busy, s
      <4> QED BY <2>1, <3>1, Frays
    <3>3. pc' \in [Turns -> {"idle", "done"} \cup Active]
      BY <1>11, <2>3 DEF Persist, Goto, TypeOK, Active
    <3>4. draft' \in [Turns -> SUBSET Turns]
      BY <1>11, <2>1, <2>3 DEF Persist, TypeOK
    <3> QED BY <1>1, <1>11, <2>3, <3>2, <3>3, <3>4 DEF Persist, TypeOK, turnVars, cacheVars, trackers
  <2> QED BY <2>2, <2>3
<1>12. ASSUME NEW t \in Turns, NEW ok \in BOOLEAN, Save(t, ok) PROVE TypeOK'
  <2>1. session[t] \in Sessions /\ "unsaved" \in Causes
    BY DEF TypeOK, CountsOK, Causes
  <2>2. frayed' \in [Sessions -> SUBSET Causes]
    BY <1>12, <2>1, Frays DEF Save
  <2>3. saved' \in [Sessions -> SUBSET Turns]
    BY <1>12, <2>1 DEF Save, TypeOK
  <2> QED BY <1>1, <1>10, <1>12, <2>2, <2>3 DEF Save, TypeOK, turnVars, cacheVars, trackers
<1>13. ASSUME NEW p \in Processes, Restart(p) PROVE TypeOK'
  <2>1. RestartLeaves(p) /\ frayed' \in [Sessions -> SUBSET Causes]
    BY <1>13, RestartDoes
  <2>2. /\ pc' \in [Turns -> {"idle", "done"} \cup Active]
        /\ agent' \in [Turns -> Turns \cup {NoAgent}]
        /\ draft' \in [Turns -> SUBSET Turns]
        /\ prior' \in [Turns -> SUBSET Turns]
    BY <1>13 DEF Restart, TypeOK
  <2>3. called' \in [Processes -> [Sessions -> {"nothing", "search", "other"}]]
    BY <1>13 DEF Restart, TypeOK
  <2> QED BY <1>1, <2>1, <2>2, <2>3 DEF RestartLeaves, TypeOK
<1>14. CASE UNCHANGED vars
  BY <1>1, <1>14 DEF vars, turnVars, cacheVars, trackers, TypeOK
<1> QED BY <1>2, <1>3, <1>4, <1>5, <1>7, <1>8, <1>9, <1>11, <1>12, <1>13, <1>14 DEF Next

\* What the steps between a turn's coming and its end have in common.
StepLeaves(t) ==
  /\ UNCHANGED <<session, process, agents, count>>
  /\ pc' = [pc EXCEPT ![t] = pc'[t]]
  /\ \/ pc[t] = "loading" /\ pc'[t] = "restored"
     \/ pc[t] \in Begun /\ pc'[t] \in {"replying", "answered"}
     \/ pc[t] \in {"answered", "saving"} /\ pc'[t] \in {"saving", "done"}
  /\ said' = IF pc[t] \in {"fresh", "known"} /\ pc'[t] = "replying" THEN said \cup {t} ELSE said
  /\ answered' = IF pc[t] \in Begun /\ pc'[t] = "answered" THEN answered \cup {t} ELSE answered
  /\ \A u \in Turns : prior'[u] = prior[u] \/ (u = t /\ pc'[u] = "done")
  /\ \A p \in Processes, s \in Sessions :
       called'[p][s] = called[p][s] \/ (pc[t] = "replying" /\ p = process[t] /\ s = session[t])
  /\ \A s \in Sessions : frayed[s] \subseteq frayed'[s]

LEMMA StepDoes ==
  ASSUME TypeOK, NEW t \in Turns,
         \/ \E ok \in BOOLEAN : Load(t, ok) \/ Save(t, ok)
         \/ Speak(t) \/ Order(t) \/ Answer(t) \/ Persist(t)
         \/ \E tool \in {"search", "other"} : Call(t, tool)
  PROVE  StepLeaves(t)
<1>1. UNCHANGED <<session, process, agents, count>>
  BY Untouched
<1>2. session[t] \in Sessions /\ {"unread", "overlap", "unsaved"} \subseteq Causes
  BY DEF TypeOK, CountsOK, Causes
<1>3. ASSUME NEW tool \in {"search", "other"}, Record(t, tool)
      PROVE  \A p \in Processes, s \in Sessions :
               called'[p][s] = called[p][s] \/ (p = process[t] /\ s = session[t])
  BY <1>3 DEF Record, TypeOK, CountsOK
<1>4. ASSUME End(t)
      PROVE  /\ pc' = [pc EXCEPT ![t] = pc'[t]] /\ pc'[t] = "done"
             /\ \A u \in Turns : prior'[u] = prior[u] \/ u = t
  BY <1>4 DEF End, Goto, TypeOK
<1>5. ASSUME NEW l, Goto(t, l)
      PROVE  pc' = [pc EXCEPT ![t] = pc'[t]] /\ pc'[t] = l
  BY <1>5 DEF Goto, TypeOK
<1>6. ASSUME NEW ok \in BOOLEAN, Load(t, ok) PROVE StepLeaves(t)
  <2>1. \A x \in Sessions : frayed[x] \subseteq frayed'[x] /\ frayed'[x] \subseteq frayed[x] \cup {"unread"}
    BY <1>2, <1>6, Frays DEF Load
  <2>2. Goto(t, "restored") /\ pc[t] = "loading" /\ UNCHANGED <<said, answered, prior, called>>
    BY <1>6 DEF Load, trackers
  <2> QED BY <1>1, <1>5, <2>1, <2>2 DEF StepLeaves, Begun
<1>7. ASSUME NEW ok \in BOOLEAN, Save(t, ok) PROVE StepLeaves(t)
  <2>1. \A x \in Sessions : frayed[x] \subseteq frayed'[x] /\ frayed'[x] \subseteq frayed[x] \cup {"unsaved"}
    BY <1>2, <1>7, Frays DEF Save
  <2>2. End(t) /\ pc[t] = "saving" /\ UNCHANGED <<said, answered, called>>
    BY <1>7 DEF Save, trackers
  <2> QED BY <1>1, <1>4, <2>1, <2>2 DEF StepLeaves, Begun
<1>8. ASSUME Persist(t) PROVE StepLeaves(t)
  <2> DEFINE s == session[t]
             a == agents[process[t]][s]
             busy == \E u \in Of(s) : pc[u] = "saving"
  <2>1. pc[t] = "answered" /\ UNCHANGED <<said, answered, called>>
    BY <1>8 DEF Persist, trackers
  <2>2. CASE a = NoAgent
    <3>1. End(t) /\ UNCHANGED frayed
      BY <1>8, <2>2 DEF Persist, Keep
    <3> QED BY <1>1, <1>4, <2>1, <3>1 DEF StepLeaves, Begun
  <2>3. CASE a # NoAgent
    <3>1. FrayIf(busy, s, "overlap") /\ Goto(t, "saving") /\ UNCHANGED prior
      BY <1>8, <2>3 DEF Persist
    <3>2. \A x \in Sessions : frayed[x] \subseteq frayed'[x] /\ frayed'[x] \subseteq frayed[x] \cup {"overlap"}
      <4> HIDE DEF busy
      <4> QED BY <1>2, <3>1, Frays
    <3> QED BY <1>1, <1>5, <2>1, <3>1, <3>2 DEF StepLeaves, Begun
  <2> QED BY <2>2, <2>3
<1>9. ASSUME Speak(t) PROVE StepLeaves(t)
  <2>1. /\ Goto(t, "replying") /\ pc[t] \in {"fresh", "known"} /\ said' = said \cup {t}
        /\ UNCHANGED <<answered, prior, called, frayed>>
    BY <1>9 DEF Speak, trackers, Keep
  <2> QED BY <1>1, <1>5, <2>1 DEF StepLeaves, Begun
<1>10. ASSUME Answer(t) PROVE StepLeaves(t)
  <2>1. /\ Goto(t, "answered") /\ pc[t] \in Begun /\ answered' = answered \cup {t}
        /\ UNCHANGED <<said, prior, called, frayed>>
    BY <1>10 DEF Answer, trackers, Keep, Begun
  <2> QED BY <1>1, <1>5, <2>1 DEF StepLeaves, Begun
<1>11. ASSUME NEW tool \in {"search", "other"}, Record(t, tool), pc[t] = "replying",
              UNCHANGED <<pc, said, answered, prior, frayed>>
       PROVE  StepLeaves(t)
  <2>1. pc' = [pc EXCEPT ![t] = pc'[t]]
    BY <1>11 DEF TypeOK
  <2> QED BY <1>1, <1>3, <1>11, <2>1 DEF StepLeaves, Begun
<1>12. ASSUME Order(t) PROVE StepLeaves(t)
  BY <1>11, <1>12 DEF Order, Keep
<1>13. ASSUME NEW tool \in {"search", "other"}, Call(t, tool) PROVE StepLeaves(t)
  BY <1>11, <1>13 DEF Call, Keep
<1> QED BY <1>6, <1>7, <1>8, <1>9, <1>10, <1>12, <1>13

Ordered ==
  /\ Stages /\ Builders /\ InPlace
  /\ OneTalks /\ PriorKept
  /\ RecordsFollowAgents

\* A turn of a session stays one, and only a message that comes is added.
LEMMA SameTurns ==
  ASSUME TypeOK, NEW s \in Sessions,
         \/ \E t \in Turns : StepLeaves(t)
         \/ \E t \in Turns : \E gone : InstallLeaves(t, gone)
         \/ \E p \in Processes : RestartLeaves(p)
  PROVE  Of(s)' = Of(s)
<1>1. ASSUME NEW t \in Turns, StepLeaves(t) PROVE Of(s)' = Of(s)
  BY <1>1 DEF StepLeaves, Of, TypeOK, Begun
<1>2. ASSUME NEW t \in Turns, NEW gone, InstallLeaves(t, gone) PROVE Of(s)' = Of(s)
  BY <1>2 DEF InstallLeaves, Of, TypeOK, Prepared
<1>3. ASSUME NEW p \in Processes, RestartLeaves(p) PROVE Of(s)' = Of(s)
  BY <1>3 DEF RestartLeaves, Of, ActiveIn, Active, Talking
<1> QED BY <1>1, <1>2, <1>3

LEMMA OneMoreTurn ==
  ASSUME TypeOK, NEW t \in Turns, ArriveLeaves(t), NEW s \in Sessions
  PROVE  Of(s)' = IF s = session[t] THEN Of(s) \cup {t} ELSE Of(s)
<1>1. pc'[t] # "idle" /\ \A u \in Turns : u # t => pc'[u] = pc[u]
  BY DEF ArriveLeaves, TypeOK, Prepared
<1> QED BY <1>1 DEF ArriveLeaves, Of

LEMMA OrderedArrive ==
  ASSUME TypeOK, Ordered, NEW t \in Turns, ArriveLeaves(t)
  PROVE  Ordered'
<1> DEFINE s == session[t]
           p == process[t]
<1>1. /\ pc[t] = "idle" /\ s \in Sessions /\ p \in Processes
      /\ pc'[t] \in {"loading", "fresh", "known"} /\ \A u \in Turns : u # t => pc'[u] = pc[u]
      /\ pc'[t] \in Begun => agents[p][s] # NoAgent
  BY DEF ArriveLeaves, TypeOK, CountsOK, Prepared, Begun
<1>2. UNCHANGED <<session, process, agents, called, answered, said>>
  BY DEF ArriveLeaves
<1>3. \A x \in Sessions : frayed[x] \subseteq frayed'[x]
  BY DEF ArriveLeaves
<1>4. Stages'
  BY <1>1, <1>2 DEF Ordered, Stages, TypeOK
<1>5. Builders'
  <2>1. \A q \in Processes, x \in Sessions : agents[q][x] # NoAgent => agents[q][x] \in Turns
    BY DEF TypeOK, CountsOK
  <2> QED BY <2>1, <1>1, <1>2 DEF Ordered, Builders, InHand, Begun
<1>6. InPlace'
  <2> SUFFICES ASSUME NEW u \in Turns, pc'[u] \in InHand, "evicted" \notin frayed'[session[u]]
               PROVE  agents[process[u]][session[u]] # NoAgent
    BY <1>2 DEF InPlace
  <2>1. session[u] \in Sessions
    BY DEF TypeOK, CountsOK
  <2>2. CASE u = t
    BY <2>2, <1>1 DEF InHand, Begun
  <2>3. CASE u # t
    BY <2>1, <2>3, <1>1, <1>3 DEF Ordered, InPlace
  <2> QED BY <2>2, <2>3
<1>7. OneTalks'
  <2>1. \A u \in Turns : pc[u] \in Talking /\ session[u] = s => "overlap" \in frayed'[s]
    BY DEF ArriveLeaves, Of, Talking
  <2>2. \A u \in Turns : session[u] \in Sessions
    BY DEF TypeOK, CountsOK
  <2> QED BY <2>1, <2>2, <1>1, <1>2, <1>3 DEF Ordered, OneTalks
<1>8. PriorKept'
  <2> SUFFICES ASSUME NEW u \in Turns, pc'[u] \in Talking, "overlap" \notin frayed'[session[u]]
               PROVE  prior'[u] = answered \cap Of(session[u])'
    BY <1>2 DEF PriorKept, Of
  <2>1. session[u] \in Sessions
    BY DEF TypeOK, CountsOK
  <2>2. t \notin answered
    BY <1>1 DEF Ordered, Stages
  <2>3. answered \cap Of(session[u])' = answered \cap Of(session[u])
    <3>1. \A x \in Sessions : Of(x)' = IF x = s THEN Of(x) \cup {t} ELSE Of(x)
      BY OneMoreTurn
    <3> DEFINE x == session[u]
    <3>2. x \in Sessions /\ x' = x
      BY <2>1, <1>2
    <3>3. answered \cap Of(x)' = answered \cap Of(x)
      BY <2>2, <3>1, <3>2
    <3> QED BY <3>3
  <2>4. prior' = [prior EXCEPT ![t] = answered \cap Of(s)]
    BY DEF ArriveLeaves
  <2>5. CASE u = t
    BY <2>3, <2>4, <2>5 DEF TypeOK
  <2>6. CASE u # t
    BY <2>1, <2>3, <2>4, <2>6, <1>1, <1>3 DEF TypeOK, Ordered, PriorKept
  <2> QED BY <2>5, <2>6
<1>9. RecordsFollowAgents'
  <2>1. \A q \in Processes, x \in Sessions : count'[q][x] = count[q][x] \/ (q = p /\ x = s /\ agents[p][s] # NoAgent)
    BY DEF ArriveLeaves, TypeOK, CountsOK
  <2> QED BY <2>1, <1>2, <1>3 DEF Ordered, RecordsFollowAgents, Cached
<1> QED BY <1>4, <1>5, <1>6, <1>7, <1>8, <1>9 DEF Ordered

LEMMA OrderedStep ==
  ASSUME TypeOK, Ordered, NEW t \in Turns, StepLeaves(t)
  PROVE  Ordered'
<1>1. UNCHANGED <<session, process, agents, count>>
  BY DEF StepLeaves
<1>2. /\ \A u \in Turns : u # t => pc'[u] = pc[u]
      /\ \/ pc[t] = "loading" /\ pc'[t] = "restored"
         \/ pc[t] \in Begun /\ pc'[t] \in {"replying", "answered"}
         \/ pc[t] \in {"answered", "saving"} /\ pc'[t] \in {"saving", "done"}
  BY DEF StepLeaves, TypeOK
<1>3. \A x \in Sessions : frayed[x] \subseteq frayed'[x]
  BY DEF StepLeaves
<1>4. \A u \in Turns : session[u] \in Sessions /\ process[u] \in Processes
  BY DEF TypeOK, CountsOK
<1>5. Stages'
  <2>1. /\ said' = IF pc[t] \in {"fresh", "known"} /\ pc'[t] = "replying" THEN said \cup {t} ELSE said
        /\ answered' = IF pc[t] \in Begun /\ pc'[t] = "answered" THEN answered \cup {t} ELSE answered
    BY DEF StepLeaves
  <2>2. answered \subseteq Turns /\ said \subseteq Turns
    BY DEF TypeOK
  <2> QED BY <1>2, <2>1, <2>2 DEF Ordered, Stages, Begun
<1>6. Builders'
  <2>1. \A q \in Processes, x \in Sessions : agents[q][x] # NoAgent => agents[q][x] \in Turns
    BY DEF TypeOK, CountsOK
  <2> QED BY <2>1, <1>1, <1>2 DEF Ordered, Builders, InHand, Begun
<1>7. InPlace'
  BY <1>1, <1>2, <1>3, <1>4 DEF Ordered, InPlace, InHand, Begun
<1>8. OneTalks'
  <2>1. \A u \in Turns : pc'[u] \in Talking => pc[u] \in Talking
    BY <1>2 DEF Talking, Begun
  <2> QED BY <2>1, <1>1, <1>3, <1>4 DEF Ordered, OneTalks
<1>9. PriorKept'
  <2> SUFFICES ASSUME NEW u \in Turns, pc'[u] \in Talking, "overlap" \notin frayed'[session[u]]
               PROVE  prior'[u] = answered' \cap Of(session[u])'
    BY <1>1 DEF PriorKept, Of
  <2>1. pc[u] \in Talking /\ "overlap" \notin frayed[session[u]] /\ pc'[u] # "done"
    BY <1>2, <1>3, <1>4 DEF Talking, Begun
  <2>2. prior'[u] = prior[u]
    BY <2>1 DEF StepLeaves
  <2>3. Of(session[u])' = Of(session[u])
    <3>1. \A x \in Sessions : Of(x)' = Of(x)
      BY SameTurns
    <3> DEFINE x == session[u]
    <3>2. x \in Sessions /\ x' = x
      BY <1>1, <1>4
    <3>3. Of(x)' = Of(x)
      BY <3>1, <3>2
    <3> QED BY <3>3
  <2>4. answered' \cap Of(session[u]) = answered \cap Of(session[u])
    <3>1. CASE answered' = answered
      BY <3>1
    <3>2. CASE answered' = answered \cup {t} /\ pc[t] \in Begun /\ pc'[t] = "answered"
      <4>1. u # t /\ pc[t] \in Talking
        BY <3>2 DEF Talking, Begun
      <4>2. session[t] # session[u]
        BY <2>1, <4>1 DEF Ordered, OneTalks
      <4> QED BY <3>2, <4>2 DEF Of
    <3> QED BY <3>1, <3>2 DEF StepLeaves
  <2> QED BY <2>1, <2>2, <2>3, <2>4 DEF Ordered, PriorKept
<1>10. RecordsFollowAgents'
  <2> SUFFICES ASSUME NEW p \in Processes, NEW s \in Sessions,
                      called'[p][s] # "nothing" \/ count'[p][s] > 0, "evicted" \notin frayed'[s]
               PROVE  agents[p][s] # NoAgent
    BY <1>1 DEF RecordsFollowAgents, Cached
  <2>1. "evicted" \notin frayed[s]
    BY <1>3
  <2>2. CASE called'[p][s] = called[p][s]
    BY <1>1, <2>1, <2>2 DEF Ordered, RecordsFollowAgents, Cached
  <2>3. CASE pc[t] = "replying" /\ p = process[t] /\ s = session[t]
    BY <2>1, <2>3 DEF Ordered, InPlace, InHand, Begun
  <2> QED BY <2>2, <2>3 DEF StepLeaves
<1> QED BY <1>5, <1>6, <1>7, <1>8, <1>9, <1>10 DEF Ordered

LEMMA OrderedInstall ==
  ASSUME TypeOK, Ordered, NEW t \in Turns, NEW gone, InstallLeaves(t, gone)
  PROVE  Ordered'
<1> DEFINE s == session[t]
           p == process[t]
<1>1. /\ pc[t] = "restored" /\ s \in Sessions /\ p \in Processes
      /\ pc'[t] \in {"fresh", "known"} /\ \A u \in Turns : u # t => pc'[u] = pc[u]
  BY DEF InstallLeaves, TypeOK, CountsOK, Prepared
<1>2. UNCHANGED <<session, process, answered, said, prior>>
  BY DEF InstallLeaves
<1>3. \A x \in Sessions : frayed[x] \subseteq frayed'[x] /\ frayed'[x] \subseteq frayed[x] \cup {"evicted"}
  BY DEF InstallLeaves
<1>4. \A q \in Processes, x \in Sessions :
        agents'[q][x] = IF q # p THEN agents[q][x]
                        ELSE IF x \in gone THEN NoAgent
                        ELSE IF x = s THEN t ELSE agents[q][x]
  BY DEF InstallLeaves
<1>5. \A u \in Turns : pc[u] \in Active /\ process[u] = p /\ session[u] \in gone => "evicted" \in frayed'[session[u]]
  <2> SUFFICES ASSUME NEW u \in Turns, pc[u] \in Active, process[u] = p, session[u] \in gone
               PROVE  "evicted" \in frayed'[session[u]]
    OBVIOUS
  <2>1. u \in Of(session[u]) \cap ActiveIn(p)
    BY DEF Of, ActiveIn, Active, Talking
  <2>2. session[u] \in Sessions
    BY DEF TypeOK, CountsOK
  <2> QED BY <2>1, <2>2 DEF InstallLeaves
<1>6. Stages'
  BY <1>1, <1>2 DEF Ordered, Stages, TypeOK
<1>7. Builders'
  <2>1. \A q \in Processes, x \in Sessions : agents[q][x] # NoAgent => agents[q][x] \in Turns
    BY DEF TypeOK, CountsOK
  <2> HIDE DEF s, p
  <2>2. SUFFICES ASSUME NEW q \in Processes, NEW x \in Sessions, agents'[q][x] # NoAgent
                 PROVE  /\ session[agents'[q][x]] = x /\ process[agents'[q][x]] = q
                        /\ pc'[agents'[q][x]] \in InHand \cup {"done"}
    BY <1>2 DEF Builders
  <2>3. CASE agents'[q][x] = agents[q][x]
    BY <2>1, <2>2, <2>3, <1>1 DEF Ordered, Builders, InHand, Begun
  <2>4. CASE q = p /\ x = s /\ agents'[q][x] = t
    BY <2>4, <1>1 DEF s, p, InHand, Begun
  <2> QED BY <1>4, <2>2, <2>3, <2>4
<1>8. InPlace'
  <2> SUFFICES ASSUME NEW u \in Turns, pc'[u] \in InHand, "evicted" \notin frayed'[session[u]]
               PROVE  agents'[process[u]][session[u]] # NoAgent
    BY <1>2 DEF InPlace
  <2>1. session[u] \in Sessions /\ process[u] \in Processes
    BY DEF TypeOK, CountsOK
  <2>2. pc[u] \in Active
    BY <1>1 DEF InHand, Begun, Active, Talking
  <2>3. ~(process[u] = p /\ session[u] \in gone)
    BY <2>2, <1>5
  <2>4. CASE process[u] = p /\ session[u] = s
    BY <2>1, <2>3, <2>4, <1>4, TurnsAssumption
  <2>5. CASE u # t /\ ~(process[u] = p /\ session[u] = s)
    BY <2>1, <2>3, <2>5, <1>1, <1>3, <1>4 DEF Ordered, InPlace
  <2> QED BY <2>4, <2>5
<1>9. OneTalks'
  <2>1. \A u \in Turns : pc'[u] \in Talking => pc[u] \in Talking
    BY <1>1 DEF Talking
  <2>2. \A u \in Turns : session[u] \in Sessions
    BY DEF TypeOK, CountsOK
  <2> QED BY <2>1, <2>2, <1>2, <1>3 DEF Ordered, OneTalks
<1>10. PriorKept'
  <2> SUFFICES ASSUME NEW u \in Turns, pc'[u] \in Talking, "overlap" \notin frayed'[session[u]]
               PROVE  prior[u] = answered \cap Of(session[u])'
    BY <1>2 DEF PriorKept, Of
  <2>1. pc[u] \in Talking /\ session[u] \in Sessions
    BY <1>1 DEF Talking, TypeOK, CountsOK
  <2>2. Of(session[u])' = Of(session[u])
    <3>1. \A x \in Sessions : Of(x)' = Of(x)
      BY SameTurns
    <3> DEFINE x == session[u]
    <3>2. x \in Sessions /\ x' = x
      BY <1>2, <2>1
    <3>3. Of(x)' = Of(x)
      BY <3>1, <3>2
    <3> QED BY <3>3
  <2> QED BY <2>1, <2>2, <1>3 DEF Ordered, PriorKept
<1>11. RecordsFollowAgents'
  <2> SUFFICES ASSUME NEW q \in Processes, NEW x \in Sessions,
                      called'[q][x] # "nothing" \/ count'[q][x] > 0, "evicted" \notin frayed'[x]
               PROVE  agents'[q][x] # NoAgent
    BY DEF RecordsFollowAgents, Cached
  <2> USE TurnsAssumption
  <2>1. called'[q][x] = IF q = p /\ x \in gone THEN "nothing" ELSE called[q][x]
    BY DEF InstallLeaves
  <2>2. ~(q = p /\ x = s) => count'[q][x] = IF q = p /\ x \in gone THEN 0 ELSE count[q][x]
    BY DEF InstallLeaves
  <2>3. CASE q = p /\ x = s
    <3>1. x \notin gone
      BY <2>3, <1>1, <1>5 DEF Active, Talking
    <3> QED BY <2>3, <3>1, <1>4
  <2>4. CASE ~(q = p /\ x = s)
    <3>1. ~(q = p /\ x \in gone)
      BY <2>1, <2>2, <2>4
    <3>2. agents'[q][x] = agents[q][x]
      BY <2>4, <3>1, <1>4
    <3> QED BY <2>1, <2>2, <2>4, <3>1, <3>2, <1>3 DEF Ordered, RecordsFollowAgents, Cached
  <2> QED BY <2>3, <2>4
<1> QED BY <1>6, <1>7, <1>8, <1>9, <1>10, <1>11 DEF Ordered

LEMMA OrderedRestart ==
  ASSUME TypeOK, Ordered, NEW p \in Processes, RestartLeaves(p)
  PROVE  Ordered'
<1>1. UNCHANGED <<session, process, answered, said>>
  BY DEF RestartLeaves
<1>2. \A u \in Turns :
        \/ pc'[u] = "done" /\ pc[u] # "idle"
        \/ pc'[u] = pc[u] /\ prior'[u] = prior[u] /\ (pc[u] \in Active => process[u] # p)
  BY DEF RestartLeaves, ActiveIn, Active, Talking
<1>3. \A x \in Sessions : frayed[x] \subseteq frayed'[x] /\ frayed'[x] \subseteq frayed[x] \cup {"unsaved"}
  BY DEF RestartLeaves
<1>4. \A q \in Processes, x \in Sessions :
        IF q = p
        THEN agents'[q][x] = NoAgent /\ count'[q][x] = 0 /\ called'[q][x] = "nothing"
        ELSE agents'[q][x] = agents[q][x] /\ count'[q][x] = count[q][x] /\ called'[q][x] = called[q][x]
  BY DEF RestartLeaves
<1>5. \A u \in Turns : session[u] \in Sessions /\ process[u] \in Processes
  BY DEF TypeOK, CountsOK
<1>6. Stages'
  BY <1>1, <1>2 DEF Ordered, Stages, TypeOK
<1>7. Builders'
  <2>1. \A q \in Processes, x \in Sessions : agents[q][x] # NoAgent => agents[q][x] \in Turns
    BY DEF TypeOK, CountsOK
  <2>2. SUFFICES ASSUME NEW q \in Processes, NEW x \in Sessions, agents'[q][x] # NoAgent
                 PROVE  /\ session[agents'[q][x]] = x /\ process[agents'[q][x]] = q
                        /\ pc'[agents'[q][x]] \in InHand \cup {"done"}
    BY <1>1 DEF Builders
  <2>3. agents'[q][x] = agents[q][x]
    BY <1>4, <2>2
  <2> QED BY <2>1, <2>2, <2>3, <1>2 DEF Ordered, Builders
<1>8. InPlace'
  <2> SUFFICES ASSUME NEW u \in Turns, pc'[u] \in InHand, "evicted" \notin frayed'[session[u]]
               PROVE  agents'[process[u]][session[u]] # NoAgent
    BY <1>1 DEF InPlace
  <2>1. pc'[u] = pc[u] /\ process[u] # p
    BY <1>2 DEF InHand, Begun, Active, Talking
  <2> QED BY <2>1, <1>3, <1>4, <1>5 DEF Ordered, InPlace
<1>9. OneTalks'
  <2>1. \A u \in Turns : pc'[u] \in Talking => pc[u] \in Talking
    BY <1>2 DEF Talking
  <2> QED BY <2>1, <1>1, <1>3, <1>5 DEF Ordered, OneTalks
<1>10. PriorKept'
  <2> SUFFICES ASSUME NEW u \in Turns, pc'[u] \in Talking, "overlap" \notin frayed'[session[u]]
               PROVE  prior'[u] = answered \cap Of(session[u])'
    BY <1>1 DEF PriorKept, Of
  <2>1. pc'[u] = pc[u] /\ prior'[u] = prior[u]
    BY <1>2 DEF Talking
  <2>2. Of(session[u])' = Of(session[u])
    <3>1. \A x \in Sessions : Of(x)' = Of(x)
      BY SameTurns
    <3> DEFINE x == session[u]
    <3>2. x \in Sessions /\ x' = x
      BY <1>1, <1>5
    <3>3. Of(x)' = Of(x)
      BY <3>1, <3>2
    <3> QED BY <3>3
  <2> QED BY <2>1, <2>2, <1>3, <1>5 DEF Ordered, PriorKept
<1>11. RecordsFollowAgents'
  BY <1>3, <1>4 DEF Ordered, RecordsFollowAgents, Cached
<1> QED BY <1>6, <1>7, <1>8, <1>9, <1>10, <1>11 DEF Ordered

LEMMA OrderedNext == TypeOK /\ Ordered /\ [Next]_vars => Ordered'
<1> SUFFICES ASSUME TypeOK, Ordered, [Next]_vars
             PROVE  Ordered'
  OBVIOUS
<1>1. ASSUME NEW t \in Turns, Arrive(t) PROVE Ordered'
  BY <1>1, ArriveDoes, OrderedArrive
<1>2. ASSUME NEW t \in Turns, Install(t) PROVE Ordered'
  BY <1>2, InstallDoes, OrderedInstall
<1>3. ASSUME NEW p \in Processes, Restart(p) PROVE Ordered'
  BY <1>3, RestartDoes, OrderedRestart
<1>4. ASSUME NEW t \in Turns,
             \/ \E ok \in BOOLEAN : Load(t, ok) \/ Save(t, ok)
             \/ Speak(t) \/ Order(t) \/ Answer(t) \/ Persist(t)
             \/ \E tool \in {"search", "other"} : Call(t, tool)
      PROVE  Ordered'
  BY <1>4, StepDoes, OrderedStep
<1>5. CASE UNCHANGED vars
  BY <1>5 DEF vars, turnVars, cacheVars, trackers, Ordered, Stages, Builders, InPlace, OneTalks,
              PriorKept, Of, RecordsFollowAgents, Cached
<1> QED BY <1>1, <1>2, <1>3, <1>4, <1>5 DEF Next

-----------------------------------------------------------------------------
\* A session without overlapping turns in which no turn was answered yet.
Quiet(s) == "overlap" \notin frayed[s] /\ answered \cap Of(s) = {}

FirstTurns ==
  \A s \in Sessions : Quiet(s) =>
    /\ saved[s] = {}
    /\ \A t \in Turns : session[t] = s => draft[t] = {}
    /\ \A p \in Processes : agents[p][s] # NoAgent \/ count[p][s] > 0 =>
         \E t \in Turns : session[t] = s /\ process[t] = p /\ pc[t] \in Begun
    /\ "evicted" \notin frayed[s] =>
         \A t \in Turns : session[t] = s /\ pc[t] \in Begun => count[process[t]][s] = 1

\* What the steps between a turn's coming and its end read and write.
LEMMA StepStores ==
  ASSUME TypeOK, NEW t \in Turns,
         \/ \E ok \in BOOLEAN : Load(t, ok) \/ Save(t, ok)
         \/ Speak(t) \/ Order(t) \/ Answer(t) \/ Persist(t)
         \/ \E tool \in {"search", "other"} : Call(t, tool)
  PROVE  /\ \A s \in Sessions : saved'[s] = saved[s] \/ (s = session[t] /\ saved'[s] = draft[t])
         /\ \A u \in Turns : u # t => draft'[u] = draft[u]
         /\ draft'[t] \in {draft[t], {}, saved[session[t]]} \/ pc[t] = "answered"
<1>1. ASSUME NEW ok \in BOOLEAN, Load(t, ok)
      PROVE  /\ saved' = saved
             /\ \A u \in Turns : u # t => draft'[u] = draft[u]
             /\ draft'[t] \in {saved[session[t]], {}}
  BY <1>1 DEF Load, TypeOK
<1>2. ASSUME NEW ok \in BOOLEAN, Save(t, ok)
      PROVE  /\ \A s \in Sessions : saved'[s] = saved[s] \/ (s = session[t] /\ saved'[s] = draft[t])
             /\ \A u \in Turns : u # t => draft'[u] = draft[u]
             /\ draft'[t] = {}
  BY <1>2 DEF Save, End, TypeOK
<1>3. ASSUME Persist(t) PROVE pc[t] = "answered" /\ saved' = saved /\ \A u \in Turns : u # t => draft'[u] = draft[u]
  BY <1>3 DEF Persist, End, TypeOK
<1>4. CASE Speak(t) \/ Answer(t) \/ Order(t)
  BY <1>4 DEF Speak, Answer, Order
<1>5. ASSUME NEW tool \in {"search", "other"}, Call(t, tool) PROVE UNCHANGED <<saved, draft>>
  BY <1>5 DEF Call
<1> QED BY <1>1, <1>2, <1>3, <1>4, <1>5

LEMMA FirstTurnsArrive ==
  ASSUME TypeOK, Ordered, FirstTurns, NEW t \in Turns, ArriveLeaves(t)
  PROVE  FirstTurns'
<1> DEFINE s == session[t]
           p == process[t]
<1>1. /\ pc[t] = "idle" /\ s \in Sessions /\ p \in Processes
      /\ \A u \in Turns : u # t => pc'[u] = pc[u]
  BY DEF ArriveLeaves, TypeOK, CountsOK
<1>2. UNCHANGED <<session, process, agents, draft, saved, answered>>
  BY DEF ArriveLeaves
<1> SUFFICES ASSUME NEW x \in Sessions, Quiet(x)'
             PROVE  /\ saved[x] = {}
                    /\ \A u \in Turns : session[u] = x => draft[u] = {}
                    /\ \A q \in Processes : agents[q][x] # NoAgent \/ count'[q][x] > 0 =>
                         \E u \in Turns : session[u] = x /\ process[u] = q /\ pc'[u] \in Begun
                    /\ "evicted" \notin frayed'[x] =>
                         \A u \in Turns : session[u] = x /\ pc'[u] \in Begun => count'[process[u]][x] = 1
  BY <1>2 DEF FirstTurns
<1>3. Quiet(x) /\ frayed[x] \subseteq frayed'[x]
  <2>1. Of(x) \subseteq Of(x)'
    BY OneMoreTurn
  <2>2. frayed[x] \subseteq frayed'[x]
    BY DEF ArriveLeaves
  <2> QED BY <2>1, <2>2, <1>2 DEF Quiet
<1>4. x = s => agents[p][s] = NoAgent
  <2> SUFFICES ASSUME x = s, agents[p][s] # NoAgent PROVE FALSE
    OBVIOUS
  <2>1. PICK u \in Turns : session[u] = s /\ pc[u] \in Begun
    BY <1>1, <1>3 DEF FirstTurns
  <2>2. u \in Of(s) /\ pc[u] \in Talking
    BY <2>1 DEF Of, Begun, Talking
  <2>3. "overlap" \in frayed'[s]
    BY <2>2 DEF ArriveLeaves
  <2> QED BY <2>3 DEF Quiet
<1>5. \A q \in Processes : count'[q][x] = count[q][x]
  <2>1. CASE x = s
    BY <2>1, <1>4 DEF ArriveLeaves
  <2>2. CASE x # s
    <3> DEFINE n == NextCount(count[p][s], context[agents[p][s]] # {})
    <3>1. count' = count \/ count' = [count EXCEPT ![p][s] = n]
      BY DEF ArriveLeaves
    <3>2. count \in [Processes -> [Sessions -> 0..2]] /\ p \in Processes /\ s \in Sessions
      BY <1>1 DEF TypeOK, CountsOK
    <3> HIDE DEF n, s, p
    <3> QED BY <3>1, <3>2, <2>2
  <2> QED BY <2>1, <2>2
<1>6. x = s => pc'[t] = "loading"
  BY <1>4 DEF ArriveLeaves, TypeOK
<1>7. \A u \in Turns : session[u] = x => (pc'[u] \in Begun <=> pc[u] \in Begun)
  BY <1>1, <1>6 DEF Begun
<1>8. \A u \in Turns : process[u] \in Processes
  BY DEF TypeOK, CountsOK
<1>9. \A q \in Processes : agents[q][x] # NoAgent \/ count'[q][x] > 0 =>
        \E u \in Turns : session[u] = x /\ process[u] = q /\ pc'[u] \in Begun
  <2> SUFFICES ASSUME NEW q \in Processes, agents[q][x] # NoAgent \/ count[q][x] > 0
               PROVE  \E u \in Turns : session[u] = x /\ process[u] = q /\ pc'[u] \in Begun
    BY <1>5
  <2>1. PICK u \in Turns : session[u] = x /\ process[u] = q /\ pc[u] \in Begun
    BY <1>3 DEF FirstTurns
  <2> QED BY <2>1, <1>7
<1>10. "evicted" \notin frayed'[x] =>
         \A u \in Turns : session[u] = x /\ pc'[u] \in Begun => count'[process[u]][x] = 1
  <2> SUFFICES ASSUME "evicted" \notin frayed'[x], NEW u \in Turns, session[u] = x, pc'[u] \in Begun
               PROVE  count'[process[u]][x] = 1
    OBVIOUS
  <2>1. "evicted" \notin frayed[x] /\ pc[u] \in Begun
    BY <1>3, <1>7
  <2>2. count[process[u]][x] = 1
    BY <2>1, <1>3 DEF FirstTurns
  <2> QED BY <2>2, <1>5, <1>8
<1> QED BY <1>3, <1>9, <1>10 DEF FirstTurns

LEMMA FirstTurnsStep ==
  ASSUME TypeOK, Ordered, FirstTurns, NEW t \in Turns, StepLeaves(t),
         \A s \in Sessions : saved'[s] = saved[s] \/ (s = session[t] /\ saved'[s] = draft[t]),
         \A u \in Turns : u # t => draft'[u] = draft[u],
         draft'[t] \in {draft[t], {}, saved[session[t]]} \/ pc[t] = "answered"
  PROVE  FirstTurns'
<1>1. UNCHANGED <<session, process, agents, count>>
  BY DEF StepLeaves
<1>2. \A u \in Turns : session[u] \in Sessions /\ process[u] \in Processes
  BY DEF TypeOK, CountsOK
<1> SUFFICES ASSUME NEW x \in Sessions, Quiet(x)'
             PROVE  /\ saved'[x] = {}
                    /\ \A u \in Turns : session[u] = x => draft'[u] = {}
                    /\ \A q \in Processes : agents[q][x] # NoAgent \/ count[q][x] > 0 =>
                         \E u \in Turns : session[u] = x /\ process[u] = q /\ pc'[u] \in Begun
                    /\ "evicted" \notin frayed'[x] =>
                         \A u \in Turns : session[u] = x /\ pc'[u] \in Begun => count[process[u]][x] = 1
  BY <1>1 DEF FirstTurns
<1>3. answered \subseteq answered' /\ Of(x)' = Of(x)
  BY SameTurns DEF StepLeaves
<1>4. Quiet(x) /\ frayed[x] \subseteq frayed'[x]
  BY <1>3 DEF Quiet, StepLeaves
<1>5. session[t] = x => t \notin answered' /\ pc[t] \notin {"answered", "saving"}
  <2>1. pc[t] # "idle"
    BY DEF StepLeaves, Begun
  <2> QED BY <1>3, <1>4, <2>1 DEF Quiet, Of, Ordered, Stages
<1>6. session[t] = x => (pc'[t] \in Begun <=> pc[t] \in Begun)
  BY <1>5 DEF StepLeaves, Begun
<1>7. \A u \in Turns : session[u] = x => (pc'[u] \in Begun <=> pc[u] \in Begun)
  BY <1>6 DEF StepLeaves, TypeOK
<1>8. saved'[x] = {}
  BY <1>4 DEF FirstTurns
<1>9. \A u \in Turns : session[u] = x => draft'[u] = {}
  <2> SUFFICES ASSUME NEW u \in Turns, session[u] = x PROVE draft'[u] = {}
    OBVIOUS
  <2>1. draft[u] = {} /\ saved[x] = {}
    BY <1>4 DEF FirstTurns
  <2>2. CASE u # t
    BY <2>1, <2>2
  <2>3. CASE u = t
    BY <2>1, <2>3, <1>5
  <2> QED BY <2>2, <2>3
<1>10. \A q \in Processes : agents[q][x] # NoAgent \/ count[q][x] > 0 =>
         \E u \in Turns : session[u] = x /\ process[u] = q /\ pc'[u] \in Begun
  <2> SUFFICES ASSUME NEW q \in Processes, agents[q][x] # NoAgent \/ count[q][x] > 0
               PROVE  \E u \in Turns : session[u] = x /\ process[u] = q /\ pc'[u] \in Begun
    OBVIOUS
  <2>1. PICK u \in Turns : session[u] = x /\ process[u] = q /\ pc[u] \in Begun
    BY <1>4 DEF FirstTurns
  <2> QED BY <2>1, <1>7
<1>11. "evicted" \notin frayed'[x] =>
         \A u \in Turns : session[u] = x /\ pc'[u] \in Begun => count[process[u]][x] = 1
  <2> SUFFICES ASSUME "evicted" \notin frayed'[x], NEW u \in Turns, session[u] = x, pc'[u] \in Begun
               PROVE  count[process[u]][x] = 1
    OBVIOUS
  <2>1. "evicted" \notin frayed[x] /\ pc[u] \in Begun
    BY <1>4, <1>7
  <2> QED BY <2>1, <1>4 DEF FirstTurns
<1> QED BY <1>8, <1>9, <1>10, <1>11

LEMMA FirstTurnsInstall ==
  ASSUME TypeOK, Ordered, FirstTurns, NEW t \in Turns, NEW gone, InstallLeaves(t, gone)
  PROVE  FirstTurns'
<1> DEFINE s == session[t]
           p == process[t]
<1>1. /\ pc[t] = "restored" /\ s \in Sessions /\ p \in Processes
      /\ pc'[t] \in Begun /\ \A u \in Turns : u # t => pc'[u] = pc[u]
  BY DEF InstallLeaves, TypeOK, CountsOK, Prepared, Begun
<1>2. UNCHANGED <<session, process, saved, answered>>
  BY DEF InstallLeaves
<1>3. \A u \in Turns : session[u] \in Sessions /\ process[u] \in Processes
  BY DEF TypeOK, CountsOK
<1> SUFFICES ASSUME NEW x \in Sessions, Quiet(x)'
             PROVE  /\ saved[x] = {}
                    /\ \A u \in Turns : session[u] = x => draft'[u] = {}
                    /\ \A q \in Processes : agents'[q][x] # NoAgent \/ count'[q][x] > 0 =>
                         \E u \in Turns : session[u] = x /\ process[u] = q /\ pc'[u] \in Begun
                    /\ "evicted" \notin frayed'[x] =>
                         \A u \in Turns : session[u] = x /\ pc'[u] \in Begun => count'[process[u]][x] = 1
  BY <1>2 DEF FirstTurns
<1>4. Quiet(x) /\ frayed[x] \subseteq frayed'[x]
  <2>1. Of(x)' = Of(x)
    BY SameTurns
  <2> QED BY <2>1, <1>2 DEF Quiet, InstallLeaves
<1>5. saved[x] = {} /\ \A u \in Turns : session[u] = x => draft'[u] = {}
  BY <1>4 DEF FirstTurns, InstallLeaves, TypeOK
<1>6. \A u \in Turns : pc[u] \in Begun /\ session[u] = x => x # s
  <2> SUFFICES ASSUME NEW u \in Turns, pc[u] \in Begun, session[u] = x, x = s PROVE FALSE
    OBVIOUS
  <2>1. pc[t] \in Talking /\ pc[u] \in Talking /\ u # t
    BY <1>1 DEF Begun, Talking
  <2> QED BY <2>1, <1>4 DEF Quiet, Ordered, OneTalks
<1>7. \A q \in Processes : agents'[q][x] # NoAgent \/ count'[q][x] > 0 =>
        \E u \in Turns : session[u] = x /\ process[u] = q /\ pc'[u] \in Begun
  <2> SUFFICES ASSUME NEW q \in Processes, agents'[q][x] # NoAgent \/ count'[q][x] > 0
               PROVE  \E u \in Turns : session[u] = x /\ process[u] = q /\ pc'[u] \in Begun
    OBVIOUS
  <2>1. CASE q = p /\ x = s
    BY <2>1, <1>1
  <2>2. CASE ~(q = p /\ x = s)
    <3>1. agents'[q][x] \in {agents[q][x], NoAgent} /\ count'[q][x] \in {count[q][x], 0}
      BY <2>2 DEF InstallLeaves
    <3>2. agents[q][x] # NoAgent \/ count[q][x] > 0
      BY <3>1
    <3>3. PICK u \in Turns : session[u] = x /\ process[u] = q /\ pc[u] \in Begun
      BY <3>2, <1>4 DEF FirstTurns
    <3>4. u # t
      BY <3>3, <1>1 DEF Begun
    <3> QED BY <3>3, <3>4, <1>1
  <2> QED BY <2>1, <2>2
<1>8. "evicted" \notin frayed'[x] =>
        \A u \in Turns : session[u] = x /\ pc'[u] \in Begun => count'[process[u]][x] = 1
  <2> SUFFICES ASSUME "evicted" \notin frayed'[x], NEW u \in Turns, session[u] = x, pc'[u] \in Begun
               PROVE  count'[process[u]][x] = 1
    OBVIOUS
  <2>1. CASE u = t
    <3>1. draft[t] = {}
      BY <2>1, <1>4 DEF FirstTurns
    <3>2. ~(count[p][s] > 0)
      <4> SUFFICES ASSUME count[p][s] > 0 PROVE FALSE
        OBVIOUS
      <4>1. PICK v \in Turns : session[v] = s /\ process[v] = p /\ pc[v] \in Begun
        BY <2>1, <1>1, <1>4 DEF FirstTurns
      <4> QED BY <4>1, <2>1, <1>6
    <3>3. count[p][s] = 0
      <4>1. count[p][s] \in 0..2
        BY <1>1 DEF TypeOK, CountsOK
      <4> QED BY <4>1, <3>2
    <3>4. count'[p][s] = NextCount(count[p][s], draft[t] # {})
      BY <1>1 DEF InstallLeaves
    <3> QED BY <2>1, <3>1, <3>3, <3>4 DEF NextCount
  <2>2. CASE u # t
    <3>1. pc[u] \in Begun
      BY <2>2, <1>1
    <3>2. count[process[u]][x] = 1
      BY <3>1, <1>4 DEF FirstTurns
    <3>3. x # s
      BY <3>1, <1>6
    <3>4. ~(process[u] = p /\ x \in gone)
      <4>1. process[u] = p => u \in Of(x) \cap ActiveIn(p)
        BY <3>1 DEF Of, ActiveIn, Active, Talking, Begun
      <4> QED BY <4>1 DEF InstallLeaves
    <3>5. count'[process[u]][x] = count[process[u]][x]
      BY <3>3, <3>4, <1>3, SMTT(30) DEF InstallLeaves
    <3> QED BY <3>2, <3>5
  <2> QED BY <2>1, <2>2
<1> QED BY <1>5, <1>7, <1>8

LEMMA FirstTurnsRestart ==
  ASSUME TypeOK, Ordered, FirstTurns, NEW p \in Processes, RestartLeaves(p)
  PROVE  FirstTurns'
<1>1. UNCHANGED <<session, process, saved, answered>>
  BY DEF RestartLeaves
<1>2. \A u \in Turns : pc'[u] = "done" \/ (pc'[u] = pc[u] /\ (pc[u] \in Begun => process[u] # p))
  BY DEF RestartLeaves, ActiveIn, Active, Talking, Begun
<1>3. \A u \in Turns : session[u] \in Sessions /\ process[u] \in Processes
  BY DEF TypeOK, CountsOK
<1> SUFFICES ASSUME NEW x \in Sessions, Quiet(x)'
             PROVE  /\ saved[x] = {}
                    /\ \A u \in Turns : session[u] = x => draft'[u] = {}
                    /\ \A q \in Processes : agents'[q][x] # NoAgent \/ count'[q][x] > 0 =>
                         \E u \in Turns : session[u] = x /\ process[u] = q /\ pc'[u] \in Begun
                    /\ "evicted" \notin frayed'[x] =>
                         \A u \in Turns : session[u] = x /\ pc'[u] \in Begun => count'[process[u]][x] = 1
  BY <1>1 DEF FirstTurns
<1>4. Quiet(x) /\ frayed[x] \subseteq frayed'[x]
  <2>1. Of(x)' = Of(x)
    BY SameTurns
  <2> QED BY <2>1, <1>1 DEF Quiet, RestartLeaves
<1>5. saved[x] = {} /\ \A u \in Turns : session[u] = x => draft'[u] = {}
  BY <1>4 DEF FirstTurns, RestartLeaves
<1>6. ASSUME NEW q \in Processes, agents'[q][x] # NoAgent \/ count'[q][x] > 0
      PROVE  \E u \in Turns : session[u] = x /\ process[u] = q /\ pc'[u] \in Begun
  <2>1. q # p /\ agents'[q][x] = agents[q][x] /\ count'[q][x] = count[q][x]
    BY <1>6 DEF RestartLeaves
  <2>2. PICK u \in Turns : session[u] = x /\ process[u] = q /\ pc[u] \in Begun
    BY <2>1, <1>4, <1>6 DEF FirstTurns
  <2>3. u \notin ActiveIn(p)
    BY <2>1, <2>2 DEF ActiveIn
  <2> QED BY <2>2, <2>3 DEF RestartLeaves
<1>7. ASSUME "evicted" \notin frayed'[x], NEW u \in Turns, session[u] = x, pc'[u] \in Begun
      PROVE  count'[process[u]][x] = 1
  <2>1. pc[u] \in Begun /\ process[u] # p
    BY <1>2, <1>7 DEF Begun
  <2>2. count[process[u]][x] = 1
    BY <2>1, <1>4, <1>7 DEF FirstTurns
  <2> QED BY <2>1, <2>2, <1>3 DEF RestartLeaves
<1> QED BY <1>5, <1>6, <1>7

LEMMA FirstTurnsNext == TypeOK /\ Ordered /\ FirstTurns /\ [Next]_vars => FirstTurns'
<1> SUFFICES ASSUME TypeOK, Ordered, FirstTurns, [Next]_vars
             PROVE  FirstTurns'
  OBVIOUS
<1>1. ASSUME NEW t \in Turns, Arrive(t) PROVE FirstTurns'
  BY <1>1, ArriveDoes, FirstTurnsArrive
<1>2. ASSUME NEW t \in Turns, Install(t) PROVE FirstTurns'
  BY <1>2, InstallDoes, FirstTurnsInstall
<1>3. ASSUME NEW p \in Processes, Restart(p) PROVE FirstTurns'
  BY <1>3, RestartDoes, FirstTurnsRestart
<1>4. ASSUME NEW t \in Turns,
             \/ \E ok \in BOOLEAN : Load(t, ok) \/ Save(t, ok)
             \/ Speak(t) \/ Order(t) \/ Answer(t) \/ Persist(t)
             \/ \E tool \in {"search", "other"} : Call(t, tool)
      PROVE  FirstTurns'
  BY <1>4, StepDoes, StepStores, FirstTurnsStep
<1>5. CASE UNCHANGED vars
  BY <1>5 DEF vars, turnVars, cacheVars, trackers, FirstTurns, Quiet, Of
<1> QED BY <1>1, <1>2, <1>3, <1>4, <1>5 DEF Next

-----------------------------------------------------------------------------
\* The turns of a session that its agent heard and the buyer had an answer to.
Told(s) == answered \cap said \cap Of(s)

\* What was told is in the agent a process caches, and one process does.
InAgent(s) ==
  /\ \A p \in Processes : agents[p][s] # NoAgent => Told(s) \subseteq context[agents[p][s]]
  /\ \A p, q \in Processes : agents[p][s] # NoAgent /\ agents[q][s] # NoAgent => p = q

\* A turn that waits for its snapshot finds no agent; it reads what was told.
InDraft(s) ==
  \A t \in Turns : session[t] = s =>
    /\ pc[t] \in {"loading", "restored"} => \A p \in Processes : agents[p][s] = NoAgent
    /\ pc[t] = "restored" => Told(s) \subseteq draft[t]

\* A turn talks to the agent cached for it, and is counted as a later one.
InTalk(s) ==
  \A t \in Turns : session[t] = s /\ pc[t] \in Begun =>
    /\ agent[t] = agents[process[t]][s]
    /\ pc[t] = "replying" => t \in context[agents[process[t]][s]]
    /\ Told(s) # {} => count[process[t]][s] = 2

\* What was told is saved once no turn has still to save it.
InStore(s) ==
  /\ \A t \in Turns : session[t] = s /\ pc[t] = "saving" =>
       Told(s) \subseteq draft[t] \/ \E u \in Turns : session[u] = s /\ pc[u] = "answered"
  /\ (\A t \in Turns : session[t] = s => pc[t] \notin {"answered", "saving"}) => Told(s) \subseteq saved[s]
  /\ \A t, u \in Turns : session[t] = s /\ session[u] = s /\ pc[t] = "saving" /\ pc[u] = "saving" => t = u

Dialogue(s) == InAgent(s) /\ InDraft(s) /\ InTalk(s) /\ InStore(s)

Dialogues == \A s \in Sessions : frayed[s] = {} => Dialogue(s)

\* Only an answer tells a session anything.
LEMMA ToldArrive ==
  ASSUME TypeOK, Ordered, NEW t \in Turns, ArriveLeaves(t), NEW s \in Sessions
  PROVE  Told(s)' = Told(s)
<1>1. t \notin answered
  BY DEF ArriveLeaves, Ordered, Stages
<1>2. answered' = answered /\ said' = said
  BY DEF ArriveLeaves
<1>3. Of(s)' = IF s = session[t] THEN Of(s) \cup {t} ELSE Of(s)
  BY OneMoreTurn
<1> QED BY <1>1, <1>2, <1>3 DEF Told

LEMMA ToldStep ==
  ASSUME TypeOK, Ordered, NEW t \in Turns, StepLeaves(t), NEW s \in Sessions
  PROVE  /\ s # session[t] \/ pc'[t] # "answered" \/ pc[t] \notin Begun => Told(s)' = Told(s)
         /\ Told(s)' \subseteq Told(s) \cup {t}
         /\ t \in Told(s)' /\ pc[t] \in Begun => pc[t] = "replying"
<1>1. Of(s)' = Of(s) /\ (t \in Of(s) => s = session[t])
  <2>1. Of(s)' = Of(s)
    BY SameTurns
  <2>2. t \in Of(s) => s = session[t]
    BY DEF Of
  <2> QED BY <2>1, <2>2
<1>2. /\ said' = IF pc[t] \in {"fresh", "known"} /\ pc'[t] = "replying" THEN said \cup {t} ELSE said
      /\ answered' = IF pc[t] \in Begun /\ pc'[t] = "answered" THEN answered \cup {t} ELSE answered
  BY DEF StepLeaves
<1>3. pc[t] \in Begun => t \notin answered
  BY DEF Ordered, Stages, Begun
<1>4. t \in said /\ pc[t] \in Begun => pc[t] = "replying"
  BY DEF Ordered, Stages, Begun
<1>5. s # session[t] \/ pc'[t] # "answered" \/ pc[t] \notin Begun => Told(s)' = Told(s)
  BY <1>1, <1>2, <1>3 DEF Told, Begun
<1>6. Told(s)' \subseteq Told(s) \cup {t}
  BY <1>1, <1>2, <1>3 DEF Told, Begun
<1>7. t \in Told(s)' /\ pc[t] \in Begun => pc[t] = "replying"
  BY <1>1, <1>2, <1>3, <1>4 DEF Told, Begun
<1> QED BY <1>5, <1>6, <1>7

LEMMA ToldElsewhere ==
  ASSUME TypeOK, NEW s \in Sessions,
         \/ \E t \in Turns : \E gone : InstallLeaves(t, gone)
         \/ \E p \in Processes : RestartLeaves(p)
  PROVE  Told(s)' = Told(s)
<1>1. Of(s)' = Of(s)
  BY SameTurns
<1>2. answered' = answered /\ said' = said
  BY DEF InstallLeaves, RestartLeaves
<1> QED BY <1>1, <1>2 DEF Told

\* A smooth session's turns have their agent.
LEMMA AgentThere ==
  ASSUME TypeOK, Ordered, NEW s \in Sessions, frayed[s] = {},
         NEW t \in Turns, session[t] = s, pc[t] \in InHand
  PROVE  agents[process[t]][s] \in Turns /\ process[t] \in Processes
<1>1. agents[process[t]][s] # NoAgent
  BY DEF Ordered, InPlace
<1> QED BY <1>1 DEF TypeOK, CountsOK

\* Steps of other sessions leave a dialogue alone, but may add to an agent.
LEMMA DialogueKept ==
  ASSUME TypeOK, Ordered, NEW s \in Sessions, frayed[s] = {}, Dialogue(s),
         UNCHANGED <<session, process>>, Told(s)' = Told(s), saved'[s] = saved[s],
         \A p \in Processes :
           /\ agents'[p][s] = agents[p][s] /\ count'[p][s] = count[p][s]
           /\ agents[p][s] # NoAgent => context[agents[p][s]] \subseteq context'[agents[p][s]],
         \A t \in Turns : session[t] = s => pc'[t] = pc[t] /\ agent'[t] = agent[t] /\ draft'[t] = draft[t]
  PROVE  Dialogue(s)'
<1>1. InAgent(s)'
  BY DEF Dialogue, InAgent
<1>2. InDraft(s)'
  BY DEF Dialogue, InDraft
<1>3. InTalk(s)'
  <2> SUFFICES ASSUME NEW t \in Turns, session[t] = s, pc[t] \in Begun
               PROVE  /\ agent[t] = agents'[process[t]][s]
                      /\ pc[t] = "replying" => t \in context'[agents'[process[t]][s]]
                      /\ Told(s) # {} => count'[process[t]][s] = 2
    BY DEF InTalk
  <2>1. agents[process[t]][s] \in Turns /\ process[t] \in Processes
    BY AgentThere DEF InHand
  <2>2. agents[process[t]][s] # NoAgent
    BY <2>1, TurnsAssumption
  <2> QED BY <2>1, <2>2 DEF Dialogue, InTalk
<1>4. InStore(s)'
  BY DEF Dialogue, InStore
<1> QED BY <1>1, <1>2, <1>3, <1>4 DEF Dialogue

LEMMA DialogueArrive ==
  ASSUME TypeOK, Ordered, Dialogues, NEW t \in Turns, ArriveLeaves(t)
  PROVE  Dialogues'
<1> USE TurnsAssumption
<1> DEFINE s == session[t]
           p == process[t]
           a == agents[p][s]
<1>1. /\ pc[t] = "idle" /\ s \in Sessions /\ p \in Processes
      /\ \A u \in Turns : u # t => pc'[u] = pc[u] /\ agent'[u] = agent[u]
  BY DEF ArriveLeaves, TypeOK, CountsOK
<1>2. UNCHANGED <<session, process, agents, context, draft, saved>>
  BY DEF ArriveLeaves
<1> SUFFICES ASSUME NEW x \in Sessions, frayed'[x] = {} PROVE Dialogue(x)'
  BY DEF Dialogues
<1>3. frayed[x] = {} /\ Dialogue(x)
  BY DEF ArriveLeaves, Dialogues
<1>4. Told(x)' = Told(x)
  BY ToldArrive
<1>5. \A q \in Processes : q # p \/ x # s => count'[q][x] = count[q][x]
  <2> DEFINE n == NextCount(count[p][s], context[a] # {})
  <2>1. count' = count \/ count' = [count EXCEPT ![p][s] = n]
    BY DEF ArriveLeaves
  <2>2. count \in [Processes -> [Sessions -> 0..2]]
    BY DEF TypeOK, CountsOK
  <2> HIDE DEF n, s, p
  <2> QED BY <2>1, <2>2, <1>1
<1>6. CASE x # s
  BY <1>1, <1>2, <1>3, <1>4, <1>5, <1>6, DialogueKept
<1>7. CASE x = s
  <2>1. \A q \in Processes : q # p => agents[q][s] = NoAgent
    BY <1>7 DEF ArriveLeaves
  <2>2. \A u \in Turns : session[u] = s => pc[u] \notin Talking
    BY <1>7 DEF ArriveLeaves, Of, Talking
  <2>3. pc'[t] \in {"loading", "fresh", "known"} /\ (pc'[t] = "loading" => a = NoAgent)
    BY DEF ArriveLeaves, TypeOK, Prepared
  <2>4. InAgent(x)'
    BY <1>2, <1>3, <1>4, <1>7 DEF Dialogue, InAgent
  <2>5. InDraft(x)'
    BY <1>1, <1>2, <1>7, <2>1, <2>2, <2>3 DEF InDraft, Talking
  <2>6. InTalk(x)'
    <3> SUFFICES ASSUME NEW u \in Turns, session[u] = s, pc'[u] \in Begun
                 PROVE  /\ agent'[u] = agents[process[u]][s]
                        /\ pc'[u] = "replying" => u \in context[agents[process[u]][s]]
                        /\ Told(s) # {} => count'[process[u]][s] = 2
      BY <1>2, <1>4, <1>7 DEF InTalk
    <3>1. u = t
      BY <1>1, <2>2 DEF Begun, Talking
    <3>2. a # NoAgent /\ agent' = [agent EXCEPT ![t] = a]
      BY <2>3, <3>1 DEF ArriveLeaves, TypeOK, Begun
    <3>3. Told(s) # {} => count'[p][s] = 2
      <4>1. Told(s) # {} => context[a] # {}
        BY <1>1, <1>3, <1>7, <3>2 DEF Dialogue, InAgent
      <4>2. count'[p][s] = NextCount(count[p][s], context[a] # {})
        <5> DEFINE n == NextCount(count[p][s], context[a] # {})
        <5>1. count' = [count EXCEPT ![p][s] = n]
          BY <3>2 DEF ArriveLeaves
        <5>2. count \in [Processes -> [Sessions -> 0..2]]
          BY DEF TypeOK, CountsOK
        <5>3. count'[p][s] = n
          <6> HIDE DEF n, s, p
          <6> QED BY <5>1, <5>2, <1>1
        <5> QED BY <5>3
      <4> QED BY <4>1, <4>2 DEF NextCount
    <3> QED BY <2>3, <3>1, <3>2, <3>3 DEF TypeOK
  <2>7. InStore(x)'
    BY <1>1, <1>2, <1>3, <1>4, <1>7, <2>3 DEF Dialogue, InStore
  <2> QED BY <2>4, <2>5, <2>6, <2>7 DEF Dialogue
<1> QED BY <1>6, <1>7

LEMMA DialogueLoad ==
  ASSUME TypeOK, Ordered, Dialogues, NEW t \in Turns, NEW ok \in BOOLEAN, Load(t, ok)
  PROVE  Dialogues'
<1> USE TurnsAssumption
<1> DEFINE s == session[t]
<1>1. StepLeaves(t)
  BY StepDoes
<1>2. /\ pc[t] = "loading" /\ s \in Sessions
      /\ pc' = [pc EXCEPT ![t] = "restored"]
      /\ draft' = [draft EXCEPT ![t] = IF ok THEN saved[s] ELSE {}]
      /\ UNCHANGED <<session, process, agents, count, context, agent, saved>>
  BY DEF Load, Goto, turnVars, cacheVars, trackers, TypeOK, CountsOK
<1>3. \A u \in Turns : u # t => pc'[u] = pc[u] /\ draft'[u] = draft[u]
  BY <1>2 DEF TypeOK
<1> SUFFICES ASSUME NEW x \in Sessions, frayed'[x] = {} PROVE Dialogue(x)'
  BY DEF Dialogues
<1>4. frayed[x] = {} /\ Dialogue(x)
  BY <1>1 DEF StepLeaves, Dialogues
<1>5. Told(x)' = Told(x)
  BY <1>1, <1>2, ToldStep DEF Begun
<1>6. CASE x # s
  BY <1>2, <1>3, <1>4, <1>5, <1>6, DialogueKept
<1>7. CASE x = s
  <2>1. ok
    BY <1>2, <1>7, Frays DEF Load, Causes
  <2>2. pc'[t] = "restored" /\ draft'[t] = saved[s]
    BY <1>2, <2>1 DEF TypeOK
  <2>3. \A p \in Processes : agents[p][s] = NoAgent
    BY <1>2, <1>4, <1>7 DEF Dialogue, InDraft
  <2>4. \A u \in Turns : session[u] = s => pc[u] \notin InHand
    BY <1>4, <1>7, <2>3, AgentThere
  <2>5. Told(s) \subseteq saved[s]
    BY <1>4, <1>7, <2>4 DEF Dialogue, InStore, InHand
  <2>6. InAgent(x)'
    BY <1>2, <1>7, <2>3 DEF InAgent
  <2>7. InDraft(x)'
    BY <1>2, <1>3, <1>4, <1>5, <1>7, <2>2, <2>3, <2>5 DEF Dialogue, InDraft
  <2>8. InTalk(x)'
    BY <1>2, <1>3, <1>7, <2>2, <2>4 DEF InTalk, InHand, Begun
  <2>9. InStore(x)'
    BY <1>2, <1>3, <1>5, <1>7, <2>2, <2>4, <2>5 DEF InStore, InHand
  <2> QED BY <2>6, <2>7, <2>8, <2>9 DEF Dialogue
<1> QED BY <1>6, <1>7

LEMMA DialogueInstall ==
  ASSUME TypeOK, Ordered, Dialogues, NEW t \in Turns, NEW gone, InstallLeaves(t, gone)
  PROVE  Dialogues'
<1> USE TurnsAssumption
<1> DEFINE s == session[t]
           p == process[t]
<1>1. /\ pc[t] = "restored" /\ s \in Sessions /\ p \in Processes
      /\ pc'[t] \in {"fresh", "known"} /\ context'[t] = draft[t] /\ agent'[t] = t
      /\ \A u \in Turns : u # t =>
           pc'[u] = pc[u] /\ agent'[u] = agent[u] /\ draft'[u] = draft[u] /\ context'[u] = context[u]
  BY DEF InstallLeaves, TypeOK, CountsOK, Prepared
<1>2. UNCHANGED <<session, process, saved>>
  BY DEF InstallLeaves
<1> SUFFICES ASSUME NEW x \in Sessions, frayed'[x] = {} PROVE Dialogue(x)'
  BY DEF Dialogues
<1>3. frayed[x] = {} /\ Dialogue(x)
  BY DEF InstallLeaves, Dialogues
<1>4. Told(x)' = Told(x)
  BY ToldElsewhere
<1>5. x \in gone => \A u \in Turns : session[u] = x /\ process[u] = p => pc[u] \notin Active
  <2> SUFFICES ASSUME x \in gone, NEW u \in Turns, session[u] = x, process[u] = p, pc[u] \in Active
               PROVE  FALSE
    OBVIOUS
  <2>1. u \in Of(x) \cap ActiveIn(p)
    BY DEF Of, ActiveIn, Active, Talking
  <2> QED BY <2>1 DEF InstallLeaves
<1>6. \A q \in Processes :
        agents'[q][x] = IF q # p THEN agents[q][x]
                        ELSE IF x \in gone THEN NoAgent
                        ELSE IF x = s THEN t ELSE agents[q][x]
  BY DEF InstallLeaves
<1>7. CASE x # s
  <2>1. \A q \in Processes : agents[q][x] # NoAgent => context'[agents[q][x]] = context[agents[q][x]]
    <3> SUFFICES ASSUME NEW q \in Processes, agents[q][x] # NoAgent
                 PROVE  context'[agents[q][x]] = context[agents[q][x]]
      OBVIOUS
    <3>1. agents[q][x] \in Turns
      BY DEF TypeOK, CountsOK
    <3>2. agents[q][x] # t
      BY <1>1 DEF Ordered, Builders, InHand, Begun
    <3> QED BY <3>1, <3>2, <1>1
  <2>2. InAgent(x)'
    BY <2>1, <1>3, <1>4, <1>6, <1>7 DEF Dialogue, InAgent
  <2>3. InDraft(x)'
    BY <1>1, <1>2, <1>3, <1>4, <1>6, <1>7 DEF Dialogue, InDraft
  <2>4. InTalk(x)'
    <3> SUFFICES ASSUME NEW u \in Turns, session[u] = x, pc'[u] \in Begun
                 PROVE  /\ agent'[u] = agents'[process[u]][x]
                        /\ pc'[u] = "replying" => u \in context'[agents'[process[u]][x]]
                        /\ Told(x) # {} => count'[process[u]][x] = 2
      BY <1>2, <1>4 DEF InTalk
    <3>1. u # t /\ pc[u] \in Begun /\ pc'[u] = pc[u] /\ agent'[u] = agent[u]
      BY <1>1, <1>7
    <3>2. agents[process[u]][x] \in Turns /\ process[u] \in Processes
      BY <3>1, <1>3, AgentThere DEF InHand
    <3>3. ~(process[u] = p /\ x \in gone)
      BY <3>1, <1>5 DEF Begun, Active, Talking
    <3>4. agents'[process[u]][x] = agents[process[u]][x]
      BY <3>2, <3>3, <1>6, <1>7
    <3>5. count'[process[u]][x] = count[process[u]][x]
      BY <3>2, <3>3, <1>7 DEF InstallLeaves
    <3>6. /\ agent[u] = agents[process[u]][x]
          /\ pc[u] = "replying" => u \in context[agents[process[u]][x]]
          /\ Told(x) # {} => count[process[u]][x] = 2
      BY <3>1, <1>3 DEF Dialogue, InTalk
    <3> QED BY <3>1, <3>2, <3>4, <3>5, <3>6, <2>1
  <2>5. InStore(x)'
    <3>1. \A u \in Turns : session[u] = x => pc'[u] = pc[u] /\ draft'[u] = draft[u]
      BY <1>1, <1>7
    <3> QED BY <3>1, <1>2, <1>3, <1>4 DEF Dialogue, InStore
  <2> QED BY <2>2, <2>3, <2>4, <2>5 DEF Dialogue
<1>8. CASE x = s
  <2>1. x \notin gone
    BY <1>1, <1>5, <1>8 DEF Active, Talking
  <2>2. \A q \in Processes : agents[q][x] = NoAgent
    BY <1>1, <1>3, <1>8 DEF Dialogue, InDraft
  <2>3. \A q \in Processes : agents'[q][x] = IF q = p THEN t ELSE NoAgent
    BY <2>1, <2>2, <1>6, <1>8
  <2>4. Told(x) \subseteq draft[t]
    BY <1>1, <1>3, <1>8 DEF Dialogue, InDraft
  <2>5. \A u \in Turns : session[u] = x => pc[u] \notin InHand
    BY <1>3, <2>2, AgentThere
  <2>6. \A u \in Turns : session[u] = x /\ pc[u] \in Talking => u = t
    BY <1>1, <1>3, <1>8 DEF Ordered, OneTalks, Talking
  <2>7. InAgent(x)'
    BY <1>1, <1>4, <2>3, <2>4 DEF InAgent
  <2>8. InDraft(x)'
    BY <1>1, <1>2, <2>6 DEF InDraft, Talking
  <2>9. InTalk(x)'
    <3> SUFFICES ASSUME NEW u \in Turns, session[u] = x, pc'[u] \in Begun
                 PROVE  /\ agent'[u] = agents'[process[u]][x]
                        /\ pc'[u] = "replying" => u \in context'[agents'[process[u]][x]]
                        /\ Told(x) # {} => count'[process[u]][x] = 2
      BY <1>2, <1>4 DEF InTalk
    <3>1. u = t
      BY <1>1, <2>5 DEF InHand
    <3>2. count'[p][x] = NextCount(count[p][x], draft[t] # {})
      BY <1>1, <1>8 DEF InstallLeaves
    <3>3. Told(x) # {} => count'[p][x] = 2
      BY <3>2, <2>4 DEF NextCount
    <3> QED BY <3>1, <3>3, <1>1, <2>3
  <2>10. InStore(x)'
    <3>1. \A u \in Turns : session[u] = x => pc'[u] \notin {"answered", "saving"}
      BY <1>1, <2>5 DEF InHand
    <3>2. Told(x) \subseteq saved[x]
      BY <1>3, <2>5 DEF Dialogue, InStore, InHand
    <3> QED BY <3>1, <3>2, <1>2, <1>4 DEF InStore
  <2> QED BY <2>7, <2>8, <2>9, <2>10 DEF Dialogue
<1> QED BY <1>7, <1>8

LEMMA DialogueRestart ==
  ASSUME TypeOK, Ordered, Dialogues, NEW p \in Processes, RestartLeaves(p)
  PROVE  Dialogues'
<1>1. UNCHANGED <<session, process, context, saved>>
  BY DEF RestartLeaves
<1> SUFFICES ASSUME NEW x \in Sessions, frayed'[x] = {} PROVE Dialogue(x)'
  BY DEF Dialogues
<1>2. frayed[x] = {} /\ Dialogue(x) /\ answered \cap Of(x) \cap ActiveIn(p) = {}
  BY DEF RestartLeaves, Dialogues
<1>3. Told(x)' = Told(x)
  BY ToldElsewhere
<1>4. \A q \in Processes :
        IF q = p THEN agents'[q][x] = NoAgent
        ELSE agents'[q][x] = agents[q][x] /\ count'[q][x] = count[q][x]
  BY DEF RestartLeaves
<1>5. \A u \in Turns :
        IF process[u] = p /\ pc[u] \in Active
        THEN pc'[u] = "done"
        ELSE pc'[u] = pc[u] /\ agent'[u] = agent[u] /\ draft'[u] = draft[u]
  BY DEF RestartLeaves, ActiveIn
<1>6. \A u \in Turns : session[u] = x /\ pc[u] \in {"answered", "saving"} =>
        pc'[u] = pc[u] /\ draft'[u] = draft[u]
  <2> SUFFICES ASSUME NEW u \in Turns, session[u] = x, pc[u] \in {"answered", "saving"}
               PROVE  ~(process[u] = p /\ pc[u] \in Active)
    BY <1>5
  <2>1. u \in answered \cap Of(x)
    BY DEF Ordered, Stages, Of
  <2> QED BY <2>1, <1>2 DEF ActiveIn
<1>7. \A u \in Turns : pc'[u] \notin {"answered", "saving"} \/ pc'[u] = pc[u]
  BY <1>5
<1>8. InAgent(x)'
  BY <1>1, <1>2, <1>3, <1>4 DEF Dialogue, InAgent
<1>9. InDraft(x)'
  BY <1>1, <1>2, <1>3, <1>4, <1>5 DEF Dialogue, InDraft
<1>10. InTalk(x)'
  <2> SUFFICES ASSUME NEW u \in Turns, session[u] = x, pc'[u] \in Begun
               PROVE  /\ agent'[u] = agents'[process[u]][x]
                      /\ pc'[u] = "replying" => u \in context[agents'[process[u]][x]]
                      /\ Told(x) # {} => count'[process[u]][x] = 2
    BY <1>1, <1>3 DEF InTalk
  <2>1. pc'[u] = pc[u] /\ agent'[u] = agent[u] /\ process[u] # p
    BY <1>5 DEF Begun, Active, Talking
  <2>2. process[u] \in Processes
    BY DEF TypeOK, CountsOK
  <2>3. /\ agents'[process[u]][x] = agents[process[u]][x]
        /\ count'[process[u]][x] = count[process[u]][x]
    BY <2>1, <2>2, <1>4
  <2> QED BY <2>1, <2>3, <1>2 DEF Dialogue, InTalk
<1>11. InStore(x)'
  <2>1. \A u \in Turns : session[u] = x =>
          /\ pc'[u] \in {"answered", "saving"} <=> pc[u] \in {"answered", "saving"}
          /\ pc[u] \in {"answered", "saving"} => pc'[u] = pc[u] /\ draft'[u] = draft[u]
    BY <1>6, <1>7
  <2> QED BY <2>1, <1>1, <1>2, <1>3 DEF Dialogue, InStore
<1> QED BY <1>8, <1>9, <1>10, <1>11 DEF Dialogue

LEMMA DialogueSpeak ==
  ASSUME TypeOK, Ordered, Dialogues, NEW t \in Turns, Speak(t)
  PROVE  Dialogues'
<1> USE TurnsAssumption
<1> DEFINE s == session[t]
           a == agent[t]
<1>1. StepLeaves(t)
  BY StepDoes
<1>2. /\ pc[t] \in {"fresh", "known"} /\ s \in Sessions
      /\ pc' = [pc EXCEPT ![t] = "replying"]
      /\ context' = [context EXCEPT ![a] = @ \cup {t}]
      /\ UNCHANGED <<session, process, agents, count, draft, agent, saved, frayed>>
  BY DEF Speak, Goto, Keep, turnVars, cacheVars, trackers, TypeOK, CountsOK
<1>3. pc'[t] = "replying" /\ \A u \in Turns : u # t => pc'[u] = pc[u]
  BY <1>2 DEF TypeOK
<1>4. \A u \in Turns : context[u] \subseteq context'[u] /\ (u = a => t \in context'[u])
  <2>1. context \in [Turns -> SUBSET Turns]
    BY DEF TypeOK
  <2> HIDE DEF a
  <2> QED BY <1>2, <2>1
<1> SUFFICES ASSUME NEW x \in Sessions, frayed'[x] = {} PROVE Dialogue(x)'
  BY DEF Dialogues
<1>5. frayed[x] = {} /\ Dialogue(x)
  BY <1>2 DEF Dialogues
<1>6. Told(x)' = Told(x)
  <2>1. pc'[t] # "answered"
    BY <1>3
  <2> QED BY <1>1, <2>1, ToldStep
<1>7. \A q \in Processes : agents[q][x] # NoAgent => context[agents[q][x]] \subseteq context'[agents[q][x]]
  <2>1. \A q \in Processes : agents[q][x] # NoAgent => agents[q][x] \in Turns
    BY DEF TypeOK, CountsOK
  <2> QED BY <2>1, <1>4
<1>8. CASE x # s
  BY <1>2, <1>3, <1>5, <1>6, <1>7, <1>8, DialogueKept
<1>9. CASE x = s
  <2>1. InAgent(x)'
    BY <1>2, <1>5, <1>6, <1>7 DEF Dialogue, InAgent
  <2>2. InDraft(x)'
    BY <1>2, <1>3, <1>5, <1>6 DEF Dialogue, InDraft
  <2>3. InTalk(x)'
    <3> SUFFICES ASSUME NEW u \in Turns, session[u] = x, pc'[u] \in Begun
                 PROVE  /\ agent[u] = agents[process[u]][x]
                        /\ pc'[u] = "replying" => u \in context'[agents[process[u]][x]]
                        /\ Told(x) # {} => count[process[u]][x] = 2
      BY <1>2, <1>6 DEF InTalk
    <3>1. pc[u] \in Begun
      BY <1>2, <1>3 DEF Begun
    <3>2. agents[process[u]][x] \in Turns /\ process[u] \in Processes
      BY <3>1, <1>5, AgentThere DEF InHand
    <3>3. /\ agent[u] = agents[process[u]][x]
          /\ pc[u] = "replying" => u \in context[agents[process[u]][x]]
          /\ Told(x) # {} => count[process[u]][x] = 2
      BY <3>1, <1>5 DEF Dialogue, InTalk
    <3>4. CASE u = t
      BY <3>2, <3>3, <3>4, <1>4
    <3>5. CASE u # t
      BY <3>2, <3>3, <3>5, <1>3, <1>4
    <3> QED BY <3>4, <3>5
  <2>4. InStore(x)'
    BY <1>2, <1>3, <1>5, <1>6 DEF Dialogue, InStore
  <2> QED BY <2>1, <2>2, <2>3, <2>4 DEF Dialogue
<1> QED BY <1>8, <1>9

LEMMA DialogueCall ==
  ASSUME TypeOK, Ordered, Dialogues, NEW t \in Turns,
         Order(t) \/ \E tool \in {"search", "other"} : Call(t, tool)
  PROVE  Dialogues'
<1>1. StepLeaves(t)
  BY StepDoes
<1>2. /\ pc[t] = "replying"
      /\ UNCHANGED <<pc, session, process, agents, count, context, draft, agent, saved, frayed>>
  BY DEF Order, Call, Keep, turnVars, cacheVars
<1> SUFFICES ASSUME NEW x \in Sessions, frayed'[x] = {} PROVE Dialogue(x)'
  BY DEF Dialogues
<1>3. frayed[x] = {} /\ Dialogue(x)
  BY <1>2 DEF Dialogues
<1>4. Told(x)' = Told(x)
  <2>1. pc'[t] # "answered"
    BY <1>2
  <2> QED BY <1>1, <2>1, ToldStep
<1> QED BY <1>2, <1>3, <1>4, DialogueKept

LEMMA DialogueAnswer ==
  ASSUME TypeOK, Ordered, Dialogues, NEW t \in Turns, Answer(t)
  PROVE  Dialogues'
<1> USE TurnsAssumption
<1> DEFINE s == session[t]
<1>1. StepLeaves(t)
  BY StepDoes
<1>2. /\ pc[t] \in Begun /\ s \in Sessions
      /\ pc' = [pc EXCEPT ![t] = "answered"]
      /\ UNCHANGED <<session, process, agents, count, context, draft, agent, saved, frayed>>
  BY DEF Answer, Goto, Keep, turnVars, cacheVars, trackers, Begun, TypeOK, CountsOK
<1>3. pc'[t] = "answered" /\ \A u \in Turns : u # t => pc'[u] = pc[u]
  BY <1>2 DEF TypeOK
<1> SUFFICES ASSUME NEW x \in Sessions, frayed'[x] = {} PROVE Dialogue(x)'
  BY DEF Dialogues
<1>4. frayed[x] = {} /\ Dialogue(x)
  BY <1>2 DEF Dialogues
<1>5. CASE x # s
  <2>1. Told(x)' = Told(x)
    BY <1>1, <1>5, ToldStep
  <2> QED BY <1>2, <1>3, <1>4, <1>5, <2>1, DialogueKept
<1>6. CASE x = s
  <2>1. \A u \in Turns : session[u] = x /\ pc[u] \in Talking => u = t
    BY <1>2, <1>4, <1>6 DEF Ordered, OneTalks, Talking, Begun
  <2>2. Told(x)' \subseteq Told(x) \cup {t} /\ (t \in Told(x)' => pc[t] = "replying")
    BY <1>1, <1>2, ToldStep
  <2>3. agents[process[t]][x] # NoAgent /\ process[t] \in Processes
    BY <1>2, <1>4, <1>6, AgentThere DEF InHand
  <2>4. t \in Told(x)' => t \in context[agents[process[t]][x]]
    BY <1>2, <1>4, <1>6, <2>2 DEF Dialogue, InTalk
  <2>5. InAgent(x)'
    <3>1. ASSUME NEW q \in Processes, agents[q][x] # NoAgent PROVE Told(x)' \subseteq context[agents[q][x]]
      <4>1. q = process[t]
        BY <1>4, <2>3, <3>1 DEF Dialogue, InAgent
      <4>2. Told(x) \subseteq context[agents[q][x]]
        BY <1>4, <3>1 DEF Dialogue, InAgent
      <4> QED BY <4>1, <4>2, <2>2, <2>4
    <3> QED BY <3>1, <1>2, <1>4 DEF Dialogue, InAgent
  <2>6. \A u \in Turns : session[u] = x => pc'[u] \notin Talking
    BY <1>3, <2>1 DEF Talking
  <2>7. InDraft(x)' /\ InTalk(x)'
    BY <1>2, <2>6 DEF InDraft, InTalk, Talking, Begun
  <2>8. InStore(x)'
    BY <1>2, <1>3, <1>4, <1>6 DEF Dialogue, InStore
  <2> QED BY <2>5, <2>7, <2>8 DEF Dialogue
<1> QED BY <1>5, <1>6

LEMMA DialoguePersist ==
  ASSUME TypeOK, Ordered, Dialogues, NEW t \in Turns, Persist(t)
  PROVE  Dialogues'
<1> USE TurnsAssumption
<1> DEFINE s == session[t]
           a == agents[process[t]][s]
           busy == \E u \in Of(s) : pc[u] = "saving"
<1>1. StepLeaves(t)
  BY StepDoes
<1>2. /\ pc[t] = "answered" /\ s \in Sessions /\ pc'[t] \in {"saving", "done"}
      /\ \A u \in Turns : u # t => pc'[u] = pc[u] /\ draft'[u] = draft[u] /\ agent'[u] = agent[u]
      /\ UNCHANGED <<session, process, agents, count, context, saved>>
  BY DEF Persist, End, Goto, Keep, turnVars, cacheVars, trackers, TypeOK, CountsOK
<1> SUFFICES ASSUME NEW x \in Sessions, frayed'[x] = {} PROVE Dialogue(x)'
  BY DEF Dialogues
<1>3. frayed[x] = {} /\ Dialogue(x)
  BY <1>1 DEF StepLeaves, Dialogues
<1>4. Told(x)' = Told(x)
  <2>1. pc'[t] # "answered"
    BY <1>2
  <2> QED BY <1>1, <2>1, ToldStep
<1>5. CASE x # s
  BY <1>2, <1>3, <1>4, <1>5, DialogueKept
<1>6. CASE x = s
  <2>1. a # NoAgent /\ process[t] \in Processes
    BY <1>2, <1>3, <1>6, AgentThere DEF InHand
  <2>2. /\ draft' = [draft EXCEPT ![t] = context[a]]
        /\ FrayIf(busy, s, "overlap")
        /\ pc' = [pc EXCEPT ![t] = "saving"]
        /\ agent' = agent
    BY <2>1 DEF Persist, Goto
  <2>3. pc'[t] = "saving" /\ draft'[t] = context[a]
    BY <2>2 DEF TypeOK
  <2>4. ~busy
    <3> SUFFICES ASSUME busy PROVE FALSE
      OBVIOUS
    <3>1. frayed' = [frayed EXCEPT ![s] = @ \cup {"overlap"}]
      BY <2>2 DEF FrayIf, Fray
    <3>2. "overlap" \in frayed'[s]
      BY <1>2, <3>1 DEF TypeOK
    <3> QED BY <3>2, <1>6
  <2>5. \A u \in Turns : session[u] = x => pc[u] # "saving"
    BY <1>6, <2>4 DEF Of
  <2>6. Told(x) \subseteq draft'[t]
    BY <1>3, <1>6, <2>1, <2>3 DEF Dialogue, InAgent
  <2>7. InAgent(x)'
    BY <1>2, <1>3, <1>4 DEF Dialogue, InAgent
  <2>8. InDraft(x)'
    BY <1>2, <1>3, <1>4, <2>3 DEF Dialogue, InDraft
  <2>9. InTalk(x)'
    BY <1>2, <1>3, <1>4, <2>2, <2>3 DEF Dialogue, InTalk, Begun
  <2>10. InStore(x)'
    BY <1>2, <1>4, <1>6, <2>3, <2>5, <2>6 DEF InStore
  <2> QED BY <2>7, <2>8, <2>9, <2>10 DEF Dialogue
<1> QED BY <1>5, <1>6

LEMMA DialogueSave ==
  ASSUME TypeOK, Ordered, Dialogues, NEW t \in Turns, NEW ok \in BOOLEAN, Save(t, ok)
  PROVE  Dialogues'
<1> DEFINE s == session[t]
<1>1. StepLeaves(t)
  BY StepDoes
<1>2. /\ pc[t] = "saving" /\ s \in Sessions /\ pc'[t] = "done"
      /\ saved' = IF ok THEN [saved EXCEPT ![s] = draft[t]] ELSE saved
      /\ \A u \in Turns : u # t => pc'[u] = pc[u] /\ draft'[u] = draft[u] /\ agent'[u] = agent[u]
      /\ UNCHANGED <<session, process, agents, count, context>>
  BY DEF Save, End, Goto, turnVars, cacheVars, trackers, TypeOK, CountsOK
<1>3. \A x \in Sessions : x # s => saved'[x] = saved[x]
  BY <1>2 DEF TypeOK
<1> SUFFICES ASSUME NEW x \in Sessions, frayed'[x] = {} PROVE Dialogue(x)'
  BY DEF Dialogues
<1>4. frayed[x] = {} /\ Dialogue(x)
  BY <1>1 DEF StepLeaves, Dialogues
<1>5. Told(x)' = Told(x)
  <2>1. pc'[t] # "answered"
    BY <1>2
  <2> QED BY <1>1, <2>1, ToldStep
<1>6. CASE x # s
  BY <1>2, <1>3, <1>4, <1>5, <1>6, DialogueKept
<1>7. CASE x = s
  <2>1. ok
    BY <1>2, <1>7, Frays DEF Save, Causes
  <2>2. saved'[x] = draft[t]
    BY <1>2, <1>7, <2>1 DEF TypeOK
  <2>3. \A u \in Turns : session[u] = x /\ pc[u] = "saving" => u = t
    BY <1>2, <1>4, <1>7 DEF Dialogue, InStore
  <2>4. Told(x) \subseteq draft[t] \/ \E u \in Turns : session[u] = x /\ pc[u] = "answered"
    BY <1>2, <1>4, <1>7 DEF Dialogue, InStore
  <2>5. InAgent(x)'
    BY <1>2, <1>4, <1>5 DEF Dialogue, InAgent
  <2>6. InDraft(x)'
    BY <1>2, <1>4, <1>5 DEF Dialogue, InDraft
  <2>7. InTalk(x)'
    BY <1>2, <1>4, <1>5 DEF Dialogue, InTalk, Begun
  <2>8. \A u \in Turns : session[u] = x => pc'[u] # "saving"
    BY <1>2, <2>3
  <2>9. (\E u \in Turns : session[u] = x /\ pc[u] = "answered") =>
          \E u \in Turns : session[u] = x /\ pc'[u] = "answered"
    BY <1>2
  <2>10. InStore(x)'
    BY <1>2, <1>5, <2>2, <2>4, <2>8, <2>9 DEF InStore
  <2> QED BY <2>5, <2>6, <2>7, <2>10 DEF Dialogue
<1> QED BY <1>6, <1>7

LEMMA DialoguesNext == TypeOK /\ Ordered /\ Dialogues /\ [Next]_vars => Dialogues'
<1> SUFFICES ASSUME TypeOK, Ordered, Dialogues, [Next]_vars
             PROVE  Dialogues'
  OBVIOUS
<1>1. ASSUME NEW t \in Turns, Arrive(t) PROVE Dialogues'
  BY <1>1, ArriveDoes, DialogueArrive
<1>2. ASSUME NEW t \in Turns, Install(t) PROVE Dialogues'
  BY <1>2, InstallDoes, DialogueInstall
<1>3. ASSUME NEW p \in Processes, Restart(p) PROVE Dialogues'
  BY <1>3, RestartDoes, DialogueRestart
<1>4. ASSUME NEW t \in Turns, Speak(t) \/ Answer(t) \/ Persist(t) PROVE Dialogues'
  BY <1>4, DialogueSpeak, DialogueAnswer, DialoguePersist
<1>5. ASSUME NEW t \in Turns, Order(t) \/ \E tool \in {"search", "other"} : Call(t, tool) PROVE Dialogues'
  BY <1>5, DialogueCall
<1>6. ASSUME NEW t \in Turns, NEW ok \in BOOLEAN, Load(t, ok) \/ Save(t, ok) PROVE Dialogues'
  BY <1>6, DialogueLoad, DialogueSave
<1>7. CASE UNCHANGED vars
  BY <1>7 DEF vars, turnVars, cacheVars, trackers, Dialogues, Dialogue, Told, Of,
              InAgent, InDraft, InTalk, InStore
<1> QED BY <1>1, <1>2, <1>3, <1>4, <1>5, <1>6, <1>7 DEF Next

-----------------------------------------------------------------------------
IInv ==
  /\ TypeOK /\ CountedWhileCached
  /\ Ordered /\ FirstTurns /\ Dialogues

LEMMA IInvInit == Init => IInv
<1> SUFFICES ASSUME Init PROVE IInv
  OBVIOUS
<1> USE TurnsAssumption DEF Init
<1>1. TypeOK /\ CountedWhileCached
  BY DEF TypeOK, CountsOK, CountedWhileCached, Cached
<1>2. Ordered
  <2>1. Stages /\ Builders /\ InPlace
    BY DEF Stages, Builders, InPlace, InHand, Begun
  <2>2. OneTalks /\ PriorKept
    BY DEF OneTalks, PriorKept, Talking
  <2>3. RecordsFollowAgents
    BY DEF RecordsFollowAgents, Cached
  <2> QED BY <2>1, <2>2, <2>3 DEF Ordered
<1>3. FirstTurns
  BY DEF FirstTurns, Begun
<1>4. Dialogues
  BY DEF Dialogues, Dialogue, Told, InAgent, InDraft, InTalk, InStore, Begun
<1> QED BY <1>1, <1>2, <1>3, <1>4 DEF IInv

LEMMA IInvNext == IInv /\ [Next]_vars => IInv'
BY CountsNext, TypesNext, OrderedNext, FirstTurnsNext, DialoguesNext DEF IInv, TypeOK

LEMMA Invariant == Spec => []IInv
BY IInvInit, IInvNext, PTL DEF Spec

\* In every behaviour the variables keep their types (all but lru and faults).
THEOREM TypeCorrect == Spec => []TypeOK
<1>1. IInv => TypeOK
  BY DEF IInv
<1> QED BY <1>1, Invariant, PTL

\* In every behaviour a record is kept only where its agent is, unless the
\* agent was evicted in mid-turn: forget_session leaves nothing behind.
THEOREM RecordsAreForgotten == Spec => []RecordsFollowAgents
<1>1. IInv => RecordsFollowAgents
  BY DEF IInv, Ordered
<1> QED BY <1>1, Invariant, PTL

\* In every behaviour an agent that answers has heard all that its buyer was
\* answered before, across evictions, restarts and snapshots.
THEOREM DialoguesGoOn == Spec => []SeesHistory
<1>1. IInv => SeesHistory
  <2> SUFFICES ASSUME IInv, NEW t \in Turns, pc[t] = "replying", frayed[session[t]] = {}
               PROVE  prior[t] \cap said \subseteq context[agent[t]]
    BY DEF SeesHistory, Replying, Hears, Heard
  <2> DEFINE s == session[t]
  <2>1. s \in Sessions /\ TypeOK /\ Ordered /\ Dialogue(s)
    BY DEF IInv, Dialogues, TypeOK, CountsOK
  <2>2. prior[t] = answered \cap Of(s)
    BY <2>1 DEF Ordered, PriorKept, Talking
  <2>3. agent[t] = agents[process[t]][s]
    BY <2>1 DEF Dialogue, InTalk, Begun
  <2>4. agents[process[t]][s] \in Turns /\ process[t] \in Processes
    BY <2>1, AgentThere DEF InHand, Begun
  <2>5. Told(s) \subseteq context[agent[t]]
    BY <2>1, <2>3, <2>4, TurnsAssumption DEF Dialogue, InAgent
  <2> QED BY <2>2, <2>5 DEF Told
<1> QED BY <1>1, Invariant, PTL

\* In every behaviour the confirmation check stops the first turn of a session
\* and no turn of a buyer it has heard and answered.
THEOREM RightTurnsConfirm == Spec => []ConfirmsTheRightTurns
<1>1. IInv => FirstTurnNeverOrders
  <2> SUFFICES ASSUME IInv, NEW t \in Turns, pc[t] = "replying", prior[t] = {},
                      frayed[session[t]] \cap {"overlap", "evicted"} = {}
               PROVE  count[process[t]][session[t]] = 1
    BY DEF FirstTurnNeverOrders, Replying, Confirmed
  <2>1. session[t] \in Sessions /\ "overlap" \notin frayed[session[t]] /\ "evicted" \notin frayed[session[t]]
    BY DEF IInv, TypeOK, CountsOK
  <2>2. answered \cap Of(session[t]) = {}
    BY <2>1 DEF IInv, Ordered, PriorKept, Talking
  <2> QED BY <2>1, <2>2 DEF IInv, FirstTurns, Quiet, Begun
<1>2. IInv => NoFalseRefusal
  <2> SUFFICES ASSUME IInv, NEW t \in Turns, pc[t] = "replying", prior[t] \cap said # {}, frayed[session[t]] = {}
               PROVE  count[process[t]][session[t]] # 1
    BY DEF NoFalseRefusal, Replying, Heard, Confirmed
  <2>1. session[t] \in Sessions /\ Dialogue(session[t])
    BY DEF IInv, Dialogues, TypeOK, CountsOK
  <2>2. prior[t] = answered \cap Of(session[t])
    BY <2>1 DEF IInv, Ordered, PriorKept, Talking
  <2>3. Told(session[t]) # {}
    BY <2>2 DEF Told
  <2> QED BY <2>1, <2>3 DEF Dialogue, InTalk, Begun
<1>3. IInv => ConfirmsTheRightTurns
  BY <1>1, <1>2 DEF ConfirmsTheRightTurns
<1> QED BY <1>3, Invariant, PTL
=============================================================================
