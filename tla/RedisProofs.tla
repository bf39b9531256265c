----------------------------- MODULE RedisProofs -----------------------------
(***************************************************************************)
(* Theorems about the two components that keep their state in Redis, where *)
(* replicas and workers meet: SharedBreaker, for any calls, threshold and  *)
(* cooling time, and TaskDelivery, for every set of requests, questions    *)
(* and workers, every number of slots and every number of failures.  What  *)
(* is common to both is the argument: what one of them has read is still   *)
(* so, or somebody wrote in between.                                       *)
(***************************************************************************)
EXTENDS SharedBreaker, TaskDelivery, FiniteSetTheorems, TLAPS

-----------------------------------------------------------------------------
(***************************************************************************)
(* The circuit breaker                                                     *)
(*                                                                         *)
(* Stamps: no state, in the store or held by a call that has still to      *)
(* write it, has a younger stamp than the last failure.  Undisturbed:      *)
(* until two writes meet, the store shows the failures of the streak, and  *)
(* a call that will write holds what one operation makes of the store as   *)
(* it is.  AsOne: the registry of one process is never disturbed.          *)
(***************************************************************************)
USE SharedBreakerAssumption

\* What the operators of the breaker return.
LEMMA StateOps ==
  ASSUME NEW s \in Local!State
  PROVE  /\ Local!Marked(s) \in Local!State
         /\ Local!Failed(s) \in Local!State
         /\ Local!Older(s) \in Local!State
<1>1. /\ s.failures \in 0..Threshold
      /\ s.open \in (0..Reset) \cup {Closed}
      /\ s.half \in BOOLEAN
  BY DEF Local!State
<1>2. Local!Marked(s) \in Local!State
  BY DEF Local!State, Local!Marked
<1>3. Local!Failed(s) \in Local!State
  <2>1. Local!OneMore(s.failures) \in 0..Threshold
    BY <1>1 DEF Local!OneMore
  <2>2. CASE s.half
    BY <2>2, 0 \in 0..Reset DEF Local!State, Local!Failed
  <2>3. CASE ~s.half
    <3> DEFINE n == Local!OneMore(s.failures)
               o == IF n = Threshold THEN 0 ELSE s.open
    <3>1. o \in (0..Reset) \cup {Closed}
      BY <1>1
    <3>2. Local!Failed(s) = [s EXCEPT !.failures = n, !.open = o]
      BY <2>3 DEF Local!Failed
    <3> HIDE DEF n, o
    <3> QED BY <2>1, <3>1, <3>2 DEF n, Local!State
  <2> QED BY <2>2, <2>3
<1>4. Local!Older(s) \in Local!State
  <2>1. CASE Local!Cooling(s)
    <3>1. s.open + 1 \in 0..Reset
      BY <1>1, <2>1 DEF Local!Cooling
    <3> QED BY <2>1, <3>1 DEF Local!State, Local!Older
  <2>2. CASE ~Local!Cooling(s)
    BY <2>2 DEF Local!Older
  <2> QED BY <2>1, <2>2
<1> QED BY <1>2, <1>3, <1>4

LEMMA FreshState == Local!Fresh \in Local!State
BY DEF Local!State, Local!Fresh

LEMMA ViewState == ASSUME NEW s \in Local!State \cup {Absent} PROVE View(s) \in Local!State
BY FreshState DEF View, Local!Fresh

LEMMA StreakOp == ASSUME NEW n \in 0..Threshold PROVE Local!OneMore(n) \in 0..Threshold
BY DEF Local!OneMore

-----------------------------------------------------------------------------
\* Every variable of the breaker keeps its type, through any interleaving.
LEMMA BreakerTypeInit == BreakerInit => BreakerTypeOK
<1> SUFFICES ASSUME BreakerInit PROVE BreakerTypeOK
  OBVIOUS
<1>1. held \in [Calls -> Local!State]
  BY FreshState DEF BreakerInit
<1>2. position \in [Calls -> {"idle", "marking", "running", "recording"}]
  BY DEF BreakerInit
<1>3. streak \in 0..Threshold /\ recent \in 0..Reset
  BY DEF BreakerInit
<1> QED BY <1>1, <1>2, <1>3 DEF BreakerInit, BreakerTypeOK

LEMMA ReadsOK == ASSUME BreakerTypeOK, NEW read \in Reads PROVE read \in Local!State \cup {Absent}
BY DEF BreakerTypeOK, Reads

LEMMA BreakerTypeNext == BreakerTypeOK /\ [BreakerNext]_breakerVars => BreakerTypeOK'
<1> SUFFICES ASSUME BreakerTypeOK, [BreakerNext]_breakerVars PROVE BreakerTypeOK'
  OBVIOUS
<1>0. View(store) \in Local!State
  BY ViewState DEF BreakerTypeOK
<1>1. ASSUME NEW c \in Calls, LocalAllow(c) PROVE BreakerTypeOK'
  BY <1>0, <1>1, StateOps DEF BreakerTypeOK, LocalAllow, Reach, KeepCounts
<1>2. ASSUME NEW c \in Calls, NEW read \in Reads, Allow(c, read) PROVE BreakerTypeOK'
  <2>1. read \in Local!State \cup {Absent}
    BY ReadsOK
  <2>2. CASE View(read).open = Closed
    BY <1>2, <2>2 DEF BreakerTypeOK, Allow, Reach, KeepCounts
  <2>3. CASE View(read).open # Closed
    <3>1. read \in Local!State
      BY <2>1, <2>3 DEF View
    <3>2. Local!Marked(read) \in Local!State
      BY <3>1, StateOps
    <3> QED BY <1>2, <2>3, <3>2 DEF BreakerTypeOK, Allow, Reach, KeepCounts
  <2> QED BY <2>2, <2>3
<1>3. ASSUME NEW c \in Calls, NEW lost \in BOOLEAN, Mark(c, lost) PROVE BreakerTypeOK'
  BY <1>3 DEF BreakerTypeOK, Mark, Write, Reach, KeepCounts
<1>4. ASSUME NEW c \in Calls, NEW lost \in BOOLEAN, Succeed(c, lost) PROVE BreakerTypeOK'
  BY <1>4 DEF BreakerTypeOK, Succeed, Write, Reach
<1>5. ASSUME NEW c \in Calls, NEW lost \in BOOLEAN, Record(c, lost) PROVE BreakerTypeOK'
  BY <1>5, StreakOp DEF BreakerTypeOK, Record, Write, Reach
<1>6. ASSUME NEW c \in Calls, LocalFail(c) PROVE BreakerTypeOK'
  BY <1>0, <1>6, StateOps, StreakOp DEF BreakerTypeOK, LocalFail, Reach, CountFailure
<1>7. ASSUME NEW c \in Calls, NEW read \in Reads, Fail(c, read) PROVE BreakerTypeOK'
  <2>1. View(read) \in Local!State
    BY ReadsOK, ViewState
  <2>2. Local!Failed(View(read)) \in Local!State
    BY <2>1, StateOps
  <2> QED BY <1>7, <2>2 DEF BreakerTypeOK, Fail, Reach
<1>8. ASSUME NEW c \in Calls, Abandon(c) PROVE BreakerTypeOK'
  BY <1>8 DEF BreakerTypeOK, Abandon, Reach, KeepCounts
<1>9. CASE KeyExpires
  BY <1>9 DEF BreakerTypeOK, KeyExpires, KeepCounts
<1>10. CASE Tick
  BY <1>10, StateOps DEF BreakerTypeOK, Tick
<1>11. CASE Heal
  BY <1>11 DEF BreakerTypeOK, Heal, KeepCounts
<1>12. CASE UNCHANGED breakerVars
  BY <1>12 DEF BreakerTypeOK, breakerVars
<1> QED BY <1>1, <1>2, <1>3, <1>4, <1>5, <1>6, <1>7, <1>8, <1>9, <1>10, <1>11, <1>12
        DEF BreakerNext, Begin, End

\* Every variable of the breaker keeps its type: on_tool_call, both registries.
THEOREM BreakerTypeCorrect == BreakerSpec => []BreakerTypeOK
BY BreakerTypeInit, BreakerTypeNext, PTL DEF BreakerSpec

-----------------------------------------------------------------------------
\* Every stamp, in the store or computed by a call and not written yet, is at
\* least as old as the last failure: the strengthening of RefusalsAreFresh.
Stamped(s) == s.open # Closed => s.open >= recent

Stamps == Stamped(View(store)) /\ \A c \in Calls : Stamped(held[c])

LEMMA AbsentView == View(Absent).open = Closed
BY DEF View

LEMMA MarkedOpen == ASSUME NEW s \in Local!State PROVE Local!Marked(s).open = s.open
BY DEF Local!State, Local!Marked

\* A tick moves a stamp and the age of the last failure alike.
LEMMA OlderStamp ==
  ASSUME BreakerTypeOK, recent < Reset, recent' = recent + 1,
         NEW s \in Local!State, Stamped(s)
  PROVE  Local!Older(s).open # Closed => Local!Older(s).open >= recent'
<1>1. s.open \in (0..Reset) \cup {Closed} /\ recent \in 0..Reset
  BY DEF BreakerTypeOK, Local!State
<1>2. CASE Local!Cooling(s)
  <2>1. Local!Older(s).open = s.open + 1
    BY <1>2 DEF Local!Older, Local!State
  <2> QED BY <1>1, <1>2, <2>1 DEF Stamped, Local!Cooling
<1>3. CASE ~Local!Cooling(s)
  BY <1>1, <1>3 DEF Local!Older, Local!Cooling, Stamped
<1> QED BY <1>2, <1>3

\* Right after a failure every stamp is old enough.
LEMMA RecentFailure ==
  ASSUME BreakerTypeOK', recent' = 0
  PROVE  Stamps'
<1>1. \A s \in Local!State : s.open # Closed => s.open >= 0
  BY DEF Local!State
<1>2. View(store') \in Local!State
  BY ViewState DEF BreakerTypeOK
<1> QED BY <1>1, <1>2 DEF BreakerTypeOK, Stamps, Stamped

\* A fresh store has no stamp, and every call holds a fresh state.
LEMMA StampsInit == BreakerInit => Stamps
BY AbsentView DEF BreakerInit, Stamps, Stamped, Local!Fresh

LEMMA StampsNext == BreakerTypeOK /\ BreakerTypeOK' /\ Stamps /\ [BreakerNext]_breakerVars => Stamps'
<1> SUFFICES ASSUME BreakerTypeOK, BreakerTypeOK', Stamps, [BreakerNext]_breakerVars PROVE Stamps'
  OBVIOUS
<1>0. View(store) \in Local!State /\ Stamped(View(store))
  BY ViewState DEF BreakerTypeOK, Stamps
<1>a. \A s \in Local!State : View(s) = s
  BY DEF View
<1>1. ASSUME NEW c \in Calls, LocalAllow(c) PROVE Stamps'
  <2>1. View(store') = Local!Marked(View(store)) /\ held' = held /\ recent' = recent
    BY <1>0, <1>1, <1>a, StateOps DEF LocalAllow, KeepCounts
  <2> QED BY <1>0, <2>1, MarkedOpen DEF Stamps, Stamped
<1>2. ASSUME NEW c \in Calls, NEW read \in Reads, Allow(c, read) PROVE Stamps'
  <2>1. CASE held' = held
    BY <1>2, <2>1 DEF Allow, KeepCounts, Stamps, Stamped
  <2>2. CASE held' # held
    <3>1. View(read).open # Closed /\ held' = [held EXCEPT ![c] = Local!Marked(read)]
      BY <1>2, <2>2 DEF Allow
    <3>2. read = store /\ read \in Local!State
      BY <3>1, ReadsOK, AbsentView DEF Reads
    <3>3. View(store) = read
      BY <3>2, <1>a
    <3>4. Local!Marked(read).open = read.open
      BY <3>2, MarkedOpen
    <3>5. store' = store /\ recent' = recent
      BY <1>2 DEF Allow, KeepCounts
    <3>6. ASSUME NEW d \in Calls PROVE held'[d].open # Closed => held'[d].open >= recent'
      BY <3>1, <3>3, <3>4, <3>5 DEF Stamps, Stamped, BreakerTypeOK
    <3> QED BY <3>5, <3>6 DEF Stamps, Stamped
  <2> QED BY <2>1, <2>2
<1>3. ASSUME NEW c \in Calls, NEW s \in {Absent, held[c]}, NEW lost \in BOOLEAN,
             Write(c, s, lost), held' = held, recent' = recent
      PROVE  Stamps'
  <2>1. held[c] \in Local!State
    BY DEF BreakerTypeOK
  <2>2. store' \in {store, Absent, held[c]}
    BY <1>3 DEF Write
  <2>3. View(store').open # Closed => View(store').open >= recent
    BY <1>0, <1>a, <2>1, <2>2, AbsentView DEF Stamps, Stamped
  <2> QED BY <1>3, <2>3 DEF Stamps, Stamped
<1>4. ASSUME NEW c \in Calls, NEW lost \in BOOLEAN,
             Mark(c, lost) \/ Succeed(c, lost) \/ Record(c, lost)
      PROVE  Stamps'
  BY <1>3, <1>4 DEF Mark, Succeed, Record, KeepCounts
<1>5. ASSUME NEW c \in Calls, LocalFail(c) \/ \E read \in Reads : Fail(c, read) PROVE Stamps'
  <2>1. recent' = 0
    BY <1>5 DEF LocalFail, Fail, CountFailure
  <2> QED BY <2>1, RecentFailure
<1>6. ASSUME NEW c \in Calls, Abandon(c) PROVE Stamps'
  BY <1>6 DEF Abandon, KeepCounts, Stamps, Stamped
<1>7. CASE KeyExpires
  BY <1>7, AbsentView DEF KeyExpires, KeepCounts, Stamps, Stamped
<1>8. CASE Tick
  <2>1. View(store') = Local!Older(View(store)) \/ View(store') = View(Absent)
    BY <1>8, <1>a, StateOps DEF Tick, BreakerTypeOK
  <2>2. ASSUME NEW d \in Calls
        PROVE held'[d].open # Closed => held'[d].open >= recent'
    <3>1. held[d] \in Local!State /\ Stamped(held[d]) /\ held'[d] = Local!Older(held[d])
      BY <1>8 DEF Tick, BreakerTypeOK, Stamps
    <3> QED BY <1>8, <3>1, OlderStamp DEF Tick
  <2>3. View(store').open # Closed => View(store').open >= recent'
    BY <1>0, <1>8, <2>1, OlderStamp, AbsentView DEF Tick
  <2> QED BY <2>2, <2>3 DEF Stamps, Stamped
<1>9. CASE Heal \/ UNCHANGED breakerVars
  BY <1>9 DEF Heal, KeepCounts, breakerVars, Stamps, Stamped
<1> QED BY <1>1, <1>2, <1>4, <1>5, <1>6, <1>7, <1>8, <1>9 DEF BreakerNext, Begin, End

\* A tool is refused only within reset_seconds of a failure of its own, through
\* overlapping and lost writes, expiry and cancellation.
THEOREM NoStaleRefusal == BreakerSpec => []RefusalsAreFresh
<1>1. BreakerTypeOK /\ Stamps => RefusalsAreFresh
  <2>1. ASSUME BreakerTypeOK, Stamps, Local!Cooling(View(store)) PROVE recent < Reset
    <3>1. View(store).open \in (0..Reset) \cup {Closed} /\ recent \in 0..Reset
      BY <2>1, ViewState DEF BreakerTypeOK, Local!State
    <3> QED BY <2>1, <3>1 DEF Stamps, Stamped, Local!Cooling
  <2> QED BY <2>1 DEF RefusalsAreFresh
<1> QED BY <1>1, BreakerTypeInit, BreakerTypeNext, StampsInit, StampsNext, PTL DEF BreakerSpec

-----------------------------------------------------------------------------
\* A state that shows n failures recorded since the last success.
Shows(s, n) ==
  /\ s.failures = n
  /\ s.open # Closed <=> n = Threshold
  /\ s.half => s.open # Closed

\* A write that c prepared from what the store still holds.
Prepared(c) ==
  /\ position[c] = "recording" => held[c] = Local!Failed(View(store))
  /\ position[c] = "marking" =>
       /\ store # Absent /\ store.open # Closed /\ ~Local!Cooling(store)
       /\ held[c] = Local!Marked(store)

\* What holds until a write of the shared registry meets another one's: the
\* strengthening of OpensOnStreak and of the refinement.
Undisturbed == ~disturbed => Shows(View(store), streak) /\ \A c \in current : Prepared(c)

\* The registry of a single process has no await to be disturbed at.
AsOne == ~shared => ~disturbed /\ \A c \in Calls : position[c] \in {"idle", "running"}

\* Each operation of the breaker counts as it should.
LEMMA ShowsOps ==
  ASSUME NEW s \in Local!State, NEW n \in 0..Threshold, Shows(s, n)
  PROVE  /\ Shows(Local!Marked(s), n)
         /\ Shows(Local!Failed(s), Local!OneMore(n))
         /\ Shows(Local!Older(s), n)
<1>1. /\ s.failures = n
      /\ s.open \in (0..Reset) \cup {Closed}
      /\ s.half \in BOOLEAN
  BY DEF Local!State, Shows
<1>2. Shows(Local!Marked(s), n)
  BY DEF Local!Marked, Shows, Local!State
<1>3. Shows(Local!Failed(s), Local!OneMore(n))
  <2>1. CASE s.half
    <3>1. n = Threshold /\ Local!OneMore(n) = n
      BY <2>1 DEF Shows, Local!OneMore
    <3>2. /\ Local!Failed(s).failures = n
          /\ Local!Failed(s).open = 0
          /\ Local!Failed(s).half = FALSE
      BY <1>1, <2>1 DEF Local!Failed, Local!State
    <3> QED BY <3>1, <3>2 DEF Shows
  <2>2. CASE ~s.half
    <3> DEFINE m == Local!OneMore(n)
               o == IF m = Threshold THEN 0 ELSE s.open
    <3>1. Local!Failed(s) = [s EXCEPT !.failures = m, !.open = o]
      BY <1>1, <2>2 DEF Local!Failed
    <3>2. m = Threshold \/ n # Threshold
      BY DEF Local!OneMore
    <3>3. o # Closed <=> m = Threshold
      BY <3>2 DEF Shows
    <3> HIDE DEF m, o
    <3>4. /\ Local!Failed(s).failures = m
          /\ Local!Failed(s).open = o
          /\ Local!Failed(s).half = s.half
      BY <3>1 DEF Local!State
    <3>5. Shows(Local!Failed(s), m)
      BY <2>2, <3>3, <3>4 DEF Shows
    <3> QED BY <3>5 DEF m
  <2> QED BY <2>1, <2>2
<1>4. Shows(Local!Older(s), n)
  <2>1. CASE Local!Cooling(s)
    <3>1. s.open + 1 # Closed
      BY <1>1, <2>1 DEF Local!Cooling
    <3> QED BY <2>1, <3>1 DEF Local!Older, Local!Cooling, Shows, Local!State
  <2>2. CASE ~Local!Cooling(s)
    BY <2>2 DEF Local!Older
  <2> QED BY <2>1, <2>2
<1> QED BY <1>2, <1>3, <1>4

LEMMA ShowsFresh == Shows(View(Absent), 0) /\ View(Absent) = Local!Fresh
BY DEF Shows, View, Local!Fresh

LEMMA AsOneNext == AsOne /\ BreakerTypeOK /\ [BreakerNext]_breakerVars => AsOne'
<1> SUFFICES ASSUME AsOne, BreakerTypeOK, [BreakerNext]_breakerVars PROVE AsOne'
  OBVIOUS
<1>1. ASSUME NEW c \in Calls, NEW lost \in BOOLEAN, Mark(c, lost) \/ Succeed(c, lost) \/ Record(c, lost)
      PROVE  AsOne'
  BY <1>1 DEF AsOne, BreakerTypeOK, Mark, Succeed, Record, Write, Reach
<1>2. ASSUME NEW c \in Calls, LocalAllow(c) \/ LocalFail(c) \/ Abandon(c) PROVE AsOne'
  BY <1>2 DEF AsOne, BreakerTypeOK, LocalAllow, LocalFail, Abandon, Reach
<1>3. ASSUME NEW c \in Calls, NEW read, Allow(c, read) \/ Fail(c, read) PROVE AsOne'
  BY <1>3 DEF AsOne, Allow, Fail
<1>4. CASE KeyExpires \/ Tick \/ Heal \/ UNCHANGED breakerVars
  BY <1>4 DEF AsOne, KeyExpires, Tick, Heal, breakerVars
<1> QED BY <1>1, <1>2, <1>3, <1>4 DEF BreakerNext, Begin, End

LEMMA UndisturbedNext == AsOne /\ BreakerTypeOK /\ Undisturbed /\ [BreakerNext]_breakerVars => Undisturbed'
<1> SUFFICES ASSUME AsOne, BreakerTypeOK, Undisturbed, [BreakerNext]_breakerVars, ~disturbed'
             PROVE  Shows(View(store)', streak') /\ \A d \in current' : Prepared(d)'
  BY DEF Undisturbed
<1> DEFINE Goal == Shows(View(store'), streak') /\ \A d \in current' : Prepared(d)'
<1>0. ~disturbed /\ View(store) \in Local!State /\ streak \in 0..Threshold
  BY ViewState DEF BreakerTypeOK, BreakerNext, Begin, End, breakerVars, LocalAllow, Allow, Mark, Succeed, Record,
                   LocalFail, Fail, Abandon, KeyExpires, Tick, Heal
<1>a. \A s \in Local!State : View(s) = s
  BY DEF View
<1>b. Shows(View(store), streak) /\ \A d \in current : d \in Calls /\ Prepared(d)
  BY <1>0 DEF Undisturbed, BreakerTypeOK
<1>1. ASSUME NEW c \in Calls, LocalAllow(c) PROVE Goal
  <2>1. View(store') = Local!Marked(View(store)) /\ streak' = streak /\ current' = current
    BY <1>0, <1>1, <1>a, StateOps DEF LocalAllow, KeepCounts
  <2>2. \A d \in Calls : position'[d] \in {"idle", "running"}
    BY <1>1 DEF LocalAllow, Reach, AsOne, BreakerTypeOK
  <2> QED BY <1>0, <1>b, <2>1, <2>2, ShowsOps DEF Prepared
<1>2. ASSUME NEW c \in Calls, NEW read \in Reads, Allow(c, read) PROVE Goal
  <2>1. read = store /\ UNCHANGED <<store, streak>>
    BY <1>2 DEF Allow, KeepCounts
  <2>2. \A d \in Calls : d # c => position'[d] = position[d] /\ held'[d] = held[d]
    BY <1>2 DEF Allow, Reach, BreakerTypeOK
  <2>3. \A d \in current' : d # c => Prepared(d)'
    BY <1>2, <1>b, <2>1, <2>2 DEF Allow, Prepared
  <2>4. Prepared(c)'
    <3>1. CASE View(read).open = Closed
      BY <1>2, <3>1 DEF Allow, Reach, BreakerTypeOK, Prepared
    <3>2. CASE View(read).open # Closed
      <4>1. position'[c] = "marking" /\ held'[c] = Local!Marked(store)
        BY <1>2, <2>1, <3>2 DEF Allow, Reach, BreakerTypeOK
      <4>2. store # Absent /\ View(store) = store
        BY <2>1, <3>2 DEF View
      <4>3. ~Local!Cooling(store) /\ store.open # Closed
        BY <1>2, <2>1, <3>2, <4>2 DEF Allow
      <4> QED BY <2>1, <4>1, <4>2, <4>3 DEF Prepared
    <3> QED BY <3>1, <3>2
  <2> QED BY <1>b, <2>1, <2>3, <2>4
<1>3. ASSUME NEW c \in Calls, NEW s, NEW lost \in BOOLEAN, Write(c, s, lost), ~lost
      PROVE  store' = s /\ current' = {}
  BY <1>3 DEF Write
<1>4. ASSUME NEW c \in Calls, NEW lost \in BOOLEAN, Mark(c, lost) PROVE Goal
  <2>1. store' = held[c] /\ current' = {} /\ streak' = streak /\ c \in current /\ position[c] = "marking"
    BY <1>3, <1>4 DEF Mark, KeepCounts
  <2>2. store # Absent /\ held[c] = Local!Marked(store)
    BY <1>b, <2>1 DEF Prepared
  <2>3. View(store) = store /\ View(store') = Local!Marked(View(store))
    BY <2>1, <2>2, <1>0, <1>a, StateOps DEF BreakerTypeOK
  <2> QED BY <1>0, <1>b, <2>1, <2>3, ShowsOps
<1>5. ASSUME NEW c \in Calls, NEW lost \in BOOLEAN, Succeed(c, lost) PROVE Goal
  <2>1. store' = Absent /\ current' = {} /\ streak' = 0
    BY <1>3, <1>5 DEF Succeed
  <2> QED BY <2>1, ShowsFresh
<1>6. ASSUME NEW c \in Calls, NEW lost \in BOOLEAN, Record(c, lost) PROVE Goal
  <2>1. store' = held[c] /\ current' = {} /\ streak' = Local!OneMore(streak) /\ c \in current /\ position[c] = "recording"
    BY <1>3, <1>6 DEF Record
  <2>2. held[c] = Local!Failed(View(store))
    BY <1>b, <2>1 DEF Prepared
  <2>3. View(store') = Local!Failed(View(store))
    BY <2>1, <2>2, <1>0, <1>a, StateOps
  <2> QED BY <1>0, <1>b, <2>1, <2>3, ShowsOps
<1>7. ASSUME NEW c \in Calls, LocalFail(c) PROVE Goal
  <2>1. /\ View(store') = Local!Failed(View(store)) /\ streak' = Local!OneMore(streak)
        /\ current' = current
    BY <1>0, <1>7, <1>a, StateOps DEF LocalFail, CountFailure
  <2>2. \A d \in Calls : position'[d] \in {"idle", "running"}
    BY <1>7 DEF LocalFail, Reach, AsOne, BreakerTypeOK
  <2> QED BY <1>0, <1>b, <2>1, <2>2, ShowsOps DEF Prepared
<1>8. ASSUME NEW c \in Calls, NEW read \in Reads, Fail(c, read) PROVE Goal
  <2>1. read = store /\ UNCHANGED <<store, streak>>
    BY <1>8 DEF Fail
  <2>2. \A d \in Calls : d # c => position'[d] = position[d] /\ held'[d] = held[d]
    BY <1>8 DEF Fail, Reach, BreakerTypeOK
  <2>3. \A d \in current' : d # c => Prepared(d)'
    BY <1>8, <1>b, <2>1, <2>2 DEF Fail, Prepared
  <2>4. position'[c] = "recording" /\ held'[c] = Local!Failed(View(store))
    BY <1>8, <2>1 DEF Fail, Reach, BreakerTypeOK
  <2>5. Prepared(c)'
    BY <2>1, <2>4 DEF Prepared
  <2> QED BY <1>b, <2>1, <2>3, <2>5
<1>9. ASSUME NEW c \in Calls, Abandon(c) PROVE Goal
  <2>1. UNCHANGED <<store, streak, held>> /\ current' = current \ {c}
    BY <1>9 DEF Abandon, KeepCounts
  <2>2. \A d \in current' : position'[d] = position[d]
    BY <1>9, <2>1, <1>b DEF Abandon, Reach, BreakerTypeOK
  <2> QED BY <1>b, <2>1, <2>2 DEF Prepared
<1>10. CASE Tick
  <2>1. /\ store' = IF store = Absent THEN Absent ELSE Local!Older(store)
        /\ held' = [d \in Calls |-> Local!Older(held[d])]
        /\ current' = {d \in current : position[d] # "recording"}
        /\ UNCHANGED <<position, streak>>
    BY <1>10 DEF Tick
  <2>2. View(store') = Local!Older(View(store))
    <3>1. CASE store = Absent
      BY <2>1, <3>1, ShowsFresh DEF Local!Fresh, Local!Older, Local!Cooling
    <3>2. CASE store # Absent
      BY <2>1, <3>2, <1>0, <1>a, StateOps DEF BreakerTypeOK
    <3> QED BY <3>1, <3>2
  <2>3. ASSUME NEW d \in current' PROVE Prepared(d)'
    <3>1. d \in current /\ d \in Calls /\ position'[d] # "recording"
      BY <2>1, <2>3, <1>b
    <3>2. CASE position'[d] # "marking"
      BY <3>1, <3>2 DEF Prepared
    <3>3. CASE position'[d] = "marking"
      <4>1. store # Absent /\ store.open # Closed /\ ~Local!Cooling(store) /\ held[d] = Local!Marked(store)
        BY <3>1, <3>3, <2>1, <1>b DEF Prepared
      <4>2. store' = store
        BY <2>1, <4>1 DEF Local!Older
      <4>3. Local!Marked(store).open = store.open
        BY <4>1, MarkedOpen DEF BreakerTypeOK
      <4>4. held'[d] = held[d]
        BY <2>1, <3>1, <4>1, <4>3 DEF Local!Older, Local!Cooling
      <4> QED BY <3>1, <4>1, <4>2, <4>4 DEF Prepared
    <3> QED BY <3>2, <3>3
  <2> QED BY <1>0, <1>b, <2>1, <2>2, <2>3, ShowsOps
<1>11. CASE Heal \/ UNCHANGED breakerVars
  BY <1>11, <1>b DEF Heal, KeepCounts, breakerVars, Prepared
<1>12. CASE KeyExpires
  BY <1>12 DEF KeyExpires
<1> QED BY <1>1, <1>2, <1>4, <1>5, <1>6, <1>7, <1>8, <1>9, <1>10, <1>11, <1>12 DEF BreakerNext, Begin, End

-----------------------------------------------------------------------------
\* How a step moves the calls that the other registry knows of.
LEMMA RunningMoves ==
  ASSUME BreakerTypeOK, NEW c \in Calls, NEW l \in {"idle", "marking", "running", "recording"}, Reach(c, l)
  PROVE  Running' = IF l \in {"running", "recording"} THEN Running \cup {c} ELSE Running \ {c}
<1>1. \A d \in Calls : position'[d] = IF d = c THEN l ELSE position[d]
  BY DEF Reach, BreakerTypeOK
<1> QED BY <1>1 DEF Running

\* Every step that disturbs nothing is one of the single process's registry,
\* or none: GET and SET together are its operation.
LEMMA StepIsLocal ==
  AsOne /\ BreakerTypeOK /\ Undisturbed /\ [BreakerNext]_breakerVars /\ ~disturbed' => [Local!Next]_<<View(store), Running>>
<1> SUFFICES ASSUME AsOne, BreakerTypeOK, Undisturbed, [BreakerNext]_breakerVars, ~disturbed'
             PROVE  Local!Next \/ UNCHANGED <<View(store), Running>>
  OBVIOUS
<1> DEFINE Goal == Local!Next \/ (View(store') = View(store) /\ Running' = Running)
<1>0. ~disturbed /\ View(store) \in Local!State
  BY ViewState DEF BreakerTypeOK, BreakerNext, Begin, End, breakerVars, LocalAllow, Allow, Mark, Succeed, Record,
                   LocalFail, Fail, Abandon, KeyExpires, Tick, Heal
<1>a. \A s \in Local!State : View(s) = s
  BY DEF View
<1>b. \A d \in current : d \in Calls /\ Prepared(d)
  BY <1>0 DEF Undisturbed, BreakerTypeOK
<1>c. \A d \in Calls : d \in Running <=> position[d] \in {"running", "recording"}
  BY DEF Running
<1>1. ASSUME NEW c \in Calls, LocalAllow(c) PROVE Goal
  <2>1. View(store') = Local!Marked(View(store)) /\ ~Local!Cooling(View(store))
    BY <1>0, <1>1, <1>a, StateOps DEF LocalAllow
  <2>2. Running' = Running \cup {c} /\ c \notin Running
    BY <1>1, <1>c, RunningMoves DEF LocalAllow
  <2> QED BY <2>1, <2>2 DEF Local!Next, Local!Admit
<1>2. ASSUME NEW c \in Calls, NEW read \in Reads, Allow(c, read) PROVE Goal
  <2>1. read = store /\ store' = store /\ position[c] = "idle" /\ ~Local!Cooling(View(store)) /\ c \notin Running
    BY <1>2, <1>c DEF Allow
  <2>2. CASE View(read).open = Closed
    <3>1. Running' = Running \cup {c} /\ View(store') = Local!Marked(View(store))
      BY <1>2, <2>1, <2>2, RunningMoves DEF Allow, Local!Marked
    <3> QED BY <2>1, <3>1 DEF Local!Next, Local!Admit
  <2>3. CASE View(read).open # Closed
    <3>1. Running' = Running
      BY <1>2, <2>1, <2>3, RunningMoves DEF Allow
    <3> QED BY <2>1, <3>1
  <2> QED BY <2>2, <2>3
<1>3. ASSUME NEW c \in Calls, NEW lost \in BOOLEAN, Mark(c, lost) PROVE Goal
  <2>1. store' = held[c] /\ c \in current /\ position[c] = "marking" /\ c \notin Running
    BY <1>3, <1>c DEF Mark, Write
  <2>2. store # Absent /\ ~Local!Cooling(store) /\ held[c] = Local!Marked(store)
    BY <1>b, <2>1 DEF Prepared
  <2>3. View(store) = store /\ View(store') = Local!Marked(View(store))
    BY <2>1, <2>2, <1>a, StateOps DEF BreakerTypeOK
  <2>4. Running' = Running \cup {c}
    BY <1>3, RunningMoves DEF Mark
  <2> QED BY <2>1, <2>2, <2>3, <2>4 DEF Local!Next, Local!Admit
<1>4. ASSUME NEW c \in Calls, NEW lost \in BOOLEAN, Succeed(c, lost) PROVE Goal
  <2>1. View(store') = Local!Fresh /\ c \in Running
    BY <1>4, <1>c, ShowsFresh DEF Succeed, Write
  <2>2. Running' = Running \ {c}
    BY <1>4, RunningMoves DEF Succeed
  <2> QED BY <2>1, <2>2 DEF Local!Next, Local!Succeed
<1>5. ASSUME NEW c \in Calls, NEW lost \in BOOLEAN, Record(c, lost) PROVE Goal
  <2>1. store' = held[c] /\ c \in current /\ position[c] = "recording" /\ c \in Running
    BY <1>5, <1>c DEF Record, Write
  <2>2. View(store') = Local!Failed(View(store))
    BY <2>1, <1>0, <1>a, <1>b, StateOps DEF Prepared
  <2>3. Running' = Running \ {c}
    BY <1>5, RunningMoves DEF Record
  <2> QED BY <2>1, <2>2, <2>3 DEF Local!Next, Local!Fail
<1>6. ASSUME NEW c \in Calls, LocalFail(c) PROVE Goal
  <2>1. View(store') = Local!Failed(View(store)) /\ c \in Running
    BY <1>0, <1>6, <1>a, <1>c, StateOps DEF LocalFail
  <2>2. Running' = Running \ {c}
    BY <1>6, RunningMoves DEF LocalFail
  <2> QED BY <2>1, <2>2 DEF Local!Next, Local!Fail
<1>7. ASSUME NEW c \in Calls, NEW read \in Reads, Fail(c, read) PROVE Goal
  <2>1. store' = store /\ c \in Running
    BY <1>7, <1>c DEF Fail
  <2>2. Running' = Running \cup {c}
    BY <1>7, RunningMoves DEF Fail
  <2> QED BY <2>1, <2>2
<1>8. ASSUME NEW c \in Calls, Abandon(c) PROVE Goal
  <2>1. store' = store /\ Running' = Running \ {c}
    BY <1>8, RunningMoves DEF Abandon
  <2>2. CASE c \in Running
    BY <2>1, <2>2 DEF Local!Next, Local!Abandon
  <2>3. CASE c \notin Running
    BY <2>1, <2>3
  <2> QED BY <2>2, <2>3
<1>9. CASE Tick
  <2>1. Running' = Running
    BY <1>9 DEF Tick, Running
  <2>2. View(store') = Local!Older(View(store))
    <3>1. CASE store = Absent
      BY <1>9, <3>1, ShowsFresh DEF Tick, Local!Fresh, Local!Older, Local!Cooling
    <3>2. CASE store # Absent
      BY <1>9, <3>2, <1>0, <1>a, StateOps DEF Tick, BreakerTypeOK
    <3> QED BY <3>1, <3>2
  <2>3. CASE Local!Cooling(View(store))
    BY <2>1, <2>2, <2>3 DEF Local!Next, Local!Tick
  <2>4. CASE ~Local!Cooling(View(store))
    BY <2>1, <2>2, <2>4 DEF Local!Older
  <2> QED BY <2>3, <2>4
<1>10. CASE Heal \/ UNCHANGED breakerVars
  BY <1>10 DEF Heal, KeepCounts, breakerVars, Running
<1>11. CASE KeyExpires
  BY <1>11 DEF KeyExpires
<1> QED BY <1>1, <1>2, <1>3, <1>4, <1>5, <1>6, <1>7, <1>8, <1>9, <1>10, <1>11 DEF BreakerNext, Begin, End

-----------------------------------------------------------------------------
BreakerIInv == BreakerTypeOK /\ Undisturbed /\ AsOne

LEMMA BreakerInvariant == BreakerSpec => []BreakerIInv
<1>1. BreakerInit => BreakerIInv
  BY BreakerTypeInit, ShowsFresh DEF BreakerInit, BreakerIInv, Undisturbed, AsOne
<1>2. BreakerIInv /\ [BreakerNext]_breakerVars => BreakerIInv'
  BY BreakerTypeNext, UndisturbedNext, AsOneNext DEF BreakerIInv
<1> QED BY <1>1, <1>2, PTL DEF BreakerSpec

\* In every behaviour the breaker is open exactly after Threshold failures in a
\* row, until a write of the shared registry meets another one's.
THEOREM OpenAfterStreak == BreakerSpec => []OpensOnStreak
<1>1. BreakerIInv => OpensOnStreak
  BY DEF BreakerIInv, Undisturbed, Shows, OpensOnStreak
<1> QED BY <1>1, BreakerInvariant, PTL

\* Until then, each step of the shared registry is a step of the registry of a
\* single process, or none.
THEOREM StepsLikeLocal == BreakerSpec => ImplementsLocal
<1>1. BreakerIInv /\ [BreakerNext]_breakerVars => [Local!Next \/ disturbed']_<<View(store), Running>>
  BY StepIsLocal DEF BreakerIInv
<1> QED BY <1>1, BreakerInvariant, PTL DEF BreakerSpec, ImplementsLocal

\* An undisturbed breaker of either registry implements CircuitBreaker, and the
\* one of a single process always does.
THEOREM RefinesLocal == BreakerSpec /\ ([]~disturbed \/ ~shared) => Local!Spec
<1>1. BreakerInit => Local!Init
  BY ShowsFresh DEF BreakerInit, Local!Init, Running
<1>2. BreakerIInv /\ [BreakerNext]_breakerVars /\ ~disturbed' => [Local!Next]_(Local!vars)
  BY StepIsLocal DEF BreakerIInv, Local!vars
<1>3. [BreakerNext]_breakerVars /\ ~shared => ~shared'
  BY DEF BreakerNext, Begin, End, breakerVars, LocalAllow, Allow, Mark, Succeed, Record, LocalFail, Fail, Abandon,
         KeyExpires, Tick, Heal
<1>4. BreakerIInv /\ ~shared => ~disturbed
  BY DEF BreakerIInv, AsOne
<1> QED BY <1>1, <1>2, <1>3, <1>4, BreakerInvariant, PTL DEF BreakerSpec, Local!Spec

-----------------------------------------------------------------------------
(***************************************************************************)
(* Task delivery                                                           *)
(*                                                                         *)
(* Cursor: no entry number lies beyond the end of its stream, nor does a   *)
(* group cursor; so a new entry is unread.  Keyed: as long as its key has  *)
(* not lapsed, whoever may enqueue a fingerprint, or has, holds the key;   *)
(* two holders would be the same request.                                  *)
(*                                                                         *)
(* Told: a job that has begun has left a status, one about to be acked     *)
(* left "done".  Waits: the task a request waits for is the one its key    *)
(* names, until the key lapses; Lasting keeps the reason of a mix-up once  *)
(* it is one.  Entries: no two tasks share an entry, so that a batch over  *)
(* both streams is bounded by its COUNT for each (BatchSize).              *)
(***************************************************************************)
HIDE SharedBreakerAssumption
USE TaskDeliveryAssumption

Known == \A r \in Requests : pc[r] # "idle" \/ id[r] # 0 => fp[r] \in Fingerprints

Cursor ==
  /\ \A l \in Lanes : last[l] <= length[l]
  /\ \A t \in Requests : id[t] <= length[lane[t]]
  /\ \A r \in Requests : pc[r] \in {"idle", "looking", "keyed"} => id[r] = 0

Keyed ==
  \A r \in Requests : fp[r] \notin lapsed =>
    /\ pc[r] = "keyed" \/ id[r] # 0 => idem[fp[r]] = r
    /\ pc[r] = "looking" => idem[fp[r]] # NoTask

TypeInv == TypeOK /\ Known /\ \A r \in Requests : pc[r] = "waiting" => task[r] \in Requests
IInv == TypeInv /\ Cursor /\ Keyed /\ HandedOutOnce

LEMMA InitIInv == Init => IInv
BY DEF Init, IInv, TypeInv, TypeOK, Known, Cursor, Keyed, HandedOutOnce, Lanes,
       Asking, Statuses, InHand

-----------------------------------------------------------------------------
(***************************************************************************)
(* Types                                                                   *)
(***************************************************************************)
LEMMA StepTypeInv == TypeInv /\ [Next]_vars => TypeInv'
<1> SUFFICES ASSUME TypeInv, [Next]_vars
             PROVE  TypeInv'
  OBVIOUS
<1> USE DEF TypeInv, TypeOK, Known, Asking, Statuses, InHand, Goto, Become, Leave,
            SetStatus, Fault, Return, Proceed, api, streams, redis, work
<1>1. ASSUME NEW r \in Requests, NEW f \in Fingerprints,
             Acquire(r, f) \/ AcquireBlind(r, f)
      PROVE  TypeInv'
  BY <1>1 DEF Acquire, AcquireBlind
<1>2. ASSUME NEW r \in Requests, Reuse(r)
      PROVE  TypeInv'
  BY <1>2 DEF Reuse
<1>3. ASSUME NEW r \in Requests, ReuseMisses(r) \/ ReuseBlind(r)
      PROVE  TypeInv'
  BY <1>3 DEF ReuseMisses, ReuseBlind
<1>4. ASSUME NEW r \in Requests, NEW l \in Lanes, Enqueue(r, l)
      PROVE  TypeInv'
  BY <1>4 DEF Enqueue, Lanes
<1>5. ASSUME NEW r \in Requests, MarkQueued(r)
      PROVE  TypeInv'
  BY <1>5 DEF MarkQueued
<1>6. ASSUME NEW r \in Requests,
             RequestFails(r) \/ PollDone(r) \/ PollFailed(r) \/ GiveUp(r)
      PROVE  TypeInv'
  BY <1>6 DEF RequestFails, PollDone, PollFailed, GiveUp
<1>7. ASSUME NEW t \in Requests, Deliver(t)
      PROVE  TypeInv'
  BY <1>7 DEF Deliver, Listeners
<1>8. ASSUME NEW t \in Requests, Start(t) \/ TurnEnds(t) \/ WriteDone(t) \/ Ack(t)
      PROVE  TypeInv'
  BY <1>8 DEF Start, TurnEnds, WriteDone, Ack
<1>9. ASSUME NEW t \in Requests, HandlerFails(t)
      PROVE  TypeInv'
  BY <1>9 DEF HandlerFails
<1>10. ASSUME NEW w \in Workers, NEW n \in 1..Concurrency, Fetch(w, n)
       PROVE  TypeInv'
  <2>1. last' \in [Lanes -> Nat]
    BY <1>10 DEF Fetch, Advance
  <2>2. deliveries' \in [Requests -> Nat]
    BY <1>10 DEF Fetch
  <2>3. QED
    BY <1>10, <2>1, <2>2 DEF Fetch
<1>11. ASSUME NEW w \in Workers, Crash(w)
       PROVE  TypeInv'
  BY <1>11 DEF Crash
<1>12. ASSUME NEW f \in Fingerprints, Expire(f)
       PROVE  TypeInv'
  BY <1>12 DEF Expire
<1>13. CASE ApiRestart
  BY <1>13 DEF ApiRestart
<1>14. CASE UNCHANGED vars
  BY <1>14 DEF vars
<1>15. QED
  BY <1>1, <1>2, <1>3, <1>4, <1>5, <1>6, <1>7, <1>8, <1>9, <1>10, <1>11, <1>12,
     <1>13, <1>14 DEF Next, Request, Job, Worker

\* Every variable keeps its type.
THEOREM TypeCorrect == Spec => []TypeOK
<1>1. Init => TypeInv
  BY InitIInv DEF IInv
<1>2. Spec => []TypeInv
  BY <1>1, StepTypeInv, PTL DEF Spec
<1>3. QED
  BY <1>2, PTL DEF TypeInv

-----------------------------------------------------------------------------
(***************************************************************************)
(* The cursors                                                             *)
(***************************************************************************)
LEMMA StepCursor == TypeInv /\ Cursor /\ [Next]_vars => Cursor'
<1> SUFFICES ASSUME TypeInv, Cursor, [Next]_vars
             PROVE  Cursor'
  OBVIOUS
<1> USE DEF TypeInv, TypeOK, Cursor, Asking, Goto, Return, Proceed, Fault,
            api, streams, redis, work
<1>1. ASSUME NEW r \in Requests, NEW l \in Lanes, Enqueue(r, l)
      PROVE  Cursor'
  BY <1>1 DEF Enqueue
<1>2. ASSUME NEW r \in Requests,
             \/ \E f \in Fingerprints : Acquire(r, f) \/ AcquireBlind(r, f)
             \/ Reuse(r) \/ ReuseMisses(r) \/ ReuseBlind(r) \/ MarkQueued(r)
             \/ RequestFails(r) \/ PollDone(r) \/ PollFailed(r) \/ GiveUp(r)
      PROVE  Cursor'
  <2>1. UNCHANGED <<lane, id, length, last>>
    BY <1>2 DEF Acquire, AcquireBlind, Reuse, ReuseMisses, ReuseBlind, MarkQueued,
                RequestFails, PollDone, PollFailed, GiveUp
  <2>2. \A q \in Requests : pc'[q] \in {"idle", "looking", "keyed"}
                              => pc[q] \in {"idle", "looking", "keyed"}
    BY <1>2 DEF Acquire, AcquireBlind, Reuse, ReuseMisses, ReuseBlind, MarkQueued,
                RequestFails, PollDone, PollFailed, GiveUp
  <2>3. QED
    BY <2>1, <2>2
<1>3. ASSUME NEW t \in Requests, Deliver(t)
      PROVE  Cursor'
  BY <1>3 DEF Deliver
<1>4. ASSUME NEW t \in Requests,
             \/ Start(t) \/ TurnEnds(t) \/ WriteDone(t) \/ Ack(t) \/ HandlerFails(t)
      PROVE  Cursor'
  BY <1>4 DEF Start, TurnEnds, WriteDone, Ack, HandlerFails
<1>5. ASSUME NEW w \in Workers, NEW n \in 1..Concurrency, Fetch(w, n)
      PROVE  Cursor'
  BY <1>5 DEF Fetch, Advance
<1>6. ASSUME NEW w \in Workers, Crash(w)
      PROVE  Cursor'
  BY <1>6 DEF Crash
<1>7. ASSUME NEW f \in Fingerprints, Expire(f)
      PROVE  Cursor'
  BY <1>7 DEF Expire
<1>8. CASE ApiRestart
  BY <1>8 DEF ApiRestart
<1>9. CASE UNCHANGED vars
  BY <1>9 DEF vars
<1>10. QED
  BY <1>1, <1>2, <1>3, <1>4, <1>5, <1>6, <1>7, <1>8, <1>9 DEF Next, Request, Job, Worker

LEMMA StepHandedOut ==
  TypeInv /\ Cursor /\ HandedOutOnce /\ [Next]_vars => HandedOutOnce'
<1> SUFFICES ASSUME TypeInv, Cursor, HandedOutOnce, [Next]_vars
             PROVE  HandedOutOnce'
  OBVIOUS
<1> USE DEF TypeInv, TypeOK, Cursor, HandedOutOnce, InHand, Goto, Return, Proceed,
            Become, Leave, Fault, api, streams, redis, work
<1>1. ASSUME NEW r \in Requests, NEW l \in Lanes, Enqueue(r, l)
      PROVE  HandedOutOnce'
  <2>1. id'[r] = length[l] + 1 /\ lane'[r] = l /\ last'[l] <= length[l] /\ id'[r] > last'[l]
    BY <1>1 DEF Enqueue
  <2>2. deliveries'[r] = 0 /\ job'[r] = "none"
    BY <1>1 DEF Enqueue
  <2>3. \A t \in Requests \ {r} :
          UNCHANGED <<id[t], lane[t], deliveries[t], job[t], last[lane[t]]>>
    BY <1>1 DEF Enqueue
  <2>4. lane' \in [Requests -> Lanes] /\ UNCHANGED <<last, deliveries, job>>
    BY <1>1 DEF Enqueue
  <2>5. QED
    BY <2>1, <2>2, <2>3, <2>4
<1>2. ASSUME NEW r \in Requests,
             \/ \E f \in Fingerprints : Acquire(r, f) \/ AcquireBlind(r, f)
             \/ Reuse(r) \/ ReuseMisses(r) \/ ReuseBlind(r) \/ MarkQueued(r)
             \/ RequestFails(r) \/ PollDone(r) \/ PollFailed(r) \/ GiveUp(r)
      PROVE  HandedOutOnce'
  BY <1>2 DEF Acquire, AcquireBlind, Reuse, ReuseMisses, ReuseBlind, MarkQueued,
              RequestFails, PollDone, PollFailed, GiveUp
<1>3. ASSUME NEW t \in Requests, Deliver(t)
      PROVE  HandedOutOnce'
  BY <1>3 DEF Deliver
<1>4. ASSUME NEW t \in Requests,
             \/ Start(t) \/ TurnEnds(t) \/ WriteDone(t) \/ Ack(t) \/ HandlerFails(t)
      PROVE  HandedOutOnce'
  <2>1. UNCHANGED <<lane, id, last, deliveries>>
    BY <1>4 DEF Start, TurnEnds, WriteDone, Ack, HandlerFails
  <2>2. \A q \in Requests : job'[q] = "none" <=> job[q] = "none"
    BY <1>4 DEF Start, TurnEnds, WriteDone, Ack, HandlerFails
  <2>3. QED
    BY <2>1, <2>2
<1>5. ASSUME NEW w \in Workers, NEW n \in 1..Concurrency, Fetch(w, n)
      PROVE  HandedOutOnce'
  <2>1. ASSUME NEW t \in Requests, t \in Batch(n)
        PROVE  /\ deliveries'[t] = 1 /\ job'[t] = "fetched"
               /\ id'[t] # 0 /\ id'[t] <= last'[lane'[t]]
    BY <1>5, <2>1 DEF Fetch, Batch, Advance
  <2>2. ASSUME NEW t \in Requests, t \notin Batch(n)
        PROVE  /\ deliveries'[t] = deliveries[t] /\ job'[t] = job[t]
               /\ id'[t] = id[t]
               /\ id'[t] <= last'[lane'[t]] <=> id[t] <= last[lane[t]]
    BY <1>5, <2>2 DEF Fetch, Batch, Advance
  <2>3. QED
    BY <2>1, <2>2
<1>6. ASSUME NEW w \in Workers, Crash(w)
      PROVE  HandedOutOnce'
  <2>1. \A q \in Requests : job'[q] = "none" <=> job[q] = "none"
    BY <1>6 DEF Crash, InFlight
  <2>2. QED
    BY <1>6, <2>1 DEF Crash
<1>7. ASSUME NEW f \in Fingerprints, Expire(f)
      PROVE  HandedOutOnce'
  BY <1>7 DEF Expire
<1>8. CASE ApiRestart
  BY <1>8 DEF ApiRestart
<1>9. CASE UNCHANGED vars
  BY <1>9 DEF vars
<1>10. QED
  BY <1>1, <1>2, <1>3, <1>4, <1>5, <1>6, <1>7, <1>8, <1>9 DEF Next, Request, Job, Worker

-----------------------------------------------------------------------------
(***************************************************************************)
(* The idempotency keys                                                    *)
(***************************************************************************)
LEMMA StepKeyed == TypeInv /\ Cursor /\ Keyed /\ [Next]_vars => Keyed'
<1> SUFFICES ASSUME TypeInv, Cursor, Keyed, [Next]_vars
             PROVE  Keyed'
  OBVIOUS
<1> USE DEF TypeInv, TypeOK, Known, Cursor, Keyed, Asking, Goto, Return, Proceed,
            Fault, api, streams, redis, work
<1>1. ASSUME NEW r \in Requests, NEW f \in Fingerprints, Acquire(r, f)
      PROVE  Keyed'
  <2>1. fp'[r] = f /\ id'[r] = 0 /\ UNCHANGED <<lapsed, id>>
    BY <1>1 DEF Acquire
  <2>2. \A q \in Requests \ {r} : UNCHANGED <<fp[q], pc[q]>>
    BY <1>1 DEF Acquire
  <2>3. CASE idem[f] = NoTask
    <3>1. idem' = [idem EXCEPT ![f] = r] /\ pc'[r] = "keyed"
      BY <1>1, <2>3 DEF Acquire
    <3>2. QED
      BY <2>1, <2>2, <2>3, <3>1
  <2>4. CASE idem[f] # NoTask
    <3>1. idem' = idem /\ pc'[r] = "looking"
      BY <1>1, <2>4 DEF Acquire
    <3>2. QED
      BY <2>1, <2>2, <2>4, <3>1
  <2>5. QED
    BY <2>3, <2>4
<1>2. ASSUME NEW r \in Requests, NEW f \in Fingerprints, AcquireBlind(r, f)
      PROVE  Keyed'
  BY <1>2 DEF AcquireBlind
<1>3. ASSUME NEW r \in Requests, ReuseMisses(r) \/ ReuseBlind(r)
      PROVE  Keyed'
  <2>1. fp[r] \in lapsed' /\ lapsed \subseteq lapsed' /\ UNCHANGED <<fp, idem, id>>
    BY <1>3 DEF ReuseMisses, ReuseBlind
  <2>2. \A q \in Requests \ {r} : UNCHANGED pc[q]
    BY <1>3 DEF ReuseMisses, ReuseBlind
  <2>3. QED
    BY <2>1, <2>2
<1>4. ASSUME NEW r \in Requests, NEW l \in Lanes, Enqueue(r, l)
      PROVE  Keyed'
  BY <1>4 DEF Enqueue
<1>5. ASSUME NEW r \in Requests,
             \/ Reuse(r) \/ MarkQueued(r) \/ RequestFails(r)
             \/ PollDone(r) \/ PollFailed(r) \/ GiveUp(r)
      PROVE  Keyed'
  <2>1. UNCHANGED <<fp, idem, lapsed, id>>
    BY <1>5 DEF Reuse, MarkQueued, RequestFails, PollDone, PollFailed, GiveUp
  <2>2. \A q \in Requests : pc'[q] \in {"looking", "keyed"} => pc'[q] = pc[q]
    BY <1>5 DEF Reuse, MarkQueued, RequestFails, PollDone, PollFailed, GiveUp
  <2>3. QED
    BY <2>1, <2>2
<1>6. ASSUME NEW t \in Requests, Deliver(t)
      PROVE  Keyed'
  BY <1>6 DEF Deliver
<1>7. ASSUME NEW t \in Requests,
             \/ Start(t) \/ TurnEnds(t) \/ WriteDone(t) \/ Ack(t) \/ HandlerFails(t)
      PROVE  Keyed'
  BY <1>7 DEF Start, TurnEnds, WriteDone, Ack, HandlerFails
<1>8. ASSUME NEW w \in Workers, NEW n \in 1..Concurrency, Fetch(w, n)
      PROVE  Keyed'
  BY <1>8 DEF Fetch
<1>9. ASSUME NEW w \in Workers, Crash(w)
      PROVE  Keyed'
  BY <1>9 DEF Crash
<1>10. ASSUME NEW f \in Fingerprints, Expire(f)
       PROVE  Keyed'
  BY <1>10 DEF Expire
<1>11. CASE ApiRestart
  BY <1>11 DEF ApiRestart
<1>12. CASE UNCHANGED vars
  BY <1>12 DEF vars
<1>13. QED
  BY <1>1, <1>2, <1>3, <1>4, <1>5, <1>6, <1>7, <1>8, <1>9, <1>10, <1>11, <1>12
     DEF Next, Request, Job, Worker

\* The inductive invariant holds in every reachable state.
THEOREM Inductive == Spec => []IInv
<1>1. IInv /\ [Next]_vars => IInv'
  BY StepTypeInv, StepCursor, StepHandedOut, StepKeyed DEF IInv
<1>2. QED
  BY InitIInv, <1>1, PTL DEF Spec

\* The same words in the same session are enqueued once, unless their key
\* expired or was missed.
THEOREM NoDoubleEnqueue == Spec => []EnqueuedOnce
<1>1. IInv => EnqueuedOnce
  BY DEF IInv, Keyed, EnqueuedOnce
<1>2. QED
  BY <1>1, Inductive, PTL

\* The consumer group skips no task and hands none out twice, through
\* crashes of any number of workers: a task runs at most once.
THEOREM NoDoubleRun == Spec => []HandedOutOnce
<1>1. IInv => HandedOutOnce
  BY DEF IInv
<1>2. QED
  BY <1>1, Inductive, PTL

-----------------------------------------------------------------------------
(***************************************************************************)
(* What the statuses tell                                                  *)
(***************************************************************************)

\* A task that has begun has a status, so that the API's "queued" is late; one
\* that is about to be acked is done.
Told ==
  \A t \in Requests :
    /\ job[t] \in {"running", "ended", "acking", "acked"} => status[t] # "none"
    /\ job[t] \in {"acking", "acked"} /\ t \notin late => status[t] = "done"

LEMMA StepTold == TypeInv /\ Told /\ [Next]_vars => Told'
<1> SUFFICES ASSUME TypeInv, Told, [Next]_vars
             PROVE  Told'
  OBVIOUS
<1> USE DEF TypeInv, TypeOK, Told, Goto, Return, Proceed, Become, Leave, SetStatus,
            Fault, api, streams, redis, work
<1>1. ASSUME NEW r \in Requests, MarkQueued(r)
      PROVE  Told'
  BY <1>1 DEF MarkQueued
<1>2. ASSUME NEW r \in Requests,
             \/ \E f \in Fingerprints : Acquire(r, f) \/ AcquireBlind(r, f)
             \/ Reuse(r) \/ ReuseMisses(r) \/ ReuseBlind(r)
             \/ \E l \in Lanes : Enqueue(r, l)
             \/ RequestFails(r) \/ PollDone(r) \/ PollFailed(r) \/ GiveUp(r)
      PROVE  Told'
  <2>1. UNCHANGED <<status, late, job>>
    BY <1>2 DEF Acquire, AcquireBlind, Reuse, ReuseMisses, ReuseBlind, Enqueue,
                RequestFails, PollDone, PollFailed, GiveUp
  <2>2. QED
    BY <2>1
<1>3. ASSUME NEW t \in Requests, Start(t) \/ TurnEnds(t) \/ WriteDone(t) \/ Ack(t)
      PROVE  Told'
  BY <1>3 DEF Start, TurnEnds, WriteDone, Ack
<1>4. ASSUME NEW t \in Requests, HandlerFails(t)
      PROVE  Told'
  BY <1>4 DEF HandlerFails
<1>5. ASSUME NEW w \in Workers, NEW n \in 1..Concurrency, Fetch(w, n)
      PROVE  Told'
  BY <1>5 DEF Fetch
<1>6. ASSUME NEW w \in Workers, Crash(w)
      PROVE  Told'
  BY <1>6 DEF Crash
<1>7. ASSUME UNCHANGED <<status, late, job>>
      PROVE  Told'
  BY <1>7
<1>8. QED
  BY <1>1, <1>2, <1>3, <1>4, <1>5, <1>6, <1>7
     DEF Next, Request, Job, Worker, Deliver, Expire, ApiRestart, vars

\* "Only a success is acked": through failed calls and crashes the status of
\* an acked task is "done", unless the API's own "queued" came late.
THEOREM AckedTasksAreDone == Spec => []AckedIsDone
<1>1. Init => Told
  BY DEF Init, Told
<1>2. Told => AckedIsDone
  BY DEF Told, AckedIsDone
<1>3. TypeInv /\ Told /\ [Next]_vars => Told'
  BY StepTold
<1>4. IInv => TypeInv
  BY DEF IInv
<1>5. QED
  BY <1>1, <1>2, <1>3, <1>4, Inductive, PTL DEF Spec

-----------------------------------------------------------------------------
(***************************************************************************)
(* Whose answer a request takes                                            *)
(***************************************************************************)

\* As long as the key has not lapsed, a request waits for the task the key
\* names; an event is of a task that was added; and who got the text of
\* another task has the reason MixupsNeedAnotherTask gives.
Waits ==
  /\ \A r \in Requests :
       /\ pc[r] = "added" => id[r] # 0
       /\ pc[r] = "waiting" /\ fp[r] \notin lapsed => task[r] = idem[fp[r]]
  /\ \A t \in wire : id[t] # 0
  /\ \A r \in mistaken : pc[r] = "over"
  /\ MixupsNeedAnotherTask

\* Nothing that is known of a request that has asked is lost.
Lasting ==
  /\ lapsed \subseteq lapsed'
  /\ \A r \in Requests : pc[r] # "idle" => fp'[r] = fp[r]
  /\ \A r \in Requests : pc[r] = "over" => pc'[r] = "over"
  /\ \A r \in Requests : id[r] # 0 => id'[r] # 0

LEMMA StepLasting == TypeInv /\ Cursor /\ [Next]_vars => Lasting
<1> SUFFICES ASSUME TypeInv, Cursor, [Next]_vars
             PROVE  Lasting
  OBVIOUS
<1> USE DEF TypeInv, TypeOK, Cursor, Lasting, Goto, Return, Proceed, api, streams, redis, work
<1>1. ASSUME NEW r \in Requests, Request(r)
      PROVE  Lasting
  BY <1>1 DEF Request, Acquire, AcquireBlind, Reuse, ReuseMisses, ReuseBlind, Enqueue,
              MarkQueued, RequestFails, PollDone, PollFailed, GiveUp
<1>2. ASSUME NEW t \in Requests, Deliver(t)
      PROVE  Lasting
  BY <1>2 DEF Deliver
<1>3. ASSUME NEW f \in Fingerprints, Expire(f)
      PROVE  Lasting
  BY <1>3 DEF Expire
<1>4. CASE ApiRestart
  BY <1>4 DEF ApiRestart, Asking
<1>5. ASSUME UNCHANGED <<fp, pc, lapsed, id>>
      PROVE  Lasting
  BY <1>5
<1>6. QED
  BY <1>1, <1>2, <1>3, <1>4, <1>5
     DEF Next, Job, Worker, Start, TurnEnds, WriteDone, Ack, HandlerFails, Fetch, Crash, vars

\* The reason for a mix-up does not go away, and no new one comes without.
LEMMA MixupsLast ==
  ASSUME TypeInv, Cursor, Waits, Lasting, mistaken' = mistaken
  PROVE  /\ \A r \in mistaken' : pc'[r] = "over"
         /\ MixupsNeedAnotherTask'
<1>1. ASSUME NEW r \in mistaken
      PROVE  /\ r \in Requests /\ pc[r] = "over" /\ fp'[r] = fp[r]
             /\ fp[r] \in lapsed \/ \E q \in Requests : id[q] # 0 /\ Session(q) = Session(r) /\ fp[q] # fp[r]
  BY DEF Waits, MixupsNeedAnotherTask, Lasting, TypeInv, TypeOK
<1>2. ASSUME NEW q \in Requests, id[q] # 0
      PROVE  id'[q] # 0 /\ fp'[q] = fp[q]
  BY <1>2 DEF Lasting, Cursor
<1>3. QED
  BY <1>1, <1>2 DEF Lasting, MixupsNeedAnotherTask, Session

LEMMA StepWaits ==
  TypeInv /\ Cursor /\ Keyed /\ HandedOutOnce /\ Waits /\ [Next]_vars => Waits'
<1> SUFFICES ASSUME TypeInv, Cursor, Keyed, HandedOutOnce, Waits, [Next]_vars
             PROVE  Waits'
  OBVIOUS
<1>0. Lasting
  BY StepLasting
<1> DEFINE Reasons == /\ \A r \in mistaken : pc[r] = "over"
                      /\ MixupsNeedAnotherTask
           Tasks == /\ \A r \in Requests :
                         /\ pc[r] = "added" => id[r] # 0
                         /\ pc[r] = "waiting" /\ fp[r] \notin lapsed => task[r] = idem[fp[r]]
                    /\ \A t \in wire : id[t] # 0
<1>a. Waits' <=> Tasks' /\ Reasons'
  BY DEF Waits
<1>b. ASSUME mistaken' = mistaken PROVE Reasons'
  BY <1>0, <1>b, MixupsLast
<1>c. Tasks
  BY DEF Waits
<1> HIDE DEF Reasons
<1> USE <1>c DEF TypeInv, TypeOK, Known, Goto, Return, Proceed, api, streams, redis, work
<1>1. ASSUME NEW r \in Requests, NEW f \in Fingerprints, Acquire(r, f) \/ AcquireBlind(r, f)
      PROVE  Tasks' /\ mistaken' = mistaken
  BY <1>1 DEF Acquire, AcquireBlind
<1>2. ASSUME NEW r \in Requests, Reuse(r) \/ ReuseMisses(r) \/ ReuseBlind(r)
      PROVE  Tasks' /\ mistaken' = mistaken
  BY <1>2 DEF Reuse, ReuseMisses, ReuseBlind
<1>3. ASSUME NEW r \in Requests, NEW l \in Lanes, Enqueue(r, l)
      PROVE  Tasks' /\ mistaken' = mistaken
  BY <1>3 DEF Enqueue
<1>4. ASSUME NEW r \in Requests, MarkQueued(r)
      PROVE  Tasks' /\ mistaken' = mistaken
  BY <1>4 DEF MarkQueued, Keyed
<1>5. ASSUME NEW r \in Requests,
             RequestFails(r) \/ PollDone(r) \/ PollFailed(r) \/ GiveUp(r)
      PROVE  Tasks' /\ mistaken' = mistaken
  BY <1>5 DEF RequestFails, PollDone, PollFailed, GiveUp
<1>6. ASSUME NEW t \in Requests, Deliver(t)
      PROVE  Waits'
  <2>1. Tasks'
    BY <1>6 DEF Deliver
  <2>2. \A q \in Requests : pc[q] # "idle" => UNCHANGED fp[q]
    BY <1>6 DEF Deliver
  <2>3. ASSUME NEW r \in mistaken'
        PROVE  /\ pc'[r] = "over"
               /\ \/ fp[r] \in lapsed
                  \/ \E q \in Requests : id[q] # 0 /\ Session(q) = Session(r) /\ fp[q] # fp[r]
    <3>1. CASE r \in mistaken
      BY <1>0, <3>1 DEF Waits, MixupsNeedAnotherTask, Lasting
    <3>2. CASE r \in Listeners(t) /\ task[r] # t
      <4>1. /\ r \in Requests /\ pc[r] = "waiting" /\ Session(r) = Session(t)
            /\ t \in wire /\ id[t] # 0 /\ pc'[r] = "over"
        BY <1>6, <3>2 DEF Deliver, Listeners
      <4>2. CASE fp[t] # fp[r]
        BY <4>1, <4>2
      <4>3. CASE fp[t] = fp[r] /\ fp[r] \notin lapsed
        BY <3>2, <4>1, <4>3 DEF Keyed
      <4>4. QED
        BY <4>1, <4>2, <4>3
    <3>3. QED
      BY <1>6, <3>1, <3>2 DEF Deliver
  <2>4. UNCHANGED <<fp, lapsed, id>>
    BY <1>6 DEF Deliver
  <2>5. Reasons'
    BY <2>3, <2>4 DEF Reasons, MixupsNeedAnotherTask, Session
  <2>6. QED
    BY <1>a, <2>1, <2>5
<1>7. ASSUME NEW t \in Requests, TurnEnds(t)
      PROVE  Tasks' /\ mistaken' = mistaken
  <2>1. id[t] # 0
    BY <1>7 DEF TurnEnds, HandedOutOnce
  <2>2. QED
    BY <1>7, <2>1 DEF TurnEnds
<1>8. ASSUME NEW f \in Fingerprints, Expire(f)
      PROVE  Tasks' /\ mistaken' = mistaken
  BY <1>8 DEF Expire
<1>9. ASSUME ApiRestart
      PROVE  Tasks' /\ mistaken' = mistaken
  BY <1>9 DEF ApiRestart, Asking
<1>10. ASSUME UNCHANGED <<fp, pc, task, mistaken, idem, lapsed, id, wire>>
       PROVE  Tasks' /\ mistaken' = mistaken
  BY <1>10
<1>11. (Tasks' /\ mistaken' = mistaken) \/ Waits'
  BY <1>1, <1>2, <1>3, <1>4, <1>5, <1>6, <1>7, <1>8, <1>9, <1>10
     DEF Next, Request, Job, Worker, Start, WriteDone, Ack, HandlerFails, Fetch, Crash, vars
<1>12. QED
  BY <1>11, <1>a, <1>b

\* _await_result takes any final.result of the session for its answer: it is
\* another task's only where the session has another question in the queue, or
\* its own was enqueued again after its key lapsed.
THEOREM MixupsAreExplained == Spec => []MixupsNeedAnotherTask
<1>1. Init => Waits
  BY DEF Init, Waits, MixupsNeedAnotherTask
<1>2. Waits => MixupsNeedAnotherTask
  BY DEF Waits
<1>3. IInv /\ Waits /\ [Next]_vars => Waits'
  BY StepWaits DEF IInv
<1>4. QED
  BY <1>1, <1>2, <1>3, Inductive, PTL DEF Spec

-----------------------------------------------------------------------------
(***************************************************************************)
(* The load of a worker                                                    *)
(***************************************************************************)

\* No two tasks have the same entry of the same stream.
Entries ==
  \A t, u \in Requests : id[t] # 0 /\ lane[t] = lane[u] /\ id[t] = id[u] => t = u

LEMMA StepEntries == TypeInv /\ Cursor /\ Entries /\ [Next]_vars => Entries'
<1> SUFFICES ASSUME TypeInv, Cursor, Entries, [Next]_vars
             PROVE  Entries'
  OBVIOUS
<1>1. ASSUME NEW r \in Requests, NEW l \in Lanes, Enqueue(r, l)
      PROVE  Entries'
  <2>1. id'[r] = length[l] + 1 /\ lane'[r] = l /\ length[l] \in Nat
    BY <1>1 DEF Enqueue, TypeInv, TypeOK
  <2>2. \A t \in Requests \ {r} : id'[t] = id[t] /\ lane'[t] = lane[t]
    BY <1>1 DEF Enqueue, TypeInv, TypeOK
  <2>3. \A t \in Requests : id[t] \in Nat /\ (lane[t] = l => id[t] <= length[l])
    BY DEF Cursor, TypeInv, TypeOK
  <2>4. QED
    BY <2>1, <2>2, <2>3 DEF Entries
<1>2. ASSUME UNCHANGED <<id, lane>>
      PROVE  Entries'
  BY <1>2 DEF Entries
<1>3. QED
  BY <1>1, <1>2
     DEF Next, Request, Job, Worker, Acquire, AcquireBlind, Reuse, ReuseMisses, ReuseBlind,
         MarkQueued, RequestFails, PollDone, PollFailed, GiveUp, Deliver, Start, TurnEnds,
         WriteDone, Ack, HandlerFails, Fetch, Crash, Expire, ApiRestart, vars,
         api, streams, redis, work

\* XREADGROUP COUNT n hands out at most n entries of each stream.
LEMMA BatchSize ==
  ASSUME TypeInv, Entries, NEW n \in Nat
  PROVE  /\ IsFiniteSet(Batch(n))
         /\ Cardinality(Batch(n)) \in Nat /\ Cardinality(Batch(n)) <= 2 * n
<1> DEFINE Places == Lanes \X (1..n)
           place == [t \in Batch(n) |-> <<lane[t], id[t] - last[lane[t]]>>]
<1>1. \A t \in Batch(n) :
        /\ t \in Requests /\ lane[t] \in Lanes /\ id[t] # 0
        /\ id[t] - last[lane[t]] \in 1..n
        /\ id[t] \in Nat /\ last[lane[t]] \in Nat
  BY DEF Batch, TypeInv, TypeOK
<1>2. place \in [Batch(n) -> Places]
  BY <1>1
<1>3. ASSUME NEW t \in Batch(n), NEW u \in Batch(n), place[t] = place[u]
      PROVE  t = u
  <2>1. lane[t] = lane[u] /\ id[t] - last[lane[t]] = id[u] - last[lane[u]]
    BY <1>3
  <2>2. id[t] = id[u]
    BY <1>1, <2>1
  <2>3. QED
    BY <1>1, <2>1, <2>2 DEF Entries
<1>4. place \in Injection(Batch(n), Places)
  BY <1>2, <1>3 DEF Injection, IsInjective
<1>5. IsFiniteSet(Lanes) /\ Cardinality(Lanes) = 2
  <2>1. Lanes = {"normal"} \cup {"large"}
    BY DEF Lanes
  <2>2. IsFiniteSet({"normal"}) /\ Cardinality({"normal"}) = 1
    BY FS_Singleton
  <2>3. /\ IsFiniteSet({"normal"} \cup {"large"})
        /\ Cardinality({"normal"} \cup {"large"}) = Cardinality({"normal"}) + 1
    <3>1. "large" \notin {"normal"}
      OBVIOUS
    <3>2. QED
      BY <2>2, <3>1, FS_AddElement
  <2>4. QED
    BY <2>1, <2>2, <2>3
<1>6. IsFiniteSet(1..n) /\ Cardinality(1..n) = n
  BY FS_Interval
<1>7. IsFiniteSet(Places) /\ Cardinality(Places) = 2 * n
  BY <1>5, <1>6, FS_Product, ZenonT(30)
<1> HIDE DEF Places, place
<1>8. QED
  BY <1>4, <1>7, FS_Injection, FS_CardinalityType

\* A union is no larger than its parts together.
LEMMA UnionSize ==
  ASSUME NEW A, NEW B, IsFiniteSet(A), IsFiniteSet(B)
  PROVE  /\ IsFiniteSet(A \cup B)
         /\ Cardinality(A \cup B) <= Cardinality(A) + Cardinality(B)
<1>1. IsFiniteSet(A \cap B)
  BY FS_Intersection
<1>2. Cardinality(A \cap B) \in Nat /\ Cardinality(A) \in Nat /\ Cardinality(B) \in Nat
  BY <1>1, FS_CardinalityType
<1>3. IsFiniteSet(A \cup B) /\ Cardinality(A \cup B) = Cardinality(A) + Cardinality(B) - Cardinality(A \cap B)
  BY FS_Union
<1>4. QED
  BY <1>2, <1>3

LEMMA StepLoad == TypeInv /\ Entries /\ LoadBounded /\ [Next]_vars => LoadBounded'
<1> SUFFICES ASSUME TypeInv, Entries, LoadBounded, [Next]_vars, NEW w \in Workers
             PROVE  Cardinality(InFlight(w)') <= 2 * Concurrency
  BY DEF LoadBounded
<1>1. /\ IsFiniteSet(InFlight(w))
      /\ Cardinality(InFlight(w)) \in Nat /\ Cardinality(InFlight(w)) <= 2 * Concurrency
  BY FS_Subset, FS_CardinalityType DEF InFlight, LoadBounded
<1>2. ASSUME InFlight(w)' \subseteq InFlight(w)
      PROVE  Cardinality(InFlight(w)') <= 2 * Concurrency
  BY <1>1, <1>2, FS_Subset, FS_CardinalityType
<1>3. ASSUME NEW v \in Workers, NEW n \in 1..Concurrency, Fetch(v, n)
      PROVE  Cardinality(InFlight(w)') <= 2 * Concurrency
  <2>1. CASE v # w
    <3>1. InFlight(w)' \subseteq InFlight(w)
      BY <1>3, <2>1 DEF Fetch, InFlight, TypeInv, TypeOK
    <3>2. QED
      BY <1>2, <3>1
  <2>2. CASE v = w
    <3>1. InFlight(w)' \subseteq InFlight(w) \cup Batch(n)
      BY <1>3, <2>2 DEF Fetch, InFlight, TypeInv, TypeOK
    <3>2. IsFiniteSet(Batch(n)) /\ Cardinality(Batch(n)) \in Nat /\ Cardinality(Batch(n)) <= 2 * n
      BY BatchSize
    <3>3. /\ IsFiniteSet(InFlight(w) \cup Batch(n))
          /\ Cardinality(InFlight(w) \cup Batch(n)) <= Cardinality(InFlight(w)) + Cardinality(Batch(n))
      <4>1. IsFiniteSet(InFlight(w)) /\ IsFiniteSet(Batch(n))
        BY <1>1, <3>2
      <4>2. QED
        BY <4>1, UnionSize
    <3>4. /\ Cardinality(InFlight(w) \cup Batch(n)) \in Nat
          /\ Cardinality(InFlight(w)') \in Nat
          /\ Cardinality(InFlight(w)') <= Cardinality(InFlight(w) \cup Batch(n))
      BY <3>1, <3>3, FS_Subset, FS_CardinalityType
    <3>5. n <= Concurrency - Cardinality(InFlight(w))
      BY <1>3, <2>2 DEF Fetch, FreeSlots
    <3>6. QED
      BY <1>1, <3>2, <3>3, <3>4, <3>5
  <2>3. QED
    BY <2>1, <2>2
<1>4. ASSUME NEW t \in Requests,
             Start(t) \/ TurnEnds(t) \/ WriteDone(t) \/ Ack(t) \/ HandlerFails(t)
      PROVE  InFlight(w)' \subseteq InFlight(w)
  BY <1>4 DEF Start, TurnEnds, WriteDone, Ack, HandlerFails, Become, Leave, InFlight, InHand,
              TypeInv, TypeOK, work
<1>5. ASSUME NEW v \in Workers, Crash(v)
      PROVE  InFlight(w)' \subseteq InFlight(w)
  BY <1>5 DEF Crash, InFlight, InHand, TypeInv, TypeOK
<1>6. ASSUME UNCHANGED <<job, at>>
      PROVE  InFlight(w)' \subseteq InFlight(w)
  BY <1>6 DEF InFlight
<1>7. QED
  BY <1>2, <1>3, <1>4, <1>5, <1>6
     DEF Next, Request, Job, Worker, Acquire, AcquireBlind, Reuse, ReuseMisses, ReuseBlind,
         Enqueue, MarkQueued, RequestFails, PollDone, PollFailed, GiveUp, Deliver, Expire,
         ApiRestart, vars, work

\* consume asks for what it has slots free, and one XREADGROUP answers that for
\* each stream: a worker runs at most twice as many jobs as it has slots.
THEOREM LoadIsBounded == Spec => []LoadBounded
<1>1. Init => Entries
  BY DEF Init, Entries
<1>2. ASSUME Init PROVE LoadBounded
  <2>1. \A w \in Workers : InFlight(w) = {}
    BY <1>2 DEF Init, InFlight, InHand
  <2>2. QED
    BY <2>1, FS_EmptySet DEF LoadBounded
<1>3. IInv /\ Entries /\ [Next]_vars => Entries'
  BY StepEntries DEF IInv
<1>4. IInv /\ Entries /\ LoadBounded /\ [Next]_vars => LoadBounded'
  BY StepLoad DEF IInv
<1>5. Init => LoadBounded
  BY <1>2
<1>6. QED
  BY <1>1, <1>3, <1>4, <1>5, Inductive, PTL DEF Spec
=============================================================================
