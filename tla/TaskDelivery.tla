---------------------------- MODULE TaskDelivery ----------------------------
(***************************************************************************)
(* From a buyer's request to its answer: the API process (_enqueue and     *)
(* _await_result of presentation/server.py), the two Redis streams and     *)
(* their consumer group (RedisStreamTaskQueue), the workers (worker.py)    *)
(* and the final.result events that come back over the Redis backplane.    *)
(*                                                                         *)
(* A request's task has the request's own identity (task_id is a fresh     *)
(* uuid), so Requests serves for both.  Every action is the code between   *)
(* two awaits on Redis; a Redis call that raises is an action of its own   *)
(* where the code handles it differently.  Redis itself is modelled by     *)
(* what the code relies on: SET NX, entries numbered per stream, and a     *)
(* group cursor that hands out each entry after it once (the id ">"),      *)
(* at most COUNT entries PER STREAM in one XREADGROUP.                     *)
(***************************************************************************)
EXTENDS Naturals, FiniteSets

CONSTANTS Requests, Sessions,
          Fingerprints,     \* hashes of session and question
          SessionOf,        \* Fingerprints -> Sessions
          Workers,
          Concurrency,      \* WORKER_CONCURRENCY: slots of one worker
          MaxDeliveries,    \* deliveries after which a failure is a dead letter
          MaxFaults,        \* bound on the failures of Redis calls and processes
          NoTask, NoWorker, NoPrint

Lanes == {"normal", "large"}

ASSUME TaskDeliveryAssumption ==
  /\ IsFiniteSet(Requests)
  /\ SessionOf \in [Fingerprints -> Sessions]
  /\ Concurrency \in Nat \ {0}
  /\ MaxDeliveries \in Nat \ {0}
  /\ MaxFaults \in Nat
  /\ NoTask \notin Requests
  /\ NoWorker \notin Workers
  /\ NoPrint \notin Fingerprints

VARIABLES
  fp,           \* fingerprint of a request's session and question
  pc,           \* where the API's coroutine for each request is
  task,         \* task id a request got from _enqueue
  mistaken,     \* history: requests answered with another task's text
  idem,         \* Redis: fingerprint |-> task id (NoTask: no such key)
  lapsed,       \* history: fingerprints whose key expired or was missed
  lane, id,     \* Redis: the stream a task was added to, its entry number
  length,       \* Redis: number of the last entry of each stream
  last,         \* Redis: last entry number the group has handed out, per stream
  deliveries,   \* Redis: how often the group handed a task out
  status,       \* Redis: task status ("none": no key)
  late,         \* history: tasks whose "queued" was written after "running"
  job, at,      \* what became of a task's message; the worker that got it
  wire,         \* final.result events on their way to the API process
  faults        \* failures so far

api     == <<fp, pc, task, mistaken, idem, lapsed>>
streams == <<lane, id, length, last, deliveries>>
redis   == <<streams, status, late>>
work    == <<job, at, wire, faults>>
vars    == <<fp, pc, task, mistaken, idem, lapsed, lane, id, length, last, deliveries,
             status, late, job, at, wire, faults>>

Asking   == {"looking", "keyed", "added", "waiting"}
InHand   == {"fetched", "running", "ended", "acking"}
Statuses == {"none", "queued", "running", "done", "failed"}

Session(r) == SessionOf[fp[r]]

Init ==
  /\ fp = [r \in Requests |-> NoPrint]
  /\ pc = [r \in Requests |-> "idle"]
  /\ task = [r \in Requests |-> NoTask]
  /\ mistaken = {}
  /\ idem = [f \in Fingerprints |-> NoTask]
  /\ lapsed = {}
  /\ lane = [t \in Requests |-> "normal"]
  /\ id = [t \in Requests |-> 0]
  /\ length = [l \in Lanes |-> 0]
  /\ last = [l \in Lanes |-> 0]
  /\ deliveries = [t \in Requests |-> 0]
  /\ status = [t \in Requests |-> "none"]
  /\ late = {}
  /\ job = [t \in Requests |-> "none"]
  /\ at = [t \in Requests |-> NoWorker]
  /\ wire = {}
  /\ faults = 0

-----------------------------------------------------------------------------
InFlight(w)   == {t \in Requests : at[t] = w /\ job[t] \in InHand}
Goto(r, p)    == pc' = [pc EXCEPT ![r] = p]
Become(t, j)  == job' = [job EXCEPT ![t] = j] /\ at' = at
Leave(t, j)   == job' = [job EXCEPT ![t] = j] /\ at' = [at EXCEPT ![t] = NoWorker]
SetStatus(t, s) == status' = [status EXCEPT ![t] = s]
Fault         == faults < MaxFaults /\ faults' = faults + 1

(***************************************************************************)
(* API process: _enqueue                                                   *)
(***************************************************************************)

\* SET NX of the idempotency key.  Defect: the key is not consulted.
Acquire_Always(r, f) ==
  /\ pc[r] = "idle"
  /\ fp' = [fp EXCEPT ![r] = f]
  /\ idem' = [idem EXCEPT ![f] = r]
  /\ Goto(r, "keyed")
  /\ UNCHANGED <<task, mistaken, lapsed, redis, work>>

Acquire(r, f) ==
  /\ pc[r] = "idle"
  /\ fp' = [fp EXCEPT ![r] = f]
  /\ IF idem[f] = NoTask
     THEN idem' = [idem EXCEPT ![f] = r] /\ Goto(r, "keyed")
     ELSE idem' = idem /\ Goto(r, "looking")
  /\ UNCHANGED <<task, mistaken, lapsed, redis, work>>

\* Redis fails: set_if_absent lets the request pass without a key.
AcquireBlind(r, f) ==
  /\ pc[r] = "idle"
  /\ Fault
  /\ fp' = [fp EXCEPT ![r] = f]
  /\ lapsed' = lapsed \cup {f}
  /\ Goto(r, "keyed")
  /\ UNCHANGED <<task, mistaken, idem, redis, job, at, wire>>

\* The caller goes on with task t: it waits for it (submit_intent) or returns
\* its id (submit_intent_async).
Proceed(r, t) ==
  \/ Goto(r, "waiting") /\ task' = [task EXCEPT ![r] = t]
  \/ Goto(r, "over") /\ task' = task

\* The HTTP request is answered; what its coroutine knew is gone.
Return(r) == Goto(r, "over") /\ task' = [task EXCEPT ![r] = NoTask]

\* The key's value is read back: the earlier task is reused.
Reuse(r) ==
  /\ pc[r] = "looking"
  /\ idem[fp[r]] # NoTask
  /\ Proceed(r, idem[fp[r]])
  /\ UNCHANGED <<fp, mistaken, idem, lapsed, redis, work>>

\* The key has expired meanwhile: the request enqueues, without a key.
ReuseMisses(r) ==
  /\ pc[r] = "looking"
  /\ idem[fp[r]] = NoTask
  /\ Goto(r, "keyed")
  /\ UNCHANGED <<fp, task, mistaken, idem, lapsed, redis, work>>

\* Redis fails: get_raw returns None, and the request enqueues.
ReuseBlind(r) ==
  /\ pc[r] = "looking"
  /\ Fault
  /\ lapsed' = lapsed \cup {fp[r]}
  /\ Goto(r, "keyed")
  /\ UNCHANGED <<fp, task, mistaken, idem, redis, job, at, wire>>

\* The key's ten minutes are over.
Expire(f) ==
  /\ idem[f] # NoTask
  /\ Fault
  /\ idem' = [idem EXCEPT ![f] = NoTask]
  /\ lapsed' = lapsed \cup {f}
  /\ UNCHANGED <<fp, pc, task, mistaken, redis, job, at, wire>>

\* XADD, to the stream _queue_priority chose by the turns of the session.
Enqueue(r, l) ==
  /\ pc[r] = "keyed"
  /\ lane' = [lane EXCEPT ![r] = l]
  /\ length' = [length EXCEPT ![l] = @ + 1]
  /\ id' = [id EXCEPT ![r] = length[l] + 1]
  /\ Goto(r, "added")
  /\ UNCHANGED <<fp, task, mistaken, idem, lapsed, last, deliveries, status, late, work>>

\* set_status("queued"): written whatever the worker has written by now.
MarkQueued(r) ==
  /\ pc[r] = "added"
  /\ SetStatus(r, "queued")
  /\ late' = IF status[r] = "none" THEN late ELSE late \cup {r}
  /\ Proceed(r, r)
  /\ UNCHANGED <<fp, mistaken, idem, lapsed, streams, work>>

\* XADD, set_status or get_status raised: the HTTP request fails.  A key it
\* holds stays, and so does a task it has added.
RequestFails(r) ==
  /\ pc[r] \in {"keyed", "added", "waiting"}
  /\ Fault
  /\ Return(r)
  /\ UNCHANGED <<fp, mistaken, idem, lapsed, redis, job, at, wire>>

\* The API process restarts: every request it was serving is gone.
ApiRestart ==
  /\ \E r \in Requests : pc[r] \in Asking
  /\ Fault
  /\ pc' = [r \in Requests |-> IF pc[r] \in Asking THEN "over" ELSE pc[r]]
  /\ task' = [r \in Requests |-> NoTask]
  /\ UNCHANGED <<fp, mistaken, idem, lapsed, redis, job, at, wire>>

(***************************************************************************)
(* API process: _await_result                                              *)
(***************************************************************************)

\* A final.result reaches the API's bus: every request waiting on that
\* SESSION takes it for its answer.  Defect: every request waiting does.
Listeners_Everybody(t) == {r \in Requests : pc[r] = "waiting"}
Listeners(t) == {r \in Requests : pc[r] = "waiting" /\ Session(r) = Session(t)}

\* An event that is never delivered is one that was lost: publishing failed,
\* its worker died before sending it, or the API's listener had stopped.
Deliver(t) ==
  /\ t \in wire
  /\ wire' = wire \ {t}
  /\ pc' = [r \in Requests |-> IF r \in Listeners(t) THEN "over" ELSE pc[r]]
  /\ task' = [r \in Requests |-> IF r \in Listeners(t) THEN NoTask ELSE task[r]]
  /\ mistaken' = mistaken \cup {r \in Listeners(t) : task[r] # t}
  /\ UNCHANGED <<fp, idem, lapsed, redis, job, at, faults>>

\* No event for two seconds: the status is looked up.
PollDone(r) ==
  /\ pc[r] = "waiting" /\ status[task[r]] = "done"
  /\ Return(r)
  /\ UNCHANGED <<fp, mistaken, idem, lapsed, redis, work>>

PollFailed(r) ==
  /\ pc[r] = "waiting" /\ status[task[r]] = "failed"
  /\ Return(r)
  /\ UNCHANGED <<fp, mistaken, idem, lapsed, redis, work>>

\* queue_wait_seconds are over.
GiveUp(r) ==
  /\ pc[r] = "waiting"
  /\ Return(r)
  /\ UNCHANGED <<fp, mistaken, idem, lapsed, redis, work>>

(***************************************************************************)
(* Worker: consume, _handle_one, and the handler of worker.py              *)
(***************************************************************************)

\* The entries XREADGROUP hands out: the next ones of each stream, up to n of
\* EACH.  Defect: the large stream is not read.
Batch_NormalOnly(n) ==
  {t \in Requests : /\ lane[t] = "normal"
                    /\ last["normal"] < id[t] /\ id[t] <= last["normal"] + n}
Batch(n) == {t \in Requests : last[lane[t]] < id[t] /\ id[t] <= last[lane[t]] + n}

\* The group's cursors move over them.  Defect: by COUNT, over entries that
\* are not there yet.
Advance_ByCount(n) == [l \in Lanes |-> last[l] + n]
Advance(n) ==
  [l \in Lanes |-> IF last[l] + n <= length[l] THEN last[l] + n ELSE length[l]]

\* Defect: jobs in flight are not subtracted.
FreeSlots_All(w) == Concurrency
FreeSlots(w)     == Concurrency - Cardinality(InFlight(w))

\* in_flight may still hold finished jobs: n can be less than what is free.
Fetch(w, n) ==
  /\ n <= FreeSlots(w)
  /\ Batch(n) # {}
  /\ last' = Advance(n)
  /\ deliveries' = [t \in Requests |-> deliveries[t] + IF t \in Batch(n) THEN 1 ELSE 0]
  /\ job' = [t \in Requests |-> IF t \in Batch(n) THEN "fetched" ELSE job[t]]
  /\ at' = [t \in Requests |-> IF t \in Batch(n) THEN w ELSE at[t]]
  /\ UNCHANGED <<api, lane, id, length, status, late, wire, faults>>

\* handle: set_status("running").
Start(t) ==
  /\ job[t] = "fetched"
  /\ SetStatus(t, "running")
  /\ Become(t, "running")
  /\ UNCHANGED <<api, streams, late, wire, faults>>

\* handle_intent returns.  It turns its own exceptions into an "error" event,
\* which no waiting request looks at, and a text.
TurnEnds(t) ==
  /\ job[t] = "running"
  /\ \E events \in {{t}, {}} : wire' = wire \cup events
  /\ Become(t, "ended")
  /\ UNCHANGED <<api, redis, faults>>

\* handle: set_status("done").  Defect: forgotten.
WriteDone_Silent(t) ==
  /\ job[t] = "ended"
  /\ Become(t, "acking")
  /\ UNCHANGED <<api, redis, wire, faults>>

WriteDone(t) ==
  /\ job[t] = "ended"
  /\ SetStatus(t, "done")
  /\ Become(t, "acking")
  /\ UNCHANGED <<api, streams, late, wire, faults>>

Ack(t) ==
  /\ job[t] = "acking"
  /\ Leave(t, "acked")
  /\ UNCHANGED <<api, redis, wire, faults>>

\* One of these calls raised.  A failed set_status("done") is followed by
\* set_status("failed"), which may fail too.  Then the message is a dead
\* letter if it has been delivered max_deliveries times and that can be
\* stored; otherwise it stays in the group's pending list.
HandlerFails(t) ==
  /\ job[t] \in {"fetched", "ended", "acking"}
  /\ Fault
  /\ \/ job[t] = "ended" /\ SetStatus(t, "failed")
     \/ UNCHANGED status
  /\ \/ deliveries[t] >= MaxDeliveries /\ Leave(t, "dead")
     \/ Leave(t, "pending")
  /\ UNCHANGED <<api, streams, late, wire>>

\* A worker dies; its successor has a consumer name of its own and reads new
\* messages only.
Crash(w) ==
  /\ InFlight(w) # {}
  /\ Fault
  /\ job' = [t \in Requests |-> IF t \in InFlight(w) THEN "pending" ELSE job[t]]
  /\ at' = [t \in Requests |-> IF t \in InFlight(w) THEN NoWorker ELSE at[t]]
  /\ UNCHANGED <<api, redis, wire>>

-----------------------------------------------------------------------------
Request(r) ==
  \/ \E f \in Fingerprints : Acquire(r, f) \/ AcquireBlind(r, f)
  \/ Reuse(r) \/ ReuseMisses(r) \/ ReuseBlind(r)
  \/ \E l \in Lanes : Enqueue(r, l)
  \/ MarkQueued(r) \/ RequestFails(r)
  \/ PollDone(r) \/ PollFailed(r) \/ GiveUp(r)

Job(t) == Start(t) \/ TurnEnds(t) \/ WriteDone(t) \/ Ack(t)

Worker(w) == (\E n \in 1..Concurrency : Fetch(w, n)) \/ Crash(w)

Next ==
  \/ \E r \in Requests : Request(r) \/ Deliver(r) \/ Job(r) \/ HandlerFails(r)
  \/ \E w \in Workers : Worker(w)
  \/ \E f \in Fingerprints : Expire(f)
  \/ ApiRestart

Spec == Init /\ [][Next]_vars

\* Some worker keeps reading (consume loops until it is told to stop, and is
\* replaced when it has), jobs go on, and a waiting request keeps looking up
\* its status.  Nothing else is owed: neither the delivery of an event, nor
\* the deadline of a request, nor a failure.
FairSpec ==
  /\ Spec
  /\ WF_vars(\E w \in Workers, n \in 1..Concurrency : Fetch(w, n))
  /\ \A t \in Requests : WF_vars(Job(t))
  /\ \A r \in Requests : WF_vars(PollDone(r) \/ PollFailed(r))

(***************************************************************************)
(* Properties                                                              *)
(***************************************************************************)

\* Every variable has its type.
TypeOK ==
  /\ fp \in [Requests -> Fingerprints \cup {NoPrint}]
  /\ pc \in [Requests -> {"idle", "over"} \cup Asking]
  /\ task \in [Requests -> Requests \cup {NoTask}]
  /\ mistaken \subseteq Requests
  /\ idem \in [Fingerprints -> Requests \cup {NoTask}]
  /\ lapsed \subseteq Fingerprints
  /\ lane \in [Requests -> Lanes]
  /\ id \in [Requests -> Nat]
  /\ length \in [Lanes -> Nat]
  /\ last \in [Lanes -> Nat]
  /\ deliveries \in [Requests -> Nat]
  /\ status \in [Requests -> Statuses]
  /\ late \subseteq Requests
  /\ job \in [Requests -> {"none", "pending", "dead", "acked"} \cup InHand]
  /\ at \in [Requests -> Workers \cup {NoWorker}]
  /\ wire \subseteq Requests
  /\ faults \in 0..MaxFaults

\* "The same words in the same session are enqueued once" (the docstring of
\* _enqueue): however submissions, retries and failures interleave, a second
\* task for a fingerprint needs its key to have expired or been missed.
EnqueuedOnce ==
  \A r, q \in Requests :
    id[r] # 0 /\ id[q] # 0 /\ fp[r] = fp[q] /\ fp[r] \notin lapsed => r = q

\* The group's cursor skips nothing and nothing is handed out twice, through
\* batches over two streams and crashes: a task is unread exactly when its
\* entry lies beyond the cursor.  So a task runs at most once.
HandedOutOnce ==
  \A t \in Requests :
    /\ deliveries[t] = IF id[t] # 0 /\ id[t] <= last[lane[t]] THEN 1 ELSE 0
    /\ deliveries[t] = 0 <=> job[t] = "none"

\* "Only a success is acked" (the docstring of consume), and it shows: the
\* status of an acked task is "done", unless the API's "queued" came late.
AckedIsDone ==
  \A t \in Requests : job[t] = "acked" /\ t \notin late => status[t] = "done"

\* A request gets the text of another task than its own only where its
\* session has another question in the queue, or its own was enqueued again
\* after its key lapsed.  (_await_result takes any final.result of the
\* session for its answer.)
MixupsNeedAnotherTask ==
  \A r \in mistaken :
    \/ fp[r] \in lapsed
    \/ \E q \in Requests : id[q] # 0 /\ Session(q) = Session(r) /\ fp[q] # fp[r]

\* What one XREADGROUP over two streams can do to the concurrency cap ("the
\* essence of peak shaving is this cap", docstring of consume): a worker runs
\* more jobs than it has slots, but never more than twice as many.
LoadBounded == \A w \in Workers : Cardinality(InFlight(w)) <= 2 * Concurrency

\* Polling alone settles every wait for a task that was added, whichever
\* stream it is in and whatever other requests do: under fairness of worker
\* and poll, a waiting request returns without an event and before its
\* deadline, unless its task's message was left pending, or the API's own
\* "queued" came late and hides the outcome.
Settled ==
  \A r, t \in Requests :
    pc[r] = "waiting" /\ task[r] = t /\ id[t] # 0
      ~> pc[r] # "waiting" \/ job[t] = "pending" \/ t \in late
=============================================================================
