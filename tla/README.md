# heng-agent, specified in TLA+

heng-agent is a cross-border shopping agent. An API process (FastAPI) takes a
buyer's message, puts it on a Redis stream as a task and waits; worker
processes read the stream, run one agent turn per task (a language model that
calls tools: search, quotes, orders, preferences) and send events back to the
API over Redis. Without Redis the API runs the turn itself. Beside the service
stand scripts that evaluate it: regression and A/B runs, offline audits of the
conversations, a pool of bad cases. This directory holds specifications of the
parts where order, failure, concurrency or arithmetic matter, the TLC
configurations that check them, and proofs that TLAPS checks.

All paths below are relative to `src/app/` unless they begin with `scripts/`.

## The system

| component | state | operations | talks to |
|---|---|---|---|
| Orders (`application/usecases/order_usecases.py`, `domain/order`, `domain/catalog/sku.py`, SQL repository) | orders tables in one database; a stock table in the memory of *each* process | place, cancel, query | called by the order tools, inside the tool timeout |
| Task queue and worker (`infrastructure/queue/redis_stream_queue.py`, `worker.py`) | two streams, one consumer group, task status keys; jobs in flight | enqueue, consume, ack, dead letter, status | API, orchestrator, bus |
| API (`presentation/server.py`) | idempotency keys in Redis; one coroutine per request | submit, submit_async, wait for result, WebSocket | queue, cache, bus |
| Event bus and backplane (`infrastructure/eventbus.py`) | subscribers of each session in each process | publish, subscribe, forward | everything publishes; the API waits on it, a turn collects its trace from it |
| Session registry (`application/agents/main_agent.py`) | agents cached per process, least recently used out; snapshots in the session store | get_or_create, persist, evict | orchestrator, composition's `_forget_session` |
| Orchestrator (`application/agents/orchestrator.py`) | one turn per message; the hint sent last in each session | handle_intent | registry, harness, caches, bus, stores |
| Harness (`infrastructure/harness_middleware.py`, `application/harness`) | records per session and process: turn count, tools called, products and SKUs named in answers, orders made, recent calls | check and record around each tool call; begin_turn; reset | orchestrator, tools |
| Circuit breaker and tool timeout (`infrastructure/resilience.py`, `shared_breaker.py`) | failures, opening time and half-open mark of each tool, in the process or in Redis | allow, record_success, record_failure | every tool call |
| Model gate (`infrastructure/throttle.py`, `llm.py`, `budget.py`) | slots and their queue, time of the last start, tokens used by the turn | call, stream, retry, fall back | the agents' model calls |
| Caches (`infrastructure/cache`) | Redis keys; semantic cache buckets per buyer and preferences; vectors | get, set, set if absent, lookup, remember, embed | API, orchestrator, search |
| Preferences and deposits (`application/memory`, `domain/buyer`, stores) | preferences per buyer, in files or SQL | append, delete, select | tools, orchestrator |
| Pricing (`domain/shipping`, `domain/catalog/money.py`) | none (pure) | quote, quote_basket, optimize | search and quote tools |
| Catalogue search (`application/usecases/catalog_search.py`, `infrastructure/retrieval`, `bootstrap`) | vector index, BM25 index, injected faults | index at start, search | embedding client, vector index, reranker |
| Reply checks (`application/harness/*_provenance.py`, `arithmetic_check.py`) | what a session's tools and buyer have said, per process, bounded | observe, check, reset | end of a turn; offline audits |
| Conversation log (`infrastructure/persistence`) | an append-only file per session, or a table | append, list | end of a turn; offline audits |
| Evaluation (`scripts/eval_regression.py`, `scripts/eval`) | partial files, reports, deposit store, pool of bad cases | run, resume, judge, compare, audit, triage | the service over HTTP, its log directory |
| Skills, prompts, tracing, filters, frontend | static text, or none | - | - |

What is hard here:

* **coroutines**: every `await` on Redis, the database or the model lets other
  turns of the same process run, so a check before an await may be stale after
  it (order status, session cache, breaker state, turn count, tool records);
* **processes**: several API and worker processes share Redis, the database and
  the files and nothing else; each has its own stock, agents, harness records
  and sources;
* **failure**: Redis calls are swallowed in most places and mean something
  different in each (no key, no state, not acquired); a tool timeout cancels a
  use case in the middle; a process restart forgets everything in memory; an
  evaluation run is killed and resumed;
* **ordering**: status writes of API and worker race, events are lost or come
  from another task of the session, the snapshot is saved after the reply;
* **numbers**: duty is rounded line by line, the optimiser must not miss a
  choice, an amount in a reply has several possible explanations.

What makes each component correct, in one line each: stock is neither lost nor
invented and an order has one owner and one life; a question is run once, and
whoever asked learns the outcome of *that* question; the breaker refuses only
tools that failed lately and lets them back; a turn knows the dialogue its
buyer has seen, and no order is made of products no answer has named; the
gate never has more model calls out than slots and gives each back; no reply
comes from withdrawn preferences; a basket is priced as one parcel and the
proposed one is the best; the answer of a search says truly how it was made;
a reply is flagged for what has no source and for nothing else; a score was
measured under the conditions its report names.

## Modules

| module | contents |
|---|---|
| `OrderLedger` | abstract: what the order aggregate promises |
| `OrderBook` | the order write path; implements `OrderLedger` until a collision |
| `TaskDelivery` | request, idempotency, streams, worker, status, events, answer |
| `CircuitBreaker` | abstract: the breaker inside one process, every operation atomic |
| `SharedBreaker` | both registries, with each Redis call an action; implements `CircuitBreaker` until two writes meet |
| `Turns` | turns, session cache, snapshots, turn count and tool records |
| `ToolGate` | the checks around a tool call with all four trackers |
| `ModelGate` | slots, spacing, retries, fallback, streams, budget |
| `ReplyMemory` | preferences, the hint in the dialogue, the semantic cache |
| `TurnRecord` | the end of a turn: checks of the reply, its sources, the log |
| `Ordering` | what sorting and filtering make of a set or a sequence, written for TLC and the provers alike |
| `Search` | index at start, recall, fusion, reranking, fallbacks, filters |
| `Pricing` | quotes, baskets, the optimiser, the two tools |
| `ReplyChecks` | extends `Pricing`: payloads, replies about them, the five text checks |
| `Audits` | extends `ReplyChecks`: logged runs, five scans with their gates, the pool of bad cases |
| `CaseRunner` | what evaluation runners share: services, faults, partial files, kills |
| `AbRun`, `Regression` | extend `CaseRunner`: the A/B run and memory replay; the regression run, `variance`, `rejudge_transcripts` |
| `Deposits` | extends `AbRun`: deposits earned by a replay |
| `Evaluation` | composes `Regression` and `Deposits` over one pair of services |
| `MC*` | instances for TLC (model values, symmetry, catalogues, dialogues) |
| `OrderBookProofs`, `TurnsProofs`, `ReplyMemoryProofs` | theorems and proofs about the module of that name |
| `RedisProofs` | about what is shared over Redis: `SharedBreaker`, `TaskDelivery` |
| `GateProofs` | about the two gates of a turn: `ModelGate`, `ToolGate` |
| `RecordProofs` | about what a reply says and what is recorded of it: `Pricing`, `ReplyChecks`, `Audits`, `TurnRecord` |
| `SelectionProofs` | about what is selected from lists: `Search`, `Evaluation` with its parts |
| `OrderingProofs` | lemmas about finite sets put in order, selections and sums |

An action is the code between two awaits that really suspend. Where a call can
fail, the failure is an action (or an argument of one) of its own; what the
code swallows is modelled as what it swallows it into. `PROJECT.json` maps every
definition to its lines. Variables marked *history* record what happened and
guard nothing; properties are stated with their help. Definitions whose comment
says *Defect* and whose name has a suffix (`Install_Blank`) are broken variants
that no action uses: each one is a plausible bug the property next to it in
`PROJECT.json` must catch.

### OrderBook

`PlaceReserve` is `execute` up to the await in `next_order_id` (the in-memory
product repository does not suspend), `Number`, `Insert` and their failures are
the two database calls; `CancelRead`, `CancelRestock`/`CancelReject` and
`CancelWrite` are the three stretches of a cancellation. `NumberTimesOut`,
`InsertFails` and the reply "failed" of `Insert` and `CancelWrite` are the
tool timeout and database errors, before and after the commit. `Restart` resets
one process's stock. `anomalies` names the six things that can go wrong by
design of the code; the invariants say that *nothing else* goes wrong.
A basket is a function from SKU to quantity; prices, addresses and titles are
left out. Which line of a rejected basket failed is left out too, as the
rollback makes it irrelevant, except for a negative line.

### TaskDelivery

A request is also its task (the id is a fresh uuid). `Acquire`, `Reuse`,
`Enqueue`, `MarkQueued` are the awaits of `_enqueue`, the `*Blind` and
`*Misses` actions what they return when Redis fails or the key expired.
`Fetch` is one XREADGROUP with COUNT per stream, `Start`, `TurnEnds`,
`WriteDone`, `Ack`, `HandlerFails` and `Crash` the life of a job. An event is in
`wire` until it is delivered; one that is never delivered is lost. `GiveUp` is
the deadline. Status keys are not expired (one hour, renewed at every change of the
status, against a wait of five minutes).

### CircuitBreaker, SharedBreaker

One tool (`_states` and Redis keys are per tool). Time is a clock that ages the
opening stamp up to `Reset`; a state held between GET and SET ages with it, so
a late SET brings back an old stamp. `shared` chooses the registry the container
built. `disturbed` records that a write met another one, Redis failed or a key
expired: without it the two registries are the same machine
(`ImplementsLocal`). `healthy` marks the moment from which the tool works and
Redis answers, for the liveness property.

### Turns

`Arrive`, `Load`, `Install` are `get_or_create` with its one await, and
`begin_turn`, which runs without suspension after it; `Speak`, `Call`, `Order`,
`Answer` the reply; `Persist`, `Save` the end of the turn. A snapshot or context
is the set of turns whose message the agent has heard. `frayed` records, per
session, the five causes that may part a session from its dialogue: overlapping
turns, eviction in mid-turn, a move to another process that left an agent behind,
and snapshots that were not written or not read. The count is kept up to 2: it is
only compared with 0 and 1. A reply from the semantic cache is an `Answer`
without `Speak`. A tool call that a check refuses records nothing and is not
modelled as a step; the sequencing check decides only `Order` here.

### ToolGate

`Call` is everything `on_tool_call` does before the tool runs: the refusals of
the sequencing, confirmation and provenance checks, the notices (duplicate,
SKU, loop), and the record of the call; it suspends nowhere. `Return` is the
rest, with the three outcomes success, error and a timeout that comes after the
order was saved ("lost"). Calls of one step, of sub-agents (`task_dispatch`) and
of two turns of a session overlap freely. `End` clears the loop window only,
`Evict` everything (`_forget_session`). A cart is what the arguments of
`create_order_tool` say, an identifier a pair of product and SKU; a tool's answer
shows a set of pairs. What `task_dispatch` returns is the conclusion the
sub-agent's model wrote: mostly prose, in which nothing is found, but JSON with any
identifiers is evidence like another tool's (`Conclusions`). `calls` is history, and each entry remembers which calls
were still out at its check and how many evictions the session had seen.

### ModelGate

One call per agent: `Ask` (queue at the semaphore), `Admit`, `Lock`, `Start`
(`_space_out`), `Answer` or `Stream`, `Retry` with `BackOff`, `Rescue` (the
fallback model), `ReadOut`, `Break` (a stream the caller leaves early), `Cancel` at
any await. `Again` is the orchestrator's repetition of the whole reply. `Tick`
is the clock; `since` counts up to the interval. `Costs` is what a call reports
in tokens, 0 for a gateway that reports none. Wire formats are left out.

### ReplyMemory

One buyer. `ReadPreferences`, `Truncate` and `Write` are the three parts of `append`
and `delete` of the file store, as `write_text` empties the file before it writes.
Processes of the same files meet at any of them, and a process may be killed
there; coroutines of one process meet at none, as nothing is awaited. What is no
JSON is read as no preferences: a file cut short, or one two processes wrote into.
The SQL store is the behaviours in which nothing comes between the parts. A turn: `Begin`, `Lookup` in the bucket of the preferences it reads,
`Ask` (which sends the hint if it differs from the last one sent in the session),
`Answer`, `Load` and `Remember` in the bucket of the preferences it reads *then*.
`Compress` cuts the context, `LoseContext` is a snapshot that was lost, `Restart`
empties `_injected_preferences` and the contexts of a process. Questions are
classes of similar ones; which likes are selected is any choice of up to `TopK`,
dislikes come first and do not count.

### TurnRecord

One session over several processes. A *fact* is what a reply can state; the
text matching is equality here (`ReplyChecks` has the rest). `Begin` takes over
the context of the agent or its snapshot, `Call` a model or tool call whose event
may leave the result out, `Answer` the reply (also one replayed from the cache,
which the checks skip), `Close` the three provenance checks and the drained trace,
`Record` the append to the log. Sources are a window of the last `Retained`
entries per kind. `gaps` collects why a process's agent knows a fact the checks
cannot know: it came with a snapshot or a hint, in an event without its result, or it fell
out of the window.

### Search

`Bootstrap` embeds the texts of the catalogue (`searchable_text`) through the cache
and writes their vectors into the index under the products. A deployed catalogue
gives each of its products a text, so a product may come back with another one;
where embedding or the index fails, the index keeps what the starts before left in
it, and the process serves all the same. `BeginSearch`, `EmbedQuery`, `SearchIndex`, `FirstStage` (gating, fusion by
reciprocal ranks), `Rerank`, `Filter` are the awaits of
`execute`. Each call may fail by itself or by an injected fault (`Activate`). What
models and BM25 answer is any order of the products. The vector of a text is written
as the text itself, so that another text's vector shows, in the cache and under a
product alike. The votes `1 / (k + rank)` of
the fusion are counted in a `Unit` that every `k + rank` divides, so that they are
added without rounding.

### Pricing, ReplyChecks, Audits

Amounts are minor units; rates are the fractions they are written as and
`Round` is half to even, so the halves the floats approximate do occur.
A `quantity` of 0 is bought once, as the tools read it (`Bought`); one below 0
is refused. `Consider` is one step of the optimiser's enumeration, in the order of
`itertools.product` (`Combinations`), `Report` what it says of the rest.

`ReplyChecks` starts from a finished tool call: `Fields` and `Sources` walk the
payload the tool returns with the card fields of its products, `Say` is a
reply that names a total of the basket and explains a duty, and `CheckReply` is
`check_reply` with the classification into
sourced, difference, sum and unsourced. A text is what the patterns of the check find
in it; the patterns themselves are not modelled. `Cent` and `Major` scale the
absolute tolerance and the threshold of a major amount to the small catalogue,
`MaxPool` is the bound on the pool of addends.

`Audits` logs such a reply as the first conversation of a run (only for the
requests in `Followed`) and given dialogues as the others, lets a run move to
another data directory and be resumed, writes its report, and then runs the
five scans (`NumberScan` and its siblings: selection by the report, audit,
gate) or collects and triages. Scans are taken with an empty pool, as they read nothing of
it, and the pool is used while a report is there and no run is under way. A
report whose directory is `"default"` also stands for an unreadable
`/health`.

### CaseRunner, AbRun, Regression, Deposits, Evaluation

A *sample* is a case on a service with its repetition. `Execute`, `Inject`,
`ConverseFaulty`, `Clear` are `execute_case`, `AbRecord`/`RegRecord` the record and the
rewriting of the partial file, `Kill` may come between any two of them or in
the middle of a write (`torn`). `AbStart` and `RegStart` are the guards and the
choice of what is still to run, fresh or resumed. `JudgePair` judges a pair in both
orders; `RegReport` and `AbReport` write the report, `*Unlink` remove the
partial file in a step of their own. `Edit` and `Deploy` change sources and
services between runs. Deposits and the row of a second judging stand only for the
step that makes them. `own` are the samples the run has executed itself, as
against those it took over from the partial file of an earlier one.

`ConditionsAreKnown` speaks of the samples in `own` only: a resumed run may
execute again, or leave out by a narrower selection, the very case whose record told that
clearing the faults had failed, and then nothing in its report says that the
samples taken over ran under faults. The source means the record to be kept
(`eval_regression.py:856`: later cases may be running with the fault), and so it
is within one run.

`Writes` reads a log as the runner does, one pending call that the next result
settles; the logs it is given are `WellFormed`: a call begins once and ends at
most once, after it began.

## Runs

| run | instance | what it shows |
|---|---|---|
| `order_book` | 3 calls, 2 buyers, API and worker, 2 SKUs with 5 units, 3 order numbers | stock, numbers, owners, the ledger |
| `task_delivery` | 3 requests, 2 questions in 2 sessions, 1 worker with 1 slot, 1 fault | all safety properties of the path |
| `task_answers` | 2 requests, 2 questions of one session, 1 worker, 1 fault | `Settled`, under fairness |
| `shared_breaker` | 2 calls, threshold 3, cooling 2 ticks | breaker, refinement, recovery |
| `turns` | 3 turns, 2 sessions, 2 processes, 1 cached agent each, 1 fault | history, confirmation, records |
| `tool_gate` | 2 turns, 2 sessions, 3 calls, 2 carts, 1 eviction | orders and refusals |
| `model_gate` | 3 agents, 2 slots, interval 2, 1 retry, 1 repetition, budget 4 | bounds, spacing, service |
| `reply_memory` | 3 turns, 2 sessions, 2 processes, 2 preferences, 2 edits, 1 fault | cache, hint, file |
| `turn_record` | 2 turns, 2 processes, 4 facts, windows of 1, 1 fault | alarms and the log |
| `search` | 3 products, 2 catalogues, one product with two texts, 2 faults, 2 restarts | vectors and labels |
| `audits` | 4 products, 2 currencies, 3 destinations, some eleven thousand requests; 2 runs of 2 cases | prices, verdicts on replies and runs, the pool |
| `evaluation` | 2 cases, 2 services, 2 runs, 1 failure, 1 kill, 1 edit | samples, comparisons, files, deposits |

Every run passes; none expects a violation. Where the code does not keep
what a comment promises, the properties name the exception (see *Where
the code and its documentation disagree*).

The bounds, and why they do:

* Orders: two placements and one cancellation, or three of a kind, overlap in
  every order; the anomalies each need at most two calls. Five units let two
  baskets of two through and refuse the third.
* Tasks: a mix-up needs two questions of one session, a duplicate two requests
  with the same words, a batch over both streams two tasks; `MaxFaults = 1`
  puts one failure at every point (`faults` bounds Redis failures, expiry and
  crashes together). Two failures in a row are left to the proofs, which hold
  for any number of them and cover every safety property of the module.
* Breaker: two calls make every pair of reads and writes overlap; the threshold
  of 3 is the default; a cooling time of 2 ticks distinguishes fresh, cooling
  and cooled.
* Turns: two turns of one session overlap while a third evicts it. With
  `MaxSessions = 1` every other session evicts; the order in which a larger
  cache evicts is modelled (`lru`) but not exercised at this size. One fault is
  enough for each of the causes, and each cause alone breaks `SeesHistory`
  when it is taken out of the property.
* Tool calls: a twin order needs two calls, its evidence a third; one eviction
  separates what was recorded before and after. The loop threshold and window of 2
  let both be reached. A sub-agent concludes without identifiers or with the one
  product that no other answer names, so that it alone can be its evidence.
* Model calls: the third agent waits for a slot while one of the others retries;
  costs of 2 against a total of 4 cross each tier.
* Memory: a reply, a change and a reuse are three turns; two changes put a
  preference in and take it out again, or add one to a file that a kill has emptied. The same statement as a dislike and as a
  like with `TopK = 1` makes them compete if they could; a bucket of one
  overflows at the second reply.
* Turn record: windows of one overflow at the second amount; two turns are the
  least that share a trace.
* Search: `Depth = 2` of three products lets a product be found by one of the
  recalls only; two faults take out two stages of a search, or one and its repetition
  after a restart. Two restarts deploy one catalogue, the other, and the first again:
  an edited text whose index fails, and the old text back.
* Audits: prices of a few cents and rates of an eighth and a half produce every rounding
  case; a freight of 32 is the least that the assumption on freights allows with
  these rates, and the budgets lie about what one and two needs cost; needs of the optimiser share products, are empty, are not shipped and
  exceed the budget. Gates: two sessions and three amounts are
  the minimum a gate wants, and both of too few and enough occur. Cases are
  symmetric, as no definition tells them apart.
* Evaluation: two runs are what a resume, a comparison or a reused partial file
  needs; the pair of a case that writes under a fault and one that reads
  without carries every dependency the cases of the repository have.
  `K = 1`, since repetitions only multiply samples; three votes decide a majority.

TLC reports a deadlock where an instance runs out of messages, calls or runs;
the configurations in which that happens do not check it (all but `order_book` and `shared_breaker`). Symmetry
is used for safety runs only.

### What the properties say

*Orders*: `StockConserved`, `NoPhantomStock` (each unit is on a shelf, in hand
or sold, and failures of a placement only lose units), `SerialNeverCollides`,
`OnlyOwnerCancels`, `OrdersImplementLedger`. *Tasks*: `EnqueuedOnce`,
`HandedOutOnce`, `AckedIsDone`, `MixupsNeedAnotherTask`, `LoadBounded`, `Settled`.
*Breaker*: `OpensOnStreak`, `RefusalsAreFresh`, `ImplementsLocal`, `Recovers`.
*Turns*: `SeesHistory`, `ConfirmsTheRightTurns` (no order in a first turn, no
returning buyer refused), `CountedWhileCached`, `RecordsFollowAgents`.
*Tool calls*: `OrdersAsShown`, `NoSilentTwin`, `RefusalsHaveEvidence`. *Model*:
`WithinBounds` (slots, and with them the overdraft of the budget), `StartsSpaced`,
`Served`. *Memory*: `HitsAreCurrent`, `DislikesAreHeard`, `KeptUnlessTorn`.
*Turn record*: `AlarmsAreReal`, `LogIsTrue`. *Search*: `VectorsAreTheirOwn`,
`AnswersAreTrue`. *Prices and audits*: `PricesAreRight` (two ways to a price
agree; the plan is the best of all choices, by brute force; gaps are real),
`FiguresAreJudged` (each figure by its real origin), `VerdictsFollowTheRun`,
`PoolIsTrue`. *Evaluation*: `SamplesAreValid`, `ComparisonsAreFair`,
`NothingIsLost`, `DepositsAreEarned`.

A property with several parts is a conjunction of named ones, so that TLC's
trace shows which part fails. Type invariants are stated and proved in the
modules of proofs and not run again by TLC.

## Where the code and its documentation disagree

Seen while modelling. The models do what the code does; the properties make the
exception explicit.

Orders, tasks, breaker, turns:

* a rejected placement leaves stock behind when a line has a negative quantity
  (`order_usecases.py:43` against its comment at 34);
* two overlapping cancellations of one order both succeed (`order.py:9`,
  `test_cancel_twice_rejected`, against `order_usecases.py:100`);
* a message that was not acked is never delivered again (`worker.py:14`,
  `redis_stream_queue.py:112` and 115, against 130; `claim_stale` has no caller);
* the late "queued" hides a finished task from the poll (`server.py:342` against
  334);
* a cooled breaker lets every call through, not one (`resilience.py:72`,
  `shared_breaker.py:72`, against `resilience.py:79`); a Redis that fails at run
  time reads as "closed", although the docstring promises the local state;
* the concurrency cap of a worker can be exceeded, up to twice, because COUNT is
  per stream;
* a session evicted in mid-turn loses that turn (`main_agent.py:201` against 247);
* an overlapping second message makes the first turn pass the confirmation check
  (`confirmation.py:4` and 27, against 64).

Model gate and memory:

* below 5 % of the budget "no more calls" are promised (`budget.py:12`); nothing
  reads `exhausted` or `FALLBACK_NOTICE`. Retries and calls of the fallback model
  are not spaced. A stream nobody begins to read keeps its slot;
* the loop detector counts only runs of one tool, and refused calls not at all;
* an identifier a sub-agent's model wrote, in a conclusion that is JSON, is evidence
  for an order (`harness_middleware.py:157`, `task_dispatch_tool.py:117`), although
  `order_provenance.py:32` says the check is about products the model thought up
  itself. `OrdersAsShown` asks for an answer of the session and takes the conclusion for
  one;
* when all preferences are withdrawn, the old hint stays in the dialogue;
* two processes that rewrite the preference file lose a change, or leave a file that
  is read as empty (`torn`); a process killed while it writes the file loses all
  its preferences (`json_file_stores.py:80` and 54; `KeptUnlessTorn` counts anew from
  there).

Search:

* after an edited text and a start whose index failed, the product is found by
  the vector of its old text, and nothing but the log says so
  (`index_bootstrap.py:34`, whose docstring promises recall by keywords instead: the
  search takes the keywords only where the index does not answer).

Pricing and reply checks:

* two needs of one name hide that one of them is not covered, and
  `combining_saving` shows 0 when combining costs more;
* `_RATE_FIELD` finds "rate" inside `separate_purchase_landed_major`, so the
  price apart is no money field, although the comment of `_walk` counts on it. It stays a
  plain number of the sources, and with one of each product it equals the sum of the
  card prices: in exactly that case a sum of card prices told as the price
  together passes as sourced and `basket_misadd` is silent. `total_quantity`
  counts as money because of "total";
* the event of `web_search_tool` has only the number of hits, so facts from the
  web are flagged; injected hints are no sources; errors are published as
  dictionaries, so addresses in them become sources against the docstring of
  `contact_provenance`; replayed replies are not checked when given, but audited
  afterwards; the audit judges every reply by the sources of the whole session,
  also those of later turns;
* `list_turns` gives the oldest 50 turns from SQL and the newest 50 from files.

Evaluation:

* `ab_run` counts failed samples as done and never runs them again; a
  prerequisite that fails when it is run again hides behind its first success;
  requirements are followed one level deep; `--only` does not look at them; a
  narrower `--only` or `--tag` on resume drops them silently;
* the preflight ignores faults left over; partial files are not written
  atomically; a resume compares prompts but not code, judge, votes or the text of
  the cases, and a regression resume compares nothing;
* a failed clearing of faults is forgotten when the judge then fails
  (`eval_regression.py:544` against its comment at 539);
* `_validate_judged_shape` accepts an empty level, which `score_case` counts as
  full marks;
* `config_key` drops start times, so runs of different code under one prompt
  are one group; `run_level_means` does not look at the criteria;
* `verify_against_run` stores deposits before it may refuse the run; overlapping
  calls of `remember_preference_tool` are matched to each other's results;
* rows that ended in an error have no session and are never audited; after a
  resume over another data directory the sessions kept from the first one drop
  out of the audit silently; `collect_bad_cases` scans only the default directory; an entry
  marked fixed that fails again stays fixed and is not listed.

## Fairness

* `TaskDelivery`: some worker keeps reading (`consume` loops, and the compose file restarts a
  worker that ended), a job that was started goes on, and a waiting request polls
  its status whenever its session's bus is silent for two seconds, which is
  assumed to happen again and again. Events, deadlines and failures are owed by
  nobody.
* `SharedBreaker`: the clock ticks, calls that were let through end (the tool
  timeout bounds them), and new calls keep coming. Weak fairness throughout.
* `ModelGate`: the clock goes on and each call makes progress: the event loop
  runs what is ready, the client's time limit ends a request, and a stream
  that was begun is read or left by the agent. Which outcome a call has is
  free.
* The other modules state safety only.

## Proofs

| theorem | property | for every |
|---|---|---|
| `OrderBookProofs!TypeCorrect` | `TypeOK` | number of calls, processes, SKUs, units, baskets |
| `OrderBookProofs!StockIsConserved` | `StockConserved` | same |
| `OrderBookProofs!NoUnitIsSoldTwice` | `NoPhantomStock` | same |
| `OrderBookProofs!SerialIsSafe` | `SerialNeverCollides` | same |
| `OrderBookProofs!OrdersRefine` | `OrdersImplementLedger` | same |
| `OrderBookProofs!OwnerOnly` | `OnlyOwnerCancels` | same |
| `RedisProofs!TypeCorrect` | `TypeOK` | number of requests, sessions, workers, slots, faults |
| `RedisProofs!NoDoubleEnqueue` | `EnqueuedOnce` | same |
| `RedisProofs!NoDoubleRun` | `HandedOutOnce` | same |
| `RedisProofs!AckedTasksAreDone` | `AckedIsDone` | same |
| `RedisProofs!MixupsAreExplained` | `MixupsNeedAnotherTask` | same |
| `RedisProofs!LoadIsBounded` | `LoadBounded` | same |
| `RedisProofs!BreakerTypeCorrect` | `BreakerTypeOK` | number of calls, threshold, cooling time |
| `RedisProofs!NoStaleRefusal` | `RefusalsAreFresh` | same |
| `RedisProofs!OpenAfterStreak` | `OpensOnStreak` | same |
| `RedisProofs!StepsLikeLocal` | `ImplementsLocal` | same |
| `RedisProofs!RefinesLocal` | `CircuitBreaker`'s specification | same |
| `TurnsProofs!TypeCorrect` | `TypeOK` | number of turns, sessions, processes, cache size, faults |
| `TurnsProofs!NeverUncounted` | `CountedWhileCached` | same |
| `TurnsProofs!RecordsAreForgotten` | `RecordsFollowAgents` | same |
| `TurnsProofs!DialoguesGoOn` | `SeesHistory` | same |
| `TurnsProofs!RightTurnsConfirm` | `ConfirmsTheRightTurns` | same |
| `GateProofs!TypeCorrect` | `TypeOK` | number of turns, sessions, calls, carts, evictions, window |
| `GateProofs!OrdersComeFromAnswers` | `OrdersAsShown` | same |
| `GateProofs!TwinsDoNotPass` | `NoSilentTwin` | same |
| `GateProofs!RefusedOnEvidence` | `RefusalsHaveEvidence` | same |
| `GateProofs!GateTypeCorrect` | `GateTypeOK` | number of agents, slots, retries, interval, budget, costs |
| `GateProofs!GatewayIsSpared` | `WithinBounds` | same |
| `GateProofs!StartsAreSpaced` | `StartsSpaced` | same |
| `ReplyMemoryProofs!TypeCorrect` | `TypeOK` | number of turns, sessions, processes, preferences, edits, faults, bucket size |
| `ReplyMemoryProofs!ReusedRepliesAreCurrent` | `HitsAreCurrent` | same |
| `ReplyMemoryProofs!NoDislikeIsLost` | `DislikesAreHeard` | same |
| `ReplyMemoryProofs!AcknowledgedChangesLast` | `KeptUnlessTorn` | same |
| `RecordProofs!TypeCorrect` | `TypeOK` | number of turns, processes, facts, calls, faults, window of sources |
| `RecordProofs!NoFalseAlarm` | `AlarmsAreReal` | same |
| `RecordProofs!TheLogIsTrue` | `LogIsTrue` | same |
| `RecordProofs!PricesHold` | `PricesAreRight` | products, rates, tariffs, requests, budgets |
| `RecordProofs!RepliesHold` | `FiguresAreJudged` (and `PricesAreRight` in the audits) | same, and tolerances, words of the buyer, remarks |
| `RecordProofs!VerdictsHold` | `VerdictsFollowTheRun` | same, and cases, dialogues, thresholds, runs |
| `RecordProofs!PoolStaysTrue` | `PoolIsTrue` | same |
| `SelectionProofs!OwnVectors` | `VectorsAreTheirOwn` | products, texts, catalogues, faults, starts |
| `SelectionProofs!SearchesAnswerTruly` | `AnswersAreTrue` | same, and depth, limits and the constant of the fusion |
| `SelectionProofs!CountedSamplesAreValid` | `SamplesAreValid` | cases, prerequisites, faults, selections, repetitions, runs, kills, edits |
| `SelectionProofs!FairComparisons` | `ComparisonsAreFair` | same, and criteria, judgements and votes |
| `SelectionProofs!RecordsSurvive` | `NothingIsLost` | same |
| `SelectionProofs!EarnedDeposits` | `DepositsAreEarned` | same, and logs and what the arms can answer |

They rest on the named assumptions of the modules (`OrderBookAssumption` and so
on) and on nothing else:

* constants have their types, bounds are natural numbers, and special values
  (`None`, `NoAgent`, `Closed`, ...) are not members of the sets they are told
  apart from;
* the sets that are counted are finite: calls, processes, requests, agents,
  preferences;
* a model call reports no more tokens than the context window holds
  (`ModelGate`: the costs have a maximum, which need not be known);
* an order has at least one line (`ToolGate`: `Order.__post_init__` refuses an
  empty one, so an empty cart never becomes an order);
* what the fusion counts votes in is divided by every `k + rank` (`Search`; the
  factorial of the last one would do);
* prerequisites come before the cases that need them and have none of their own
  (`CaseRunner`: the runners follow requirements one level deep, and the cases of
  the repository need no more); a selection is in the order of the cases
  (`Regression`), a log is `WellFormed` (`Deposits`);
* freight is no small change (`Pricing`): the share that one more item in the
  parcel saves is more than what rounding in two currencies can make of it. The
  code's least freight is 2500 fen and its dearest currency 9.1 yuan, some
  sixty times what is needed. Without it, TLC finds parcels in which
  rounding makes buying together a cent dearer;
* a pool of addends has room for the money shown of a basket of two, which is
  24 amounts at most (`ReplyChecks`: `_MAX_CLASSIFY_POOL` is 60); and in a
  currency worth more than the yuan, half a cent of a yuan and the duty on half a
  cent of the base are together no more than half a cent (the code's
  rates are 4.7 yuan or more, its duties 13 % or less; the two currencies below the
  yuan are excepted by the property, too);
* an audit wants at least one amount before it judges (`Audits`), and the
  dialogues in the log are finite.

Each argument rests on an inductive invariant (`IInv`, and `StockInv` for the
stock), whose parts are named here.

* Orders. Order numbers are safe because of two facts beyond the types: the
  used numbers are an initial segment, so that "rows plus one" is unused
  (`Numbering`), and with one slot the call that holds a number is the only
  placement in flight, so the number is still unused when it is saved
  (`Serial`). `Numbering` also gives the refinement: a save that hits no row
  is the ledger's next `Place`, a cancellation its `Cancel`. The two laws of the
  stock are inductive with these. `Total` adds up by counting pairs of an index
  and a unit, so that the theorems about cardinalities apply and no induction
  is needed; the proof follows shelves, hands and orders through each action.
* Tasks. `Cursor` says that neither an entry's number nor the group's cursor lies
  beyond the end of its stream, so that a new entry is unread; `HandedOutOnce` is
  then inductive.
  `Keyed` says that a request past the idempotency check owns the key of its
  fingerprint unless that key lapsed: this is what excludes a second owner, and
  it is not implied by `EnqueuedOnce`, which looks only at tasks already added.
  `Told` follows a job's status from its start, which is what makes an API's "queued"
  late. `Waits` ties the task a request waits for to the key of its
  fingerprint. `Entries` (no two tasks share an entry) bounds what one
  XREADGROUP can bring, and with it the load.
* Breaker. `Stamps`: no state anywhere, in the store *or held by a call that has
  not written it yet*, is younger than the last failure. Without the held states
  the invariant is not inductive, as a late SET could bring one back.
  `Undisturbed` says the same of the contents: until two writes meet, a call
  that will write holds what one operation of `CircuitBreaker` makes of the
  store. Its SET is then that operation, every other step a stutter or an
  operation in one, and this is the refinement (`StepIsLocal`).
* Turns. `CountedWhileCached` needs only the type of the count (`CountsOK`): a
  count is positive from the `Install` on and is reset together with the agent
  by eviction and restart. `Ordered` says which turn built which agent, where
  a turn's agent is and what was answered before it came. `FirstTurns` says that
  before the first answer there is nothing to restore and any count is of the
  turn under way. `Dialogues` says where the dialogue of a session that nothing frayed is
  at each moment: in one cached agent, in a draft, in the store; with a turn
  between two of these places, in both. This is the longest proof, as each
  place is disturbed by each step of a turn.
* Tool calls. `Records` says that the three trackers are functions of the
  calls since the session's last eviction (`CalledIsTrue`, `ShownIsTrue`,
  `OrderedIsTrue`). What a check sees is then evidence, which `History` keeps
  for every call after the trackers were emptied; `RunningWasBeside` is what makes
  the list of exceptions of `NoSilentTwin` complete.
* Model gate. `SlotsKept` counts every call between admission and release,
  whatever it does there; `OneSleeper` says that the one call asleep under the
  lock waits for just what is left of the interval. `MainBound` adds to the tokens spent
  those that the calls served by the main model may still cost, so the switch
  to the fallback bounds the overdraft.
* Memory. `HitsAreCurrent` is not inductive: `Stored` and `Holds` say of every
  entry, in a bucket or in the hands of a turn about to append, what the
  property says of a hit, and `Own` follows a turn's own reply to its bucket.
  `OneAtATime` and `Recorded` tie the hint on record to the dialogue.
  `Drafted` says that a file about to be written is the one read, changed once,
  `Alone` that a write under way, unless two have met, is the only one, and that what it
  read is what was acknowledged.
* Turn record. `Sourced`: what a process's agent knows is a source of its
  checks, a gap, or on the trace or in the words of a turn that has still to be
  observed. `Logged`: whatever is a source of some process's checks is one for
  the audits, counting the closed turns whose record is not written yet.
  `Heard`: a turn that shares its bus with nobody holds one event per call.

* Prices. `BestSoFar`: the best combination is one that can be paid, and none
  of those considered so far is better; with the last one it is the best of all.
  That `Combinations` reaches all of them, each once, is a lemma about sets put
  in order, and that `Better` has no cycles one about keys. The duty
  of a basket follows line by line (`Rounding` and the lemmas on sums), that one parcel
  is no dearer, duties apart, from the freight alone.
* Replies. `TalkOfTheBasket` ties the reply to the basket quoted. What is shown of
  a basket of two is little (`MoneyIsLittle`), so that the classification leaves
  none of it out; two amounts that add up exactly have the best key there is
  (`ExactPairIsBest`), so a sum of two cards is told to be a sum of two. A duty
  explained by its base is off by the two roundings only.
* Audits. `RecordsKept`: what is logged is counted in numbers, every row names
  the conversation its case had or, after an error, none. From it follows what
  a scan finds in the selected conversations (`Follows`), at the moment it
  speaks; after that nothing changes that the verdicts are about. `PoolIsTrue` needs
  `Filed` of every step that collects, and reads the rest off the steps.
* Search. `Underway`: where a search is, the strategy named so far is that of
  the rankings that made its order (`NamesWhatRanked`), and candidates that nobody
  ranked are none. That fusion agrees with the votes is a lemma on sums; that a
  vector is its text's own one on selections by place (`BatchIsTrue`). The catalogue served
  is one of those deployed, so a start that builds the index puts each product under a
  text it has, and one that fails leaves each under a text it had.
* Evaluation. `RunShape`: what a run has still to execute it has not executed
  and will not execute twice. `Premises`: what a sample requires is
  stored when it counts as executed, or is to run again before the sample. This
  is not implied by the property, which looks back only. `FaultsTold`: faults that are
  on and not declared are told of by the record of an earlier sample, at every
  stop between two of them. `Prompts`: every file of an A/B run, not only the
  current results, is of one prompt and arm, as a resume takes it over. `Whole` and
  `Course` say what is in the plan and in which order; `Ledger` that a partial
  file goes only when its results are in a report, at the two stops of
  the unlinking, too. `Judgement` counts the pairs still to judge, `Readings`
  says of each reading that it is of its conditions or tells why not.

The library's induction theorems cannot be instantiated here (an operator as a
parameter). Where a proof needs induction over a finite set, `OrderingProofs` states it
for a *family of sets*: one that has the empty set, and every other
subset of which it has what remains without a chosen element, has the whole
(`SetInduction`, by the cardinality of a least counterexample). This gives what the folds of the community modules
sum up to (`SumStep`, `SumLinear`, `SumOrder`), the places of what is put in
order (`OrderFacts`), and what a selection keeps (`ThoseFacts`).

Some definitions are written for the provers, and TLC checks them as they are:
`Picked` (`ReplyMemory`) and `Of` (`TurnRecord`) name the subsequence in a set by
its members and their order, as `SelectSeq` is opaque to the provers; `bucket`
is a function on the scopes that have been stored, so that no set of all scopes is needed.

Every invariant and every action property of the runs is stated by one of these
theorems. Only model-checked are the liveness properties `Settled`, `Recovers` and
`Served`: fairness and `ENABLED` are out of the provers' reach.

Not proved, either, is that the pure operators compute what Python computes for every
input (`Round` against `round`, the classification against its loops): the
theorems are about the operators, and the operators were read off the code.

## What is left

The models stand. Worth adding if the code changes: a second fault in the runs of
`Turns` and `TaskDelivery` (the proofs cover it), a larger session cache, and the
inside of the external clients once they keep state.

## Not modelled

The regular expressions of the text checks and the drift detector (it publishes
a notice at every n-th round and nothing reads it); prompts, skills and tracing;
query rewriting and every floating-point score, which are free choices; the
inside of the clients of embedding, reranking, vector search and web search
(they answer, fail or answer in part); the mode without a queue, in which the API
awaits the turn itself; WebSocket and read-only endpoints; the frontend, seed
data, and the scripts that only compute statistics of files.
`claim_stale` and the dead letter after repeated deliveries exist in the code and
are never reached.

## Running

    tlc -workers 2 -config Turns.cfg MCTurns
    tlapm TurnsProofs.tla

With two workers the runs take from a few seconds to about two minutes
(`audits`, `evaluation`, `task_delivery`).
