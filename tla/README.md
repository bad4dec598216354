# Verification of the alert triage system

TLA+ models of the alert triage system in this repository: how a payload becomes an
alert, how the alert gets from `POST /ingest` into a background task or into the `ALERTS`
work queue, how a worker takes it from there, how the LangGraph pipeline investigates it
and may be cancelled, which tools are asked about it, how its progress reaches the
analyst's browser, and how the services authenticate each other. The modules are
translated from the source; `PROJECT.json` maps each definition to the lines it stands
for.

    tlc -workers 2 -config wal_durable.cfg MCIngestWal      # any row of "Runs"
    tlapm IngestWalProofs.tla                               # any *Proofs module

## 1. The system

    client ──POST──▶ API process ──────────▶ JetStream ALERTS ──▶ triage worker ──▶ verdict
                      │   ▲                     ▲                   │  run_triage
                      ▼   │ scan                │ publish           ▼  (LangGraph)
                   Redis write-ahead log ── reconciler           Redis: cancelled flag,
                                                                 checkpoints, event seq
    browser ◀─ws─ gateway Durable Object ◀─ BFF fan-out ◀─ NATS live events
                            └── watch, close, cancel ──▶ BFF: watcher registry (Redis)

| Component | State it keeps | Operations | What is hard about it | What makes it correct |
|---|---|---|---|---|
| Ingest WAL and reconciler (`services/_runtime/ingest_reconciler.py`, `app/_runtime_glue.py`) | Redis keys per alert: entry, lease, attempts, next-attempt time | `write_ahead`, inline publish, `mark_published`, `run_once` / `_process_one`, `_move_to_dlq` | every await is a scheduling point between several API processes; leases expire; acks get lost; each Redis call can fail | a 202 is remembered until the attempts are used up; one reconciler per alert; the log drains; leases come free |
| JetStream client (`nats_broker.py`) | stream contents, de-duplication window, deliveries | `publish`, `pull_subscribe` | an ack may be lost after the store | as its callers use it |
| Triage worker (`triage_worker.py`) | run loop, semaphore, in-flight tasks | `run`, `_dispatch_one`, `handle_message`, `stop`, `_drain_inflight` | redelivery after `ack_wait`, late acks, SIGTERM and kill -9 | nothing leaves the queue unhandled; permits balance; shutdown drains; the queue drains |
| Pipeline (`services/triage_pipeline.py`, `mitre_router.py`) | `TriageState`, the checkpoint of its thread | six nodes, the ReAct loop, `run_triage` | a flag that comes between a check and an await; a model that asks for too much; runs repeated on one thread | bounded by its budget; cancellation prompt; every run ends |
| Alert normaliser (`components/alert_normalizer.py`, `auto_ingest.py`, `detection_finding_builder.py`) | none; a loop over a nested payload | expand, detect, parse, build the finding | envelopes in envelopes, a bounded loop, vendors that look alike, five severity scales | the vendor inside is found; an envelope changes nothing of its alert |
| Entity extractor, router, burst (`components/entity_extractor.py`, `mitre_router.py`, `agents/enrichment_node.py`, `context_cache.py`) | the context cache | extract, route, build parameters, parallel tool calls | a model that omits what the source said; tasks that fail one by one; a cache shared without single flight | the right tools, each once; a record of each; nothing too old |
| Cancel registry (`cancel.py`) | pending and cancelled keys in Redis, grace timers per worker | `request_cancel`, `revoke_cancel`, `_fire_after_grace`, `is_cancelled` | the requests of one alert are spread over workers that do not know each other's timers; GET then SETEX; a task cancelled while Redis has its command; a key and a timer that end together | a revoked cancel does not fire; the others do |
| Event sequencer (`event_seq.py`), BFF fan-out and watcher registry (`frontend/lib`), Durable Object (`gateway/src`) | counters; four registry keys; ticket, watched alerts and grace timers of an object | `next_seq`, register / deregister, watch, unwatch, close, push, logout | calls nobody waits for, posts that are retried, keys that expire or are deleted between two awaits, hibernation and eviction | no gap and no reordering for a registered watcher; a watch the object believes in is registered; a logout closes sockets |
| Service tokens (`jwt_service.py`, `jwt_bootstrap.py`, `secret_store.py`, `secret_publisher.py`) | the row of secrets, a bundle per process, the verify cache | rotate, notify, refresh, mint, verify, revoke | refreshes that overlap with rotations; a cache read before an await and written after it | bundles move forward; what is accepted was good; the cache keeps its limit |
| API jobs and persistence (`app/main.py`, `alert_persistence.py`, `audit.py`) | alerts, jobs, verdicts, raw payloads; Redis or dicts | ingest (single, auto, batch), background tasks, nine read endpoints | tasks of one request run one after the other and stop at an exception; readers between two writes | complete means a verdict; answers are honest; every accepted alert is decided |
| Sessions (`frontend/lib/session.ts`) | session and refresh keys | rotate, logout | read-modify-write over several awaits | reuse and logout end a session for good |
| Connectors, content guards, prompts, telemetry, evaluation | none that others depend on | | | |

`PROJECT.json` lists all of them under `components`, and under `hazards` the places where
this code is hard to test.

## 2. Modules

| Module | Models | |
|---|---|---|
| `DurableIngest` | what ingest promises: a 202 only for a held alert, an owed alert held until it is forfeited | abstract specification |
| `IngestWal` | `enqueue_via_nats` and `IngestReconciler` | one action per awaited call |
| `TriagePipeline` | `run_triage` and the graph, for one alert | one action per node; two for the nodes that check the flag and then call out |
| `TriageWorker` | `TriageWorker` and the pull consumer it reads | one action per await of the run loop and of a task; a run of the graph is one step |
| `LiveEvents` | `_publish_phase`, the fan-out, the watcher registry and `AnalystSession`, for one alert and one analyst | one action per message, call or awaited step |
| `TriageApi` | the endpoints of `app/main.py`, `_run_triage_background` and `AlertPersistence` | one action per awaited call of the store |
| `CancelRegistry` | `CancelRegistry` and the loop that feeds it, for one alert | one action per Redis call, and a clock |
| `ServiceTokens` | the secret store, the publishers that rotate it, `ServiceTokenAuthority` and `JWTService`, for one audience | one action per transaction, query or await |
| `AlertNormalizer` | `resolve_alert_for_auto_ingest`, `expand_auto_ingest_payload`, the parsers, the finding builder | one action per pass of the loop and per outcome |
| `MitreRouter` | the routing table and `get_tools_for_techniques` | operators |
| `EntityExtractor` | `extract_entities` and the parameter builders | operators, over `MitreRouter` |
| `BurstEnrichment` | `run_burst_enrichment` with the context cache, over `EntityExtractor` | one action per await of a tool's task |
| `SeqOps` | Python's list comprehensions and lists without repetitions, for the modules above | operators, as folds |
| `MC*` | instances for TLC | |
| `IngestWalProofs`, `TriagePipelineProofs`, `TriageWorkerProofs`, `LiveEventsProofs`, `TriageApiProofs`, `ServiceTokensProofs`, `CancelRegistryProofs` | the theorems | |
| `AlertProofs` | the theorems of the normaliser and of the burst, and the lemmas about lists that both need | extends `BurstEnrichment` and `AlertNormalizer`, whose specification is `NormalizerSpec` |

`TriagePipeline` takes the number of a burst's records as any number up to a bound, and the
flag as something that may be set at any moment; `BurstEnrichment` and `CancelRegistry` are
what stands behind these two. `TriageApi` hands an alert to `enqueue_via_nats`, which is
`IngestWal`.

Each property has a *mutant*: a variant of one action with a plausible bug (a dropped
guard, a missing reset), defined just before the action it stands in for. Putting it in
the action's place makes TLC find the property violated. Mutants are not part of `Next`.

### IngestWal

A request handler is at `new`, `publish`, `mark`, `accepted` or `dead` (died before the
answer). A reconciler goes `idle → scan → read → count → check → publish → mark → release`
and branches to `drop` (an entry that is not JSON), `retry`, `dlq`, `cleanup` and
`unwind` (an exception on its way through the `finally` of `run_once`). The Redis keys
are `pending`, `lease`, `attempts` and `backoff` (the alerts whose `:next` lies ahead);
the stream is a count of stored copies and a set of remembered message ids. `HasDlq` are
the reconcilers that have a `dlq_publisher`; `startup()` gives none to any, and the runs about
what becomes of an alert have none either. `forfeited` remembers the alerts that the code may
let go of: those whose attempts were used up without a confirmed publish, and those whose
entry Redis did not take, lost (its TTL) or returned damaged.

Details that matter and are kept: `mark_published` deletes the lease whoever owns it and
leaves `:next` alone; attempts are counted before the backoff is tested; a Redis error in
`SET NX` may leave the lease taken; `INCR` failing makes the job go on with 1; after an
error the rest of the batch is dropped; `_move_to_dlq` deletes the entry whatever became
of its publish; `write_ahead` answers True even when it failed.

Faults are one action alternative each, of the kinds in `FaultKinds`, so a run chooses
which are possible and how many. Time is abstract: TTLs and the backoff may run out at
any step. The seven delays of `_BACKOFF_SECONDS` are one "not yet", and `MaxAttempts`
stands for their number.

### TriagePipeline

The variables are the channels of `TriageState` that steer the graph, with lists as their
lengths: `tools_called` is `called`, the `tool_calls` of the last message are `plan`. The
severity budgets are the real ones. What the model answers (to go on or not, how many
tools) and what the routing table prescribes is any value within bounds. `RunTriage`
resets the channels that `initial_state` names; `cancelled` and `tocontinue`, which it
does not name, keep their value if there is a checkpointer. `generate_verdict` looks at
the `cancelled` channel and not at the flag, so its own LLM call is not preceded by a
check; `CancelIsPrompt` counts the awaits of the loop.

### TriageWorker

A delivery is a message with its delivery number. JetStream (external) hands out what is
neither settled nor outstanding and has deliveries left; an ack of any delivery settles the
message; a nak frees it; `ack_wait` frees it without being asked. `run()` fetches before it
looks at its semaphore, so messages wait in hand (`held`). A crash drops the tasks of a
process and leaves its deliveries outstanding. `ack_wait` may run out at any moment, under a
running task too: nothing extends it. A worker without a subscription returns from `run()`;
the model lets only workers in `Stoppable` do so, since a fleet that never comes up drains
nothing.

The CONTROL consumer, which only ends in `CancelRegistry`, is the environment's `SetFlag`.
The module's `main()` is not wired in the repository yet (it raises `SystemExit`); what is
modelled is the class.

### LiveEvents

A session is a Durable Object. The object is named after its ticket (`gateway/src/index.ts`)
and a ticket is redeemed once, so a session has one socket in its life. The object takes
further messages while a `handleWatch` waits, so `watching` counts how many of them are at
each of `snapshot → register → reply`, and `asked` the watch messages begun (at most
`MaxWatches`). `calls` counts the calls on their way with nobody waiting: `unwatch`,
`disconnect`, `cancel`, and a `watch` whose answer was not heard; each may be carried out
late, after others, or never. A post that was not answered stays in `late` and may reach the
socket after its retry or after later events. `withdrawn` remembers that an unwatch was
carried out after the latest registration. The
registry is `meta`, `watchers`, `userDos` and `doAlerts`; `registerWatch`,
`deregisterWatch` and `refreshTtl` are one transaction each, `deregisterDo` reads first
and deletes later (`dereg`, and the labels of `push`). The fan-out has one loop per
subject (`Lanes`): it takes a message, looks up the watchers, and waits until each push
has been answered, pruned or given up after three attempts; an exception of a registry
call counts as a failed attempt, an exception of the lookup drops the message.

Details that are kept: `refreshTtl` ends with an `HSET` that brings a deleted
`watcher_meta` back with one field and no TTL (`bare`), to which no post is possible and
which names no tenant to clean up after; `unwatch` leaves `user_dos`; no push refreshes
`user_dos`; hibernation loses `ticket` and `watchedAlerts` (all watch, unwatch and cancel
handling then stops, pushes do not); eviction runs no handler. `event_seq` and the
snapshot's contents are only shown and are left out, but the window between snapshot and
registration is there. NATS is taken to deliver to the one member it chooses, and the
tokens of the internal calls to be valid.

### TriageApi

A request walks through its rows: `PutAlert`, `QueueJob`, `RecordRawPayload`,
`DispatchTriage`; an exception of the store ends it with a 500, and Starlette then runs no
background task, those of earlier rows included. After the response the tasks of a request
run one after the other; `set_job(running)` is outside the `try`, so its failure stops the
tasks that follow. A client calls one endpoint and reads what that endpoint reads, in its
order. The store is Redis (`durable`) or dicts that a restart empties. `hurt` remembers that
a write failed or the process died, after which a job may stay as it is. What raises after
`set_job(complete)` (the cost record, the webhook's payload) turns the job to failed.

### CancelRegistry

Time is counted down: `pending` and a task's `left` are what remains. The workers share one
durable consumer, so a request or a revocation may be taken by any of them, and each has its
own `_timers`. A worker's calls and timers are `task[w][i]`: a request writes the pending key
and becomes the timer, which sleeps, reads the key, writes the flag and deletes the key.
`existing.cancel()` ends a task at its await. If that was a call of Redis, the command stays
on its connection (`sent`) and is carried out at any later time (`Arrive`), also after the
next request or the revoke has returned; and the task still runs its `finally` clause
(`unwind`), which pops whichever timer is registered by then, so that a newer timer may run
without being in `_timers`. `Slack` is the five seconds that the pending key outlives the
timer; a task that is later than that is one of the faults. `revoked` remembers how the last
revoke found the alert: `"in time"` if its `DELETE` came before any timer had read the key.
Only tests call `revoke_cancel`; the class is modelled as it stands.

### ServiceTokens

A secret is the number of its rotation, so "older" is `<`. `rotate` locks the row, the
commit fires the trigger, and `_on_notify` adds a refresh task; `_refresh_lock` makes them
queue. A process that finds no Postgres uses a store of its own, whose secret nobody else
has (`Private`). `verify` is two steps: the cache or the decoding, and, after the deny-list
was read, the answer and the insertion into the cache. `Wirings` says whether the store has
an `on_rotate`: with one, `initialize()` listens and a notification becomes a refresh;
without one, as `startup()` builds it, there is no listener at all. `tokens` has both.

### AlertNormalizer

A payload is a sequence of layers, each with the key that holds the next one, the vendor's
marks on it, and whether anything else is beside that key. What is in the innermost layer is
a set of facts and a severity, a word or a number. Each parser is applied to a layer and keeps
the facts that it has a field for: GuardDuty's reads no user, process, hash or destination,
CrowdStrike's no source address, the generic one the host only; identity is what
`_stable_alert_id` hashes. A coercion by a model answers any severity word, with or without a
host. `OwnAlert` is what the vendor's endpoint makes of the vendor's JSON alone, with which
`EnvelopeIsTransparent` compares what comes out of `/ingest/auto`.

### MitreRouter, EntityExtractor, BurstEnrichment

The routing table is the one of the source. Of a text only what the regular expressions find
is kept. `_heuristic_extract` puts addresses and hashes through a Python set, so their order
is any; a model may answer anything in `ModelAnswers`. The techniques handed on always
include the one the source declared. A tool's task reads the cache, asks its source with a
timeout, and stores what it got; an answer is told apart by when its source was asked, which
is what `BoundedStaleness` counts from. A task that raises, in the summary
of a cached or of a fresh result, has no record, by `return_exceptions=True`. A model whose
structured answer is None makes the node raise before there is a burst; that is the `Crash` of
`TriagePipeline`.

## 3. Runs

| Run | Question | Instance |
|---|---|---|
| `wal_durable` | `AcceptedIsHeld`: is a 202 forgotten before it is forfeited? `KeepsContract`: does the path implement `DurableIngest`? | 1 alert, 2 webhooks for it, 2 reconcilers as `startup()` builds them (no dead-letter publisher), 3 faults of any kind, `MaxAttempts` 2 |
| `wal_live` | `ReconcilersExclusive`, `AcceptedIsDelivered`, `LogDrains`, `LeaseIsFreed` | 1 request, 2 reconcilers, one with a dead-letter publisher and one without, 4 faults of every kind but a lease running out under its owner, fair |
| `pipeline` | `LoopWithinBudget`, `StepsBounded`, `CancelIsPrompt`, `RunsEnd` | all severities, burst ≤ 5, plan ≤ 4, a checkpointer, flag at any moment, a crash, two runs |
| `worker` | `SettledIsHandled`, `PermitsBalance`, `StoppedIsDrained`, `ShutdownCompletes`; `QueueDrains`: a message leaves the queue, or its deliveries are used up, which takes a fault or a run longer than `ack_wait` | 2 workers, 1 permit each, 1 message (genuine or poison), 3 deliveries, 3 faults, one worker may be stopped, `ack_wait` at any moment, fair |
| `live` | `NoGapWhileRegistered`, `InOrder`, `WatchedIsRegistered`, `RevocationCloses` | 1 session, 1 BFF process, 2 events, 2 watch messages, a logout, 1 fault of any kind (post, BFF call, Redis, expiry, eviction) |
| `api` | `CompleteHasVerdict`, `AnswersAreHonest`, `AcceptedIsDecided` | 1 alert, a batch that names it twice with a bad row between, another request for it, a payload that is no alert, 1 client, 2 polls of a stream, any 1 fault, one after the job is complete included, Redis or dicts, NATS on or off |
| `tokens` | `AcceptedWasGood`, `CacheBounded`, `BundlesAdvance` | with and without `on_rotate`, 2 rotators, 2 rotations, 2 tokens, 2 calls of verify, a cache of one, 2 ticks, 1 fault |
| `cancel` | `RevokeIsFinal`, `CancelTakesEffect` | 2 workers, 2 calls or tasks each, a grace of 1 tick, a slack of 1, 1 fault, any number of requests and revokes, fair |
| `enrich` | `PlanIsExact`, `BoundedStaleness`, `PrescribedIsReported` | the plan of every pair of techniques, found by text or by a model; 2 bursts run to their end on alerts that share a query, a TTL of 2 ticks and a timeout of 1, 1 fault |
| `normalise` | `InnerVendorWins`, `EnvelopeIsTransparent` | every envelope of up to two layers and wrappers in wrappers to two beyond the bound, around ten vendor shapes; every severity and every set of the eight indicators, bare and in a wrapper; with and without coercion |

and the two runs in which TLC refutes something the repository says (each has a finding in
`PROJECT.json`, with the line in full; section 5 lists the other disagreements):

| Run | The code | The text |
|---|---|---|
| `wal_wired` (`NeverLost`) | the reconciler that `startup()` builds has no `dlq_publisher`; at the last attempt it only deletes, and an alert answered 202 is nowhere, with a Redis that keeps what it is given | RFC 0001:121 "never losing an acknowledged alert" |
| `pipeline_resume` (`ResumesAfterCrash`) | `ainvoke(initial_state)` restarts the thread; the burst is repeated | `triage_pipeline.py:714` "resumes the same thread" |

**Why the bounds are enough.** The interesting ingest cases need two parties inside one
alert's keys (two requests, two reconcilers) and an entry that runs through a failed publish,
a retry and a dead letter: `MaxAttempts` 2 makes both branches of the attempts test happen,
and three faults let a lost ack, a failing Redis call and a crash fall together. Alerts share
no keys, so one is enough; the reconcilers' batches are the only place where two would meet,
and an exception there only postpones the others. For the pipeline the real budgets are used;
a burst of 5 exceeds the LOW budget and a plan of 4 exceeds what is then left, so the cut-offs
are all met. For the worker, three deliveries of one message let two tasks have it at once and
a third find it settled; with 1 permit and `ack_wait` the loop waits for a permit with the
next delivery in hand; three faults use up the deliveries. Several messages and larger batches
are left to the proofs of section 4, which cover every other size of these three. Two live
events are what a gap or a reordering needs, and one fault of any kind, with the calls nobody
waits for and the late posts, already makes 1.8 million states; the theorems allow any number,
or as many as leave a push one attempt. Sessions of one analyst meet only in the fan-out's
wait for the slowest push and in the TTL of shared sets, which may run out at any step anyway;
`live` has one. Two watch messages let two `handleWatch` calls overlap and an unwatch fall
between them.

For `api`, a batch that names an alert twice and a request for the same alert make a run
overlap with another ingest and with another run, and give one request two tasks; alerts share
nothing but that list. A cache of one and two tokens make every insertion an eviction; two
rotations are what a refresh that reads between them needs. Two workers with two tasks each
let a request meet a timer of its own worker that still unwinds, and one of the other's. In
`enrich` a timeout of one tick and a TTL of two let an entry be stored late, expire and be
replaced within four ticks.

**Symmetry** is used in safety runs only: reconcilers in `wal_durable` and
`wal_wired`, rotators, tokens and calls in `tokens`.

**Deadlock** is not checked where the system may stop: a run of the pipeline that has
ended, workers with an empty queue, a burst or a payload that is done, a process at the end
of the bounded time.

**Fairness.** Weak fairness of the request handler, the reconciler, the graph's nodes, a
worker's run loop and its tasks, an API handler and its background tasks, a grace timer and
the call that awaits Redis: each is an asyncio coroutine the event loop resumes, and LLM,
tool, Redis and broker calls have timeouts. `LiveEvents` needs no fairness: `RevocationCloses`
says what holds once the loop of the subject is done. Weak fairness of lease expiry (while no
owner is at work), of the backoff deadline, of `ack_wait` for a message that nobody has in
hand, and of the tick in `CancelRegistry`: these are clocks. No fault is ever forced to
happen, and each run has a finite number of them, so liveness means: once faults stop. In
`CancelRegistry` the step of some timer, the answer to some call and the tick are fair.
`QueueDrains` says that the message leaves the queue or its deliveries are used up, since
after `max_deliveries` JetStream leaves it there (section 5). `LogDrains` leaves out an entry
without `__subject__`, which raises at every scan until its TTL ends it.

## 4. Proofs

TLAPS checks these for every value of the constants: any number of alerts, requests,
reconcilers, workers, messages, permits, sessions, events, clients, rotations, tokens, bursts,
faults, any length of the grace period, any list of techniques and any envelope. Every
invariant and every action property that a passing run checks is the statement of one of them.

| Theorem | Under | Along |
|---|---|---|
| `IngestWalProofs!TypeCorrect` | | each action keeps `TypeOK` |
| `IngestWalProofs!Durability`: `Spec => []AcceptedIsHeld` | | `DurableInv` |
| `IngestWalProofs!Implements`: `Spec => KeepsContract` | | the same, with `ContractStep`: a step holds one more alert, answers one request or lets go of one forfeited alert |
| `IngestWalProofs!Exclusion`: `Spec => []ReconcilersExclusive` | one request per alert, no lease running out under its owner | `LeaseInv` |
| `TriagePipelineProofs!TypeCorrect`, `WithinBudget` | | `BudgetInv` |
| `TriagePipelineProofs!GraphIsShort` | | `StepsInv` |
| `TriagePipelineProofs!CancelTakesEffect` | Redis readable | `PromptInv` |
| `TriageWorkerProofs!TypeCorrect` | | |
| `TriageWorkerProofs!NoAlertDropped`: `Spec => []SettledIsHandled` | | `HandledInv` |
| `TriageWorkerProofs!InflightIsBounded`: `Spec => []PermitsBalance` | | `PermitsInv` |
| `TriageWorkerProofs!ShutdownIsClean`: `Spec => []StoppedIsDrained` | | `DrainedInv` |
| `TriageApiProofs!CompleteIsBacked`: `Spec => []CompleteHasVerdict` | | `StoredInv` |
| `TriageApiProofs!ToldTheTruth`: `Spec => []AnswersAreHonest` | | `StoredInv`, `HonestInv` |
| `LiveEventsProofs!TypeCorrect` | | `FlowInv` |
| `LiveEventsProofs!WatchIsKnown`: `Spec => []WatchedIsRegistered` | | `SocketInv`, `WatchInv` |
| `LiveEventsProofs!DeliveredInOrder`: `Spec => InOrder` | `OneBff` | `FlowInv`, `AheadInv`, `LateInv` |
| `LiveEventsProofs!NothingLost`: `Spec => []NoGapWhileRegistered` | `OneBff`, and fewer faults than a push has attempts | `TriesInv`, `DueInv`, `LateInv` |
| `LiveEventsProofs!LogoutCloses`: `Spec => []RevocationCloses` | fewer faults than a push has attempts | `DoomInv`, `TriesInv`, `SocketInv` |
| `ServiceTokensProofs!OnlyForward`: `Spec => BundlesAdvance` | | `BundleInv` |
| `ServiceTokensProofs!AcceptsOnlyGood`: `Spec => []AcceptedWasGood` | | `VerifyInv` |
| `ServiceTokensProofs!CacheKeepsLimit`: `Spec => []CacheBounded` | the evicted share is not more than one in the cache's size | `CacheInv` |
| `CancelRegistryProofs!TypeCorrect`, `RevokeHolds`: `Spec => RevokeIsFinal` | | `RevokeInv` |
| `AlertProofs!CacheIsFresh`: `Spec => []BoundedStaleness` | | `StaleInv` |
| `AlertProofs!PlanRight`: `Spec => []PlanIsExact` | | `InputInv` |
| `AlertProofs!ReportComplete`: `Spec => []PrescribedIsReported` | | `ReportInv`, `StaleInv`, `InputInv` |
| `AlertProofs!VendorIsFound`: `NormalizerSpec => []InnerVendorWins` | `PayloadsOK`: payloads are `VendorShaped` | `ExpandInv` |
| `AlertProofs!EnvelopeTransparent`: `NormalizerSpec => []EnvelopeIsTransparent` | the same | `ExpandInv` |

Why the properties need strengthening:

- `AcceptedIsHeld` speaks of answered requests, but what could break it are deletions by
  others. `DurableInv` says that the alert is held or forfeited from `write_ahead` on, that
  whoever is about to delete the entry (`mark`, `drop`, `dlq`, `cleanup`) has a stored copy or
  a forfeited alert to show for it, and that a remembered message id means a stored copy, or a
  de-duplicated publish would count for nothing.
- `ReconcilersExclusive` is not carried by the lease alone, since `mark_published` deletes it
  without owning it. `LeaseInv` says that a reconciler that lost its lease that way also lost
  the entry, and that no entry comes back as long as no request for the alert is still to
  come. That is where one request per alert is needed; section 5 says what happens otherwise.
- `LoopWithinBudget` and tool_budget staying non-negative depend on each other: `BudgetInv`
  adds that spent plus left never exceeds the grant and that a planned batch is within what is
  left.
- `StepsInv` is a potential argument: each trip round the loop costs two super-steps and at
  least one unit of budget. The bound is 35 super-steps for CRITICAL. Whether the recursion
  limit of the LangGraph version in use allows that many is not claimed here.
- `PromptInv`: the flag outlives the run, so whoever was late is followed by a check.
- `HandledInv` connects an outgoing ack with a returned `handle_message`, so it is immune to
  redelivery; `PermitsInv` that a fetch never lands on a delivery in hand; `DrainedInv` that
  fetched messages wait only inside the dispatch loop.
- `StoredInv`: a task is past `put_verdict` only with a verdict, and nobody changes a
  request's list of tasks once they run, because they run after the response. `HonestInv`
  carries what a client has read to its next read: stored records stay stored, except when a
  process with nothing but its dicts restarts.
- `BundleInv`: a refresh that has read the row is not behind the bundle it will replace, and a
  process that listens or is notified has its bundle from the row.
- `CacheInv` adds that the cache is finite; the eviction drops at least one of a full cache
  because the share is not larger than the cache.
- `RevokeInv`: after a revoke in time there is no pending key, no request under way or on the
  wire that could write it, and no timer past its read, on any worker and whether or not
  `_timers` still knows it.
- `WatchInv` has the registration from the moment it is made, through the overlapping
  `handleWatch` calls and those whose answer is lost; `SocketInv` says that a whole object is
  deregistered only once its socket is on its way out.
- `DoomInv`: a socket that is to be closed and is open stays where `dosForUser` finds it, and
  its revocation is in an inbox or being posted.
- `AheadInv`: no browser has an event that the loop of its subject has not taken yet, and the
  loop takes them in order (`FlowInv`); nor has a post that may arrive late (`LateInv`).
  `DueInv` accounts for every event since the registration: got, dropped by a failing lookup,
  being posted, or still in the inbox; `TriesInv` that each failed attempt was a fault, so
  that no post is given up.
- `VerifyInv`: what is in the verify cache is good, and a token that was revoked when a call
  began stays on the deny-list until the call reads it.
- `StaleInv`: no call is past its deadline, because the tick waits for `wait_for`; so an entry
  is stored within the timeout and expires TTL later, whoever reads it in between.
- `InputInv`: the techniques of a burst are those that were named, or T1082. The rest of
  `PlanRight` is about `ToolsFor` itself, for every list of techniques. `ReportInv` has the
  records in the order of what was fired; a burst that is over has no call left that could
  change what it was built from.
- `ExpandInv`: the loop has made as many passes as it has gone down layers and leaves the
  envelope only for the vendor's own JSON, of which the chosen parser makes what the vendor's
  endpoint makes (`OwnIsParsed`). Only a ready-made finding gets to a model.

The hypotheses. `OneBff` is the deployment of one BFF process: the processes of a queue group
take events of one alert independently and may overtake each other. `live` with two
members of `Fanouts` shows it: `InOrder` is violated. `VendorShaped` is the
grammar of the payloads that the parsers' docstrings and tests show, in an envelope without
marks of its own; `FieldsKnown` has only facts that an observable can be made of, whether or
not the vendor's parser reads them. Together they are `PayloadAssumption`, which TLC evaluates
on every payload of `normalise`. `RoutingAssumption`, that a priority tool is one of the
technique's tools, has no parameters: it is a fact about the table of `mitre_router.py`, which
TLC evaluates. `AlertAssumption` and `ExtractorAssumption` only say that techniques are pairs
of numbers.

Lists. `Distinct` and `Only` are folds, and the library's induction theorems cannot be used
(they take the predicate as an operator). `AlertProofs` states an induction as one about a set
of numbers (`SetInduction`): if 0 is in it and it is closed under successor up to n, it has
0..n, because the least number it lacks cannot exist. `IterExists` and `FlatIterExists` give
the sequence of the fold's accumulators, so that `DistinctProperties`, `FlattenRange` and
`OnlyProperties` follow by that induction: what the result has, that it repeats nothing, and
that what comes first in the list comes first in it.

Only model-checked, because the prover does not reach them: the liveness properties
(`AcceptedIsDelivered`, `LogDrains`, `LeaseIsFreed`, `RunsEnd`, `QueueDrains`,
`ShutdownCompletes`, `AcceptedIsDecided`, `CancelTakesEffect`), and the two violations.

## 5. What the models show besides

Behaviours met while modelling, on which no run is spent; the models have them unless it is
said otherwise. Where a text of the repository says something else it is quoted.

*Ingest.*
- A webhook sent twice: one request's `mark_published` deletes a reconciler's lease, the
  other's `write_ahead` restores the entry, and a second reconciler publishes at the same
  time (`ingest_reconciler.py:25-26` "prevents duplicate publishes"). JetStream's message id
  then de-duplicates within its window.
- A `SETEX` of `write_ahead` that fails together with the inline publish leaves an alert that
  was answered 202 in no store; so does an entry whose TTL runs out before it is published.
- Attempts are counted per scan, so an entry that scans find waiting is dead-lettered before
  its backoff schedule is used up (`tests/test_ingest_wal.py:7-8` "after the configured
  backoff schedule is exhausted").
- Neither publisher of alerts attaches `X-Service-Auth`, so that their messages are of kind
  `unsigned`, which the worker terminates.

*Pipeline and worker.*
- With a checkpointer, `cancelled` survives from an earlier run whose flag has expired, and a
  verdict is cancelled that nobody asked to cancel (`triage_pipeline.py:464-465` "a cancel
  signal landed while we were running").
- A run longer than `ack_wait` (60 s, never extended) is joined by a second one
  (`README.md:17` "without duplicate investigations").
- A message whose deliveries are used up stays in the work queue, and nothing calls `_to_dlq`
  (`triage_worker.py:120-121` "before its own dead-lettering kicks in").

*Live events.*
- A browser watches, unwatches and watches the alert again, and the unwatch call, for which
  `handleUnwatch` does not wait, is carried out last: the object believes that it watches,
  ignores further watch messages and is on no list (`snapshot-subscribe.ts:9-10` "starts
  pushing every subsequent event to the DO"). `WatchedIsRegistered` excepts this case by name
  (`withdrawn`).
- An event published between the snapshot and the registration is in neither. RFC 0001:91
  ("replays from `last_seq + 1`") and `main.py:588-591` ("never lose or duplicate events")
  promise a replay that no code makes.
- A post that was not answered may arrive after its retry or after later events.

*API.*
- What raises after `set_job(complete)` turns the job to failed, while the verdict endpoint
  goes on answering with the verdict.
- A failure of Redis in the middle of a batch loses the background tasks of the rows before
  it, although they are stored as queued; so does a failing `set_job(running)` for the tasks
  that follow. With NATS, nothing sets the job or the verdict, and the job stays queued.
- What the audit trail keeps is the sanitised payload (`audit.py:13` says bytewise original).

*Tokens.*
- `startup()` passes no `on_rotate` (`_runtime_glue.py:98-101`), so `initialize()` starts no
  listener and a rotation is never seen by the running process (`secret_store.py:34-35`
  "workers see new secrets within seconds of a rotation"). `tokens` checks both wirings.
- `startup()` passes no `revoked_jti_checker` either: the process it builds revokes nothing,
  and what `AcceptedWasGood` says of the deny-list is about the class.
- `mint` signs with the secret of the minting service's own audience, so a token for another
  audience does not verify.
- A token signed with a new secret is refused by a verifier that has not refreshed yet. Two
  publishers rotate twice per interval (`secret_publisher.py:20`), which halves the overlap.
- A cached token is accepted until it expires, through any number of rotations.
- After a lost LISTEN connection nothing opens another one.

*Cancellation.*
- The requests of one alert are spread over the workers (`triage_worker.py:77`), and a request
  on one does not call off the timer on another, which fires when its own period is over
  (`cancel.py:16-17` "Calling it twice within the grace window resets the timer"). On one
  worker too, the `finally` of a cancelled task may drop the newer timer from `_timers`.
- A revoke between a timer's read of the pending key and its write of the flag does not stop it,
  nor does one that comes before a cancelled task's `SETEX` is carried out (`cancel.py:18-19`
  "aborts a pending cancellation"). `RevokeIsFinal` says that these are the only ways.
- A second request whose `SETEX` fails has already called off the first.
- A reopened tab is another Durable Object, whose `cancelScheduledCancel` cannot see the
  timer of the first: the triage is cancelled under the analyst's eyes
  (`gateway/README.md:47-48` "if the user reopens their tab in time, abort").

*Enrichment.*
- `priority_tool` only orders the tools (`mitre_router.py:44-45` "fires first alone"); all are
  gathered together. Two bursts that miss the same entry both ask its source.
- Threat intelligence takes the first hash or address in the order of the indicators, and the
  observables list the source address before the hash: a file alert with a source address is
  looked up by that (`enrichment_node.py:100` "Prefer hash IOCs for file-based techniques").
- Every address that begins with `172.` counts as private.
- If the model lists the declared technique second, the parameters and the time window are
  those of the first.

*Normaliser.*
- A ready-made DetectionFinding is GENERIC to `detect_source` (`alert_normalizer.py:441-442`),
  so with the default setting a model rewrites it: its observables are dropped and its id is
  random (`docs/api-reference.md:140` lists "OCSF `class_uid` 2004" among the shapes that are
  auto-detected). `InnerVendorWins` and `EnvelopeIsTransparent` except it by name.
- GuardDuty's parser reads no user, although `evaluation/golden_alerts.json:80-83` has one;
  neither the endpoint of the vendor nor `/ingest/auto` keeps it.
- `{"result": {...}}` alone is taken for a wrapper, and a Splunk alert becomes a generic one
  with a random id. Splunk ids fall back to the name of the search, which all its results
  share. A declared source around an envelope gives all alerts the id of an empty source id.
- A key `result` around a vendor's JSON, with another key beside it, is taken for Splunk's: the
  parser then reads the layer below it, wherever the alert is.
- Splunk hashes without a process name are dropped; a numeric severity of a generic payload
  is MEDIUM; a GuardDuty severity that is a word is a 422.

## 6. What is not modelled

- Redis absent altogether (`self._client is None`): write-ahead and reconciler are off,
  and ingest is the inline publish.
- The 24 h `max_age` of the ALERTS stream.
- In `TriageWorker`, that a service token can expire between two deliveries, which turns
  a retry into a TERM; and that the worker keeps no verdict (`put_verdict` is called in
  `app/main.py` only).
- Per-tenant choice of the checkpointer TTL, contents of prompts, alerts and tool results,
  telemetry writes.
- In `LiveEvents`: loss of a NATS message between broker and BFF, a 4xx answer of the
  gateway (a configuration error), the process-local numbers of `event_seq`, and the
  snapshot's contents.
- In `TriageApi`: health and metrics, authentication, the phases a stream reports, and the
  tenant check, which no ingested alert can fail because none has a tenant.
- In `ServiceTokens`: the cryptography, more than one audience, the environment store.
- In `AlertNormalizer`: titles, descriptions, tactics and timestamps; in `EntityExtractor`:
  processes, which no tool is asked about.
- `ContextCache.invalidate`, which nothing calls; the wording of summaries.
- `gateway/src/nats-bridge.ts`, which nothing calls. The BFF's sessions and tickets.
- Connectors and the query builder (I/O with vendors), content guards, prompts, the front
  end's pages, scripts and evaluation: pure text processing or I/O.

## 7. Plan

1. *Sessions and tickets*: rotation against logout and reuse; single use of tickets.
2. *Composition* of `IngestWal` and `TriageWorker` on one stream: an accepted alert is
   handled or dead-lettered.
3. *Live events*: an abstract specification of what a watcher sees, and a refinement proof.
4. *Event sequencer and checkpointer factory*: the process-local fallback, per-tenant savers.
5. Proofs: the liveness properties' safety parts (what a run still owes is bounded), and
   `WithinReach` from the shape of an envelope alone.
