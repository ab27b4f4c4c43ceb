# WooriCard FDS Gateway: specification

TLA+ modules, TLC runs and TLAPS proofs about the fraud-detection gateway in `src/`.
The gateway answers scoring requests over REST (and, prepared but not attached, gRPC), and runs a
Kafka worker: call events come in from a relay, are folded into a Redis feature store, some of
them are scored with a Triton model and a rule engine, and the score and the resulting action
(BLOCK, ALERT, APPROVE) are published to two topics. This project models the worker, the scoring
route and everything their decisions depend on, and the process around them; the rest is listed
with the reason it is left out.

## 1. Inventory

| Part | Source | State | Operations | Talks to |
|---|---|---|---|---|
| Event pipeline worker | `app/workers/fds_event_pipeline.py` | consumer, producer, `_stt_counters`, `_running`, the coroutine's locals | `startup`, `run_forever`, `_handle_parsed_event`, `_publish`, `_publish_dlq`, webhook, `shutdown`, lag task | Kafka, the feature store, the scoring pipeline, the webhook |
| Event mapper | `app/workers/event_mapper.py`, `app/models/fds_event.py` | none | `parse_event`, `entity_key`, `should_trigger_scoring`, `to_scoring_request` | called by the worker and the sync service |
| Feature store sync | `app/workers/feature_store_sync.py` | Redis hashes `fds:feature:{entity}` and `wooricard:session:...` | `sync_from_event`, `finalize_session`, `get_context_features` | Redis |
| Feature store service | `app/services/scoring/feature_store_service.py`, `app/routers/internal.py` | the same feature hashes | PUT (`upsert_context_features`), GET (`fetch_context_features`, mock features) | Redis |
| Scoring pipeline | `app/services/scoring/fds_scoring_pipeline.py`, `ml_inference_service.py`, `feature_preprocessor.py` | none | `score`, `infer` | feature store service, Triton, rule engine |
| Rules | `rule_weight_engine.py`, `app/workers/rule_evaluator.py` | none | two `evaluate` functions | pure |
| Lifespan | `app/main.py` | the tasks and services of the process | startup, shutdown, `/health` | all of the above |
| Rate limiter | `app/middleware/rate_limit.py` | per client, the timestamps of the last minute | `check` | the REST route |
| Scoring API | `app/routers/fds_score.py`, `app/grpc/fds_scoring_servicer.py` | none | POST `/v1/fds/score`; the gRPC server's task | guards, limiter, scoring pipeline |
| Guards | `app/middleware/security.py` | none | API key, internal API key, internal network | the routes |
| Metrics, masking, tracing, settings | `app/metrics.py`, `app/utils/*`, `app/config.py` | gauges and counters | | |

The worker handles one record at a time, in one coroutine. Nothing in it is locked: what makes it
hard is that every `await` is a place where the task can be cancelled, the process can die, a PUT,
a key expiry or another gateway can change Redis, or the consumer group can commit or take the
partition away. Kafka offsets are committed in the background (`enable_auto_commit=True`), the
position already counts the record in hand, the consumer starts at the end of the topic when the
group has no offset, the producer is not idempotent and Redis commands are sent one by one.

What makes each part correct:

* worker: urgent events end in a decision or in the DLQ, and as many are lost as there were crashes,
  stops and failed sends, no more; no offset is jumped over; no action without its score, no webhook
  without its action; duplicates only through redelivery; every record is eventually brought to
  some end while a loop runs;
* feature store: the keyword count does not lose hits; and what a fault may cost is bounded: how many
  hashes are left without a TTL, how many CRITICAL events lose their BLOCK on the way through Redis,
  how many session hashes stay behind the newest event;
* event mapper: the scoring cadence follows the call, the store key is the user's when known;
* rate limiter: no window of a minute holds more admissions of a client than the limit, and only
  admitted calls count against a client;
* scoring API: Redis never fails a score, the guards shield the pipeline in the order of the
  route, and the worker's two reads of a hash do not contradict each other;
* lifespan: nothing runs on a client that is closed, a stop completes and leaves nothing open, and
  the consumer group sees a commit on leaving exactly if the loop was alive;
* rules: flag, score, action and matched rules agree, and risk never lowers the action.

## 2. Modules

| Module | Models | Depends on |
|---|---|---|
| `FdsRules` | `RuleWeightEngine.evaluate`, `RuleEvaluator.evaluate` as operators on integers | |
| `MCFdsRules` | harness: a customer whose indicators only rise; the three rule properties | `FdsRules` |
| `FdsRulesProofs` | theorems about `FdsRules` | `MCFdsRules` |
| `EventMapper` | an `FdsEvent` as far as decisions read it; key, trigger and request | |
| `FeatureHash` | one Redis feature hash and the commands on it | `EventMapper` |
| `FdsEventPipeline` | the worker with Kafka, Redis, Triton and the process around it | `FdsRules`, `FeatureHash` |
| `FeatureStoreSpec` | abstract: a store into which an event is folded once, in one step | `EventMapper` |
| `FeatureStoreRefinement` | the refinement mapping from the hashes to `FeatureStoreSpec` | `FdsEventPipeline` |
| `PipelineProperties` | properties that count, compare orders or speak of the future, and two documented claims | `FeatureStoreRefinement` |
| `MCPipeline` | event records, partitions and fault budgets of the runs | `PipelineProperties` |
| `FdsEventPipelineProofs` | type correctness and the inductive invariant | `FdsEventPipeline` |
| `FeatureStoreProofs` | the CRITICAL events without BLOCK, the refinement of `FeatureStoreSpec` | `FdsEventPipelineProofs`, `PipelineProperties` |
| `DeliveryProofs` | what faults may cost: TTLs, urgent events, duplicate actions, stale session hashes; the keyword count | `FeatureStoreProofs` |
| `CadenceProofs` | the STT counters against the log | `DeliveryProofs` |
| `GatewayLifecycle` | `lifespan`, startup and shutdown of the worker, its tasks, REST calls and `/health` | `WorkerProcess` |
| `WorkerProcess` | abstract: what the consumer group sees of a process | |
| `GatewayLifecycleProofs` | which clients are open and which tasks run at each await of `lifespan`; the refinement of `WorkerProcess` | `GatewayLifecycle` |
| `ScoringCalls` | the two callers of `score`: the REST route behind its guards and the worker, on one store | `FdsRules`, `FeatureHash`, `RateLimiter` |
| `MCScoringCalls` | bodies, events and fault budgets of its runs | `ScoringCalls` |
| `ScoringCallsProofs` | calls behind the limiter, failures of Redis, the worker's two reads | `ScoringCalls`, `RateLimiterProofs` |
| `RateLimiter` | `InMemoryRateLimiter.check` with a wall clock that may be set | |
| `MCRateLimiter` | the clients of its run | `RateLimiter` |
| `RateLimiterProofs` | the invariants of its three theorems | `RateLimiter` |

### State and actions of `FdsEventPipeline`

`pc[g]` is the await at which the coroutine of gateway `g` waits; the code between two awaits
belongs to the action that ends the first of them.

| Action | Code |
|---|---|
| `Fetch` | `async for` hands over a record, `parse_event`, the branch on the event type; records without an entity key end here |
| `FetchUndecodable` | `value_deserializer` raises inside the `async for`: the loop ends |
| `SyncRead`, `SyncHset`, `SyncExpire`, `SyncEnrich` | the four Redis commands of `sync_from_event`; the last one is followed by `_stt_counters` and `should_trigger_scoring` |
| `ReadContext` | `get_context_features`, `to_scoring_request` |
| `Infer` | `FdsScoringPipeline.score`: any answer of Triton, clamped, rules, response validation |
| `PublishScore`, `PublishAction`, `SendAlertWebhook` | the two `send_and_wait` calls and the webhook |
| `FinHset`, `FinExpire`, `FinEnrich` | `finalize_session`, then `_stt_counters.pop` |
| `PublishDlq` | `_publish_dlq`, with the key built outside its `try` |
| `RedisFault`, `TritonFault`, `KafkaFault` | the awaited call raises, a Redis command before or after it took effect; the `except` clauses of `run_forever`, or the end of the loop if it was the DLQ send |
| `KafkaLostAck` | the broker has the message, the producer does not know |
| `Relay`, `Assign`, `AutoCommit`, `Revoke` | the topic and the consumer group |
| `Expire`, `UpsertHset`, `UpsertExpire` | key expiry, the PUT endpoint |
| `Crash`, `Stop`, `Start` | the process; `Stop` is the end of `lifespan`: cancel, await, stop the consumer (which commits) |

`outcome` and `fault` are history variables: the program keeps no such record. `outcome[r]` says how
the handling of `r` last ended: scored, not worth scoring (`quiet`), session end, ignored (no entity
key), dead-lettered, dropped (no DLQ), poison (it ended the loop), lost (the process or the DLQ send
failed), skipped (`latest`). Nothing tells an operator of the last two. `PassedHasOutcome` therefore
only says that offsets are never ahead of the records handed out; `LossesBounded`, which looks at the
topics, says how many urgent events may be in none of them. `fault[k]` counts environment faults
against the budget `MaxFault[k]`.

`RateLimiter` has one action for each way `check` ends (`Admit`, `Refuse`; it has no await and
holds a lock), and three for the clocks: `Tick` moves real and wall time together, `SetBack` and
`SetForward` adjust the wall clock. `time`, `at`, `back` and `forward` are history variables: the
code only knows `wall`, the properties speak of real time.

### State and actions of `GatewayLifecycle`

`at` is the await in which `lifespan` waits, from the startup check of Triton over the two Kafka
starts to the seven awaits of the shutdown; `open` is the set of clients that are open. `worker`,
`lag` and `grpc` are the tasks: the loop of the worker polls, handles a record or has died; the lag
report sleeps or awaits the consumer; the gRPC task binds, serves, and after `cancel` is in its
grace period. `BeginShutdown` is the code after the `yield`, `JoinWorker` the `await` of the
cancelled task, which raises if the loop had died; `StartFails` and `StopFails` end `lifespan`
with the rest undone; `Exit` and `Kill` end the process. uvicorn is external: it resumes
`lifespan` when it was told to stop and the last request is answered.

`FdsEventPipeline` reduces all this to `Start`, `Stop` and `Crash`. `WorkerProcess` states what
these assume of a process: it joins, its loop may die, and it leaves with a commit only if the
loop was alive. `GatewayLifecycle` is shown to implement it (`IsWorkerProcess`).

### State and actions of `ScoringCalls`

A REST call is `Receive`d in one action: body parsing, API key, limiter (the operators of
`RateLimiter`), validation and `_resolve_entity_key` run without an await. `Fetch` is the read of the
hash, `Infer` the call of Triton with rules and response; `FetchFault` and `InferFault` are their
failures. The worker's `WorkerSync`, `WorkerEnd`, `WorkerContext`, `WorkerFetch` and `WorkerInfer` are
the steps of one record that touch the hash or call `score`; `FdsEventPipeline` has them command by
command, with what comes before and after. `Put` is the PUT endpoint behind its guards, `Expire` a
key expiry. `since`, `nth`, `tritonFailed` and `untouched` are history.

### The abstract store

`FeatureStoreSpec` has two operations, `Sync` of an event and `Finalize`, each one step. The mapping
takes the live hashes as the known entities and forgets the TTLs: then `SyncHset` and `FinHset`
are the operations and every other action is a stutter. This holds as long as one gateway writes
and no PUT or expiry intervenes. It fails with a second gateway (a hash that was read is
overwritten by an older one plus one event) and with an expiry (an entity is forgotten); TLC shows
both when `one_gateway` is given a second gateway and a rebalance, or an expiry.

### Abstractions

* An event is a record of what decisions read: its form (see `EventMapper`), keys, type, flag,
  number of phishing keywords, and the numbers in its metadata or that they do not convert. Texts,
  timestamps, campaign names and reasons are left out.
* `transfer_sum_30m` is only read by the matched rules; what matters to the worker is whether
  `float()` can read it back, which `FeatureHash` keeps.
* Keyword flags are in quarters (the only multiplier is 1.25), weights in percent.
* A TTL is none, full or the short one after a session end; expiry may come at any time after it
  was set. The session hash is represented by the event that wrote it last.
* The read of the hash inside `score` only reaches the model's input and the matched rules; the
  model's answer is any element of `MLScore`, so `FdsEventPipeline` folds the read into `Infer`;
  `ScoringCalls` has it, with the rules.
* In `ScoringCalls`, HSET and EXPIRE of one writer are one action and the STT counter is any count:
  the reads there cannot tell. Sums are in the step of the mock features (50 000), and the mock's
  hash of a name is a constant function `Seed`.
* In `GatewayLifecycle`, what the loop does with a record is one state, `handling`.
* `bind_event_context`, metrics and logs are left out.

## 3. Runs

Deadlock checking is off where a bounded log, clock or number of calls ends.

| Run | Instance | Shows |
|---|---|---|
| `rules` | default thresholds; indicator values on both sides of each | `BlockIsExplained`, `FlagAgreesWithAction`, `RiskNeverLowersAction` |
| `one_gateway` | 1 gateway, 2 records out of seven kinds: of the session and of the user, with a sum that does not convert, two that end the loop, one without a key; one crash, stop, failed Redis call and failed or repeated send; model below and above ALERT; webhook on; fairness | `TypeOK`, `ActionMatchesScore`, `AlertsFollowActions`, `EscalationDecided`, `DuplicatesBounded`, `LossesBounded`, `EventuallySettled`, `StoreIsAtomic`: the hashes implement `FeatureStoreSpec` |
| `two_gateways` | 2 interchangeable gateways, 1 partition, 4 records out of an escalation in one session and the end of another; a rebalance, a crash | `PassedHasOutcome`, `DuplicatesBounded`, `StaleSessionsBounded` |
| `feature_store` | 1 gateway, session and user entity, 2 records; one failed Redis call, inference, expiry, PUT and crash | `EscalationDecided`, `CriticalBlocked`, `KeywordsNotUndercounted`, `UndyingBounded` |
| `cadence` | 5 records of two calls of one user, scoring every second STT event, no DLQ | `CadenceMatchesLog` |
| `rate_limiter` | 2 interchangeable clients, a limit of 2 in 3 ticks, 5 admissions each in 5 ticks; the clock is set back twice and forward twice | `LimitPerWindow`, `RefusalJustified`, `LimitAfterForwardSteps` |
| `two_reads` | 3 events, one REST call, the internal API key guard on as by default, no other guard; one failed read, inference, PUT and expiry | `EvidenceAgrees`, `RedisNeverFailsScoring` |
| `rest_calls` | all guards on, 3 calls of 2 clients, five kinds of body, with and without the key, a limit of 1 in 2 ticks; one failed read and inference | `PipelineShielded`, `RefusedForOwnCalls` |
| `lifecycle` | all settings on, 2 REST calls, one failing start or stop call, a loop that may die at any time, kills, restarts; fairness | `LifecycleTypeOK`, `NoUseAfterClose`, `CleanExit`, `StopCompletes`, `IsWorkerProcess` |
| `dlq_claim` | one malformed or keyless record | violates `ParseFailureReachesDlq` |
| `merge_claim` | one writer, no faults; STT events that know only the session and ones that know the user too | violates `SessionMergedIntoUser` |
| `health_claim` | the worker on, no faults but a loop that ends | violates `HealthShowsPipeline` |

Bounds. `MaxLog` is the number of records per partition. A gateway handles records strictly one
after the other, so what one record can do to another goes through the offsets, the feature hash and
the counters; two records of one entity are enough to have one handled, replayed or skipped while
the next is in hand, and the cadence run has five so that a counter wraps twice. Each kind of fault
occurs at most once, at every possible place. `two_gateways` has four records, so that each of two
sessions can have one that is handled and an older one that is written late or read again; with its
rebalance and its crash both sessions can be left behind at once, and a partition that has moved
comes back, when the new owner crashes, to the gateway that still holds its old record. `MLScore`
has a score below and one above the ALERT threshold in `one_gateway`, so that a replay may decide
differently; in `feature_store` the CRITICAL events are the ones that are blocked. In `rate_limiter`
a client has the six instants of two full windows, and the clock is set back by less than a window
and can come to lie before the timestamps already stored; two steps forward and a tick make a
window, which lets a client have up to four admissions in one window of real time, and five would be
possible. Clients and gateways are only compared for equality, in the code and in the properties, so
they are symmetric. The REST calls of `rest_calls` are interchangeable for the same reason; three of
them with a limit of 1 give a client one admitted call, one refused and one after the window.
`lifecycle` needs no bound but the calls: the process may start and stop for ever. One failing call
per process is enough, since `lifespan` ends with it.

Fairness (`FairSpec`, run `one_gateway`). Weak fairness of each live worker's own next step: the event
loop resumes a coroutine whose awaited call has returned or raised. A call that never returns is
therefore excluded; the HTTP clients have timeouts, the Redis clients have none. Weak fairness of
assigning an unowned partition to some member: the group coordinator does that. Nothing is assumed
about starting a process again, commits, faults or the relay; `EventuallySettled` therefore excuses
a partition whose loop has ended or that no live worker can take, which is what the code offers: a
dead loop stays dead until the process is restarted. It counts a lost or skipped record as settled:
it is about progress, `LossesBounded` about losses.

Fairness in `lifecycle`: `lifespan` is resumed when what it awaits has returned, which the closes and
the cancelled tasks do (a stop of the consumer that hangs is excluded, as above), and every REST
call is answered, for which Triton's client has timeouts. Nothing is assumed about the loop, the
lag report or the gRPC task: `StopCompletes` holds although these may do nothing at all.

### What disagrees with the documentation

* `dlq_claim`: `docs/RUNNING.md:101` sends what cannot be parsed to the DLQ. `_publish_dlq` takes
  `sessionId` from the raw record and calls `.encode` on it (`fds_event_pipeline.py:233`); if it is
  `null` or a number the call raises outside any `try`, nothing is published and `run_forever` ends.
* `merge_claim`: `schema_constants.py:29` calls the session key temporary and merged into the
  user key. `entity_key` picks one or the other for each event and no code brings the hashes together:
  after an event that knows only the session and then one that knows the user, with nothing failing,
  the user's hash has the keyword hits of the second event alone.
* `health_claim`: `docs/RUNNING.md:74` lists `kafka_fds_pipeline` as a result of the health check,
  and `RUNNING.md:94` has the pipeline run in the background once the setting is on. `main.py:121`
  answers with the setting: it stays true when `run_forever` has ended with an exception.

## 4. Proofs

`FdsRulesProofs` proves for every setting of the thresholds that a riskier request or a higher
model score never gets a milder action (`RiskMonotone`: the override always ends in BLOCK, and
without it both thresholds are monotone), that a BLOCK below the thresholds carries the rule that
explains it (`BlocksExplained`), and that flag and action agree if the two thresholds have the
values of the literals in `_score_to_flag` (`FlagsAgree`).

`FdsEventPipelineProofs` proves, for all gateways, partitions, events, configurations, log lengths
and fault budgets, from the assumptions named in the modules (constants have their types, `None`
is neither a gateway nor an offset):

* `TypeCorrect`: `Spec => []TypeOK`. `TypeOK` alone is not inductive: a worker indexes the log with
  the record in hand and the store with its key. `Shape` adds `ControlOK` (a worker holds a record
  exactly outside `down`, `dead` and `idle`; the record is in the log; past parsing it is valid and
  has an entity key) and `OffsetsOK` (a partition has a position exactly while it has an owner).
* `OffsetsAccounted`, `ActionsMatchScores`, `AlertsAreDecided`, `UrgentDecided`: from the inductive
  invariant `IInv`. It adds `OutcomeOK` (an outcome is borne out: a scored record has an action, a
  dead-lettered one is in the DLQ, a quiet one is not urgent) and `StagesOK` (a worker about to
  publish an action has its score in the topic, a worker about to call the webhook its action).
  `OutcomeOK` turns the statement about urgent events into one about outcomes; `StagesOK` makes the
  order of the two topics inductive.

The proof of `IInvNext` has three kinds of steps: a `WorkerStep` (between fetching a record and
letting it go, whatever is called, fails or is repeated), steps that record or reach nothing new
(`StandIInv`), and the four that do: `Assign`, `Fetch`, `FetchUndecodable` and the loss of a worker.

`RateLimiterProofs` proves `NeverOverTheLimit` and `RefusalsAreJustified` for every number of
clients, limit, window and history of calls and clock steps. `LimitPerWindow` is not inductive: that
a new admission keeps the limit rests on the filtered list still holding every admission of the
last window of real time. `ForgottenOK` says so, and is itself kept because, by `AgesOK`, the age a
timestamp has on the wall clock differs from its real age by no more than the clock was set.

`ForwardStepsPaidFor` is the bound with a clock that was set forward (`LimitAfterForwardSteps`), for
`Window > 0`, which the code's 60.0 is. It cannot be had from the buckets, which forget what a jump
made old. The invariant (`SteadyLimit`) is about a steady clock, real time plus all steps forward so
far: it is never set back, a timestamp is never older on the wall clock than on it, and so no window
of it holds more than `Limit` admissions. How far the clock had been set at each admission is in no
variable, so the invariant says that a history of it exists. A window of real time spans at most
`SpannedWindows` windows of the steady clock; sending each admission to its place in one of them
(`SpannedBound`) gives the bound.

`FeatureStoreProofs` proves what holds of the store with one gateway, for every set of events,
partitions and entities and every other fault:

* `CriticalIsBlocked`: with one gateway, at most as many events the relay flags CRITICAL get another
  action than BLOCK as there were expiries and PUTs, if `malicious_app_weight_threshold` is at most
  0.92, the weight `to_scoring_request` derives from the flag. The flag travels through Redis, from the
  hash after the HSET over the hash as read before the inference to the verdict. What is inductive
  (`BlockInv`) counts, besides the events already let through (`Softened`), the one in hand if the flag
  is missing where it should be at that await (`Unsafe`). An event becomes unsafe only by an expiry or
  a PUT, and each of these disturbs no more than the one record the worker has in hand
  (`DisturbCosts`).
* `AtomicStore`: with one gateway and no budget for a PUT or an expiry, `Spec => StoreIsAtomic`. The
  HSET is computed from the hash as it was read; by `WriterInv` that still is the hash as it is, and
  then `SyncHset` is `Sync`. `WriterInv` is an implication from `SingleWriter`, a condition on the past:
  `WriterBefore` shows that after a step that leaves a single writer there was one before. Failed calls, crashes and replays need no case of their own: they leave
  the hashes alone.

`DeliveryProofs` proves what faults may cost: each bound counts something against the fault counters,
which only grow (`FaultsGrow`), and the proofs show which step may add one and that it pays for it.

* `UndyingPaidFor`: at most as many live hashes are without a TTL and without a worker about to set it
  as there were crashes, stops, failed Redis calls and PUTs. With `Shape` the bound is inductive as it
  stands: a worker leaves an EXPIRE undone only by one of these.
* `LossesPaidFor`: with a DLQ, at most as many urgent events are passed, in no hand, undecided and not
  in the DLQ as there were crashes, stops and failed sends. By `OffsetsAccounted` such a record has an
  outcome, and by `OutcomeOK` that outcome is `lost` (`AbandonedAreLost`); the inductive part (`LossesOK`)
  counts those against the steps that end a worker or fail a send, each of which loses one record.
* `DuplicatesPaidFor`: an event has at most one action more than there were restarts, rebalances and
  lost acknowledgements. What is inductive (`DeliveredOK`) also counts the actions to come: one for
  each worker that has the record in hand before its action, and one if the owner's position has not
  passed the record. A rebalance may add one by moving the position back behind the record, and so may
  the loss of a worker, which drops what it had in hand; an acknowledgement that is lost adds an
  action that is out while the worker still carries the record.
* `StaleSessionsPaidFor`: each crash, stop, rebalance and failed Redis call leaves at most one session
  whose hash shows an older event than one that was handled, unless the group will hand out that
  record again or a worker is about to write it. Replays are harmless when they come forward to the
  newest record again. The invariant (`StaleInv`) counts the sessions of `Loose`: those behind already
  and those a worker is about to write for a record that nothing handed out later will overwrite
  (`LateSessions`), because its partition has moved. At most one session joins them with each fault.
  `PlacedOK` puts a session's records in one partition, so that offsets compare them.
* `KeywordsKept`: with a single writer the keyword count of a hash is at least the sum of the hits of
  the records handled to their end. The invariant (`Covered`) is about more records, those of
  `Credited`: also the ones in hand whose HSET is done, which may still become handled without another
  write. Sums over sets are a recursion no step of a proof can unfold at once; `SumIsMarks` shows
  that for a finite set of records the sum is the number of pairs of a record and one of its hits
  (`Marks`), by an induction over subsets (`SubsetInduction`) that rests on strict inclusion being
  well-founded. From there on the proof compares cardinalities. That a replayed record is counted
  twice is why the theorem is an inequality.

`CadenceProofs` proves `CadenceFollowsLog` under `OnePartition`, the condition `CadenceMatchesLog` names:
a user's calls are keyed by session, so with more partitions the order in which two of them are
read is open. It takes from `DeliveryProofs` that without restarts, rebalances and failed Redis calls
records are handled in their order (`InOrder`). `CountedOK` says what a counter is: the number of STT partial events since the last
session end in the log, up to the record before the one in hand, or including it once the handler
has passed `_stt_counters`. `CadentOK` adds what was decided from it.

`GatewayLifecycleProofs` proves, for every setting, number of calls and fault budget, from one
inductive invariant (`LifecycleInv`): `OpenOK` lists at which awaits of `lifespan` each client is open,
`WorkerOK` and `LagOK` what the tasks may be doing there, `CallsOK` that requests run only while it
serves.

* `NothingUsedAfterClose`: neither the loop, the lag report nor a REST call uses a client before it is
  opened or after it is closed. It rests on the order of the shutdown, join before close.
* `ExitIsClean`: if the loop was alive and no start or close failed, nothing is left open or running.
* `ImplementsWorkerProcess`: every step is a step of `WorkerProcess` or a stutter.

`ScoringCallsProofs` proves about both callers of `score`, for every number of clients and calls,
bodies, limit and window (`CallsTypeCorrect` states the types):

* `StoreAndModelShielded` and `RateIsUsedByItsCaller`: from `CallsInv`, which takes in the invariant of
  `RateLimiterProofs` (this module's clock is never set) and says that the admissions of the limiter
  are the calls that got past it, one by one in the order of their arrival (`NumberedOK`). The bound
  on admissions becomes one on calls in flight, and the timestamps that justify a 429 become calls of
  the same client.
* `RedisFailsNoCall`: only Triton, or a number of the body that does not convert, makes a call fail, if
  `critical_score` is in 0..100. A response with a score outside fails validation, and the override
  returns that setting as the score.
* `EvidenceExplainsVerdict`: unless something wrote the hash between the worker's two reads, a voice
  phishing rule comes only with a CRITICAL flag. Both reads are then of the same hash, but through
  two conversions, so it needs `EvidenceSettings`: the app weight threshold is at most 0.92 (as above)
  and the keyword threshold is not negative. The settings do not check either.

Only model-checked: `EventuallySettled` and `StopCompletes`, since liveness under fairness and `ENABLED`
are out of the prover's reach, and the three documented claims, which are false. Every invariant and
safety property of the passing runs is a theorem.

## 5. Not modelled

* PII masking, tracing, metrics and logs: read by no decision.
* `get_session_state` and `KEY_CONTEXT_PREFIX`: no caller.
* The gRPC servicer: `start_grpc_server` creates it and attaches it to nothing, so no call reaches it.
* GET `/internal/feature-store/{entity}`: reads a hash as `Fetched` does and changes nothing.
* A Redis or Kafka call that never returns: the clients have no socket timeout. It is the absence
  of a step; the safety properties cover it, the fairness of the two liveness properties excludes it.
* More than one server process: the image starts one (`Dockerfile`), and each would have buckets
  and counters of its own.
* Settings that only name hosts, ports and topics.

## 6. Plan

1. A clock for the feature hashes, so that the shortening of the TTL at a session end
   (`feature_store_sync.py:107`) can be stated against a TTL that an earlier command set.
2. `CadenceFollowsLog` under a weaker condition than one partition: every entity has its records in one.
3. The documented claims as theorems of what does hold: `ParseFailureReachesDlq` for records whose
   `sessionId` is a string, from `OutcomeOK`.
