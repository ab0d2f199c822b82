# Formal model of notip-data-consumer

The data consumer takes encrypted telemetry from a NATS JetStream stream, stores
it in TimescaleDB, and watches the gateways that send it: one that falls silent
is reported to the management API and to an alert stream. This directory holds
TLA+ models of the service, the TLC configurations that check them, and proofs
that TLAPS checks. Paths are relative to the repository.

## 1. Inventory

| Component | Source | State | Operations | Hard behaviour |
|---|---|---|---|---|
| Heartbeat tracker | `internal/service/heartbeat_tracker.go` | `beats` map under `mu`, `startTime`, `dispatchCh`, `done` | `HandleTelemetry`, `HandleDecommission`, `Tick`, `dispatchStatusUpdate`, `dispatchWorker`, `Close` | `Tick` works on a copy of the map and calls out without the lock; queue at its limit; close against send |
| Tick timer | `internal/adapter/driving/heartbeat_tick_timer.go` | ticker | `Run` | a tick in progress when the context is cancelled |
| Telemetry consumer | `.../driving/nats_telemetry_consumer.go` | `pending` channel, `buf` | `Run`, `processMessage`, `enqueuePending`, `flushLoop`, `writeBatch` | redelivery, lost answers, crash between write and ack, shutdown with messages in three places |
| Decommission consumer | `.../driving/nats_decommission_consumer.go` | the client's inbox | `Run`, `handleMsg` | runs against a tick and against late telemetry; lost answers, drain, a subscription that fails |
| Request-reply client | `internal/adapter/driven/nats_rr_client.go` | none between calls | `requestWithRetry` and three calls on top of it | timeouts, retries, late replies, cancellation |
| Alert configuration cache | `.../driven/alert_config_cache.go` | `snapshot` pointer, backoff `delay` | `Run`, `fetchWithBackoff`, `refresh`, `TimeoutFor` | stale or empty snapshot, retries inside retries |
| Alert publisher | `.../driven/nats_alert_publisher.go` | none | `Publish` | an error after the stream stored the alert |
| Status updater, lifecycle provider | `.../driven/nats_gateway_status_updater.go`, `nats_gateway_lifecycle_provider.go` | none | `UpdateStatus`, `GetGatewayLifecycle` | failures are counted and passed on |
| Postgres writer | `.../driven/postgres_telemetry_writer.go` | none | `WriteBatch`, `Write` (unused) | a batch that commits without the process learning of it, or fails to without its being looked at; one refused row fails its batch |
| Main | `cmd/consumer/main.go` | the signal context, deferred calls, goroutines | `run` | order of shutdown; a step or a goroutine that fails; who waits for whom |
| Configuration | `internal/config/config.go` | the loader's first error | `Load`, `GetDatabaseDSN` | unchecked numbers, narrowed or multiplied later |
| Migrations | `migrations/embed.go` | none: every script runs at every start | `Apply` | a start that stops halfway |
| Model, ports, clock, metrics, health endpoint | `internal/domain`, `internal/metrics`, `driven/clock.go` | none, or counters | | |

How they interact. JetStream calls the telemetry callback, one message at a time;
it calls `HandleTelemetry` and then hands the message over the `pending` channel
to `flushLoop`, which stores a batch and answers each message. The tick timer
calls `Tick`, which reads timeouts from the cache (lock-free), asks the
management API for the lifecycle state, publishes an alert and queues an Offline
update; `HandleTelemetry` queues Online updates. One worker sends the queued
updates. The cache refreshes itself from the management API. The management API
is reached through the request-reply client in all three cases. `main` cancels
one context on SIGTERM, waits for `flushLoop` only, then closes the tracker, the
pool and the NATS connection.

What makes each part correct. Tracker: map, reports, alerts and management API
stay in agreement however telemetry, ticks, decommissions, failures and restarts
interleave; a silent gateway is reported. Consumer: acknowledged means stored
(which a commit that fails unnoticed breaks), terminated means malformed, everything
is answered in the end. Request-reply
client: bounded, and never an old reply for a new request. Cache: it answers from
the list it fetched last, and catches up. Decommission consumer: an event that will
not come again was handled. Main: what is opened is closed, nothing is used after
it is closed, shutdown ends. Configuration: the first error is the one reported.
Migrations: in order, and complete before anything starts. `PROJECT.json` lists the
hazards, each at its line, with the property that would notice it going wrong.

## 2. Modules

| Module | Models |
|---|---|
| `HeartbeatTracker` | tracker, tick timer, decommission calls, publisher, updater, lifecycle gate, and shutdown as the tracker sees it |
| `StatusReporting` | abstract: the protocol of reports and alerts of each gateway |
| `TelemetryConsumer` | callback, pending channel, flush loop, batch writer, JetStream around them |
| `Pipeline` | `TelemetryConsumer` (which it EXTENDS) composed with the heartbeat map it feeds |
| `RequestReply` | one call of `requestWithRetry` |
| `AlertConfigCache` | the cache, EXTENDS `RequestReply` |
| `ConfigLoader` | `Load` as a function of the environment, and the conversions of main |
| `Migrations` | `Apply` and the schema |
| `DecommissionConsumer` | `Run`, `handleMsg`, JetStream around them |
| `Service` | main: start, goroutines, shutdown, restarts; EXTENDS the three modules above |
| `HeartbeatTrackerProofs`, `HeartbeatTrackerQueueProofs` | theorems about `HeartbeatTracker`: map, alerts and refinement; queue, worker and order of times |
| `TelemetryConsumerProofs`, `AlertConfigCacheProofs`, `ConfigLoaderProofs`, `ServiceProofs` | theorems about the module of that name; the last also about `DecommissionConsumer` |
| `MigrationsProofs` | lemmas about the list of files |
| `Induction` | lemmas about folds and recursive functions |
| `MCTracker`, `MCTelemetry`, `MCPipeline`, `MCAlertConfigCache`, `MCService` | instances for TLC |

Definitions keep the names of the code (`beats`, `dispatchCh`, `knownStatus`,
`pending`, `writeErr`...). Variables marked *history* in the declarations are not
in the code: they only record what a property speaks of.

### HeartbeatTracker

A step of the code between two lock regions, or between two calls that leave the
process, is one action. `HandleTelemetry` is two actions: the clock is read
before the lock (`TelemetryArrives`), the map and the queue change under it.
`Tick` is `TickStart` (grace period, `now`), `TickSnapshot` (phase 1), and per
entry `TickSkip`, or `TickCandidate` followed by one of `LifecyclePaused`,
`LifecycleActive`, `LifecycleFailed`, then `PublishOk` or `PublishFailed`,
`TickDispatch` and `TickMark` (phase 3). `snapshot` holds the entries the loop
has not finished with, in no particular order, as the code ranges over a map. The
worker is `TakeJob`, `UpdateApplied`, `UpdateFailed`, `WorkerExit`. A tick inside
the grace period changes nothing and has no action.

`Restart` is a crash or redeployment at any moment. The management API (`mgmt`,
`paused`) and the alert stream (`alerts`) survive it, and a request in flight is
executed by then or never. A publish that fails may have stored the alert, an update
that fails may have been applied (`Applied`). `subscribed` is chosen when a process
starts: without a telemetry subscription nothing arrives, and `Close` comes with the
context alive. Once `ctxDone`
holds every lifecycle query fails, while publishes go on, because the code
threads the context through the former only.

Assumptions about the outside: the management API handles requests in the order the
NATS server received them, those of a process that died included, so a late request
never overtakes the request of a newer update; and the clock does not go back,
although `LastSeenAt` is wall-clock time and a host may set its clock.
`LastSeenNeverGoesBack` rests on both.

`telem` is a single call: the subscription has one callback goroutine.

### StatusReporting

Per gateway: reports alternate, the first of each life of the process is Online,
each Offline report is preceded by one acknowledged alert of its own. Nothing is
promised of a decommissioned gateway, because the code promises nothing: a tick
that holds a copy of its entry still alerts, and late telemetry registers it
again. `HeartbeatTracker` implements it with `told` mapped to the status last
given to `dispatchStatusUpdate` and `alerted` to the gateway between publish and
dispatch.

### TelemetryConsumer

What travels is deliveries: AckWait may expire while one is queued, and the
message is then delivered again. `Ack`, `Nak` and `Term` each arrive or are lost.
`WriteBatchFails` leaves the batch stored or not stored. `FlushLoopDone` is the
`ctx.Done` branch: last flush, with the cancelled context, and return. A batch
is one implicit transaction. `WriteBatchUncommitted` is a commit that fails after
every `Exec` returned nil: only `BatchResults.Close` reports it, its error is dropped,
and the batch is acknowledged. The history variable `uncommitted` keeps the messages
that have no row because of it. `Bad` messages are those whose subject or body is
rejected by `processMessage`; parsing is reduced to that. `Refused` messages parse,
but their row does not fit the table: the batch with one of them always fails.

nats.go deletes, when a subscription has been drained, a durable consumer that the
same subscription created. `durable` says which it was, and `SubscriptionDrained`
is the deletion: the next process creates the consumer anew, and all messages are
`ready` again. A process that is killed, or that exits before the drain is over,
leaves the consumer in place.

`processMessage` has one error the model leaves out, that of `HandleTelemetry`
(nats_telemetry_consumer.go:236-238), which no implementation returns
(heartbeat_tracker.go:159). With it would come `writeBatch`'s Term of any such error
(205-208), against the Nak of `enqueuePending` for transient ones (136-143).

### Pipeline

Each delivery is a heartbeat of its gateway (`ProcessAndHear`). The tracker is
reduced to what the composition needs: status and age of each entry, grace period,
pause, decommission, loss of the map at a restart, and of `Tick` what it does to one
entry, in one step: an entry past its deadline (`Candidate`) goes through the
lifecycle gate (`Passes`: the answer is not "paused", or the query failed), and is
marked if its alert is accepted (`TickMarks`), left Online if not
(`TickPublishFails`). The interleavings inside a tick are the subject of
`HeartbeatTracker`. `gone` records the gateways that were
decommissioned after everything they sent had been heard, so that only a redelivery
can bring them back.

### ConfigLoader, Migrations, DecommissionConsumer, Service

`Load` folds `require` and `optInt` over the variables in the order of the source
and validates the TLS settings last. Strings are given or not; numbers are numbers,
`NotSet` or `NotANumber`. `Wrap(n, max)` is what is left of `n` in a two's complement
type whose largest value is `max` (`MaxInt`, `MaxInt32`); it gives the conversions of
main their widths: `int32(cfg.DBMaxConns)` and the product
`time.Duration(ms)*time.Millisecond`.

`Migrations` keeps which files have left their effects in the database and which
`Apply` has still to execute. Files have a rank instead of a name, as only their
order matters; `Files` is the one increasing sequence of the ranks; a rerun of a script
changes nothing, as its header promises. A script may report an error although it was
committed. At this commit one script is embedded: what is said of several holds for the
next one that is added.

`DecommissionConsumer` has the subscription, its inbox and `handleMsg`, one action
per call that leaves the callback (`RejectEvent`, `RemoveGateway`, `AckEvent`).

`Service` is `run`: one action per step that can fail, `Acquire` where a `defer`
follows, `Unwind` for each return and for a panic in `run`. Unwinding takes the
deferred calls one by one; a call is begun (`CloseResource`) and returns
(`DeferredReturns`) when what it waits for is there. The tracker appears as its
queue (`jobs`) and worker, the health endpoint as pings in progress. A panic in
another goroutine (`Die`) runs no deferred call. `Kill` and `Restart` bring the next
process, which finds the schema and the decommission events as they are.

### RequestReply and AlertConfigCache

A call is attempts with an inbox each: `replies` carry the attempt they answer.
`spent` measures a call in the units of its timeouts and delays, with each wait
taking no time or all of it, which is enough for an upper bound. The cache is
`fetchWithBackoff` (`FetchStart`, `FetchOk`, `FetchFailed`, `WaitOver`,
`FetchGivesUp`) and the refresh loop; each try is a complete call. Snapshot keys
are pairs instead of strings joined by "/": both IDs are UUIDs in the contract
(nats-contracts.yaml:44-53, 620-625), so neither contains one. `Reference` is the specification of a lookup: the entry at
the largest position of the list, without any map.

## 3. Runs

| Run | Instance | Shows |
|---|---|---|
| `tracker_shared` | two gateways, queue of 2, clock 0..1, one restart, symmetry | `TypeOK`, `StatusAgreement`, `OfflineImpliesAlerted`, `NewestUpdateWins`, `CloseDrains`, `LastSeenNeverGoesBack` |
| `tracker_single` | one gateway, queue of 1, timeouts 0 and 1, clock 0..1, pause, decommission, one restart | `TrackerInv` (the inductive invariant), `OfflineImpliesAlerted` and `PausedSilenced` across a restart, `ImplementsReporting` |
| `tracker_live` | one gateway, queue of 1, grace 1, clock 0..2, pause | `SilentGatewayReported`, `CloseReturns`, `UpdatesArrive` |
| `telemetry_safety` | two good messages, one malformed, batches of 2, at most two deliveries at once, one crash, symmetry | `TypeOK`, `LostOnlyByCommit`, `TermedIsMalformed`, `OneRowPerDelivery`, `StoredIsHeard`, `TelemetryInv` |
| `pipeline` | one good message, one malformed, one delivery of each at a time, one gateway, timeout 2, grace 1, pause, batches of 2, one crash or shutdown | `EveryMessageSettled`, `SilentGatewayNoticed` |
| `alert_cache` | three lists, one change, 3 tries of 3 attempts, delays 2, 4, 5 (cap) | `TimeoutsFollowList`, `CallIsBounded`, `DelayDoublesToCap`, `CacheInv`, `RefreshIsFresh`, `CatchesUp`, `RunReturns` |
| `service` | 413 environments for the first process, two for the second; a good and a malformed event; two scripts among other files; one ping | `TypeOK`, `ConfigurationIsReported`, `ExitLeavesNothingOpen`, `UsedWhileOpen`, `StartsOnFullSchema`, `PanicsOnlyOutOfRange`, `ClosedEventsAreDone`, `ServiceInv`, `ShutsDown`, `EventsSettled` |
| `tracker_panic`, `tracker_mark`, `telemetry_refused`, `telemetry_commit`, `pipeline_decommissioned` | small | what a comment, the README or a test says and the code does not do; see `findings` |

Why the bounds are enough. Two gateways are the fewest that compete for the queue
and for the loop of `Tick`; what a gateway does to itself is covered with one
gateway and all events. A queue of 2 with two gateways and a worker is full, and
drops, with a job in flight; a queue of 1 drops at once. The clock has a value
before and after each deadline, and in `tracker_live` inside and after the grace
period; a timeout of 0 stands for all that are not positive, which a product that
overflows may be too. The pending channel (4) fills with two copies of each of two
messages and a blocked callback; `pipeline` has one delivery of a message in the process
at a time, as its liveness has to do with what becomes of a message and less with how
many copies there are. One restart is enough for each property, since none of them relates
three lives of the process. Three tries let the delay double and then
hit its cap; three attempts have a reply late by one and by two. In `service` the
environments are one that works, each numeric variable main decides by at its edges,
all TLS settings, each variable spoiled under each of them, and any two spoiled at
once. Integers have 8 bits there (`MaxInt` 127), `int32` 5, and a millisecond is 3 ns, so that 15 is
the largest pool size and 42 the longest interval: TLC counts in small numbers, and
nothing in the code depends on the widths being 64 and 32. `Many` (2, or 1 in
`pipeline`) caps the counted rows and deliveries of a message; both are capped at the
same value, so the comparison of the two is exact below it. Properties of the cache
are checked on lists that have a replaced entry and a default for either kind of key.

`TrackerInv`, `TelemetryInv`, `CacheInv` and `ServiceInv` are the inductive invariants
of section 5; their runs are what told early whether a strengthening was true at all.

Deadlock checking is off in all runs: the service may stop after SIGTERM or a
panic, and the bounded clock ends too.

Fairness. Goroutines that can run do run (weak fairness of the tick, the worker,
the callback, the flush loop, the cache); time passes; every request ends, since
each attempt has a timeout. A `select` with several ready cases chooses at
random in Go, hence strong fairness of the `ctx.Done` branches. Of the outside
only this is assumed: one alert is not refused for ever (`PublishOk`, strong; in
`Pipeline`, `TickMarks` with the answer "active": a gateway that stays a candidate and
is not paused has one tick in the end whose query and whose alert succeed);
JetStream delivers what is ready and redelivers what is unanswered, a batch with
a given message is accepted now and then and one of its answers arrives; a
stopped process is started again; a migration ends; an answer to a
decommission event arrives now and then; the management API, if asked for ever,
answers correctly and in time now and then (`CatchesUp`). No fairness of pause, resume,
decommission, telemetry, signals, kills or restarts of `Service`, nor of the end of a
health check: `ShutsDown` says that the process ends, or that one check never does.
`EventsSettled` is stated of a process that goes on listening, which handles what an
earlier one did not hear.

Each property of a passing run has a mutant: a definition of the model changed as
a plausible bug would change the code, under which TLC finds the property
violated. The mutated operators stand before the operators they replace.

## 4. What the runs found

1. A status update after `Close` panics (`NeverPanics`): `Close` waits neither
   for a tick in progress nor for callbacks that `Drain` still runs.
2. The mark of phase 3 can hit an entry that was decommissioned and registered
   again after the report (`MarkNeverMissesAnOutage`): the gateway is then
   skipped as Offline although Online was reported last.
3. A message whose row the table refuses fails its whole batch, whose messages are
   sent back with one and the same delay and meet again (`StorableIsStored`). The
   refused message is never terminated.
4. Telemetry redelivered after a decommission registers the gateway again, which is
   then alerted (`DecommissionedNotAlerted`).
5. A batch whose commit fails is acknowledged all the same, as the error of
   `BatchResults.Close` is dropped (`AckedIsStored`); `LostOnlyByCommit` shows that
   messages are lost in no other way.

Also visible in the models, with no run of their own:

- At shutdown the lifecycle gate fails open for paused gateways: once the context is
  cancelled every query fails at once (`LifecycleFailed`), and a tick in progress goes on
  with the rest of its snapshot.
- A failed decommission subscription is only logged. The process stays up without it
  (`SubscribeEventsFails`), and handles no decommission any more.
- A graceful shutdown deletes the durable consumers that the process created (the
  first process after a deployment of the stream), and the next one is given every
  message again: duplicate rows, and old decommission events handled again.
- The flush at shutdown uses the cancelled context and is never written
  (`WriteBatchStart`), although nats_telemetry_consumer_test.go:337 expects one.
  Nothing is lost, as JetStream redelivers.
- The heartbeat of a message is counted before its row is stored, contrary to the
  comment at heartbeat_tracker.go:121.
- `HEARTBEAT_TICK_MS=0`, and other intervals out of range, start the service and
  then kill it in a goroutine without any deferred call (`PanicsOnlyOutOfRange`
  names the numbers that do this, and shows that no others do).
- README.md:51 gives 120000 as the default of `ALERT_CONFIG_REFRESH_MS`,
  `config.go:60` has 30000.

## 5. Proofs

Every invariant, every action property without fairness and the refinement that a
passing run checks is also a theorem, for all values of the constants that satisfy
the named assumptions of the modules.

| Module | Theorem | States |
|---|---|---|
| `HeartbeatTrackerProofs` | `TypeCorrect` | `Spec => []TypeOK` |
| | `SilencedWhilePaused` | `Spec => []PausedSilenced` |
| | `KnowledgeAgrees` | `Spec => []StatusAgreement` |
| | `OfflineIsAlerted` | `Spec => []OfflineImpliesAlerted` |
| | `TrackerImplementsReporting` | `Spec => ImplementsReporting` |
| `HeartbeatTrackerQueueProofs` | `NewestUpdateIsNotOvertaken` | `Spec => []NewestUpdateWins` |
| | `CloseDrainsTheQueue` | `Spec => []CloseDrains` |
| | `LastSeenMovesForward` | `Spec => LastSeenNeverGoesBack` |
| | `TrackerInvariant` | `Spec => []TrackerInv` |
| `TelemetryConsumerProofs` | `TypeCorrect` | `Spec => [](TypeOK /\ PlacesOK)` |
| | `AckedMessagesAreStoredOrUncommitted` | `Spec => []LostOnlyByCommit` |
| | `TermedMessagesAreMalformed` | `Spec => []TermedIsMalformed` |
| | `StoredMessagesAreHeard` | `Spec => []StoredIsHeard` |
| | `OneRowForEachDelivery` | `Spec => []OneRowPerDelivery` |
| | `TelemetryInvariant` | `Spec => []TelemetryInv` |
| `AlertConfigCacheProofs` | `TimeoutsFollow` | `Spec => []TimeoutsFollowList` |
| | `CallBounded` | `Spec => []CallIsBounded` |
| | `DelayDoubles` | `Spec => []DelayDoublesToCap` |
| | `RefreshFresh` | `Spec => RefreshIsFresh` |
| | `CacheInvariant` | `Spec => []CacheInv` |
| `ConfigLoaderProofs` | `LoadReportsFirstError` | `LoadReports(e)` for every `e \in Environment` |
| `ServiceProofs` | `TypeCorrect` | `Spec => []TypeOK` |
| | `ConfigurationReported` | `Spec => []ConfigurationIsReported` |
| | `FullSchemaAtStart` | `Spec => []StartsOnFullSchema` |
| | `PanicsOutOfRange` | `Spec => []PanicsOnlyOutOfRange` |
| | `UsedOnlyWhileOpen` | `Spec => []UsedWhileOpen` |
| | `NothingOpenAtExit` | `Spec => []ExitLeavesNothingOpen` |
| | `ClosedEventsDone` | `Spec => []ClosedEventsAreDone` |
| | `ServiceInvariant` | `Spec => []ServiceInv` |

What is assumed. Identifiers are distinct from the values that stand for none, and
sizes are natural numbers (`BatchSize` and `MaxCopies` positive). Bounds of the model
(`MaxTime`, `MaxRestarts`, `MaxCopies`, `MaxChanges`, `MaxPings`) are constants, so the
theorems hold for every bound; `OneRowPerDelivery` counts up to any `Many`. Two
assumptions are narrower than what `Load` lets through. `BoundsAssumption` takes a
grace period that is not negative and a queue of at least one (with 0 the channel is
unbuffered and hands an update over only to a worker that waits for it).
`CacheAssumption` takes the number of tries and the delays of the initial fetch to be
natural numbers, and no delay overflows; a negative number of tries would mean none, a
negative delay a timer that fires at once. `WidthsAssumption` has `int32` narrower than `int`, as on the platforms the
service is built for.

### Tracker

`StatusAgreement` is not inductive: it says nothing during the window between report
and mark, nor why the entry that `Tick` marks should still be Online. `KnowledgeOK`
adds both: an entry the loop still holds as Online is Online in the map, because only
`Tick` makes entries Offline and it finishes each before it copies the map again; and
in the window the last report is Offline. `LoopOK` ties `pc`, `cur` and `snapshot`
together and says that `pausedAll` is still paused. The same facts give the
refinement: when `Tick` dispatches, the gateway was last reported Online, so the step
is `ReportOffline`; when telemetry dispatches, it was last reported Offline or never.
`OfflineIsAlerted` splits its quantifier by place (queue, worker, management API) and
adds that the alert is in the stream between publish and dispatch.

`NewestUpdateWins` follows the last update of a gateway from queue to worker to
management API, and is inductive together with the types. `CloseDrains` needs
`DrainOK`: the worker is gone only after `Close`, with empty hands, and nothing can be
sent after that. `LastSeenNeverGoesBack` needs `OrderOK`: all that was reported of a
gateway lies in the queue, the worker and the management API in the order of its
times (`InOrder`), and whatever the next report may carry is no earlier than all of it
(`NoneAfter`): the clock, the clock read of the call in progress, the entry of the map,
and the possibly old entry in the snapshot of `Tick`. The last one holds only while
that entry counts as Online, since then nothing has been reported of it since it was
copied; this is why a heartbeat that arrives after the copy does no harm.

### Telemetry consumer

`LostOnlyByCommit` needs `BatchIsStored`: between a batch written without error and the
last of its answers every valid message of the buffer has a row or is `uncommitted`,
and a row is never taken away again. `StoredIsHeard` needs
`HeldIsHeard` for the messages that are queued, in the buffer or in the hands of the
callback. `OneRowPerDelivery` needs a count. A copy that can still become a row is in
exactly one of those three places, and rows plus such copies never exceed deliveries
(`CopiesCounted`). Writing a batch turns the copies in the buffer into rows, which is
why they stop to count at that moment and not when the buffer is emptied. The lemmas
under it say how `Append` and `Tail` change the number of occurrences in a queue.

### Request-reply client and cache

`CallIsBounded` needs `BudgetOK`, the time spent at each attempt, and the fact that
nobody sleeps after the last one. `RefreshIsFresh` needs `ReplyOK`: requests and
replies belong to attempts already sent, so that none carries the number of the
attempt about to be sent; a reply to the current attempt is then younger than it.
`Backoffs` and `Doubled` are recursive functions; the proofs use only that they satisfy
their recursion (`BackoffsFacts`, and its like for `Doubled`), which follows from
`RecursionExists`. `TimeoutsFollowList` rests on what the fold of `BuildSnapshot` holds
after `i` entries of the list.

### Service

`ServiceInv` has one part per concern. `DefersOK` says that for some `n` the deferred
calls are those of the first `n` resources in the order of acquisition, the last one
first, and that these are open (the one on top may be closing); it gives
`UsedWhileOpen` and `ExitLeavesNothingOpen`. `TrackerOK` and `PingsOK` say that the call
which waits for the worker, or for the health handlers, stays deferred as long as
there is something to wait for (`Awaited`). `MigratingOK` describes `Apply` halfway: the
files left are those the database lacks, and whatever precedes one of them is applied
or comes before it in the list. `ConfigOK` says that nobody looks at a configuration
that was not loaded, and `OutcomeOK` separates deaths from returns.
`PanicsOnlyOutOfRange` uses that a product within the width is not wrapped, and
`ConfigurationIsReported` is `LoadReportsFirstError` applied to each environment.
`EventsInv` adds to `ClosedEventsAreDone` that `handleMsg` acknowledges only after
`HandleDecommission` returned.

### Induction over data

The induction theorems of the library take an operator, which the provers cannot
instantiate. `Induction` states induction over a set instead (`SetInduction`, from the
least element of a set of numbers), and uses it for two facts about functions: a
function that satisfies a recursion exists (`IterationExists`, `RecursionExists`), and
a fold over `1..n` passes through a sequence of `n` values, each made from the one
before (`PrefixVisits`). `Load` and `BuildSnapshot` are folds; their lemmas say what is
there after the first `i` elements. `MigrationsProofs` shows with the same means that a
finite set of ranks has an increasing list, so that `Files` is what its name says.

### Only model-checked

The liveness properties (`SilentGatewayReported`, `CloseReturns`, `UpdatesArrive`,
`EveryMessageSettled`, `SilentGatewayNoticed`, `CatchesUp`, `RunReturns`, `ShutsDown`,
`EventsSettled`), as the prover has no support for fairness and ENABLED; and with them
`Pipeline`, whose properties are all of this kind. The findings of section 4 are
counterexamples, and have nothing to prove.

## 6. Not modelled

JSON encoding and subject formatting, except for accepting or rejecting a message;
the columns of a row, except for fitting or not; the `max_age` of the streams (30 days
for telemetry, 24 hours for decommissions, nats-contracts.yaml:39 and 172), after which
JetStream drops what was never settled; the text of the SQL scripts, which
is taken to be idempotent as its header says; the DSN, TLS handshakes, connections
of the pool, logging; the metrics, which only count; the unused
`PostgresTelemetryWriter.Write` and `Close`; CI, scripts, contracts and test doubles.

Abstracted where it matters: the timeout of a gateway is any element of
`Timeouts` each time `Tick` asks, which covers every snapshot of the cache;
redelivered telemetry is telemetry like any other in the tracker; a decommission event
is not delivered again while the process holds a copy of it (`EventAckWait`); repeated
decommissions of one gateway are in `HeartbeatTracker`; in `Service` the telemetry consumer is its
subscription and its return, the cache and the tick are the goroutines that may
panic when they begin, and the order of two updates in the queue is left to
`HeartbeatTracker`. Two processes alive at once are not modelled: what one can do
to the other is a subscription that fails (`SubscribeEventsFails`) and a script that
fails (`ApplyMigrations`).

## 7. Plan

Done, in this order: `StatusReporting`, `HeartbeatTracker` with its runs and
proofs, `TelemetryConsumer`, `RequestReply`, `AlertConfigCache`, then the durable
consumer and refused rows in `TelemetryConsumer`, `Pipeline`, `ConfigLoader`,
`Migrations`, `DecommissionConsumer` and `Service`.

Then the proofs, in the same order: tracker, telemetry consumer, configuration and
migrations, service, cache.

Next: an abstract specification of the telemetry consumer (each message of the stream
is open, stored, rejected or lost by its commit, and closed only when it is not open) with its
refinement from `TelemetryConsumer`; invariants of `Pipeline` beside its liveness
properties; and the settings that `BoundsAssumption` and `CacheAssumption` leave out.
