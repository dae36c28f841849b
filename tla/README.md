# scalable-brain: TLA+ models, checks and proofs

The repository trains trading models, publishes them to a registry, hands scored
signals to a queue, executes and audits trades, and shows prices and indicators on a
dashboard. Most of its lines are numerics. What is hard to test is the control
around them: processes without a common lock, files and rows that appear one after
another, retries, kills, event loops with many connections, and index arithmetic
that decides which bars a figure rests on. This directory models that in TLA+,
checks it with TLC, and proves most of what the runs check with TLAPS. Paths below
are relative to the repository; its code is in `src/`.

1. Inventory · 2. Modules · 3. Runs · 4. Where code and its own words disagree ·
5. Proofs · 6. Not modelled, and the plan

## 1. Inventory

| Component | State | Operations | Talks to | Hard because |
|---|---|---|---|---|
| **Retrain scheduler** `src/system1/scheduler/` | `retrain.lock`, `retrain_state.json` | `run()`: triggers, cooldown, lock, incumbent, pipeline, gates, publish, save | training, registry | cron and `--force` overlap; kills; state read before the lock and saved after it |
| **Deployment gates** `deployment_gates` in `orchestrator.py` | none | accuracy, qualified strategies, OOS uplift, incumbent | scheduler | fails closed on some missing metrics and open on others |
| **Model registry** `src/system1/serializer/`, `src/common/storage/` | local artifacts, bundle objects, `latest.json` | `publish()`: guard, hash, upload, verify, clean up, flip, trim | scheduler, command line, consumers | many effects, no lock of its own, failure between any two |
| **Regime training and vetting** `src/system1/regime/`, `src/system1/vetting/` | model, map and weights on disk, the registry of strategies | train; vet: gates, ranks, shares, map, weights, registry | attribution, scheduler | read once, written in three places; shares with a floor |
| **Local durable queue** `src/common/queue/` | log, seen file, dead-letter log, cache and mutex per instance | `publish`, `dead_letter`, `depth`, `at_capacity` | producer, consumer | several processes, two files per publish |
| **Scored signal producer** `src/system1/queue_producer/` | local variables of a call | `publish_signals`, `_await_capacity` | queue | check then act; retries |
| **Live price stream** `src/layer5/services/oanda_stream_service.py`, `src/layer5/api/routes/streaming.py` | subscriptions, connection registry, candle builders, stream task | start, stop, subscribe, unsubscribe, connect, close, tick, broadcast, reconnect | OANDA, browsers | tasks cancelled at any suspension; who receives what is kept twice |
| **Champion promotion** `src/system1/gatekeeper/` | three champion files | `train.run`: walk-forward, degeneracy check, `promote_bundle` | scheduler, executor | three replaces, no lock; empty folds |
| **Live execution** `src/layer4_executor/`, `src/layer7/` | trade rows, open positions of a run | select, insert PENDING, order, judge, update | broker, database, auditor | money moves between two database writes |
| **Trade auditor** `src/layer6_auditor/` | outcomes of rows | read open rows, judge, update | database | judges rows others are rewriting |
| **Ingestion** `src/system1/ingestion/` | price and quarantine tables | windows, pages, checks, upsert, quarantine, resume | OANDA, database | two commits per page; the cursor is the table itself |
| **Research tables** `src/system1/regime/mapping.py`, `validation/`, `attribution/`, `src/layer0/persist_trade_outcomes.py` | regime labels, trade outcomes with out-of-sample tags | label, load, backfill, attribute | one database | separate programs, statement by statement; a debounce that looks ahead |
| **Backtest engine** `src/layer0/core_engine/backtest_engine.py` | trades, equity | one pass for the trades, one for the curve | qualification | which exit wins on a bar, and at what price |
| **Chart worker pool** `src/layer5/frontend/src/workers/` | queue, workers, timers | submit, cancel, resize, terminate; answers, errors, timeouts | Web Workers | answers carry an id nobody looks at |
| **Stream hook** `useChartStream.ts` | refs, React state, sockets, timers | connect, disconnect, events, effects | stream service | late events of replaced sockets, closures over old renders |
| **Dashboard indicators** `indicators_library.py`, `indicatorCalculations.ts`, `routes/indicators.py` | a cache with times to live | calculate, batch, clear | price tables | hand-made padding, windows, and a cache that is filled after the fact |
| **Features, strategies, regimes, rules, trials** `src/layer0/`, `src/layer1_regime/`, `src/layer2_signals/`, `src/layer3_ml/`, `src/system1/features/` | series | compute | price tables | look-ahead: a value must not rest on bars that come later |
| REST API, database access, migrations, `src/nlp/` | rows and files | queries, one-off scripts | | I/O |

What makes each of them correct:

- *Scheduler and registry.* At most one run trains and publishes. Consumers of
  `latest.json` always find a whole bundle of one candidate that passed the gates, and
  it is only replaced by one at least as accurate. The lock comes free, unless its
  run is killed or a call on the lock file itself fails.
- *Vetting.* Who is in the map has passed the gates, ranks and shares fit, and a
  vetting nobody overlapped leaves three places that tell of the same attribution.
- *Queue and producer.* No signal is silently lost; duplicates and overflow have a
  bound even where "no-op" and "never overflow" are too much to promise; each call
  returns.
- *Stream.* What is subscribed to is streamed, every receiver of a symbol has a
  subscription of it, nobody receives after the end of the connection, no
  candle counts a tick twice.
- *Champion.* Torn bundles are recognisable by their hashes; only a training that passed
  its check leaves a file.
- *Execution and audit.* No order is sent again, a row says EXECUTED only of what was
  filled or simulated, an outcome belongs to the price it was found for.
- *Ingestion.* A bar is passed over in one of three known ways and in no other, though
  the database has no record of them (section 4, 16).
- *Research tables.* Trades are not multiplied, tags do not depend on who wrote them,
  a label changes only near the end of the history, once that is long enough for folds.
- *Backtest.* A trade stays in its bracket.
- *Browser.* An answer goes to its own task and each task ends; one live
  connection, and no giving up early.
- *Series.* Numbers stand beside their bars, do not change while the rows they rest on
  stay, are no older than promised, and a trial that is to be held out is judged on rows
  its model has not seen.

## 2. Modules

| Module | Models | Extends |
|---|---|---|
| `DeploymentGates` | the pure decision `deployment_gates` | |
| `ModelCatalog` | **abstract specification**: one live model, replaced only by a deployable, no less accurate one | `DeploymentGates` |
| `ModelRegistry` | storage backend and `serialize.publish`, step by step | `DeploymentGates` |
| `Retrain` | `orchestrator.run` and the serializer's command line, composed with `ModelRegistry`; refines `ModelCatalog` | `ModelRegistry` |
| `LocalQueue` | `LocalDurableBackend` | |
| `SignalProducer` | `publish_signals`, composed with `LocalQueue` | `LocalQueue` |
| `StreamService` | stream manager, connection manager, both WebSocket endpoints | |
| `ChampionBundle` | `train.run` and `promote.py` | |
| `Vetting` | attribution's cells, gates, ranks, shares, and the three places a vetting writes | |
| `LiveExecution` | `ExecutionPipeline.run`, the broker adapter, the auditor | |
| `PriceIngestion` | `ingest_instrument_granularity` | |
| `WalkForward` | folds, assignment of entries, debounce of labels | |
| `Attribution` | labeller, outcome loader, backfill and attribution over one database | `WalkForward` |
| `Backtest` | the engine's two passes | |
| `WorkerPool` | `WorkerPool.ts` and the worker script | |
| `ChartStream` | `useChartStream.ts` with the renders that call it | |
| `BarSeries` | lists of which only "of which bars" and "from which bars" is kept | |
| `IndicatorsLibrary`, `ClientIndicators` | the server's and the browser's indicators | `BarSeries` |
| `ResearchIndicators` | layer 0's indicators, System 1's features, timeframe alignment | `BarSeries` |
| `Strategies`, `RegimeSeries`, `RuleSignals` | staged strategies; clusters and HMM labels; the rule engine's signals | `ResearchIndicators` |
| `TrialDesigns` | what each trainer's model has seen and is judged on | `BarSeries` |
| `IndicatorService` | all of these recomputed bar by bar, and the cached endpoints | instances of the seven above |
| `MC…` | constants for TLC, one per run's module; `MCArtifacts` puts `Vetting` beside `ChampionBundle` | the above |
| `RetrainProofs` | theorems about `Retrain` and `ModelRegistry` | `Retrain` |
| `ProducerProofs` | … `SignalProducer`, `LocalQueue` | `SignalProducer` |
| `SeriesProofs` | … every series beside its bars, the trials and the cached endpoints: `IndicatorService` | `IndicatorService` |
| `RepaintProofs` | … every series computed again: `IndicatorService` | `SeriesProofs` |
| `ChampionProofs` | … System 1's research and training: `ChampionBundle`, `Vetting`, and `Attribution` with `WalkForward` | the three |
| `BacktestProofs` | … prices: `Backtest`, `PriceIngestion` | both |
| `LiveProofs` | … live prices and trades: `StreamService`, `LiveExecution` | both |
| `WorkerPoolProofs` | … the browser: `WorkerPool`, `ChartStream` | both |

Specifications that are reasoned about in one proof module have names of their
own: `IngestSpec`, `TablesSpec`, `VetSpec`, `HookSpec`, `ServiceSpec` and `StreamSpec` are those of
`PriceIngestion`, `Attribution`, `Vetting`, `ChartStream`, `IndicatorService` and `StreamService`; the others
are called `Spec`.

A definition whose comment begins with "Mutant" is a plausible bug in the
definition that follows it. No specification uses it: it stands beside the right
one to show which property notices the difference.

### Scheduler and registry

| TLA+ | Code |
|---|---|
| `clock`, `Tick` | UTC time in seconds, the resolution of `_bundle_version()` |
| `work` | `HMM_MODEL`, the weights and the map on disk; a file's content is the candidate that wrote it, or `Torn` |
| `objects`, `latest` | the backend's keys and `latest.json` |
| `pc`, `pub`, `run` | where a process is, and the locals of `publish()` and `run()` |
| `lock`, `saved` | `retrain.lock` (`None`, the run at work that created it, or `Orphan`: its run is no more), `retrain_state.json` |
| `Evaluate` … `SaveState` | `run()` from top to bottom, one action per effect on something shared; entering the lock is two, `AcquireLock` (the file is created) and `StampLock` (it is written) |
| `Guard`, `Hash`, `Rehash`, `Put`, `Verify`, `Cleanup`, `Flip`, `ListVersions`, `TrimVersion` | the numbered steps of `publish()` |
| `RefuseSecret`, `UploadError`, `LateError`, `PipelineError` | the exceptions, by where they are caught |
| `ManualPublish`, `ManualReturns` | `serialize.main` |
| `Crash`, `FileError` | a killed process; one whose write or removal of the lock file, or write of the state file, raises (`orchestrator.py:53`, 60, 293): both are `StopHere`, which leaves the lock file behind |
| `ClearStaleLock` | somebody who removes that file (nothing in the code does) |

Abstractions. A candidate is the metrics record the pipeline returns, and an
artifact carries the candidate that made it, so that "hash" and "content" coincide.
`checksums.sha256` repeats the hashes of the metadata and is one object with it.
Triggers and secrets are nondeterministic, runs that decide not to retrain are
left out (they only log), and `allow_missing_uplift` is chosen when the gates are
applied. A RuntimeError and another exception differ in what is logged, not in the
state. `put_object` is the atomic creation of the GCS backend; `delete_prefix`, object by
object in both backends, is one step. The pipeline
takes at least a second (`orchestrator.py:5` speaks of a "multi-minute real
pipeline"); `VetMap` moves the clock accordingly, and this is what gives two locked runs
different versions. `MaxClock` is the horizon: nothing starts at or after it.
`SameSecond = FALSE` restricts the model to publishes in different seconds.

### Champion and vetting

`pc[t]` follows `train.run` to `promote_bundle`; `file[ns]` holds the three files of each
namespace by who wrote them, and the manifest also whose hashes it names. A
training's folds are those of its frame's size; which threshold a fold finds is the
environment's choice, whether it can find one is not.
`Vetting`'s cells are whole numbers (tenths, percent), an infinite or missing one is `Missing`;
`Tables` are the results an attribution run can commit, `Odds` an increasing table in
place of the exponential of the weights. An attribution begins (its `created_at`) and commits
as two steps; a vetting reads the latest run, then writes map, weights and registry one by one.
Writes of one file are atomic: both go through the same fixed `.tmp` path, and two vettings at once
could clash there. Log-only vettings write elsewhere and are left out.

### Queue and producer

`log`, `seen`, `dlq` are the files, named by idempotency keys; `cache[i]` and
`mutex[i]` are the instance's. `publish()` is `EnterPublish`, `AppendLog`,
`MarkSeen`: a kill or another process can come between any two. `call[p]` holds the
locals of `publish_signals`, whose loop is `TakeSignal` … `CountPublished`. A
producer's calls carry the same keys, so that a second call is the retry that
`base.py` promises to be safe. `Consume` is external: the consumer (System 3) is not in
the repository. It takes everything at once and leaves the seen file alone. The branch
for a refused publish (`producer.py:122`) is unreachable with this backend, which returns
True or raises. A line is appended in one step; a line torn by a kill inside
`write()` is not modelled.

### Stream service

Everything runs in one event loop, so an action is the code between two
suspensions. `subscribe_instrument` and `unsubscribe_instrument` await only an uncontended lock
and never suspend; sending to a client does. `stream` is the stream task: cancelling
it means replacing the record, at whatever suspension it is in. `builder[k]` counts the ticks
a candle builder took and `due[k]`, a history variable, those received while it
existed. Prices, periods and candle contents are left out: that a builder closes
a candle on a tick after its first is nondeterministic. Every unsubscribe in the repository
passes a client id, so a subscription, once made, stays. An iteration over a dict
that changes size raises in the stream task, with the effect of an error at a suspension.
Not modelled: `reset`, the health check (its condition is never true while the manager
runs), the `reconnect` route (it calls a method the manager does not have), callbacks
(none is registered), and reuse of `id(websocket)`.

### Live execution and audit

`row[k]` is the row with key `k` in `fact_live_trades`; `pc`, `todo`, `cur` and `positions` are a run's place,
the rows of its query that remain (a bag: the LEFT JOIN of `live_pipeline.py:600` gives a signal once for each of its trade outcomes, and
nothing drops the repeats), the current signal and `self.open_positions`; `audit[a]` is what an auditor has read and has
still to judge. `fills`, `placed` and `torn` are history variables: what the broker really filled, and which keys a
fault left behind. One action per database write and per call of the broker; an answer may be lost after
the order was filled. The gate's limits (exposure, correlation, positions per asset) are computed from the run's own
list, which is all the code keeps. Sizes are left out, and whether the model approves a signal is the environment's choice.

### Ingestion

Bars are at even times and take `Interval` to complete. A page is any answer of
`FetchedCandles`: in order, or, at the cost of a fault, with repeats and disorder. `BadPrices`, `Duplicate` and
`NonMonotonic` are the checks of `dq.py`. `dropped`, `failed` and `lost` are history variables: candles
`_normalize_candle` could not use, windows that failed, and bars a fault kept out of the quarantine after the upsert. Nothing in the database tells of
any of them; a failed window is counted in the run's manifest, if the run lives to write it.

### Research tables

`raw` are the bars with the label the filtered posterior gives each (the environment's choice), `regimes`
what the labelling wrote, after `CausalLabels`' debounce, and `method` its `causal_label_method`. A history that is too short for a fold is labelled by one
model fitted to all of it (`hmm_regime.py:430-454`), warm-up included, and by another one when the next bar has come: until there is a fold,
`NewBar` chooses all raw labels again; `outcomes` the trades with their
load, entry and tag. A loader's delete and its insert are two transactions; the backfill reads the
bounds and then updates fold by fold in one; the attribution reads trades first and labels later.
A statement sees what is committed when it begins. One strategy, one timeframe.

### Backtest

The strategy, which sees the bars up to the current one, is an arbitrary choice of signal, filter
and distances at each bar; a bar is any low, high and close of `Prices`. Money is price difference on the slippage grid.

### Worker pool and stream hook

The main thread runs one handler at a time, so an action is a whole handler. Between
handlers stand messages under way in both directions, timers, the loading of a script; for the hook
the close events of replaced sockets, timers, and the render and the effects a changed state
asks for. A socket's handlers close over the render that made them (`closure`), the refs are shared.

### Series

Of a number a series keeps `of`, the bars it is the figure of, and `on`, the bars it was
computed from; 0 in `on` marks a stopgap zero of the ta library. `None` is a missing number.
A result is determined by the request and the number of rows it was computed from, so `IndicatorService`'s state is the number of bars,
when they came, those that are read now (`reading`), the cache entry of the request and the threads. What is shown is kept as the rows it was
computed from. For the dashboard `reading` moves as `chart_data_client.py:87-143` makes it move: `Slide` drops the first row, which is older than thirty days or
one over the limit, and `SlowerBar` puts a bar of a slower granularity, which bears the time at which it began, before faster ones that
were there already (the query has no condition on the granularity). Rows of equal time keep their order, and the fall-back to `Fact_Live_Trades` when there
is no price is left out. The others read from a fixed start on. A batch answers after the
other indicators of it: `Hit` and `Finish` only settle a result, `Answer` gives it.
The endpoints are modelled given a price reader that works (section 4, 17). `Trials` gives for a design which rows
`saw` and which are `judged`.

## 3. Runs

All twelve hold. Each asks what several actors, or many bars, can do to one claim; the type invariants
of the modules are proved (section 5) instead of being run. Distinct states in parentheses.

| Run | Instance | What it shows |
|---|---|---|
| `retrain_safety` (643 630) | 2 runs, 5 candidates, Retain 2, 3 seconds, kills, failing calls on the lock and state files, `FairSpec` | All of the locked path: `SingleFlight`, `NoLockLeftBehind`, `LiveBundleComplete`, `LiveBundleVetted`, `StateBehindPointer`, `PointerMovesForward`, refinement of `ModelCatalog`, and that every started run returns or is stopped by a fault |
| `retrain_manual` (2 984 068) | a run and the command line, different seconds, Retain 2 | What survives an unlocked publisher: `RecentLivePresent`, `GatedBundleSound` |
| `queue` (478 715) | 2 threads and a second process, room for 1, 1 fault, `FairSpec` | `NothingDropped`, `DuplicatesBounded`, `OverflowBounded`, and each call returns though nobody drains the queue |
| `stream_safety` (265 152) | 2 clients, a chart, 3 keys of 2 symbols, 2 ticks, 2 requests, 1 failure, `FairStreamSpec` | `StreamCoversSubscriptions`, `RegistriesAgree`, `NoSendToDead`, `NoTickTwice`, and every subscribed symbol is streamed in the end |
| `live_rows` (988 657) | 2 runs, 2 audits, colliding keys, both sides of an asset, correlated assets, a signal with three outcomes, 1 fault | `FilledOncePerRow`, `PendingIsExplained`, `ExecutedIsReal`, `OutcomeFitsPrice` |
| `artifacts` (162 586) | 2 trainers, 3 frame sizes, 2 faults; or 2 attributions and 2 vettings, 1 cut short | `HashesTellTorn`, `BundleIsEarned`; `AllocationSound` |
| `ingestion` (1 121 249) | 2 runs that may overlap, bars at 0, 4 and 6, 2 faults or pages out of order | `GapsExplained` |
| `backtest` (2 812 807) | 5 bars on 4 prices, holding limit 2, slippage and costs 1 | `PnlWithinBracket` |
| `attribution` (1 118 152) | 2 loaders, backfill, labeller, attribution; 7 bars, the first fold with the fourth, 3 loads | `CopiesBounded`, `BackfillAgrees`, `RevisionsAreRecent`, `UnknownMeansUnlabelled` |
| `pool` (213 400) | 3 tasks of 2 priorities, queue of 2, up to 2 workers, 2 events, `FairSpec` | `AnswersAreOwn`, and every accepted task ends |
| `chart_stream` (260 763) | 2 symbols, 2 attempts, 2 sockets something refers to, `FairHookSpec` | `OneLiveSocket`, `KeepsTrying` |
| `series` (1 210 539) | every indicator, feature, strategy, regime, rule and trial on up to 10 bars, the dashboard's with a window that slides by a bar and one slower bar in between; one indicator through the endpoints with 2 threads, time to live and handling of 1 | `InStep`, `NeverRepaints`, `JudgedOnUnseen`; `FreshWithinTTL` |

**Why these bounds.** Two processes are the least that can overlap, and the locked path
makes any number of runs take turns. The candidates are two deployable ones of different accuracy and three that one
gate each refuses; three seconds let two bundles be published and a third begin, and with Retain 2 the trim has
something to delete. Queue room for one and three producers reach overflow, waiting, dead letters; a key that all of them publish makes
the second a retry; one fault puts a kill or write error at every step. Two symbols, one with two granularities, and a
chart beside two clients are the least in which one subscription restarts another's tick, a client loses one symbol
and keeps another, and both kinds of clean-up occur. `live_rows` takes three days, each with one of the ways in which signals meet.
The frame sizes of `artifacts` stand on both sides of 300 trades; its share of a quarter lets three cells reach the floor. A gap in
`Open` (no bar at 2) makes a window end where no bar is. Seven bars hold a history without a fold, a warm-up and two folds, five a trade that opens, ends and is followed by another.
Ten bars let each series with the short periods chosen begin, run and be revised. Where a proof exists it covers every other value. Larger
instances were checked once: `FreshWithinTTL` with two new bars and five units of time (24 million states),
`RevisionsAreRecent` with `MinBars = 3` and ten bars, the pool with two workers and three events for its safety (5.0 million), the hook
with one symbol and three sockets (3.1 million).

Deadlock checking is on in `attribution`, which goes on for ever, and off elsewhere because every
instance ends: at the horizon, after the last call, when everything is closed, at the last bar.

**Fairness.** `Retrain!FairSpec`: a process that started keeps running until it returns; a run that finds the lock
aborts and waits for nobody; nothing has to start, fail, be killed or clear a lock. `SignalProducer!FairSpec`: a thread inside
a call is scheduled and its sleeps end. Weak fairness is enough for the mutex because the number of calls is bounded.
`StreamService!FairStreamSpec`: the event loop runs the stream task, sends return or raise, backoff ends; the
upstream may fail up to `MaxFailures` times; clients owe nothing. `WorkerPool!FairSpec`: the browser fires a timer that is due,
delivers messages, and a script loads or fails to; nothing has to be submitted, to time out in time or to be cancelled. `ChartStream!FairHookSpec`: React
renders and runs effects, timers fire, a socket that connects or closes comes to the end of it; no connection has to succeed, or to drop.

Some definitions hold with the configurations of their module and are in no run, as they add little to it: `TrimBoundsVersions` (`Retrain`, without operators), `DeadOnlyWhenFull`, `EquityLagsOneBar`, `OneTradeAtATime`, `EveryPageAdvances`, `OneRowPerKey`, `QueueInOrder`, `DoneIsDisarmed`, `BusyWillEnd`,
`QueueIsAttended`, `ReconnectPending`, `DisconnectedIsTrue` (all proved).

## 4. Where code and its own words disagree

Each property below states what a comment, docstring or test says. TLC refutes it when the
property is added to the configuration named, in place of the properties there (`INVARIANT`, or `PROPERTY` for the temporal ones).

| # | Property | Configuration | Said | Done |
|---|---|---|---|---|
| 1 | `LiveVersionPresent` | `MCRetrain_safety`, `Spec`, `Runs <- OneRun`, `Operators <- OneOperator`, `Procs <- RunAndOperator`, `Candidates <- TwoCandidates`, `MayCrash = FALSE` | `serialize.py:179-181`: never leave a partial version pointed to | a publish that fails deletes its prefix, which another has made live in the same second |
| 2 | `CooldownHonored` | `MCRetrain_safety` | `triggers.py:9`: "6h debounce" | the state is read before the lock and written after it (`orchestrator.py:242`) |
| 3 | `NeverOverflows` | `MCSignalProducer_queue` | `producer.py:112`: "never overflow" | check (113) and publish (121) are two calls; `OverflowBounded` is what holds |
| 4 | `RepublishIsNoOp` | `MCSignalProducer_queue` | `base.py:13`: a no-op | a fault between log and seen file (`local_durable.py:67-69`); `DuplicatesBounded` is what holds |
| 5 | `TickReachesAll` | `MCStreamService_safety` | `oanda_stream_service.py:949`: "Update all subscriptions" | a subscribe cancels the task in mid-tick (728-729) |
| 6 | `NoGhostClients` | `MCStreamService_safety` | 1393: "Unsubscribe from all symbols" | the symbols are asked for after they were deleted (1391), and again in `streaming.py:574` |
| 7 | `NeverTorn` | `MCArtifacts_artifacts` | `promote.py:6-7`: a crash "can never leave a torn champion bundle" | three `os.replace`; `HashesTellTorn` is what holds |
| 8 | `UnboundedRanks` | `MCArtifacts_artifacts` | `vet.py:34`: "cap unbounded ratios (inf PF/recovery …)" | infinity is stored as NULL, read as 0.0, and fails the gate |
| 9 | `OnePositionPerAsset` | `MCLiveExecution_rows`, `Days <- OneDay`, `MaxFaults = 0` | `live_pipeline.py:25`, 128 | a fill is recognised by a key no broker answer has (1369), so that it counts as failed and is in no book |
| 10 | `LabelsNeverChange` | `MCAttribution_tables`, `MaxLoads = 0` | `mapping.py:104`, `test_causal_labels.py:10-11` | the debounce looks at the bars after a segment; a history without folds is labelled by one model fitted to all of it (`hmm_regime.py:430-454`), so that the next bar may change every label, and the first fold replaces all and takes those of the warm-up away. Once there are folds, `RevisionsAreRecent` is what holds |
| 11 | `FinalEquityComplete` | `MCBacktest_bars` | the analyzer takes the last equity value for the whole profit | a trade opened on the last bar, or still lagging, is missing from it |
| 12 | `PromiseIsKept`, `NeverOversized`, `StoppedMeansGone`, `RunningIsTimed`, `NoneIdles` | `MCWorkerPool_pool`, `Spec` | `WorkerPool.ts:132-140`, 27-36, 448, 283, 251 | nothing resolves the promise (417-427); an error leaves a timer that makes one worker more; `terminate()` passes over every other worker (453-455); a cancel's pong disarms the next task's timer; `resize()` leaves the queue alone |
| 13 | `BacksOff`, `UnmountedIsSilent`, `StreamsWhatIsShown` (`HookSpec`), `Settles` (`FairHookSpec`) | `MCChartStream_hook` | `useChartStream.ts:7`, 282 | the count of attempts is a dependency of `connect()` (228), whose effect (272-280) closes a fresh socket, cuts a wait short, and whose late close counts as a drop (200-215); two closes in one frame leave a timer no ref knows |
| 14 | `AllInStep`, `NeverOlderThanTtl`, `OnlyClosedBars`, `SignalsStay`, `WarmupCovers`, `ConflictIsZero`, `ReasonFits`, `EveryTrialUnseen` | `MCIndicatorService_series` | `routes/indicators.py:334`, 324; `multi_timeframe.py:221`; `registry.py:300`; `evaluator.py:358`; `engine.py:518`; `hmm_regime.py:296`, `train_ml_gatekeeper.py:1555`, `backtest_engine.py:497` | lists padded by one too few or many; age counted from the end of the computation; daily bars stamped with their beginning; strategies that look ahead; warm-ups that do not cover a library's stopgaps; a sum for a conflict; the first rule for a reason; thresholds and references judged on rows they were made from, parameters chosen by `GridSearchCV(cv=3)` (`gatekeeper/train.py:168-176`) and probabilities calibrated by `CalibratedClassifierCV(cv=3)` (`train_ml_gatekeeper.py:1025`) on thirds of time-ordered rows, the earlier ones judged by what was fitted on later ones |
| 15 | `FilledOncePerRun` | `MCLiveExecution_rows`, `MaxFaults = 0` | `live_pipeline.py:160`: `SKIPPED_DUPLICATE` | the query's LEFT JOIN (600) has a signal once for each of its trade outcomes, each row is ordered, and a fill is not in the book (9); `FilledOncePerRow` is what holds |
| 16 | `NeverSilentlyDropped` | `MCPriceIngestion_pages`, `MaxFaults = 0` | `multi_timeframe_ingest.py:8`, `dq.py:12`: rows "are never silently dropped" | a complete candle without usable prices is left out without a trace (62-84, 218); a run that dies between its two commits (224, 225) takes the bars it would have quarantined with it; `GapsExplained` is what holds |

The properties that do hold are conditional for a reason. With the unlocked command line, Retain newer versions can push the live
bundle out, and the pointer can go back, so `LiveBundleComplete` and `PointerMovesForward` are claimed, and proved, for
`Operators = {}`. `RecentLivePresent` counts the operators among the newer versions because each of them can have listed the versions before
others appeared. `FreshWithinTTL` allows the handling time of two endpoints beside the time to live: of the one that kept the result, and of the batch that looked it up and then computed its
other indicators. `JudgedOnUnseen` and `NeverRepaints` name the trials and
series they leave out (`Peeks`, `LooksAhead`), and `InStep` those in `OutOfStep`.

*What a chart's number is worth.* Nothing in the code promises that a drawn number stays, so no property above is refuted by it, but it should be known: the
reader always cuts to the last thirty days (`chart_data_client.py:109`) and to the limit, and does not select a granularity (116-124).
EMA, RSI, ATR, ADX, MACD, OBV, VWAP, A/D, and whatever else rests on the first row that is read, change at bars long past as soon as that row has
left the window; and all numbers behind it change when a bar of another granularity comes in between. `NeverRepaints` says what is left:
numbers of a window (`OfAWindow`) are the same as long as the rows of the window are, wherever these now stand; all others as long as
the rows from the first on are.

17. *Parts that cannot run as they stand*, and what is modelled instead.
   - `live_pipeline.py:922` (`threshold_source` undefined): `main` never reaches `run()`; `LiveExecution` is `ExecutionPipeline.run` for a
     caller with an artifact. `shell/cron_layer4_pipeline.sh` passes an argument nobody knows. The champion's manifest lacks fields that
     `load_model_manifest` requires, so the executor falls back to alias files and an environment threshold, without a hash check.
   - `engine.py:155` of the signal engine (`incremental` undefined): nothing is persisted. The model has the signals, not their persistence.
   - `chart_data_client.py:42` reads `Asset_ID` where PostgreSQL answers `asset_id`: charts, and the indicator endpoints
     (`indicators.py:337`, 431), find no known symbol. The endpoints are modelled with a reader that works. Trade markers and
     strategy overlays look for keys that `layer4_client` does not return.
   - `src.layer0.ingest_oanda_prices` has no file at this commit; its primitives are taken from
     `src/src/layer0/ingest_data/ingest_oanda_prices.py`, whose price component yields no mid price (the model's unusable candles) and whose own `run()`
     raises a NameError. W1 is refused by `to_oanda_granularity`.
   - The legacy trainer's promotion is unreachable (`--promote-as-champion` exits); a shared connection that aborted, or a failing
     load, makes the qualification use synthetic prices without a word.

## 5. Proofs

Eight modules, proved by TLAPS for every value of the constants that satisfies the assumptions named in the modules.
A hypothesis beyond them is in the theorem. Every invariant and every action property that a run checks, and the
refinement, is the conclusion of one of the theorems below; of what the runs check, only liveness has none.

| Module | Theorem | Statement |
|---|---|---|
| `RetrainProofs` | `TypeCorrect`, `MutualExclusion`, `LockReleased` | `[]TypeOK`, `[]SingleFlight`, `[]NoLockLeftBehind` |
| | `LiveBundleSafe`, `LiveBundleEarned`, `StateFileBehind` | `Operators = {}` implies `[]LiveBundleComplete`, `[]LiveBundleVetted`, `[]StateBehindPointer` |
| | `PointerForward`, `RefinesCatalog`, `TrimBounds` | `Operators = {}` implies `PointerMovesForward`, `ImplementsCatalog`, `TrimBoundsVersions` |
| | `RecentLiveKept`, `GatedBundleKept` | different seconds and finitely many operators, fewer than `Retain`, imply `[]RecentLivePresent`, `[]GatedBundleSound` |
| `ProducerProofs` | `TypeCorrect`, `Durable`, `DeadLettersDeserved` | `[]TypeOK`, `[]NothingDropped`, `[]DeadOnlyWhenFull` |
| | `DepthBounded`, `CopiesBoundedByFaults` | `[]OverflowBounded`, `[]DuplicatesBounded` |
| `LiveProofs` | `StreamTypeCorrect`, `StreamCovers`, `RegistriesAlwaysAgree`, `DeadAreForgotten`, `TicksOnce` | `StreamSpec` implies `[]StreamTypeOK`, `[]StreamCoversSubscriptions`, `[]RegistriesAgree`, `[]NoSendToDead`, `[]NoTickTwice` |
| | `TypeCorrect`, `NoSecondFill`, `PendingExplained`, `ExecutedReal`, `OutcomesFit` | `[]TypeOK`, `[]FilledOncePerRow`, `[]PendingIsExplained`, `[]ExecutedIsReal`, `OutcomeFitsPrice` |
| `SeriesProofs` | `EndpointsTyped`, `AnswersAreFresh`, `DesignsHoldOut` | `ServiceSpec` implies `[]ServiceTypeOK`, `[]FreshWithinTTL`, `[]JudgedOnUnseen` |
| | `SeriesInStep` | `ServiceSpec` implies `[]InStep` |
| `RepaintProofs` | `SeriesNeverRepaint` | `ServiceSpec` implies `NeverRepaints` |
| `ChampionProofs` | `TypeCorrect`, `BundlesAreEarned`, `HashesTell` | `[]TypeOK`, `[]BundleIsEarned`, `[]HashesTellTorn` |
| | `TablesTypeCorrect`, `UnknownOnlyUnlabelled`, `RevisionsStayRecent` | `TablesSpec` implies `[]TablesTypeOK`, `UnknownMeansUnlabelled`, `RevisionsAreRecent` |
| | `CopiesAreBounded`, `BackfillAgreesWithInsert` | finitely many loaders imply `[]CopiesBounded`, `BackfillAgrees` |
| | `VetTypeCorrect`, `AllocationIsSound` | `VetSpec` implies `[]VetTypeOK`, `[]AllocationSound` |
| `BacktestProofs` | `TypeCorrect`, `PnlBounded`, `OneTrade`, `EquityFollows` | `[]TypeOK`, `[]PnlWithinBracket`, `[]OneTradeAtATime`, `[]EquityLagsOneBar` |
| | `IngestionTyped`, `GapsAreExplained`, `RowsAreUnique`, `PagesAdvance` | `IngestSpec` implies `[]IngestTypeOK`, `[]GapsExplained`, `[]OneRowPerKey`, `EveryPageAdvances` |
| `WorkerPoolProofs` | `TypeCorrect`, `OwnAnswers`, `QueueOrdered`, `DoneDisarmed`, `BusyEnds`, `QueueAttended` | `[]TypeOK`, `[]AnswersAreOwn`, `[]QueueInOrder`, `[]DoneIsDisarmed`, `[]BusyWillEnd`, `[]QueueIsAttended` |
| | `HookTypeCorrect`, `OneSocket`, `AlwaysPending`, `DownIsDown` | `HookSpec` implies `[]HookTypeOK`, `[]OneLiveSocket`, `[]ReconnectPending`, `[]DisconnectedIsTrue` |

### The scheduler under its lock

`SingleFlight` is not inductive alone. `TypeInv` adds `LockOwned`: whoever is inside the
locked section is the process the lock file names. This survives `ClearStaleLock`, which is enabled only when
nobody is inside. `LockReleased` is proved the other way round: a lock file that names a run at work is one whose run is inside, since creating it enters
the section, and a step out of it deletes the file or is a `StopHere`, after which the file is an orphan. What concerns the live bundle rests on `PublishInv`, an invariant of what the one process inside knows
between taking the lock and its flip, for which `LiveBundleComplete` and `LiveBundleVetted` are too weak alone:

- `VersionOrder`: the live version is no newer than the second the lock was taken, and the version of the
  bundle under way is newer, because the pipeline moves the clock. So a clean-up never touches the live
  prefix, and a flip goes forward.
- `ArtifactsOwned`: nobody else writes the artifacts; from the gates until the upload all three are the candidate's.
- `IncumbentCurrent`: the accuracy that was compared is still the live one.
- `CandidateGated`: what is being published passed the gates.
- `HashesTrue`, `BundleVerified`: what was hashed, stored and verified is the candidate's, as far as each loop
  got; after the flip, the version kept from the trim is the live one.
- `StoreInv`: objects are immutable and no version lies in the future.

`LiveBundleComplete` is then disturbed only by `Cleanup` and `TrimVersion`, which the first and the fifth point
exclude, and established by `Flip`, by the fifth. `OnlyFlips` shows that nothing else moves the pointer, so that
every step maps to `Promote` (a flip) or to a stutter. The state file is behind the pointer (`StateInv`) because a run that has flipped
knows the version it will save, and the pointer only goes forward.

For `TrimBounds`, `TrimInv` adds two facts about the run inside the lock: no stored version is newer than its own (`Newest`), so that its own is
never marked for deletion and every marked one does go; and those not marked are at most `Retain` (`Trimming`). The second is a count: of
numbers with fewer than `Retain` greater ones there are at most `Retain` (`NewestFew`). A kill may leave a partial version behind; it is listed and counted like any other.
The hypothesis is needed: with `MCRetrain_manual.cfg` TLC refutes `TrimBoundsVersions`, as another publish may store its version between the listing and
the end of the trim.

### The scheduler beside the command line

Without the lock little of the above is left. `ManualInv` says for versions rather than processes: a version is one process's (`SameSecond` is
FALSE), its objects agree with what that process hashed, and `Crowded(v)`: whoever is deleting `v` listed it when the settled newer
versions, with the operators that may still be on their way, were already `Retain`. An earlier form of `RecentLivePresent` counted only the newer versions; the
proof did not go through, and TLC then found the behaviour with one operator more. The property states the corrected bound.

### Queue, stream, champion, execution

- *Producer.* `Typed`; `Kept` (what an instance has in its cache or the seen file is in the log, a message past its append is logged, a dead
  one waited in vain); `Room` (depth and those past their check are at most `MaxQueue + |Producers| - 1`); `Spent` (the copies of a
  key, and the instances to which it is still fresh, are at most instances plus faults).
- *Stream.* A task exists only while the manager runs; keys still to be updated have a tick due; a chart is unknown to the
  connection manager; a builder took no more ticks than were received while it existed.
- *Champion.* The files between two replaces belong to the one promotion under way, or the namespace is in `overlap`; a hash taken is that of the file standing there.
- *Execution.* `RowsCounted`: the fills of a signal by a run, the rows of it still to be taken up and the one at its order are together at most the rows the query has of
  it, so that an order whose answer was lost is not sent again. A row nobody works on is
  PENDING only with its key in `torn`; an auditor's judgement names the price it read.

### Worker pool and stream hook

The pool never compares an answer's id with its task, so that `AnswersAreOwn` has to come from the shape of the whole: a worker holds
the task and the timer it was given last, one message is under way for each task held, a task not started has
neither an answer nor a timer, a timed-out task took its worker with it, and before its script has loaded a worker's task is timed. Each
handler ends in `processQueue`, about which one lemma is proved and used by all. For the hook: the manual flag means nothing is live; a timer belongs
to a socket with tries left; a live socket has tries left or is the last render's.

### Prices

- *Backtest.* `Sound`: an open trade's last close lies strictly inside its bracket and it has bars left; `Finished`: a closed one
  met its bound; consecutive ones do not overlap.
- *Equity.* `EquityInv`: the last equity is the profit of the trades realized so far; those closed by this bar, the rest not
  before it (`CurveSound`). A bar that realizes one trade leaves no second one due, because the next was entered no earlier than that one
  closed, and lasts at least a bar or to the end of the data (`Lasting`). The profit is a fold; `FoldsExist`, `FoldsAgree` and
  `ProfitGrows` say what it adds up to.
- *Ingestion.* `IngestionInv`: every bar before a run's `from_ts`, and every bar before any stored row, is accounted for (stored,
  quarantined, held by a run between its two commits, or passed over: unusable, in a failed window, lost by a fault). `PageWhole` says why a step keeps it: a page leaves out of
  its window only what was unusable. `RowsAreUnique` is about the duplicate check of `dq.py`, whatever the broker sends.

### Research tables

- `RevisionsStayRecent`: `RegimesSound` says by whom the labels are: of nobody, of the one model of a history without folds, or of a run with folds. In the last
  case windows of the folds tile the history (`StepOn`, `WindowsTile`), so the labels are the debounce of a prefix; a history that has folds keeps them, and its raw
  labels (`RawSound`), so that the next run debounces a longer prefix of the same. The debounce of a prefix
  agrees with that of the whole but for the last `MinBars - 1` places (`AbsorbedStays`, `SmoothStays`).
- `CopiesAreBounded`: the loads in the table and the loaders about to insert are together at most the loaders (`LoadsFit`), since a delete removes all loads.
- `BackfillAgreesWithInsert`: every row is legacy, or updated with the backfill's bounds, or waits for a fold that is still left, or carries its own insert's tag (`Tags`).
- `UnknownOnlyUnlabelled`: tagged rows begin after `MinTrain` bars (`Late`) and the labels no later than that, or with the first bar if they are of a history without folds, though the two count from different bars.

### Vetting

`AllocationSound` has a part about data and a part about interleavings.

The data. The shares are sums over sets and a recursive function, the ranks a `CHOOSE` among permutations. The library's induction
theorems that take an operator cannot be instantiated, but that the strict subsets of a finite set are well-founded is a fact about a
set, and gives induction over finite sets and over numbers (`SmallestSet`, `LeastNumber`, `Subsets`, `Numbers`). From it: what a sum is
(`SumsExist`, `TotalTake`, `TotalSplit`); that in every round of the floor somebody is left who is not pinned, and that after one round per
place nobody else falls below (`FlooredStep`, `PinnedFloored`); that the parts add up to the whole and none is below the floor
(`SharedOut`, `SharesFair`); that some permutation has no cell before a better one (`RankingExists`). Cells that tie come in the order that `CHOOSE` takes; the proof
uses of it only that no cell stands before a better one, so that any order will do which the database gives at each read of the same run.

The interleavings. `VetIInv` says:

- `StoredOK`, `BegunOK`: an open transaction is one attributor's and its rows are not there yet, so what is committed never changes (`KeptReadable`).
- `VetterOK`: what a vetter has read is committed for good; if it met no other, all others are idle and the files it has written are built from its run.
- `FilesOK`: each file by itself is built from one run that can be read.
- `SettledOK`: after a vetting that met nobody and came to its end, the three places are built from one run, and nobody is past its first write.

`VettingAssumption` and `TablesAssumption` ask for a table of odds that is positive and grows with the score, as the exponential in `gates.py:168` does, that has
every score which may pass, and for finitely many cells of the table's types.

### Series

Some ninety series are built from the operators of `BarSeries` and a few more. Both proofs follow the construction: a lemma for each operator, then one for each series,
which only cites those.

- `SeriesInStep`: a list is `InPlace` if it has as many entries as there are bars, and each number in it is of its own bar and rests on no stopgap zero. `By(s, d)` says
  that it is `d` places off, for the lists that a later step pads. Windows, zips, averages, blanks and shifts keep lists in place; loops that build their
  list figure by figure are `Loop`, `WindowLoop`, `PrefixLoop`. Where a library leaves zeros, the warm-up has to cover them. What `OutOfStep` names is padded
  by one too few or too many, and there TLC refutes the claim (`AllInStep`).
- `SeriesNeverRepaint`: `Grows(s, t, n, m)` if `t`, computed from `m` bars, begins with `s`, computed from `n`. Every operator carries growing lists to
  growing lists; a row of a table that is complete stays one (`Agreed`); a bar stays in its fold. Charts and causal labels may give a number where there was none
  (`Keeps`, `Remain`). The step from `n` to `m` is then any step of the service in which a later answer of no fewer rows with the same first ones is shown, and `FreshInv` says that an answer is of at least one
  row. For a window that moves, `Banded(s, n, k, os)` says that a list has nothing at its first `k` places and from there on a number of the places at the
  distances `os`, the same at every place (`WindowsBanded`, by a lemma for each of the thirteen series of `OfAWindow`): a number whose rows are still
  next to each other is then given again, at their new places. What `LooksAhead` names is computed from later bars, or, for causal labels, from a history without folds.

`SeriesAssumption` asks for positive windows, a positive step of the folds, and that `None` is no number. `RequestAssumption` says what the code can be asked:
indicators that the endpoint's registry, the features, the staged strategies and the rule engine know, with positive periods, and
two warm-ups that cover a library's zeros: the context of a regime is longer than the windows of its ATR and ADX (`Fact_market_regime_v2.py:244`, 250: 60 or 15 bars over
14), and the registry's for ADX (50) is at least twice the period but one.

### Endpoints and trials

- `AnswersAreFresh`: `FreshInv` says that what a thread has read covers the time its call was made, a kept result covers `expires - Ttl - Handling`, and what waits to be
  answered covers `Since`: a result found in the cache was kept by a call that began at most `Ttl + Handling` before it was found, and waits for up to another `Handling` until
  `Answer`. Time passes only while each call can still be answered in `Handling`, which is the definition of that constant.
- `DesignsHoldOut`: of each design but those in `Peeks` (thresholds, early stopping, reference models, the qualification's windows, the grid search and the calibration) the rows seen end before the judged ones begin. It is a fact about numbers (block ends, cuts, gaps that fall back from E to
  E // 2 to 0, fold starts), and the invariant adds that what is shown was computed from some number of rows.

### Only model-checked

- Liveness (`EveryRunReturns`, `CallsReturn`, `SubscribedIsStreamed`, `EveryTaskEnds`, `KeepsTrying`): TLAPS has neither ENABLED nor fairness.
  `QueueAttended`, `BusyEnds` and `AlwaysPending` are the safety parts of the last two.

## 6. Not modelled, and the plan

*Left out of the parts that are modelled.* LocalFS's check-then-copy put, torn log lines, `reset` and the candles of the stream manager
(a late tick is merged into the current candle, 498), unsubscribe by granularity; the HMM and all statistics; weekend gaps, progress files and HTTP retries of
the ingestion; several timeframes of an outcome load (its DELETE removes all, though only those requested are reloaded), and the parquet
written after the commit; prices in the hook, a remount, `useOandaStream.ts` and `useIndicatorWorker` (used by no component); Redis, errors and the cleanup beyond 1000
entries of the indicator cache, rows of equal time and the fall-back to live trades in what the charts read; log-only vettings.

*Not modelled.* The REST API (`fetchOHLCData` of the chart has no guard against a late answer for an earlier symbol, about line 201), alerts
(one read and one-statement updates on request), database access and migrations, news and sentiment: I/O. Executor sizing, feature alignment between training
and serving, the qualification scripts' bookkeeping, the legacy trainer's main: sequential and numeric.

*Next.*

1. Models, if extended: alignment of features between `feature_alignment` and the trainer; candle periods and late ticks; LocalFS's put; a database that hands tied
   cells over in another order at each read.
2. Proofs: for the three liveness properties
   without one, an invariant that says what is still pending, as `ReconnectPending` does for the hook.
