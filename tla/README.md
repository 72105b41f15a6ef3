# Yaumi Flow: TLA+ specifications and proofs

Yaumi Flow forecasts the demand of van-sales routes, turns the forecasts into
recommended orders, and supervises the visits of the day. Five Python services
and a web application cooperate over HTTP, two SQL Server databases and a shared
data directory. This directory holds TLA+ modules for the parts of that system
where order, failure and concurrency decide whether it is right:

* **training**: what happens to a model from its trigger to its row in the audit history;
* **the night**: how sales and forecasts travel through the reconciliation refresh into the
  table, its mirror and the recommendations, and what the van-load policy does with them;
* **the mirror**: how a dataset's CSV is kept in step with its upstream table, and the caches over it;
* **the plan**: how a date's recommended orders are made, on demand, by cron and by cascade, and how
  the engine divides the load of a van;
* **the day**: how invoices become visits in the supervision tables.

Paths are relative to `src/` of the repository; `dfp/` stands for
`demand_forecasting_pipeline/`. `PROJECT.json` maps every definition to the
lines it models.

## 1. Inventory of the system

| Component | State it keeps | Operations | Talks to |
|---|---|---|---|
| Model registry `dfp/services/model_registry.py` | `artifacts_dir` (live), `versions/<id>/` with manifests, `current.json`, `_REGISTRY_LOCK` | `record_version`, `rollback`, `rollback_if_current`, `prune` | file system; called by training outcome and the rollback route |
| Pipeline service `dfp/services/pipeline_service.py` | one `PipelineRun` record per pipeline under `_lock`, cancel events, threads | `run_training`, `run_inference`, `_execute` and its hooks, `shutdown` | training code, database push, data import, training outcome, reconciliation |
| Training outcome `dfp/services/training_outcome.py` | none of its own | `record_training_outcome` | status, artifact cache, gate, registry, history |
| Auto-retrain scheduler `dfp/services/retrain_scheduler.py` | `AutoRetrainConfig` (history, cadence, baseline) as a JSON file, `_auto_retrain_pending`, drift cache | `check_and_retrain`, `evaluate_challenger`, `compute_drift_status`, `record_run`, `update_settings`, `rotate_baseline_if_eligible` | pipeline service, accuracy service |
| Retrain and pipeline API `dfp/api/` | none | triggers, rollback, status, lifespan | all of the above |
| Training and inference `dfp/src/` | the live artifacts | `run_training` (reset, then write), `run_inference` | file system, SQL |
| Reconciliation `dfp/services/reconciliation*` | `_REFRESH_LOCK`, `_LAST_REFRESH_AT`, the carry chain of `yf_sales_transactions` | `refresh_reconciliation`, its cascades and backstop, `enrich_with_load` | SQL, data import, recommended order |
| Artifact, accuracy and storage services | caches keyed by modification time | reads, invalidation | file system, SQL |
| Data import `data_import/` (:8005) | CSV mirrors, parsed-frame memo, answer cache | full, incremental and window imports, pruning, EDA reads | SQL |
| Recommended order `recommended_order/` (:8001) | source frames with their modification times, recommendation files, `yf_recommended_orders` | lazy, nightly and forced generation, the engine and its feedback, adoption | data import, forecasts |
| Sales supervision `sales_supervision/` (:8004) | page sessions, reconciler sessions with a lock each, visit tables | initialise, visit, auto-visit tick, invalidate-day, repair, redistribution | recommended order, live SQL |
| LLM analytics `llm_analytics/` (:8003) | file cache, rate limiter, cost counters | analyse | model API |
| Shared runtime `common/` | scheduler lease, connection semaphore, run audit | leader election, pools | operating system |
| Web application `webapp/` | browser state | pages | every service |

The night's chain is: data import, reconciliation, drift check and auto-retrain,
recommendations; during the day supervision polls the live actuals. Services run
under uvicorn, possibly with several workers per host; only the worker that
holds the lease of `common/leader_election.py` runs the schedulers.

### Where it is hard

* **Everything after SUCCESS.** A pipeline thread reports its final status in the
  shared run record *before* it audits the run, chains an inference and decides
  on the reconciliation cascade. From then on the record belongs to the next run.
* **Two locks that do not know each other.** The run record has one lock, the
  registry another; training writes the live artifacts under neither.
* **A reset that goes further than it says.** A training first deletes everything below
  `artifacts_dir` but `versions/`: the live artifacts, what the registry is staging, and `current.json`.
* **A non-transactional file system.** A version and a rollback are many steps;
  an I/O error or the death of the process may come between any two.
* **Operators act at the same time**: trainings and rollbacks by hand, next to
  the scheduler and the gate's own rollback.
* **Three callers of one refresh.** The import's cascade at 03:00, a backstop at 03:30 and
  manual calls share one lock and one stamp; the cascades run after the lock is released and
  may fail one by one; the window of a call decides what it covers.
* **A past that must not move.** Model columns of past days are frozen, sales columns are
  not; the carry chain is recomputed from the first day over both.
* **A file replaced under its readers.** Pulls of different windows are merged into one CSV
  while other threads stat, parse and remember it.
* **Plans made by whoever asks first.** A page, the grid, a cron and a cascade generate the same
  routes; a generation may heal its inputs by calling a refresh that calls the generation back; a plan is
  written to a table and then to a file.
* **Lanes that fail alone.** A candidate lane that raises looks like one that found nothing; feedback
  moves scores across the cut that drops rows.
* **Snapshots written late.** Supervision snapshots a session under its lock and writes it
  outside; ticks, the page and a repair write the same rows.

`PROJECT.json` lists each hazard at its line, with the properties that watch it
or the reason why none does yet.

### What makes each component correct

* Registry: the pointer names a retained version; snapshots do not change; what
  settles is live; a conditional rollback never overrides anybody; disk use is
  bounded.
* Pipeline: one run in flight; the record is about it; it ends; cascades follow
  a training.
* Outcome and gate: no measurable regression is promoted; a training that published
  is not scored on the rows of an earlier one; a failure is healed by the next training;
  every success has exactly one row.
* Scheduler: the latch is released; a failed automatic run leaves a row.
* Refresh: history is frozen; sales only catch up; the backstop makes good for the primary;
  no night blocks the next; the mirror follows the table.
* Van load: the truck never carries more than the policy ever expected to sell.
* Data import: a row changes only to a newer one and goes only for its age or because it is
  gone upstream; the window catches up; a remembered frame is the file under its signature.
* Recommended order: a plan that can be read is in the table; nobody but a cascade plans before the chain
  has the date; a page that asks is served; the load of a van goes to the strongest and is used up; a newcomer goes
  without a starter only for want of load.
* Supervision: a visit that reached the tables stays; what stays invoiced ends in the
  tables; the header ends as the totals of the session.

## 2. The modules

```
VersionStore <--implements-- ModelRegistry ---\
                             PipelineService ---> TrainingLifecycle
                             PromotionGate  ---/
DailyRefresh    CarryChain    DataMirror    SupervisionSessions
RecommendedOrders    RouteEngine
```

| Module | Role |
|---|---|
| `VersionStore` | abstract specification: retained versions and a pointer to one of them, or to none |
| `ModelRegistry` | `model_registry.py`, one file-system step per action |
| `PipelineService` | `pipeline_service.py`, the threads of one process |
| `PromotionGate` | `evaluate_challenger` as operators |
| `TrainingLifecycle` | composes the three with `training_outcome.py`, the scheduler's tick and the operator |
| `DailyRefresh` | the nightly chain: `data_import`'s cron, `reconciliation_refresh.py` and its callers, `/generate`; one clock for the three services |
| `CarryChain` | `reconciliation/engine.py`, `reconciliation/enrich.py` and the MERGE of one (route, item) pair |
| `DataMirror` | `data_import/core/importer.py` and `EdaService`'s two caches, one dataset |
| `RecommendedOrders` | `recommended_order`: the plans of one date and everybody who asks for them |
| `RouteEngine` | `recommended_order/core/`: one call of the engine for one route |
| `SupervisionSessions` | `sales_supervision`: sessions, reconcilers, page, repair and tables of one route on one day |
| `MC...` | instances for TLC |
| `...Proofs` | theorems about the module of that name; `ForecastServiceProofs` has those of `PipelineService` and `ModelRegistry`, which `TrainingLifecycleProofs` builds on |

The last modules meet at tables and files. `DailyRefresh` treats the import and the
generation as one step each; `DataMirror` opens up the import, `CarryChain` what a refresh
computes before its MERGE, `RecommendedOrders` the generation, and `RouteEngine` the making of one plan in it (`Make`);
`SupervisionSessions` starts from a plan that a generation has written.

**ModelRegistry.** `live` is `artifacts_dir`; `kept` and `snap` are `versions/`
and what is in it; `current` is `current.json`; `lock` is `_REGISTRY_LOCK`; `op[c]`
is the call that client `c` is in. `record_version` is `RecordBegin` (lock, id),
`RecordCopy` per path, `RecordPublish` (the rename), `RecordPoint`, `PruneOne` per
folder and `RecordEnd`. A rollback is `RestoreBegin` (or `RestoreDefers`, `RestoreUnknown`),
`RestoreFile` per path, `RestorePoint`, `RestoreEnd`. `prune()` is `PruneBegin` and the
sweep. `RecordFails`, `RestoreFails` and
`PruneHalf` (the `rmtree(ignore_errors=True)` that gives up inside a folder) are
I/O errors; `RegistryDies` is the death of the process. `Overwrite`, `WipeStaged` and `WipePointer` are
what a training does to the same folder without the lock: it writes a live path, or deletes one, a staged
copy, or `current.json` (`_reset_artifact_dirs`). Version ids are
timestamps in the code and growing numbers here: a clock that steps back is not
modelled, and no property here would notice an id that is used twice. Contents are opaque values. The staging folder of a call that died is
never listed, so it is not part of the state.

**PipelineService.** `run` is `_runs`; `cancel` the shutdown events; `thread[t]`
the position of the t-th thread in `_execute`, with what its trigger asked for
kept beside it; `trained` says whether `pair_classes.csv` exists, the file that
the inference preflight looks for and training writes last; `reconciled` records who fired the
cascade (`ReconcileFollowsTraining` asks for a training that went to its end, and does not exclude that a standalone inference fired the cascade on its
flag, see section 3). `Start` is `_run_pipeline` (all guards and the record, under the lock);
`WorkDone`, `WorkFails`, `Checkpoint`, `Publish`, `Finish` are `_execute` up to SUCCESS;
`Outcome`, `ChainCheck`, `ChainRefused`, `ChainStart`, `Hook`, `Reconcile` are what it does
afterwards, without the lock. `Shutdown` and `Restart` are the lifespan of the
process. The thread starts with its admission; `thread.start()` does not fail here.

**PromotionGate.** Accuracies are integers and `NoScore` stands for a value that is
missing, NaN or infinite; the code only subtracts and compares.

**TrainingLifecycle.** Registry clients are the pipeline threads and the
operator; the content of a live path is the training that wrote it, and
`quality[t]` is the accuracy of the Test rows as the push of training `t` left them. `table` is the training whose push
`yf_demand_forecast` shows, `mirror` the one that `demand_forecast.csv` shows. `audit[t]` is
`record_training_outcome` in thread `t`; `history` the newest-first rows; `tick` a
tick that has started a training and has not latched it yet; `latch` is
`_auto_retrain_pending`. `PipelineService!Outcome` is opened up into `ReadRecord`,
`NotSuccess` or `IsSuccess`, `Probe`, `Judge`, `Record`, `RecordReturns`, `RestoreChampion`,
`RestoreReturns`, `RegistryRaises`, `WriteRow`. Each joins a step of the registry where
there is one. `Reboot` kills threads, locks, audits and latch at once and keeps
the disk. What makes a tick due (cadence, drift, cooldown, freshness of the data)
is left open: a tick may find a reason at any time, which is more than the code
allows.

`PublishTest` opens up `_publish` of a training: `PushTest` is the upsert of the Test rows, and `PublishMisses` every way in which
the push or the import behind it fails or is skipped. The code swallows these (`pipeline_service.py:530-560`) and the run ends in SUCCESS;
`missed` remembers them for the properties. `ImportPredictions` is any other import of the dataset. `Probe` scores the rows of
the CSV (`file_storage.py:157-193`, `241-244`), never the files below `artifacts_dir`: a training whose own publish
missed is scored on its predecessor's rows, and nothing is promised about its score. Two
things are assumed: imports of the dataset do not overlap (an older read that lands later would take the CSV back), and
`training_cascade_lookback_days` (365) covers the Test span.

`WriteRow` cannot fail here. In the code `record_run` changes the list in memory and then saves it; a save that raises is only
logged (`training_outcome.py:172-180`, `retrain_scheduler.py:272-279`), so such a row is there until the next restart, or for good if
a later save succeeds first. The model is the second case. What inference writes next to the models is left out.

`WipeArtifact` and `WipeCopy` are the reset of a training, path by path in any order; `unwiped` is what it has
not visited yet. The pointer survives when it cannot be deleted (`OSError` is ignored). Otherwise the gate sees no
champion, unless an operator's rollback has written a new pointer while the training was at work. `WriteModel` are
the writes that follow.

The constant `Overlap` says which requests do not wait for what is going on. Without `"trainings"` no training starts
while the thread of another is alive; without `"rollbacks"` none starts, and the work of a training does not end, during
a rollback, and a rollback starts only when no training is alive or the running one has done its reset and is still at work. Failures, crashes,
half-done registry calls, inferences, shutdowns and the tick's own races remain.
The finding `lifecycle_lostaudit` shows why some guarantees need `Overlap = {}`: otherwise they are false of the code.

**DailyRefresh.** A date is its age in days; `Midnight` makes every date a day older. A
value is a version: the larger was posted later. `table` is `yf_sales_transactions` with a
model side and a rep side, `mirror` its CSV, `csv` the mirror of `yf_demand_forecast`, `recs`
the dates with recommendations, `stamp` is `_LAST_REFRESH_AT`, `lock` is `_REFRESH_LOCK`, `run[c]`
the call each caller is in. `PrimaryTime`, `Nightly` and `NightlyLost` are the cron of data
import and its POST; `BackstopTime`, `BackstopSkips`, `BackstopRuns` the cron of the forecast service;
`Manual` everybody else. `TakeLock`, `Refuse`, `Load`, `Upsert`, `UpsertFails` are `refresh_reconciliation` up
to the MERGE, `MirrorTable`, `Generate` (per date, oldest first) and `Stamp` its cascades. `MirrorTable` copies the dates of
`Lookback(c)` only: the horizon of the run and `CascadePad`, or `CascadeMin` days when that is more
(`reconciliation_refresh.py:430-438`). If the cascade of a wide manual refresh fails, the older dates that it wrote stay stale in the
mirror until somebody refreshes as wide again; no property denies it. `Restart` is the
death of the forecast service. A deduplication window is as long as the distance of the crons, so
a stamp is "recent" if it was set in this slot or the one before.

**CarryChain.** `walk` is the refresh in flight over one pair: `Begin` fetches the sales,
`Walk` is one iteration of the loop of `enrich_with_load`, `Skip` a day without a forecast row,
`Merge` the upsert with its freeze. `Target` is the kernel of the engine (calibration,
trimming by class, quantile interpolation), `Enveloped` the band around recent sales, and
`Expected` adds the dormancy and journey guards. Statistics of the past (ratio, band, class, dormancy)
are inputs of any value. Quantities are hundredths, rounded down.

**DataMirror.** `src` is the upstream table, `file` and `mtime` the CSV and what `stat`
returns, `import` the call of `import_dataset`, `memo` and `answers` are `_df_memo` and `_cache` of
`EdaService`, `request[r]` the EDA request of thread `r`. `Pull` is the query of a mode, `EmptyPull` and `Save` what
follows, `Invalidate` the clearing of caches, in the worker followed or in another one.
`Miss`, `Recall`, `Parse`, `Remember`, `Answer` are a request between two acquisitions of the lock.

**RecommendedOrders.** The source CSVs are one bundle with a version, `disk`; `frame` and `seen` are what
`DataManager` holds and the modification time it remembers; `chain` says whether the mirror of
`yf_sales_transactions` has a row of the date, of any route (`api/routes.py:354-360`); `table` and `file` hold each route's plan, of which only its origin is kept.
`call[c]` is the request or job a caller is in. `Check`, `Read`, `ReadFails`, `Publish` are `ensure_fresh` and the
load; `Choose` is the gap list and `assert_fresh`; `Guard`, `Refresh`, `RefreshMisses`, `RefreshFails`, `CascadeLost`, `Recheck` the
carry-chain heal with the cascade it sets off inside the forecast service (`ok` is what the refresh will answer: behind a failed mirror
or a lost cascade the call ends with `carry_chain_missing`; `RefreshMisses` answers success without rows of the date, because between
00:00 and 04:00 in Dubai its UTC today is another day, or because the forecasts do not reach the date); `Gap` is `skip_existing`; `Make`, `Push`, `Save`,
`RouteFails` one route in the thread pool. A cascade's generation runs inside the call that caused it, as
in the code, whose caller waits. `Restart` is the death of the service, after which the sources may
load or not. A plan remembers whether it was made before the chain had the date (`early`). It does not say where the van's load came
from: a route without rows of its own, or an index of the transactions that does not parse, makes `get_van_items` enrich the forecast inline
(`data/manager.py:224-245`, `326-336`), and the guard, which takes a row of any route, does not prevent it. Every planned
route has something to recommend, and the database pusher is configured.

**RouteEngine.** `stage` walks a customer through the lanes of `generate`, in the order of the journey (`turn`);
`candidates` is `all_cands`, `records` the rows so far, `plan` what is returned. `Contribute` is the circuit
breaker: a lane may raise. `History`, `Peer`, `Basket`, `Reactivation` and `Starters` are the generators, `Rank` the weighing by
feedback and `merge_and_rank`, `Rows` the monitor cut, `Plans` every outcome of `apply_van_load_constraints` (equal
priorities may come in any order). A journey without customers goes straight to the allocation of nothing. Percentiles, similarities and confidences of the history are inputs of any
value; what the code makes of them (clamps, sanity bands, relief, blends, cuts) is modelled, in whole percents.

**SupervisionSessions.** Sessions are mutable and shared, so they live in a `heap` with
references from the reconcilers' cache (`entry`), the page (`web`) and each reconciler. `worker[w]`
is in `reconcile_route`: `ResolveCached`, `ResolveLoad` and `ResolveBuild` find the session;
`HeaderSkip`, `HeaderWrite` and `HeaderStamp` are Phase 0, `Fetch` Phase 1, `SyncCustomer` (under the
session's lock) and `SyncUpsert` (outside it) Phase 2. `PageOpen`, `Visit` and `PostVisit` are the page and its background upsert;
`PlanLands`, `InvalidateDay` and `Repair` what a late plan causes; `Sell` the invoices. `Losses` are the calls
that may fail: each failure looks to the caller as in the code (an empty answer, a session
that is not there). A customer buys one item; several items differ only in sums.
Two steps are coarser than the code. `PageOpen` is one step, where `session.py:153-174` invalidates, fetches the plan over HTTP and then loads
the saved visits: a failure of that load, or a stale answer of its cache (`db_saver.py:688-698`, `754-759`), leaves the session without them.
`HeaderWrite` takes its snapshot (`auto_visit_service.py:225`) and writes it (line 231) at once, so an older header that lands after a newer one
is not modelled; what is written to the visits is taken and written in separate steps.

## 3. Runs

| Run | Instance | What it shows |
|---|---|---|
| `registry` | 2 paths, present with one content or absent, 2 clients, cap 1, 3 versions, 1 fault, no training inside a call that may move the pointer | pointer, restore target, disk bound, settled state, conditional rollback, immutability, implementation of `VersionStore` |
| `pipeline` | 4 runs, one kind of trigger | single flight, record ownership, cascades follow a training, and, with fairness, that every run ends |
| `lifecycle` | 2 trainings (manual and scheduled), 2 paths, cap 1, 2 versions, 1 fault of the registry or failed publish, scores {1, 3, none}, tolerance 1, no overlap of requests | healing, no training that published is scored on earlier rows, audited successes, gated promotions, and that each component behaves in the composition as it does alone |
| `lifecycle_liveness` | 2 trainings that may overlap, 1 path, cap 1, no fault, scores {1, none}, fair | no training is audited twice, the latch is released, trainings settle |
| `lifecycle_lostaudit` | 2 trainings, 1 path, cap 2, no fault, scores {1, none}, every overlap | **violation**: a success without version, gate or row |
| `lifecycle_coldstart` | 2 trainings, 1 path, cap 2, no fault, scores {1, 3, none}, no overlap | **violation**: the second training is promoted as a cold start |
| `refresh` | 3 ages, cron horizon 1, a manual call of horizon 2 in the backstop's slot, pad 1, minimum 1, 1 post for each of the two youngest dates in the primary's slot, 1 retrain, 1 fault, fair | history frozen, sales only catch up, the backstop covers a night with one fault, the mirror follows the table, nights keep coming |
| `mirror` | 3 dates, 2 edits upstream, 1 fault, 1 reader, imports here or elsewhere, fair | rows move forward, the memo is never stale, the window catches up |
| `chain` | 2 days, forecasts {0, 2}, 2 classes, calibration 1.5 or none, an envelope or none, 1 correction | the stock on the truck stays within the largest expected demand |
| `orders` | 2 routes, 1 import, 2 calls among 2 pages, grid, cron and nightly refresh, 1 fault, fair | no file without its row, nobody but a cascade plans before the chain has the date, the next page that asks is served |
| `engine` | 2 customers and a newcomer, 2 items, 3 van loads, 4 histories of each item and customer, 2 records of the lanes, 2 calibrations, 1 failed lane | the van's load is used up strongest first, a newcomer goes without a starter only where the load went to rows at least as strong |
| `supervision` | 2 customers, quantity 1, 2 events among sales, plans, page opens, visits, restarts and losses, fair | no visit undone, invoices end in the tables, the header converges |

**Bounds.** `MaxVersions`, `MaxRuns`, `MaxFaults` and `HistoryMax` are the only
counters. Three versions under a cap of one give a sweep that spares the current
version and deletes another while a third is being recorded, and a rollback to a version older
than the newest. Two clients are enough for every interleaving under one lock of
a holder and a contender; two paths are the least for a half-done copy. One fault
may fall on any step. Four runs let a training, the inference that it chains, a
standalone inference and a second training overlap. Two trainings let the second
heal, replace, mask or be judged against the first. Scores 1 and 3 with tolerance
1 make a regression that must be rejected; equal scores one that is within the
tolerance; `none` a failed probe, or a probe before any import. The clients of the registry are symmetric.

`WritersWait` is TRUE in the `registry` run because `SettledIsLive` is a claim about
the registry alone: a training may then only reset what is staged of a version that will not be promoted. In the lifecycle it is
FALSE and training deletes and writes whenever it runs.

`refresh`: of the three ages the crons rewrite the two youngest, and the manual call all three, so that it writes further back than a cron's cascade
re-mirrors; with pad 1 and minimum 1 the horizon decides what a cascade covers, and the pad what is left of it after midnight. Any number of nights
pass, since the clock is not bounded. Posts come before the primary, on dates that a cron still reads; the theorems hold for posts and calls at any time.
 One fault may be any step of any caller, and the property about
the backstop is about nights with one fault; one manual call next to the two crons makes a third
contender for the lock.
`mirror`: a row before, at and after the start of the window; two edits make a deletion and a new row,
or two versions; the signatures only have to outnumber those somebody remembers.
`chain`: every carry across one midnight, for every combination of engine inputs; the theorems extend the result to any number of days.
`orders`: two routes are a page's own and another that a grid, cron or cascade makes at the same time; two calls are two
generations of one route, or one generation before and one after a fault; the fault may be a failed load, refresh, push or
save, a refresh that misses the date, a lost cascade or a restart. `ReplaceWaits` is TRUE: no CSV is replaced between its read and its `stat`.
`engine`: the histories are an item due and stable, due and bought ever faster, long lapsed, or never bought; the van
carries less than, some of, or more than what is wanted; the second calibration is that of a small route far
from the others, where the peer lane is off.
`supervision`: two customers give an order of visits, two events a race between any two of what happens in the world; each of the
reconcilers' own steps is free besides. The day starts with a plan that leaves one customer out, who
buys: a drop-in. (A third event exceeds what TLC does in minutes.)

**Fairness.** Weak fairness of every thread's next step: Python threads are
scheduled, and the calls they make (HTTP, SQL) have timeouts, so a step ends in
success or an exception. Weak fairness of the scheduler's release and latch
steps: APScheduler keeps firing while the process lives. Weak fairness of a
rollback that is in progress: the request is being served. Nothing makes an operator,
a tick or a fault happen. In the liveness run rollbacks do not overlap an audit because
`threading.Lock` is not fair: an operator who rolls back again and again could
keep a training's audit out of the registry for ever, and weak fairness does not
exclude it. That run has no I/O error: that no failed call keeps the lock is
proved (`LockIsHeldByCall`), and that a restart leaves no run behind is checked in `pipeline` (`RunsEnd`).
In `refresh` something always moves (the clock, a due cron or a thread of a refresh): HTTP calls and
queries time out; which one moves is not assumed. In `mirror` an import in progress ends, and the nightly cron pulls the window again and again
(strong fairness, since other imports keep coming between two nights); such a cron exists for `sales_recent` only
(`data_import/scheduler.py:29-31`), so `WindowCatchesUp` is about that dataset. In `orders` every thread runs
and every call returns or times out; nobody has to ask. In `supervision` the scheduler keeps
ticking (`Reconcile`), and background tasks run; that a call succeeds is not assumed beyond the bound on losses.

**Deadlock** is checked in every run but two: a thread that ends leaves the triggers, the
shutdown and the restart enabled. In `engine` the call returns, and in `orders` the bounded calls and faults run
out; both really stop.

### Disagreements with the documentation

1. `lifecycle_lostaudit`: `retrain_scheduler.py:542-543` calls the audit trail uniform;
   a training admitted right after SUCCESS makes the finished one's audit give up.
2. `lifecycle_coldstart`: `model_registry.py:68` says `"cold_start" -- no prior champion existed`, and `config/settings.py:501`
   that retrains that regress are rejected. `_reset_artifact_dirs` (`train_pipeline.py:147`) deletes `current.json` at the start of
   every training, so the gate of a training finds no champion and promotes whatever was trained. `NoUngatedRegression` holds because it is about
   the pointer that a promotion replaces; the gate compares only when the deletion failed or a rollback came in between.

The models contain these behaviours too (but for the last two); no run states them:

* `pipeline_service.py:77-78`: a standalone inference fires the cascade if a chained one is admitted before
  it reads the shared flag; line 40: training does start during an inference.
* `retrain_scheduler.py:550-554`: a failed automatic run has no row if another training followed it.
* `api/routes/retrain.py:96-97`: after a failed rollback the paths already replaced stay replaced.
* `training_outcome.py:156-157` says the next successful retrain fixes an inconsistent live state; when the champion's folder was half deleted
  by a failed sweep before an operator rolled back to it, a rejected training restores what is left of it (see section 4).
* `auto_visit_service.py`: a voided invoice leaves the feed and its quantity stays.
* `config/settings.py:175-176` says the 30-day window lets the cron pick up late posts; on good nights the primary
  covers today only and its stamp makes the backstop, the only caller with the window, skip.
* `reconciliation_refresh.py:1343-1346` says the chain identity holds across the cron boundary; yesterday's
  leftover is frozen as computed before yesterday's sales were known.
* `recommended_order/scheduler/jobs.py:4-5` says the page never sees empty data; a call whose plan was made by the
  cascade it healed with generates nothing itself and does not read the store again (`api/routes.py:640`).
* `recommended_order/api/routes.py:529-534` says a failed push leaves no file that disagrees with the table; overlapping
  generations, or a forced one that cannot save, leave different plans in them.
* `recommended_order/data/manager.py:140-142`: a CSV replaced between its read and its `stat` leaves old frames that no
  request reloads (with `ReplaceWaits` FALSE, `NextAskServes` is violated).
* `recommended_order/core/generators.py:232` says history outranks peer; the higher score wins, whichever lane it is.
* `data_import/api/routes.py:42`: an answer computed before an invalidation is cached after it, for a TTL.
* `train_pipeline.py:995-996` says a model whose final fit fails is excluded from per-pair selection; it stays in the validation
  table that the selection reads, and line 278 then looks up test predictions it does not have.
* `train_pipeline.py:1134-1136` says the model lookup covers every classified pair; a class skipped at line 839 leaves its pairs out.
* `inference_pipeline.py:784-791` says the crossed pair of quantiles is sorted; `q_10` is overwritten with the minimum before `q_90` is computed from it, so a crossed band collapses to its lower value instead of being swapped.

## 4. Proofs

All theorems hold for every value of the constants, under the assumptions named in the modules, which TLC
evaluates on every instance: `ContentsAssumption`, `ClientsAssumption`, `ScoresAssumption`, `CapAssumption`,
`BoundsAssumption`, `WritersAssumption`; `MaxRunsAssumption`, `TriggersAssumption`; the assumptions of
`PromotionGate` and `TrainingLifecycle` (the clients of the registry are the threads and the operator, a missing score is no number);
`RefreshAssumption`, `MirrorAssumption`, `ChainAssumption`, `OrdersAssumption`; `CustomersAssumption` (a route has
finitely many customers, so that the latest visit of a session exists); `EngineAssumption` (finitely many items, a customer is
planned once, the arguments of `generate` are typed, and the 25th percentile of the ranks is not above the 50th).

**ForecastServiceProofs, the registry.** None of the invariants is inductive alone. `Safe` adds to
the types that a client inside a call holds the lock (`LockInv`) and what the
call's version may be (`VersionInv`: a version being copied is the last minted and
not yet retained; one being pointed at or restored is retained). From `NextSafe`
follow `TypeCorrect`, `PointerNeverDangles` and `TargetNeverPruned`: a sweep runs under
the lock, so nobody else is restoring, and spares the pointer. `StoreStep` maps
each step to `Add`, `PointTo`, `Drop`, `Forget` or a stutter, hence `RegistryImplementsStore`.
`ContentInv` says how far a copy has come: every path no longer to be copied is
equal on both sides. It is kept because only the lock's holder moves either side
(`HolderContent`), and gives `SettledVersionIsLive`. `ExpectInv` says that
a conditional rollback in progress still sees the pointer that it expected, or none because a training has deleted it, hence
`RollbackIsConditional`. A training may act between any two steps of a call, so `WipeSafe` shows that its deletions
keep `Safe`; `SettledIsLive` is about the registry alone and assumes `WritersWait`.
`SizeInv` counts folders: each one that a sweep had to spare costs a fault, a call that fails before its sweep costs one
too, and only a call between its publication and the end of its sweep may have one more; with the lock free there is no such call, hence `RetentionIsBounded`. `PublishedIsImmutable` needs only `Safe`: a copy goes to a version that is not retained yet, and a sweep that fails inside a
folder holds the lock and spares the pointer. `HeldByCall` is the converse of `LockInv`: every way out of a call gives the lock back,
the only steps that take it start a call, and so `LockIsHeldByCall`.

**ForecastServiceProofs, the pipeline.** `PipelineSafe` joins types, single flight and record
ownership: a trigger needs a record that is not RUNNING, and by ownership no thread is then in
flight. `ChainInv` ties the chained flag and the cascade to a training thread that
went on to its end. They give `PipelineTypeCorrect`, `OneRunAtATime`, `RecordBelongsToRun` and
`CascadeHasTraining`.

**TrainingLifecycleProofs.** The composition is shown to be one first: `LifecycleComposesPipeline` and
`LifecycleComposesRegistry` say that every behaviour of the lifecycle, seen through a component's variables, is one
that the component allows. So the theorems about them hold of the lifecycle: `LifecycleImplementsStore`,
`LifecycleKeepsVersions`, `LifecycleLockIsHeldByCall`, `LifecycleKeepsRuns` (`SettledIsLive`, which assumes
that no training writes meanwhile, says nothing of it). `LifecycleSafe` adds to both invariants the types and where an audit
stands (`AuditPlaced`: a thread is in the registry exactly when its audit says that it is recording or restoring). On top:

* `RowsInv`: only a training that has left the audit hook has a success row, and one at most.
  It holds for any overlap and gives `TrainingsAuditedOnce`.
* `SerialInv`: when trainings do not overlap, the shared record stays that of the training being audited until its audit
  has read it, and what it has read stays its own trigger and status. It gives `SuccessesAreAudited`; the run
  `lifecycle_lostaudit` shows that the condition cannot be dropped.
* `QuietInv`, when nothing overlaps: the operator is away while a training writes or is audited
  (`OperatorAway`), and `Progress` says, for every place of an audit, what has been judged and which paths are already equal on both
  sides. It gives `TrainingHeals` and `NoRegression`.
* `StartOrder` and `PushOrder`, for any overlap: a training is admitted only when the earlier ones have reported their end, so trainings publish in the
  order in which they started, and neither the table nor the mirror ever goes back to an earlier one; a training published without a
  miss is behind both. What the probe reads is then of that training or a later one, which gives `ScoresMeasured`.

While `TrainingHeals` was being proved, an earlier `HealedByNextTraining`, which promised all live paths after a
rejected training too, turned out to be false, outside the bounds of the run that had checked it: a failed sweep
takes paths out of a version, an operator rolls back to it, and the next training is rejected; the restore brings back what the
champion still has, the other paths stay the challenger's.

**DailyRefreshProofs.** `RefreshSafe` is `RunsOK` (a run holds the lock exactly between its acquire
and its MERGE), `WorldOK` (types), `SalesInv` (what a run has read of the sales is between what the
table has and what YaumiLive says, because the lock is kept from before the read to the MERGE) and `NightInv` (a
night's callers are done, or belong to the night before, when their next turn comes). It gives
`RefreshTypeCorrect`, `HistoryIsFrozen` and `SalesOnlyCatchUp`, for every horizon, number of faults, and number of nights.
`CoverInv` counts a night's chances: until the day that is ending has its row in the table and in the mirror, the runs of the nightly
cron and the backstop that may still write it and the faults so far are two at least (`ChanceInv`). A caller gives up its chance only
for a fault (`CoverStep`), after its own re-mirror, or because of a stamp, and a restart costs as many faults as runs (`KilledChances`);
`RowsInv` is why a stamp and a finished re-mirror can be trusted, `DatesInv` why a run writes the day it is about. Hence
`BackstopAlwaysCovers`. `MirrorFollows` is proved with its own invariant: what a cascade asks for reaches at least as far back as its refresh
wrote, through a midnight too (`LookbackReaches`), and a date that differs belongs to a run that is still to re-mirror, of which
`UpsertMirrored`, `MirrorMirrored`, `ImportMirrored` and `MidnightMirrored` follow each cause.

**DataMirrorProofs.** `MirrorSafe` adds to the types `MemoInv` (a frame about to be remembered
under the current signature is the file) and `PullInv` (a pulled row is at least as new as
the one on disk, and a date after the first pulled one that the pull lacks is gone upstream
or has changed since). It gives `MirrorTypeCorrect`, `MemoIsCurrent` and `RowsNeverGoBack`. The minimum that
`Merge` takes exists because `<` on the naturals is well-founded.

**CarryChainProofs.** `ChainSafe` joins the types with `StockNeverPilesUp`. Lemmas say that
ratio, target, envelope and load are natural numbers, that a load only fills up to the expected demand, and that
sales only take away; hence `ChainTypeCorrect` and `TruckIsBounded` for any number of days and any inputs.

**RecommendedOrdersProofs.** Every step of a call changes only that call, so the proof of each invariant is about the call
that moves. `Pushed` says that a route that is being saved has its row in the table, which nothing deletes; it gives `NoFileWithoutRow`.
`Grounded` says that a call past the guard that is not a cascade's has found a row of the date, and that no plan it
holds says it was early; rows of the date never go away, hence `PlansWaitForChain`. The theorem is about the date, not about the
van: where a plan's load came from is not in the model. `OrdersTypeCorrect` is the type invariant.

**SupervisionSessionsProofs.** A visit is undone when a row is overwritten by a copy made before it, so `SessionsSafe` follows the copies:
whatever is on its way to a row, in a reconciler's hands (`RunPlaced`) or in the background upserts (`Snapshots`), has
the customer of that row visited; without a header the tables are empty, so a session that is built from the plan
alone has no visit to lose. It gives `SupervisionTypeCorrect` and `VisitsAreKept`, whatever is lost, late or restarted. That the number of
the next visit exists (the largest of a finite set, `LargestExists`) is proved by a smallest counterexample.

**RouteEngineProofs.** `EngineSafe` has four parts. `EngineTypeOK` says that candidates and records are rows of the van with at least
one unit. `RecordsInv` says that the lanes' candidates are merged before they become rows, that only customers already walked
have rows, and that a customer and an item have one row at most; without it `PlanKeepsToRecords` fails, since the allocation tells rows
apart by those two. `NewcomersInv` says that the other lanes see known customers only, that a newcomer's candidates
are the starters, and that every newcomer already walked has a row of each starter. The last part keeps the plan an outcome of the allocation.

* `NewcomersGetALine`: a starter is for an item that the van carries, feedback does not weigh it, and it has the
  score of the consider cut, which is not below the monitor cut (`CutsType`, from the order of the quartiles); so it is a record
  (`StarterRow`). The allocation drops it only when the item is asked for beyond its load (`PlentyForAll`), and then the load has gone to
  rows of at least its score (`PlanFollowsScores`).
* `LoadGoesToPriority`: along an order of an item's rows, what has been asked for grows (`PrefixGrows`); each row gets what the load
  leaves of its wish (`ShareIs`), so that what has been given is the smaller of the load and what has been asked for (`GotIs`).
  A reduced row has used the load up, so nobody behind it in the order, hence nobody of a lower score, has any.
* Sums over rows are the fold of the community modules, a recursive function: its existence, its independence of the order and its
  recursion are proved here (`SumExists`, `WantedRecursion`). The library's induction theorems cannot be used, so induction takes the form of sets: the
  set of good numbers, or of good subsets of a finite set, holds everything (`NumbersAreGood`, `SubsetsAreGood`, from `LeastExists`).

The type invariants of the registry, the pipeline, the mirror, the refresh, the orders and the engine are only proved, not run.

**Only model-checked.** Liveness: `RunsEnd`, `LatchReleased`, `TrainingsSettle`, `VisitsConverge`, `HeaderConverges`,
`NightsKeepComing`, `WindowCatchesUp`, `NextAskServes`: the prover handles neither fairness nor
ENABLED. The two violation runs, which are counterexamples. Every safety invariant,
action property and refinement of the passing runs is a theorem.

## 5. Not modelled

* Several workers of one service: each has its own locks, run record and
  configuration in memory. (Imports in another worker are in `DataMirror`.) The leader lease protects schedulers only.
* An unreadable `current.json` or manifest, a failing `thread.start()`, a save of the retrain history that fails, a clock that goes back.
* Drift, baseline rotation and cadence; the drift cache; step progress.
* Overlapping imports of one dataset: the code takes no lock there, and rows are lost until the next window.
* Redistribution and session views of the supervision: they compute over a session and write nothing back.
* LLM analytics (a best-effort cache before a remote model) and the shared runtime (an operating-system
  file lock and a semaphore).
* A heal that times out and leaves its cascade running, frames of different ages in one bundle, adoption and route planning.
* Which files a training writes and in which order (`pair_classes.csv` is the last), the class and model fallbacks inside it, and
  the rows that an inference adds.
* Feature engineering, training, inference, metrics, EDA aggregations, the statistics under the recommendation scores: numerical code over
  data frames without control to interleave. They appear as success, failure, or a value of any size.
* The web application, deployment and scripts.

## 6. Plan

1. The scheduler's cadence, cooldown, baseline rotation and drift cache; its history under two workers.
2. Overlapping imports against the merge done in one step.
3. Leader election across workers and crashes.
4. The liveness properties as theorems, once a prover takes fairness and ENABLED.
