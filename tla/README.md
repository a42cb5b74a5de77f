# A TLA+ model of the hedging bot

The bot keeps, for every hedge configuration, a position on an exchange that
offsets a ratio of the platform's net exposure. This directory models the parts
of it that decide, order, record, close, observe and administer; paths below are
relative to the repository.

## 1. Inventory

| Component | State | Operations | Talks to |
|---|---|---|---|
| Run lock (`internal/lock/redis_lock.go`) | one Redis key per configuration: token, TTL | `TryLock`, release | Redis |
| Calculator (`internal/hedge/calculator.go`) | none | `Calculate`, `ClosePosition` | called by the hedge service |
| Hedge runs (`internal/service/hedge_service.go`: `RunOnce`) | `exposure_snapshots`, `hedge_position_snapshots`, `order_plans`, `order_executions` | guard, reconcile, decide, plan, order, record, refresh | lock, PostgreSQL, exchange |
| Hedge close (`ExitHedge`, `internal/db/mgmt/hedge_close.go`) | `hedge_close_requests`, `hedge_configs.enabled`, `.lifecycle_status` | begin, order, attach, verify, complete, fail | lock, PostgreSQL, exchange, task queue |
| Order reconciliation (`internal/tasks/reconciliation.go`) | queued tasks with an attempt number | look up one order or setting, schedule the next attempt, give up | queue, `HedgeService`, `ExchangeReconciliationService` |
| Start-up recovery (`cmd/hedging-bot/main.go`) | – | fail or resume active close requests | PostgreSQL, queue |
| Position sync (`internal/service/position_sync_service.go`) | position snapshots | fetch, aggregate, stamp, upsert | exchange, PostgreSQL, monitor |
| Exposure sync (`internal/service/exposure_sync_service.go`) | exposure snapshots, cached quantities | aggregate, cache, price, upsert, enqueue runs | ClickHouse, Redis, PostgreSQL, queue, monitor |
| Hedge monitor (`internal/service/hedge_monitor_service.go`) | monitor snapshots | recompute, merge states, prune | PostgreSQL |
| Exchange accounts (`internal/db/mgmt/repository.go`, `exchange_account.go`) | `exchange_accounts`, one primary per agent | create, update, delete, set primary | PostgreSQL |
| Market sync (`internal/service/market_sync_service.go`, `internal/db/mgmt/exchange_market.go`) | `exchange_markets` | fetch, prepare, filter, upsert, prune | exchange, allowlist, PostgreSQL |
| Adapter API (`internal/httpapi/exchange_adapter.go`, `internal/service/exchange_reconciliation_service.go`) | follow-up tasks, audit events | place, cancel, close, set, verify | exchange, queue |
| Exchange adapters (`internal/exchange`) | simulated orders, positions, settings | place, cancel, fetch, set | exchange |
| HTTP and gRPC handlers, schedulers, configuration, credentials, logging, metrics, ClickHouse reader | – | decode, call, tick | all of the above |

What is hard here:

* **Several writers, one lock.** Runs and closes of a configuration hold the
  run lock; reconciliation tasks, the position sync, the start-up recovery and
  other instances do not, and write the same rows.
* **The exchange and the database are two stores.** An order may be taken by
  the exchange and never recorded, recorded as failed although it was taken, or
  end partly filled; the position endpoint lags behind fills.
* **Timestamps decide.** A run after a fill is let through when a position
  snapshot is at least as new as the fill's record, and "the latest execution"
  is the one whose row was written last.
* **Deadlines.** Runs from the queue end after two minutes, runs from HTTP
  requests when they end; the lock's key lives three minutes. Reconciliation
  tasks are tried at fixed checkpoints and never retried.
* **Restarts** in the middle of a close, and chains of tasks that exist only in
  the queue.
* **Batches.** The syncs go on after the failure of one group, account or
  source; what they wrote before it stays, and several stores are written one
  after the other.
* **Transactions at READ COMMITTED** that read a row, then clear and save
  others, with partial unique indexes as the last guard.

What makes it correct: no two runs act at once; no order is placed on top of
one that is not reflected in the snapshot it was computed from; the hedge
settles, stays under its cap and never reverses in one order; the tables tell
the truth about the exchange; a close ends, and a closed hedge is gone; what the
dashboard calls balanced is so; a new exposure reaches a run; an agent keeps its
primary account and its markets; an open order is followed until it is final.
`PROJECT.json` lists the hazards with their lines and the properties meant to
catch them.

## 2. Modules

| Module | Models | Notes |
|---|---|---|
| `RunLock` | what `RunOnce` and `ExitHedge` rely on | abstract: at most one holder |
| `RedisLock` | `TryLock`, the unlock script, deadlines of runs, crashes, time | implements `RunLock` for queued runs |
| `HedgeCalculator` | `Calculate`, `ClosePosition`, the monitor's action | constant operators only |
| `HedgeLoop` | the calculator in closed loop with moving exposure, price and ratio | orders fill at once |
| `HedgeRun` | `RunOnce` call by call, with lock, exchange, reconciliation tasks and position sync | built on `RunLock`, `HedgeCalculator` |
| `CloseLifecycle` | what the transactions of `hedge_close.go` promise of a configuration and its close requests | abstract |
| `HedgeClose` | `ExitHedge`, lifecycle transactions, task chain, restart, late runs | built on `RunLock`, implements `CloseLifecycle` |
| `HedgeMonitor` | the monitor's switch, health and action states and their merge | constant operators; built on `HedgeCalculator` |
| `SyncMonitor` | exposure sync, position sync and monitor refresh, with their stores and the run queue | built on `HedgeMonitor` |
| `ExchangeAccounts` | account requests as transactions | |
| `MarketSync` | scheduled and requested market syncs, over the accounts | extends `ExchangeAccounts` |
| `ExchangeAdapter` | the simulated adapter, and an exchange behind CCXT | |
| `ExternalOps` | the adapter API and its chains of verification tasks | extends `ExchangeAdapter` |
| `MC*` | constants for TLC | one per composed component |
| `RedisLock_proofs`, `HedgeLoop_proofs`, `HedgeRun_proofs`, `HedgeClose_proofs`, `MarketSync_proofs`, `SyncMonitor_proofs`, `ExternalOps_proofs` | theorems about the module of that name | see section 5; `MarketSync_proofs` is about `ExchangeAccounts` too |
| `HedgeCalculator_proofs` | lemmas about the calculator and the monitor's action | used by the proofs of `HedgeLoop`, `HedgeRun` and `SyncMonitor` |

A definition named in a comment as "Mutated" is a wrong variant of the
definition below it; `PROJECT.json` pairs each with the property it breaks.

**RedisLock.** `key` is the Redis key with its expiry, `now` the clock. `SetNX`
and `Unlock` are the two commands; `TryLockOk`, `TryLockBusy` and
`TryLockError` are the outcomes of `TryLock` (in the last one the command may
have been executed). `Release` happens even after the run's own context has
expired, since `RunOnce` releases with a background context, and may fail. A
task run can act (`Alive`) until `TaskTimeout` after its start, because every
call it makes takes its context; an HTTP run always can. Without Redis
`TryLock` grants every run the lock; that configuration (no queue either) is
not modelled.

**HedgeCalculator, HedgeLoop.** Amounts are integers in a unit in which
exposure times ratio is whole, quantities are fractions, so the arithmetic is
exact as it is with decimals. Limit prices and the wording of reasons are left
out. In `HedgeLoop` a stored position keeps the valuation of the moment it was
read (`mark`), so decisions after a price move mix two prices, as in the code.
The exchange fills whole lots and never more of a reduce-only order than there
is.

**HedgeRun.** One worker step is one call to the database or the exchange with
the computation that follows it. `Begin` and
`BeginManual` are `loadConfig` and `TryLock`; `Guard`
to `GuardPosition` are `automaticRunBlockReason` with `reconcileSubmittedOrder`
and `refreshFilledPosition`; `ReadExposure` to `RecordFailed` are the decision
and `createPlanAndExecute`. Plans are keyed by `ClientOrderID`, the tuple the
hash of `makeClientOrderID` is taken of, so a repeated decision finds its row.
`FetchSubmitted` to `RefreshWrite` are shared with the reconciliation tasks,
which do not hold the lock. `Abort` ends a run between any two calls. `visible`
is what the position endpoint reports; it follows `live` at any later time.
Stamps: each write of an execution is a new instant and a snapshot carries the
instant of the latest one, which is all the guard's comparison can tell apart.
`PlaceOrder` leaves open whether the exchange refuses a client order id it has
seen: many do, some look at open orders only, and `SimulatedAdapter` makes an id
from it and the time and takes it again (`Take`). So a run that dies between
placing and recording may, on the same plan, order twice; `orders` is the latest
order under a client order id, `strays` the earlier ones, which go on resting and
filling (`StrayEnds`). An order the exchange cancels at once leaves no execution:
the table's check knows no such status and refuses the row (`RecordExecution`).
The cooldown is a free choice: it may or may not be over. `Environment` selects
which of crash, lost reply, cancellation, task, sync and manual run can happen.

**HedgeClose.** Handlers run `ExitHedge` from `ExitLock` to `Fail`,
`ExitComplete` or `finalizeHedgeClose` (`VerifyFetch` to `KeepVerifying`,
shared with the tasks). Tasks form the chain `TaskBegin`, `FetchOrder`,
`PersistStatus`, `LookupRequest`, `ScheduleNext`, `FailCloseReconciliation`.
`FinishRequest` and `SetVerifying` are unguarded as in `hedge_close.go`, except
for the unique index on active requests (`IndexAllows`). `Run*` are the steps
of a `RunOnce` that matter to a close: the configuration is read before the
lock. `Restart` and `ReplicaStarts` are the recovery of `main`. `Crash` is a kill,
`Shutdown` a stop that puts the tasks in process back into the queue. A killed
task is `archived`, since it has no retries, and its unique lock outlives it
(`locked`) until `LocksExpire`; while it is there, `Enqueue` takes the same task for
a duplicate and reports success, as `enqueueReconciliationTask` does. An order that
was not attached may be taken again under its client order id (`Takes`), and one
that the exchange cancels at once cannot be recorded and fails the close. The position is
one contract, the position endpoint does not lag, and `refreshFilledPosition` is
part of the step before it: `HedgeRun` has those details. The management
application, which is not part of this repository, appears as `Reenable`.
`Shown` is the table of requests without the three unfinished states' names; with
it `HedgeClose` implements `CloseLifecycle` (`Begin`, `Complete`, `Fail`, `Reopen`,
`Reactivate`): the configuration and its requests change together and by these
transactions only, each for a request that was begun. Two things the code allows
are visible there: `Complete` and `Fail` may end a request a second time, and
`Reopen` may bring an ended one back (`UpdateHedgeCloseStatus` has no condition).

**HedgeRun, writes.** `CreateOrderExecution` and `UpdateOrderExecutionStatus`
are the SQL statements behind the steps: the insert's `ON CONFLICT` branch and
the update both make the row the newest, as the trigger `set_updated_at` does.
The history field `late` marks an execution that was written again after it had
ended.

**SyncMonitor.** A caller is a goroutine, each service's callers are serialised
by its mutex, and one step is one call to a store. `ExposureBegin` to
`EnqueueFails` are `SyncEnabledConfigs`: groups in the order of their keys,
quantity to Redis (`SaveNetExposure`, in a key that lives for `ExposureTTL`;
`ExpireFails` is the second command of it failing, which leaves the new quantity in
place and the key with the end it had, or none), price and its age, row, and
one enqueue per executable configuration, where a duplicate is skipped.
`PositionBegin` to `AccountFails` are `Sync`: `AggregateLegs` adds the legs per
symbol and leaves a zero for a symbol the exchange does not report; `ObservedAt` is
the service's time or a leg's own `UpdatedAt`, when that is later.
`RefreshBegin` to `RefreshPrune` are `Refresh`, called by both syncs when they
end and by clients. `RunTask` is a queued run that reads the snapshot
(`HedgeRun` has its insides). `net` and rows carry a version as history. The
schedulers pass the process's context, so a batch has no timeout of its own and
its data may be older than its stamp; the mutexes are per process and so is the
model. The monitor's three reads are one step, the mark price is 1, and
snapshots written by `UpsertExposure`, `UpsertPosition` and by runs are not
part of it.

**ExchangeAccounts.** One agent's rows. A request reads its row, may clear the
primary marks it sees (`ClearPrimaries`, which locks those rows), and commits
the whole row it read and changed; a unique index may refuse it (`Rollback`).
`WithDefaults` and `Valid` keep, of the preparation of a row, the fields the
market sync uses. `raced` (history) marks requests that were overtaken between
their read and their write. Two things the code allows and the model shows: a
disabled account can be created or kept as primary, although
`SetPrimaryExchangeAccount` refuses one; and since `Save` writes every column
and inserts a missing row, an update can undo another one, or bring back a row
deleted meanwhile.

**MarketSync.** `sync` holds, for the scheduler and every requested sync, the
accounts left, the allowlist it read and the markets it is about to write.
`LastOfEach`, `OfType` and `Allowed` are the filters, `Pruned` the DELETE.
`steady` (history) is what was enabled all the time since the sync began. `JobOf` is the account's key without
its account type, product type and category: accounts that differ in these only
are one job here and are synced twice by the code. Not
errors of the model: accounts of one source with different market types prune
each other's rows; rows with another settlement asset, delisted markets and the
rows of deleted accounts stay; one bad entry refuses the whole listing.

**ExchangeAdapter, ExternalOps.** The adapter is chosen once (`adapter`).
Simulated orders fill at once, live in the process (`AdapterRestart`) and
ignore `reduce_only`; positions are the sum of the orders under one API key, or
one identity without a key. Settings are not stored by the simulated adapter,
so a verified value other than the default exhausts its chain. `http` is a
handler between its calls: the adapter's answer, then the follow-up
(`Schedule`: find the stored account with `Resolved`, enqueue; `ScheduleFails`
records the audit event, `ScheduleFailsUnaudited` is that write failing as well,
which `writeAudit` ignores). `PlaceAnswerNamesNoOrder` is the answer without any id,
which ends in silence; `PlaceAnswerLost` and `CloseAnswerLost` are orders the caller
was told have failed. A task is identified by account, subject and attempt
(`SameTask`, asynq's `Unique`); `Handle` looks up, `Again` enqueues the next
attempt, `Exhausted` ends the chain and only logs and counts, `LoseTask` is a task that cannot be enqueued or
dies with its worker. Looking up does not ask whether the account is still
active, as in the code. Without a queue nothing is followed; that
configuration is not modelled.

## 3. Runs

Passing:

| Run | Instance | Shows |
|---|---|---|
| `redis_lock` | 2 task runs, 1 HTTP run; TTL 3, timeout 2, clock to 6, 4 SETNX calls | `MutualExclusion`, `ExclusionUntilTTL`, refinement of `RunLock` |
| `hedge_loop` | configurations and ratios at, below and above the thresholds; exposures of both signs, several prices | settling, cap, no reversal, reduce-only, agreement with the monitor |
| `hedge_run` | 2 workers, 3 plans, 2 exposures, 5 stamps, 1 client order id taken again; crash, lost reply, cancel; dry run too | no duplicate of an accounted order, at most one order too many for each unaccounted one, snapshots accepted as fresh are right, one pending execution |
| `hedge_run_tasks` | a worker and a reconciliation task, 3 plans, 5 stamps; cancel | the same cap unless a task rewrites an ended execution, and a truthful execution table, with a writer outside the lock |
| `hedge_run_live` | a worker, 2 plans; sync, manual runs; fairness | lock, pending order and position wait all come to an end |
| `hedge_close` | a handler, a run, a task worker, 2 requests, a crash; resting orders, disconnects, lost tasks, reactivation | closing always has exactly one request that can be finished; closing never reverses; refinement of `CloseLifecycle` |
| `hedge_close_live` | a handler, a task worker, a crash, dry run too; kill, shutdown, failing exchange, second instance; fairness | disabled means flat when no automatic order is in flight; every close ends, unless a kill during a task is followed by a restart within the task's unique lock |
| `sync_monitor` | 2 exposure callers, a position caller, 2 configurations on one symbol, 2 batches, 1 change, 1 fault, clock to 2; cached keys live 1, exchange clock up to 1 ahead | `BatchAccounted`, `CacheNotBehind`, `BalancedIsSound`, `NeverRegress` |
| `sync_monitor_live` | one caller each, both legs of a symbol in hedge mode, batches without bound, 1 change, 1 fault; fairness | the dashboard converges; a new exposure reaches a run in spite of duplicates |
| `markets` | 3 accounts, 2 exchanges, 3 requests of two clients; or the scheduler, a requested sync, an account request, 1 failure, 1 change; fairness | the primary account is lost only to a race; markets are lost only for a cause; the catalogue converges |
| `external_ops` | 2 accounts of two tenants with one name, 2 handlers, 3 orders, 4 attempts; 2 requests of any kind and 1 fault, or 3 requests to place and close | open orders are followed, with the right key, to the end of the chain; a close never opens; chains end |

The bounds let the interesting cases happen. A TTL of 3 against a clock of 6
lets a key expire, be taken again and expire again; two runs and a third actor
suffice for every pairwise race on one row; three plans are a first order, its
duplicate and a third that builds on either; one repeated client order id is one order
more than the database knows; two close requests are one that
ended and its successor; two attempts of a close are one that is followed and
one that exhausts the chain (the code has six, which differ only in their
delay). In `sync_monitor` two callers race for the mutex, the two configurations
are two groups that read one aggregate, a key that lives 1 ends between two batches,
and age limits of 0 and 1 against a clock of
2 let each kind of data be fresh, at its limit and too old. In `markets` one
listing has a bad entry, two spellings of one market and a market of another
type. An allowlist is always configured; without the database for it (`main.go:76`)
no market is filtered by it, which is not run. `Budgets` of `MarketSync` and `ExternalOps` are alternative limits of one
behaviour, chosen in `Init`, so that races of requests and failures of syncs are
each explored without their product. The models stop when a bound is
reached, so deadlock is not checked in `HedgeRun`, `HedgeClose`, `MarketSync`
and `ExternalOps`; that nobody waits for ever is what the liveness properties
are for.

Fairness. `FairSpec` of `HedgeRun` lets a process that has begun a run, request
or task go on: every call has a context or client timeout and so returns.
`ScheduledSpec` adds that automatic runs and position syncs start again and
again (the tickers of `internal/scheduler`; strongly, since runs with a reason
compete for the lock), and that the exchange does not fail to answer one
question for ever (strong fairness of `FetchSubmitted`). `FairSpec` of
`HedgeClose` adds that the queue hands out every task (strongly, since its
workers are shared), that a stopped service is started again, and that the unique
locks of killed tasks expire, at no particular time. `FairSpec` of
`SyncMonitor` has the schedulers begin batches and batches go on, a waiting
refresh get the monitor's mutex (strongly: Go's mutex does not starve a
waiter), the queue hand out runs and the platform publish prices; failures are
bounded by `MaxFaults`. `FairSpec` of `MarketSync` is the scheduler only (gocron
in singleton mode); requested syncs may stop anywhere. `ExternalOps` assumes
that a worker that has a task ends it and that the queue hands out tasks when
they are due (`TaskStep`), nothing of handlers. Nothing is assumed of clients,
of the exchange's fills, or of tasks that were lost.

## 4. Disagreements

One run shows a line of the repository's documentation that the code does not
keep. README.md says that submitted orders and fills newer than the latest
position snapshot are skipped rather than risk a duplicate order. In `slow_task`
a reconciliation task fetches an order that was just cancelled; a run's guard
records the same end, another run submits the next order; then the task writes
its result, the trigger gives the old execution a new `updated_at`, the guard of
the next run takes it for the latest, sees a failed one and lets the run order
while the other order is still open (`NoDuplicateIfRecorded`). `NothingLate` is
the premise under which the safety properties of `HedgeRun` hold: no execution
was rewritten after its end.

More sequences that break a documented line come up when a cfg is changed; the
passing runs leave the behaviour out or the property excepts it:

| Property | With | Sequence |
|---|---|---|
| `NoDuplicateOrder` of `HedgeRun` | `Environment = {"reply_lost"}` | the exchange takes an order, `PlaceOrder` returns an error, the execution is recorded failed, the next exposure is hedged again |
| the same | `{"sync"}` | the position sync fetches, an order fills and is recorded, the sync stamps and stores the old position; the guard lets the next run through |
| the same | `{"cancel"}` | an order that is cancelled after part of it filled is recorded failed, so the guard does not wait for a new snapshot |
| `CapUnlessUnaccounted` of `HedgeRun`, if `Unaccounted` is `Misrecorded` | `{"crash"}` | a run dies between placing and recording, the next run has the same plan, and the exchange takes its client order id again: two orders, of which the table will show at most one |
| `DisabledMeansFlat` of `HedgeClose` | a `Runner`, `{"auto"}` | a run reads the lifecycle before it takes the lock (`hedge_service.go:204`), a close completes, the run takes the lock and opens a hedge |
| the same | a `Runner`, `{"auto", "resting"}` | a close completes although an automatic order rests on the exchange, which then fills |
| `ClosingResolves` of `HedgeClose` without `Orphaned` | `{"crash"}` | the service is killed during the first attempt of a chain and restarted within 30 seconds: the recovery's enqueue is refused as a duplicate of the archived task (`reconciliation.go:129`), that is taken for success (`:131`), and nobody follows the request until the next restart; a later attempt that was killed ends the recovered chain in the same way when the chain comes to it |
| `ClosingResolves` of `HedgeClose` | `{"disconnect"}` | the client goes away, the failure cannot be recorded with its context (`hedge_service.go:372`), and nobody follows the request until a restart |

A slow task can also write submitted over filled (`reconcileSubmittedOrder` has
no condition on the row); a later lookup puts it right, and `RecordsAreTrue`
still holds. `repository.go:172` refuses to make a disabled account primary,
while create and update do not (section 2).

`OpenOrderFollowed` of `ExternalOps` excepts what the code lets go in silence
(`unaudited`): when finding the account or enqueueing fails and the audit event
cannot be written either, which one outage of PostgreSQL does, an accepted order is
open and neither followed nor recorded anywhere; the same if a request without a
client order id is answered without an order id.

`CapUnlessUnaccounted` says what remains true in spite of the lost reply, the
partial fill and the crash: as long as every order the exchange took is on record
(or being recorded), none ended partly filled, none was taken twice and nothing is
late, the hedge stays within its cap. `ExcessBounded` says what such orders cost:
one order more than the cap for each of them, because what follows is guarded and
computed from the position as ever; a guard that let two orders through for one
such order would break it. `PrimaryStays` and `PrimaryOnlyLostToRace` except requests that were
overtaken between their read and their write.

## 5. Proofs

The theorems hold for every value of the constants that satisfies the named
assumptions of the modules: any number of processes, configurations, accounts
and orders, any amounts, any bound on clocks and counters, and, unless a theorem
says otherwise, every set of failures in `Environment`. Each is
`Spec => []Inv`, `Spec => [][A]_vars` or a refinement, from an inductive invariant that holds
initially, is kept by every action and by stuttering, and implies the property.
The strengthened invariants were checked by TLC on the runs' instances before
they were proved.

| Module | Theorem | Property | Hypotheses besides the assumptions |
|---|---|---|---|
| `RedisLock_proofs` | `LockInvariant` | `IInv` | – |
| | `MutualExclusionTheorem` | `MutualExclusion` | – |
| | `ExclusionUntilTTLTheorem` | `ExclusionUntilTTL` | – |
| | `ImplementsRunLockTheorem` | `ImplementsRunLock` | – |
| `HedgeLoop_proofs` | `LoopNeverFlips` | `NeverFlips` | – |
| | `LoopCapRespected` | `CapRespected` | – |
| | `LoopReduceOnly` | `ReduceOnlyIffShrinks` | – |
| | `LoopMonitorAgrees` | `MonitorAgrees` | – |
| | `LoopSettles` | `SettlesInTwoOrders` | no price exceeds a configuration's minimum order |
| `HedgeRun_proofs` | `RunTypeCorrect` | `TypeOK` | – |
| | `RecordsTrue` | `RecordsAreTrue` | – |
| | `OnePending` | `OnePendingExecution` | no manual runs |
| | `CapKept` | `CapUnlessUnaccounted` | no manual runs, no concurrent position sync, a cap is set |
| | `FreshSnapshots` | `FreshMeansReflected` | the same |
| `HedgeClose_proofs` | `CloseTypeCorrect` | `TypeOK` | – |
| | `ClosingIsOwned` | `ClosingHasRequest` | – |
| | `ClosingNeverFlips` | `CloseNeverFlips` | – |
| | `DisabledIsFlat` | `DisabledMeansFlat` | no automatic run or order in flight |
| | `ImplementsLifecycleTheorem` | `ImplementsLifecycle` | – |
| `MarketSync_proofs` | `PrimaryNotRefused` | `PrimaryOnlyLostToRace` | – |
| | `PrimaryKept` | `PrimaryStays` | – |
| | `MarketsKept` | `MarketsLostForCause` | – |
| | `MarketsTypeCorrect` | `MarketsTypeOK` | – |
| `SyncMonitor_proofs` | `SyncTypeCorrect` | `TypeOK` | – |
| | `SyncNeverRegresses` | `NeverRegress` | – |
| | `SyncAccountsForAll` | `BatchAccounted` | – |
| | `SyncCacheNotBehind` | `CacheNotBehind` | – |
| | `SyncBalancedIsSound` | `BalancedIsSound` | – |
| `ExternalOps_proofs` | `OpenOrdersAreFollowed` | `OpenOrderFollowed` | – |
| | `ExhaustedOnlyAfterAll` | `ExhaustedAfterAll` | – |
| | `OrdersFollowedWithOwnKey` | `FollowedWithOwnKey` | – |
| | `ClosesNeverOpen` | `CloseNeverOpens` | – |
| | `ExternalOpsTypes` | `TypeOK` | – |

Every action property and every safety invariant of a passing run but
`ExcessBounded` has its theorem; that one and liveness are left to TLC (below).

**RedisLock.** Any sets of runs, any clock, and any TTL not shorter than the task
timeout (`LockAssumption`; 3 and 2 minutes in the code). Mutual exclusion is not
inductive: nothing in it prevents a run from holding a lock whose key another
run deleted. `OwnsUntilTTL` adds that a run inside the lock owns the key until
its TTL is over. For a release to preserve that of the others, tokens must be
distinct and issued (`TokensDistinct`); for the deadline to come before the TTL,
a run must have started before it locked (`TimesOrdered`). Exclusion follows: of
two runs inside, one is past its TTL; a task run past its TTL is past its
deadline, since it started earlier and its timeout is not longer. For the
refinement, every step of `RedisLock` is, for the queued runs, a step of
`RunLock` or leaves its holders alone.

**HedgeCalculator, HedgeLoop.** `HedgeCalculator_proofs` has no state. It holds
the arithmetic the provers do not find by themselves (signs, order and whole
lots of products), that a target is within the cap (`TargetWithinCap`), the
possible shapes of a decision (`OrderShape`), and that the monitor's action and
the calculator's agree on every input (`MonitorAgreement`). In the loop the only
strengthening needed is that a stored notional is the quantity at the price it
was stored with. "At most two orders" needs more (`SettleInv`): after the first
order the hedge is closed or settled, after the second it is settled, and a
settled hedge is within one minimum order of its target, where no run orders.
That requires that one lot costs no more than the minimum order. The hypothesis
cannot be dropped: with a cap of 3, a minimum of 1 and a price of 2, whole lots
cannot reach the target, and the loop goes on.

**HedgeRun.** `RecordsAreTrue` is not inductive, because a process writes what
it heard some steps before. `Knows` says that what it heard stays right: an order
it heard of exists, an end it heard of is final. `Sound` ties the rest of a local
state to its place in the code (for example that a run about to place an order
has no execution row for it), `LockInv` says who is in a run, and `Stamped` that
rows carry times of the past.

**HedgeRun, the guard and the cap.** `automaticRunBlockReason` looks at the latest execution only.
`PendInv` is why that suffices: a submitted execution is the newest row, and a
worker past the guard saw none submitted; both fail as soon as an ended
execution is rewritten, the case of section 4. The cap needs a relation between
the account and the snapshot. `Open(p)` is an order the configuration waits for:
for its end, its record, or a snapshot that shows its fill. `OneOpen` says there
is at most one, the newest; `PositionKnown` that the snapshot differs from the
position by the fill of that order at most; `OrdersFit` that this order brings
the hedge from the snapshot to a size within the cap; `RunSees` and
`RefreshSees` what a run and a refresh rely on between their calls. All of it
holds until something happens that cannot be mended (`Damaged`): an ended
execution rewritten, a partial fill, a fill without a record. Those, and
a client order id that was taken twice, are the
premises of `CapUnlessUnaccounted`. The exchange of the theorem may take one twice
whenever it likes; what is proved is that nothing else breaks the cap. Manual runs skip the guard and a position
sync can store a position that is older than its stamp. With `"manual"` in
`Environment` TLC finds counterexamples of all three properties, with `"sync"` of
the last two, so the theorems exclude just those. A
maximum of 0 means no cap, so there is nothing to prove for it.

**HedgeClose.** `ProcPart` says where a process can be and that one is inside
the lock, `RequestPart` that at most one request is active and that there is one
while the configuration closes (the unguarded updates of `hedge_close.go` keep
that only together with the unique index), `ExchangePart` that every close order
the exchange has is reduce-only, `ServicePart` what a restart finds.
`DisabledIsFlat` adds `FlatInv`: a close that found the position gone is right
for good. It excludes automatic orders, with which the property has the two
counterexamples of section 4. The refinement needs `BegunInv`: a handler or task
that is past the lookup of its request works on one that was begun, and only a
begun request has an order. Without it a task could finish request 0, which
changes the configuration and no request. Every step is then a step of
`CloseLifecycle` or leaves configuration and `Shown` alone: the begin because no
other request is active, the ends because their request was begun, the update to
verifying because of the unique index, the attachment because it only renames an
unfinished state.

**ExchangeAccounts, MarketSync.** `Planned` is what a request between its read
and its commit knows: unless it was overtaken, it has cleared exactly the
primary marks in its way, and it keeps the mark of the account it updates unless
its patch takes it away. Overtaken (`raced`) means that another request
committed in between. `TablePart` is the index on primary accounts. For the
markets `Remembers` says that a symbol enabled since the sync began is in the
allowlist the sync read. `MarketsTypeOK` says more than types: no two rows of
the catalogue for one market, and every stored account has what
`PrepareExchangeAccountForSave` checks of these columns (`Prepared`). `RowsInv` carries the latter
through requests that clear marks, patch and save a row; `CatalogueInv` says
that what a sync is about to write has one row per market (`LastOfEach`) and
that replacing rows by key keeps it so. That the accounts of a sync become
well-formed jobs is by induction on the number of accounts scanned
(`ActiveJobs`). `RowsAssumption` and `MarketsAssumption` are what tables,
handlers and configuration guarantee: the columns of rows, prepared rows and at
most one primary at the start, a listing for every supported exchange.

**SyncMonitor.** Each table has a part, and each part relates the local state of
a batch to the tables before and behind it. `NetsBetween`: the quantities a batch
read are not older than the snapshots and not newer than ClickHouse, which needs
the mutex, since another batch could otherwise have stored newer ones. `CachedFirst`:
what is about to be stored has been cached, with its time, and in a key that ends no
sooner than its time to live after it (`Covers`). `Accounted` with
`Waiting`: every configuration listed has an outcome or its group is still to
come, and the outcomes after a store are for this batch's version. The same for
positions (`PositionBatchOK`) and for the monitor (`RefreshOK`, `NotAhead`,
`SoundRow`), whose rows are not newer than what they were calculated from.
The stored time of a position is ahead of a batch's by the exchange's skew at most.
`BalancedIsSound` then rests on `MonitorAgreement`. `BooksAssumption` is that legs
are records of decimals; that their sums are (`AggregateType`) is proved.

**ExternalOps.** `AdapterPart` describes the exchange's orders: numbered without
gaps, and, behind CCXT, owned by the key they were placed with. `HandlerPart` says
that what a handler is about to have followed is the order it placed, under the
key of its request. `QueuePart` is what a task knows (`FollowsOrder`): its order has
been looked up at least as often as its attempt says, which gives
`ExhaustedAfterAll`; it ended without a successor only when the order has ended,
so a duplicate that asynq refuses never hides an open order, which, with the four lists
of orders that were given up, gives `OpenOrderFollowed`; and its account has the order's key or the request showed
none, which gives `FollowedWithOwnKey` with what `Resolved` finds. `CloseNeverOpens`
is an action property: placing one order changes one summand of `Position`
(`TotalChange`), and a reduce-only order is cut to what it reduces (`Reduces`).

Sums and scans. `Total`, `AddUp` and `ActiveJobs` are recursive functions. The
library's induction theorems cannot be instantiated by the installed provers, so
facts about them are proved from a least counterexample: the set of lengths where
the fact fails has a least element (`LeastOf`, `LeastIn`, from the
well-foundedness of `<`), which is not 0 and not the successor of anything. This
also shows that the recursive function exists (`PartialSums`), which its
definition by CHOOSE leaves open.

Only model-checked:

* liveness: `LockComesFree`, `PendingResolved`, `GuardReopens`, `ClosingResolves`,
  `MonitorConverges`, `ExposureReachesRun`, `CatalogueConverges` and `ChainsEnd`.
  Fairness is defined with ENABLED, which the prover does not reason about;
* `ExcessBounded`: its proof would need a count of what every unrecorded order and
  every snapshot that misses one add to the position;
* the violation of section 4, which is a trace.

## 6. Not modelled

Configuration, credentials, logging, metrics, protobuf code and the decoding and
answers of the HTTP, gRPC and ClickHouse interfaces are I/O without state of
their own; read-only handlers (`List`, tickers, balances, markets) change
nothing. The conversions of the CCXT adapter are left out; what it reports is the
exchange's, which is environment in every module. The creation of hedge
configurations belongs to the management application, whose edits appear as
environment. Audit events other than those of `ExternalOps`, fees, prices of
fills and limit prices are left out everywhere. `UpsertExposure` and
`UpsertPosition`, which store snapshots handed in from outside, are not actions.
The spelling of symbols is modelled in `MarketSync` only (`Normal`). Clocks of
several machines are one clock, except that in `SyncMonitor` an exchange's may be
ahead; in `HedgeRun` the position sync stamps with the service's clock, so a position
that passes for newer than a fill because the exchange's clock is ahead appears
there only through `"sync"`, which has the same effect (section 4). A listing entry
without a market type takes the account's, which is never empty; inferring it from
the entry's flags (`exchange_market.go:205`) is left out. A shutdown ends handlers
where they are, although the HTTP and gRPC servers first wait for them.

## 7. Plan

Done: the lock, the calculator and its loop, runs, close and its lifecycle, the
syncs with the monitor, accounts with the market sync, the adapter API with its
task chains; theorems for every safety property of the runs but one and for both
refinements.

What would extend it most:

1. Two instances of the service in `SyncMonitor`, whose mutexes are then no
   longer shared, and the snapshots that runs write.
2. A repaired `reconcileSubmittedOrder` that updates only a row which is still
   submitted, and `CapKept` without the premise that nothing is late.
3. A proof of `ExcessBounded`.
4. `UpsertExposure` and `UpsertPosition` as actions of `HedgeRun`.
