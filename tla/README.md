# Janus Cortex: specification and proofs

TLA+ modules for the parts of Janus Cortex whose correctness depends on order,
failure and concurrency: the live run that trades a game, its threads and its
snapshot; the order and trade tables and everything that writes them; the portfolio
manager's order calls; the worker that ticks strategies; the queue by which
controllers claim resources; the runtime control of an event; and the decisions on
budgets, signals and targets.  TLC checks the modules on small instances; TLAPS
proves the most important of their properties for every instance.

Janus Cortex is a local Python service that trades NBA and WNBA markets on
Polymarket.  One API process (FastAPI, synchronous endpoints in a thread pool)
owns a few long-lived threads; Postgres keeps orders and trades; JSON files under
a shared root keep plans, snapshots, heartbeats and locks; command line tools and
agents are other processes that use the API and the files.

## 1. Inventory

| component | state | operations | talks to |
|---|---|---|---|
| live run worker (`app/modules/nba/execution/runner.py`) | tracked orders and positions, seen trades, `entries_enabled`, status, `recovery_snapshot.json` | one cycle: reconcile, positions, open orders, new entries, persist; start, stop, pause, resume; restore from the snapshot | order adapter, market data, API |
| live order adapter (`execution/adapter.py`, `databases/postgres.py`) | `portfolio.orders`, `portfolio.trades` | `create_live_order`, `cancel_live_order`, `reconcile_live_order_fills`, readers of rows | Postgres, exchange |
| live run service (`execution/service.py`, `contracts.py`, `routers/nba_live.py`) | runs by id | start or resume, restore from disk, pause, resume, stop | worker |
| live strategy worker (`agentic/live_strategy_worker.py`) | thread, stop event, configuration, last result | start, stop, run once, loop | strategy tick (a subprocess), operations API |
| controller queue (`app/runtime/controller_queue.py`) | active locks, completed locks, pass ledger (files) | check, claim, release, status | other controller processes through the directory |
| portfolio manager and manual orders (`routers/portfolio.py`) | the same order tables, action ledger | place with an idempotency key, place and cancel by hand, lifecycle, backfill | exchange, guards, kill switch |
| guards (`app/api/guards.py`) | operations per minute and account | check and count | order endpoints |
| event budget (`agentic/event_budget.py`) | none (pure) | derive budgets, decide sleeve transitions | tick |
| runtime control, kill switch | one JSON file per event, one for the portfolio | read, merge, write | operations API, tick |
| agentic engine and store, signal aggregation, target management, LLM runtime | plan files | validate, persist, aggregate, route | tick, API |
| live strategy tick (`codex_tool/run_live_strategy_tick.py`) | none of its own | one pass over the plans | API |
| operations API (`routers/ops.py`), sync pipelines, migrations, fallback tools, analysis | artifacts, tables | reports, imports, previews | all |

Where it is hard:

* **Three memories.**  The live run's objects, the table and the exchange know
  of the same orders and are never updated together.  `create_live_order` commits
  before it calls the exchange and again after; an exception rolls back the
  connection but not the memory; a crash loses the memory but not the snapshot,
  which may be old or torn.
* **Time.**  Fills arrive while orders are cancelled for their age; trades are
  listed late; an answer of the exchange may be lost.
* **Threads without a shared lock.**  `LiveStrategyWorker.stop` joins outside its
  lock; manual ticks run beside scheduled ones; snapshots are written by three
  threads.
* **Files instead of locks.**  The controller queue checks, then writes.

* **Answers that lie.**  The exchange client turns an error into an empty list, and
  an exception into an answer without success; the writers of the tables conclude
  from such answers.
* **Long sequences of pure decisions.**  A budget is drawn on by one request after
  another, signals are compared with the last one kept, orders are dealt to sleeves
  in turn.

`PROJECT.json` lists every component and every hazard at its line.

What makes each component correct, in a sentence:

* a run never works two signals of a game nor exceeds the game's budget, and
  everything on the exchange can be found in the table;
* an order row moves along its life and never back; a row says filled or expired
  only when the order is, whichever writer concluded it;
* an idempotency key places one order, and the action ledger tells what the orders
  tell;
* a run that was started has its threads until it is stopped, and a pause survives a
  restart; a strategy worker has one loop, which stops when told;
* a resource is claimed once, and no claim vanishes; a stored setting stays in force;
* the approved buys of an event stay within its budget, an exit goes before any
  buy, and no share of a resting order covers two sleeves.

## 2. Modules

| module | models | code |
|---|---|---|
| `LiveOrders` | order rows (`tx`, as the run's connection sees them; `db`, committed), recorded trades, the exchange | `adapter.py`, `postgres.py` |
| `LiveRun` | the cycle of one live run over `LiveOrders` | `runner.py` |
| `OrderLedger` | abstract: what a reader of the table may rely on | (promise, no code) |
| `LiveRunClaims` | what the runbook says and the run does not do | `live_playoff_validation_runbook.md` |
| `LiveRunControl` | the loop and the capture thread of a run, the operator's commands, the snapshot file | `runner.py`, `service.py` |
| `PortfolioTables` | all writers of `portfolio.orders` and `portfolio.trades` | `routers/portfolio.py`, `sync_portfolio.py`, `adapter.py`, `upsert_primitives.py`, `manage_portfolio.py` |
| `ManagerOrders` | the placement of a portfolio manager order with its idempotency key, and the action ledger with its two writers | `routers/portfolio.py` |
| `OrderRateLimiter` | the sliding window of the order endpoints | `guards.py` |
| `RuntimeControl` | updates of an event's control file | `runtime_control.py`, `store.py` |
| `EventBudget` | the budget of an event and the sleeves that draw on it | `event_budget.py`, `run_live_strategy_tick.py` |
| `SignalAggregation` | the choice of one candidate order among the signals of an event | `signal_aggregation.py` |
| `TargetManagement` | which sleeve's shares a resting sell order covers | `target_management.py` |
| `LiveStrategyWorker` | the loop thread and its endpoints | `live_strategy_worker.py` |
| `ControllerQueue` | claim and release as sequences of file operations | `controller_queue.py` |
| `MCLiveRun`, `MCControllerQueue`, `MCLiveStrategyWorker` | small instances | |
| `MCPortfolio` | instance of `PortfolioTables`, `ManagerOrders`, `OrderRateLimiter` | |
| `MCLiveControl` | instance of `LiveRunControl`, `RuntimeControl`, `EventBudget`, `SignalAggregation`, `TargetManagement` | |
| `PortfolioProofs` | theorems about `PortfolioTables`, `ManagerOrders`, `OrderRateLimiter`, and their composition in `MCPortfolio` | |
| `LiveDecisionProofs` | theorems about `EventBudget`, `RuntimeControl`, `SignalAggregation`, `TargetManagement` | |
| `LiveRunControlProofs` | theorems about `LiveRunControl`, and the composition in `MCLiveControl` | |
| other `*Proofs` | theorems about the module they are named after | |
| `FiniteSums` | for the proofs: induction over sets of numbers, least numbers, sums of folds | |

`LiveRun` EXTENDS `LiveOrders`; `LiveRun` implements `OrderLedger` under the
refinement mapping `Ledger` (the committed status of each row, and the game an
entry row is charged to).  `LiveRunControl` is about the same worker as `LiveRun`:
what a cycle does is one step of its loop thread.  `PortfolioTables` sees the live
run only as a placer and a reconciler of rows, among all the others.

### LiveOrders and LiveRun

`tx` and `db` are two views of one table.  The functions of the adapter write
`tx`; `_commit_if_supported` makes `db` equal to it, `managed_connection` commits
or rolls back at the end of a cycle.  A dry run writes rows as `open` and never
commits by itself, which is why a rolled back order can stay in memory.

`pc` is the line the loop thread has reached.  A `for` of the code is a phase with
the items it has left (`keys_todo`, `signals_todo`), visited in any order: the code
iterates over dictionaries and frames whose order is that of arrival.

The loop thread does not live for ever.  After a cycle it returns when all games are
final or `stop()` was called, and an error of the disk in the `except` or the `finally`
clause of a cycle, or in the log line before the `try`, ends it: `GoOn` and `LoopEnds`
lead to `pc = "ended"`.  Whether games are final and files can be written is a free
choice.  The process goes on with the worker's memory, and `Restart` is the next
`start()`, which does not read the snapshot; `Crash` and `Start` lose the memory and
read it.

| code | actions |
|---|---|
| `_run_loop` | `CycleBegin`, `CycleEnd`, `CycleError` (an exception anywhere in the cycle, by `CycleFails`), `LoopEnds` |
| `start` of a worker whose thread is gone | `Restart` |
| `_persist_recovery_snapshot` | `Persist` in `CycleEnd` and `CycleFails`; `PersistSnapshot` by the capture thread and the endpoints; a snapshot may be older than the memory because the text is written after the lock is released |
| process start and death | `Start`, `Crash` |
| `create_live_order` | `BeginCreate` (row and first commit), `Place` (exchange), `Record` (second commit, and the caller tracks the order) |
| `_reconcile_runtime_state`, `_handle_trade_fill` | `Reconcile`, `OpenPosition`, `ClosePosition`, `CheckStatus`, `PopStaleKeys` |
| `_process_open_positions`, `_cancel_active_exit_order`, `_submit_exit_order` | `HoldPosition`, `ExitPosition`, `StopCancelsExit`, `SubmitExit`, `SubmitExitReturns`, `PositionsDone` |
| `_process_open_orders` | `HoldOrder`, `EntryTimeout`, `ExitTimeout`, `TimeoutRaises`, `OrdersDone` |
| `_process_new_entries` | `SkipEntries`, `BeginEntries`, `SkipEntry`, `SubmitEntry`, `EntriesDone` |
| the exchange (external) | `Fill` |

Abstractions.  Prices, scores, order books and ages decide branches by a free
choice, so a gate on data is a choice between `SkipEntry` and `SubmitEntry`, and
a due order is any order.  A size is a number of lots, filled one by one.  A
notional is a member of `Costs`; the tolerance of 0.000001 in the notional gate is
not kept, so the bound of `EntryNotionalBudget` is exact where the code's is
within that tolerance.  Statuses the run's own code never writes (`working`,
`pending`, `partial`, `rejected`, `failed`, `error`) are left out.  All rows of a
run carry its execution profile, so the filter on it is left out.  The side of a
tracked order is derived from its action (`TrackedSide`), because an exit is a
copy of a position that was a buy.

### LiveStrategyWorker

A stretch under `self._lock` is one action; `stop` is three (`StopBegin`,
`JoinReturns`, `StopSettle`) and `run_once` two.  A loop thread goes through
`test`, `config`, `tick`, `wait`.  Of the configuration only `execute` is kept,
the field that decides whether a tick may place orders; all fields are overridden
alike.  Counters and the last result are written and never read back.

### ControllerQueue

Each file operation is an action; `write_text` is two, because opening for
writing truncates.  A process may die between any two.  Two writers of one file
may leave either text or a mixture; files are unlinked by name and stay writable
for who has them open (POSIX).  Reading the directory in `find_conflicts` is one
step: read file by file, a claim written during the reading might be missed as
well, which only makes the race begin earlier.  `racing`, `created` and `claimed`
are history variables.

### LiveRunControl

The loop thread, the capture thread and the operator's request each have a place
(`loop`, `capture`, `api`).  A stretch under the worker's lock is one action.  A
snapshot is three: `Take` under the lock, `Open` (which truncates) and `Write`
after it; a writer whose text is not the last one taken is in `older`, and two
writers that have the file open at once may leave what does not parse.

| code | actions |
|---|---|
| `start`, `start_or_resume_run` | `Start`, `StartAgain` (the loop is alive: nothing happens), `Create` |
| `run_root`, which is dated | `SameDay`, `NextDay` of `Create` |
| `_load_worker_from_disk`, `mark_restored_inactive` | `Restore` (it looks for the latest date that has the run) |
| `request_stop`, `pause_entries`, `resume_entries` | `RequestStop`, `PauseEntries`, `ResumeEntries`, `PersistCommand` |
| `_run_loop` | `LoopStarts`, `LoopTest`, `CycleEnds`, `LoopPersists`, `AllGamesFinished`, `LoopSleeps`, `LoopWakes`, `LoopStops`, `LoopReturns`, `LoopDies` |
| `_run_orderbook_capture_loop` | `CaptureTest`, `CapturePersists`, `CaptureFails`, `CaptureWakes`, `CaptureReturns` |
| `write_text` and its errors; the process | `Open`, `Write`, `WriteFails`, `CaptureRaises`; `Die` |

An error of the disk is never excluded.  The loop thread dies of one wherever it writes
outside the `try` (`LoopDies`, and `WriteFails` for the snapshot); the capture thread's
`except` clause writes to the log, so an exception there leads to the next wait or, when
that write raises too, to the end of the thread (`CaptureRaises`).

Of the statuses only what a reader distinguishes is kept: `starting` is read as
`running`, `completed` as `stopped` and `error` as `created`.

### PortfolioTables

A job of a thread reads rows, asks the exchange and writes in one transaction:

| code | job |
|---|---|
| `create_manual_order`, `create_live_order` | `PlaceBegin`, `PlaceAsk`, `PlaceWrite` |
| `cancel_manual_order` | `CancelBegin`, `CancelAsk`, `CancelWrite` |
| `reconcile_live_order_fills` | `ReadRows`, `AskTrades`, `ReconcileWrite` |
| `backfill_portfolio_order_statuses` | `ReadRows`, `AskOrders`, `AskTrades`, `StatusWrite` |
| `backfill_portfolio_order_trades` | `ReadRows`, `AskTrades`, `TradesWrite` |
| `mirror_direct_open_portfolio_orders` | `MirrorAsk`, `MirrorWrite` |
| `run_portfolio_mirror_sync` | `SyncAsk`, `AskTrades`, `SyncWrite` |
| an exception or an answer that ends the request | `Abandon` |

An exchange order has up to four rows, one per source, because each source derives
the order id in its own way; a fill has up to two trades, under the exchange's id
and under a hash.  Sizes are lots.  The attribution of a trade by price and time,
for trades without an order id, is a free choice among the rows of its order.

A request for the status backfill may bring evidence of its own: the ids of orders it
says are open, which are added to what the exchange lists (`Named`), and counts of open
orders and positions, which are taken instead of the exchange's.  A request without
`include_direct_clob_evidence` or without an account, or one whose positions cannot be
read, has nothing else (`TakeRequestsWord`).  Counts are not compared with the list, so
the model lets a request have any: whether rows are expired is a free choice at
`StatusWrite`.

### ManagerOrders

One call of `apply_portfolio_manager_order_management_order` is one transaction:
`Begin` (flags, kill switch, gates), `Replay` or `FindNoRow`, `WriteLedger`,
`Place`, `WriteRow`, `Commit`, or `Abort` anywhere.  An upsert waits for the
transaction that has written the same row; reads see what is committed.  The switch,
the gates and the limits refuse a call before it has done anything, so a refusal is an
`Abort`; nothing looks at the switch again, and no property speaks of it.

The action ledger has a second writer, `POST .../manager/action-ledger`, which puts the
status of a plan over whatever its entry shows (`RecordLedger`, `SetLedger`).  The id of
an entry is made of fields of the plan without its idempotency key, so plans of two keys
may share an entry and plans of one key may have two: `LedgerOf` and `KeyOf` are
independent functions of the plan.

### OrderRateLimiter and RuntimeControl

`InMemoryRateLimiter.check` reads the clock before it takes its lock, so
`ReadClock` and `Check` are two steps; the deque is cut from its head only.  An
update of a control file is `BeginUpdate` (read and merge), `OpenCurrent`,
`WriteCurrent` and `LogUpdate`; nothing locks them, and a torn or missing file is
the default configuration.

### EventBudget, SignalAggregation, TargetManagement

Pure functions whose loops are the steps, so that the accumulated state can be
related to the inputs: a request evaluated (`Evaluate`), a signal screened
(`Screen`, `DropUnusable`), a sleeve dealt to (`DealToSleeve`, `DealExcess`).  Money
is counted in units that make shares of shares integers, so the rounding to six
digits is left out; times and sizes are small naturals.  Phases are budgeted like
sides.  The confidence of a signal only breaks ties: whichever it would favour is
chosen freely.

The cap of a sleeve is one of its id; the code looks for one under the sleeve's role,
and then for a default, when the id has none (`event_budget.py:627-635`), which would let
two requests of one sleeve have different caps.  A buy, like a sell, may carry exit
priority in its payload or trigger, and the control may allow additions to a position for
every signal (`may_add`).  A sell order that rests is credited with the size it was listed
with (`size`, `target_management.py:229`), of which `sold` shares may be gone.

## 3. What the runs check

Every passing run explores its whole state space; no constraint cuts it.

| run | checks | instance |
|---|---|---|
| `live_run_crash` | `TypeOK`, `SingleSignalPerGame`, `TrackedOrdersDurable`, `PositionsBacked`, `OneOpenEntry`, `OneExitPerSignal` | 1 game, 2 signals on its two sides, 3 orders, 1 lot, every answer, 1 crash; the loop ends and is started again any number of times |
| `live_run_budget` | `EntryCountBudget`, `EntryNotionalBudget`, `PlacedOrdersRecorded` | 1 signal, costs 1 and 2, budget 2 orders and notional 3, 3 orders, 1 crash, any cycle may raise |
| `live_run_fills` | `ImplementsOrderLedger`, `EntryLeaves` | 1 signal, 2 orders of 2 lots, any cycle may raise, fairness; every accepted order has an id |
| `live_run_dry` | `PhantomDropped` | dry run, 2 signals, 3 orders, 1 crash, any cycle may raise |
| `portfolio_orders` | of the tables `FilledOnlyByEvidence`, `ExpiredNotResting`, `CancelKept`; of the manager `PlacedOncePerKey`, `PlacedOrdersFound`, `LedgerWithOrder`; of the limiter `WindowKept`; `PortfolioTypeOK` | 1 order of 2 lots, 2 threads, 4 jobs, any failing read, any word of a request; 2 calls, 3 plans, 2 keys, 2 ledger ids, 2 order ids; 2 threads, limit 2 in a window of 2, clock to 4 |
| `live_control` | of the run's threads `PauseSurvives`, `LoopIsCaptured`, `RunHasLoop`; of the control file `UpdatesKept`; of the budget `CapLawful`, `BuysWithinCaps`; of the signals `CooldownKept`, `ExitPrevails`, `ProposalSound`; of the targets `AllocationMatches`, `CoveredTokenIsCovered`, `CoveredOnce`; `LiveTypeOK` | any number of crashes, disk errors and restarts of a run, on any day; 2 updaters, 2 fields; 3 requests of 2 sleeves and 2 sides; 3 signals on 2 tokens and 2 sleeves, symmetric in both; up to 3 shares, 2 sleeves, 2 orders |
| `queue_locks` | `TypeOK`, `OverlapOnlyByRace`, `ReleasedOncePerLock`, `ClaimTraceable` | 2 controllers, 2 lock ids, 2 resources, 3 claims, 1 crash, symmetry |
| `worker_loops` | `TypeOK`, `ExtraLoopOnlyByStop`, `StopEndsLoops` | 2 callers, 3 loop threads, fairness |

`portfolio_orders` and `live_control` hold several modules that share no state.  A
variable `active`, chosen initially and never changed, says which of them takes its
steps, so the state space is the sum of theirs and not the product.

Why the bounds are enough to be interesting.  Three orders are an entry, its
target and its exit, or as many entries as the budget plus one.  Two lots make a
fill partial.  One crash, with any snapshot since the last one, is what a restart
can find; a second crash starts from a state of the same kind.  Two controllers
and three claims are enough for a lock id to be claimed, released, claimed again
and released twice.  Three loop threads let one be joined, one forgotten and one
current.  Four jobs of two threads are a placement, a cancel and two backfills that
overlap, and each row of an order has a source of its own.  Two plans with a shared
key and two calls make a key race with itself; the third plan has another key, so
that a call can be unconcerned.  Three requests overdraw a cap that two exhaust;
three signals are two that agree and one that does not.  `MaxOrders`, `MaxClaims`,
`Threads` of the worker, `MaxCrashes`, `MaxJobs`, `Ids`, `LastTime`,
`RequestCount`, `SignalCount`, `OrderCount` and `MaxShares` are bounds of the model
and no limit of the code; when an order id is exhausted, the submitting branches
wait or return.  Deadlock is not checked in the two composed runs, because those
bounds end them.

Symmetry is used for the controllers of the queue, for the threads of `PortfolioTables`
and for the tokens and sleeves of `SignalAggregation`, in runs that check no liveness.

The runs that fail, each a finding of `PROJECT.json`:

| run | claim | what happens |
|---|---|---|
| `live_run_restart` | `NoDuplicatePendingEntry` (runbook, line 76) | a crash between the first commit and the answer; the row stays at `pending_submit`, which no gate looks at, and the restarted run submits again |
| `live_run_no_id` | `UnfilledEntryCanceled` (runbook, line 21) | an order tracked as submitted without an id makes `cancel_live_order` raise, in this and in every later cycle |
| `worker_orphan` | `RunningLoopReported` (`test_live_strategy_worker_pytest.py`, lines 131-151) | `stop` forgets a thread that a `start` made during the join |
| `portfolio_fills` | `BackfillsOnlyFilled` (`janus_agentic_backend_operating_plan.md`, line 156) | one fill recorded under two ids, counted twice, is full evidence for an order filled by half |

How far each failure goes is proved (section 4).  Of two pending entries for one outcome
one is always a row left at `pending_submit`, since no outcome has two open ones
(`OutcomeEnteredOnce`); the worker loses a loop only to calls that overlap
(`SerialCallsLoseNoLoop`); a row is filled too early only when a fill was counted twice
(`FilledHasEvidence`).

Other differences between the code and its documents, seen while modelling, which the
model contains and no run states:

* The aggressive retry of a timed out exit finds the exit it replaces still tracked
  and returns (`runner.py:2294`, against the runbook, line 24): no retry ever sends an
  order, which `LiveRunProofs!RetryNeverPlaces` proves.
* Two claims check before either writes, so active claims may overlap
  (`controller_queue.py:369`, against `subagent_parallelism_contract.md`, line 74);
  `OverlapOnlyByRace` is what holds instead.
* A suppressed signal of any sleeve blocks the candidate (`signal_aggregation.py:413`,
  against `live_signal_aggregation_contract.md`, line 151), an exceeded event budget
  blocks exits as well as buys, and one opted-in signal lets its whole group add to a
  position.

Definitions commented "Bug variant" are not part of a specification.  Each changes
one definition the way a plausible bug would, and the property named in the
comment fails with it: they show that the properties depend on the code.

### Exceptions a property names

Several properties hold but for a race the code does not exclude, and say so with a
history variable: `overlapped` and `lost` keys (`PlacedOncePerKey`), `rewritten` entries
(`LedgerWithOrder`), `blind` rows (`ExpiredNotResting`), `double_counted` rows
(`FilledOnlyByEvidence`), `forgotten` pauses (`PauseSurvives`), `uncaptured` loops, `raced`
fields, `reordered` checks.  Each is set only by the step that makes the race, so the
property says that nothing else breaks the promise.  In full:

* A row is expired although its order rests by a job that had not seen the open orders:
  the read failed and passed for an empty list, or the request's word was all there was.
* A pause is forgotten with a torn file, with an older text written over the one that had
  it, or when the run is created again on another UTC day, in a new directory.
* A loop goes on without its capture thread when that thread read the status of an earlier
  life, was on its way out when `start()` asked for it, or could not log an exception.
* A ledger entry no longer shows the outcome of a row when a later call or a recorded plan
  has written over it.
* A covered token may lack the shares its listed orders had already sold and were credited
  with (`Overcredited`), beside less than one order.

### Fairness

`LiveRun!FairSpec`: a loop thread that is alive goes on (weak fairness of `LoopStep`).
That it stays alive is not assumed: `LoopEnds`, and the choice of `GoOn` after each cycle,
may end it at any time, and nothing makes anybody start it again.  Nor is it assumed that
a cycle succeeds: any number may raise.  `EntryLeaves` therefore promises nothing of a run
that has ended or whose last cycle raised (`Halted`); an error that recurs leaves the entry
tracked.  An order only gets older, so when the loop over the orders comes by again and
again it finds it due: strong fairness of the timeout of each key, whether it cancels or
raises.  Nothing is assumed of the exchange or of prices; `EntryLeaves` is checked where
the exchange gives an id with every acceptance, and `live_run_no_id` shows what happens
where it does not.
`LiveStrategyWorker!FairSpec`: a tick has a timeout and a wait an interval, so each
loop thread makes progress; nothing is assumed of callers.  `LoopGoesOn` is weak fairness of
`LoopStep(t)` with its enabling condition, `Alive(t)`, written out, because the prover cannot
reason about ENABLED.  `LiveRunControl` has no
liveness property: its loop thread may die of a disk error, and what a started run
keeps is the invariant `RunHasLoop`.

## 4. What is proved

All theorems hold for every value of the constants that satisfies the ASSUMEs of
the modules (finite bounds, a game for every signal, distinct model values, and the
like); TLC evaluates those on every instance.  `OutcomeAssumption` says that an outcome
belongs to one game: the code's signature of an entry is the pair of both with the side
(`adapter.py:879-884`, `runner.py:2576`).

| theorem | says |
|---|---|
| `LiveRunProofs!TypeCorrect` | `Spec => []TypeOK` |
| `LiveRunProofs!OneSignalPerGame` | `Spec => []SingleSignalPerGame` |
| `LiveRunProofs!PlacedRecorded` | `Spec => []PlacedOrdersRecorded` |
| `LiveRunProofs!TrackedDurable` | `Spec => []TrackedOrdersDurable` |
| `LiveRunProofs!NoPhantomPosition` | `Spec => []PositionsBacked` |
| `LiveRunProofs!BudgetKept` | `Spec => []EntryCountBudget` |
| `LiveRunProofs!NotionalKept` | `Spec => []EntryNotionalBudget` |
| `LiveRunProofs!OutcomeEnteredOnce` | `Spec => []OneOpenEntry` |
| `LiveRunProofs!OneExitTracked` | `Spec => []OneExitPerSignal` |
| `LiveRunProofs!PhantomGone` | `Spec => []PhantomDropped` |
| `LiveRunProofs!RetryNeverPlaces` | `Spec => RetryPlacesNothing`, an action property (in the proof module) |
| `LiveRunProofs!ClosedByTarget` | `Spec => OnlyTargetsClose`, an action property (in the proof module) |
| `LiveRunProofs!ForgottenStays` | `~DryRun => (Spec => ForgottenForGood)`, an action property (in the proof module) |
| `LiveRunProofs!LedgerImplemented` | `~DryRun => (Spec => ImplementsOrderLedger)` |
| `LiveRunControlProofs!ControlTypeCorrect`, `PauseLasts`, `LoopKeepsCapture`, `RunKeepsLoop` | `ControlTypeOK`, `PauseSurvives`, `LoopIsCaptured`, `RunHasLoop` |
| `LiveRunControlProofs!LiveComposes`, `LiveTypeCorrect` | `LiveSpec => ControlSpec /\ RcSpec /\ BudgetSpec /\ AggSpec /\ TargetSpec`, `LiveTypeOK` |
| `PortfolioProofs!TablesTypeCorrect`, `FilledHasEvidence`, `ExpiredIsSettled`, `CancelIsKept` | `TypeOK`, `FilledOnlyByEvidence`, `ExpiredNotResting`, and the action property `CancelKept` |
| `PortfolioProofs!ManagerTypeCorrect`, `KeyPlacesOnce`, `KeyFindsOrder`, `LedgerAgrees` | `ManagerTypeOK`, `PlacedOncePerKey`, `PlacedOrdersFound`, `LedgerWithOrder` |
| `PortfolioProofs!LimiterTypeCorrect`, `LimitHolds` | `LimTypeOK`, `WindowKept` |
| `PortfolioProofs!PortfolioComposes`, `PortfolioTypeCorrect` | `PortfolioSpec => Spec /\ ManagerSpec /\ LimiterSpec`, `PortfolioTypeOK` |
| `LiveDecisionProofs!BudgetTypeCorrect`, `CapIsLawful`, `BuysStayWithinCaps` | `BudgetTypeOK`, `CapLawful`, `BuysWithinCaps` |
| `LiveDecisionProofs!ControlFileTypeCorrect`, `StoredStaysInForce` | `RcTypeOK`, `UpdatesKept` |
| `LiveDecisionProofs!AggregationTypeCorrect`, `CooldownHolds`, `ExitComesFirst`, `ProposalsSound` | `AggTypeOK`, `CooldownKept`, `ExitPrevails`, `ProposalSound` |
| `LiveDecisionProofs!TargetTypeCorrect`, `SharesAllDealt`, `CoveredRowsCover`, `SharesCoverOnce` | `TgtTypeOK`, `AllocationMatches`, `CoveredTokenIsCovered`, and the action property `CoveredOnce` |
| `LiveStrategyWorkerProofs!WorkerTypeCorrect`, `NoSecondLoop` | `TypeOK`, `ExtraLoopOnlyByStop` |
| `LiveStrategyWorkerProofs!StopEndsEveryLoop` | `FairSpec => StopEndsLoops`, a liveness property |
| `LiveStrategyWorkerProofs!SerialCallsLoseNoLoop` | `(\A c, d \in Callers : c = d) => (Spec => []RunningLoopReported)` |
| `ControllerQueueProofs!OverlapsRaced`, `ClaimsTraced`, `ReleasesCounted`, `QueueTypeCorrect` | `OverlapOnlyByRace`, `ClaimTraceable`, `ReleasedOncePerLock`, `TypeOK` |
| `ControllerQueueProofs!TornLockStays` | `Spec => AbandonedStays`, an action property (in the proof module) |

The arguments:

* **Types.**  `LiveOrdersProofs` has one lemma per function of the adapter, cited
  by the step of every action that calls it.
* **One signal per game.**  `SingleSignalPerGame` alone is not inductive: an order
  being created is not tracked yet.  The invariant adds that the call in progress,
  and the signals the loops have left, belong to signals the worker works, or that
  the game of the call was free.
* **Rows and memory.**  What is tracked was committed before, and no function of the
  adapter changes the signal or purpose of a row; the lemmas `*Keeps` say so one
  function at a time.  The same lemmas carry trades forward, which gives
  `PositionsBacked` once it is known that an exit is only ever created for a
  signal with a position.
* **Budget of a run.**  A cycle counts rows it read before its loop.  The invariant
  relates the rows read to the rows now: for a game without a tracked order, a
  position or a call in progress they count alike, and for any other game the
  count is within the budget.  The gate of the game closes as soon as an entry is
  tracked, so at most one row per game is missing from what was read.
* **Notional of a run.**  The same argument, with one more fact: a row read before the
  loop is still there and costs what it did (`SeenInv`), so what the cycle summed is
  what the table sums now but for the one order it has begun, which adds its cost.
* **One open entry per outcome.**  The gate looks at rows read before the loop
  (`run_orders`), while the loop adds rows.  Three facts close the gap: while the entries
  are tried, a row that was read is as it was (`ReadInv`); an entry added since belongs
  to a game the worker works, whose gate is closed (`CountInv`, and an outcome has one
  game); and no function of the adapter opens an entry again (`OpenKept`, one lemma per
  function).  While an entry is being created its outcome has no other (`OpenInv`), so
  the answer of the exchange may open it.  A restart that has forgotten all of this
  reads the rows again.
* **Exits.**  A target is created only when its signal tracks no exit, an exit only when
  it tracks neither, and nothing else is tracked until `Record` (`ExitInv`).  A restored
  snapshot tracks what a memory did.  The same invariant says that the exit a retry
  replaces is still tracked when `_submit_exit_order` looks.
* **Phantoms.**  In the loop over the fills, a tracked order without a row is still to be
  visited or already stale (`PhantomInv`): a key leaves the loop with a status that was
  looked at, and a missing row is stale.  Stale keys are popped before the next loop.  What is tracked afterwards
  in the cycle has just been written to `tx`.
* **Closing.**  A position leaves memory by `ClosePosition` of a tracked order, with its process, or
  not at all; the branch that closes it asks for `target_exit`, and by `TrackedDurable` the
  committed row of the tracked order says the same.  While the process is down there is no
  memory to leave (`DownEmpty`).
* **Forgotten orders.**  What the worker tracks next is in its memory, in the snapshot a
  start restores or in the call in progress, and a creation takes an id without a row.  So
  an order in none of the three stays out of them, and a cancel, which goes to a tracked
  key, reaches another row.
* **The ledger.**  In a live run `tx` and `db` agree between the steps, so each commit
  is one step of `OrderLedger`.  A closed row is never written again, because a
  cancel only reaches a key the reconciliation of this cycle looked at and kept
  (`DueKeys`): its row is open, or has no external id and the cancel raises.  No
  order is tracked under two keys, because the key follows from the signal and the
  purpose of its committed row (`KeysFit`).  A dry run is excluded: it writes rows as
  open before they are committed and commits them together.
* **Threads of a run.**  A loop past its first step has another status than
  `stopped` until it closes, so its capture thread finds no reason to leave; a run
  that is wanted has no stop event, and its loop works or has died; one restored from disk
  never reports running (`StatusWorks`).  While a pause is
  under way entries are off and the text taken last says so; after it the file and
  every text that is not marked older say so as well, which carries over `Die`, after
  which only the file is left.
* **Filled and expired.**  A row is planned to be filled when as many trades are
  linked to it as it has lots.  Each linked trade is of a fill of its order, so if
  there are fewer fills than lots, two of the trades are of one fill (a pigeonhole
  over the trades linked, `LinkedFills`): the row is double counted.  The
  invariant says the same of what each job has read, because rows and trades only
  gain links and an order never gets fewer fills.  An order that was read as not
  resting, by a read that did not fail, never rests again; a job without such a read is
  marked `unread`, and what it expires is `blind`.
* **Cancels.**  The status backfill writes only where the status is what it read, the
  mirror and the sync write rows of their own source, and a row reconciled from
  `canceled` has a fill.
* **One order per key.**  While a key is neither overlapped nor lost, at most one call
  is between its look for a row and its end; every order of the key is that
  call's, or the committed row's.  The overlap is recorded when the second call
  finds no row.
* **Ledger and row.**  Both are written by one commit, with one status.  Only a commit that
  overlapped another of its key finds a row there already (`NoRowYet`, `OnePast`), so a row
  keeps its status, or its key is among the overlapped.  Every writer of the ledger goes
  through `SetLedger`, which marks an entry that showed an execution as rewritten.
* **Rate limit.**  What was admitted since a time that a later check still counts lies
  in the deque behind all older entries (`DequeCounts`), so cutting the head never
  loses one, and the length of the deque bounds them.
* **Stored settings.**  An update that is alone holds its own value and the other
  fields as they are in force; updates that overlap, and one that dies with the
  file open, put the fields they endanger among the raced.
* **Signals.**  The last signal kept of a key is later than all before it when the
  list is in order.  The group of the candidate has one type and one token, which
  with the empty list of blockers gives the three parts of `ProposalSound`.
* **Targets.**  The sums over the rows are unfolded at the row a step deals to.
  Orders are dealt in turn, so every row before the last one reached is covered in
  full, and what the last one lacks is less than one order.  The status knows the shares
  an order was listed with: of those the exchange no longer has, no more were credited than
  were sold (`CreditBounded`), and the property allows for just these.
* **Caps of a budget.**  The cap is a minimum, plus a profit share bounded by what
  is free of it, cut to the cash; the bounds are linear facts about the smaller and
  the larger of two integers.  What has been bought of a side is its usage less the
  largest report, which exists because the reports are a finite set of naturals (by
  the least report that bounds them all).
* **No second loop.**  A start replaces the thread only when it is dead; only
  `StopSettle` drops a living one, and it says so.
* **Stopped loops.**  A loop under a set stop event goes from `config` to `tick`, to `wait`,
  to `test`, and from there to its end: each is one step of its own (`RestOfRound`), which
  no other step takes or undoes but a start that clears the event.  `LoopGoesOn` gives each
  step, and the four leads-to formulas chain.
* **One call at a time.**  What a `stop` has joined is still the current thread
  (`SerialInv`): forgetting it forgets a loop that has ended.
* **Composition.**  An action of one component leaves the variables of the others alone,
  so a behaviour of `PortfolioSpec` or `LiveSpec` is one of each component, and what is
  proved of a component holds of what the runs check.
* **Overlaps.**  A claim that passed its check and is not written overlaps a lock
  only if that lock was written after the check, and then the lock counted it.
* **Claims.**  A completed lock is never deleted and an active one is unlinked only
  by a call that archived it, so a trace once there stays.
* **Torn locks.**  A file that does not parse exists, so a claim ends at its look for the
  path, and is not readable, so a release does not find its lock.  The property speaks of
  the moment the calls that had passed those points are over.
* **Counters of the queue.**  Two sums are invariant: the releases in the ledger, the
  releases that have unlinked and not yet logged, and the file itself never exceed
  the times the file was created; those, with the calls that may still create it,
  never exceed the claims that passed their check.  A release that finds the file
  gone raises before it logs, so each entry has an unlink of its own.

A sum over a set is a fold, which picks the elements in an order of its own.
`FiniteSums` shows that it may be unfolded in any order, with induction stated for a
set of numbers or of subsets (`InductiveSet`, `SubsetInduction`), since no prover here
instantiates an induction theorem that takes an operator.

Only model-checked: the liveness property `EntryLeaves`.  A cycle
visits each of its keys and signals once, so that the next phase is reached at all is an
induction over how many are left, of a temporal formula, for which no prover here has a
rule; and the fairness they rest on is of actions whose enabling conditions are those of
whole phases.  `NoDuplicatePendingEntry`, `UnfilledEntryCanceled`, `RunningLoopReported` and
`BackfillsOnlyFilled` are the claims the failing runs refute.

## 5. Not modelled

* **Controller queue command line, fallback tools, migrations.**  One operator runs
  them one after another; they parse arguments, preview, or apply files in the order
  of their names.
* **Global portfolio manager, agentic engine and repository.**  Report building, gates
  over one plan and validation, with single writes.  What the gates refuse appears as
  a call of `ManagerOrders` that is rolled back.
* **LLM runtime.**  Routing of prompts around an external service.
* **Live strategy tick.**  One sequential pass that evaluates plans and calls the API;
  the decisions it takes are `EventBudget`, `SignalAggregation` and
  `TargetManagement`, of which the collection of requests is modelled.
* **Reduce and stop lifecycle, paired microcycle.**  Classifications of one plan by
  numeric thresholds, for which a small model says nothing.
* **Operations API.**  Endpoints that render and store artifacts; the endpoints of the
  worker enter as the callers of `LiveStrategyWorker`.
* **Sync API and backfill pipelines** other than the portfolio's: sequential imports
  around external services.
* **Analysis, backtests and learning lanes.**  Offline data analysis without shared
  state.

What is left out of the modelled components is listed with each of them in
`PROJECT.json`.
