# DHRUVA: a TLA+ verification project

DHRUVA is a personal trading platform: a FastAPI backend that takes orders
from people, strategies, scanners and webhooks, checks them against risk
limits, routes them to a broker (a simulated "paper" broker or one of the
Indian brokers), keeps orders and positions in PostgreSQL, distributes market
data through an in-process hub and runs a dozen scheduled jobs. This directory holds TLA+
modules for the parts of it whose correctness depends on what happens
concurrently, on what fails in between, or on a long sequence of legal calls;
the TLC configurations that check them; and TLAPS proofs of what matters most.

Paths below are relative to `src/backend/app` unless they start with `src/`.

## 1. The system

### 1.1 Components, their state and their operations

| Component | Code | State | Operations |
|---|---|---|---|
| Order execution | `core/execution/execution_service.py`, `position_tracker.py`, `risk_engine.py`, `core/audit` | `orders`, `positions`, `audit_events` rows; the broker's book | place, smart, close, atomic and non-atomic basket, cancel, cancel-all, modify |
| Approval workflow | `core/execution/approval_service.py`, the gate in `execution_service.py`, `core/strategy/executor.py`, `core/scanner/promote.py` | `approval_requests` and `pending_approval` orders | create (linked, unlinked), approve, reject, expire |
| Broker adapters | `brokers/` | sessions at the broker | place, cancel, positions, margin, health |
| Broker health monitor | `brokers/health_monitor.py` | per-account failure counter, `is_active`, `health_disabled_at` | periodic check, disable, enable again |
| Capital ring-fence | `core/intraday/capital_ringfence.py` | the scalping and positional pools, the day's P&L | allocate, update P&L, lock profits, rebalance, daily reset |
| Intraday square-off | `core/intraday/square_off.py` | open intraday positions | scheduled and emergency square-off |
| Regime execution | `core/execution/regime_executor.py` | peak value, lock file, daily and weekly returns | daily bar, circuit breakers, close all |
| Risk protections | `core/risk/protections` | block windows per account or symbol | evaluate, active blocks |
| Market-data hub and OHLCV writer | `data/streaming/hub.py`, `ohlcv_writer.py` | subscriptions, queues, open bars | publish, subscribe, flush, stop |
| Streaming manager | `data/streaming/manager.py` | the task of each broker | reconcile, start, stop |
| Tick aggregator | `data/streaming/tick_aggregator.py` | bars and VWAP per symbol | aggregate, reset |
| Instrument sync | `data/instruments/sync_service.py` | `instruments`, `master_contract_status` rows | daily job, an administrator's request |
| Strategies | `core/strategy`, `api/rest/v1/strategies.py` | strategy rows | the minute sweep; create, enable, disable, edit, delete |
| Webhooks | `api/rest/v1/webhooks*.py` | sources, `webhook_events` rows | receive, execute signals, close the event |
| Scanners | `core/scanner` | scan runs and results | run, promote |
| Authentication | `core/auth` | users, refresh tokens | login, refresh, logout |
| Accounts | `api/rest/v1/accounts.py` | account rows, credentials | create, update, delete, sync |
| Notifications | `core/notifications` (Telegram, WhatsApp) | the bot's offset | send, long poll, tap on a button |
| Portfolio tools | `core/portfolio` | SIPs, goals, lots | SIP, rebalance, tax, Kelly, Monte Carlo |
| Scheduler and jobs | `infrastructure/scheduler.py`, `jobs.py` | job store | periodic jobs |
| Rate limiting | `middleware/rate_limit.py` | Redis counters | count, refuse |
| Advisors, LLM, news, fundamentals, calendars | `core/advisor`, `core/ai`, `data/news`, ... | caches | analyses |
| Indicators, options, backtests, ML | `core/indicators`, `core/options`, `strategies/` | none | pure numerics |
| gRPC, MCP, WebSocket, REST glue | `api/`, `mcp/` | none | marshalling |
| Frontend, SDKs, deployment | `src/frontend`, `src/sdks`, `src/deploy` | UI state | presentation |

### 1.2 How they interact

Every order, whatever its origin (REST, gRPC, MCP, strategy run loop, webhook,
scanner promotion, approval from the web, Telegram or WhatsApp, square-off),
ends in `ExecutionService`. A request owns one `AsyncSession` (one database
connection, one transaction at a time) and is a coroutine: it is interleaved
with all others at each `await`. The broker is called in the middle of the
transaction, before anything is written. Redis holds caches and rate counters.
Ticks go from the brokers' streams to an in-process `StreamHub`, and from its
queues to the candle writer and the WebSocket pumps. The scheduler's jobs (health
checks, strategies, scanners, instrument sync) and the long-lived tasks of the
lifespan (streaming manager, candle writer, Telegram listener) each use sessions
of their own and meet the endpoints in the same tables. Nothing else is shared: there is no lock in the
process and no `SELECT ... FOR UPDATE` in the code; PostgreSQL's row locks at
READ COMMITTED are the only synchronisation.

### 1.3 What is hard

* State read before an `await` and used after it: positions, approval
  statuses, counters.
* The broker and the database are two stores without a common transaction.
* Requests that take the same rows in different orders.
* Decisions on the same approval from three front ends.
* Limits: 30 % concentration, 20 positions, three failed health checks, the
  day's loss limits.
* Queues, bars and caches that are lost, or overflow, while a slow consumer or
  the database is awaited.
* Jobs that read rows once, work for seconds and commit at the end.
* Work that is announced in one commit and done in another, with a restart, a
  failed poll or a repeated delivery in between.

PROJECT.json lists the hazards one by one, with the line where each bites and
the properties that cover it, or the reason why none does.

### 1.4 What makes each component correct

| Component | Correct when | Where |
|---|---|---|
| Order execution | positions are the committed fills; a basket is atomic; what is reported exists at the broker and in the database; every request ends | `OrderExecution` |
| Approval workflow | a request is decided once; an order is sent only for an approval, once; a rejected request has no order; the gate cannot be passed | `ApprovalWorkflow`, `ApprovalDecision` |
| Cancellation | a row that is filled or cancelled stays so; `cancel_all` ends | `ApprovalWorkflow` |
| Market data | a subscriber gets its ticks in order and the newest of them; a candle is made of all ticks of its minute | `MarketData` |
| Health monitor, account endpoints | only enough failed checks turn an account off; the columns that say so agree; a broker that answers gets its account back | `AccountHealth` |
| Strategy run loop | a stopped strategy stops, one that stays on is not starved | `StrategyDispatch` |
| Webhooks, scanners | the event log and the result row tell what was executed, although it takes several commits | `SignalIntake` |
| Streaming manager | a tracked symbol gets a stream again and again, no broker has two, none starts after the shutdown | `StreamingManager` |
| Telegram listener | no update is lost, none places an order twice | `TelegramListener` |
| Instrument sync | a list shown as synchronised has the whole of its last complete download, and becomes the newest | `InstrumentSync` |
| Regime execution, protections, ring-fence, square-off | never reached by the program as it stands | not modelled, section 9 |
| The rest | no state of its own that several actors share | not modelled |

## 2. Order execution

`OrderExecution.tla` models `ExecutionService.place_order`, `smart_order`,
`close_position` and `basket_order` with everything they call.

### 2.1 Correspondence

* A *session* `s` is a request with its `AsyncSession`. `pc[s]` is its place
  in the code; each value is the stretch between two awaits at which another
  request can run.
* `position`, `rows`, `booked` are the committed tables (`positions`,
  `orders`); `lock` are PostgreSQL's row locks and unique-key locks; `placed`
  are the orders the broker took.
* `mem`, `dirty`, `staged` are the session's identity map: the quantity of the
  loaded `Position`, the instances changed since the last flush, and the
  uncommitted `Order` rows. The session is built with `expire_on_commit=False`
  and `autoflush=False` (`db/session.py:25-30`), so a loaded instance keeps its
  quantity and is written as an absolute value.
* `todo`, `kind`, `leg` are the request; `out` what the caller is handed;
  `reason` why it failed.
* `ledger`, `applied`, `ver`, `seen`, `lost` are history: the sum of committed
  fills, the row versions, and the symbols whose row was overwritten with a
  value computed from an older version.

| Code | Action |
|---|---|
| `smart_order`, `close_position` up to `place_order` | `NothingToClose`, `AlreadyOnTarget`, `ComputeDelta` |
| `RiskEngine.validate` | `RefuseExternally` (market hours, symbol, freeze, lot, margin, sector, rate: decided by data outside the model), `CheckConcentration`, `CheckMaxPositions` |
| `broker.place_order` | `BrokerAcks`, `BrokerRefuses`, `BrokerTimesOut` |
| `session.add(order); flush()` | `FlushRow` for what an earlier leg left unwritten, `RecordOrder` |
| `PositionTracker.apply_fill` | `ApplyFill`, `PositionMissing`, `InsertPosition`, `InsertConflict`, `CacheWritten`, `CacheFails` |
| `AuditService.record` | `FlushRow`, `AuditFlushed` |
| `commit`, `refresh` | `Commit`, `Refresh`, `RefreshFails` |
| an exception | `LegFails` (a basket swallows it), `DbFails` (a database error also invalidates the session) |

Average cost and realised P&L are left out: no property tells them apart.
`SqlRead` (the filter `quantity != 0` evaluated by the database) is exact for
requests of up to two legs, which is the bound of every run.

### 2.2 Runs

The account holds a large position in a symbol that is not traded, so that the 30 % cap
lets some orders through and stops others. Of the three symbols that are traded, one has a
row; orders of the other two together reach the limit of four positions. Two sessions are enough for every
race between a pair of requests; two legs are enough for a basket that fails
after a success and for two rows taken in opposite orders.

| Run | Shows |
|---|---|
| `mixed` | the type invariant, `AtomicAllOrNone`, `ReportedIsReal`, `NoSilentOrphan`, `LedgerUnlessOverwritten` and `PositionExplained` for every pair out of eight requests of all kinds (an order on a symbol with a row, on each without, smart, close, atomic baskets that take the two rows in opposite orders, plain basket), with refusals, lost answers, cache and database errors, deadlocks and a crash of the process at every await |
| | `EveryRequestEnds`: two baskets may deadlock over their rows, or meet on the unique key of a new one; the database fails one of them, and both end |

`LedgerUnlessOverwritten` and `PositionExplained` say what is left when two
concurrent fills of a symbol overwrite one another, which the code allows
(section 8): nothing that was not committed is ever counted.

`CHECK_DEADLOCK FALSE`: a session serves one request, so an instance stops when
all have ended.

### 2.3 Fairness

`EveryRequestEnds` assumes weak fairness of `Progress(s)` and of
`DeadlockVictim(s)` for each session: the event loop runs every coroutine whose
await has completed, and PostgreSQL's deadlock detector always resolves a cycle.
No failure is fair. A row lock that becomes free is taken by some waiter; with
two sessions there is never more than one, so weak fairness is enough.

### 2.4 Proofs

For every number of sessions and symbols, every set of requests and every seed
that `SeedAssumption` and `RequestsAssumption` allow:

| Theorem | Module | Property |
|---|---|---|
| `TypeCorrect` | `OrderExecutionProofs` | `TypeOK` |
| `PositionsAreTheLedger` | `OrderExecutionProofs` | `LedgerUnlessOverwritten` |
| `AtomicBasketsAreWhole` | `OrderExecutionProofs` | `AtomicAllOrNone` |
| `ReportedOrdersAreReal` | `OrderExecutionProofs` | `ReportedIsReal` |
| `SuccessLeavesNoOrphan` | `OrderExecutionProofs` | `NoSilentOrphan` |
| `PositionsAreExplained` | `OrderExecutionProofs` | `PositionExplained` |
| `LedgerIsTheOrdersTable` | `OrderExecutionProofs` | - |
| `SerializedRowsAreExact` | `OrderExecutionProofs` | - |
| `NobodyIsStuckUnseen` | `OrderExecutionProofs` | - |
| `EveryStepCountsDown` | `OrderExecutionProofs` | - |

* `TypeOK` is not inductive: that the current leg exists (`LegInv`) and that a
  session which writes a position has loaded it (`LoadedInv`) are added.
  `NextShape` reduces `Next` to a few shapes of step, so that most variables are
  treated once.
* `LedgerUnlessOverwritten` needs to know what an uncommitted session holds:
  `DriftInv` says that a session's in-memory quantity differs from the committed
  one by what it has applied, as long as nobody has committed the row since it
  was read (`seen = ver`); a commit then moves the position and the ledger by the
  same amount, or puts the symbol into `lost`.
* The three properties about orders follow from `BookInv`, which says for each
  stage of a session which of its legs are at the broker, staged and booked. A
  step of one session leaves the others' orders alone (`OthersBook`), so that
  only a session's own steps need an argument (`OwnBook`).

* `PositionExplained` is about sums. `IsTotal` says what a sum over a finite set
  is: the value of a function on its subsets that grows by one order's quantity at a
  time. `TotalAdd` and `TotalUnion` say how it grows, and `SumIsTotal` that the fold
  of the model (`MapThenSumSet`) computes it: the least subset on which the two
  differ takes the place of an induction. `CountInv` then says that the committed position, and what
  each session holds of it, is the seed and a sum of some committed fills, for a
  session with its own (`Moved`). It needs `SentOf`: an order that is both booked
  and staged, or sent a second time, would be counted twice.
* `LedgerIsTheOrdersTable` removes the trust in a history variable: `ledger`
  is the sum of the orders with status `filled`, `applied` that of the fills of
  the open transaction. With `PositionsAreTheLedger`, every row that no commit has
  overwritten is its seed and the sum of ALL its fills in the orders table.
* `SerializedRowsAreExact` says when that is every row: if no two sessions ever
  hold an instance of the row at once (`Alone`), it is never overwritten. The
  hypothesis is what a lock on the row from its read to its commit would give; the
  code takes none. Every behaviour whose requests on the symbol come one after the
  other satisfies it.
* `NobodyIsStuckUnseen` and `EveryStepCountsDown` are what `EveryRequestEnds`
  rests on beside fairness. `CanProceed(s)` is what the next statement of a request
  needs. A request that cannot proceed waits for one in progress, since a
  transaction that has ended holds nothing (`HeldInv`); so either somebody can
  proceed or a smallest set that waits within itself is a cycle that the deadlock
  detector finds (`WaitingIsDeadlock`; the number of sessions is assumed finite).
  And each step lowers `StepsLeft` of one session, at most `11 * MaxLegs + 2`, and
  leaves that of the others alone. That a statement which can be executed is, and
  that this amounts to `ENABLED Progress(s)`, is left to the run `mixed`.

## 3. Approvals and cancellation

`ApprovalDecision.tla` is the promise of the action centre, without handlers: a
request is asked for, decided once, and only an approved one is placed, at most
once; a placeholder order waits as long as the request is undecided.
`ApprovalWorkflow.tla` is the code that is to keep it.

### 3.1 Correspondence

* A *handler* `h` is a coroutine with a database session of its own; it serves
  one request after the other. `act[h]` is the request, `app[h]` and `ord[h]`
  the approval and the order it works on, `pc[h]` the await it has reached:
  `expire` and `decide` (the commit of `approve` and `reject`), `ask`
  (`ApprovalService.create`), `check` (`_place_one` before the broker), `book`
  (after it), `withdraw` and `close` (`cancel_order` before and after the
  broker), `next` (`cancel_all` between two orders), `todo[h]` its list.
* `order`, `status`, `gated`, `link`, `late` are the committed rows of `orders`
  and `approval_requests`; `broker` is the broker's own state of each order.
* `from` and `approves` are history: the approval each order was sent for, and
  the number of approvals committed per request.

| Code | Actions |
|---|---|
| `ApprovalService.approve` | `BeginApprove`, then `Expire`, or `CommitApproval` and `place_order` |
| `ApprovalService.reject` | `BeginReject`, `CommitRejection` |
| `ApprovalService.create` from a strategy's signal or the scanner | `BeginAsk`, `CreateApproval` |
| `ExecutionService._place_one` | `BeginPlace`, `Refuse`, `CreatePendingApproval` (the gate), `Send`, `SendTimesOut`, `Book` |
| `cancel_order` | `BeginCancel`, `CancelAtBroker`, `NoBrokerToCancelAt`, `CommitCancel` |
| `cancel_all` | `BeginCancelAll`, `NextCancel` and the steps of `cancel_order` |
| broker, clock, process | `BrokerFills`, `Lapse`, `Interrupt` |

A handler reads its row when it begins and writes it by primary key when it
commits: the status it compared is the one it read. The approval and its
placeholder are written in one commit; the placeholder is read in the model when
that commit happens. Nothing is lost by that: a row leaves `pending_approval`
only for `cancelled`, and both writers write `cancelled`.

`cancel_all` lists the orders with status `pending` and works on the loaded
instances, which `expire_on_commit=False` keeps as they were: each is taken for
pending, whatever it has become.

`Offered` is the set of requests clients make in an instance; `Overlap` says
whether two clients may decide one request at the same time. With `Overlap`
FALSE a decision begins only when no other on the same request is between its
read and its commit; everything else still interleaves.

### 3.2 Runs

| Run | Shows |
|---|---|
| `overlap` | two handlers, two orders, two requests, decisions overlap: the type invariant, `PlaceholderFollowsApproval`, `EveryOrderWasApproved`, `TerminalRowsStay` |
| `serialized` | three handlers, decisions on one request do not overlap: `ApprovalWorkflow` implements `ApprovalDecision` (`KeepsThePromise`), and `CancelAllEnds` |
| `rejected` (violated) | a rejection overwrites an approval: the request reads rejected, its order is at the broker |
| `gated` (violated) | `ApprovingSubmits`: the order that `approve` places for a strategy that requires approval is held once more; `approve` answers with a second placeholder, nothing is at the broker |

Two handlers overlap in every way a pair of requests can; a third matters only
for a list that changes under `cancel_all`, which `serialized` has. Two orders
are a placeholder and the order that replaces it, or two entries of a list. Two
requests are one and the one its approval raises when it meets the gate.
`cancel_all` is left out of `overlap` and the gate's second request out of
`serialized` for size. Order and approval identifiers are never reused, so a
bounded number of them ends in states where nothing new can be made; handlers
can still decide and cancel, and TLC's deadlock check is on.

Fairness, for `CancelAllEnds` only: weak fairness of `Progress(h)`, the event
loop running every handler. Beginning a request, the broker's fills, the clock
and failures are not fair.

### 3.3 Proofs

All in `ApprovalProofs.tla`, for every number of handlers, orders and requests:

| Theorem | Property |
|---|---|
| `WorkflowTypeCorrect` | `TypeOK` |
| `PlaceholdersFollowApprovals` | `PlaceholderFollowsApproval` |
| `GateHolds` | - |
| `OrdersStandForApprovals` | `EveryOrderWasApproved` |
| `TerminalRowsAreFinal` | `TerminalRowsStay` |
| `WorkflowKeepsThePromise` | `KeepsThePromise`, assuming `~Overlap` |
| `RejectedIsNotPlaced` | -, assuming `~Overlap` |

The inductive invariant is `IInv == TypeOK /\ Booking /\ Fresh /\ Linked /\
Taken`. `Booking`: the order a handler is about to book has no row yet, is at
the broker, and is no other handler's. `Fresh`: a request that has not
been made is referred to by nothing. `Linked`: no two requests share a
placeholder, a link's order exists, the placeholder of an approved or rejected
request is closed, and an order waits only as a placeholder. `Taken`: an order sent for a request is at the broker. Without `Booking`
a second handler could book the same order and `TerminalRowsStay` would not be
preserved; without `Fresh` a new request could already be linked or sent for.

`OrdersStandForApprovals` counts: an approval adds one to `approves` and one
handler to `Sending`, a send moves the handler's order from one set to the other.
`FiniteAssumption` is used for the cardinalities.

The refinement needs `Serial`, that a request with a decision under way is
still undecided and has one decider; it is inductive only without `Overlap`. Each
action then maps to a step of `ApprovalDecision` or to a stutter (`DecidesPromise`
to `CancelsPromise`). With `Overlap` the refinement fails, as `rejected` shows,
while the first five theorems hold all the same. `GateHolds` is the run `gated`
for any number of approvals: what the gate holds is never sent, as long as the
strategy keeps its `requires_approval` (a request keeps the flag it was made
with in the model; switching the flag off is the only way such an order gets to
the broker). `RejectedIsNotPlaced` uses the
refinement: every step of the promise keeps it (`PromiseSendsOnce`) that only an
approved request has an order, and one, so the workflow keeps it too. It is the
complement of the run `rejected`: overlap is all that breaks it.

## 4. Market data

`MarketData.tla` models `StreamHub`, the pumps of `/ws/market`, `OhlcvWriter`
and the start and shutdown of both in the lifespan.

### 4.1 Correspondence

A tick is its number in `feed`. `chan` and `queue` are the hub's channels, seen
from the subscribers; `pump` is what a WebSocket subscription does. `writer` is
the await the `OhlcvWriter` has reached; `minute`, `bar` and `first` are its
`bars` (the minute, the ticks, the first tick of each), `stored` and `opened`
the rows of `ohlcv_candles`: the ticks high, low, close and volume were computed
from, and the tick the open is of. The upsert replaces the former and not the
latter.

| Code | Actions |
|---|---|
| `StreamingManager._stream_one`, `StreamHub.publish` | `Publish` (one step: nothing in it suspends) |
| `market_ws` (`main.py`), `_pump` | `Subscribe`, `PumpTakes`, `Sent`, `SendFails`, `Unsubscribe` |
| `_on_tick` | `AddToBar`; `RollOver`, then `Flush` or `FlushFails` |
| `stop`, `_flush_all` | `Stop`, `LeaveLoop`, `FlushOneOfAll`, `Stopped` |
| the lifespan's `task.cancel()`, a new process | `Cancel`, `Restart` |

No adapter in the repository implements `stream_ticks`; the ticks it would yield
are an external choice, of any symbol and any minute. Bars a writer held when its
task died are dropped from the model: nothing reads them. A minute is the minute as the
ticks are stamped. The upsert relabels it as UTC without converting it
(`data/streaming/ohlcv_writer.py:111`), which keeps different minutes apart as long
as one time zone stamps all ticks of a symbol; a feed that mixed zones is not modelled.

### 4.2 Runs

| Run | Shows |
|---|---|
| `bars` | `DeliveredInOrder`, `NewestKept`, `CandleIsWhole`, `CandleOfItsMinute` |

Two symbols (their bars are independent, the shutdown writes both), two minutes
(a bar rolls over and back), one client beside the writer, a queue of two, four
ticks (the queue overflows with one taken; a minute is left and entered again)
and one restart at any point. The writer's queue holds at most two ticks, so
loss before the writer is in the run as well: `CandleIsWhole` is about the ticks
it took.

`CandleIsWhole` excludes a minute whose ticks came in two runs (`Split`): then
the second run's upsert replaces the first's values. `CandleOfItsMinute` is what
still holds.

### 4.3 Proofs

For every number of symbols, minutes, clients, ticks and restarts, and every
size of the queues:

| Theorem | Module | Property |
|---|---|---|
| `MarketTypeCorrect` | `MarketDataProofs` | `TypeOK` |
| `HubDeliversInOrder` | `MarketDataProofs` | `DeliveredInOrder` |
| `HubKeepsTheNewest` | `MarketDataProofs` | `NewestKept` |
| `CandlesAreWhole` | `MarketDataProofs` | `CandleIsWhole` |
| `CandlesOfTheirMinute` | `MarketDataProofs` | `CandleOfItsMinute` |

* `HubInv` says of each subscriber what its queue holds (`Served`): at most
  `MaxQueue` numbers, increasing, each due and not yet taken; and of what is due
  and neither queued nor taken, that the queue is full and all in it is newer
  (`OldestDropped`). A publish either appends or drops the head and appends, and
  the dropped number is the smallest there was.
* `CandleInv` is what the stored rows need. `Bars`: a bar holds ticks of its
  minute, and all of them unless they came in two runs. `InTurn`: the tick that
  is taken is newer than all that were used, also while the bar it closed is
  being written; `FlushFails` and `Cancel` may commit that bar, so the statement
  about it must hold in the middle of the write. `Left`: a minute that has ticks
  and is no longer the bar's has been passed, by a tick of another minute or by
  a restart, so that a further tick of it would make it a minute of two runs;
  without it nothing would be known of a bar that reopens a minute. `Rows`: each
  row is as the two properties say, and its open is not newer than what the bar
  of the same minute holds. The ticks a row is *of* are `used`, so loss before
  the writer does not enter.
* The proof has one lemma for a step that uses a tick (`UseTick`, shared by
  `AddToBar` and `Flush`) and one for the upsert (`UpsertFine`, shared by the
  four actions that may commit a row).

## 5. Accounts and broker health

`AccountHealth.tla` models `BrokerHealthMonitor.run_once` with the job that calls
it, and the endpoints that create, update and delete accounts.

### 5.1 Correspondence

`accounts` is the table: `is_active`, whether `health_disabled_at` is set
(`stamped`) and `consecutive_health_failures`. `monitor` is the run: its stage
(the two selects, then the probes), the accounts still to probe, the results and
the rows as loaded. `update` is what each PATCH request has loaded. `failed` is
history: the failed probes since the last success that was committed.

| Code | Actions |
|---|---|
| the two selects of `run_once` | `SelectActive`, `SelectDisabled` |
| `_probe`, `_record_success`, `_record_failure` | `Probe`, and at the commit `RecordSuccess`, `RecordFailure` |
| the commit at the end | `CommitRun`, or `CommitFails` when a row it writes was deleted |
| a crash, an error of the database | `LoseRun` |
| `create_account`, `update_account`, `delete_account` | `CreateAccount`, `BeginUpdate`, `CommitUpdate`, `DeleteAccount` |
| the broker | `BrokerFlips` |

The run loads rows and writes them seconds later. The ORM writes the columns
whose value differs from the loaded one (`Write`), and that is what keeps the
table consistent: `is_active` and `health_disabled_at` are set from the same
loaded row, so both change or neither does. `CommitRun` is one transaction.
The counter is only compared with the threshold, so it is counted up to it.

### 5.2 Run and proofs

`health`: two accounts, one request at a time in flight, the code's threshold of
three, one lost run. Two accounts let a deleted one fail the commit of the other.
`TypeOK`, `NoAccountStranded` (an account is off exactly when the second select
would find it), `DisabledAfterFailures` and the liveness property `Recovers`.

Fairness: weak, of `Monitor`, all the steps of a run. The scheduler starts a run
every interval, at most one at a time, and each statement and probe returns or
raises. Requests, deletions, the broker and lost runs are not fair.

`JobProofs` proves the first three (`HealthTypeCorrect`,
`AccountsAreNotStranded`, `DisabledOnlyAfterFailures`). `RunInv` says what a run
holds: rows in which the two columns agree, and a counter that nobody else
writes and that never exceeds the failures that happened; `StageInv` that only
what was loaded is probed. `WriteRow` is the lemma that writing the changed
columns of one paired row over another gives a paired row.

## 6. Strategies, webhooks and scanners

### 6.1 The minute sweep

`StrategyDispatch.tla` models `StrategyRunLoop.run_once`,
`StrategyExecutor.execute_one`, the job that calls them, the endpoints of
strategies and the deletion of an account, which takes the rows of its strategies along.
A strategy's symbols are a list that may repeat one, as nothing checks
`params["symbols"]`. `sweep` is the run: the lists it read and its place in each.
`request` is what an endpoint will write, computed from the row it loaded.
`allowed` is history: the signals a pair of strategy and symbol may still give
although the table stopped asking for it.

| Code | Actions |
|---|---|
| `run_once` | `StartSweep`, `NothingToDo`, `SkipSymbol`, `FinishSweep` |
| `execute_one` | `ExecuteOne` |
| an error that `run_once` does not catch | `AbortSweep` |
| the endpoints | `Create`, `LoadForEdit`, `CommitEdit`, or `EditFindsNoRow` when the row is gone |
| `delete_account` | `DeleteAccount` |

`execute_one` asks for the row again with `session.get`, but the sweep's session
has it, so the check sees what the sweep read. It builds the strategy object anew
for every candle, which therefore has no memory; whether a candle is found and
whether it gives a signal are choices. An error inside the guarded call is
swallowed and the next symbol comes; one that leaves the session broken ends the
sweep at the next `latest`.

`dispatch`: two strategies, two lists, `<<x, x>>` and `<<y>>`, between which a
request may switch, and two overlapping requests; any number of sweeps may fail
and any account be deleted. `StopsWithinASweep`: after a strategy is stopped, at most
as many signals of a symbol come as the running sweep had visits of it ahead, one for
each time the list it read repeats the symbol, and none after it. `Dispatched`: a
symbol that stays asked for is visited again and again (weak fairness of `Sweep`, the
steps of the job), or sweeps fail again and again: the order of the strategies is
the database's, so one error that recurs can starve whoever comes after it.

`StrategyProofs` proves `DispatchTypeCorrect` and `StoppedStrategyStops` for any
number of strategies, lists and requests. The invariant `Covered` says that a pair
the table does not ask for is allowed at least the visits the sweep still has of it;
`StopsWithinASweep` itself is not inductive, since it says nothing of these.

### 6.2 Signals from outside

`SignalIntake.tla` models webhook deliveries of all six kinds of source, the runs
of scanners, and the endpoints that promote, acknowledge and dismiss a result.
A delivery is one request: `signals` in its payload, how many of them `reached`
the broker or became a request, how many a commit has `recorded`, and its event
row as the session holds it (`session`) and as it is committed (`event`). A call of a scan-result endpoint has loaded
the status of its row; `requests` are the approval requests that promotions have
made of a result. `answered` and `reopened` are history.

| Code | Actions |
|---|---|
| resolving the token, `session.add(event); flush()` | `Receive` |
| `execute_signal_directly` | `AskApproval`, or `SendSignal` (the broker's answer) and `CommitSignal` |
| an error anywhere | `DeliveryFails` |
| `event.status = PROCESSED; commit()` | `CloseEvent` |
| `ScannerRunner.run_one` | `ScanRun` |
| `ScannerPromoter.promote` | `LoadToPromote`, `PromoteNothing`, or `PromoteCreate` and `PromoteCommit` |
| `set_result_status` | `LoadToMark`, `Mark` |
| errors, a restart | `CallFails`, `Crash` |

`intake`: one source, one delivery of up to two signals, three calls on one result,
one failure or restart. One delivery is enough because deliveries share
nothing; three calls are two promotions and one that overwrites the mark in between. `EventTellsSignals`: the
event row rides along with the first signal's commit and is closed after the
last. Wherever the delivery ended, the row says whether all, some or none of its signals
are recorded, and at most one went out that is not: the order the broker took before a
failure rolled back the row, and with the first signal the event too. That
order is the hazard of `NoSilentOrphan`, seen from the webhook. `PromotedLeadsToRequest`
and `PromotedOnce`: a promoted result has its request, and after an answered
promotion there is no second one unless a call overwrote its mark. Two promotions
that overlap, or one cut between its two commits, do make two requests; the
properties say that much and no more.

`IntakeProofs` proves all four (`IntakeTypeCorrect`, `EventsAreTrue`,
`PromotionsLeadToRequests`, `AnsweredPromotionsAreNotRepeated`). `MarkInv` is the
step that matters: an answered promotion has left its mark or the overwriting is
on record, so a later promotion that passed the check found it overwritten.

## 7. Long-lived tasks

### 7.1 Streaming manager

`StreamingManager.tla` models the supervisor of the broker streams. `loop` is where
`run` is and what `_reconcile` has read (the accounts, then each account's positions
and, by a second statement, its strategies), `task` is `_broker_tasks`, `app` the
lifespan. `wanted` holds the wishes there are, triples of an account, a symbol and the
source that asks for it, `live` counts the unfinished tasks that exist, `steady` holds
the wishes of active accounts since the reconciliation began, `late` the ticks published
after the shutdown.

| Code | Actions |
|---|---|
| `run`, `_reconcile` | `Begin`, `ReadPositions`, `ReadStrategies`, `Start`, `Wake`, `ReconcileFails` |
| `_stream_one` | `Publish`, `StreamEnds` |
| `stop`, the lifespan | `Stop`, `CancelRun` |
| the users, fills | `ChangeAccount`, `ChangePosition`, `ChangeStrategy` |

`streams`: two accounts of one broker, two symbols, one failed reconciliation,
and a shutdown at any point. `Wishes` bounds who may ask for what: the first account may
hold and watch the same symbol and watch another, the second may hold that one. Two accounts of one broker are what the
grouping by broker needs; brokers share nothing else. Its `TypeOK` contains that the table knows every
unfinished task and that no broker has two. `StartsComplete` (action property):
a new stream has every symbol that a position, or the strategies of an account, asked
for all along, although accounts, positions and strategies are read one after
the other. The two statements are not one snapshot: a symbol that goes over from a strategy to
a position between them is asked for throughout but by neither source, and the new stream may
lack it, until that stream ends. A running stream gets no other symbols either. Both are
outside what the property promises. `StopsForGood`: after the shutdown no stream
starts, and one that a reconciliation started during it publishes at most one
tick. `StreamsRecover`, under weak fairness of `Supervise` (each await of the
supervisor ends, at the latest by its timeout): a symbol that one source goes on
asking for gets its broker a stream again and again.

`StreamingProofs` proves the first three (`StreamsTypeCorrect`,
`StreamsStartComplete`, `StreamsStopForGood`) for any number of accounts, brokers and
symbols. `ReadInv`: what has been asked for since the reconciliation began is
still asked for, and once its source has been read it is in the list the stream
will be started with; it carries the argument over the reads that lie between.
`EndInv`: when the application is down the supervisor has ended, and a stream
that has published since is finished, so it publishes no second time.

`run`'s docstring (`data/streaming/manager.py:50-51`) says that subscriptions are
recomputed and streams restarted as needed; a broker whose stream is running is
left alone, so symbols added later wait until it ends. `StartsComplete` is what
holds.

### 7.2 Telegram listener

`TelegramListener.tla` models `TelegramBotListener` together with the parts of
Telegram it relies on: an update is delivered until a `getUpdates` carries a
larger offset (`confirmed`), and the offset is kept in memory. A tap decides an
approval in one commit and places the order after it; the web application and
WhatsApp decide the same approvals (`WebLoad`, `WebCommit`).

| Code | Actions |
|---|---|
| the poll | `Poll`, `PollFails`, `BatchDone` |
| `_handle_message`, a tap of an unknown chat | `TakeOther` |
| `_handle_callback` with `approve` or `reject` | `TakeTap`, `Refuse`, `MarkExpired`, `Reject`, `Approve`, `Place`, `CommitFails`, `AnswerLost` |
| lifespan | `Restart` |
| users and clock | `Send`, `Expire` |

`telegram`: three updates for one approval, two faults. Three taps are two that
conflict and a repetition; approvals share nothing but the order of
updates. `ForgottenIsHandled`: Telegram never forgets an update whose handler did not
end, though the offset moves before the handler starts, since it takes another
poll to confirm it. `CalledOnce`: taps that are repeated and updates that are
delivered again place one order; only a restart between the commit and the call, or a
commit that is applied while its answer is lost, leaves an approval without one. `Handled`, under weak fairness of `Listen`
(each await of the listener ends): every update is handled in the end.

`TelegramProofs` proves `ListenerTypeCorrect`, `NoUpdateIsLost` and
`TapsCallOnce` for any number of approvals, updates and faults. `OrderInv`: all
updates before the current one are handled, and what is confirmed lies below it.
`DecidedInv`: what the listener approved never shows as pending again.

### 7.3 Instrument sync

`InstrumentSync.tla` models `InstrumentSyncService.sync_broker`, the daily job that
calls it for each broker with an active account, and the endpoint that lets an
administrator start it. `Contract` gives each version of a broker's master contract:
the files it is published in, each a sequence of instruments. Versions gain and lose
instruments, and a contract may be empty: the paper adapter yields nothing, and so
does Fyers'. `row` is the version that each instrument was last upserted from, `status`
the broker's status row. A task knows its file and its place in it, the records it has
upserted and not committed (`held`), whose rows it holds, and the status its session has
loaded (`seen`). `got` is history: the records of the last complete download that
was committed.

| Code | Actions |
|---|---|
| `sync_job` | `StartJob`, `SkipBroker`, `AdapterFails`, `EndJob` |
| the download (Upstox fetches two files) | `Begin`, `FetchFile`, `Upsert`, `DownloadEnds`, `DownloadBreaks` |
| `_update_status`, the commits | `Commit`, `CommitCollides` |
| faults | `DeadlockVictim`, `DatabaseFails`, `Restart` |
| brokers, users | `Publish`, `ChangeAccount` |

What the code does and the model keeps: no row is ever deleted, so instruments
that a contract has dropped keep their old rows beside the new ones, and a broker that yields
nothing is shown as synchronised; a download that breaks commits what it
has upserted; two files of one download may come from two contracts; the status is
written only when it differs from the loaded one, so a
later sync may leave a `failed` that another has written meanwhile until the next day's; a slow sync of an
older list may overwrite a newer one; two first syncs of a broker both insert
its status row and one fails; two sessions that take rows in different orders
deadlock; an error of the database leaves the job's session
in a state in which every later broker fails too.

`instruments`: two brokers, two versions. The first broker publishes two files whose
instruments the second version swaps, so that sessions take rows in opposite
orders and a download over both versions lacks an instrument; the other yields
nothing. Faults are not bounded. `OkMeansComplete`: a broker shown as
synchronised has every record of its last complete download as that download had it;
a part of a download that overlapped, broke or is older never replaces one under the
status `ok`. It says nothing of rows that the download did not have: those of dropped
instruments stay, and after an empty download all of them are such rows.
`CatchesUp`: the records of the newest contract come and stay in the table of a
broker that keeps an active account, and it is shown as synchronised, unless faults
recur for ever. Fairness: weak of the job (the schedule comes round again), strong of
the steps of each sync: each await ends, and PostgreSQL grants a row to its waiters in turn,
though others may take it again and again. Nobody has to ask for a sync.

`JobProofs`, which also holds the proofs about the other job that writes rows it
read earlier (5.2), proves `CompleteDownloadsAreKept` for any number of brokers and
any contracts. The invariant says that two tasks never hold the same row
(`Apart`), and that a broken download which found the status `failed`, and so would
not write it, holds no record of a complete download that was committed
meanwhile (`Harmless`): a complete one that commits beside it has waited for, or
kept it from, every row they share.

## 8. Divergences met

Kept as a run, with the text it contradicts in PROJECT.json: `rejected` (a
rejected request whose order is at the broker) and `gated` (approving what a
strategy that requires approval has asked for places nothing).

Reachable in the models, where the properties are stated so as to allow them:

* Two concurrent fills of one symbol: the second overwrites the first in
  `positions`. Two concurrent smart orders for one target both send the whole
  distance.
* An atomic basket that fails at a later leg leaves the earlier legs at the broker.
* `accepted` is booked as filled while the broker's order is open.
* A late tick reopens a minute, and its bar replaces the stored candle.
* The first order of an empty account, and closing a concentrated position, are
  refused by the concentration check; two orders that fit one by one exceed it
  together.
* A non-atomic basket does not report a leg whose `refresh` failed.
* An approval that finds its request expired overwrites a decision committed
  meanwhile; two overlapping approvals place two orders.
* An order created for an approval may be cancelled by the client while the
  request stays pending and can still be approved.
* `cancel_order` marks a row cancelled although the broker refused, and a row
  booked as pending is never asked after again.
* Dismissing a promoted scan result succeeds and loses the mark.
* A symbol that a strategy's list repeats is executed as often in one sweep.
* A promotion that fails between its two commits, or overlaps another, leaves a
  second request for its result.
* An instrument that a newer master contract has dropped keeps its row, and a broker
  whose download is empty is shown as synchronised.

## 9. Limits

### 9.1 Only model-checked

Liveness under fairness and `ENABLED` are out of the prover's reach:
`EveryRequestEnds`, `CancelAllEnds`, `Recovers`, `Dispatched`, `StreamsRecover`,
`Handled`, `CatchesUp`. For the first, its two reasons are proved (2.4) and fairness
is what TLC adds. Every invariant and action property that a passing run checks is
proved; `rejected` and `gated` are counterexamples. No module declares a `RECURSIVE` operator;
the folds of the community modules take its place, and a least counterexample the
place of an induction.

### 9.2 Not modelled

* Code the program never reaches. Nothing calls `CapitalRingfence`, the tick aggregator and the
  protections. The regime job passes the account id `"system"`, which no UUID
  accepts (`infrastructure/jobs.py:269-280`), and the peak its lock depends on is
  never stored (`core/execution/regime_executor.py:408-414`). The square-off job
  builds its object without the account and calls a method that does not exist
  (`jobs.py:333-334`); the rebalance and SIP jobs pass arguments their
  constructors do not take (`jobs.py:306-311`, `356-357`). Each job catches the
  error and logs it. A model of these parts would check code that no state of the
  program gets to.
* Synchronising positions and holdings of an account with the broker: its writer
  is the broker's book, which the models do not keep per position.
* Token issue and rotation: one or two commits on rows of their own. The second
  use of a refresh token between the two is listed as a hazard.
* Pure computation (indicators, options, valuation, backtests, ML, the
  portfolio's tax, Kelly and Monte Carlo tools, reports) and pure input and output (broker adapters, news,
  LLM calls, REST, gRPC and MCP marshalling, the frontend, SDKs, deployment).
  These make up most of the repository's lines, which is why the models stand for
  a small share of them: they stand for the parts that keep state which several
  actors change.
* Inside the modelled parts: prices, average cost and realised P&L, validation of
  formats, audit contents, authentication of callers, the texts of messages.
