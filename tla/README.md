# TLA+ verification of cex_arbitrage

The repository is a trading engine for arbitrage between centralised exchanges
(MEXC, Gate.io spot and futures), a single Python process on asyncio. Coroutines
interleave at every `await`; everything that can go wrong between two pieces of its
state goes wrong there. This directory holds TLA+ modules of its core, TLC
configurations that check them on small instances, and TLAPS proofs of the properties
that matter most. Paths below are relative to the code's root, `src/src/` in `PROJECT.json`.

## 1. Inventory

| Component | State | Operations | Interacts with | Hard behaviour | Correct when |
|---|---|---|---|---|---|
| **Order store** of the private composite (`exchanges/interfaces/composite/base_private_composite.py`) | `_orders`, `_balances` | place, market place with fetch, cancel, fetch, fetch from trades, reload; websocket handlers | REST and websocket clients below, position managers above | answers, websocket updates and reloads overtake each other; the connection is lost | nothing is invented; open orders stay known; what is finished becomes and stays finished |
| **Position manager** (`trading/strategies/implementations/base_strategy/position_manager.py`, `position_data.py`) | `_last_order`, quantity, side, filled amounts | market, trailing limit, cancel, sync, set side | order store; the strategy's step, pause/cancel/stop, the other leg's fill callback | fills race cancels; several coroutines; lost answers | every fill counted once, the position equals what was traded |
| **Websocket manager** (`infrastructure/networking/websocket/ws_manager.py`, `exchanges/interfaces/ws/ws_base.py`) | state, queue, attempt counter, three tasks | initialize, connection loop, reader, message loop, send, close | exchange clients (connect, authenticate, subscribe) | reconnection, backoff, a full queue, close during connect | reconnects while it may, ends when closed, delivers in order |
| **REST client and retry** (`infrastructure/networking/http/base_rest_client.py`, `infrastructure/decorators/retry.py`, `exchanges/interfaces/rest/base_rate_limit.py`) | attempts, semaphores, last request time | request, close | every REST call | retried placements, nested retries, cancellation, limits | no order without a send that explains it; permits come back |
| **Strategy tasks** (`trading/strategies/strategy_manager/`) | tasks, symbol locks, files active/completed/error | add, step, save, complete, recover, shutdown | strategies; file system | crash between rename and cleanup; failed saves | a finished task never runs again; no saved state is lost |
| **Legacy task manager** (`trading/task_manager/`) | the same, older | the same | legacy tasks | the same | the same |
| **Asset transfer** (`.../cross_exchange_arbitrage_strategy/asset_transfer_module.py` and its task) | transfer request, role, positions | initiate, update, credit, recover | two exchanges, task manager | crash after submit; failed withdrawal; delayed deposit | no withdrawal is forgotten; the hedge covers what is owned |
| **Inventory strategy** (`.../inventory_spot_strategy/`) | step, setup, two positions | manage, rebalance, execute, fill callback | position managers | one leg fails; callback during the other leg | legs stay balanced |
| **Multi spot futures base and tasks** (`.../base_strategy/`, `.../spot_futures_task/`, `.../cross_exchange_arbitrage_strategy/`, `.../maker_limit_delta_neutral__simple_strategy/`) | positions per leg, PNL | step, pause, cancel, stop, rebalance hedge | position managers, asset transfer | control operations during a step; partial hedge | delta neutral after a step |
| **Iceberg task** (`trading/tasks/iceberg_task.py`) | filled total, current slice | place, cancel, fill | private composite | failed cancels, minimum size | total never exceeded, none lost |
| **Legacy tasks** (`trading/tasks/`) | state machines | step per state | private composites | as above | as above |
| **Public composite, order books** (`exchanges/interfaces/composite/base_public_composite.py`, `common/`) | book tickers, sorted books | snapshot, diff, update | websocket, REST | an older snapshot over newer data | books sorted, newest wins |
| **Futures composite** (`.../composite/futures/`) | contract sizes | convert, place, close | order store | in-place conversion | converted once |
| **Balance sync**, **event binding**, **task utilities** | background task, handler tables | start, stop, publish | all | start/stop races | one task at a time |
| **Exchange clients** (`exchanges/integrations/`) | - | message formats | REST, websocket | MEXC's orders rebuilt from trades | what they report is true |
| **Data collector and database** (`applications/data_collection/`, `db/operations.py`, `db/database_manager.py`) | cache of records, keys of trades, symbols, tables | handle, save, create symbol, start, stop | public composites, PostgreSQL | records arrive during a save; failed batches; duplicates; restarts | no record is lost or stored twice without a reason |
| **Logging, signals, rebalancer, tools, configuration** | - | input and output, numerical statistics | - | - | outside the scope of the models |

The hazards, each with its line and the properties that cover it, are in `PROJECT.json`.

Coroutines share all of this state without locks (the only lock is one per symbol in the
strategy task manager). A coroutine's code between two `await`s is atomic; an action of a
module is one such piece.

## 2. Modules

| Module | What it is |
|---|---|
| `OrderStore` | `_orders` with all its writers, the exchange, the websocket feed |
| `MCOrderStore` | the instance TLC checks |
| `OrderStoreProofs` | theorems about `OrderStore` |
| `PositionManager` | one position, its manager, the exchange, the coroutines that use it |
| `MCPositionManager` | the instance TLC checks |
| `PositionManagerProofs` | theorems about `PositionManager` |
| `LossyFeed` | abstract: what the reader of a websocket is promised |
| `WsManager` | the websocket manager, its three tasks and its subscriptions |
| `MCWsManager` | the instance TLC checks |
| `WsManagerProofs` | theorems about `WsManager`, among them that it implements `LossyFeed` |
| `AtLeastOnce` | abstract: what a failed REST call leaves open |
| `RestClient` | calls of one client: permits, the two retry loops, cancellation, close |
| `MCRestClient` | the instance TLC checks |
| `RestClientProofs` | theorems about `RestClient`, among them that it implements `AtLeastOnce` |
| `StrategyTasks` | the task manager, its tasks, their files, crashes and recovery |
| `MCStrategyTasks` | the instance TLC checks |
| `StrategyTasksProofs` | theorems about `StrategyTasks` |
| `AssetTransfer` | the cycle of the cross exchange task with its transfers |
| `MCAssetTransfer` | the instance TLC checks |
| `AssetTransferProofs` | theorems about `AssetTransfer`: its requests and its monitor |
| `AssetExposureProofs` | theorems about `AssetTransfer`: its positions and its balances |
| `Collector` | the data collector, its scheduler, and the database's batches |
| `MCCollector` | the instance TLC checks |
| `CollectorProofs` | theorems about `Collector` |

The modules are composed by what one assumes and another shows. `WsManager` carries the
`feed` of `OrderStore`, `PositionManager` rests on what is proved of `OrderStore`, all REST
calls go through `RestClient`, and `StrategyTasks` steps the tasks and saves their contexts:

* `OrderStore` assumes that updates are handled in order, each at most once, and that the
  handler goes on being called: `ImplementsFeed` and `QueueIsServed` of `WsManager`. A loss
  of queued updates by overflow needs as many waiting messages as the queue holds
  (1000) and is left out of `OrderStore`; a loss with the connection is in it.
* `PositionManager` assumes that an answer is a state the order had and that only a done
  order is missing from the store. These are theorems about `OrderStore`, in the words of
  `PositionManager` (its operators `Had`, `Since` and `Unknown`, taken by `INSTANCE` with one
  exchange for both): `StoreServesTheManager` of a look into the store, `FetchServesTheManager` of
  `fetch_order`, `MissingMeansDone` of the choice between the two.
* `OrderStore` and `PositionManager` let a failed call have had its effect or not, and count
  one order per placement. The first is what `ImplementsAtLeastOnce` promises. The second
  is an abstraction: `AttemptsBounded`, proved but in no run, says how many orders one placement may become, nine with
  the three attempts of both levels. The orders beyond the one that is answered are of
  nobody's knowledge, as the order of a failed placement is, which `PositionManager` has.
* Every await of a REST call ends (fairness of `OrderStore`, `PositionManager`,
  `AssetTransfer`) by `CallsReturn`, as long as cancellations do not leak all permits of an
  endpoint.
* `AssetTransfer` saves its context where `StrategyTasks` does, after a step whose context
  has its flag set; that a save keeps the newest version is `SavesKeepNewest` there.

### OrderStore

`store` is `_orders`, `truth` is the exchange (external), `feed` the order updates sent on
the private channel and not handled yet, `call[c]` what coroutine `c` awaits. An order is
reduced to whether it is done and how much of it is filled, counted in units of the
smallest fill.

A REST call is two or three actions: the request (`PlaceLimitOrder`, `FetchOrder`, ...),
the exchange's answer where it is not given at the request (`AnswerOrderQuery`, ...), and
the coroutine that resumes with it (`PlaceReturns`, `FetchOrderRest`, ...). Between them
anything else runs. `CallFails` is every other exception: the request may have had its
effect on the exchange or (for a query) none, and the store stays.

* `OrderHandler` is `_order_handler`; `UpdateOrder` and `RemoveOrder` are
  `_update_order` and `remove_order`, whose bodies are one assignment each.
* `PlaceLimitOrder`, `PlaceMarketOrder`: the exchange accepts an order in any state of
  `Accepted` (matched at once in part or in whole, finished if the rest may not wait), and
  `PlaceReturns` stores the answer as it came, with status and fill.
* `CancelOrder`, `CancelReturns`: a state updates the store; if the exchange knows the order no
  more (`OrderNotFoundError`) it is removed and fetched. Of an order that is closed Gate.io's
  client asks for the order, and may get none.
* `FetchOrderRest`: an order that is not found is removed on MEXC, whose client raises; Gate.io's
  returns `None` and the store stays.
* `FetchOrderFromTrades`: on MEXC an order is rebuilt from its trades (`TradesToOrder`),
  always as a filled one; without trades the stored order is kept, without one the order
  itself is fetched; not found, it is removed.
* `LoadReturns`, `LoadNextTrades`, `LoadTradesReturn`: `_load_open_orders` with its copy
  of the open orders taken before the request. On MEXC its loop awaits the trades of one
  order after the other; the orders of the answer are processed in any order, and one that is
  not found leaves the store before it is taken from the answer. Gate.io's client answers a
  request for all symbols with no order at all (`NoOrders`).
* `WsDrop` loses any suffix of `feed`. `WsConnect` resubscribes and refreshes nothing:
  `connection_loss` and `_on_websocket_connected` have no caller.

The module has the spot accounts (`MEXC`, `GATEIO`); the futures composite has the same store
and other answers, which `PositionManager` assumes. Bound: `MaxDrops`, how often the connection
is lost.

### PositionManager

`pos` is `PositionData` (quantity, side, filled amount per side), `last` is
`_last_order`, `balance` the base asset available on a spot account. `counted` and `base`
are history variables: how much of each order went into the position, and the position
before any of it (`None` when an operation without a fill gave the quantity another
sign, from which on there is no ledger to keep).

The module does not repeat the order store. A request is answered with any state the
order store's theorems allow: a state the order really had, not older than the moment of
the request (`Since`), and on MEXC possibly a partial fill that looks filled (`Had`); an
order that is missing from the store is done. That is proved of the spot accounts and assumed
of the futures account.

Whether an order is done is a question to the exchange (`done` in `truth`) and another one to
its report. `LooksDone` is `is_order_done` of the latter: a futures order that finished
part-filled is reported `PARTIALLY_FILLED`, which is not done, so that the manager goes on
tracking it for ever. `MayLookOpen` and `IsFilled` say what else the status maps make of a part-filled
order; where the code asks for the status, the model asks these.

* `Track` is `_track_order_execution` with `update_position_with_order`: an update with
  less filled than the last order is skipped, otherwise the difference is added and the
  order becomes the last one, or none if it is done. Ids are not compared, as in the code.
* `Send`, `Refuse`, `PlaceReturns`, `MarketReturns`, `AdjustToBalance`: `place_order`
  with the handler of `InsufficientBalanceError`. An order is accepted in any state of `Accepted`.
  `PlaceReturns` tracks the answer of a limit order as it came, fill included; a market order is
  fetched after it was placed, with an await in between, and may not be found (`MarketReturns`).
  `LimitPlaced`: what `place_limit_order` of the futures composite sends is such a market
  order, fill-or-kill. The model does not rely on the exchange filling or killing it as a whole.
* `SendCancel`, `CancelReturns`, `CancelFetchReturns`: `cancel_order` and the fetch it
  falls back to, when the request failed or the answer does not look done. `then` carries the side
  that `place_trailing_limit_order` goes on to place, unless the order passes for filled (`Reprice`,
  `AfterCancel`, `PlaceRepriced`).
* `SyncFromStore`, `SyncFromExchange`, `SyncReturns`: `sync_with_exchange`.
* `SetSide`: `set_side` as the inventory strategy calls it.
* `CallFails`: a lost answer, as each of the code's `except` clauses treats it.

Parameters: `Ops` (the operations used), `Faults` (what may go wrong: lost answers,
forgotten orders, refused margins), `Exchanges`. Bound: `Holding`, what the account holds
at the start. All orders have the same quantity `Qty`.

### WsManager

Three tasks and their callers share the state of a `WebSocketManager`. Each task is a
program counter that says what it awaits (`loop`, `reader`, `msgLoop`); an action is the
code from one `await` to the next.

* Connection loop: `LoopStarts`, `ConnectSucceeds`, `ConnectFails`, `ResubscribeChannel`,
  `Resubscribed`, `ReaderReturned`, `ReaderRaised`, `BackoffEnds`. `HandleConnectionError`
  is its exception handler: it backs off, or gives up after `max_reconnect_attempts`.
  A reader that returns is followed by the next connection at once, one that raises by a
  backoff.
* Reader: `ReaderStarts`, `OnRawMessage` (with `Room`, the overflow), `OnReaderError`.
  The error handler resubscribes on the dead socket, which raises again, unless nothing is
  subscribed.
* Message loop: `MessageLoopStarts`, `ProcessMessage`, `MessageHandled`, `GetTimesOut`.
* Callers: `Initialize`, `Subscribe` and `SubscribeSent` (of the private interface),
  `Close`, `Closed`. After `Close` every task gets a cancellation (`LoopCancelled`,
  `ReaderCancelled`, `MessageLoopCancelled`) that it may swallow as the code does.
* Server: `SocketDies`. Messages are numbered as they are put into the queue.

Left out: authentication (the `_auth` of every exchange returns `True`), the length of
the backoff, heartbeats and listen keys, `unsubscribe` (no caller), and the state `ERROR`,
which is left before the next `await`. A second `initialize` is a no-op while initialized,
and after `close` it fails, because the task manager stays stopped: both change nothing.
Bound: `MaxMessages`.

### RestClient

A call of `request()` is a program counter `pc[c]` that says what it awaits, and the attempts
of the two decorators it is in: the exchange's (`outer`, `mexc_retry` or `gateio_retry`)
around the base class's (`inner`). Every attempt takes a permit of its own.

* `AskPermit`, `RejectPermit`, `AcquireGlobal`, `GlobalDelayEnds`, `AcquireEndpoint`,
  `EndpointDelayEnds`: `acquire_permit` from await to await. An endpoint has a semaphore only
  if it is listed as it stands, while its limits are looked up by prefix.
* `Succeed`, and a failure with one of `Errors` as one of `RepeatInside`, `RepeatOutside`,
  `GiveUp`. The base class repeats what failed to connect or timed out and the rate limits;
  the exchange's decorator these again and the server errors (5xx). An order may thus be sent
  nine times. Refusals by the exchange are never repeated, nor are answers that cannot be read.
* `CancelWaiting`, `CancelInPermit`, `CancelInEndpointDelay`, `CancelSent`: a cancelled
  caller, by the await that it is in. In the delay after the endpoint's semaphore was taken the
  handler returns the global permit only; `leaked` counts such permits.
* `Close`: the forced release. It serves each waiter of the global semaphore, who then goes
  on to open a new session and to send, and later releases raise the value beyond the
  limit. The endpoints' semaphores are not released: the code asks for an attribute
  `_initial_value` that semaphores do not have and so compares a value with itself.
* The exchange (external): a request whose answer does not tell what happened (`Uncertain`)
  is executed later or never (`ExecuteLate`).

Bound: `MaxCancels`.

### StrategyTasks

`loop` is the execution loop of the manager, `status`, `version` and `flag` the contexts in
memory, `active` and `errored` the files of each task, by the version of the context they hold.

* `SaveContext` is `save_context`. It runs without an await, so that only a crash
  (`CrashInSave`) or an exception shows it half done: `Store` has its stages.
* `RoundStarts`, `Acquire`, `StepEnds`, `RoundEnds`, `RemoveFinished`, `CollectEnds`: one round
  of `_execution_loop` over all tasks, with a lock per symbol and the removal of the tasks that
  were cancelled when their step ended.
* `AddTask`, `Pause`, `Cancel`, `ContextChanges`: callers and fill callbacks, at any await. A
  context changes with or without asking for a save (`AskForSave`): a tracked fill asks; `set_side`, what
  `initialize` loads, the status of a transfer, an adjusted quantity and `update` do not. `asked` is the
  version for which a save was last asked, a history variable.
* `Start`, `RecoverTask`, `TaskStarts`, `TaskStartFails`, `RecoveryEnds`: recovery.
* `Stop`, `LoopEnds`, `StopTimesOut`, `StepIsCancelled`, `CancellingEnds`: `stop`.

What one learns from it of the code, and what the properties except for that reason:

* `TASK_TYPE_MAP` has the classes' names, the tags have the contexts' types: in this tree
  nothing is recovered. `Recoverable` is a parameter, empty there.
* `start()` of a task ends by making it active, whatever was asked of it meanwhile: a pause
  or a cancel during it is overwritten, a paused task is active after a recovery. A task that
  was cancelled when its step ended and is started before it is collected is removed active.
* `stop` saves nothing: changes since the last save are lost, as in a crash. After five
  seconds it cancels the steps, which takes their tasks out of recovery (`ActiveFileStays`).
* A failed save is not repeated until the context asks for a save again.
* A change that does not ask for a save is on disk only if another one asks after it, so that
  `FileIsCurrent` speaks of the version in `asked` and not of the newest one.

Bounds: `MaxVersion`, how often a context changes; `MaxFaults`, crashes and failed saves.

### AssetTransfer

`pc` is where the task is in its step, `role`, `pos` and `request` its context, `saved` the
context on disk, `base` and `chain` the two exchanges (external): what is available there, and
the withdrawals with their deposits. Base is counted in lots; what the properties are about
is where the lots are.

* `WaitForTransfer`, `HandleCompleted` and `Credit`, `CreditFails`, `GiveUp`, `Initiate`,
  `Submit`, `SubmitFails`, `Execute`, `Answered`, `AnswerLost`, `NothingToTransfer`:
  `_manage_transfer_between_exchanges` from await to await, with `transfer_asset`.
* `AskWithdrawal`, `AskDeposit`: `update_transfer_request`, by `start` and by the monitor.
* `Buy`, `Sell`, `Refused`, `NoTrade`, `Rebalance`, `Save`: the rest of a step. A market order
  fills one lot at a time; its answer may be lost. `InsufficientBalanceError` makes the
  position pass for fulfilled, so that the transfer goes ahead with what there is.
* `Start`, `Load`: `start` with `_load_initial_balances`. Nobody instantiates the task in
  this tree (its line in `TASK_TYPE_MAP` is commented out); recovery is what `start` and the
  saved `transfer_request` are written for.
* `Send`, `WithdrawalCompletes`, `WithdrawalInTrouble`, `DepositAppears`, `DepositCompletes`,
  `DepositInTrouble`: the exchanges. A held transfer may still go through.

`strayed` marks the runs after which the code itself no longer knows what it owns: a lost
answer or order, a transfer given up, a restart. `ExposureIsOwned` and `NothingLeftBehind` except
them, for these reasons:

* a restart loads the available balances into the positions, so that a completed deposit is
  counted in the balance as well as in the request; a balance of nothing leaves the saved
  position as it was; the target is set anew, so that a position may pass for fulfilled;
* a withdrawal in manual review or cancelled, or a deposit that is locked or in manual review,
  counts as out of progress; the transfer is given up and may arrive all the same.

Not a property, because the code does not have it: that every transfer ends. A failed
withdrawal leaves the deposit pending and the transfer in progress for ever.

Bounds: `MaxWithdrawals`, `MaxFaults`.

### Collector

The collector is a process of its own. `cached` is the three lists of its cache, `last` the
quotes that new ones are compared with, `turn` and `inserting` where `_save_data` is, `batch` what
its transaction inserts, `seen` the cache of keys of `db/operations.py`; `symbols`, `rows` and
`stored` are the database. Records are model values with a market, prices or a millisecond.

* `Deliver`, `SymbolCreated`, `SymbolFails`: the handlers. If the symbol is known, a handler does
  not wait; otherwise it awaits the new row (`creating`). When two of them create the same
  row, the constraint of the table lets one fail and its record is dropped.
* `Wake`, `NothingToSave`, `StartQuotesOrRates`, `StartTrades`, `Commit`, `Saved`,
  `InsertFails`: `_save_data` from await to await. The block after an insert clears the whole
  list, whether the insert succeeded or not.
* `StartTrades` is `insert_trade_snapshots_batch` up to its transaction: it drops the keys that
  are old (`Aged`), leaves out the trades whose key is known, remembers the others (`Marks`) and
  keeps one trade of each key. Their list is a set here, so that which one stays is left open.
* `Start`, `Initialized`, `Stop`, `Close`, `Crash`, `Age`: the process and the clock. A stop
  cancels the scheduler, in its transaction if it is in one, and `close` clears the cache
  without a last save. Nothing but the database outlives the process.

Left out: two quotes or rates with one key (their time is that of their handling, in
microseconds), the choice of the database's connection, an update of the symbol table by others.

`calm` is false once something happened that the code answers by losing records: an insert or
the creation of a symbol failed, a process ended with records in its cache, or a record arrived
while its list was being saved (section 4). `CalmLosesNothing` says that these are all.

Bounds: `MaxAgain`, how often a trade is delivered again; `MaxFaults`, failures and crashes.

## 3. Runs

| Run | Expect | Shows |
|---|---|---|
| `order_store` | pass | `TypeOK`, `AllIsGenuine`, `RemovedOnlyWhenDone`, `FinalUpdateLands` |
| `order_store_late_answer` | violation | `FinalUpdateLasts`: a late answer reopens a finished order |
| `order_store_reload` | violation | `ReloadPublishesFinished`: a reload publishes the old state |
| `order_store_mexc` | violation | `DoneMeansDone`: a partial fill on MEXC looks filled |
| `position_manager` | pass | `TypeOK`, `NoOvercount`, `Ledger` with every operation and every fault |
| `position_limit_leg` | pass | `TrackedIsCounted`, `SettledIsExact` of trailing limit orders whose calls are answered |
| `ws_manager` | pass | `TypeOK`, `SubscriptionsAreLive`, `ImplementsFeed`, `ConnectsOrGivesUp`, `QueueIsServed`, `CloseReturns` |
| `rest_client` | pass | `TypeOK`, `PermitsAccounted`, `CloseServesWaiters`, `EffectsExplained`, `ImplementsAtLeastOnce`, `CallsReturn` |
| `strategy_tasks` | pass | `TypeOK`, `FileIsCurrent`, `FinishedStaysFinished`, `SavesKeepNewest`, `ActiveFileStays`, `CancelledLeaves`, `EveryTaskIsStepped`, `StopReturns` |
| `asset_transfer` | pass | `TypeOK`, `ExposureIsOwned`, `NothingLeftBehind`, `TransferIsTracked`, `GivenUpHadTrouble`, `CreditedHasArrived`, `ArrivedIsCredited` |
| `collector` | pass | `TypeOK`, `RowsExplained`, `SeenIsStored`, `CalmLosesNothing` |
| `position_two_callers` | violation | `NoOvercount` with a second coroutine |

**Bounds.** `order_store` has one order of two units, two coroutines, both kinds of
exchange and one lost connection. The entries of the dictionary never interact: every
writer changes the entries of the orders it names, independently of the others; the only
exception, the loop of the reload over several orders on MEXC, writes each entry by the same
rule, and the proofs cover any number. Two units give an order with none, some
and all of it filled; two coroutines give a reload and a call that cross, or two calls; one
loss suffices for an order to finish unseen. `position_manager` has two orders (one
placed over another that is still tracked), one coroutine and a holding of up to one
order. `position_limit_leg` has three orders for two reprices, a spot and a futures account, and
a holding of up to one order, so that an order reverses the position: 309,344 states; `position_manager`
has 727,640 and `order_store` 271,404.
`ws_manager` has a queue of three of which an overflow drops two, and five messages, so that
it overflows twice; two channels, so that a resubscription may be half done; two attempts,
so that giving up, a backoff and a reset of the counter all happen. The number of
connections is not bounded.
`rest_client` has an order and a query on a listed endpoint with one permit and a third call
elsewhere, for two global permits: a call waits for either semaphore while others hold
it, and all three wait, hold and are closed in any combination. Two attempts per level tell
the levels apart; one cancellation leaks the only permit of the endpoint. 281,132 states.
`strategy_tasks` has two tasks on one symbol, one that recovery knows and one that it does not,
two versions of the former's context, so that an older file can be told from a newer, and one
fault; a second crash meets only files that some run without the first has too.
286,789 states. `asset_transfer` has two lots, so that a position may be half filled, three
withdrawals for a cycle and a half, and two faults, so that a failure meets a restart or another
failure. 95,961 states.
`collector` has one symbol on two exchanges, two quotes with the same prices, two trades of one
millisecond without an identifier and a third with one; one trade comes again and one fault
happens, so that a lost batch meets a repetition and a crash meets a transaction. 2,606,081
states. It has no funding rate, whose list is saved as that of the quotes is; the proofs have any
records.

**Deadlock** is checked except in the runs of `OrderStore`, `PositionManager`, `WsManager` and
`RestClient`. When all orders are finished or all calls have returned, everything is closed and
the bounds are reached, these systems idle.

**Fairness.** `FinalUpdateLands` and `FinalUpdateLasts` assume weak fairness of
`OrderHandler` (the message loop runs as long as the process does) and, per coroutine, of
its answer, resumption or failure (each REST call has a timeout). Nothing is assumed of the
exchange, of the connection, or of the calls a strategy makes.
In `WsManager` each of the three tasks and the end of `close` are weakly fair: connecting
and closing have timeouts, the backoff ends, a dead socket makes `recv` raise, and
handlers return (their REST calls have timeouts). Nothing is assumed of the server, of
arriving messages, or of the callers.
In `RestClient` a sleep ends and a request is answered or times out (weak), and a waiter of
a semaphore is served if permits come back again and again (strong: asyncio wakes waiters in
order). `CallsReturn` says that every call that began returns, unless cancellations have leaked
all permits of an endpoint: its calls then wait for ever and keep the global permits they hold.
In `StrategyTasks` the event loop runs what can run, and the awaits of a step and of a
start have timeouts; in `AssetTransfer` whoever runs the task starts it again, its step goes
on, and its monitor asks. Nothing is assumed of the exchanges: `ArrivedIsCredited` begins where a
transfer has arrived. Its fairness of each next step of the task is that of the loop in
`StrategyTasks`, where it is `EveryTaskIsStepped`.

`FinalUpdateLands` allows a reload under way to win: `_load_open_orders` may write the
copy it took before, see finding 2.

## 4. Findings

1. *A late answer reopens a finished order* (`base_private_composite.py:502`). A fetch or a
   placement is answered, the order's final update arrives on the websocket and is stored,
   then the coroutine resumes and overwrites it with the older answer. Nothing corrects
   the entry afterwards.
2. *A reload publishes the old state* (`:440`). The orders that were open before a reload
   and are missing from the exchange's answer are published as they were, open.
3. *On MEXC a partial fill is reported as filled* (`mexc/utils.py:201`, used by
   `fetch_order`): the position manager then stops watching an open order.
4. *Two coroutines count a fill twice* (`position_manager.py:262`). A cancel (of a reprice,
   of `pause`, `cancel` or `stop`) is in flight; `sync_with_exchange` of another coroutine finds
   the order done in the store and clears `_last_order`; the cancel's answer is then
   compared with nothing and counted in full.

Six more departures were met while modelling. They have no run of their own: the models
contain them, and the properties of the passing runs except or allow for them.

* *`set_side` on a held position* (`inventory_spot_strategy_task.py:345`). With the side
  turned to SELL a spot inventory grows with each sale and shrinks with each purchase, while
  the strategy states that "SELL operations require position > 0 (inventory to sell)" (line 282).
* *Changes that do not ask for a save* (`position_manager.py:107` and 150-176,
  `cross_exchange_arbitrage_task.py:250` and 808, `base_strategy.py:145`). They are in the file only if
  another change asks later; after a crash before that the task goes on from an older context.
* *A finished order that is open for ever* (`gateio/utils.py:264`). A part-filled finished futures order is
  reported `PARTIALLY_FILLED`, which `is_order_done` takes for open. It needs an exchange that
  breaks fill-or-kill, on which the limit and market orders of the futures account rely.
* *A save clears what it did not save* (`snapshot_scheduler.py:58`, also 41-43 and 71-73). The
  insert works on a list built before its await; the list of the cache is cleared after it, with
  whatever arrived in between (`calm` in `Handle`).
* *A millisecond is no identity* (`db/operations.py:641`). MEXC's trades come without an
  identifier, several to a message; those of one millisecond are stored once. Across two
  batches, two runs or ten minutes the same key gets a second row: the unique constraint does
  not see it, since an absent identifier equals no other (`RowsExplained` says how often).
* *Quotes are compared across exchanges* (`collector_ws_manager.py:122`). The last quote is
  kept per symbol for three exchanges that quote the same symbols; a quote that repeats the
  prices of another exchange is skipped (`skipped`).

## 5. Proofs

All theorems hold for every value of the constants that the named assumptions allow (a
positive `Qty`, known exchanges, operations and faults, a `None` apart from the values).

**OrderStoreProofs.** `TypeCorrect`: `Spec => []TypeOK`. `NothingInvented`:
`Spec => []AllIsGenuine`. The store alone (`StoreGenuine`) is not inductive: a writer puts
into it what an answer, a queued update or the copy of a reload carries, so the invariant
says of each of these that it is a state the order really had, and stays one while the
exchange moves on (fills only grow, done orders do not change). `OpenHasRest` is needed
because the exchange may otherwise fill beyond `Qty`. `NoOpenOrderRemoved`:
`RemovedOnlyWhenDone` follows, since an answer "not found" was given of a done order.
`DoneIsDoneElsewhere`: finding 3 is confined to MEXC, everywhere else `DoneMeansDone` holds.
Three theorems say that `PositionManager` assumes nothing that is not so. `StoreServesTheManager`:
every state in the store is in `Had`. `MissingMeansDone`: what was stored once is missing only if
it is done. `FetchServesTheManager`: let the order be in state `f` when the request is sent; then
what `fetch_order` returns is in `Since(o, f)`, and if it returns nothing, `Unknown(o, f)` holds. The
invariant (`Fresh`) says that neither the exchange nor an answer the coroutine holds is older than
`f`, and that on MEXC the order itself is asked for only if it had no trades. The case of a
finished order without trades on MEXC is why `Since` lets such an order come back open:
`fetch_order_from_trades` then returns what the store holds, which may not have heard of the end.

**PositionManagerProofs.** `TypeCorrect`: in particular the filled amounts and the quantity
never fall below zero, because the out-of-order check lets no negative difference through.
`LedgerBalances`: `Spec => []Ledger`, for any number of coroutines; each of the five cases
of `UpdatePosition` moves the signed position by what it adds to the filled amounts.
`FilledIsCounted`: what was counted adds up. The filled amount of a side is the number of the
lots that were counted of the orders of that side, each lot a pair of an order and a number; a sum over
orders is the cardinality of a set here, so that the provers need no induction over the orders.
`NoFillCountedTwice`: with one coroutine, `Spec => []NoOvercount`, with all faults. The
invariant is strengthened by what is true of a coroutine's pending call: what is counted
of the order it asks about is at most what its answer will bring (`AsksOK`), and of the tracked
order at most its last filled quantity (`CountsOK`). The filled amounts are not ahead of what the exchange
traded because the counted lots are among the traded ones, of which there are finitely many
(`FinitelyPlaced`). With two coroutines the property is false (finding 4).
`TrackedAreCounted`: with one coroutine, no operation `market` and no lost answer nothing of the
tracked order is missed, on any exchange and account, whatever is matched at acceptance, forgotten or
refused. The hypotheses are needed: a market order is tracked over the order that is tracked
already, and what that one had is subtracted from it; so is a limit order that is placed
after a cancel whose fetch found nothing new, because the cancel itself was lost.
`SettledAreExact`: no fill of any order is missed, for one coroutine that is `Undisturbed` (no
lost answer, no order unknown to the exchange, not MEXC, no operation `market`; spot and
futures, where the limit leg is a market order itself, short of balance or not), and the
position is where it started plus all that the exchange bought minus all that it sold. The
invariant `ExactOK` says where each order ever placed is: finished and counted, tracked, or
placed a moment ago (`Accounted`); it needs that an order is placed only when none is tracked,
and that one accepted as finished is as it was answered (`ExactCalls`). A futures order that
ended part-filled is tracked for ever; the theorem then says nothing, as the manager is never at
rest. The hypotheses are needed: a lost placement answer leaves an order untracked, and a MEXC
trade lets an open order be taken for filled (finding 3).

**WsManagerProofs.** `TypeCorrect`, with the invariant that a loop that still reconnects has
attempts left. `FeedImplemented`: `Spec => Feed!Spec`, where the pending messages are the
queue and the feed is closed once `close` is called; every step of the manager is a
`Receive` (whose lost messages are those `Room` drops), a `Take`, a `Close`, or leaves all
three alone. `SubscriptionsKept`: `Spec => []SubscriptionsAreLive`, from three facts: the
reader runs only while the connection loop waits for it, the state is `CONNECTED` from the
moment the socket is open until then, and what was sent again stays subscribed while the
socket is open.

**RestClientProofs.** `PermitsAreAccounted`: permits that are free, held and leaked make up the
endpoint's capacity, and the global limit until `close`; counting the holders needs how the
cardinality of the set of holders changes with each step of one call. `CloseServes`: after
`close` there is a permit for every waiter, since each holder gives one back and nobody new may
wait. `EffectsAreExplained` counts a placement's executions, those still to come and those
of its answer against its uncertain sends; `AttemptsAreBounded` counts these against the two
attempts (`Behind`), where a repetition outside is worth as many as the inner loop has.
`ClientImplementsAtLeastOnce`: a late execution is an `Execute`, a success a `Succeed`, every
other return a `Fail`, and all else stutters; the bound is that of `AttemptsAreBounded`.

**StrategyTasksProofs.** `FilesAreCurrent`: no change that asks for a save is lost between a step, its
save and the reset of the flag; it needs that what was asked for is not newer than the context.
`FinishedTasksStayFinished`: the invariant says that only
managed tasks are executed or started (`BusyIsManaged`), that recovery and execution exclude each
other (`RecoveryApart`), and that the version in memory is the newest there is unless a save was
cut (`ManagedIsNewest`). `SavesKeepTheNewest` and `ActiveFilesStay` are action properties over
every step, a crash within a save included; they need that invariant, because a save replaces a
file by the version in memory, which is not older.

**AssetTransferProofs.** `TransfersAreTracked`, `NoneIsGivenUpWithoutTrouble`,
`OnlyArrivalsAreCredited`, from one invariant: what each place of the step implies of the
request and of the monitor (`Phases`), that a request never shows a state that the exchange has
not had (`RequestsHaveSeen`), and that a status out of progress other than completed comes
from trouble (`TroubleIsNoted`).

**AssetExposureProofs.** `HedgeIsComputedFromWhatIsOwned`: `ExposureIsOwned`, and
`WithdrawalsLeaveNothing`: `NothingLeftBehind`. The two need one more invariant, which relates the positions
to the balances at every place of the step (`Holdings`): before the first load there is nothing
(`Untouched`); between two transfers the positions are the balances, all on one exchange
(`Between`); from the execution of a withdrawal until it is credited, its lots are all that the
task has, on the exchange that they leave, under way, or where they arrive (`Carried`), and
every other withdrawal is finished (`OthersAreSettled`). So the lots on
their way are those of one withdrawal at most, and their number is its amount (`LotsOfOne`). A
context or an answer that is lost, and a transfer given up, end it (`strayed`).

**CollectorProofs.** `SecondRowsAreExplained`: rows count at most once per time that a key was
remembered, where a transaction under way counts as a row (`RowsBound`). `SeenHasRows`, from
`BatchMarked`: what is inserted is remembered before, and committed it has its rows.
`NothingLostWhenCalm` needs three more parts of the invariant: a calm running process has lost no
transaction (`LossNoticed`), so that a trade left out as a duplicate has a row; and a list that is
being saved is all in the transaction or known by its key (`SaveIsWhole`).

**Only model-checked.** The liveness properties (`FinalUpdateLands`, `ConnectsOrGivesUp`,
`QueueIsServed`, `CloseReturns`, `CallsReturn`, `CancelledLeaves`, `EveryTaskIsStepped`,
`StopReturns`, `ArrivedIsCredited`), which are out of the prover's reach. Every invariant and
every action property of a passing run is proved, `NoOvercount`, `TrackedIsCounted` and `SettledIsExact`
under the hypotheses named above.

## 6. What is left out

Of the components above: prices, fees and PNL; the balances of the composite (one
assignment per message, with the same last writer); the initialization order; events to
subscribers; message formats; different quantities per order; the public websocket interface;
the spacing of requests and the length of backoffs (no module has a clock); two managed tasks
with one tag; the status `error` of a task and its directory for completed tasks, which no
strategy reaches (`step()` swallows every exception, and none sets `completed`); the quote amounts
of a transfer, its network and its hedge order; a withdrawal that the REST client sends twice.

Components that are not modelled, and why:

* *The decisions of the strategies* (inventory, spot futures, maker, the legs of the multi
  spot futures base) compare prices, spreads and balances in floating point. What they share and
  what interleaves is below them: the position manager, the order store, the task manager.
* *Legacy task manager and tasks*: older copies, used only by each other.
* *Iceberg task*: it cannot be constructed, because its base class raises
  `NotImplementedError` from a method that it does not override.
* *Order books and public composite*: each update replaces an entry; the order of updates is
  that of `WsManager`.
* *Futures composite*: a conversion of contracts that is applied in place; a hazard of aliasing,
  within a unit test's reach.
* *Exchange clients*: signing, formatting and parsing.
* *Logging*: a ring buffer of log records that changes no trading state. Of its queues only the
  audit records wait for a task, and nothing writes those.
* *The rest of the database*: queries, statistics, migrations, balance snapshots.
* *Signals, rebalancer, analytics and command line tools, configuration*: numerical statistics and
  input and output. They are the larger part of the repository's lines, together with the
  research notebooks.
