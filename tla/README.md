# Spreadara: TLA+ models, model checks and proofs

This directory holds the formal models of Spreadara, a market maker for crypto
perpetual swaps. Each module is translated from the C++ of the trading engine
(`src/src/`); TLC checks small instances and TLAPS proves the most important
safety properties for every value of the constants. `PROJECT.json` maps every
modelling definition to the lines it stands for, lists the runs, the mutations of
the models that each property is known to catch, the hazards of the code and
where it disagrees with its own comments.

Paths below are relative to the root of the repository's sources.

## 1. The system

Three processes share a PostgreSQL database: the **trading engine** (C++17,
`src/`), the **dashboard backend** (Go, `dashboard_backend/`) and the **dashboard**
(React, `dashboard/`). Only the engine trades. Its threads are

| thread | runs | talks to |
|---|---|---|
| WebSocket (`main.cpp`, `ioc.run`) | both OKX clients on strands | market event ring; `OrderManager::inject_fill` |
| tick processor | order book, volatility, snapshots | snapshot ring, recorder ring |
| strategy | `SignalAggregator`, `MarketMaker` | quote ring; `PositionTracker::update_mid` |
| quote, fill, halt, reconcile (`OrderManager`) | order slots, REST calls | exchange, `PositionTracker`, breaker |
| breaker | `CircuitBreaker::do_tick` | `PositionTracker`, `RiskManager`, risk event ring |
| recorder (with `--record`) | `Recorder::run_loop` | snapshot ring, archive file |
| snapshot (`main.cpp`) | one position and one daily row a second | reporter ring |
| reporter | `PgReporter::consumer_loop` | PostgreSQL |
| main | preflight, joins, shutdown | all of them |

The threads meet in SPSC rings, in atomics (position, breaker latch, `running_`),
in the mutex `mu_` of the OrderManager and at the exchange itself. A backtest is a
process of its own, one thread that streams the archives of the recorder through a
simulated exchange and the same strategy, gate and order slots.

### Inventory

| component | state | operations | what makes it hard | what makes it correct |
|---|---|---|---|---|
| OrderManager (`execution/order_manager.cpp`) | two order slots, fill ring, `mu_`, `halt_handled_`, `running_` | requote, place, cancel with retries, on_halt, shutdown_cancel_all, reconcile, inject and apply fills | six threads, REST calls that fail or answer late, fills in flight, a breaker that trips at any point | no order is lost track of; fills are counted once; a halt is final and is handled; stop() returns |
| main (`main.cpp`) | phase of the process | preflight, start, signal and fatal shutdown | crashes anywhere, order of the joins | the engine starts from a clean exchange and leaves one |
| SPSC ring (`transport/spsc_ring_buffer.hpp`) | array, two atomic indices | push, pop | stale index reads, slot reuse, several producers behind a mutex | no race; a bounded FIFO queue |
| PositionTracker (`risk/position_tracker.cpp`) | four atomics and fees | apply_fill, update_mid, equity | no grouping of reads and writes | the books balance; the direction of the skew |
| PgReporter (`db/pg_reporter.cpp`) | ring, batch, current day, connections | push, pop loop, flush with retries and fallback, drain | database failures, commits in doubt, date changes | good rows kept, in order, once; one final row per day |
| WebSocket clients (`market_data/okx_*ws_client.cpp`) | socket, write queue, two timers, attempts | connect chain, login, subscribe, keepalive, reconnect, stop | handlers already due when cancelled, operations aborted by a reconnect | one read and write at a time; recovery; termination |
| CircuitBreaker (`risk/circuit_breaker.cpp`) | latch, peak equity, per-condition latches, pending events | do_tick, notify | reads a moving PositionTracker | trips when and only when it should |
| RiskManager (`risk/risk_manager.cpp`) | rate and rejection windows, open orders | pre_trade_check, records | lagging inventory, window edges | limits hold |
| MarketMaker, InventoryManager, SpreadModel, SignalAggregator (`strategy/`) | last quote, tiers | on_signals, should_requote | dropped quotes, inventory never fed | a quote only through the gate |
| market data (`market_data/tick_processor.cpp`, `orderbook.cpp`) | event ring, book | process_event, emit_snapshot, drain | events of several channels on a ring that drops | the book is the last whole one |
| recorder, loader (`backtest/recorder.cpp`, `historical_data_loader.cpp`) | snapshot ring, file | write, drain, read back | order of the shutdown, a process that dies while writing | nothing is lost by an orderly exit; a torn file ends where it tears |
| OKX REST client (`execution/okx_rest_client.cpp`) | curl handles | signed calls, replies | refusals inside an accepted envelope, bodies that cannot be read | what counts as done was done |
| simulated exchange and backtest (`execution/simulated_rest_client.cpp`, `backtest/`) | resting orders, a position of its own, replay position | matching, replay | two ledgers, slots never told of fills | the ledgers agree; no order is orphaned; the limits hold |
| dashboard backend (`dashboard_backend/`) | sessions, alert rules, hub, jobs | HTTP, WebSocket, alert loop | concurrency of handlers | (not modelled) |
| stubs, infrastructure, tools | none | | | |

The hazards of this code, each at its line and with the properties that guard it,
are listed in `PROJECT.json`.

## 2. Modules

| module | models | composed from |
|---|---|---|
| `OrderLifecycle` | states of an order and `is_valid_transition` | |
| `Exchange` | the venue: resting orders, position, fill events, failures (external) | |
| `OrderManager` | the OrderManager and its threads | EXTENDS `Exchange`, `OrderLifecycle` |
| `RestClient` | what the REST client makes of a reply | |
| `TradingEngine` | main: preflight, shutdown, crash, restart | EXTENDS `OrderManager`, `RestClient` |
| `BoundedFifo` | abstract: a bounded FIFO queue | |
| `SpscRing` | the lock-free ring, access by access | refines `BoundedFifo` |
| `FillAccounting` | entry price and P&L of a fill, for the tracker and the simulator | |
| `PositionTracker` | inventory, entry price and P&L, store by store | EXTENDS `FillAccounting` |
| `CircuitBreaker` | `do_tick`, its latches, the event queue and ring | EXTENDS `PositionTracker` |
| `MarketFeed` | stream, event ring, book, recorder, archives | |
| `SimulatedExchange` | matching and the simulator's ledger, as operators | EXTENDS `FillAccounting` |
| `Backtest` | replay of the archives through strategy, gate, slots and simulator | EXTENDS `MarketFeed`, INSTANCE `SimulatedExchange` |
| `PgReporter` | batching, retries and daily rows | |
| `WsConnection` | both WebSocket connections | |
| `MC*` | what TLC is started on; their `.cfg` files give the bounds | |
| `SpscRingProofs`, `OrderManagerProofs`, `OrderManagerAccounts`, `TradingEngineProofs`, `CircuitBreakerProofs`, `BacktestProofs`, `PgReporterProofs`, `WsConnectionProofs` | the proofs | each EXTENDS its model |

### OrderManager

`mu_` serialises every access to the slots and every REST call, so at most one
critical section runs; `op` records whose it is (`quote`, `halt`, `shutdown`,
`reconcile`), where it is and what it has read. Steps end where somebody outside
`mu_` can matter: the strategy thread (quote ring), the fill applier (inventory),
the breaker (latch), main (`running_`) and the exchange (a fill, while a REST call
is in flight). So `on_quote` is `TakeQuote` (ring and first breaker check),
`BeginRequote` (mutex), then for each side `Requote`, `PlaceNew` (second breaker
check), `Submit` (risk gate and REST call) or `CancelOk`, `CancelRetry`,
`CancelGiveUp`. The cancel loops of `on_halt` and `shutdown_cancel_all` share the
cancel actions; `SizeFlatten` and `FlattenAndLeave` are the rest of them.
`inject_fill` is one step, `apply_fill` of the fill thread another.

A REST call and the treatment of its reply are one step, since the reply only
touches what `mu_` guards. A call may fail without effect, fail after it took
effect (a lost reply) or find the order gone; a position query may also be answered
unreadably, which `on_halt` and `reconcile` take for a flat position. Fills are lost when the stream is
down, when an outage hides one, and when the fill ring is full; `undelivered` is
the net quantity so lost.

Left out: prices (a requote chooses freely whether the price has moved), latency
telemetry, and the configuration without a private stream. `check_ack_timeouts`
has no action because it can find nothing: `SettledWhenUnlocked` says that no slot
is `PENDING` or `SUBMITTED` while `mu_` is free. A loop that tested `running_` just
before `Stop` still finishes its iteration; for the others that equals a `Stop`
after the first step of that iteration.

### TradingEngine

`phase` follows main: `listing`, `cancelling`, `sizing`, `flattening` are the preflight,
then `trading`, `draining` (the WebSocket thread has ended), `quiet` (the strategy
thread is joined), `exited` or `down`. `Crash` may happen in any of them and
`Restart` starts a process that knows nothing but what it asks the exchange.
`OMStep` lets each action of `OrderManager` happen while its thread runs.

The preflight goes by replies. A call takes effect or not (`Answers`), and
`RestClient` says what the client makes of the answer: `process_status` of the HTTP
status and the envelope's code, `parse_data_first` of the item. A refusal may sit in
the item under either envelope; an item without a code counts as done; "order does not
exist" (51400) counts as cancelled; a geo-block, a missing answer or an unreadable one to
an order or a cancel is a failure, after which main returns 1 and systemd starts the next
process. An unreadable 2xx answer to a *query*, however, is an empty list (`Listed`). The
history variable `unread` notes which queries of the present process were answered so. No
step depends on it; the properties do.

### SpscRing and BoundedFifo

Each load, each store and each access to a slot is a step. A load of the other
side's index may return any value between the one seen last and the current one,
which is what acquire and release allow. Producers share a mutex as they do in
`PgReporter::push`; with one producer it never matters. The refinement maps the
published slots to the queue; a push takes effect at the store of `head_`, a pop at
the store of `tail_`.

### PositionTracker and CircuitBreaker

`ApplyFill` computes, `StoreRealized`, `StoreInventory` and `StoreEntry` store, and
`Load` is one load of a call of `equity()`; the C++ rules leave the order of the two
operands of its sum open, so both orders are allowed. `cash` and `held` are an
independent account of the same fills, `lowest` and `calm` say what the true equity was
while a call ran and whether anything disturbed it.

`CircuitBreaker` puts the monitor thread on top: `CheckDrawdown`, `CheckInventory`,
`CheckLoss`, `CheckRejections`, `PublishPending` are the parts of `do_tick` in their
order, each of the two calls of `equity()` load by load, and between any two steps the
account may move. Time is counted in polls, since the unhedged timer is only looked at
by the poll. `Latch` is the once-per-crossing treatment of a condition; `Notify` the
calls from other threads. How many rejections the RiskManager's window holds is any
number. Of the queue and the event ring the lengths are kept, which is what decides
whether an event is dropped. `lowest` and `highest` give each alarm a verdict: `falseAlarm`
is one no true equity accounts for.

### MarketFeed

`Dispatch` is the public client pushing a ticker, a book or a trade, `ProcessEvent` the
tick processor with the snapshot it emits, `Write` the recorder. `CloseStreams`,
`JoinProcessor` and `JoinRecorder` are the order in which main stops them, each drain
being the guard of the join; `Crash` leaves a prefix of what was written, perhaps with
a piece of the next record, and `Restart` starts a process with a file of its own. A
book is its mid and the size at its best levels.

### SimulatedExchange and Backtest

`SimulatedExchange` is the simulator as operators on the record `s`: each order by itself
meets the displayed size on every scan, the callback books the fill in the
PositionTracker, and the simulator keeps a ledger of its own by `SimEntry`. `Backtest`
continues `MarketFeed`: once the recording is over, `ReplayRecord` is the whole callback of
`run_one` for one record (`OnRecord`): the market update with its fills, the mid, the
risk gate for both sides, `should_requote`, and `on_quote` with its cancels and
placements. It is one step because one thread does it all. The clock is the machine's,
not the archive's, so any lag may pass between two records.

### PgReporter

`PopEvent` fills the batch, `StartFlush` begins a flush, `WholeBatch` is one try of
the transaction, its statements executed one after the other until one is rejected
(`Executed`, `Inserted`), `OneEvent` one event of the fallback, `ConnectFails` each failure
of `ensure_conn` that ends a flush, `EndLoop` the shutdown drain. Any call to the
database may fail, and a commit may take effect although it is reported failed.
Left out: dry mode, the pool (a flush uses one connection, and opening it may fail
at any time) and the counters.

### WsConnection

One completion handler is one action; handlers run on a strand in the order they
become ready, so the handlers of aborted operations run before anything that
completes later on the network. `aborted`, `armed` and `due` hold what makes the
code subtle: operations of a replaced socket whose handlers have yet to run, timers
waiting, and timers that have expired and can no longer be cancelled. The server's
side of a session is part of the state. Both clients share the module: the private
one sends a login first and survives a refused subscription. The length of the
backoff and the data on the channels are left out.

## 3. Runs

| run | checks | bounds | states |
|---|---|---|---|
| `order_manager` | `TypeOK`, `SettledWhenUnlocked`, `NoSilentOrphan`, `QuietAfterHalt`, `TerminalIsFinal`, `HaltIsHandled`, `LossIsNoticed`, `StopJoins`, `AlarmHasCause` | two lots per order, 1 quote, 2 faults, 2 cancel attempts, rings of 1 | 361,000 |
| `engine_restart` | `FillConservation`, `HaltCleansUp`, `FatalExitLeavesNoOrder`, `CleanStart` | one lot per order, 3 processes, 2 cancel attempts, 2 faults with 1 quote, 2 quotes without fault | 8.8 million |
| `engine_exit` | finds `ExitLeavesNoOrder` violated | 1 process, no fault | |
| `engine_flatten` | finds `ShutdownFlattenShrinks` violated | 1 process, no fault | |
| `spsc_ring` | `TypeOK`, `RaceFree`, `FifoSpec`, `KeepsPopping` | 4 slots, 2 producers, 2 messages | 73,000 |
| `circuit_breaker` | `BreakerTypeOK`, `CalmReadIsExact`, `CalmAlarmIsTrue`, `ReasonKept`, `LastingRiskHalts` | prices 4 and 8, position within 1, 2 fills, queue and ring of 1 | 2.4 million |
| `breaker_skew` | finds `UpwardSkewIsBenign` violated | the same | |
| `pg_reporter` | `TypeOK`, `GoodRowsKept`, `OnceInOrder`, `DailyRowIsFinal`, `BatchLeaves` | ring of 2, batch size 1, 5 events, 2 dates, row 2 is bad | 1.3 million |
| `pg_daily` | finds `DailyRowsAddUp` violated | 3 events | |
| `ws_connection` | `TypeOK`, `OneAtATime`, `FirstThingsFirst`, `KeepaliveRuns`, `Recovers`, `StopDrains` | 3 attempts, 3 lost connections, queue of 2, subscriptions may be refused | 8,800 |
| `ws_login` | finds `RefusalsExhaust` violated | 3 attempts, logins may be refused | |
| `backtest` | `BookIsCurrent`, `ExitKeepsTape`, `ReplayFollowsTape`, `TwoBooksAgree`, `RestingIsTracked`, `PositionBounded`, `RateBounded` | 3 mids, 2 sizes, 2 processes, 4 events, event ring of 2, tape of 1, two lots per order, position within 3 | 5.5 million |

What the bounds let happen. In `order_manager` orders of two lots fill in two parts, a
ring of one drops a fill, and two faults make a lost reply followed by a failed flatten, a
fill hidden before a failed cancel, or both attempts of a cancel fail. In `engine_restart`
either two calls go wrong: an order whose reply is lost and a preflight that then fails or
is answered unreadably, or both queries of one preflight, and a third process that starts
over what the second, blind or dead, has left; or there are two quotes: enough for a
requote after a fill or a cancel and for a quote popped while another waits, on both
sides. The state constraint `LastQuoteOrFaults` keeps the two apart; both together are
left to the theorems of section 4, which cover all four properties for all bounds. In
`circuit_breaker` two fills open and close, or open and flip, a position (a fill may be of
two lots); enlarging one is left to `backtest`, whose gate admits three lots and whose
displayed sizes fill orders of two in parts, so that positions are opened, enlarged at the
same and at another price, reduced, closed and flipped there. Prices are multiples that
keep every mean the run comes to whole. Four events make a recording of up to four records
over two processes, enough to rest an order, move it, fill it in parts and quote again,
and the limit of two submissions a window is reached by the third. In `pg_reporter` a
batch of up to two events holds a row of each kind, and five events reach a rollover, a
bad row and a drain in one behaviour. Every configuration turns deadlock detection off:
quotes, faults, events and processes are bounded, and an engine that has stopped stays
stopped.

Every property of a passing run is known to fail for a plausible mutation of the
code: `PROJECT.json`, `mutants`.

### Where the code disagrees with its comments

* `ExitLeavesNoOrder` (`src/main.cpp:525`). Joining the strategy thread stops the producer of
  quotes, yet a quote still in the ring is popped and placed by the quote thread,
  which runs until `order_manager.stop()`, after `shutdown_cancel_all` has cancelled.
  After the fatal-WebSocket path that cannot happen (`FatalExitLeavesNoOrder`),
  because the breaker has tripped before.
* `ShutdownFlattenShrinks` (`src/execution/order_manager.cpp:538`). The shutdown sizes its
  flatten from the local inventory. Once the stream is closed a fill never gets
  there, and a flatten that `on_halt` did is repeated.
* `UpwardSkewIsBenign` (`src/risk/position_tracker.cpp:63`). The comment calls a read that is
  too high benign because it only raises the peak. Between the stores of inventory and
  entry price of an opening fill the equity reads as the whole notional; it becomes
  the peak, and the next tick, which reads the truth, halts for a drawdown.
* `DailyRowsAddUp` (`src/main.cpp:429`). Each day's row is the P&L since the process started.
* `RefusalsExhaust` (`src/market_data/okx_private_ws_client.cpp:285`). The handshake resets the
  count of attempts, so refused logins go on for ever. Moreover the read on the
  refused socket goes on; when the reconnect replaces the socket its abort schedules a
  second reconnect. That is why the properties of `ws_connection` are stated for
  logins that are accepted: with refusals two reconnects overlap and none of them holds.

Smaller things the models show, without a run:

* a keepalive that has expired when a connection is lost does write to the dead socket
  (the comment on `schedule_reconnect` excludes it), harmlessly because the write queue
  drains before the next handshake (`FirstThingsFirst`);
* `reconcile` may trip the breaker over a fill that is merely in flight, or over a position
  it could not read; `AlarmHasCause` says that nothing else makes it do so;
* a commit whose confirmation is lost is repeated, and its rows are in the tables twice
  (`OnceInOrder` excepts it; nothing says the rows are unique);
* a 2xx answer that cannot be parsed makes `query_open_orders` and `query_positions` report an
  empty list and success (`src/execution/okx_rest_client.cpp:504-526`, `547-575`). The
  preflight then cancels or flattens nothing and the engine starts to quote, although
  `src/main.cpp:320-324` says it must not trade blind. `CleanStart` without its conditions on
  `unread` is violated after four steps; with them it says that an unreadable answer
  spoils only the process that got it and only what that query was for;
* the gate before the REST call (`src/risk/risk_manager.cpp:84`), which its caller calls
  authoritative, knows only booked fills. An order that fills while the quote thread
  cancels it is replaced by one the gate lets through: with two quotes TLC finds
  `Abs(position) <= MaxPosition` violated in `OrderManager` without a failed call. In a
  backtest, where fills are booked at once, the bound holds (`PositionBounded`);
* a halt is claimed once (`src/execution/order_manager.cpp:558`). If its market order fails, or
  its position query is unreadable, nothing flattens again: with one fault and `FairSpec`
  TLC finds a run in which the watcher is done and the position stays open for ever,
  although the breaker's comment (`src/risk/circuit_breaker.cpp:110-112`) counts on the
  halt to close a losing inventory;
* after a bad row the fallback of `flush_batch` leaves its loop if it cannot reconnect
  (`src/db/pg_reporter.cpp:448`): the good rows behind it are lost and counted neither as
  flushed nor as dropped, although the retry is meant to skip the bad one only
  (`src/db/pg_reporter.hpp:128-129`);
* the MarketMaker and the RiskManager of a backtest go by the machine's clock: fills
  depend on how fast the archive is streamed;
* a backtest's slots never learn of fills, so a side that has filled is quoted again only
  when the price moves; a partly filled order is replaced by a whole one;
* the gate is asked for both sides before a quote: with the position at `max_position` no
  side is quoted, and the rejection is counted on every tick. In a backtest nothing ever
  acts on that count, because the monitor does not run;
* the simulator lets each order trade against the whole displayed size on every scan;
* a torn archive is cut off silently, and an archive is named by the second, so a
  process restarted within it would truncate its predecessor's (the model gives each its own).

### Fairness

`OrderManager`: code that holds `mu_` goes on (REST calls have timeouts), and the quote
and fill threads poll: weak fairness. The watcher, the private stream and the reconcile
thread get `mu_` if it keeps becoming free, since the reconcile thread sleeps 200 ms
between passes and the quote thread 10 ms when its ring is empty: strong fairness of
`ClaimHalt` and `BeginHalt`, of `InjectFill` and of `ReconcileQuery`. The quote thread needs
no such promise for any property.
Nothing is assumed of quotes, trades, the breaker's own conditions or the operator.
`CircuitBreaker`: the monitor thread runs, and a fill that `apply_fill` has begun is
stored; the account itself need not move. `MarketFeed`, `Backtest` and `TradingEngine` have
safety properties only. `SpscRing`: the consumer polls, and a store becomes visible in finite time.
`PgReporter`: the consumer thread runs. `WsConnection`: ready handlers run, timers
expire, an operation on the network ends in success or failure and the server
answers, however many keepalive frames come between (they are 25 s apart).

## 4. Proofs

All theorems hold for every value of the constants that satisfies the modules'
assumptions (positive sizes, natural-number limits).

**SpscRing** (`SpscRingProofs`). The inductive invariant `Inv` adds to the types that
each side's stale view of the other's index lies between that side's own index and
the true one, that a producer past its check holds the mutex, that a producer about
to write or publish has seen room, that a consumer past its check has seen a message,
and that the slot a producer has written holds its item. `RaceFree` follows; without
the bounds on the stale views it is not inductive, because the ring could look free
where it is not. The refinement theorem `Implements` maps `Publish` to `Push`, `Release`
to `Pop` and every other step to a stutter.

**OrderManager.** `OrderManagerProofs!TypeCorrect` is type correctness. The same
module proves `Settled` and `NoQuoteAfterHalt` from `Discipline`: what shape `op` has
for each user, that a slot is in flight only in the section that is placing it, that
the open-order count is exact outside the moment between taking a slot and submitting
it, and that the breaker has tripped once the watcher has claimed the halt, with no
`submit` surviving `on_halt`. `FillsAreConserved` needs no strengthening but lemmas on
sums: what `Append` and `Tail` do to the sum of a ring and to that of the signed
quantities on the stream (`SumFacts`, `SignedFacts`). `AlarmsHaveCause` follows from it:
with nothing in flight the sums leave the inventory equal to the position.
`SectionsAlwaysEnd` is about how long `mu_` is held: `StepsLeft` counts what a critical
section still has before it (a look at each side, the cancel attempts, the breaker check,
the submission, the sizing and the flatten), every step of the holder lowers it, and no
other thread moves the holder, whatever the REST calls answer. It is the ranking that
`HaltIsHandled` and `StopJoins` rest on; only fairness is left to TLC.

`OrderManagerAccounts` proves `NoOrphan` and `SettledOrdersStay` from `Ledger`: client
order ids are handed out in order and never reused (`Numbered`), an id is at the
exchange as one order (`OneOrder`), events and slots never run ahead of what the
exchange has filled (`EventsBehind`, `SlotsBehind`, `SlotsBeforeEvents`), and the events
of an order come in the order of their cumulative quantity (`EventsInOrder`). The last
two are what it takes to show that a slot counts as filled only when its order has left
the book. `HaltLeavesClean` proves `HaltCleansUp`: as long as nothing has gone wrong,
every resting order is tracked by its slot (`AllTracked`), `on_halt` has emptied the
sides it has passed and then holds the true position (`Progress`), and afterwards
nothing works and the position stays small until a shutdown flattens again (`Left`).
`Left` depends on `QuietAfterHalt`'s invariant: no order is placed after the halt.

**TradingEngine** (`TradingEngineProofs`). The types of the OrderManager are carried over to
every step of main (`EngineTypeCorrect`). `StartsClean` rests on `Cleared`: while the
preflight cancels, every resting order is still on its list; then there is none, so
nothing can trade the position away, and the residual it has read stays the position.
Each part is conditional on its own query having been readable, so the theorem holds for every
list of orders, every reply and any number of crashes: what was garbled is part of its
statement, not an assumption. `ReplyFacts` says what each reply counts for.
`GoneOrderIsHarmless` says that a cancel that comes too late never fails the preflight.

`EngineConservesFills` carries the sums through preflights, crashes and restarts.
`FatalExitIsClean` and `EngineHaltLeavesClean` need `Closing` and `Faultless` on top of
the invariants above. `Closing` says where main and the shutdown stand: only main holds
`mu_` as a shutdown, it does so after the strategy thread is joined, and when the
streams gave up the breaker has tripped, so that nothing is between breaker check and
REST call any more once the shutdown has had the lock. `Faultless` says that, as long as
no call has gone wrong since the first process, the preflight left no order behind, so
each resting order is one its slot works on, and what a shutdown after a fatal exit has
been past stays cancelled. An unreadable answer counts as a fault, so in such a history
`Cleared` holds of both queries.

What the OrderManager promises of itself it keeps inside the engine: `EngineSettles`,
`EngineStaysQuiet` and `EngineOrdersStaySettled` carry `SettledWhenUnlocked`,
`QuietAfterHalt` and `TerminalIsFinal` through every step of main, every crash and every
restart. The last needs `Unused` (a slot without an order id has held no order), since a
new process starts with such slots. `EngineKnowsItsOrders` does the same for
`NoSilentOrphan`, which does not hold of the engine as it stands: an order an earlier
process left behind is tracked by nobody. `NoStrayOrder` says that none is left once the
engine trades, unless its list of orders could not be read; it rests on `Cleared` at the start and on
`OrphanStep` afterwards.

**PositionTracker and CircuitBreaker** (`CircuitBreakerProofs`). `BreakerTypes` holds for all
constants, from `Typed`, which bounds the new values of a fill while it is being stored.
`CalmReadsAreExact` and `CalmAlarmsAreTrue` follow from three parts. `Books(d)`: the
position at its entry price is the realized P&L less the money received, and for the two
halves of a fill that is being stored the same holds with the fields not stored yet.
`ReadsWell`: what a calm call has loaded is what is stored, whatever the order of its
loads. `BelowHighest`: neither a true equity nor a peak of calm reads is above the
highest the account ever was. The hypothesis `FineTicks(d)` is about the model's whole
numbers: prices are fine enough that no mean of entry prices is ever rounded, as
`FillAccounting` requires. It names the divisors: `d[k]` divides every price and every
entry price that `k` fills lead to. It can be met for all bounds, by prices that are
multiples of `m^MaxFills` where every position size up to `MaxInv` divides `m`, and by
any prices when `MaxInv = 1`, which is the run (`SingleLotsAreFine`). The code's
doubles round; what rounding does is not modelled. `ReasonIsKept`: for all capacities, the
first reason of a halt survives the queue, the swap and the ring.

**MarketFeed and Backtest** (`BacktestProofs`). `BookStaysCurrent` from `Current`: while the
last whole book is in the ring no whole book is behind it, afterwards it is the
processor's. `OrderlyExitKeepsTape` from `Recorded`: the tape of the running process is
its file followed by its ring, and the tapes of the others are aligned with the archives.
`ReplayKeepsToTape` from `Followed` (every archive is a first part of its tape, torn or
not) and `Replayed` (what was emitted is what the archives hold up to where the replay is).

What the replay does to the record `s` is a composition of operators, so the invariant is
one on `s` that each of them keeps (`FillOneScans`, `ScanSideScans`, `CancelReady`,
`PlaceNewReady`, `OnQuoteReady`, `OnRecordReady`), the scans by folding over a set that
`Single` shows to hold one order at most. `Single`: one resting order a side. `Exposed`: the
position stays within `MaxPosition` even if the resting order fills, which makes
`PositionBounded` inductive, since the gate looks at one order and the position of that
moment. `Tracked` is `RestingIsTracked` itself, and `Paced` orders the submissions in time,
from which the gate's count of a window gives `RateBounded`. `SameBooks` and `Balanced` are
`TwoBooksAgree` with the equation turned round. The simulator adds notionals and divides,
the tracker averages, so the two agree where a mean is whole: `BothBooksAgree` assumes
either that a position is never larger than an order (`MaxPosition <= Qty`: `OnePrice`
shows that then no two prices are ever averaged), or `FineTicks(d)`, prices fine
enough for as many fills as `MaxSessions * MaxEvents` records can bring (`Counted` bounds
the records, hence the orders, hence the lots). For the run's few records less fine prices
do, and TLC checks that they do.

**PgReporter** (`PgReporterProofs`). `Typed` adds to the types what each stage of the flush
may hold. `RowsOnceInOrder` from `LineUp` and `Written`: database, pending part of the
batch and ring are one ascending line, unless a confirmation was lost. `GoodRowsAreKept`
from `Tracked`: a row the database accepts is in one of the three, where a batch counts from
the event the fallback has come to. `DailyRowsAreFinal` from `Totalled`: the last total
accepted for a date is the last of that date in the ring, else the current day's, else the
last pending, else the row's. What a transaction does to the tables, statement by
statement, is `InsertedFacts`, for batches of any length.
`EveryFlushEnds`: each step of a flush brings its end
nearer (`FlushLeft`), and at its end the batch is empty, or unchanged after a first failure
to connect, so that no batch is kept twice: the ranking behind `BatchLeaves`.

Sums and transactions are recursive functions on sequences; what they compute is proved
with `Induction`, the principle for the *set* of numbers that have a property, which follows
from the library's theorem on well-founded relations.

Where a module reasons about the length of sequences, its obligations were also put to
the SMT solver with the axiom on `Len` restricted to functions, so that no proof leans on a
value given to the length of something that is no sequence.

**WsConnection** (`WsConnectionProofs`). The four invariants of the run, for any number of
attempts, lost connections and queued frames, from `Healthy`: one thing at a time keeps the
connection going, a name resolution, an operation of the connect chain, the read or the
backoff (`OneLifeline`), so a reconnect can only ever abort a write; a write is pending or
failing exactly when the queue is not empty (`OneWrite`); a socket that is not connected
carries none, and nothing of an older socket is left once one is (`SocketIsFresh`); so the
queue is empty when the handshake ends and the login is alone in it (`LoginFirst`).
Hypothesis `LoginsAccepted`: the exchange refuses no login. It is necessary: a refused login
leaves the read going beside the backoff, which breaks `OneLifeline` (`RefusalsExhaust`).
`StreamIsNeverStranded` needs no such hypothesis: until it is stopped or gives up, a stream
has a resolution, a step of the connect chain, the read or the backoff under way, so that no
handler ever returns without having started what brings the stream back. That is the
safety half of `Recovers`.

Every invariant and every action property of a passing run is stated by a theorem.
`SectionsEnd`, `NoStrayOrder`, `NeverStranded` and `FlushesEnd` are stated in the proof
modules, for all constants at once; no run repeats them, nor `GoneOrderIsNoFailure`. Only
model-checked are the liveness properties and `KeepsPopping` (TLAPS does not prove
liveness under fairness): `HaltIsHandled`, `LossIsNoticed`, `StopJoins`, `LastingRiskHalts`,
`BatchLeaves`, `Recovers`, `StopDrains`. `TwoBooksAgree`, `CalmReadIsExact` and
`CalmAlarmIsTrue` are proved under the hypotheses named above, and the properties of
`WsConnection` without refused logins.

## 5. Not modelled, and what is left

* The formulas of the strategy (spread, volatility, inventory tiers): floating-point
  arithmetic without state that outlives a call. `Backtest` quotes at a fixed distance,
  which is what a never fed `InventoryManager` leaves of the skew; in the code volatility
  and depth widen and narrow the spread, so bid and ask can move apart. The simulator's
  book has one depth for both sides. No property depends on either.
* Of the REST client: signing, rounding to contracts, request bodies, and `amend_order`,
  which nothing calls. In `OrderManager` an order or a cancel fails or succeeds as a whole.
* Of the WebSocket clients: bytes. A frame is read whole or not at all, whereas
  `reset_and_reconnect` keeps `buffer_`, so that a part of a frame may precede the next
  connection's first one.
* Of market data: incremental books and their REST snapshot, which OKX's `books5` channel
  never reaches; the unsynchronised read of the book by the snapshot thread.
* Of the backtest: market orders and amends of the simulator, the threaded replay with
  speed and pause, which no caller uses, CSV conversion, calibration and statistics.
* Of `PgReporter`: dry mode, counters and the choice of a pool connection.
* The dashboard backend (Go) and frontend (React): processes of their own that read the
  database and take no part in trading; the sums the backend makes are `DailyRowsAddUp`.
* Configuration parsing, logging, CPU pinning, shell tools, and the FIX client and
  embedded dashboard server, which are stubs.

Worth doing next: the replies of `RestClient` inside `OrderManager`'s own calls; and the alert evaluation of the dashboard backend.
