# iqt in TLA+

iqt is a trading system for Chinese futures: strategies written in C++ (and
scripted from Python) receive ticks from CTP's market data front, decide, and
send orders through CTP's trading front.  This directory models the parts of it
whose correctness depends on the order in which threads, callbacks and messages
meet, checks them with TLC and proves the most important facts with TLAPS.

Paths below are relative to the repository; `src/src` is the C++ program.

## 1. Inventory

Threads of a running process: the CTP trading callback thread, the CTP market
data callback thread, the query consumer, one thread per `StgyExecutor`, the
looper of each `Timer`, and the Python main thread that connects the gateways.

| part | state | operations | talks to | what is hard | what makes it correct |
|---|---|---|---|---|---|
| query queue `trade/qry_queue` | `queue_`, `request_id_`, `last_`, an item per query | `qry`, `consume`, `on_rsp`, `on_err`, `next_req_id` | client threads, `CtpTradeApi` | answers late, unlocked `front()`, waits without predicate, blocked clients | own answers only, one request out, FIFO, bounded, every call returns |
| CTP trade api `ctp/trade_api` | session, order reference, a row cache per query | requests, `OnRsp…`, `OnRtn…` | queue, gateway | packets of abandoned requests, the stream sent again | rows belong to the request, order keys stay unique |
| trade gateway `ctp/trade_gateway` | `orders_`, `sys_orders_`, `open_orders_`, positions and account at start | `connect`, `submit_order`, `cancel_order`, `on_order`, `on_trade` | api, event bus, account | discarded guards, announcements before the order is entered, trades before announcements and during the start, lost notifications | each fill counted once, final status stays, cash released exactly, the start ends |
| order `model/order.h` | status, two filled quantities | `fill`, `mark_…`, `set_pending_cancel` | gateway | check then act | fills never exceed the quantity |
| future account `trade/future_account` | cash, frozen cash, trades seen | listeners | event bus | unsynchronised `+=`, double release | frozen cash is that of the outstanding lots |
| positions, order splitting `trade/future_position`, `trade/api_future` | four lists of holdings | `apply_trade`, `_close_holding`, `order` | account, broker | empty lists, quantities under way | lots closed are lots held |
| spin locks `base/lock`, `base/raii.hpp` | two counters and an owner | lock, unlock, guards | ticks, gateway, strategies | compare-exchange, nesting, write-first | exclusion, no lost unlock, writers get in |
| event bus `event/event` | listeners by type and target | `add_listener`, `publish_event` | all | synchronous, unlocked map | the right listeners run, once |
| executor and observers `stgy/stgy_executor`, `trade/observer` | tick list, flags, observer map | `notify`, `wait`, `run`, `restart` | market data, strategies | dropped ticks, join of a sleeping thread, unlocked map | the newest tick of an instrument arrives, restart ends |
| event source and timer `event/event_source`, `base/timer.hpp` | dates in memory and redis, task queue | `start`, checks, `schedule`, `run` | redis, strategies | publish before persist, early wake-ups, slow listeners | each event once a day, none left out |
| redis pool `base/redis` | connections with use flags and age | `grab`, `release`, `clear` | daos | commands are buffered until `release` | what is set is committed |
| commissions `service/future_info_service`, its dao | a list and its date in redis | `qry_commission`, `get_commissions` | gateway | reuse after a restart, two keys that expire | rates are those of the trading day |
| market data `ctp/md_gateway`, `md_api` | log-in flags, the universe | `connect`, `subscribe`, `on_tick` | observers, universe | notify before wait, additions while the front connects again | connect returns, every instrument of the universe is subscribed to |
| transaction slots `service/txn_service`, `group_service`, daos | slots, costs, groups of a transaction, in memory and in redis | load, redistribute, extend, shrink, save | strategies | sizes compared wrongly, partial writes | the slots hold the open lots, redis holds what memory holds |
| grid strategy `stgy/single_grid` | transactions, counters of orders under way | `handle_tick`, `post_…`, `on_order`, `on_trade` | api, slots | events in any order, restart with orders under way | a transaction follows its orders, counters return to zero |
| time line strategy `stgy/time_line` | as above | as above, `before_trading` | as above | status overwritten, limit prices, the end of the day | never more than its slot, EXIT means flat |
| Python services `pyiqt` | bars, indicators | scripts | mongodb, redis | – | bars cover the session |

Left aside: `third-party` (CTP headers), `base/milo`, `*_bak` (vendored or dead),
configuration, logging and pybind11 glue (I/O without control).

## 2. Plan

1. `QryQueue`, `QryQueueTimed`, `ThreadProofs` – done, every safety property
   and the rate limit proved.
2. `TradeGateway`, `TradeGatewayProofs` – done, every property proved.
3. `RWLock`, `ReadersWriters`, `ThreadProofs` – done, refinement proved.
4. `Positions`, `PositionsProofs` – done, every property proved.
5. `TickFeed` (`StgyObserver`, `StgyExecutor` and `MdSubject` composed),
   `StartAndFeedProofs` – done, `TicksInOrder` proved.
6. `Startup` (both sessions and the start of the program), `StartAndFeedProofs`, and
   `TradingDay` (`TradeEventSource`, `Timer`, the commissions kept in redis),
   `ThreadProofs` – done, every safety property proved.
7. `TxnBook`, `TxnBookProofs`, `TimeLineStgy`, `TimeLineStgyProofs` – done,
   every invariant proved; `GridStgy`, `GridStgyProofs` – done, `Recoverable`,
   `LockCovers` and `LockGoesOn` proved, the other invariants with TLC.

The proofs of `QryQueue`, `RWLock` and `TradingDay` share the module
`ThreadProofs`, those of `Startup` and `TickFeed` `StartAndFeedProofs`; a
component that shares one has names of its own for what every component has
(`LockSpec`, `DaySpec`, `FeedNext`).

`SumTheorems` holds what the proofs of the cash and the lots need of sums.

Left: the slots and the account of the grid strategy (`SlotsRight`, `BookRight`,
`NeverFails`), proved on top of `GridStgyProofs`' invariants; an
abstract request/response service (a call ends with its own answer, an
error or nothing) and the refinement of `QryQueue` to it; an abstract life of an
order and the refinement of `TradeGateway` to it; `Positions` composed with
`TradeGateway`'s outstanding orders; the strategies over `TradeGateway`'s events
instead of an exchange of their own.

## 3. Modules

### QryQueue

`qry()` is `Call`, `WaitNotFull`, `Push`, `ClientExpire`, `Return`; `consume()`
is `ConsumeLock`, `Send` or `SendFails`, `ConsumerExpire`, `Pop`, `EndRound`;
`on_rsp` and `on_err` are `ReadFront`, `Store`, `Notify` on the callback thread.
The mutex is not a variable: it is free exactly in the states of the consumer
where it waits on it (`MutexFree`), and a client holds it only inside `Push` or
`WaitNotFull`.  The consumer keeps `mutex_` while it waits for an answer
(`rsp_cond.wait_for` releases only the item's mutex), which is why clients
cannot push then.  A wait without predicate may end at any time (`…Expire`),
which covers spurious wake-ups too.

An item is a number, its fields are functions on those numbers.  An answer is
the request it answers and the set of requests whose rows it holds; what the rows
say is left out.  There are five kinds of answers:

| kind | of | what the handler does |
|---|---|---|
| "rows" | `qry_order`, `qry_position` | gathers packets in a map, a member of `CtpTradeApi`, that the next request resets |
| "commission" | `qry_commission` | the same, but no request resets the map |
| "instruments" | `qry_instrument` | makes the map only for an instrument that is traded: without one the answer is a null pointer |
| "account" | `qry_account` | no map; without an account the answer is a null pointer |
| "confirm" | the settlement confirmation | `on_rsp` with a null pointer, always, and then `on_err` if it is refused |

An item whose answer is a null pointer looks like one that nobody answered
(`Stored`, `NoRsp`), as in the code: `qry()` returns neither data nor an exception in
both cases.  `NullOnlyIfNull` says when that can happen to a client that was
notified; the history of each request (`stream`) tells how its answer ended.
`TakeId` is a log-in, an order or a cancel request that takes an id from the
same counter.  The map of an answer is shared by the client and the member where
an empty packet leaves it there; rows that a later packet adds to it, which for
the commissions can be those of the next request, are not added to the item.

`front()` of an empty queue and the use of the reference to a popped slot are
undefined: the model lets them return an old item or end the process
(`crashed`).

`QryQueueTimed` adds two history variables that measure how fast queries are
sent; the rate limit over them is proved with the rest (section 6).

### RWLock, ReadersWriters

One action per atomic access of `readLock`, `readUnlock`, `writeLock` and
`writeUnlock`; spinning is disabledness or going back to the load.  Threads
enter and leave sections in the manner of the raii guards, also inside their own
sections: a read in a read may wait for ever for a writer that waits for it, a
write in a read waits for itself, a read in a write is free, and a write in a
write (`NestedWrites`) loses the lock at the inner unlock.  `ReadersWriters` is
what the comment over the class promises; `PromisedLock` maps the threads in
sections to it and holds as long as writes do not nest.
`m_write_thread_id` is a plain `thread::id`; a thread compares it only with its
own id, so a value seen early or late compares unequal just the same.

### TradeGateway

Strategies: `Publish`, `Freeze`, `SendOrder`, `CacheOrder` are the statements of
`submit_order` in order (`Publish` and `Freeze` are the load and the store of
`frozen_cash_ +=`), `CancelOrder` and `SetPendingCancel` those of
`cancel_order`.  Callback thread: `OnOrder` looks the order up, `ProcessOrder`
is the rest of `on_order`, `OnTrade` and `Unfreeze` are `on_trade`.  The
exchange announces what `OnRtnOrder` lets through; `Relogin` begins a session and,
with the resume type "restart", the stream.  Objects and table entries are apart: an
order announced before it is entered, or traded before it is announced, gets a
second object, as in `get_cached_order`.  That function also enters in
`sys_orders_` orders without a number, under the key of the empty one
(`cancel_order` before the announcement) and under "-1" (rejections): these
entries are `unnumbered`, and no trade finds them.  The races of the
unsynchronised tables, between `submit_order` or `cancel_order` and the callback
thread, end the process (`TearMap`); a race of the plain `double` is the
interleaving of load and store.

Orders open positions of one instrument at one price, so cash is counted in
lots.  Closing orders freeze nothing and differ in positions only (`Positions`).
`cancel_order` is part of the broker's interface (`trade/abs_broker.h`) though no
strategy of this commit calls it; the model lets one call it once per order.

### Positions

One instrument of an exchange that tells yesterday's lots from today's, which is
what the two effects CLOSE and CLOSE_TODAY are for (`map_position_effect_from_ctp`
keeps CLOSE_TODAY for SHFE).  `ExchangeTrade` is the exchange, external: it closes the
lots the effect names, the oldest first.  The main thread's `QryPosition`, `NoteDate`
and `BuildPortfolio` are the statements of `connect` that concern positions, the
last one `init_env` with `DataCache::positions` and `account`.  The callback thread's
`on_trade` either sees the old date and then puts the trade into `trades_`
(`SeeOldDate`, `CacheTrade`), or finds no portfolio (`NoPortfolio`), skips a trade
it has seen (`SkipTrade`), or books it (`ApplyOpen`, `ApplyClose`: `apply_trade` with
the whole of `_close_holding`, and `_apply_trade`'s cash).  A strategy's closing
order is `ReadFirst`, `SplitOrder`, `Submit`.

A holding list is the list of the code, front first; `Rest` is what the loop
over `back()` leaves: an entry stays, in part or whole, if more lots lie from it
to the back (`Behind`) than are to be closed. `Opened` is the list `positions()`
makes of the day's opening trades, the newest first, an entry for each that has
a given number of newer ones; sums are the folds of the community modules.
`LotsRight` compares the lists with the exchange's lots one by one (`HasPrices`:
the lots from the end of the list back to a given one have the prices of the
exchange's lots). `back()` of an empty list is undefined: the process ends (`dead = "back"`). A
lot's margin is its price and trading is free, so cash is an integer.
`std::list` read by a strategy while the callback thread changes it is a data
race below the grain of the model: the reads fall between two trades, not inside
one. A trade's id grows with its place in the day, as CTP's does.

### TickFeed

`Tick` and `NotifyNext` are the market data thread: `on_tick` and
`MdSubject::notify`, which goes through the observers one after the other, each
with `StgyObserver::notify` (`Put`). `Wait`, `Check` and `HandleTick` are the
thread of an executor: it takes the whole list, looks at `pause_flag_`, and
gives each tick to `stgy_` (`run`) or to the strategies of the group that trade
the instrument (`run_m`, `Receivers`). `InitExecutor`, `Start`, `StopThread` and
`Restart` are the Python thread. `restart` is not bound in the portal of this
commit; it is modelled as it is. `group` is the set of an executor's
strategies; the loader makes a strategy for one executor and appends it once,
which `FeedAssumption` says. What the code does and the module keeps:
`stgy_` is the first strategy appended even when its `init` failed, so `run`
gives it all ticks (stgy_executor.cpp:30, 122); the observer is attached once
for every strategy and instrument, so a tick of a shared instrument is notified
twice; ticks fetched while a pause begins are dropped.

### Startup

The Python thread is `Connect`, `WaitFor`, `Woken` for each of the two gateways,
one action per query of `CtpTradeGateway::connect` (`ConfirmSettlementInfo`,
`QryInstrument`, `QryAccount`, `QryPosition`, `QryOrder`, `QryCommission`, each
with rows, without, or after its time-out; `Report` is CTP's, which takes the
positions it will send before `QryPosition` has the answer; and `QueryFails` for
the exceptions that the loops retry), `SetDate`, `Build` or `BuildFails`, `InitStrategies` and
`Ready`. The callbacks are `OnFrontConnected`, `OnFrontDisconnected`,
`OnRspUserLogin`, `LoginRefused`, `Resubscribe` and `OnTrade`; the last one and
the Python thread both add instruments, a batch at a time (`AddBatch`).
`connect()` waits without predicate or time limit, so `Notify` wakes only a
thread that waits already, a spurious wake-up uses up a try, and a try that
finds no session makes another instance of the API, which calls back beside the
earlier one.

`odd` notes what the properties leave out, each of which the code does: a trade
announced between CTP's report of the positions and the end of the queries is
never booked (`while_fetching`), nor is one after midnight (`midnight`:
`data_update_date_` is compared with the clock); a trade the fetched positions
include is booked again when it is announced later (`fetched_before`:
`backward_trade_set_` starts empty); a log-in that is notified before the wait
(`lost_notify`), not sent (`unsent`) or refused (`refused`, on the market data
side) leaves `connect()` asleep. A trade between `SetDate` and `InitStrategies`
dereferences the portfolio that is not there yet, and a null answer ends the
process in `cache_ins`, `positions`, `cache_commission` or, later, in
`account()`. `lambda_universe` looks for an order book id in a set of instrument
ids (`SameId`).

### TradingDay

What is done once per trading day. `Start` to `ReadRates` are the commissions:
`CheckDate` and `CompareDate` the two requests of
`check_update_commission_date`, `FetchHeld` and `FetchEach` the queries,
`SaveRates` the commit of the list and its date. `StartEventSource`, `TakeTask`,
`SpuriousWake`, `RunTask` and `Requeue` are the timer's looper;
`CheckAndPublish` and `SetDate` a check with its event. A `set` is buffered on
the connection and reaches redis with the next request on it or at its `release`
(`Commit`), after the listeners of AFTER_TRADING. `Crash` may come between any
two steps, `ExpireList` and `ExpireDate` are redis's, `TimePasses` is the clock,
in parts of a day.

Consequences the properties name: two instruments of one product of which only
one has a rate of its own are charged whichever rate is known first, as
`Env::universe` is still empty when `connect` asks (`Mixed`); an instrument
without a rate leaves a null pointer for a restart on the same day (`no_rate`);
a crash between an event and the commit of its date publishes the event again
(`torn`).

### TxnBook, GridStgy, TimeLineStgy

`TxnBook` has no variables: it is what the helpers, services and daos do to the
book of one transaction (status and counters, slots, costs, locks, groups), as
operators on a record, and one operator for what each save writes into the copy
in redis. The two strategies hold such a record in memory and one in redis, and
three threads that nothing keeps apart: the strategy thread, which sends an
order (`Open`, `Close`, `Lock`, `Unlock`) and notes it only afterwards
(`AddOpenGroup`, `CountOpening`, `AddCloseGroup`, `CountClosing`), the CTP
callback thread (`OnOrder` with `post_open`, `post_close`, `post_lock`,
`post_unlock`; `OnTrade` with their `_after_trade`), and `UpdateSignal` or
`BeforeTrading` from others. `Exchange` decides on an order: it is filled as far
as the lots of the account go, in one trade or two. `Crash` and `Load` are the
restart, with the assertions of `load_long_txn` and `load_short_txn`. Prices are
left out: what a comparison of prices decides is left open, which admits every
behaviour of the code and more.

The code is written for an exchange that sends the final news of an order, then
one trade, and fills what it accepts. `Oddities` are the ways in which it may
not, and the moments the code does not expect; a behaviour meets at most one,
and each property names those it survives:

| oddity | what it breaks |
|---|---|
| `trade_first`: the trade comes before the final news | the book, and locks no longer go on |
| `two_trades`: an order fills in two trades | `post_open_after_trade` enters the group in the costs twice; in a lock the assert of line 288 fails |
| `late_part`: of two close orders only the second ends empty, or its news precedes the first one's trade | the lots and the closing counts, so `BookRight` and `BookAgrees` leave it out |
| `late_trade`: a lock order goes out before an earlier one's trade | the assert of single_grid_stgy.cpp:288: the lock is already complete when the later trade comes |
| `overtaken`: news comes before the order is noted | the counters, never the slots |
| `signal`: LOCKING begins while an open is under way | a lock may outgrow the open lots |
| `no_position`: the account lacks the lots | the book; an unlock stays counted as being closed, and after a restart `load_long_txn` asserts that nothing is |
| `crash`: with an order under way | the book: the order's news finds no group |
| `gap`: a restart cuts the slots before one that holds lots | the lots behind the cut |
| `limit_open` (time line): a limit price while lots are being opened | EXIT with lots |

`crash` includes the groups that cannot be read back: the `GroupDao` constructor
puts the close group's fields into `open_group_fields_`, and the readers by key
never set `group_key` (dao/group_dao.hpp:33, 42–51), so that an order known only
to redis is `Unknown`. `extend_txn_slots` compares with a list that is always
empty (txn_service.hpp:61); a configuration smaller than the lots held fails the
load.

`TimeLineStgy` adds the phases of a day: `HandleTxnStatus` sets STOP from 14:58
on and then ONLY_CLOSE, as both conditions hold; the first tick of the night
sets ONLY_CLOSE too, because "21:00" is compared with "14:45" as a string, so
that the branch for the night never opens. `BeforeTrading` sets RUNNING; it
runs on the timer's thread, between any two steps of the other handlers, before
the next session or, on a first start in the course of the day, at once. The
commands a handler sends to redis are buffered until its commit, so that what it
saves after its last change of memory and the commit are one step.

## 4. Runs

| run | question | bounds | result |
|---|---|---|---|
| `qry_queue` | own answers, one request, FIFO, foreign rows, undefined `front()`, what a notified client finds | 2 interchangeable clients, buffer 2, 2 queries of any kind but "rows", 1 other id | holds |
| `qry_queue_live` | every `qry()` returns; foreign rows | 2 clients, buffer 1, 2 queries, "rows" and "confirm" | holds |
| `rwlock` | exclusion, implements `ReadersWriters`, a waiting writer gets in | 3 threads, depth 2, nested but for writes in writes, write-first | holds |
| `gateway` | frozen cash, what strategies are told | 2 orders of 1 lot, resume | holds |
| `gateway_restart` | positions, events, open orders and final status when the stream is sent again | 1 order of 3 lots, 2 log-ins, restart | holds |
| `positions` | lots, realized profit and cash against the exchange, the split of closing orders | 3 trades of up to 2 lots, 2 of yesterday's, 1 new beginning of the stream or 1 order | holds |
| `ticks` | ticks in order, once; the newest arrives | 2 executors of which one drops ticks, 2 instruments, one shared by two strategies, 2 strategies that fail, 2 ticks, 1 restart | holds |
| `startup` | subscriptions, trades of the day, the start ends | batches of 1, 2 tries, 1 disconnection, 1 error, 2 trades, midnight | holds |
| `trading_day` | commissions of the day, events once and none left out | 2 instruments of one product, 5 parts of a day, runs 1 part late, 3 starts, 1 early wake-up | holds |
| `grid` | book, slots, locks, redis and account agree; no failed assertion; counters return to zero | blocks of 2 slots, 2 groups, configurations 1-1-1 and 2-1, 2 lots a tick, 2 close groups, 1 restart, five oddities | holds |
| `time_line` | book and account agree, the slot is kept, EXIT is flat | slot of 3 lots, 2 groups, 1 close group, 1 restart, 1 more day, two oddities | holds |
| `time_line_close` | a running transaction stops at closing time | slot of 3 lots, no restart | violated |

Two queries already make a late answer meet the next item: a query may time out
on the client's side, on the consumer's or on both. Two clients with an item
each queue up behind each other while another request takes the id between
theirs; the kinds whose answers can be null pointers, or keep old rows, are all
there (4.7 million states, up to exchanging the clients), and "rows", which
differs from the commissions by its reset, is in the other run. Two clients on a buffer of one are the smallest
system in which a client is blocked and one notify_all wakes more than there is
room for. Three threads are two of one kind against one of the other; depth two
is the first nesting. Two orders are the least that race on the tables and on
the cash; three lots the least for trades of different sizes. Two log-ins send
each announcement three times. Three trades are two openings at different prices
and a closing that takes from both, or the two kinds of closing and an order
after them; trades of two lots take one entry and a part of the next.
`MaxEvents` counts new beginnings of the stream and orders together; with two of
them the run holds as well, on 4.4 million states.

Two ticks are the least of which one replaces the other; two executors the least
that share an instrument's observers. One disconnection brings the second
instance of an API, one error each of the failures, two trades the one before
and the one after the fetch. Five parts of a day reach the second day's
AFTER_TRADING; three starts the reuse of what two earlier ones left. Two
configurations of which one has fewer slots make a restart pour lots into other
slots and cut them; two groups and two lots a tick the order that fills in part,
the close of two groups and the lock beside an open one. A slot of three lots is
opened in parts while closes are under way. The other oddities of the strategies
(section 3) are in the modules and not in the runs: no property claims to
survive them.

The read-first mode has the same steps without the look at the waiting writers;
the proofs cover both.

`CHECK_DEADLOCK FALSE` where the bounded number of queries, orders, ticks,
starts, restarts or days ends and the system rests, where the process is dead,
and in the run of the lock, as a thread that writes inside its own read section
stops there, and all that wait for it with it.

`time_line_close` shows a disagreement of code and comment: close() says of STOP
"nearly close time, need close all positions and exit" (time_line_stgy.cpp:439),
but from 14:58 on `handle_txn_status` sets STOP and at once ONLY_CLOSE, in which
close() returns: the positions stay overnight.

Other places where the code does less than one would expect are part of the
modules and are named in the exceptions of the properties:

- The guards of `sm_` protect nothing (`sm_->guard();` destroys its guard at
  once). `TradeGateway`, `GridStgy` and `TimeLineStgy` have no lock, and every
  interleaving of their handlers is in their runs.
- The comment over `RWLock` allows nesting (rwlock.hpp:16); but write in write
  loses the lock at the inner unlock, which lets other threads in while the outer
  section goes on (hence `~NestedWrites`), read in read may wait for ever in
  write-first mode, and write in read waits for ever in both (the exceptions of
  `WriterGetsIn`).
- `qry()` returns a null pointer for a time-out, for a confirmation, refused or
  not, and for an empty answer of the account or the instruments
  (trade_api.cpp:748, 436, 595); the callers cannot tell these apart.
- An order filled in parts without an earlier announcement gets an object as
  large as its first trade; the second one fails the assert in `fill`
  (order.h:125).
- `_close_holding` books a CLOSE_TODAY trade on yesterday's lots; the lists then
  have the right number of lots but not of each kind, and the next closing order
  is split into parts the exchange must refuse (the exception of `LotsRight` and
  `ClosesFit`).
- A reconnection books the trades that the fetched positions include a second
  time (trade_gateway.cpp:465).
- A refused cancel leaves the order PENDING_CANCEL (trade_api.cpp:1258).
- `qry_commission` does not reset `commission_cache_` (trade_api.cpp:1380): after
  an error or an empty packet the next answer has the rows of that request too
  (the exception `LeftFor` of `OwnRows`).

Exceptions written into properties, each of which TLC produces if it is removed:
`FrozenExact` excludes the data race of `frozen_cash_`, an order rejected after
it was marked PENDING_CANCEL (`on_order` ignores REJECTED there), and, when the
stream is sent again, orders announced before they were entered, rejected, or
marked: their cash is released twice. `ToldAll` speaks of orders with one
object, and leaves out parked and cancel-marked orders, whose end is
`ORDER_CANCELLATION_PASS`, for which strategies have no listener. The properties
of `Positions` but `CashBalanced` ask for a `Regular` start: nothing in
`connect` makes the trades taken when the date is set the ones that the report
of the position covers, a trade that falls between the two is counted twice or
never, and when the stream begins anew later, the trades the report covers count
again; `LotsRight` leaves out trades the stream brought twice before the start,
of which `positions()` keeps both. Those of `Startup`, `TickFeed`, `TradingDay`
and the strategies are named in section 3.

## 5. Fairness

`QryQueue`: weak fairness of the client's and consumer's steps (threads run,
timed waits expire) and of the clock. Nothing is assumed of CTP. `RWLock`: weak
fairness of a thread inside an operation and of leaving a section; strong
fairness of the reader's compare-exchange, which may fail spuriously but not for
ever. Nobody has to ask for the lock. `TickFeed`: weak fairness of the
notification and of each executor's thread; ticks need not come. `Startup`: weak
fairness of the Python thread, of the callbacks of each front (a front that is
not connected connects, a log-in is answered), of the subscriptions and of the
trades already sent; trades, faults and the answer to a query need not come:
then its time-out ends it. `GridStgy`: weak fairness of what the strategy thread
has begun, and, for each kind of order, of the exchange's decision and its
messages; prices, signals and restarts need not happen. Everything else is
checked without fairness.

## 6. Proofs

`ThreadProofs` proves of `RWLock`, for any finite set of threads, any depth and
both modes, provided write sections do not nest (`~NestedWrites`), the inductive
invariant `LockInv`, and from it `LockTypeOK`, `ExclusiveWrite`, `UnlockMatches`
and the refinement `PromisedLock`. `ExclusiveWrite` is not inductive: it needs that the
count is the number of read sections or -1 (`LockCount`), that the waiting count
is the number of waiting threads, and what a thread may be in at each point
(`Nesting`). The counts are cardinalities, so the steps that enter or leave a
section rest on lemmas about `ReadSections` and on the theorems of
`FiniteSetTheorems`.

Of `QryQueue` it proves `TypeOK`, `QueueBounded`, `OneOutstanding`,
`SentInOrder` and `OwnReply` for any clients, buffer, interval and bounds. The
invariant `IInv` adds to the types: the queue is the interval of item numbers not yet
popped (`QueueInv`), the ids given so far are those of the items up to the front
and grow with them (`IdsInv`), and the callback thread's call and slot agree
once ids were compared (`AnswerInv`).

A second invariant, `AInv`, is about the answers on their way and gives
`OwnRows`, `NullOnlyIfNull` and `FrontDefined`. A client is woken only for an
item that has data, an error, or an answer that was a null pointer (`WakeInv`),
and only three kinds have such answers (`KindInv`). CTP has still to answer only the request
the consumer waits for and those it gave up (`StreamInv`), so rows of another
request, in a cache, in a call or in an item, belong to one given up, or were
left in the map of the commissions (`RowsInv`). As long as every answer is in time there is one call at a time, for
the request awaited, and it works on the front item (`TimeInv`): this is why the
unlocked `front()` is defined then, and the time-out is what makes it undefined.

`RateLimit`, over `QryQueueTimed`, proves `AtMostTwoPerInterval`: at most two
queries in any interval. The code compares with the end of the previous round,
so a query may follow the one before it at once. `RateInv` says that between two
rounds the last but one query is an interval old, and that from the time the
next one is sent it is as old as the end of the last round (`sinceLast`), which
is what the limit waits for.

`TradeGatewayProofs` proves the six properties of the gateway for any orders of
any size, both ways of resuming the stream and any number of reconnections.
`PositionExact` speaks only of states in which everything has been handled;
`PInv` says what holds before that. CTP's log is a ledger: each trade of an
order starts at or above the lots of every trade before it, at exactly those of
one of them or at 0, and the greatest is what the exchange has filled
(`Ledger`). `backward_trade_set_` holds the trades among the announcements ever
taken (`Booked`), and the position is the greatest of these (`Applied`). A trade
that comes again is therefore dropped, and one that comes for the first time
starts where the position is (`SeenBefore`, `NextTrade`). The threads of the
strategies and the object on which a trade is booked play no part in the
argument, which is why the races among them cannot disturb it.

The other five rest on a second invariant, `OInv`, about objects. `orders_` and
`sys_orders_` know an order only by objects made for it (`ObjectsRight`), a
cancel and the callback thread hold such an object (`CancelRight`,
`CallbackRight`), and what CTP has announced of an order fits its state at the
exchange: after its end only trades follow (`LogRight`).

- `FinalStays`: no handler of the callback thread takes a final status back:
  `on_order` and `on_trade` leave a final object final, and an object that
  `on_trade` makes is as large as its trade, hence filled at once. Only
  `set_pending_cancel` can, on an object whose status was looked at earlier.
- `ToldOnce`: once an end was told, the strategy's object is final, unless
  `cancel_order` writes over it, and its announcement is in the past, so that it
  comes again only with a new beginning of the stream (`ToldRight`).
- `ToldAll`: the lots a strategy was told of are those of the trades it took
  (`LotsTold`), and for an order with one object that object is the strategy's
  (`OwnFound`) and is told of once final (`EndTold`).
- `OpenOrdersCountRight`: an object left in `open_orders_` is one of the two an
  order can be found by (`NamesRight`), and if the order's end was handled it is
  filled (`OpenRight`), as an object notes no more of the trades than there were
  (`TradesFit`).
- `FrozenExact`: every order has a share in the frozen cash, the lots that are
  neither traded nor released (`Share`). Away from the exceptions of the
  property (`Fair`), `frozen_cash_` less what the callback thread is about to
  take off is the sum of the shares, and one thread at a time updates it
  (`CashRight`, `Alone`). So each message must release what its order's share
  loses: the lots of a trade, and at the end of an order what the exchange left
  unfilled, which `EndRight` and `StatusRight` read off the object, and
  `OwnWorked` off the right one. When the stream begins anew an end comes again,
  and must find the object final already (`EndNoted`).

`PositionsProofs` proves `HoldingsRight`, `ClosesFit` and `CashBalanced` for any
prices, any lots held overnight, any trades of any size and any number of
logins. `LogRight`: the exchange holds what the trades of its log add up to, and
never less than nothing. `StartRight`: until the portfolio is built, every trade
the stream gave is in `trades_` or about to be entered, and the report is the
exchange as it was. From then on (`HeldRight`) the trades booked are those after
the report, in order and without a gap, and the lists hold what the log adds up
to so far. The step from the one to the other is `BuildPortfolio`: the lots that
`positions()` cuts off the list of openings are there, as all openings of the
day up to the report are in `trades_` (`RestLots`). A close then never meets
empty lists, because the exchange, which closed first, never held less than
nothing (`BackRight`), and an order is split by what the lists hold, unless a
trade was applied since (`ApiRight`). `CashBalanced` is inductive with the types
alone, and needs no regular start.

`LotsRight` has an invariant of its own, `LInv`. Number the lots of a side in the
order in which they were opened this day. What the exchange holds of today's lots
is always the last of them (`PricesRight`), because it closes the oldest first;
so are the lots the report covers (`ReportRight`) and those in the lists, the last
of the lots reported or applied so far (`ListsRight`). A lot costs what the one
trade it comes from says (`LotFound`, `LotOnce`, `PriceIs`), so two lists that are
as long as each other hold the same prices, and closing from either earns the
same (`Earning`, lot by lot a sum over the lots taken). The list built at the
start is right if the trades in `trades_` are those of the stream in order;
`CacheRight` says that they are, or the stream began anew, or one is there twice,
which are the exceptions of the property.

`SumTheorems` has the facts about sums that the cash and the lots need. The sum
over a finite set (`SumFunctionOnSet`) is a fold, that is, a recursive function,
of which the provers know nothing: the module first shows that its equation has
exactly one solution, then what adding, removing or changing a member, a union,
a subset and a re-indexing do to the sum, what the sum of a difference is and
that of a constant: lemmas for the other proofs, and no results about the system.
Induction over finite sets is done on
a smallest set of which a fact does not hold (`SmallestSet`), so that no theorem
with an operator parameter is needed.

`StartAndFeedProofs` proves `TicksInOrder` of `TickFeed` for any executors, strategies and
instruments, with and without `drop_tick`, and any number of restarts. The ticks
of an instrument that an executor has to do with stand in one line: the one a
strategy has seen, those fetched, those waiting, and the one the market data
thread is notifying (`Lines`). Each is newer than those before it, or the same
one if the observer is attached to the instrument twice (`Follows`).

It also proves `AllSubscribed` and `TradesCounted` of `Startup` for any instruments
and trades, any size of a batch and any number of tries, disconnections and
faults, trades between CTP's report and its answer included. What is in the universe and not subscribed to is in the batch a thread
is just adding, or the callback will subscribe to it (`Subscribed`). From CTP's
report of the positions on each trade of the day is in the positions, booked, or in
the stream of the session (`Accounted`); a position counts a trade as often as
it was fetched with it and booked (`Counted`), which is once (`BookedOnce`). The
exceptions are those `odd` notes.

Of `TradingDay`, `ThreadProofs` proves `PublishedOnce` for any instruments, any time, any
number of starts, crashes, early wake-ups and lateness. The property compares
what was published with the crashes that lost a date; the inductive invariant
accounts for the time in between. Dates in memory and in redis are dates
(`DatesRight`); what is not yet committed was set by this run of the task
(`Buffered`); what memory knows is no older than what redis holds (`Newer`);
what was published for a date is saved in redis, known to this process, or lost
in a noted crash (`Accounted`). A check publishes only for a date newer than the
one it knows, hence one for which nothing was published that is not accounted
for.

`RInv` adds the commissions and gives `RatesRight`: what redis holds is of the
day it is listed under, complete, and forgotten, the list before its date
(`RedisRight`); what is gathered query by query is of the session's day, and
each instrument already passed has its rate (`Gathered`).

`TInv` gives `EveryDayTold`, under the hypothesis `MaxLag <= 2`. A task keeps
the time it is due, however often the looper takes it and puts it back, and all
it owed before that time was published (`DueInTurn`); a run has published what
the place it has reached says (`RunDone`); and a date that is kept was published
(`KeptWasTold`). The hypothesis is needed: a run later than two parts of a day
can find the next date begun, and the settlement of the day before still to
come. The run of TLC has one part.

`TimeLineStgyProofs` proves `SlotHolds` (`WithinSlot`), `BooksAgree`
(`BookAgrees`), `LeavesFlat` (`ExitsFlat`) and `Reloads` (`LoadsRight`) for any
number of groups, a slot of any capacity, any volumes and any number of restarts
and days, with `BeforeTrading` between any two steps. The properties speak of moments at which nothing is under way;
`IInv` has to say what holds between. As long as only `no_position` and
`limit_open` were met, each handler finds the book in one of few shapes: what is
counted as being opened is what the orders at the exchange may still bring; an
open order's group has filled nothing yet, or what its news told; the groups of
a close order are the first of the costs, marked for exactly the lots of the
order; the two parts of a close have filled together what the exchange took off
the account; and redis differs from memory only in what the handler at work has
still to save. The book's operators (`MarkClosing`, `BookClosed`,
`WithoutGroups`, `PlacedOnce`, the slots') have lemmas in `TxnBookProofs` that
say what they do to the lots of each group and to the sum over the list, so that
the proof of a handler adds up numbers and never opens a fold.

`GridStgyProofs` proves `SavedBetweenTicks` (`Recoverable`) for any
configurations, any number of groups and close groups, any volumes and any
number of restarts. `Recoverable` speaks of the moments between two ticks; its
invariant `IInv` says, as long as only oddities it survives were met (`Calm`),
what holds at every point (`Core`), of memory (`BookCore`) and of redis
(`RedisRight`). Redis differs from memory in what the strategy thread, between
an order and its note, has still to save: the marks of the groups being closed
(`Saved`), the counter of an unlock (`TxnSaved`), the slots an open added
(`SlotsSaved`), and nothing else, whatever the callback thread and the signal do
meanwhile. This needs more than the saves: a handler writes the groups its order
names and no others, so one must know that an order that opens has a group of
its own in no list yet (`GroupsRight`), that at most one awaits its news
(`FreshRight`), that at most one order to close or to unlock is under way, in
one part or two (`CloseRight`, `Parts`), and that what is marked as being closed
are lots of its groups (`Marked`, `LotsRight`). `BookCore` and `RedisRight` take
the orders, the place of the strategy thread, the close groups and the book as
parameters: a handler is proved once from what it writes, for each place the
strategy thread may be at.

On top of it `LInv` (`LotsInvariance`) speaks of lots, and gives `LockCovers`
(`LockWithinOpen`) and `LockGoesOn` (`LockHasWork`). Between the news of an order
and its trade its group is counted and in no list, so `LotsCounted` says that the
counters are the sum over the listed groups and those heard of (`Counted`).
A close order is for as many lots as are marked in its groups (`MarksRight`),
which is why what it takes from the counter it takes from the groups. The status
follows the locked lots (`StatusRight`): a lock is over with the trade of the
order that reaches `lockable`, and an unlock with its last lot. Nothing else
moves lots meanwhile (`LockingOnly`), unless the signal came while an order was
under way. No close takes the last group (`Spared`), without which a transaction
could be locked that holds nothing. Each handler has first a lemma that says
what it writes (`OpenNewsIs`, `LastTradeIs`, ...), from which its part of the
invariant follows.

Assumptions: the named `…Assumption` of each module, and in two places a
hypothesis of the theorem: `~NestedWrites` for the lock and `MaxLag <= 2` for
`EveryDayTold`. The bounds of the models (queries, orders, trades, ticks,
starts) are constants of which no theorem asks more than that they are numbers.

Only model-checked:

- liveness (`QryReturns`, `WriterGetsIn`, `TicksArrive`, `StartupEnds`,
  `OrdersEnd`), and everything about ENABLED, which the prover does not handle;
- three invariants of `GridStgy`, `BookRight`, `SlotsRight` and `NeverFails`:
  they compare the lots with the slots and with the account, which the
  invariants proved do not speak of yet.

## 7. Not modelled

The parts marked so in `PROJECT.json`: bindings, configuration and logging are
I/O or glue without control. In the modelled parts:

- the contents of rows and the conversion of CTP fields, ticks, bars and
  reports; prices, costs and profits of the strategies, average open prices and
  profit by last price;
- authentication, as `require_authentication_` is never set; the run type
  COLLECT; what nothing calls (the other queries, `logout`, `dettach`, `clear`,
  `safe_grab`); `OnRspOrderInsert` (CTP sends it with an error, on which the
  handler returns); the refusal of a cancel, which changes no state;
- lots frozen by closing orders under way, the cash frozen by orders active at
  the start, exchanges without CLOSE_TODAY, what `trades_` holds on a second
  day, and the state of the order tables before the data are synchronised;
- a dropped connection to redis, which throws in a thread of cpp_redis; the
  choice of a connection by the pool; the adjustment of a tick's date
  (`adjust_action_date`);
- the timer's mutexes, which are constructed after its thread has started, and
  its schedule functions without a caller;
- data races below the grain of a read of a container (the observers' map, the
  `std::list`s of holdings, a `QryItem`'s fields), except where the model says
  that they end the process.
