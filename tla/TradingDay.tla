----------------------------- MODULE TradingDay -----------------------------
(***************************************************************************)
(* What the program does once per trading day, and keeps in redis so as    *)
(* not to do it again after a restart: fetch the commissions (the last     *)
(* query of CtpTradeGateway::connect) and publish BEFORE_TRADING and       *)
(* AFTER_TRADING (TradeEventSource, run by the looper thread of Timer      *)
(* every minute).  Sources: src/src/ctp/trade_gateway.cpp,                 *)
(* service/future_info_service.hpp, dao/future_info_dao.hpp,               *)
(* event/event_source.cpp, base/timer.hpp.                                 *)
(*                                                                         *)
(* Time is counted in parts of a day of at least one period of the timer:  *)
(* until 03:20 (SETTLEMENT_TIME), two parts of the day, and from 21:00 on, *)
(* when CTP's trading day is the next one.  Instruments are those whose    *)
(* id matches "^\\D+\\d{4}$"; the others get no commission.  A query that  *)
(* fails ends the program, which Crash stands for.                         *)
(***************************************************************************)
EXTENDS Integers, FiniteSets

CONSTANTS
    Instruments,    \* instruments of ins_ with a commission
    Products,       \* their underlying symbols
    ProductOf,      \* [Instruments -> Products]
    MaxNow,         \* bound: the last part of a day
    MaxLag,         \* assumption: parts of a day a run of the task may be late
    MaxStarts,      \* bound: starts of the program
    MaxSpurious     \* bound: spurious wake-ups of the looper

Parts == 4

ASSUME DayAssumption ==
    /\ ProductOf \in [Instruments -> Products]
    /\ Instruments \cap Products = {}
    /\ MaxNow \in Nat /\ MaxLag \in Nat /\ MaxStarts \in Nat /\ MaxSpurious \in Nat

VARIABLES
    now,        \* the time
    own,        \* instruments CTP keeps a rate of their own for, not of the product
    none,       \* instruments whose query has an empty answer
    main,       \* where the Python thread is, in connect() or after it
    todo,       \* instruments of ins_ its loop has not come to
    seen,       \* tmp_comm_map
    day,        \* the trading day of the session, Env::trading_date
    rates,      \* future_info_: the commission of each instrument
    list,       \* redis, COMMISSION_LIST: row key -> rate, and when it expires
    listed,     \* redis, COMMISSION_DATE: a trading day, and when it expires
    fail,       \* why the last start failed
    looper,     \* where the looper thread is
    task,       \* the task it has taken: start_time and delay
    tasks,      \* _queue
    stamp,      \* now_datetime of the run
    known,      \* before_trading_date_, after_trading_date_
    unsent,     \* was one of them set in redis by a command not yet committed?
    saved,      \* redis, BEFORE_TRADING_DATE_KEY and AFTER_TRADING_DATE_KEY
    told,       \* [event -> [date -> times published]]
    torn,       \* [event -> [date -> crashes after it, before it was saved]]
    since,      \* when the event source was started
    starts, wakes

dataVars   == <<own, none, main, todo, seen, day, rates, list, listed, fail>>
looperVars == <<looper, task, tasks, stamp, known, unsent>>
eventVars  == <<saved, told, torn>>
bounds     == <<since, starts, wakes>>
dayVars    == <<now, own, none, main, todo, seen, day, rates, list, listed, fail, looper,
                task, tasks, stamp, known, unsent, saved, told, torn, since, starts, wakes>>

Events == {"before", "after"}

(* The calendar date, and the trading day CTP's getTradingDay returns.     *)
Date(t)       == 1 + t \div Parts
TradingDay(t) == IF t % Parts = Parts - 1 THEN Date(t) + 1 ELSE Date(t)
Settled(t)    == t % Parts >= 1

Dates   == 1..(MaxNow + 2)
MinDate == 0        \* MIN_DATE
Empty   == -1       \* a date the process has not read from redis yet

NoRate == [key |-> "none", day |-> MinDate]
Gone   == [day |-> MinDate, until |-> MinDate]

(* The row that CTP answers with, under the id of the instrument or of its *)
(* product.  The rates of two days differ.                                 *)
Rate(i, d) == [key |-> IF i \in own THEN i ELSE ProductOf[i], day |-> d]
RateRows(s, d) == [k \in {Rate(i, d).key : i \in s} |-> [key |-> k, day |-> d]]

(* The rows of an answer are put over those that are there.                *)
Added(m, n) == [k \in DOMAIN m \cup DOMAIN n |-> IF k \in DOMAIN m THEN m[k] ELSE n[k]]

NoMap == [k \in {} |-> NoRate]

DayInit ==
    /\ now = 0
    /\ own \in SUBSET Instruments /\ none \in SUBSET Instruments
    /\ main = "down" /\ todo = {} /\ seen = NoMap
    /\ day = MinDate /\ rates = [i \in Instruments |-> NoRate]
    /\ list = [rows |-> NoMap, until |-> MinDate] /\ listed = Gone /\ fail = "no"
    /\ looper = "none" /\ task = [start |-> 0, delay |-> 0] /\ tasks = {} /\ stamp = 0
    /\ known = [e \in Events |-> Empty] /\ unsent = [e \in Events |-> FALSE]
    /\ saved = [e \in Events |-> MinDate]
    /\ told = [e \in Events |-> [d \in Dates |-> 0]]
    /\ torn = [e \in Events |-> [d \in Dates |-> 0]]
    /\ since = 0 /\ starts = 0 /\ wakes = 0

-----------------------------------------------------------------------------
(* The end of the process, and what is lost with it.                       *)
Ends ==
    /\ main' = "down" /\ todo' = {} /\ seen' = NoMap
    /\ rates' = [i \in Instruments |-> NoRate]
    /\ looper' = "none" /\ tasks' = {}
    /\ known' = [e \in Events |-> Empty] /\ unsent' = [e \in Events |-> FALSE]

(* connect() up to its last query; CTP gives the trading day at log-in.    *)
Start ==
    /\ main = "down" /\ starts < MaxStarts
    /\ starts' = starts + 1
    /\ main' = "check"
    /\ day' = TradingDay(now) /\ fail' = "no"
    /\ UNCHANGED <<now, own, none, todo, seen, rates, list, listed, looperVars, eventVars, since, wakes>>

(* FutureInfoService::check_update_commission_date, in two requests.       *)
CheckDate ==
    /\ main = "check"
    /\ main' = IF listed = Gone THEN "fetch" ELSE "date"
    /\ UNCHANGED <<now, own, none, todo, seen, day, rates, list, listed, fail, looperVars,
                   eventVars, bounds>>

OutdatedNever(rec) == FALSE
Outdated(rec) == rec < day

CompareDate ==
    /\ main = "date"
    /\ IF listed = Gone
       THEN /\ Ends /\ fail' = "expired"    \* as_string() of a null reply
            /\ UNCHANGED <<task, stamp>>
       ELSE /\ main' = IF Outdated(listed.day) THEN "fetch" ELSE "read"
            /\ UNCHANGED <<todo, seen, rates, fail, looperVars>>
    /\ UNCHANGED <<now, own, none, day, list, listed, eventVars, bounds>>

(* qry_commission(""): the rates of the instruments the account holds.     *)
FetchHeld ==
    /\ main = "fetch"
    /\ main' = "each"
    /\ todo' = Instruments
    /\ \E held \in SUBSET (Instruments \ none) : seen' = RateRows(held, day)
    /\ UNCHANGED <<now, own, none, day, rates, list, listed, fail, looperVars, eventVars,
                   bounds>>

(* Env::universe while connect() runs: the strategies are loaded later.    *)
Universe == {}

(* DataCache::cache_commission.                                            *)
Charged(i, rate) == [rates EXCEPT ![i] = rate]

(* The loop over ins_, an unordered map: a rate that is there under the    *)
(* product is used, otherwise the instrument is asked for.                 *)
FetchEach ==
    /\ main = "each"
    /\ \E i \in todo :
          /\ todo' = todo \ {i}
          /\ IF ProductOf[i] \in DOMAIN seen /\ i \notin Universe
             THEN rates' = Charged(i, seen[ProductOf[i]]) /\ UNCHANGED seen
             ELSE /\ rates' = IF i \in none THEN rates ELSE Charged(i, Rate(i, day))
                  /\ seen' = Added(RateRows({i} \ none, day), seen)
    /\ UNCHANGED <<now, own, none, main, day, list, listed, fail, looperVars, eventVars, bounds>>

(* Both keys expire after 24 hours.                                        *)
AddCommissions    == list' = [rows |-> seen, until |-> now + Parts]
SetCommissionDate == listed' = [day |-> day, until |-> now + Parts]

(* The commands of both are committed together, when the connection goes   *)
(* back to the pool.                                                       *)
SaveRates ==
    /\ main = "each" /\ todo = {}
    /\ AddCommissions /\ SetCommissionDate
    /\ main' = "fetched" /\ seen' = NoMap
    /\ UNCHANGED <<now, todo, own, none, day, rates, fail, looperVars, eventVars, bounds>>

GetCommissions == list.rows

(* The other branch of qry_commission; a rate that is not there is a null  *)
(* pointer for cache_commission.                                           *)
ReadRates ==
    LET rows == GetCommissions
    IN  /\ main = "read"
        /\ IF \A i \in Instruments : {i, ProductOf[i]} \cap DOMAIN rows # {}
           THEN /\ rates' = [i \in Instruments |->
                                rows[IF i \in DOMAIN rows THEN i ELSE ProductOf[i]]]
                /\ main' = "fetched"
                /\ UNCHANGED <<todo, seen, fail, looperVars>>
           ELSE /\ Ends /\ fail' = IF list.until = MinDate THEN "expired" ELSE "no_rate"
                /\ UNCHANGED <<task, stamp>>
        /\ UNCHANGED <<now, own, none, day, list, listed, eventVars, bounds>>

(* Timer::schedule with a period: the task is due at once.                 *)
TimerTask(delay) == [start |-> now, delay |-> delay]
Scheduled        == {TimerTask(0)}

(* init_env, the executors, and StgyExecutor::start_event_source.          *)
(* Timer::default_timer starts the looper.                                 *)
StartEventSource ==
    /\ main = "fetched"
    /\ main' = "ready"
    /\ tasks' = Scheduled
    /\ looper' = "idle"
    /\ since' = now
    /\ UNCHANGED <<now, own, none, todo, seen, day, rates, list, listed, fail, task, stamp, known,
                   unsent, eventVars, starts, wakes>>

-----------------------------------------------------------------------------
(* Timer::run.  One task is ever scheduled, so the queue has at most one.  *)
Period == 1
Left(t) == TimerTask(t.delay - (now - t.start))

TakeTask ==
    /\ looper = "idle"
    /\ \E t \in tasks : task' = Left(t) /\ tasks' = tasks \ {t}
    /\ looper' = "waiting"
    /\ UNCHANGED <<now, dataVars, stamp, known, unsent, eventVars, bounds>>

(* wait_for ends before the time is up: the task goes back to the queue.   *)
PushedBackNot(t) == {}
PushedBack(t) == {Left(t)}

SpuriousWake ==
    /\ looper = "waiting" /\ wakes < MaxSpurious
    /\ tasks' = tasks \cup PushedBack(task)
    /\ looper' = "idle"
    /\ wakes' = wakes + 1
    /\ UNCHANGED <<now, dataVars, task, stamp, known, unsent, eventVars, since, starts>>

(* The time is up: the task reads the clock before anything else.          *)
RunTask ==
    /\ looper = "waiting" /\ now >= task.start + task.delay
    /\ looper' = "before"
    /\ stamp' = now
    /\ UNCHANGED <<now, dataVars, task, tasks, known, unsent, eventVars, bounds>>

(* The commands sent so far reach redis.                                   *)
Committed == [e \in Events |-> IF unsent[e] THEN known[e] ELSE saved[e]]
Commit    == saved' = Committed /\ unsent' = [e \in Events |-> FALSE]

Target(e)  == IF e = "before" THEN day ELSE Date(stamp)
Setting(e) == IF e = "before" THEN "set_before" ELSE "set_after"
AfterEvent(e)   == IF e = "before" THEN "after" ELSE "requeue"

(* check_before_trading, check_after_trading: the date is read from redis  *)
(* by the first run, which also commits what was set before.               *)
LastDate(e) == IF known[e] = Empty THEN saved[e] ELSE known[e]

MustPublishAgain(e) == LastDate(e) <= Target(e) /\ (e = "after" => Settled(stamp))
MustPublish(e) == LastDate(e) < Target(e) /\ (e = "after" => Settled(stamp))

(* The check and, if it says so, the event with all its listeners, in the  *)
(* looper's thread.                                                        *)
CheckAndPublish(e) ==
    /\ looper = e
    /\ known' = [known EXCEPT ![e] = LastDate(e)]
    /\ IF known[e] = Empty THEN Commit ELSE UNCHANGED <<saved, unsent>>
    /\ IF MustPublish(e)
       THEN /\ told' = [told EXCEPT ![e][Target(e)] = @ + 1]
            /\ looper' = Setting(e)
       ELSE looper' = AfterEvent(e) /\ UNCHANGED told
    /\ UNCHANGED <<now, dataVars, task, tasks, stamp, torn, bounds>>

(* The date is kept, and set in redis by a command that is only buffered.  *)
SetDate(e) ==
    /\ looper = Setting(e)
    /\ known' = [known EXCEPT ![e] = Target(e)]
    /\ unsent' = [unsent EXCEPT ![e] = TRUE]
    /\ looper' = AfterEvent(e)
    /\ UNCHANGED <<now, dataVars, task, tasks, stamp, eventVars, bounds>>

(* The connection goes back to the pool, RedisPool::release commits, and   *)
(* the task is due one period after it was due.                            *)
Requeue ==
    /\ looper = "requeue"
    /\ Commit
    /\ tasks' = tasks \cup {TimerTask(task.delay + Period - (now - task.start))}
    /\ looper' = "idle"
    /\ UNCHANGED <<now, dataVars, task, stamp, known, told, torn, bounds>>

-----------------------------------------------------------------------------
(* The process ends at any moment; `torn' notes the dates that were        *)
(* published and did not reach redis.                                      *)
Lost(e, d) == \/ looper = Setting(e) /\ d = Target(e)
              \/ unsent[e] /\ d = known[e]

Crash ==
    /\ main # "down"
    /\ Ends
    /\ torn' = [e \in Events |-> [d \in Dates |->
                   IF Lost(e, d) THEN torn[e][d] + 1 ELSE torn[e][d]]]
    /\ UNCHANGED <<now, own, none, day, list, listed, fail, task, stamp, saved, told, bounds>>

(* redis deletes the list a moment before the date that was set after it.  *)
ExpireList ==
    /\ list.until # MinDate /\ now >= list.until
    /\ list' = [rows |-> NoMap, until |-> MinDate]
    /\ UNCHANGED <<now, own, none, main, todo, seen, day, rates, listed, fail, looperVars,
                   eventVars, bounds>>

ExpireDate ==
    /\ listed # Gone /\ now >= listed.until /\ list.until = MinDate
    /\ listed' = Gone
    /\ UNCHANGED <<now, own, none, main, todo, seen, day, rates, list, fail, looperVars,
                   eventVars, bounds>>

(* Time: redis expires keys in time, and a run, with the listeners of its  *)
(* events, is at most MaxLag parts of a day late.                          *)
DueTasks == tasks \cup IF looper \in {"none", "idle"} THEN {} ELSE {task}

TimePasses ==
    /\ now < MaxNow
    /\ list.until = MinDate \/ now < list.until
    /\ listed = Gone \/ now < listed.until
    /\ \A t \in DueTasks : now < t.start + t.delay + MaxLag
    /\ now' = now + 1
    /\ UNCHANGED <<dataVars, looperVars, eventVars, bounds>>

DayNext ==
    \/ Start \/ CheckDate \/ CompareDate \/ FetchHeld \/ FetchEach \/ SaveRates \/ ReadRates
    \/ StartEventSource
    \/ TakeTask \/ SpuriousWake \/ RunTask
    \/ \E e \in Events : CheckAndPublish(e) \/ SetDate(e)
    \/ Requeue
    \/ Crash \/ ExpireList \/ ExpireDate \/ TimePasses

DaySpec == DayInit /\ [][DayNext]_dayVars

-----------------------------------------------------------------------------
(* The types (FutureInfoService, TradeEventSource, Timer).                 *)
DayTypeOK ==
    /\ now \in 0..MaxNow /\ day \in Dates \cup {MinDate}
    /\ own \subseteq Instruments /\ none \subseteq Instruments
    /\ main \in {"down", "check", "date", "fetch", "each", "read", "fetched", "ready"}
    /\ todo \subseteq Instruments
    /\ looper \in {"none", "idle", "waiting", "requeue"} \cup Events
                    \cup {Setting(e) : e \in Events}
    /\ Cardinality(tasks) <= 1
    /\ known \in [Events -> Dates \cup {MinDate, Empty}]
    /\ unsent \in [Events -> BOOLEAN]
    /\ saved \in [Events -> Dates \cup {MinDate}]
    /\ told \in [Events -> [Dates -> Nat]] /\ torn \in [Events -> [Dates -> Nat]]

(* Are some instruments of the product charged their own rate and others   *)
(* the product's?  The product's, once known, is used for all of them.     *)
Mixed(p) == \E i, j \in Instruments :
               ProductOf[i] = p /\ ProductOf[j] = p /\ i \in own /\ j \notin own

(* Whatever earlier starts have left in redis, and however long ago, a     *)
(* start that succeeds charges each instrument CTP's rate for it of the    *)
(* trading day; the exceptions are the products with rates of both kinds   *)
(* and the instruments for which CTP has none, for which alone a start     *)
(* finds a null pointer (qry_commission, FutureInfoService).               *)
RatesRight ==
    /\ main \in {"fetched", "ready"} =>
          \A i \in Instruments \ none :
             ~Mixed(ProductOf[i]) => rates[i] = Rate(i, day)
    /\ fail = "no_rate" => none # {}

(* BEFORE_TRADING and AFTER_TRADING are published once for a date, also    *)
(* across restarts, and once more for each crash between the event and the *)
(* commit of the date (TradeEventSource::start).                           *)
PublishedOnce ==
    \A e \in Events : \A d \in Dates : told[e][d] <= 1 + torn[e][d]

(* None is left out: a process that is up from 03:20 of a day to its end   *)
(* publishes AFTER_TRADING for it, and one that is up for longer than a    *)
(* run may be late has published BEFORE_TRADING for its trading day, or an *)
(* earlier one has (TradeEventSource::start, Timer::run).                  *)
EveryDayTold ==
    main = "ready" =>
        /\ \A d \in Dates : since < (d - 1) * Parts + 2 /\ now >= d * Parts
              => told["after"][d] >= 1
        /\ now > since + MaxLag => told["before"][day] >= 1
=============================================================================
