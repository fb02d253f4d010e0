----------------------------- MODULE Positions ------------------------------
(***************************************************************************)
(* iqt::trade::FuturePosition (src/src/trade/future_position.{h,cpp}), the *)
(* cash of FutureAccount, how CtpTradeGateway::connect builds both from    *)
(* what CTP reports (src/src/ctp/trade_gateway.cpp) and how ApiFuture      *)
(* splits a closing order (src/src/trade/api_future.cpp), for one          *)
(* instrument of an exchange that tells yesterday's lots from today's.     *)
(*                                                                         *)
(* The main thread queries the position, notes the date and builds the     *)
(* portfolio, while the callback thread takes the day's trades from CTP's  *)
(* stream: it keeps those that come before the date is noted, and applies  *)
(* the others.  A strategy thread places orders once the portfolio is      *)
(* there.  A lot's margin is its price, and costs nothing to trade.        *)
(***************************************************************************)
EXTENDS Integers, Sequences, FiniteSets, SequencesExt

CONSTANTS
    PriceOf,        \* the price of each trade of the day
    PreSettlement,  \* yesterday's settlement price
    OldLots,        \* yesterday's lots, by side
    Balance,        \* account_->pre_balance
    Amounts,        \* lots a strategy orders
    MaxLots,        \* bound: lots of a trade
    MaxEvents       \* bound: times the stream begins anew, and closing orders

Sides   == {"BUY", "SELL"}
Effects == {"OPEN", "CLOSE", "CLOSE_TODAY"}

ASSUME ConstAssumption ==
    /\ PriceOf \in Seq(Nat \ {0}) /\ PreSettlement \in Nat \ {0}
    /\ OldLots \in [Sides -> Nat] /\ \E s \in Sides : OldLots[s] > 0
    /\ Balance \in Int
    /\ Amounts \subseteq Nat \ {0}
    /\ MaxLots \in Nat \ {0} /\ MaxEvents \in Nat

VARIABLES
    exOld,      \* the exchange: yesterday's lots it holds, by side
    exToday,    \* today's, the price of each, oldest first
    exRealized, \* what closing has earned
    log,        \* the trades of the day
    got,        \* how many of them the callback thread has taken
    relogins,   \* how often the stream has begun anew
    sync,       \* how far connect is
    report,     \* what qry_position returned
    reported,   \* number of trades that covers
    noted,      \* got when data_update_date_ was set
    again,      \* the stream began anew after that
    entering,   \* a trade on_trade is about to put into trades_, or none
    late,       \* it was when the portfolio was built
    cached,     \* trades_
    holding,    \* the holding lists: front first, a price and lots in each entry
    realized,   \* buy_realized_pnl_ + sell_realized_pnl_
    cash,       \* total_cash_
    backward,   \* backward_trade_set_
    api,        \* the strategy thread in ApiFuture::order
    orders,     \* number of closing orders it was called for
    dead        \* why the process died: "no", "null" or "back"

exchange == <<exOld, exToday, exRealized, log>>
stream   == <<got, relogins, again>>
caching  == <<entering, cached>>
start    == <<sync, report, reported, noted, late>>
account  == <<holding, realized, cash, backward>>
strategy == <<orders, api>>
vars     == <<exOld, exToday, exRealized, log, got, relogins, sync, report, reported, noted,
              again, entering, late, cached, holding, realized, cash, backward, orders, api, dead>>

Other(s) == IF s = "BUY" THEN "SELL" ELSE "BUY"

(* The side whose lots a trade or an order adds to or takes from.          *)
HeldSide(m) == IF m.effect = "OPEN" THEN m.side ELSE Other(m.side)

(* What lots of side s bought (sold) at price from earn when they are      *)
(* closed at price to: _cal_realized_pnl, for the other side.              *)
Earned(s, from, to) == IF s = "BUY" THEN to - from ELSE from - to

Lots(list)  == SumFunction([i \in DOMAIN list |-> list[i].lots])
Value(list) == SumFunction([i \in DOMAIN list |-> list[i].price * list[i].lots])

Margin(h) == Value(h["BUY"].old) + Value(h["BUY"].today)
                + Value(h["SELL"].old) + Value(h["SELL"].today)

Held(s) == Lots(holding[s].old) + Lots(holding[s].today)

NoOrder   == [at |-> "idle", side |-> "BUY", effect |-> "OPEN", amount |-> 0, first |-> 0,
              seen |-> 0, parts |-> <<>>]
NoHolding == [s \in Sides |-> [old |-> <<>>, today |-> <<>>]]
NoReport  == [old |-> OldLots, today |-> [s \in Sides |-> 0], realized |-> 0]

Init ==
    /\ exOld = OldLots /\ exToday = [s \in Sides |-> <<>>] /\ exRealized = 0 /\ log = <<>>
    /\ got = 0 /\ relogins = 0 /\ again = FALSE
    /\ sync = "logged_in" /\ report = NoReport /\ reported = 0 /\ noted = 0
    /\ entering = <<>> /\ late = FALSE /\ cached = <<>>
    /\ holding = NoHolding /\ realized = 0 /\ cash = 0 /\ backward = {}
    /\ orders = 0 /\ api = NoOrder
    /\ dead = "no"

-----------------------------------------------------------------------------
(* The exchange.  CLOSE takes yesterday's lots, CLOSE_TODAY today's.       *)

ExchangeTrade(side, effect, lots) ==
    /\ Len(log) < Len(PriceOf)
    /\ LET price == PriceOf[Len(log) + 1]
           m == [id |-> Len(log) + 1, side |-> side, effect |-> effect, lots |-> lots,
                 price |-> price]
           s == HeldSide(m)
       IN  /\ log' = Append(log, m)
           /\ \/ /\ effect = "OPEN"
                 /\ exToday' = [exToday EXCEPT ![s] = @ \o [i \in 1..lots |-> price]]
                 /\ UNCHANGED <<exOld, exRealized>>
              \/ /\ effect = "CLOSE" /\ exOld[s] >= lots
                 /\ exOld' = [exOld EXCEPT ![s] = @ - lots]
                 /\ exRealized' = exRealized + lots * Earned(s, PreSettlement, price)
                 /\ UNCHANGED exToday
              \/ /\ effect = "CLOSE_TODAY" /\ Len(exToday[s]) >= lots
                 /\ exToday' = [exToday EXCEPT ![s] = SubSeq(@, lots + 1, Len(@))]
                 /\ exRealized' = exRealized +
                      SumFunction([i \in 1..lots |-> Earned(s, exToday[s][i], price)])
                 /\ UNCHANGED exOld
    /\ UNCHANGED <<stream, start, caching, account, strategy, dead>>

(* CTP logs in again and sends the private stream from the beginning,      *)
(* which is something new once a trade has been taken from it.             *)
Relogin ==
    /\ relogins + orders < MaxEvents /\ got > 0
    /\ relogins' = relogins + 1
    /\ got' = 0
    /\ again' = (sync \in {"dated", "ready"})
    /\ UNCHANGED <<exchange, start, caching, account, strategy, dead>>

-----------------------------------------------------------------------------
(* Taking lots from the back of a list, where the oldest are.              *)

Behind(list, i) == Lots(SubSeq(list, i + 1, Len(list)))

(* Mutant of Taken: the lots are taken from the newest entry.              *)
TakenNewest(list, i, left) ==
    LET room == left - Lots(SubSeq(list, 1, i - 1))
    IN  IF room <= 0 THEN 0 ELSE IF room < list[i].lots THEN room ELSE list[i].lots

(* How many lots entry i gives when left lots are taken.                   *)
Taken(list, i, left) ==
    LET room == left - Behind(list, i)
    IN  IF room <= 0 THEN 0 ELSE IF room < list[i].lots THEN room ELSE list[i].lots

(* The list without them: an entry goes if all behind it go and all of it. *)
Rest(list, left) ==
    [i \in {i \in DOMAIN list : Behind(list, i - 1) > left} |->
        [list[i] EXCEPT !.lots = @ - Taken(list, i, left)]]

(* What the lots taken earn at a price.                                    *)
Earning(s, list, left, price) ==
    SumFunction([i \in DOMAIN list |-> Taken(list, i, left) * Earned(s, list[i].price, price)])

(* Mutant of FromOld: today's lots go first.                               *)
FromOldNone(h, lots) == 0

(* _close_holding: once from yesterday's entry, then from today's.         *)
FromOld(h, lots) == IF lots < Lots(h.old) THEN lots ELSE Lots(h.old)

-----------------------------------------------------------------------------
(* The main thread in connect.                                             *)

QryPosition ==
    /\ sync = "logged_in"
    /\ sync' = "queried"
    /\ report' = [old |-> exOld, today |-> [s \in Sides |-> Len(exToday[s])],
                  realized |-> exRealized]
    /\ reported' = Len(log)
    /\ UNCHANGED <<exchange, stream, noted, late, caching, account, strategy, dead>>

NoteDate ==
    /\ sync = "queried"
    /\ sync' = "dated"
    /\ noted' = got
    /\ UNCHANGED <<exchange, stream, report, reported, late, caching, account, strategy, dead>>

(* DataCache::positions: the opening trades there are of a side, newest    *)
(* first.  As a mutant of TodayList: nothing is cut.                       *)
Opened(s) ==
    LET opens    == {i \in DOMAIN cached : cached[i].effect = "OPEN" /\ cached[i].side = s}
        Newer(i) == {j \in opens : \/ cached[j].id > cached[i].id
                                   \/ cached[j].id = cached[i].id /\ j < i}
        Nth(k)   == cached[CHOOSE i \in opens : Cardinality(Newer(i)) = k - 1]
    IN  [k \in 1..Cardinality(opens) |-> [price |-> Nth(k).price, lots |-> Nth(k).lots]]

(* process_today_holding_list: the oldest go, as many as the report lacks. *)
TodayList(s) == Rest(Opened(s), Lots(Opened(s)) - report.today[s])

(* init_env: DataCache::positions and DataCache::account.                  *)
BuildPortfolio ==
    /\ sync = "dated"
    /\ sync' = "ready"
    /\ holding' = [s \in Sides |-> [old |-> <<[price |-> PreSettlement, lots |-> report.old[s]]>>,
                                    today |-> TodayList(s)]]
    /\ realized' = report.realized
    /\ cash' = Balance + report.realized - Margin(holding')
    /\ backward' = {}
    /\ late' = (entering # <<>>)
    /\ UNCHANGED <<exchange, stream, report, reported, noted, caching, strategy, dead>>

-----------------------------------------------------------------------------
(* The callback thread in on_trade and FuturePosition::apply_trade.        *)

Msg  == log[got + 1]
Take == got < Len(log) /\ entering = <<>> /\ got' = got + 1

SeeOldDate ==
    /\ Take
    /\ sync \in {"logged_in", "queried"}
    /\ entering' = <<Msg>>
    /\ UNCHANGED <<exchange, relogins, again, start, cached, account, strategy, dead>>

CacheTrade ==
    /\ entering # <<>>
    /\ cached' = cached \o entering
    /\ entering' = <<>>
    /\ UNCHANGED <<exchange, stream, start, account, strategy, dead>>

(* Between the date and the portfolio, Env::portfolio is null.             *)
NoPortfolio ==
    /\ Take
    /\ sync = "dated"
    /\ dead' = "null"
    /\ UNCHANGED <<exchange, relogins, again, start, caching, account, strategy>>

SkipTrade ==
    /\ Take
    /\ sync = "ready" /\ Msg.id \in backward
    /\ UNCHANGED <<exchange, relogins, again, start, caching, account, strategy, dead>>

(* Mutant of Apply: what closing earned is not booked.                     *)
ApplyNoEarning(h, delta, pnl) ==
    /\ holding' = h
    /\ cash' = cash + delta
    /\ backward' = backward \cup {Msg.id}
    /\ UNCHANGED realized

(* FutureAccount::_apply_trade with the lists, the delta of cash and the   *)
(* earnings that FuturePosition::apply_trade works out.                    *)
Apply(h, delta, pnl) ==
    /\ holding' = h
    /\ realized' = realized + pnl
    /\ cash' = cash + delta
    /\ backward' = backward \cup {Msg.id}

ApplyOpen ==
    /\ Take
    /\ sync = "ready" /\ Msg.id \notin backward
    /\ Msg.effect = "OPEN"
    /\ Apply([holding EXCEPT ![Msg.side].today =
                <<[price |-> Msg.price, lots |-> Msg.lots]>> \o @],
             -(Msg.price * Msg.lots), 0)
    /\ UNCHANGED <<exchange, relogins, again, start, caching, strategy, dead>>

(* Whatever the trade's effect, yesterday's lots go first.  back() of an   *)
(* empty list is undefined.                                                *)
ApplyClose ==
    /\ Take
    /\ sync = "ready" /\ Msg.id \notin backward
    /\ Msg.effect # "OPEN"
    /\ LET s    == HeldSide(Msg)
           h    == holding[s]
           old  == FromOld(h, Msg.lots)
           left == Msg.lots - old
           rest == [holding EXCEPT ![s] = [old |-> Rest(h.old, old), today |-> Rest(h.today, left)]]
           pnl  == Earning(s, h.old, old, Msg.price) + Earning(s, h.today, left, Msg.price)
       IN  IF left > Lots(h.today)
             THEN dead' = "back" /\ UNCHANGED account
             ELSE Apply(rest, Margin(holding) - Margin(rest) + pnl, pnl) /\ UNCHANGED dead
    /\ UNCHANGED <<exchange, relogins, again, start, caching, strategy>>

-----------------------------------------------------------------------------
(* A strategy thread in ApiFuture::order with an order that closes: it     *)
(* reads the lots of the kind asked for, then those of both kinds, and     *)
(* splits the order.  One that opens looks at nothing.                     *)

FirstList(side, effect) ==
    IF effect = "CLOSE_TODAY" THEN holding[Other(side)].today ELSE holding[Other(side)].old

ReadFirst(side, effect, amount) ==
    /\ effect # "OPEN"
    /\ sync = "ready" /\ api.at = "idle"
    /\ relogins + orders < MaxEvents
    /\ orders' = orders + 1
    /\ api' = [NoOrder EXCEPT !.at = "read", !.side = side, !.effect = effect,
                 !.amount = amount, !.seen = Cardinality(backward),
                 !.first = Lots(FirstList(side, effect))]
    /\ UNCHANGED <<exchange, stream, start, caching, account, dead>>

Second(effect) == IF effect = "CLOSE" THEN "CLOSE_TODAY" ELSE "CLOSE"

Part(effect, amount) == [effect |-> effect, amount |-> amount]

(* Nothing if there are not so many lots; else what there is of the kind   *)
(* asked for, then the other kind for what is left.                        *)
Parts(o) ==
    CASE o.amount > Held(Other(o.side)) -> <<>>
      [] o.amount <= Held(Other(o.side)) /\ o.amount <= o.first -> <<Part(o.effect, o.amount)>>
      [] OTHER -> (IF o.first > 0 THEN <<Part(o.effect, o.first)>> ELSE <<>>)
                    \o <<Part(Second(o.effect), o.amount - o.first)>>

SplitOrder ==
    /\ api.at = "read"
    /\ api' = [api EXCEPT !.at = "split", !.parts = Parts(api)]
    /\ UNCHANGED <<exchange, stream, start, caching, account, orders, dead>>

Submit ==
    /\ api.at = "split"
    /\ api' = NoOrder
    /\ UNCHANGED <<exchange, stream, start, caching, account, orders, dead>>

-----------------------------------------------------------------------------
Next ==
    /\ dead = "no"
    /\ \/ \E side \in Sides, effect \in Effects :
             \/ \E lots \in 1..MaxLots : ExchangeTrade(side, effect, lots)
             \/ \E amount \in Amounts : ReadFirst(side, effect, amount)
       \/ Relogin
       \/ QryPosition \/ NoteDate \/ BuildPortfolio
       \/ SeeOldDate \/ CacheTrade \/ NoPortfolio \/ SkipTrade \/ ApplyOpen \/ ApplyClose
       \/ SplitOrder \/ Submit

Spec == Init /\ [][Next]_vars
-----------------------------------------------------------------------------
(* What connect relies on: when the date is noted, the callback thread has *)
(* taken just the trades that the report of the position covers, and it    *)
(* has entered them when the portfolio is built.  If the stream begins     *)
(* anew after that, trades the report covers come as new ones, since       *)
(* backward_trade_set_ starts empty.                                       *)
Regular == noted = reported /\ ~late /\ (again => reported = 0)

CaughtUp == sync = "ready" /\ got = Len(log) /\ entering = <<>> /\ dead = "no"

(* However the trades of the day fall before and after the start, the      *)
(* holding lists have as many lots as the exchange (positions(),           *)
(* apply_trade).                                                           *)
HoldingsRight ==
    CaughtUp /\ Regular =>
        \A s \in Sides : Held(s) = exOld[s] + Len(exToday[s])

(* The code takes yesterday's lots first also for a CLOSE_TODAY.           *)
Plain ==
    \A i \in DOMAIN log :
        log[i].effect = "CLOSE_TODAY" => OldLots[HeldSide(log[i])] = 0

(* The lots of a holding list, counted from the back, have these prices.   *)
HasPrices(list, prices) ==
    /\ Lots(list) = Len(prices)
    /\ \A i \in DOMAIN list : \A k \in (Behind(list, i) + 1)..Behind(list, i - 1) :
          list[i].price = prices[k]

(* Unless that happens, or the stream brought a trade twice before the     *)
(* start, which positions() then counts twice, the lots are the            *)
(* exchange's, at the same prices in the same order, and so is what        *)
(* closing has earned, also across a restart of the program.               *)
LotsRight ==
    CaughtUp /\ Regular /\ Plain /\ IsInjective(cached) =>
        /\ realized = exRealized
        /\ \A s \in Sides :
              /\ Lots(holding[s].old) = exOld[s]
              /\ HasPrices(holding[s].today, exToday[s])

(* Money is neither made nor lost: cash and margin are the balance the day *)
(* began with and what closing has earned (account(), apply_trade).        *)
CashBalanced ==
    sync = "ready" => cash + Margin(holding) = Balance + realized

(* The parts of an order that was split with all trades applied, and none  *)
(* since it began to read.                                                 *)
Fits ==
    \A i \in DOMAIN api.parts :
        LET s == Other(api.side) IN
          api.parts[i].amount <= IF api.parts[i].effect = "CLOSE" THEN exOld[s]
                                                                  ELSE Len(exToday[s])

Undisturbed == api.at = "split" /\ CaughtUp /\ Regular /\ Cardinality(backward) = api.seen

(* Closing asks for nothing that is not there: each part of a closing      *)
(* order is of lots the exchange has of that kind, and a close that is     *)
(* booked never finds the lists empty, if the start was regular (order,    *)
(* _close_holding).                                                        *)
ClosesFit ==
    /\ Regular => dead # "back"
    /\ Undisturbed /\ Plain => Fits
=============================================================================
