---------------------------- MODULE TradeGateway ----------------------------
(***************************************************************************)
(* iqt::trade::CtpTradeGateway with its DataCache (src/src/ctp/            *)
(* trade_gateway.{h,cpp}), the order half of CtpTradeApi                   *)
(* (src/src/ctp/trade_api.cpp), model::Order (src/src/model/order.h) and   *)
(* the frozen cash of FutureAccount (src/src/trade/future_account.cpp).    *)
(*                                                                         *)
(* Strategy threads call submit_order and cancel_order; the CTP callback   *)
(* thread calls on_order and on_trade.  Each of the four begins with       *)
(* sm_->guard(), whose result is a temporary that is destroyed at once, so *)
(* nothing keeps them apart.  An Order object and the entries of orders_   *)
(* and sys_orders_ that refer to it are distinct here as in the code: an   *)
(* order may have more than one object.                                    *)
(*                                                                         *)
(* The data are synchronised (data_update_date_ is today).  Orders open    *)
(* positions, at one price per lot, so cash is counted in lots.            *)
(***************************************************************************)
EXTENDS Integers, Sequences, FiniteSets, FiniteSetsExt

CONSTANTS
    Orders,         \* orders the strategies submit
    Quantity,       \* Order.quantity of each
    Restart,        \* priv_resume_type: TRUE "restart", FALSE "resume"
    MaxRelogin      \* bound: number of reconnections

ASSUME ConstAssumption ==
    /\ IsFiniteSet(Orders)
    /\ Quantity \in Nat \ {0}
    /\ Restart \in BOOLEAN
    /\ MaxRelogin \in Nat

VARIABLES
    ex,         \* the order at the exchange: its state and the lots filled
    log,        \* what CTP has announced, in order
    got,        \* number of announcements the callback thread has taken
    peak,       \* the most it had ever taken
    early,      \* orders of which it took one before they were in orders_
    session,    \* session_id_
    sub,        \* where the strategy thread is in submit_order
    sentIn,     \* session_id of the order
    loaded,     \* frozen_cash_ as loaded by ORDER_PENDING_NEW's listener
    cancel,     \* what cancel_order works on
    objs,       \* the Order objects
    orders,     \* orders_: order_key -> object
    sysOrders,  \* sys_orders_: order_sys_key -> object
    unnumbered, \* the objects in it under keys of no number of an order
    openOrders, \* open_orders_
    cb,         \* where the callback thread is
    frozen,     \* frozen_cash_
    position,   \* lots of each order applied to the positions
    backward,   \* backward_trade_set_
    toldLots,   \* lots of its order's trades a strategy was told of
    toldEnd,    \* number of times a strategy was told its order is over
    raced,      \* two threads updated frozen_cash_ at the same time
    dead        \* why the process died: "no", "assert" or "race"

exchange == <<ex, log>>
submit   == <<sub, sentIn, loaded>>
cache    == <<objs, orders, sysOrders, unnumbered, openOrders>>
account  == <<frozen, position, backward>>
told     == <<toldLots, toldEnd>>
stream   == <<got, peak, early, session>>
vars     == <<ex, log, got, peak, early, session, sub, sentIn, loaded, cancel, objs,
              orders, sysOrders, unnumbered, openOrders, cb, frozen, position, backward,
              toldLots, toldEnd, raced, dead>>

Sessions == 0..MaxRelogin
Keys     == Sessions \X Orders

(* The object a strategy made, the one on_order makes for an unknown key,  *)
(* and the one on_trade makes for an unknown order_sys_key.                *)
Own(o)      == <<"own", 0, o>>
Reported(k) == <<"report", k[1], k[2]>>
Traded(o)   == <<"trade", 0, o>>
NoObject    == <<>>
Asked       == <<"asked">>

Objects == {Own(o) : o \in Orders} \cup {Traded(o) : o \in Orders}
              \cup {Reported(k) : k \in Keys}

(* The order_sys_id of an order not announced yet and that of a rejection: *)
(* no trade has a key made from them.                                      *)
NoNumbers == {"", "-1"}

Status == {"PENDING_NEW", "ACTIVE", "PENDING_CANCEL", "FILLED", "CANCELLED", "REJECTED"}
Final  == {"FILLED", "CANCELLED", "REJECTED"}

(* Order::Order; an object nobody made yet has this value as well.         *)
NewObject(q) == [status |-> "PENDING_NEW", filled |-> 0, tradeFilled |-> 0, quantity |-> q]

(* Announcements: lots is the number filled up to here, last that of the   *)
(* trade, which the two identify.                                          *)
OrderMsg(o, s, lots)    == [kind |-> "order", order |-> o, status |-> s, lots |-> lots, last |-> 0]
TradeMsg(o, last, lots) == [kind |-> "trade", order |-> o, status |-> "", lots |-> lots, last |-> last]

IdleCallback == [at |-> "idle", object |-> NoObject, load |-> 0, release |-> 0]

Init ==
    /\ ex = [o \in Orders |-> [state |-> "none", filled |-> 0]]
    /\ log = <<>> /\ got = 0 /\ peak = 0 /\ early = {} /\ session = 0
    /\ sub = [o \in Orders |-> "idle"]
    /\ sentIn = [o \in Orders |-> 0]
    /\ loaded = [o \in Orders |-> 0]
    /\ cancel = [o \in Orders |-> NoObject]
    /\ objs = [x \in Objects |-> NewObject(Quantity)]
    /\ orders = [k \in Keys |-> NoObject]
    /\ sysOrders = [o \in Orders |-> NoObject]
    /\ unnumbered = [id \in NoNumbers |-> NoObject]
    /\ openOrders = {}
    /\ cb = IdleCallback
    /\ frozen = 0
    /\ position = [o \in Orders |-> 0]
    /\ backward = {}
    /\ toldLots = [o \in Orders |-> 0]
    /\ toldEnd = [o \in Orders |-> 0]
    /\ raced = FALSE
    /\ dead = "no"

-----------------------------------------------------------------------------
(* The exchange and CTP's private stream.                                  *)

Announce(o, state, lots, msgs) ==
    /\ ex' = [ex EXCEPT ![o] = [state |-> state, filled |-> lots]]
    /\ log' = log \o msgs
    /\ UNCHANGED <<stream, submit, cancel, cache, cb, account, told, raced, dead>>

(* NoTradeNotQueueing or PartTradedNotQueueing, which become ACTIVE.       *)
Park(o) ==
    /\ ex[o].state = "live"
    /\ \A i \in DOMAIN log : log[i].order = o => log[i].status # "ACTIVE"
    /\ Announce(o, "live", ex[o].filled, <<OrderMsg(o, "ACTIVE", ex[o].filled)>>)

(* OnRtnOrder does not pass on PartTradedQueueing, but AllTraded.          *)
FillPart(o, last) ==
    /\ ex[o].state = "live"
    /\ ex[o].filled + last < Quantity
    /\ LET lots == ex[o].filled + last IN
         Announce(o, "live", lots, <<TradeMsg(o, last, lots)>>)

FillAll(o) ==
    /\ ex[o].state = "live"
    /\ LET news  == OrderMsg(o, "FILLED", Quantity)
           trade == TradeMsg(o, Quantity - ex[o].filled, Quantity)
       IN  \/ Announce(o, "filled", Quantity, <<news, trade>>)
           \/ Announce(o, "filled", Quantity, <<trade, news>>)

(* The exchange cancels an order, asked or not.                            *)
ExchangeCancel(o) ==
    /\ ex[o].state = "live"
    /\ Announce(o, "cancelled", ex[o].filled, <<OrderMsg(o, "CANCELLED", ex[o].filled)>>)

(* OnErrRtnOrderInsert.                                                    *)
Reject(o) ==
    /\ ex[o].state = "live"
    /\ \A i \in DOMAIN log : log[i].order # o
    /\ Announce(o, "rejected", 0, <<OrderMsg(o, "REJECTED", 0)>>)

(* The connection is lost and CTP logs in again: OnRspUserLogin notes the  *)
(* new session, and the private stream begins anew or goes on.             *)
Relogin ==
    /\ cb.at = "idle"
    /\ session < MaxRelogin
    /\ session' = session + 1
    /\ got' = IF Restart THEN 0 ELSE got
    /\ UNCHANGED <<exchange, peak, early, submit, cancel, cache, cb, account, told, raced, dead>>

-----------------------------------------------------------------------------
(* frozen_cash_ is a plain double: an update loads and stores.  A thread   *)
(* that begins one while another is not through races with it.             *)
Updating == (\E o \in Orders : sub[o] = "adding") \/ cb.at = "freeing"

(* submit_order: publish ORDER_PENDING_NEW, whose listener freezes cash,   *)
(* send the order, and only then enter it in orders_.                      *)
Publish(o) ==
    /\ sub[o] = "idle"
    /\ sub' = [sub EXCEPT ![o] = "adding"]
    /\ loaded' = [loaded EXCEPT ![o] = frozen]
    /\ raced' = (raced \/ Updating)
    /\ UNCHANGED <<exchange, stream, sentIn, cancel, cache, cb, account, told, dead>>

Freeze(o) ==
    /\ sub[o] = "adding"
    /\ sub' = [sub EXCEPT ![o] = "published"]
    /\ frozen' = loaded[o] + Quantity
    /\ UNCHANGED <<exchange, stream, sentIn, loaded, cancel, cache, cb, position,
                   backward, told, raced, dead>>

(* A failing ReqOrderInsert is logged, and that is all.                    *)
SendOrder(o, accepted) ==
    /\ sub[o] = "published"
    /\ sub' = [sub EXCEPT ![o] = "sent"]
    /\ sentIn' = [sentIn EXCEPT ![o] = session]
    /\ ex' = IF accepted THEN [ex EXCEPT ![o].state = "live"] ELSE ex
    /\ UNCHANGED <<log, stream, loaded, cancel, cache, cb, account, told, raced, dead>>

CacheOrder(o) ==
    /\ sub[o] = "sent"
    /\ sub' = [sub EXCEPT ![o] = "done"]
    /\ orders' = [orders EXCEPT ![<<sentIn[o], o>>] = Own(o)]
    /\ UNCHANGED <<exchange, stream, sentIn, loaded, cancel, objs, sysOrders, unnumbered,
                   openOrders, cb, account, told, raced, dead>>

(* Two threads that use the same unordered_map at the same time, as        *)
(* submit_order and cancel_order do.                                       *)
TearMap(o) ==
    /\ sub[o] = "sent" \/ (sub[o] = "done" /\ cancel[o] = NoObject)
    /\ cb.at = "found" \/ \E p \in Orders \ {o} : sub[p] = "sent"
    /\ dead' = "race"
    /\ UNCHANGED <<exchange, stream, submit, cancel, cache, cb, account, told, raced>>

(* cancel_order: get_cached_order enters the object found in sys_orders_   *)
(* when the strategy's order has no number; set_pending_cancel looks at    *)
(* the status and then sets it.                                            *)
CancelOrder(o) ==
    /\ sub[o] = "done" /\ cancel[o] = NoObject
    /\ LET x == orders[<<sentIn[o], o>>] IN
         /\ cancel' = [cancel EXCEPT ![o] = IF objs[x].status \in Final THEN Asked ELSE x]
         /\ unnumbered' = CASE objs[Own(o)].status = "PENDING_NEW" -> [unnumbered EXCEPT ![""] = x]
                            [] objs[Own(o)].status = "REJECTED" -> [unnumbered EXCEPT !["-1"] = x]
                            [] OTHER -> unnumbered
    /\ UNCHANGED <<exchange, stream, submit, objs, orders, sysOrders, openOrders, cb, account,
                   told, raced, dead>>

SetPendingCancel(o) ==
    /\ cancel[o] \notin {NoObject, Asked}
    /\ objs' = [objs EXCEPT ![cancel[o]].status = "PENDING_CANCEL"]
    /\ cancel' = [cancel EXCEPT ![o] = Asked]
    /\ UNCHANGED <<exchange, stream, submit, orders, sysOrders, unnumbered, openOrders, cb,
                   account, told, raced, dead>>

-----------------------------------------------------------------------------
(* The callback thread.                                                    *)

Msg == log[got]

(* OnErrRtnOrderInsert makes the key from the session it runs in.          *)
KeyOf(m) == <<IF m.status = "REJECTED" THEN session ELSE sentIn[m.order], m.order>>

Take ==
    /\ cb.at = "idle"
    /\ got < Len(log)
    /\ got' = got + 1
    /\ peak' = Max({peak, got + 1})
    /\ early' = LET o == log[got + 1].order IN IF sub[o] # "done" THEN early \cup {o} ELSE early

(* on_order: look the order up by its key ...                              *)
OnOrder ==
    /\ Take
    /\ log[got + 1].kind = "order"
    /\ cb' = [IdleCallback EXCEPT !.at = "found", !.object = orders[KeyOf(log[got + 1])]]
    /\ UNCHANGED <<exchange, session, submit, cancel, cache, account, told, raced, dead>>

(* ... make one if there is none, move it on, and publish.                 *)
(* Mutant of NextStatus: whatever is reported is noted.                    *)
NextStatusAny(s, reported) == reported

NextStatus(s, reported) ==
    IF s = "PENDING_NEW" \/ (s \in {"ACTIVE", "PENDING_CANCEL"} /\ reported \in {"FILLED", "CANCELLED"})
    THEN reported ELSE s

(* Mutants of Event: a cancelled order is not announced; nor is a filled   *)
(* one; an order that is over is announced again.                          *)
EventNoCancel(s, reported) ==
    IF s \notin Final /\ NextStatus(s, reported) \in {"FILLED", "REJECTED"}
    THEN "ORDER_UNSOLICITED_UPDATE" ELSE "none"

EventNotFilled(s, reported) ==
    CASE s \notin Final /\ NextStatus(s, reported) = "CANCELLED" /\ s # "PENDING_NEW"
                                              -> "ORDER_CANCELLATION_PASS"
      [] s = "PENDING_NEW" /\ reported \in {"CANCELLED", "REJECTED"}
                                              -> "ORDER_UNSOLICITED_UPDATE"
      [] OTHER -> "none"

EventAgain(s, reported) ==
    CASE NextStatus(s, reported) = "CANCELLED" /\ s # "PENDING_NEW"
                                              -> "ORDER_CANCELLATION_PASS"
      [] NextStatus(s, reported) \in Final /\ (s = "PENDING_NEW" \/ reported = "FILLED")
                                              -> "ORDER_UNSOLICITED_UPDATE"
      [] OTHER -> "none"

Event(s, reported) ==
    LET ends == s \notin Final /\ NextStatus(s, reported) \in Final
    IN  IF ends /\ NextStatus(s, reported) = "CANCELLED" /\ s # "PENDING_NEW"
        THEN "ORDER_CANCELLATION_PASS"
        ELSE IF ends /\ (s = "PENDING_NEW" \/ reported = "FILLED")
             THEN "ORDER_UNSOLICITED_UPDATE" ELSE "none"

(* cache_open_order and remove_open_order compare order_keys.              *)
OrderKey(x) == IF x[1] = "report" THEN <<x[2], x[3]>> ELSE <<sentIn[x[3]], x[3]>>

(* Mutant of Removed: the order stays in the list.                         *)
RemovedNot(x) == openOrders

Removed(x) == {y \in openOrders : OrderKey(y) # OrderKey(x)}
Added(x)   == IF Removed(x) = openOrders THEN openOrders \cup {x} ELSE openOrders

(* Load frozen_cash_ to subtract from it.                                  *)
Release(lots) ==
    /\ cb' = [IdleCallback EXCEPT !.at = "freeing", !.load = frozen, !.release = lots]
    /\ raced' = (raced \/ Updating)

ProcessOrder ==
    /\ cb.at = "found"
    /\ LET key     == KeyOf(Msg)
           new     == cb.object = NoObject
           x       == IF new THEN Reported(key) ELSE cb.object
           old     == IF new THEN NewObject(Quantity) ELSE objs[x]
           event   == Event(old.status, Msg.status)
       IN  /\ objs' = [objs EXCEPT ![x] = [old EXCEPT !.filled = Msg.lots,
                                           !.status = NextStatus(old.status, Msg.status)]]
           /\ orders' = IF new THEN [orders EXCEPT ![key] = x] ELSE orders
           /\ sysOrders' = IF Msg.status # "REJECTED" /\ (new \/ sysOrders[Msg.order] = NoObject)
                             THEN [sysOrders EXCEPT ![Msg.order] = x] ELSE sysOrders
           /\ unnumbered' = IF Msg.status = "REJECTED" THEN [unnumbered EXCEPT !["-1"] = x]
                             ELSE unnumbered
           /\ openOrders' = IF event # "none" THEN Removed(x)
                             ELSE IF old.status = "PENDING_NEW" THEN Added(x) ELSE openOrders
           /\ toldEnd' = IF event = "ORDER_UNSOLICITED_UPDATE" /\ x = Own(Msg.order)
                           THEN [toldEnd EXCEPT ![Msg.order] = @ + 1] ELSE toldEnd
           /\ IF event = "none" THEN cb' = IdleCallback /\ UNCHANGED raced
                                ELSE Release(old.quantity - Msg.lots)
    /\ UNCHANGED <<exchange, stream, submit, cancel, account, toldLots, dead>>

(* Mutant of TradeId: one trade per order.                                 *)
TradeIdOfOrder(m) == <<m.order, 0>>

TradeId(m) == <<m.order, m.lots>>

(* on_trade: drop a trade seen before; find the order by its sys key or    *)
(* make one as large as the trade; fill it, apply the trade, tell the      *)
(* strategy.                                                               *)
OnTrade ==
    /\ Take
    /\ LET m   == log[got + 1]
           new == sysOrders[m.order] = NoObject
           x   == IF new THEN Traded(m.order) ELSE sysOrders[m.order]
           old == IF new THEN NewObject(m.last) ELSE objs[x]
           sum == old.tradeFilled + m.last
       IN  /\ m.kind = "trade"
           /\ IF TradeId(m) \in backward
                THEN UNCHANGED <<cache, cb, position, backward, told, raced, dead>>
              ELSE IF sum > old.quantity
                THEN /\ dead' = "assert"
                     /\ UNCHANGED <<cache, cb, position, backward, told, raced>>
              ELSE
                /\ objs' = [objs EXCEPT ![x] = [old EXCEPT !.tradeFilled = sum,
                              !.status = IF sum = old.quantity THEN "FILLED" ELSE @]]
                /\ sysOrders' = [sysOrders EXCEPT ![m.order] = x]
                /\ position' = [position EXCEPT ![m.order] = @ + m.last]
                /\ backward' = backward \cup {TradeId(m)}
                /\ toldLots' = IF x = Own(m.order) THEN [toldLots EXCEPT ![m.order] = @ + m.last]
                                                   ELSE toldLots
                /\ Release(m.last)
                /\ UNCHANGED <<orders, unnumbered, openOrders, toldEnd, dead>>
    /\ UNCHANGED <<exchange, session, submit, cancel, frozen>>

Unfreeze ==
    /\ cb.at = "freeing"
    /\ frozen' = cb.load - cb.release
    /\ cb' = IdleCallback
    /\ UNCHANGED <<exchange, stream, submit, cancel, cache, position, backward, told, raced, dead>>

-----------------------------------------------------------------------------
ExchangeStep(o) ==
    \/ Park(o) \/ FillAll(o) \/ ExchangeCancel(o) \/ Reject(o)
    \/ \E last \in 1..Quantity : FillPart(o, last)

StrategyStep(o) ==
    \/ Publish(o) \/ Freeze(o) \/ CacheOrder(o) \/ TearMap(o)
    \/ \E accepted \in BOOLEAN : SendOrder(o, accepted)
    \/ CancelOrder(o) \/ SetPendingCancel(o)

CallbackStep == OnOrder \/ ProcessOrder \/ OnTrade \/ Unfreeze

Next ==
    /\ dead = "no"
    /\ \/ \E o \in Orders : ExchangeStep(o) \/ StrategyStep(o)
       \/ CallbackStep
       \/ Relogin

Spec == Init /\ [][Next]_vars
-----------------------------------------------------------------------------
(* Every announcement has been handled to its end.                         *)
CaughtUp == cb.at = "idle" /\ got = Len(log) /\ peak = got /\ dead = "no"

Known(o) == {log[i] : i \in {j \in 1..peak : log[j].order = o}}

Over(o)   == \E m \in Known(o) : m.status \in Final
Parked(o) == \E m \in Known(o) : m.status = "ACTIVE"

(* Lots of o that cash should be frozen for, from what has been announced. *)
Outstanding(o) ==
    IF sub[o] \in {"idle", "adding"} \/ Over(o) THEN 0 ELSE Quantity - position[o]

(* Where the frozen cash does go wrong, besides the data race: an order    *)
(* rejected after cancel_order marked it; and, when the stream begins      *)
(* anew, an order announced before it was entered, one rejected (its key   *)
(* has the new session) and one marked after it was over.                  *)
Regular(o) ==
    /\ ex[o].state = "rejected" => cancel[o] = NoObject
    /\ Restart => o \notin early /\ ex[o].state # "rejected" /\ cancel[o] = NoObject

(* The frozen cash is that of the lots neither traded nor given up,        *)
(* although two kinds of messages release it, in either order, some twice, *)
(* for objects that may stand for the same order.                          *)
FrozenExact ==
    CaughtUp /\ ~raced /\ (\A o \in Orders : Regular(o))
        => frozen = MapThenSumSet(Outstanding, Orders)

(* Every fill reaches the positions once, whatever object stands for its   *)
(* order and however often CTP announces it (backward_trade_set_).         *)
PositionExact ==
    CaughtUp => \A o \in Orders : position[o] = ex[o].filled

(* A strategy is told at most once that its order is over, also when CTP   *)
(* announces it again, unless cancel_order wrote over the final status.    *)
ToldOnce ==
    \A o \in Orders : toldEnd[o] > 1 => Restart /\ cancel[o] # NoObject

(* on_order and on_trade work on the strategy's own object.                *)
Single(o) == o \notin early /\ sysOrders[o] \in {NoObject, Own(o)}

(* A strategy is told of all lots of an order that has one object, and of  *)
(* its end, on which it resets opening_count.  Not so if the order was     *)
(* parked or marked PENDING_CANCEL (ORDER_CANCELLATION_PASS has no         *)
(* listener there) or rejected in a session later than its own.            *)
ToldAll ==
    CaughtUp => \A o \in Orders : Single(o) =>
        /\ toldLots[o] = ex[o].filled
        /\ Over(o) /\ ~Parked(o) /\ cancel[o] = NoObject
             /\ (ex[o].state = "rejected" => session = sentIn[o])
             => toldEnd[o] = 1

(* No step takes a final status back, but for set_pending_cancel, which    *)
(* sets the status after another thread has changed what it looked at.     *)
FinalStays ==
    [][\A x \in Objects : objs[x].status \in Final =>
          objs'[x].status \in Final \/ \E o \in Orders : cancel[o] = x]_vars

(* An order that is over and still in open_orders_ counts for nothing when *)
(* the position sums up quantity - filled_quantity of the open orders      *)
(* (future_position.h:96-133).                                          *)
OpenOrdersCountRight ==
    CaughtUp => \A x \in openOrders :
        Over(x[3]) => objs[x].filled = objs[x].quantity
=============================================================================
