---------------------------- MODULE TimeLineStgy ----------------------------
(***************************************************************************)
(* iqt::stgy::TimeLineStgy and its helper (src/src/stgy/time_line), with   *)
(* one of its two transactions; the other one is its mirror image.  It     *)
(* has one slot, opens in the direction of the day, closes on a profit or  *)
(* a loss, stops at a limit price and is meant to be flat before the       *)
(* market closes.                                                          *)
(*                                                                         *)
(* The strategy thread runs a tick through handle_txn_status, open and     *)
(* close; the CTP callback thread runs on_order and on_trade between any   *)
(* two of its steps (the guards of the spin mutexes are temporaries).      *)
(* Prices are left open, the time of the day is one of four phases.  Like  *)
(* in GridStgy, a behaviour meets at most one oddity of its environment.   *)
(***************************************************************************)
EXTENDS TxnBook

CONSTANTS
    Slot,           \* config_->slot: the lots held at most
    MaxVolume,      \* bound: lots offered on a tick
    CloseKeys,      \* bound: close groups that exist at the same time
    Odds,           \* the oddities the environment may show
    MaxCrash,       \* bound: restarts
    MaxDays         \* bound: trading days

Oddities == {"trade_first",   \* a trade comes before the final news of its order
             "two_trades",    \* an order fills in two trades
             "late_part",     \* of two close orders, only the second ends empty, or
                              \* its news comes before the first one's trade
             "overtaken",     \* news comes before the strategy noted the order
             "no_position",   \* the account holds fewer lots than the book
             "limit_open",    \* the price is at its limit while lots are being opened
             "crash"}         \* the process dies with an order under way

ASSUME TimeLineAssumption ==
    /\ SlotBlock \in Nat \ {0} /\ Slot \in Nat \ {0} /\ MaxGroups \in Nat \ {0} /\ MaxVolume \in Nat \ {0}
    /\ MaxCrash \in Nat /\ MaxDays \in Nat
    /\ Odds \subseteq Oddities

VARIABLES
    book,       \* the transaction in memory
    db,         \* the transaction in redis
    cgs,        \* close_group_map_
    pc,         \* where the strategy thread is
    flight,     \* orders at the exchange, and news of them not yet taken
    held,       \* lots the account holds for the transaction, at the exchange
    phase,      \* of the trading day: "night", "day", "late" (from 14:45) or
                \* "closing" (from 14:58)
    day,        \* trading days so far
    odd, state, crashes         \* as in GridStgy

clock == <<phase, day>>
vars  == <<book, db, cgs, pc, flight, held, clock, odd, state, crashes>>

Idle   == [at |-> "idle", kind |-> "none"]
At(a)  == [at |-> a, kind |-> "none"]
Quiet  == pc.at \in {"idle", "open", "close"} /\ flight = {}

Order(kind, key, quantity) ==
    [kind |-> kind, key |-> key, quantity |-> quantity, part |-> 1,
     result |-> -1, news |-> TRUE, trades |-> 0]

Used(b, orders, closes) ==
    ToSet(b.costs)
        \cup {o.key : o \in {x \in orders : x.kind = "open"}}
        \cup UNION {ToSet(closes[k].groups) : k \in {k \in CloseKeys : closes[k] # NoGroup}}
        \cup (IF pc.kind = "close" THEN ToSet(pc.cg.groups) ELSE {})

FreeKeys      == Keys \ Used(book, flight, cgs)
FreeCloseKeys == {k \in CloseKeys : cgs[k] = NoGroup
                                    /\ \A o \in flight : o.kind = "close" => o.key # k}

Meets(shown) ==
    /\ shown \subseteq Odds
    /\ Cardinality(odd \cup shown) <= 1
    /\ odd' = odd \cup shown

(* load_long_txn of a new transaction: RUNNING, which is not saved.        *)
Started(b) == [b EXCEPT !.txn.status = IF @ = "NEW" THEN "RUNNING" ELSE @]

Init ==
    /\ db = [txn |-> NewTxn, slots |-> ExtendTxnSlots(<<>>, <<Slot>>), costs |-> <<>>,
             grp |-> [g \in Keys |-> NoGroup]]
    /\ book = Started(db)
    /\ cgs = [k \in CloseKeys |-> NoGroup]
    /\ pc = Idle
    /\ flight = {}
    /\ held = 0
    /\ phase = "day"
    /\ day = 0
    /\ odd = {}
    /\ state = "up"
    /\ crashes = 0

-----------------------------------------------------------------------------
(* The day goes by.                                                        *)

SetStatus(s) ==
    /\ book' = [book EXCEPT !.txn.status = s]
    /\ db' = SaveTxn(db, book')

(* before_trading runs on the timer thread, between any two steps of the   *)
(* others: before the next session, or at once when the program is started *)
(* in the course of the first day.                                         *)
BeforeTrading ==
    /\ state = "up" /\ day < MaxDays
    /\ day' = day + 1
    /\ \/ phase = "closing" /\ phase' \in {"night", "day"}
       \/ day = 0 /\ UNCHANGED phase
    /\ SetStatus(IF book.txn.status = "STOP" THEN "BLOCK" ELSE "RUNNING")
    /\ UNCHANGED <<cgs, pc, flight, held, odd, state, crashes>>

TimePasses ==
    /\ state = "up" /\ pc = Idle
    /\ phase' = CASE phase = "night" -> "day"
                  [] phase = "day"   -> "late"
                  [] OTHER           -> "closing"
    /\ phase # "closing"
    /\ UNCHANGED <<book, db, cgs, pc, flight, held, day, odd, state, crashes>>

-----------------------------------------------------------------------------
(* handle_tick: handle_txn_status, then open, then close.                  *)

(* At closing time the status is set to STOP and, by the next condition,   *)
(* to ONLY_CLOSE.  At night it is later than 14:45, too.                   *)
HandledStatus ==
    LET s == book.txn.status
    IN  CASE s \in {"ONLY_CLOSE", "RUNNING"} /\ phase # "day"      -> "ONLY_CLOSE"
          [] s = "STOP" /\ book.slots[1].open = 0                  -> "EXIT"
          [] s = "BLOCK" /\ book.slots[1].open = 0                 -> "RUNNING"
          [] OTHER                                                 -> s

HandleTxnStatus ==
    /\ state = "up" /\ pc = Idle
    /\ IF HandledStatus = book.txn.status THEN UNCHANGED <<book, db>> ELSE SetStatus(HandledStatus)
    /\ pc' = At("open")
    /\ UNCHANGED <<cgs, flight, held, clock, odd, state, crashes>>

(* The mutated form the project checks WithinSlot against.                 *)
CanOpenAnyway ==
    /\ book.txn.status = "RUNNING"
    /\ book.slots[1].capacity > book.slots[1].open

CanOpen ==
    /\ book.txn.status = "RUNNING"
    /\ book.txn.opening = 0
    /\ book.slots[1].capacity > book.slots[1].open

Open ==
    /\ state = "up" /\ pc = At("open")
    /\ \/ /\ pc' = At("close")
          /\ UNCHANGED flight
       \/ /\ CanOpen
          /\ \E volume \in 1..MaxVolume, g \in FreeKeys :
                LET n == Least(book.slots[1].capacity - book.slots[1].open, volume)
                IN  /\ \A h \in FreeKeys : g <= h
                    /\ pc' = [at |-> "sent", kind |-> "open", key |-> g, quantity |-> n]
                    /\ flight' = flight \cup {Order("open", g, n)}
    /\ UNCHANGED <<book, db, cgs, held, clock, odd, state, crashes>>

AddOpenGroup ==
    /\ state = "up" /\ pc.at = "sent" /\ pc.kind = "open"
    /\ LET g == OpenGroup("NORMAL", pc.quantity, 1)
       IN  /\ book' = [book EXCEPT !.grp[pc.key] = g]
           /\ db' = AddGroup(db, pc.key, g)
    /\ pc' = [pc EXCEPT !.at = "added"]
    /\ UNCHANGED <<cgs, flight, held, clock, odd, state, crashes>>

CountOpening ==
    /\ state = "up" /\ pc.at = "added" /\ pc.kind = "open"
    /\ book' = [book EXCEPT !.txn.opening = @ + pc.quantity, !.slots[1].opening = pc.quantity]
    /\ db' = SetSlot(SaveTxn(db, book'), book', 1)
    /\ pc' = At("close")
    /\ UNCHANGED <<cgs, flight, held, clock, odd, state, crashes>>

(* ApiFuture splits a close over today's lots and older ones, and returns  *)
(* no order when the account does not hold the lots.                       *)
Split(k, quantity) ==
    {{Order("close", k, quantity)}}
        \cup {{Order("close", k, n), [Order("close", k, quantity - n) EXCEPT !.part = 2]} :
                n \in 1..(quantity - 1)}

Closable ==
    LET Undecided == {o \in flight : o.kind = "close" /\ o.result = -1}
    IN  held - SumFunction([o \in Undecided |-> o.quantity])

Sent(b, cg) ==
    /\ cg.quantity <= Closable
    /\ \E k \in FreeCloseKeys :
        /\ \A h \in FreeCloseKeys : k <= h
        /\ \E orders \in Split(k, cg.quantity) : flight' = flight \cup orders
        /\ pc' = [at |-> "sent", kind |-> "close", key |-> k, cg |-> cg]
    /\ book' = b
    /\ UNCHANGED db

NotSent(b, cg) ==
    /\ book' = UnmarkClosing(b, cg)
    /\ db' = SaveQuantity(db, book', cg)
    /\ pc' = Idle
    /\ UNCHANGED flight

(* At the limit price the status becomes STOP, in memory only.  STOP and   *)
(* BLOCK close everything; else the groups whose price is right.           *)
Close ==
    /\ state = "up" /\ pc = At("close")
    /\ book.txn.status \in {"STOP", "BLOCK", "RUNNING"}
    /\ book.txn.closing = 0
    /\ \E limit \in BOOLEAN, good \in 0..Len(book.costs), volume \in 1..MaxVolume :
        LET stopped == [book EXCEPT !.txn.status = IF limit THEN "STOP" ELSE @]
            force   == limit \/ book.txn.status \in {"STOP", "BLOCK"}
            list    == SubSeq(book.costs, 1, good)
            cg      == CloseGroup("NORMAL", book, list, volume)
            b       == MarkClosing(stopped, list, volume)
            atLimit == IF limit /\ \E o \in flight : o.kind = "open" THEN {"limit_open"} ELSE {}
        IN  /\ force => good = Len(book.costs)
            /\ \/ /\ cg.quantity > 0
                  /\ Sent(b, cg)
                  /\ Meets(atLimit)
               \/ /\ cg.quantity > 0
                  /\ NotSent(b, cg)
                  /\ Meets(atLimit \cup (IF cg.quantity > Closable THEN {} ELSE {"no_position"}))
               \/ /\ cg.quantity = 0
                  /\ book' = stopped /\ pc' = Idle
                  /\ Meets(atLimit)
                  /\ UNCHANGED <<db, flight>>
    /\ UNCHANGED <<cgs, held, clock, state, crashes>>

NoClose ==
    /\ state = "up" /\ pc = At("close")
    /\ book.txn.status \notin {"STOP", "BLOCK", "RUNNING"} \/ book.txn.closing > 0
    /\ pc' = Idle
    /\ UNCHANGED <<book, db, cgs, flight, held, clock, odd, state, crashes>>

AddCloseGroup ==
    /\ state = "up" /\ pc.at = "sent" /\ pc.kind = "close"
    /\ LET parts == {o \in flight : o.kind = "close" /\ o.key = pc.key}
       IN  cgs' = [cgs EXCEPT ![pc.key] =
                    [pc.cg EXCEPT !.frag = IF Cardinality(parts) = 2 THEN "NEED" ELSE "NO"]]
    /\ db' = SaveQuantity(db, book, pc.cg)
    /\ pc' = [pc EXCEPT !.at = "added"]
    /\ UNCHANGED <<book, flight, held, clock, odd, state, crashes>>

CountClosing ==
    /\ state = "up" /\ pc.at = "added" /\ pc.kind = "close"
    /\ book' = [book EXCEPT !.txn.closing = pc.cg.quantity]
    /\ db' = SaveTxn(db, book')
    /\ pc' = Idle
    /\ UNCHANGED <<cgs, flight, held, clock, odd, state, crashes>>

-----------------------------------------------------------------------------
(* The exchange: fill what it can and cancel the rest.                     *)

EmptyEnd(o, n) ==
    /\ n = 0 /\ o.kind = "close"
    /\ cgs[o.key] # NoGroup /\ cgs[o.key].frag = "RCV_ONE" /\ cgs[o.key].filled > 0

Exchange(o) ==
    /\ o.result = -1
    /\ \E n \in 0..o.quantity, trades \in 0..2 :
        /\ (n = 0) = (trades = 0)
        /\ trades <= n
        /\ Meets((IF trades = 2 THEN {"two_trades"} ELSE {})
                    \cup (IF EmptyEnd(o, n) THEN {"late_part"} ELSE {}))
        /\ flight' = (flight \ {o}) \cup {[o EXCEPT !.result = n, !.trades = trades]}
        /\ held' = IF o.kind = "open" THEN held + n ELSE held - n
    /\ UNCHANGED <<book, db, cgs, pc, clock, state, crashes>>

-----------------------------------------------------------------------------
(* on_order and on_trade.                                                  *)

Noting(o)  == pc.at \in {"sent", "added"} /\ pc.kind = o.kind /\ pc.key = o.key
Unknown(o) == Noting(o) /\ pc.at = "sent"

Rest(o, left) == (flight \ {o}) \cup (IF left.news \/ left.trades > 0 THEN {left} ELSE {})

Kept(closes, orders) ==
    [k \in CloseKeys |-> IF \E o \in orders : o.kind = "close" /\ o.key = k
                         THEN closes[k] ELSE NoGroup]

(* The state after a handler that leaves b in memory and d in redis.       *)
Handled(b, d, closes) ==
    /\ cgs' = Kept(closes, flight')
    /\ book' = Forget(b, Used(b, flight', cgs'))
    /\ db' = Forget(d, Used(b, flight', cgs'))

PostOpen(o) ==
    LET b == [FillOpenGroup(book, o.key, o.result) EXCEPT
                !.txn.open = @ + o.result, !.txn.opening = 0,
                !.slots[1].open = @ + o.result, !.slots[1].opening = 0]
    IN  Handled(b, SetSlot(SaveFilled(SaveTxn(db, b), b, o.key), b, 1), cgs)

(* The mutated form the project checks LoadsRight against.                 *)
PostCloseUnsaved(o) ==
    LET cg == FillCloseGroup(cgs[o.key], o.result)
        b  == [UnmarkClosing(book, cg) EXCEPT !.txn.closing = 0]
        closes == [cgs EXCEPT ![o.key] = cg]
    IN  IF cg.frag = "RCV_ONE" \/ cg.filled > 0
        THEN Handled(book, db, closes)
        ELSE Handled(b, SaveTxn(db, b), closes)

(* Only the last news, and only when nothing was filled.                   *)
PostClose(o) ==
    LET cg == FillCloseGroup(cgs[o.key], o.result)
        b  == [UnmarkClosing(book, cg) EXCEPT !.txn.closing = 0]
        closes == [cgs EXCEPT ![o.key] = cg]
    IN  IF cg.frag = "RCV_ONE" \/ cg.filled > 0
        THEN Handled(book, db, closes)
        ELSE Handled(b, SaveQuantity(SaveTxn(db, b), b, cg), closes)

LatePart(o) ==
    /\ o.kind = "close"
    /\ \E p \in flight \ {o} :
        /\ p.kind = o.kind /\ p.key = o.key
        /\ p.news => p.result = 0 /\ o.result > 0

OnOrder(o) ==
    /\ state = "up" /\ o.news /\ o.result # -1
    /\ Meets((IF Noting(o) THEN {"overtaken"} ELSE {}) \cup (IF LatePart(o) THEN {"late_part"} ELSE {}))
    /\ flight' = Rest(o, [o EXCEPT !.news = FALSE])
    /\ \/ /\ Unknown(o)                             \* its group cannot be found
          /\ state' = "failed"
          /\ UNCHANGED <<book, db, cgs>>
       \/ /\ ~Unknown(o)
          /\ IF o.kind = "open" THEN PostOpen(o) ELSE PostClose(o)
          /\ UNCHANGED state
    /\ UNCHANGED <<pc, held, clock, crashes>>

PostOpenAfterTrade(o) ==
    \E at \in 0..Len(book.costs) :
        LET b == [book EXCEPT !.costs = Placed(@, at, o.key)]
        IN  Handled(b, [SaveTxn(db, b) EXCEPT !.costs = PlacedOnce(book.costs, at, o.key)], cgs)

(* The mutated forms the project checks BookAgrees and ExitsFlat against.  *)
ClosedBookCosts(o) ==
    LET cg == cgs[o.key]
    IN  [BookClosed(book, cg) EXCEPT
            !.costs = WithoutGroups(@, ToSet(cg.groups)),
            !.txn.closing = 0, !.txn.open = @ - cg.filled,
            !.slots = ResetTxnSlots(@, cg.filled)]

ClosedBookOrdered(o) ==
    LET cg   == cgs[o.key]
        gone == Emptied(BookClosed(book, cg), cg)
    IN  [BookClosed(book, cg) EXCEPT
            !.costs = WithoutGroups(@, gone),
            !.txn.closing = 0, !.txn.open = @ - cg.filled,
            !.slots = ResetTxnSlots(@, cg.quantity)]

ClosedBook(o) ==
    LET cg   == cgs[o.key]
        gone == Emptied(BookClosed(book, cg), cg)
    IN  [BookClosed(book, cg) EXCEPT
            !.costs = WithoutGroups(@, gone),
            !.txn.closing = 0, !.txn.open = @ - cg.filled,
            !.slots = ResetTxnSlots(@, cg.filled)]

PostCloseAfterTrade(o) ==
    LET b == ClosedBook(o)
        d == SaveQuantity(SaveTxn(db, b), b, cgs[o.key])
    IN  IF cgs[o.key].frag = "RCV_ONE"
        THEN Handled(book, db, cgs)
        ELSE Handled(b, [d EXCEPT !.costs = b.costs, !.slots = b.slots], cgs)

OnTrade(o) ==
    /\ state = "up" /\ o.trades > 0
    /\ Meets((IF o.news THEN {"trade_first"} ELSE {}) \cup (IF Noting(o) THEN {"overtaken"} ELSE {}))
    /\ flight' = Rest(o, [o EXCEPT !.trades = @ - 1])
    /\ \/ /\ Unknown(o)
          /\ state' = "failed"
          /\ UNCHANGED <<book, db, cgs>>
       \/ /\ ~Unknown(o)
          /\ IF o.kind = "open" THEN PostOpenAfterTrade(o) ELSE PostCloseAfterTrade(o)
          /\ UNCHANGED state
    /\ UNCHANGED <<pc, held, clock, crashes>>

-----------------------------------------------------------------------------
(* Restarts.                                                               *)

Crash ==
    /\ state = "up" /\ crashes < MaxCrash
    /\ crashes' = crashes + 1
    /\ state' = "down"
    /\ pc' = Idle
    /\ flight' = {}
    /\ cgs' = [k \in CloseKeys |-> NoGroup]
    /\ Meets(IF Quiet THEN {} ELSE {"crash"})
    /\ UNCHANGED <<book, db, held, clock>>

LoadAsserts ==
    /\ db.txn.closing = 0 /\ db.txn.opening = 0
    /\ db.slots[1].opening = 0 /\ db.slots[1].open <= Slot
    /\ \A g \in NamedGroups(db.costs) : db.grp[g].closing = 0

Loaded == [txn |-> LoadTxn(db), slots |-> db.slots, costs |-> db.costs,
           grp |-> LoadGroups(db, NamedGroups(db.costs))]

Load ==
    /\ state = "down"
    /\ IF LoadAsserts THEN state' = "up" /\ book' = Started(Loaded)
                      ELSE state' = "failed" /\ UNCHANGED book
    /\ UNCHANGED <<db, cgs, pc, flight, held, clock, odd, crashes>>

-----------------------------------------------------------------------------
BuyOpen   == Open \/ AddOpenGroup \/ CountOpening
SellClose == Close \/ NoClose \/ AddCloseGroup \/ CountClosing

HandleTick == HandleTxnStatus \/ BuyOpen \/ SellClose

Next ==
    \/ HandleTick
    \/ BeforeTrading \/ TimePasses
    \/ \E o \in flight : Exchange(o) \/ OnOrder(o) \/ OnTrade(o)
    \/ Crash \/ Load

Spec == Init /\ [][Next]_vars

-----------------------------------------------------------------------------
(* Properties.  Each one names the oddities it survives.                   *)

Sound(survived) == odd \subseteq survived /\ state = "up"

(* When no order is under way, the counters, the one slot, the groups      *)
(* behind the costs and the account agree on the lots, however opening and *)
(* closing overlap and whatever part of an order was filled; but each      *)
(* order fills in one trade, after its news, and of two close orders the   *)
(* second does not end empty after the first got lots (late_part).         *)
BookAgrees ==
    Sound({"no_position", "limit_open"}) /\ Quiet =>
        /\ book.txn.open = held /\ book.slots[1].open = held
        /\ LotsOf(book, book.costs) = held
        /\ book.txn.opening = 0 /\ book.slots[1].opening = 0 /\ book.txn.closing = 0
        /\ \A g \in ToSet(book.costs) : book.grp[g].closing = 0

(* The account never holds more lots than the slot of the configuration,   *)
(* with those that an open order may still bring: open() looks at the      *)
(* slot, which only the news of the order fills.                           *)
WithinSlot ==
    Sound({"no_position", "limit_open"}) =>
        LET Undecided == {o \in flight : o.kind = "open" /\ o.result = -1}
        IN  held + SumFunction([o \in Undecided |-> o.quantity]) <= Slot

(* "stop profit and exit": a transaction that has left holds nothing and   *)
(* has no order under way.                                                 *)
ExitsFlat ==
    Sound({"no_position"}) /\ book.txn.status = "EXIT" => held = 0 /\ flight = {}

(* Restarting loses nothing but an order under way: redis holds what       *)
(* memory holds between two ticks, the status it has after a limit price   *)
(* excepted, and what it holds passes the assertions of load_long_txn.     *)
LoadsRight ==
    Sound({"no_position", "limit_open"}) /\ pc = Idle =>
        /\ [db.txn EXCEPT !.status = ""] = [book.txn EXCEPT !.status = ""]
        /\ db.slots = book.slots /\ db.costs = book.costs
        /\ \A g \in ToSet(book.costs) : db.grp[g] = book.grp[g]
        /\ Quiet => LoadAsserts

(* "STOP: nearly close time, need close all positions and exit" (close):   *)
(* the first tick of closing time stops a transaction that runs.           *)
StopsAtClose ==
    [][ HandleTxnStatus /\ phase = "closing" => book'.txn.status \in {"STOP", "BLOCK", "EXIT"} ]_vars
=============================================================================
