------------------------------ MODULE GridStgy ------------------------------
(***************************************************************************)
(* iqt::stgy::SingleGridStgy and its helper (src/src/stgy/single_grid),    *)
(* with one of its two transactions; the other one is its mirror image     *)
(* (sides and signs of prices exchanged) and shares no state with it but   *)
(* the account.                                                            *)
(*                                                                         *)
(* Three threads work on the book: the strategy thread (handle_tick), the  *)
(* CTP callback thread (on_order and on_trade, called through the event    *)
(* bus) and a Python thread (update_signal).  The guards of the two spin   *)
(* mutexes are temporaries that are gone at once, so nothing keeps the     *)
(* threads apart; the strategy thread gives orders to the exchange before  *)
(* it notes them in the book.                                              *)
(*                                                                         *)
(* Prices are not modelled: whether a price, a moving average or a date    *)
(* passes a comparison is left open, and so is the place at which a new    *)
(* cost enters the sorted list.  A tick on which the earlier calls of      *)
(* handle_tick return early reaches each later one, so the calls are       *)
(* actions of their own.                                                   *)
(*                                                                         *)
(* The code works as meant as long as the environment behaves in the way   *)
(* it expects.  The ways in which it may not are named in Oddities;        *)
(* a behaviour meets at most one of them (Odds says which are possible).   *)
(***************************************************************************)
EXTENDS TxnBook

CONSTANTS
    Configs,        \* config_->slots: what a run of the program may find
    MaxVolume,      \* bound: lots offered on a tick
    CloseKeys,      \* bound: close groups that exist at the same time
    Odds,           \* the oddities the environment may show
    MaxCrash        \* bound: restarts

Oddities == {"trade_first",   \* a trade comes before the final news of its order
             "two_trades",    \* an order fills in two trades
             "late_trade",    \* a lock order is sent before an earlier one's trade came
             "late_part",     \* of two close orders, only the second ends empty, or
                              \* its news comes before the first one's trade
             "overtaken",     \* news comes before the strategy noted the order
             "signal",        \* RUNNING turns LOCKING while an order is under way
             "no_position",   \* the account holds fewer lots than the book
             "crash",         \* the process dies with an order under way
             "gap"}           \* a restart cuts the slots before one that holds lots

ASSUME GridAssumption ==
    /\ SlotBlock \in Nat \ {0} /\ MaxGroups \in Nat \ {0} /\ MaxVolume \in Nat \ {0}
    /\ MaxCrash \in Nat
    /\ Odds \subseteq Oddities
    /\ Configs # {} /\ \A c \in Configs : c \in Seq(Nat \ {0}) /\ c # <<>>

VARIABLES
    cfg,        \* config_->slots of this run of the program
    book,       \* the transaction in memory
    db,         \* the transaction in redis
    cgs,        \* close_group_map_
    pc,         \* where the strategy thread is
    flight,     \* orders at the exchange, and news of them not yet taken
    held,       \* lots the account holds for the transaction, at the exchange
    odd,        \* the oddity that has happened, if any
    state,      \* of the process: "up", "down" or "failed"
    crashes     \* restarts so far

vars == <<cfg, book, db, cgs, pc, flight, held, odd, state, crashes>>

Idle == [at |-> "idle", kind |-> "none"]
Quiet == pc = Idle /\ flight = {}

Opening == {"open", "lock"}
Closing == {"close", "unlock"}

(* An order: what it is for, its group, which part of a close it is.       *)
(* result: lots filled, -1 until the exchange has decided.                 *)
Order(kind, key, part, quantity) ==
    [kind |-> kind, key |-> key, part |-> part, quantity |-> quantity,
     result |-> -1, news |-> TRUE, trades |-> 0]

Used(b, orders, closes) ==
    ToSet(b.costs) \cup ToSet(b.locks)
        \cup {o.key : o \in {x \in orders : x.kind \in Opening}}
        \cup UNION {ToSet(closes[k].groups) : k \in {k \in CloseKeys : closes[k] # NoGroup}}
        \cup (IF pc.kind \in Closing THEN ToSet(pc.cg.groups) ELSE {})

FreeKeys      == Keys \ Used(book, flight, cgs)
FreeCloseKeys == {k \in CloseKeys : cgs[k] = NoGroup
                                    /\ \A o \in flight : o.kind \in Closing => o.key # k}

(* The oddities a step shows: at most one in a behaviour.                  *)
Meets(shown) ==
    /\ shown \subseteq Odds
    /\ Cardinality(odd \cup shown) <= 1
    /\ odd' = odd \cup shown

EmptyBook(c) ==
    [txn |-> NewTxn, slots |-> ExtendTxnSlots(<<>>, c), costs |-> <<>>, locks |-> <<>>,
     grp |-> [g \in Keys |-> NoGroup]]

Init ==
    /\ cfg \in Configs
    /\ book = EmptyBook(cfg)
    /\ db = book
    /\ cgs = [k \in CloseKeys |-> NoGroup]
    /\ pc = Idle
    /\ flight = {}
    /\ held = [normal |-> 0, lock |-> 0]
    /\ odd = {}
    /\ state = "up"
    /\ crashes = 0

-----------------------------------------------------------------------------
(* update_signal, on a Python thread.                                      *)

SetStatus(from, to) ==
    /\ book.txn.status = from
    /\ book' = [book EXCEPT !.txn.status = to]

SignalTxn ==
    /\ \/ SetStatus("NEW", "READY")
       \/ SetStatus("ONLY_CLOSE", "RUNNING")
       \/ SetStatus("RUNNING", "ONLY_CLOSE")
    /\ db' = SaveTxn(db, book')
    /\ UNCHANGED odd

SignalUnlock ==
    /\ SetStatus("LOCK", "UNLOCKING")
    /\ db' = SaveTxnLock(db, book')
    /\ UNCHANGED odd

(* The lots to lock are the ones open at this moment.                      *)
SignalLock ==
    /\ book.txn.status = "RUNNING"
    /\ book' = [book EXCEPT !.txn.status = "LOCKING", !.txn.lockable = book.txn.open]
    /\ db' = SaveTxnLock(db, book')
    /\ Meets(IF Quiet THEN {} ELSE {"signal"})

UpdateSignal ==
    /\ state = "up"
    /\ SignalTxn \/ SignalUnlock \/ SignalLock
    /\ UNCHANGED <<cfg, cgs, pc, flight, held, state, crashes>>

(* handle_txn_status, at the head of handle_tick.                          *)
HandleTxnStatus ==
    /\ state = "up" /\ pc = Idle
    /\ SetStatus("LOCK", "UNLOCKING")
    /\ db' = SaveTxnLock(db, book')
    /\ UNCHANGED <<cfg, cgs, pc, flight, held, odd, state, crashes>>

-----------------------------------------------------------------------------
(* Opening: open and lock give the order to the exchange, then the group   *)
(* is added and at last what is under way is counted.                      *)

SendOpen(kind, quantity, slot) ==
    \E g \in FreeKeys :
        /\ \A h \in FreeKeys : g <= h
        /\ pc' = [at |-> "sent", kind |-> kind, key |-> g, quantity |-> quantity, slot |-> slot]
        /\ flight' = flight \cup {Order(kind, g, 1, quantity)}
        /\ Meets(IF kind = "lock" /\ \E o \in flight : o.kind = "lock" THEN {"late_trade"} ELSE {})

(* The first slot with room, after slots were added if there is none.      *)
Roomy == IF Room(book.slots) = {} THEN ExtendTxnSlots(book.slots, cfg) ELSE book.slots

Open ==
    /\ state = "up" /\ pc = Idle
    /\ book.txn.status \in {"READY", "RUNNING"}
    /\ book.txn.opening = 0
    /\ Room(Roomy) # {}
    /\ book' = [book EXCEPT !.slots = Roomy]
    /\ \/ /\ Roomy # book.slots                     \* the price is no better than
          /\ db' = AppendSlots(db, Roomy)                \* base_price by open_spread
          /\ UNCHANGED <<pc, flight, odd>>
       \/ \E volume \in 1..MaxVolume :
            LET i == Min(Room(Roomy))
            IN  SendOpen("open", Least(Roomy[i].capacity - Roomy[i].open, volume), i)
          /\ UNCHANGED db
    /\ UNCHANGED <<cfg, cgs, held, state, crashes>>

LockAnyNumber ==
    /\ state = "up" /\ pc = Idle
    /\ book.txn.status = "LOCKING"
    /\ book.txn.opening = 0
    /\ book.txn.lockable > book.txn.lock
    /\ \E volume \in 1..MaxVolume : SendOpen("lock", volume, 0)
    /\ UNCHANGED <<cfg, book, db, cgs, held, state, crashes>>

Lock ==
    /\ state = "up" /\ pc = Idle
    /\ book.txn.status = "LOCKING"
    /\ book.txn.opening = 0
    /\ book.txn.lockable > book.txn.lock
    /\ \E volume \in 1..MaxVolume :
        SendOpen("lock", Least(book.txn.lockable - book.txn.lock, volume), 0)
    /\ UNCHANGED <<cfg, book, db, cgs, held, state, crashes>>

(* add_open_group: the order gets the key of its group.  What is waiting   *)
(* for the next commit goes out with the query for that key.               *)
AddOpenGroup ==
    /\ state = "up" /\ pc.at = "sent" /\ pc.kind \in Opening
    /\ LET g == OpenGroup(IF pc.kind = "open" THEN "NORMAL" ELSE "LOCK", pc.quantity, pc.slot)
       IN  /\ book' = [book EXCEPT !.grp[pc.key] = g]
           /\ db' = AddGroup(AppendSlots(db, book.slots), pc.key, g)
    /\ pc' = [pc EXCEPT !.at = "added"]
    /\ UNCHANGED <<cfg, cgs, flight, held, odd, state, crashes>>

CountOpening ==
    /\ state = "up" /\ pc.at = "added" /\ pc.kind \in Opening
    /\ IF pc.kind = "open"
       THEN /\ book' = [book EXCEPT !.txn.opening = @ + pc.quantity,
                                    !.slots[pc.slot].opening = pc.quantity]
            /\ db' = SetSlot(SaveTxn(db, book'), book', pc.slot)
       ELSE /\ book' = [book EXCEPT !.txn.opening = @ + pc.quantity]
            /\ db' = SaveTxnLock(db, book')
    /\ pc' = Idle
    /\ UNCHANGED <<cfg, cgs, flight, held, odd, state, crashes>>

-----------------------------------------------------------------------------
(* Closing.  ApiFuture splits what is to be closed over the lots of the    *)
(* day and older ones: one order or two.  It returns no order when the     *)
(* account does not hold the lots.                                         *)

Split(kind, k, quantity) ==
    {{Order(kind, k, 1, quantity)}}
        \cup {{Order(kind, k, 1, n), Order(kind, k, 2, quantity - n)} : n \in 1..(quantity - 1)}

Closable(kind) ==
    LET Undecided == {o \in flight : o.kind = kind /\ o.result = -1}
        lots == IF kind = "close" THEN held.normal ELSE held.lock
    IN  lots - SumFunction([o \in Undecided |-> o.quantity])

SendClose(kind, cg) ==
    /\ cg.quantity <= Closable(kind)
    /\ \E k \in FreeCloseKeys :
        /\ \A h \in FreeCloseKeys : k <= h
        /\ \E orders \in Split(kind, k, cg.quantity) : flight' = flight \cup orders
        /\ pc' = [at |-> "sent", kind |-> kind, key |-> k, cg |-> cg]
    /\ UNCHANGED odd

NothingSent(kind, cg) ==
    /\ Meets(IF cg.quantity > Closable(kind) THEN {} ELSE {"no_position"})
    /\ UNCHANGED <<flight, pc>>

(* close: the groups whose price is right, but never the last one.         *)
Closeable == 1..(Len(book.costs) - 1)

Close ==
    /\ state = "up" /\ pc = Idle
    /\ book.txn.status \in {"ONLY_CLOSE", "RUNNING"}
    /\ book.txn.closing = 0
    /\ \E good \in Closeable, volume \in 1..MaxVolume :
        LET list == SubSeq(book.costs, 1, good)
            cg   == CloseGroup("NORMAL", book, list, volume)
            b    == MarkClosing(book, list, volume)
        IN  /\ cg.quantity > 0
            /\ \/ SendClose("close", cg) /\ book' = b
               \/ NothingSent("close", cg) /\ book' = UnmarkClosing(b, cg)
    /\ UNCHANGED <<cfg, db, cgs, held, state, crashes>>

(* unlock: here closing_count is set before the orders are sent, and stays *)
(* when there are none.                                                    *)
Unlock ==
    /\ state = "up" /\ pc = Idle
    /\ book.txn.status = "UNLOCKING"
    /\ book.txn.closing = 0
    /\ book.txn.lock > 0
    /\ \E volume \in 1..MaxVolume :
        LET cg == CloseGroup("LOCK", book, book.locks, volume)
            b  == MarkClosing(book, book.locks, volume)
        IN  /\ cg.quantity > 0
            /\ book' = [b EXCEPT !.txn.closing = cg.quantity]
            /\ \/ SendClose("unlock", cg) /\ UNCHANGED db
               \/ /\ NothingSent("unlock", cg)
                  /\ db' = SaveQuantity(SaveTxnLock(db, book'), book', cg)
    /\ UNCHANGED <<cfg, cgs, held, state, crashes>>

(* add_close_group; for unlock nothing is left to be done after it.        *)
AddCloseGroup ==
    /\ state = "up" /\ pc.at = "sent" /\ pc.kind \in Closing
    /\ LET parts == {o \in flight : o.kind = pc.kind /\ o.key = pc.key}
       IN  cgs' = [cgs EXCEPT ![pc.key] =
                    [pc.cg EXCEPT !.frag = IF Cardinality(parts) = 2 THEN "NEED" ELSE "NO"]]
    /\ db' = LET saved == SaveQuantity(db, book, pc.cg)
             IN  IF pc.kind = "close" THEN saved ELSE SaveTxnLock(saved, book)
    /\ pc' = IF pc.kind = "close" THEN [pc EXCEPT !.at = "added"] ELSE Idle
    /\ UNCHANGED <<cfg, book, flight, held, odd, state, crashes>>

CountClosing ==
    /\ state = "up" /\ pc.at = "added" /\ pc.kind = "close"
    /\ book' = [book EXCEPT !.txn.closing = pc.cg.quantity]
    /\ db' = SaveTxn(db, book')
    /\ pc' = Idle
    /\ UNCHANGED <<cfg, cgs, flight, held, odd, state, crashes>>

-----------------------------------------------------------------------------
(* The exchange: fill what it can and cancel the rest.                     *)

(* The last part of a close gets nothing after the first got something.    *)
EmptyEnd(o, n) ==
    /\ n = 0 /\ o.kind \in Closing
    /\ cgs[o.key] # NoGroup /\ cgs[o.key].frag = "RCV_ONE" /\ cgs[o.key].filled > 0

Exchange(o) ==
    /\ o.result = -1
    /\ \E n \in 0..o.quantity, trades \in 0..2 :
        /\ (n = 0) = (trades = 0)
        /\ trades <= n
        /\ Meets((IF trades = 2 THEN {"two_trades"} ELSE {})
                    \cup (IF EmptyEnd(o, n) THEN {"late_part"} ELSE {}))
        /\ flight' = (flight \ {o}) \cup {[o EXCEPT !.result = n, !.trades = trades]}
        /\ held' = CASE o.kind = "open"   -> [held EXCEPT !.normal = @ + n]
                     [] o.kind = "lock"   -> [held EXCEPT !.lock = @ + n]
                     [] o.kind = "close"  -> [held EXCEPT !.normal = @ - n]
                     [] o.kind = "unlock" -> [held EXCEPT !.lock = @ - n]
    /\ UNCHANGED <<cfg, book, db, cgs, pc, state, crashes>>

-----------------------------------------------------------------------------
(* on_order and on_trade.                                                  *)

Noting(o) == pc.at \in {"sent", "added"} /\ pc.kind = o.kind /\ pc.key = o.key
Unknown(o) == Noting(o) /\ pc.at = "sent"

(* What is left of the orders when news or a trade of o was taken.         *)
Rest(o, left) == (flight \ {o}) \cup (IF left.news \/ left.trades > 0 THEN {left} ELSE {})

Kept(closes, orders) ==
    [k \in CloseKeys |-> IF \E o \in orders : o.kind \in Closing /\ o.key = k
                         THEN closes[k] ELSE NoGroup]

(* The state after a handler that leaves b in memory and d in redis.       *)
Handled(b, d, closes) ==
    /\ cgs' = Kept(closes, flight')
    /\ book' = Forget(b, Used(b, flight', cgs'))
    /\ db' = Forget(d, Used(b, flight', cgs'))

PostOpen(o) ==
    LET slot == book.grp[o.key].slot
        b == [FillOpenGroup(book, o.key, o.result) EXCEPT
                !.txn.open = @ + o.result, !.txn.opening = 0,
                !.slots[slot].open = @ + o.result, !.slots[slot].opening = 0]
        d == SaveFilled(SaveTxn(db, b), b, o.key)
    IN  Handled(b, SetSlot(d, b, slot), cgs)

PostLock(o) ==
    LET b == [FillOpenGroup(book, o.key, o.result) EXCEPT
                !.txn.lock = @ + o.result, !.txn.opening = 0]
    IN  Handled(b, SaveFilled(SaveTxnLock(db, b), b, o.key), cgs)

PostCloseNever(o) ==
    Handled(book, db, [cgs EXCEPT ![o.key] = FillCloseGroup(@, o.result)])

(* post_close and post_unlock: only the last news, and only when nothing   *)
(* was filled; the trades do the rest.                                     *)
PostClose(o) ==
    LET cg == FillCloseGroup(cgs[o.key], o.result)
        b  == [UnmarkClosing(book, cg) EXCEPT !.txn.closing = 0]
        d  == SaveQuantity(IF o.kind = "close" THEN SaveTxn(db, b) ELSE SaveTxnLock(db, b), b, cg)
        closes == [cgs EXCEPT ![o.key] = cg]
    IN  IF cg.frag = "RCV_ONE" \/ cg.filled > 0
        THEN Handled(book, db, closes)
        ELSE Handled(b, d, closes)

LatePart(o) ==
    /\ o.kind \in Closing
    /\ \E p \in flight \ {o} :
        /\ p.kind = o.kind /\ p.key = o.key
        /\ p.news => p.result = 0 /\ o.result > 0

OnOrder(o) ==
    /\ state = "up" /\ o.news /\ o.result # -1
    /\ Meets((IF Noting(o) THEN {"overtaken"} ELSE {}) \cup (IF LatePart(o) THEN {"late_part"} ELSE {}))
    /\ flight' = Rest(o, [o EXCEPT !.news = FALSE])
    /\ \/ /\ Unknown(o)                             \* its group cannot be found
          /\ state' = "failed"
          /\ UNCHANGED <<book, db, cgs>>
       \/ /\ ~Unknown(o)
          /\ \/ o.kind = "open" /\ PostOpen(o)
             \/ o.kind = "lock" /\ PostLock(o)
             \/ o.kind \in Closing /\ PostClose(o)
          /\ UNCHANGED state
    /\ UNCHANGED <<cfg, pc, held, crashes>>

PostOpenAfterTrade(o) ==
    \E at \in 0..Len(book.costs) :
        LET b == [book EXCEPT !.costs = Placed(@, at, o.key),
                              !.txn.status = IF @ = "READY" THEN "RUNNING" ELSE @]
        IN  Handled(b, [SaveTxn(db, b) EXCEPT !.costs = PlacedOnce(book.costs, at, o.key)], cgs)

LockFullLater == book.txn.lock > book.txn.lockable
LockFull      == book.txn.lock >= book.txn.lockable

(* The lock is complete; the code asserts that it was being made.          *)
LockAsserts == LockFull => book.txn.status = "LOCKING"

PostLockAfterTrade(o) ==
    \E at \in 0..Len(book.locks) :
        LET b == [book EXCEPT !.locks = Placed(@, at, o.key),
                              !.txn.status = IF LockFull THEN "LOCK" ELSE @]
        IN  Handled(b, [SaveTxn(SaveTxnLock(db, b), b) EXCEPT
                            !.locks = PlacedOnce(book.locks, at, o.key)], cgs)

ClosedBook(o) ==
    LET cg   == cgs[o.key]
        gone == Emptied(BookClosed(book, cg), cg)
    IN  [BookClosed(book, cg) EXCEPT
            !.costs = WithoutGroups(@, gone),
            !.txn.closing = 0, !.txn.open = @ - cg.filled,
            !.slots = ResetTxnSlots(@, cg.filled)]

BookClose(o) ==
    LET b == ClosedBook(o)
        d == SaveQuantity(SaveTxn(db, b), b, cgs[o.key])
    IN  Handled(b, [d EXCEPT !.costs = b.costs, !.slots = b.slots], cgs)

(* The trade of the first of two orders waits for the second one's.        *)
PostCloseAfterTrade(o) ==
    IF cgs[o.key].frag = "RCV_ONE" THEN Handled(book, db, cgs) ELSE BookClose(o)

Unlocked(o) ==
    LET cg   == cgs[o.key]
        gone == Emptied(BookClosed(book, cg), cg)
        lock == book.txn.lock - cg.filled
    IN  [BookClosed(book, cg) EXCEPT
            !.locks = WithoutGroups(@, gone),
            !.txn.closing = 0, !.txn.lock = lock,
            !.txn.status = IF lock = 0 THEN "RUNNING" ELSE @]

(* With the last lot of the lock the code asserts that no group is left,   *)
(* and takes the first of the costs.                                       *)
UnlockAsserts(o) ==
    LET b == Unlocked(o)
    IN  cgs[o.key].frag # "RCV_ONE" /\ b.txn.lock = 0 => b.locks = <<>> /\ b.costs # <<>>

PostUnlockAfterTrade(o) ==
    LET cg == cgs[o.key]
        b  == Unlocked(o)
        d  == [SaveQuantity(SaveTxn(SaveTxnLock(db, b), b), b, cg) EXCEPT !.locks = b.locks]
    IN  IF cg.frag = "RCV_ONE" THEN Handled(book, db, cgs) ELSE Handled(b, d, cgs)

TradeFails(o) ==
    \/ Unknown(o)
    \/ o.kind = "lock" /\ ~LockAsserts
    \/ o.kind = "unlock" /\ ~UnlockAsserts(o)

OnTrade(o) ==
    /\ state = "up" /\ o.trades > 0
    /\ Meets((IF o.news THEN {"trade_first"} ELSE {}) \cup (IF Noting(o) THEN {"overtaken"} ELSE {}))
    /\ flight' = Rest(o, [o EXCEPT !.trades = @ - 1])
    /\ \/ /\ TradeFails(o)
          /\ state' = "failed"
          /\ UNCHANGED <<book, db, cgs>>
       \/ /\ ~TradeFails(o)
          /\ \/ o.kind = "open" /\ PostOpenAfterTrade(o)
             \/ o.kind = "lock" /\ PostLockAfterTrade(o)
             \/ o.kind = "close" /\ PostCloseAfterTrade(o)
             \/ o.kind = "unlock" /\ PostUnlockAfterTrade(o)
          /\ UNCHANGED state
    /\ UNCHANGED <<cfg, pc, held, crashes>>

-----------------------------------------------------------------------------
(* Restarts: at night, or at any moment.                                   *)

Crash ==
    /\ state = "up" /\ crashes < MaxCrash
    /\ crashes' = crashes + 1
    /\ state' = "down"
    /\ pc' = Idle
    /\ flight' = {}
    /\ cgs' = [k \in CloseKeys |-> NoGroup]
    /\ Meets(IF Quiet THEN {} ELSE {"crash"})
    /\ UNCHANGED <<cfg, book, db, held>>

(* load_long_txn: what it asserts, and the slots it makes of the ones in   *)
(* redis and those of the configuration, read beyond its end if it is      *)
(* shorter.                                                                *)
LoadAsserts(config) ==
    /\ db.txn.closing = 0 /\ db.txn.opening = 0
    /\ \A i \in DOMAIN db.slots : db.slots[i].opening = 0
    /\ OpenSum(db.slots) <= CfgSum(config)
    /\ \A g \in NamedGroups(db.costs) \cup NamedGroups(db.locks) : db.grp[g].closing = 0

LoadedSlots(config) ==
    LET both == 1..Least(Len(db.slots), Len(config))
        differ == \E i \in both : db.slots[i].capacity # config[i]
    IN  (IF differ \/ Len(db.slots) > Len(config)
         THEN {Redistributed(OpenSum(db.slots), config)} ELSE {})
            \cup (IF differ THEN {} ELSE {ShrinkTxnSlots(db.slots)})

Load ==
    /\ state = "down"
    /\ cfg' \in Configs
    /\ \/ /\ ~LoadAsserts(cfg')
          /\ state' = "failed"
          /\ UNCHANGED <<book, db, odd>>
       \/ /\ LoadAsserts(cfg')
          /\ \E slots \in LoadedSlots(cfg') :
                /\ db' = ResetSlots(db, slots)
                /\ book' = [txn |-> LoadTxn(db), slots |-> slots,
                            costs |-> db.costs, locks |-> db.locks,
                            grp |-> LoadGroups(db, NamedGroups(db.costs) \cup NamedGroups(db.locks))]
                /\ Meets(IF slots = ShrinkTxnSlots(db.slots) /\ OpenSum(slots) # OpenSum(db.slots)
                         THEN {"gap"} ELSE {})
          /\ state' = "up"
    /\ UNCHANGED <<cgs, pc, flight, held, crashes>>

-----------------------------------------------------------------------------
Next ==
    \/ UpdateSignal \/ HandleTxnStatus
    \/ Open \/ Lock \/ AddOpenGroup \/ CountOpening
    \/ Close \/ Unlock \/ AddCloseGroup \/ CountClosing
    \/ \E o \in flight : Exchange(o) \/ OnOrder(o) \/ OnTrade(o)
    \/ Crash \/ Load

Spec == Init /\ [][Next]_vars

(* The strategy thread goes on with what it began, the exchange decides    *)
(* on every order, and its messages come: for every kind of order, as the  *)
(* stream keeps their order and one kind cannot starve the other.          *)
Fairness ==
    /\ WF_vars(AddOpenGroup \/ CountOpening \/ AddCloseGroup \/ CountClosing)
    /\ \A kind \in Opening \cup Closing :
        WF_vars(\E o \in flight : o.kind = kind /\ (Exchange(o) \/ OnOrder(o) \/ OnTrade(o)))

FairSpec == Spec /\ Fairness

-----------------------------------------------------------------------------
(* Properties.  Each one names the oddities it survives.                   *)

Sound(survived) == odd \subseteq survived /\ state = "up"
Harmless == {"late_trade", "no_position", "overtaken"}

(* When no order is under way, the counters of the transaction, the groups *)
(* behind its costs and its locks, and the account agree on the lots, and  *)
(* nothing is marked as being opened or closed: whatever part of its       *)
(* orders was filled, in whatever order opens, closes and locks overlap    *)
(* (post_open, post_close, post_lock, post_unlock and their _after_trade). *)
BookRight ==
    Sound({"late_trade", "signal"}) /\ Quiet =>
        /\ book.txn.open = held.normal /\ book.txn.open = LotsOf(book, book.costs)
        /\ book.txn.lock = held.lock /\ book.txn.lock = LotsOf(book, book.locks)
        /\ book.txn.opening = 0 /\ book.txn.closing = 0
        /\ \A g \in Keys : book.grp[g] # NoGroup => book.grp[g].closing = 0

(* The slots hold the open lots and none of them more than it can, though  *)
(* an open fills the slot it chose when it was sent and closes empty them  *)
(* from the last one backwards (reset_txn_slots), and though a run of the  *)
(* program with another configuration pours the lots into new slots.       *)
SlotsRight ==
    Sound(Harmless \cup {"signal"}) /\ Quiet =>
        /\ OpenSum(book.slots) = book.txn.open
        /\ \A i \in DOMAIN book.slots : book.slots[i].open \in 0..book.slots[i].capacity

(* A lock never outgrows the open lots it protects: lock_count is bounded  *)
(* by lockable_count, which is open_count at the time of the signal.       *)
LockCovers == Sound(Harmless) => book.txn.lock <= book.txn.open

(* Locking and unlocking have something left to do when no order is under  *)
(* way: only the trade of the last lot ends them, and lock() and unlock()  *)
(* send nothing when nothing is left.                                      *)
LockGoesOn ==
    Sound(Harmless \cup {"signal"}) /\ Quiet =>
        /\ book.txn.status = "LOCKING" => book.txn.lock < book.txn.lockable
        /\ book.txn.status = "UNLOCKING" => book.txn.lock > 0

(* Between ticks redis holds what memory holds: every handler saves all    *)
(* that it changed, so a restart at any such moment goes on from there.    *)
Recoverable ==
    Sound(Harmless \cup {"signal"}) /\ pc = Idle =>
        /\ db.txn = book.txn /\ db.slots = book.slots
        /\ db.costs = book.costs /\ db.locks = book.locks
        /\ \A g \in ToSet(book.costs) \cup ToSet(book.locks) : db.grp[g] = book.grp[g]

(* No handler throws and no assertion fails, not even those of load_*_txn  *)
(* after a restart at which no order is under way.                         *)
NeverFails == odd \subseteq {"signal"} => state # "failed"

(* What is counted as being closed does not stay so, or nothing would ever *)
(* be closed again: the same for what is being opened.                     *)
OrdersEnd ==
    /\ book.txn.opening > 0 ~> book.txn.opening = 0 \/ odd # {} \/ state # "up"
    /\ book.txn.closing > 0 ~> book.txn.closing = 0 \/ odd # {} \/ state # "up"
=============================================================================
