------------------------- MODULE TimeLineStgyProofs -------------------------
(***************************************************************************)
(* That the time line strategy keeps its book right, for every slot, any   *)
(* number of groups, and any volume of the ticks.                          *)
(*                                                                         *)
(* The theorems are about the behaviours the code is written for: the      *)
(* exchange sends the final news of an order, then one trade, once the     *)
(* strategy has noted the order.                                           *)
(***************************************************************************)
EXTENDS TimeLineStgy, TxnBookProofs

-----------------------------------------------------------------------------
(* The strategy.                                                           *)

Calm == odd \subseteq {"no_position", "limit_open"}

(* The types.                                                              *)
Txns   == [status : Status, open : Int, opening : Nat, closing : Nat, lock : Nat, lockable : Nat]
Slots  == [open : Int, opening : Nat, capacity : Nat]
Books  == [txn : Txns, slots : [1..1 -> Slots], costs : Seq(Keys), grp : [Keys -> Groups \cup {NoGroup}]]
Frags  == {"NO", "NEED", "RCV_ONE", "RCV_TWO"}
Closes == [type : {"NORMAL"}, quantity : Nat, filled : Nat, frag : Frags, groups : Seq(Keys)]
Orders == [kind : {"open", "close"}, key : Keys \cup CloseKeys, quantity : Nat, part : {1, 2},
           result : Int, news : BOOLEAN, trades : Nat]
OpenPcs  == [at : {"sent", "added"}, kind : {"open"}, key : Keys, quantity : Nat]
ClosePcs == [at : {"sent", "added"}, kind : {"close"}, key : CloseKeys, cg : Closes]

PcRight == \/ pc \in {Idle, At("open"), At("close")}
           \/ pc \in OpenPcs
           \/ pc \in ClosePcs

Types ==
    /\ book \in Books /\ db \in Books
    /\ cgs \in [CloseKeys -> Closes \cup {NoGroup}]
    /\ PcRight
    /\ flight \subseteq Orders /\ IsFiniteSet(flight)
    /\ held \in Int
    /\ state \in {"up", "down"}
    /\ state = "down" => pc = Idle /\ flight = {}

(* An order has its news before its one trade; no two orders are the same. *)
OrderRight(o) ==
    /\ o.quantity > 0 /\ o.result \in -1..o.quantity
    /\ o.result = -1 => o.news
    /\ o.trades = (IF o.result > 0 THEN 1 ELSE 0)
    /\ ~o.news => o.result > 0
    /\ o.key \in (IF o.kind = "open" THEN Keys ELSE CloseKeys)

OrdersRight ==
    /\ \A o \in flight : OrderRight(o)
    /\ \A o, p \in flight :
          o.kind = p.kind /\ o.key = p.key /\ (o.kind = "close" => o.part = p.part) => o = p

(* Open orders: at most one awaits its news, and the slot has room for it. *)
Opens    == {o \in flight : o.kind = "open"}
Fresh    == {o \in Opens : o.news}
Noted(o) == ~ (pc.at = "sent" /\ pc.kind = "open" /\ pc.key = o.key)
Level    == book.slots[1].open
Listed   == ToSet(book.costs)

OpenRight ==
    /\ \A o, p \in Fresh : o = p
    /\ \A o \in Fresh :
          /\ Level + o.quantity <= Slot
          /\ IF pc.kind = "open" THEN pc.key = o.key /\ pc.quantity = o.quantity
                                 ELSE book.txn.opening = o.quantity
    /\ pc.kind = "open" => Fresh # {} /\ book.txn.opening = 0
    /\ book.txn.opening > 0 => Fresh # {}
    /\ book.slots[1].opening = book.txn.opening /\ book.slots[1].capacity = Slot

(* The group behind an open order, once the strategy has added it.         *)
GroupsRight ==
    \A o \in Opens :
        /\ o.key \notin Listed
        /\ Noted(o) => book.grp[o.key] = [OpenGroup("NORMAL", o.quantity, 1)
                                             EXCEPT !.filled = IF o.news THEN 0 ELSE o.result]

(* The groups with lots: in the costs, or about to get there.              *)
Holding == Listed \cup {o.key : o \in Opens \ Fresh}
LotsRight ==
    /\ IsInjective(book.costs)
    /\ \A g \in Holding : /\ book.grp[g] \in Groups /\ Remain(book.grp[g]) > 0
                          /\ book.grp[g].closing <= Remain(book.grp[g])
    /\ Level = LotsIn(book.grp, Holding)
    /\ book.txn.open = Level /\ Level <= Slot

(* Close orders: which ones there are, by the news that came.              *)
Sells == {o \in flight : o.kind = "close"}

OneNew(cg) == \E o \in Sells : Sells = {o} /\ o.news /\ o.quantity = cg.quantity
BothNew(cg) ==
    \E o, p \in Sells : o # p /\ Sells = {o, p} /\ o.news /\ p.news
                        /\ o.quantity + p.quantity = cg.quantity
OneHeard(cg) == \E o \in Sells : Sells = {o} /\ ~o.news /\ o.quantity = cg.quantity /\ cg.filled = o.result
SecondNew(cg) ==
    \E o \in Sells : /\ o.news /\ o.quantity + cg.filled <= cg.quantity
                     /\ o.result = 0 => cg.filled = 0
                     /\ \/ Sells = {o}
                        \/ \E p \in Sells : Sells = {o, p} /\ ~p.news /\ cg.filled = p.result
SecondHeard(cg) == cg.filled \in 1..cg.quantity /\ \E o \in Sells : Sells = {o} /\ ~o.news

Parts(cg) ==
    \/ cg.frag = "NO" /\ OneNew(cg) /\ cg.filled = 0
    \/ cg.frag = "NO" /\ OneHeard(cg)
    \/ cg.frag = "NEED" /\ BothNew(cg) /\ cg.filled = 0
    \/ cg.frag = "RCV_ONE" /\ SecondNew(cg)
    \/ cg.frag = "RCV_TWO" /\ SecondHeard(cg)

(* The lots marked as being closed are those of the order.                 *)
Marked(k, cg) ==
    /\ \A o \in Sells : o.key = k
    /\ cg.quantity > 0 /\ IsInjective(cg.groups)
    /\ ToSet(cg.groups) \subseteq Listed
    /\ \A g \in Listed \ ToSet(cg.groups) : book.grp[g].closing = 0
    /\ ClosingIn(book.grp, ToSet(cg.groups)) = cg.quantity

(* The account has what the slot has, but for what was filled and is not   *)
(* booked yet.                                                             *)
Unheard(o) == IF ~o.news \/ o.result < 0 THEN 0 ELSE IF o.kind = "open" THEN o.result ELSE -o.result
UnheardIn(orders) == SumFunction([o \in orders |-> Unheard(o)])
Account(filled) == held = Level - filled + UnheardIn(flight)

NoClosing ==
    /\ pc.kind # "close" /\ book.txn.closing = 0 /\ Sells = {}
    /\ \A k \in CloseKeys : cgs[k] = NoGroup
    /\ \A g \in Listed : book.grp[g].closing = 0
    /\ Account(0)

CloseSent ==
    /\ pc.kind = "close" /\ pc.at = "sent" /\ book.txn.closing = 0
    /\ \A k \in CloseKeys : cgs[k] = NoGroup
    /\ Marked(pc.key, pc.cg) /\ pc.cg.filled = 0 /\ pc.cg.frag = "NO"
    /\ OneNew(pc.cg) \/ BothNew(pc.cg)
    /\ Account(0)

CloseNoted(k) ==
    /\ cgs[k] # NoGroup /\ \A l \in CloseKeys : l # k => cgs[l] = NoGroup
    /\ IF pc.kind = "close"
       THEN /\ pc.at = "added" /\ pc.key = k /\ book.txn.closing = 0
            /\ cgs[k].quantity = pc.cg.quantity /\ cgs[k].groups = pc.cg.groups
            /\ cgs[k].frag \in {"NO", "NEED"} /\ cgs[k].filled = 0
       ELSE book.txn.closing = cgs[k].quantity
    /\ Marked(k, cgs[k])
    /\ Parts(cgs[k])
    /\ Account(cgs[k].filled)

CloseRight == NoClosing \/ CloseSent \/ \E k \in CloseKeys : CloseNoted(k)

(* Redis has what the memory has, but for the lots being marked.           *)
Marking  == IF pc.kind = "close" /\ pc.at = "sent" THEN ToSet(pc.cg.groups) ELSE {}
Saved(g) == IF g \in Marking THEN [book.grp[g] EXCEPT !.closing = 0] ELSE book.grp[g]
Needed   == Listed \cup {o.key : o \in {x \in Opens : Noted(x)}}

SameCounters(t, u) ==
    t.open = u.open /\ t.opening = u.opening /\ t.closing = u.closing
    /\ t.lock = u.lock /\ t.lockable = u.lockable

RedisRight ==
    /\ db.slots = book.slots /\ db.costs = book.costs
    /\ SameCounters(db.txn, book.txn)
    /\ db.txn.status \in {"EXIT", "STOP"} => book.txn.status = db.txn.status
    /\ \A g \in Needed : db.grp[g] = Saved(g)

(* Once stopped, nothing is opened any more.                               *)
StopRight ==
    "limit_open" \notin odd /\ book.txn.status \in {"STOP", "EXIT"} =>
        /\ Opens = {} /\ pc.kind # "open"
        /\ book.txn.status = "EXIT" => Level = 0

Core == Types /\ OrdersRight /\ OpenRight /\ GroupsRight /\ LotsRight /\ CloseRight /\ RedisRight /\ StopRight

IInv == Calm => Core

-----------------------------------------------------------------------------
(* Sums over orders and groups.                                            *)

(* What one order more, or one less, changes of the lots not heard of yet. *)
LEMMA OneOrder ==
    ASSUME NEW S \in SUBSET Orders, IsFiniteSet(S), NEW o \in Orders
    PROVE  /\ UnheardIn(S) \in Int /\ Unheard(o) \in Int
           /\ o \notin S => UnheardIn(S \cup {o}) = UnheardIn(S) + Unheard(o)
           /\ o \in S => UnheardIn(S \ {o}) = UnheardIn(S) - Unheard(o)
  <1> DEFINE f(T) == [x \in T |-> Unheard(x)]
             F == f(Orders)
  <1>1. ASSUME NEW x \in Orders PROVE Unheard(x) \in Int
    <2>1. x.result \in Int
      BY DEF Orders
    <2> QED
      BY <2>1 DEF Unheard
  <1>2. \A x \in Orders : F[x] = Unheard(x) /\ F[x] \in Int
    BY <1>1
  <1>3. ASSUME NEW T \in SUBSET Orders, IsFiniteSet(T) PROVE UnheardIn(T) = SumFunctionOnSet(F, T)
    <2>1. UnheardIn(T) = SumFunctionOnSet(f(T), T)
      BY DEF UnheardIn, SumFunction
    <2>2. \A x \in T : f(T)[x] = F[x]
      BY <1>2
    <2> HIDE DEF f, F
    <2> QED
      BY <1>3, <2>1, <2>2, SameSum
  <1> HIDE DEF F
  <1>4. UnheardIn(S) \in Int
    BY <1>2, <1>3, SumIsInt
  <1>5. ASSUME o \notin S PROVE UnheardIn(S \cup {o}) = UnheardIn(S) + Unheard(o)
    <2>1. IsFiniteSet(S \cup {o}) /\ S \cup {o} \in SUBSET Orders /\ (S \cup {o}) \ {o} = S /\ o \in S \cup {o}
      BY <1>5, FS_AddElement
    <2>2. SumFunctionOnSet(F, S \cup {o}) = F[o] + SumFunctionOnSet(F, S)
      BY <1>2, <2>1, SumTakeOut
    <2> QED
      BY <1>1, <1>2, <1>3, <1>4, <2>1, <2>2
  <1>6. ASSUME o \in S PROVE UnheardIn(S \ {o}) = UnheardIn(S) - Unheard(o)
    <2>1. IsFiniteSet(S \ {o}) /\ S \ {o} \in SUBSET Orders
      BY FS_RemoveElement
    <2>2. SumFunctionOnSet(F, S) = F[o] + SumFunctionOnSet(F, S \ {o})
      BY <1>2, <1>6, SumTakeOut
    <2>3. SumFunctionOnSet(F, S \ {o}) \in Int
      BY <1>2, <2>1, SumIsInt
    <2> QED
      BY <1>1, <1>2, <1>3, <1>4, <2>1, <2>2, <2>3
  <1> QED
    BY <1>1, <1>4, <1>5, <1>6

-----------------------------------------------------------------------------
(* The parts of a book.                                                    *)
LEMMA BookParts ==
    ASSUME NEW b \in Books
    PROVE  /\ b.txn \in Txns /\ b.slots \in [1..1 -> Slots] /\ b.slots[1] \in Slots
           /\ b.costs \in Seq(Keys) /\ b.grp \in [Keys -> Groups \cup {NoGroup}]
           /\ b.txn.open \in Int /\ b.txn.opening \in Nat /\ b.txn.closing \in Nat
           /\ b.txn.lock \in Nat /\ b.txn.lockable \in Nat /\ b.txn.status \in Status
           /\ b.slots[1].open \in Int /\ b.slots[1].opening \in Nat /\ b.slots[1].capacity \in Nat
           /\ "grp" \in DOMAIN b
  <1>1. b.txn \in Txns /\ b.slots \in [1..1 -> Slots] /\ b.costs \in Seq(Keys)
        /\ b.grp \in [Keys -> Groups \cup {NoGroup}] /\ "grp" \in DOMAIN b
    BY DEF Books
  <1>2. b.slots[1] \in Slots
    BY <1>1
  <1> QED
    BY <1>1, <1>2 DEF Txns, Slots

(* update_txn writes the status and the counters, and nothing else.        *)
LEMMA SavedTxn ==
    ASSUME NEW b \in Books, NEW d \in Books
    PROVE  LET e == SaveTxn(d, b)
           IN
           /\ e \in Books /\ e.slots = d.slots /\ e.costs = d.costs /\ e.grp = d.grp
           /\ e.txn.status = b.txn.status
           /\ SameCounters(d.txn, b.txn) => SameCounters(e.txn, b.txn)
           /\ e.txn.open = b.txn.open /\ e.txn.opening = b.txn.opening /\ e.txn.closing = b.txn.closing
           /\ e.txn.lock = d.txn.lock /\ e.txn.lockable = d.txn.lockable
  <1> DEFINE t == [d.txn EXCEPT !.status = b.txn.status, !.open = b.txn.open,
                                !.opening = b.txn.opening, !.closing = b.txn.closing]
             s == d.txn
             u == b.txn
             e == SaveTxn(d, b)
  <1>1. e = [d EXCEPT !.txn = t]
    BY DEF SaveTxn
  <1>2. s \in Txns /\ u.status \in Status /\ u.open \in Int /\ u.opening \in Nat /\ u.closing \in Nat
    BY BookParts
  <1>3. t = [s EXCEPT !.status = u.status, !.open = u.open, !.opening = u.opening, !.closing = u.closing]
    OBVIOUS
  <1> HIDE DEF s, u, t, e
  <1>4. /\ t \in Txns /\ t.status = u.status /\ t.open = u.open /\ t.opening = u.opening
        /\ t.closing = u.closing /\ t.lock = s.lock /\ t.lockable = s.lockable
    BY <1>2, <1>3 DEF Txns
  <1>5. e \in Books /\ e.slots = d.slots /\ e.costs = d.costs /\ e.grp = d.grp /\ e.txn = t
    BY <1>1, <1>4 DEF Books
  <1> QED
    BY <1>4, <1>5 DEF SameCounters, s, u, e

(* A step that changes no lots: only the status and the place of the       *)
(* strategy thread between its open and its close.                         *)
LEMMA Framed ==
    ASSUME Core, UNCHANGED <<cgs, flight, held>>, state = "up", state' = "up",
           pc' = pc \/ (pc.kind = "none" /\ pc' \in {Idle, At("open"), At("close")}),
           book' \in Books, db' \in Books,
           book'.slots = book.slots, book'.costs = book.costs, book'.grp = book.grp,
           SameCounters(book'.txn, book.txn),
           db'.slots = db.slots, db'.costs = db.costs, \A g \in Needed : db'.grp[g] = db.grp[g],
           SameCounters(db'.txn, db.txn),
           db'.txn.status \in {"EXIT", "STOP"} => book'.txn.status = db'.txn.status,
           StopRight'
    PROVE  Core'
  <1> USE DEF Core
  <1>0. pc' = pc \/ (pc.kind = "none" /\ pc'.kind = "none")
    BY DEF Idle, At
  <1>1. Types'
    BY DEF Types, PcRight
  <1>2. OrdersRight'
    BY DEF OrdersRight
  <1>3. Opens' = Opens /\ Fresh' = Fresh /\ Level' = Level /\ Listed' = Listed /\ Sells' = Sells
        /\ Holding' = Holding
    BY DEF Opens, Fresh, Level, Listed, Sells, Holding
  <1>4. \A o : Noted(o)' <=> Noted(o)
    BY <1>0 DEF Noted
  <1>5. OpenRight'
    BY <1>0, <1>3 DEF OpenRight, SameCounters
  <1>6. GroupsRight'
    BY <1>3, <1>4 DEF GroupsRight
  <1>7. LotsRight'
    BY <1>3 DEF LotsRight, SameCounters
  <1>8. CloseRight'
    <2>1. NoClosing => NoClosing'
      BY <1>0, <1>3 DEF NoClosing, Account, SameCounters
    <2>2. CloseSent => CloseSent'
      <3> SUFFICES ASSUME CloseSent PROVE CloseSent'
        OBVIOUS
      <3>1. pc' = pc
        BY <1>0 DEF CloseSent
      <3>2. Marked(pc.key, pc.cg)'
        BY <1>3, <3>1 DEF CloseSent, Marked
      <3>3. OneNew(pc.cg)' \/ BothNew(pc.cg)'
        BY <1>3, <3>1 DEF CloseSent, OneNew, BothNew
      <3>4. Account(0)'
        BY <1>3 DEF CloseSent, Account
      <3> QED
        BY <3>1, <3>2, <3>3, <3>4 DEF CloseSent, SameCounters
    <2>3. ASSUME NEW k \in CloseKeys, CloseNoted(k) PROVE CloseNoted(k)'
      <3>1. Marked(k, cgs[k])'
        BY <1>3, <2>3 DEF CloseNoted, Marked
      <3>2. Parts(cgs[k])'
        BY <1>3, <2>3 DEF CloseNoted, Parts, OneNew, OneHeard, BothNew, SecondNew, SecondHeard
      <3>3. Account(cgs[k].filled)'
        BY <1>3, <2>3 DEF CloseNoted, Account
      <3> QED
        BY <1>0, <2>3, <3>1, <3>2, <3>3 DEF CloseNoted, SameCounters
    <2> QED
      BY <2>1, <2>2, <2>3 DEF CloseRight
  <1>9. RedisRight'
    <2>1. Needed' = Needed
      BY <1>3, <1>4 DEF Needed
    <2>2. \A g : Saved(g)' = Saved(g)
      BY <1>0 DEF Saved, Marking
    <2> QED
      BY <2>1, <2>2 DEF RedisRight, SameCounters
  <1> QED
    BY <1>1, <1>2, <1>5, <1>6, <1>7, <1>8, <1>9
(* What the strategy counts as being opened.                               *)
Counting(b, n) == [b EXCEPT !.txn.opening = @ + n, !.slots[1].opening = n]

(* The counters and the slot are written, and nothing else.                *)
LEMMA Counted ==
    ASSUME NEW b \in Books, NEW n \in Nat
    PROVE  LET c == Counting(b, n)
           IN
           /\ c \in Books /\ c.costs = b.costs /\ c.grp = b.grp
           /\ c.txn.opening = b.txn.opening + n
           /\ c.txn.open = b.txn.open /\ c.txn.closing = b.txn.closing
           /\ c.txn.lock = b.txn.lock /\ c.txn.lockable = b.txn.lockable
           /\ c.txn.status = b.txn.status
           /\ c.slots[1].opening = n /\ c.slots[1].open = b.slots[1].open
           /\ c.slots[1].capacity = b.slots[1].capacity
  <1> DEFINE c == Counting(b, n)
             t == [b.txn EXCEPT !.opening = @ + n]
             r == [b.slots[1] EXCEPT !.opening = n]
             s == [b.slots EXCEPT ![1] = r]
  <1>1. b.txn \in Txns /\ b.slots[1] \in Slots /\ b.slots \in [1..1 -> Slots] /\ b.txn.opening + n \in Nat
    BY BookParts
  <1>2. /\ t \in Txns /\ t.opening = b.txn.opening + n /\ t.open = b.txn.open
        /\ t.closing = b.txn.closing /\ t.lock = b.txn.lock /\ t.lockable = b.txn.lockable
        /\ t.status = b.txn.status
    BY <1>1 DEF Txns
  <1>3. r \in Slots /\ r.opening = n /\ r.open = b.slots[1].open /\ r.capacity = b.slots[1].capacity
    BY <1>1 DEF Slots
  <1>4. c = [b EXCEPT !.txn = t, !.slots = s]
    BY <1>1 DEF Books, Counting
  <1> HIDE DEF t, r, c
  <1>5. s \in [1..1 -> Slots] /\ s[1] = r
    BY <1>1, <1>3
  <1> HIDE DEF s
  <1>6. c \in Books /\ c.txn = t /\ c.slots = s /\ c.costs = b.costs /\ c.grp = b.grp
    BY <1>1, <1>2, <1>4, <1>5 DEF Books
  <1> QED
    BY <1>2, <1>3, <1>5, <1>6 DEF c

(* A slot copied from one book to another.                                 *)
LEMMA SlotSet ==
    ASSUME NEW b \in Books, NEW d \in Books
    PROVE  LET e == SetSlot(d, b, 1)
           IN  e \in Books /\ e.slots = b.slots /\ e.costs = d.costs /\ e.grp = d.grp /\ e.txn = d.txn
  <1>1. b.slots[1] \in Slots /\ b.slots \in [1..1 -> Slots] /\ d.slots \in [1..1 -> Slots]
    BY BookParts
  <1> DEFINE e == SetSlot(d, b, 1)
             s == [d.slots EXCEPT ![1] = b.slots[1]]
  <1>2. s = b.slots
    BY <1>1
  <1>3. e = [d EXCEPT !.slots = s]
    BY DEF SetSlot
  <1> HIDE DEF s, e
  <1>4. e \in Books /\ e.slots = b.slots /\ e.costs = d.costs /\ e.grp = d.grp /\ e.txn = d.txn
    BY <1>1, <1>2, <1>3 DEF Books
  <1> QED
    BY <1>4 DEF e
(* A status is set, in memory and in redis.                                *)
LEMMA SetStatusKeeps ==
    ASSUME Core, UNCHANGED <<cgs, flight, held, odd, state>>, state = "up",
           pc' = pc \/ (pc.kind = "none" /\ pc' \in {Idle, At("open"), At("close")}),
           NEW s \in Status, SetStatus(s),
           book.txn.status \notin {"STOP", "EXIT"} => s \notin {"STOP", "EXIT"},
           s = "EXIT" => book.txn.status = "EXIT" \/ Level = 0
    PROVE  Core'
  <1> USE DEF Core
  <1>1. book \in Books /\ db \in Books
    BY DEF Types
  <1>2. book' = [book EXCEPT !.txn.status = s] /\ db' = SaveTxn(db, book')
    BY DEF SetStatus
  <1>3. /\ book' \in Books /\ book'.slots = book.slots /\ book'.costs = book.costs /\ book'.grp = book.grp
        /\ book'.txn.status = s /\ SameCounters(book'.txn, book.txn)
    BY <1>1, <1>2, BookParts DEF Books, Txns, SameCounters
  <1>4. SameCounters(db.txn, book'.txn)
    BY <1>3 DEF RedisRight, SameCounters
  <1>5. /\ db' \in Books /\ db'.slots = db.slots /\ db'.costs = db.costs /\ db'.grp = db.grp
        /\ db'.txn.status = s /\ SameCounters(db'.txn, book'.txn)
    <2> HIDE DEF Core
    <2>1. SaveTxn(db, book') \in Books /\ db' = SaveTxn(db, book')
      BY <1>1, <1>2, <1>3, SavedTxn
    <2> QED
      BY <1>1, <1>3, <1>4, <2>1, SavedTxn
  <1>6. SameCounters(db'.txn, db.txn)
    BY <1>4, <1>5 DEF SameCounters
  <1>7. StopRight'
    BY <1>3 DEF StopRight, Level, Opens, Idle, At
  <1> QED
    BY <1>3, <1>5, <1>6, <1>7, Framed

(* The day goes by.                                                        *)
LEMMA BeforeTradingKeeps ==
    ASSUME Core, BeforeTrading
    PROVE  Core'
  <1>1. pc' = pc /\ state = "up" /\ UNCHANGED <<cgs, flight, held, odd, state>>
    BY DEF BeforeTrading
  <1> DEFINE s == IF book.txn.status = "STOP" THEN "BLOCK" ELSE "RUNNING"
  <1>2. SetStatus(s) /\ s \in Status /\ s \notin {"STOP", "EXIT"}
    BY DEF BeforeTrading, Status
  <1> HIDE DEF s
  <1> QED
    BY <1>1, <1>2, SetStatusKeeps

(* Time passes without one (TimePasses).                                   *)
LEMMA TimePassesKeeps ==
    ASSUME Core, TimePasses
    PROVE  Core'
  <1>1. pc.kind = "none" /\ pc' = Idle /\ state = "up" /\ UNCHANGED <<book, db, cgs, flight, held, odd, state>>
    BY DEF TimePasses, Idle
  <1>2. StopRight'
    BY <1>1 DEF Core, StopRight, Level, Opens, Idle
  <1> QED
    BY <1>1, <1>2, Framed DEF Core, Types, RedisRight, SameCounters

(* The steps of a tick that change no lots.                                *)
LEMMA HandleTxnStatusKeeps ==
    ASSUME Core, HandleTxnStatus
    PROVE  Core'
  <1>1. /\ pc.kind = "none" /\ pc' = At("open") /\ state = "up"
        /\ UNCHANGED <<cgs, flight, held, odd, state>>
    BY DEF HandleTxnStatus, Idle
  <1>2. CASE HandledStatus = book.txn.status
    <2>1. UNCHANGED <<book, db>>
      BY <1>2 DEF HandleTxnStatus
    <2>2. StopRight'
      BY <1>1, <2>1 DEF Core, StopRight, Level, Opens, At
    <2> QED
      BY <1>1, <2>1, <2>2, Framed DEF Core, Types, RedisRight, SameCounters
  <1>3. CASE HandledStatus # book.txn.status
    <2> DEFINE s == book.txn.status
    <2>1. SetStatus(HandledStatus)
      BY <1>3 DEF HandleTxnStatus
    <2>2. s \in Status
      BY BookParts DEF Core, Types
    <2>3. HandledStatus \in Status
      BY <2>2 DEF HandledStatus, Status
    <2>4. s \notin {"STOP", "EXIT"} => HandledStatus \notin {"STOP", "EXIT"}
      BY DEF HandledStatus
    <2>5. HandledStatus = "EXIT" => s = "EXIT" \/ Level = 0
      BY DEF HandledStatus, Level
    <2> HIDE DEF s
    <2> QED
      BY <1>1, <2>1, <2>3, <2>4, <2>5, SetStatusKeeps DEF s
  <1> QED
    BY <1>2, <1>3

(* Nothing is to be closed (NoClose).                                      *)
LEMMA NoCloseKeeps ==
    ASSUME Core, NoClose
    PROVE  Core'
  <1>1. pc.kind = "none" /\ pc' = Idle /\ state = "up" /\ UNCHANGED <<book, db, cgs, flight, held, odd, state>>
    BY DEF NoClose, At
  <1>2. StopRight'
    BY <1>1 DEF Core, StopRight, Level, Opens, Idle
  <1> QED
    BY <1>1, <1>2, Framed DEF Core, Types, RedisRight, SameCounters

(* Sets of groups are finite.                                              *)
LEMMA FewGroups ==
    ASSUME Core
    PROVE  /\ Listed \subseteq Keys /\ IsFiniteSet(Listed)
           /\ Holding \subseteq Keys /\ IsFiniteSet(Holding) /\ Listed \subseteq Holding
           /\ MaxGroups \in Nat /\ IsFiniteSet(Keys)
           /\ \A S \in SUBSET Keys : IsFiniteSet(S)
  <1>1. MaxGroups \in Nat
    BY TimeLineAssumption
  <1>2. IsFiniteSet(Keys)
    BY <1>1, FS_Interval DEF Keys
  <1>3. Listed \subseteq Keys
    <2>1. book.costs \in Seq(Keys)
      BY BookParts DEF Core, Types
    <2> QED
      BY <2>1 DEF Listed, ToSet
  <1>4. \A o \in Opens : o.key \in Keys
    BY DEF Core, OrdersRight, OrderRight, Opens
  <1>5. Holding \subseteq Keys /\ Listed \subseteq Holding
    BY <1>3, <1>4 DEF Holding
  <1> QED
    BY <1>1, <1>2, <1>3, <1>5, FS_Subset

(* A step that leaves the close order alone.                               *)
LEMMA CloseFramed ==
    ASSUME Core, cgs' = cgs, Sells' = Sells, Listed \subseteq Listed',
           pc' = pc \/ (pc.kind # "close" /\ pc'.kind # "close"),
           \A g \in Listed : book'.grp[g].closing = book.grp[g].closing,
           \A g \in Listed' \ Listed : book'.grp[g].closing = 0,
           book'.txn.closing = book.txn.closing,
           \A n \in Nat : Account(n) => Account(n)'
    PROVE  CloseRight'
  <1>1. NoClosing => NoClosing'
    BY DEF NoClosing
  <1>2. ASSUME NEW cg, NEW k, ToSet(cg.groups) \subseteq Listed, Marked(k, cg), cg' = cg, k' = k PROVE Marked(k, cg)'
    <2>1. IsFiniteSet(ToSet(cg.groups)) /\ \A g \in ToSet(cg.groups) : book'.grp[g].closing = book.grp[g].closing
      BY <1>2, FewGroups, FS_Subset
    <2>2. ClosingIn(book'.grp, ToSet(cg.groups)) = ClosingIn(book.grp, ToSet(cg.groups))
      BY <2>1, SameClosing
    <2> QED
      BY <1>2, <2>2 DEF Marked
  <1>3. ASSUME CloseSent PROVE CloseSent'
    <2>1. pc' = pc
      BY <1>3 DEF CloseSent
    <2>2. Marked(pc.key, pc.cg)'
      BY <1>2, <1>3, <2>1 DEF CloseSent, Marked
    <2>3. OneNew(pc.cg)' \/ BothNew(pc.cg)'
      BY <1>3, <2>1 DEF CloseSent, OneNew, BothNew
    <2> QED
      BY <1>3, <2>1, <2>2, <2>3 DEF CloseSent
  <1>4. ASSUME NEW k \in CloseKeys, CloseNoted(k) PROVE CloseNoted(k)'
    <2>1. Marked(k, cgs[k])'
      BY <1>2, <1>4 DEF CloseNoted, Marked
    <2>2. Parts(cgs[k])'
      BY <1>4 DEF CloseNoted, Parts, OneNew, OneHeard, BothNew, SecondNew, SecondHeard
    <2>3. cgs[k].filled \in Nat
      BY <1>4 DEF Core, Types, CloseNoted, Closes
    <2>4. Account(cgs[k].filled)'
      BY <1>4, <2>3 DEF CloseNoted
    <2> QED
      BY <1>4, <2>1, <2>2, <2>4 DEF CloseNoted
  <1> QED
    BY <1>1, <1>3, <1>4 DEF Core, CloseRight
(* open: an order for what is left of the slot.                            *)
LEMMA OpenKeeps ==
    ASSUME Core, Open
    PROVE  Core'
  <1>1. /\ pc = At("open") /\ pc.kind = "none" /\ state = "up" /\ UNCHANGED <<book, db, cgs, held, odd, state>>
    BY DEF Open, At
  <1>2. CASE pc' = At("close") /\ flight' = flight
    <2>1. StopRight'
      BY <1>1, <1>2 DEF Core, StopRight, Level, Opens, At
    <2> QED
      BY <1>1, <1>2, <2>1, Framed DEF Core, Types, RedisRight, SameCounters
  <1>3. CASE ~(pc' = At("close") /\ flight' = flight)
    <2> USE DEF Core
    <2>1. PICK volume \in 1..MaxVolume, k \in FreeKeys :
             LET n == Least(book.slots[1].capacity - book.slots[1].open, volume)
             IN  /\ CanOpen
                 /\ pc' = [at |-> "sent", kind |-> "open", key |-> k, quantity |-> n]
                 /\ flight' = flight \cup {Order("open", k, n)}
      BY <1>3 DEF Open
    <2> DEFINE n == Least(book.slots[1].capacity - book.slots[1].open, volume)
               x == Order("open", k, n)
    <2>2. CanOpen /\ pc' = [at |-> "sent", kind |-> "open", key |-> k, quantity |-> n] /\ flight' = flight \cup {x}
      BY <2>1
    <2>3. n \in Nat /\ n > 0 /\ Level + n <= Slot /\ Level \in Int
      <3>1. book.slots[1].capacity = Slot /\ book.slots[1].open = Level /\ Level \in Int /\ Slot \in Nat
            /\ Slot > Level
        BY <2>2, BookParts, TimeLineAssumption DEF CanOpen, OpenRight, Level, Types
      <3>2. volume \in Nat /\ volume > 0
        BY TimeLineAssumption
      <3> QED
        BY <3>1, <3>2 DEF Least
    <2> HIDE DEF n
    <2>4. /\ x.kind = "open" /\ x.key = k /\ x.quantity = n /\ x.part = 1 /\ x.result = -1 /\ x.news /\ x.trades = 0
      BY DEF Order
    <2>5. k \in Keys /\ k \notin Listed /\ \A o \in Opens : o.key # k
      BY DEF FreeKeys, Used, Listed, Opens
    <2>6. x \in Orders
      BY <2>3, <2>5 DEF Order, Orders
    <2> HIDE DEF x
    <2>7. Fresh = {}
      <3>1. \A o \in Fresh : book.txn.opening = o.quantity /\ o.quantity > 0
        BY <1>1 DEF OpenRight, OrdersRight, OrderRight, Fresh, Opens
      <3> QED
        BY <2>2, <3>1 DEF CanOpen
    <2>8. x \notin flight
      BY <2>4, <2>5 DEF Opens
    <2>9. Opens' = Opens \cup {x} /\ Fresh' = {x} /\ Sells' = Sells /\ Holding' = Holding
          /\ Level' = Level /\ Listed' = Listed
      <3>1. Opens' = Opens \cup {x} /\ Sells' = Sells
        BY <2>2, <2>4 DEF Opens, Sells
      <3>2. Fresh' = {x}
        BY <2>4, <2>7, <3>1 DEF Fresh
      <3>3. Opens' \ Fresh' = Opens \ Fresh
        BY <2>7, <2>8, <3>1, <3>2 DEF Opens
      <3>4. Listed' = Listed
        BY <1>1 DEF Listed
      <3>5. Holding' = Listed' \cup {o.key : o \in Opens' \ Fresh'}
        BY DEF Holding
      <3>6. Holding' = Holding
        BY <3>3, <3>4, <3>5 DEF Holding
      <3> QED
        BY <1>1, <3>1, <3>2, <3>4, <3>6 DEF Level
    <2>10. pc'.kind = "open" /\ pc'.at = "sent" /\ pc'.key = k /\ pc'.quantity = n
      BY <2>2
    <2>11. Types'
      <3>1. IsFiniteSet(flight') /\ flight' \subseteq Orders
        BY <2>2, <2>6, FS_AddElement DEF Types
      <3>2. pc' \in OpenPcs
        BY <2>2, <2>3, <2>5 DEF OpenPcs
      <3> QED
        BY <1>1, <3>1, <3>2 DEF Types, PcRight
    <2>12. OrdersRight'
      <3>1. OrderRight(x)
        BY <2>3, <2>4, <2>5 DEF OrderRight
      <3>2. \A o \in flight : ~(o.kind = "open" /\ o.key = k)
        BY <2>5 DEF Opens
      <3> QED
        BY <2>2, <2>4, <3>1, <3>2 DEF OrdersRight
    <2>13. OpenRight'
      BY <1>1, <2>2, <2>3, <2>4, <2>9, <2>10 DEF OpenRight, CanOpen
    <2>14. GroupsRight'
      BY <1>1, <2>4, <2>5, <2>9, <2>10 DEF GroupsRight, Noted
    <2>15. LotsRight'
      BY <1>1, <2>9 DEF LotsRight
    <2>16. CloseRight'
      <3>1. UnheardIn(flight') = UnheardIn(flight)
        <4>1. UnheardIn(flight \cup {x}) = UnheardIn(flight) + Unheard(x) /\ UnheardIn(flight) \in Int
          BY <2>6, <2>8, OneOrder DEF Types
        <4>2. Unheard(x) = 0
          BY <2>4 DEF Unheard
        <4> QED
          BY <2>2, <4>1, <4>2
      <3>2. \A m \in Nat : Account(m) => Account(m)'
        BY <1>1, <2>9, <3>1 DEF Account
      <3> HIDE DEF Core
      <3> QED
        BY <1>1, <2>9, <2>10, <3>2, CloseFramed
    <2>17. RedisRight'
      <3>1. Needed' \subseteq Needed
        BY <1>1, <2>4, <2>9, <2>10 DEF Needed, Noted
      <3>2. \A g : Saved(g) = Saved(g)'
        BY <1>1, <2>10 DEF Saved, Marking
      <3> QED
        BY <1>1, <3>1, <3>2 DEF RedisRight, SameCounters
    <2>18. StopRight'
      BY <1>1, <2>2 DEF StopRight, CanOpen
    <2> QED
      BY <2>11, <2>12, <2>13, <2>14, <2>15, <2>16, <2>17, <2>18
  <1> QED
    BY <1>2, <1>3
(* add_open_group: the order now has its group.                            *)
LEMMA AddOpenGroupKeeps ==
    ASSUME Core, AddOpenGroup
    PROVE  Core'
  <1> USE DEF Core
  <1> DEFINE k == pc.key
             x == OpenGroup("NORMAL", pc.quantity, 1)
  <1>1. /\ pc.kind = "open" /\ pc.at = "sent" /\ state = "up" /\ UNCHANGED <<cgs, flight, held, odd, state>>
        /\ book' = [book EXCEPT !.grp[k] = x] /\ db' = AddGroup(db, k, x)
        /\ pc' = [pc EXCEPT !.at = "added"]
    BY DEF AddOpenGroup
  <1>2. pc \in OpenPcs /\ k \in Keys /\ pc.quantity \in Nat
    BY <1>1 DEF Types, PcRight, Idle, At, OpenPcs, ClosePcs
  <1>3. pc' \in OpenPcs /\ pc'.kind = "open" /\ pc'.at = "added" /\ pc'.key = k /\ pc'.quantity = pc.quantity
    BY <1>1, <1>2 DEF OpenPcs
  <1>4. x \in Groups /\ x.closing = 0 /\ x = [x EXCEPT !.filled = 0]
    BY <1>2 DEF OpenGroup, Groups
  <1> HIDE DEF x
  <1>5. book \in Books /\ db \in Books
    BY DEF Types
  <1>6. /\ book' \in Books /\ book'.txn = book.txn /\ book'.slots = book.slots /\ book'.costs = book.costs
        /\ book'.grp[k] = x /\ \A g \in Keys : g # k => book'.grp[g] = book.grp[g]
    BY <1>1, <1>2, <1>4, <1>5 DEF Books
  <1>7. /\ db' \in Books /\ db'.txn = db.txn /\ db'.slots = db.slots /\ db'.costs = db.costs
        /\ db'.grp[k] = x /\ \A g \in Keys : g # k => db'.grp[g] = db.grp[g]
    BY <1>1, <1>2, <1>4, <1>5 DEF Books, AddGroup
  <1>8. PICK o \in Fresh : o.key = k /\ o.quantity = pc.quantity
    BY <1>1 DEF OpenRight
  <1>9. o \in Opens /\ o.news /\ \A p \in Opens : p.key = k => p = o
    BY <1>8 DEF Fresh, Opens, OrdersRight
  <1>10. k \notin Listed
    BY <1>8, <1>9 DEF GroupsRight
  <1>11. Opens' = Opens /\ Fresh' = Fresh /\ Level' = Level /\ Listed' = Listed /\ Sells' = Sells /\ Holding' = Holding
    BY <1>1, <1>6 DEF Opens, Fresh, Level, Listed, Sells, Holding
  <1>12. k \notin Holding
    BY <1>8, <1>9, <1>10 DEF Holding
  <1>13. Types'
    BY <1>1, <1>3, <1>6, <1>7 DEF Types, PcRight
  <1>14. OrdersRight'
    BY <1>1 DEF OrdersRight
  <1>15. OpenRight'
    BY <1>1, <1>3, <1>6, <1>11 DEF OpenRight
  <1>16. GroupsRight'
    <2> SUFFICES ASSUME NEW p \in Opens
                 PROVE  /\ p.key \notin Listed
                        /\ book'.grp[p.key] = [OpenGroup("NORMAL", p.quantity, 1)
                                                 EXCEPT !.filled = IF p.news THEN 0 ELSE p.result]
      BY <1>11 DEF GroupsRight
    <2>1. p.key \in Keys /\ p.key \notin Listed
      BY DEF GroupsRight, OrdersRight, OrderRight, Opens
    <2>2. CASE p.key = k
      <3>1. p = o
        BY <1>9, <2>2
      <3> QED
        BY <1>4, <1>6, <1>8, <1>9, <2>1, <3>1 DEF x
    <2>3. CASE p.key # k
      <3>1. Noted(p)
        BY <2>3 DEF Noted
      <3> QED
        BY <1>6, <2>1, <2>3, <3>1 DEF GroupsRight
    <2> QED
      BY <2>2, <2>3
  <1>17. LotsRight'
    <2>1. \A g \in Holding : book'.grp[g] = book.grp[g]
      BY <1>6, <1>12, FewGroups
    <2>2. LotsIn(book'.grp, Holding) = LotsIn(book.grp, Holding)
      BY <2>1, FewGroups, SameLots
    <2> QED
      BY <1>6, <1>11, <2>1, <2>2 DEF LotsRight
  <1>18. CloseRight'
    <2>1. \A g \in Listed : book'.grp[g] = book.grp[g]
      BY <1>6, <1>10, FewGroups
    <2>2. \A m \in Nat : Account(m) => Account(m)'
      BY <1>1, <1>11 DEF Account
    <2> HIDE DEF Core
    <2> QED
      BY <1>1, <1>3, <1>6, <1>11, <2>1, <2>2, CloseFramed
  <1>19. RedisRight'
    <2>1. \A g : Saved(g) = book.grp[g] /\ Saved(g)' = book'.grp[g]
      BY <1>1, <1>3 DEF Saved, Marking
    <2>2. Needed' \subseteq Needed \cup {k} /\ Needed' \subseteq Keys
      <3>1. \A p \in Opens : p.key # k => Noted(p)
        BY DEF Noted
      <3>2. \A p \in Opens : p.key \in Keys
        BY DEF OrdersRight, OrderRight, Opens
      <3> QED
        BY <1>11, <3>1, <3>2, FewGroups DEF Needed
    <2>3. \A g \in Needed' : db'.grp[g] = book'.grp[g]
      BY <1>6, <1>7, <2>1, <2>2 DEF RedisRight
    <2> QED
      BY <1>6, <1>7, <2>1, <2>3 DEF RedisRight
  <1>20. StopRight'
    BY <1>1, <1>6, <1>11 DEF StopRight
  <1> QED
    BY <1>13, <1>14, <1>15, <1>16, <1>17, <1>18, <1>19, <1>20

(* add_opening_and_slot_opening: what is being opened is counted.          *)
LEMMA CountOpeningKeeps ==
    ASSUME Core, CountOpening
    PROVE  Core'
  <1> USE DEF Core
  <1>1. /\ pc.kind = "open" /\ pc.at = "added" /\ state = "up" /\ UNCHANGED <<cgs, flight, held, odd, state>>
        /\ book' = [book EXCEPT !.txn.opening = @ + pc.quantity, !.slots[1].opening = pc.quantity]
        /\ db' = SetSlot(SaveTxn(db, book'), book', 1)
        /\ pc' = At("close")
    BY DEF CountOpening
  <1>2. pc \in OpenPcs /\ pc.quantity \in Nat
    BY <1>1 DEF Types, PcRight, Idle, At, OpenPcs, ClosePcs
  <1>3. pc' = At("close") /\ pc'.kind = "none" /\ pc'.at = "close"
    BY <1>1 DEF At
  <1>4. book \in Books /\ db \in Books
    BY DEF Types
  <1>5. /\ book' \in Books /\ book'.costs = book.costs /\ book'.grp = book.grp
        /\ book'.txn.opening = book.txn.opening + pc.quantity
        /\ book'.txn.open = book.txn.open /\ book'.txn.closing = book.txn.closing
        /\ book'.txn.lock = book.txn.lock /\ book'.txn.lockable = book.txn.lockable
        /\ book'.txn.status = book.txn.status
        /\ book'.slots[1].opening = pc.quantity /\ book'.slots[1].open = book.slots[1].open
        /\ book'.slots[1].capacity = book.slots[1].capacity
    <2> HIDE DEF Core
    <2>1. book' = Counting(book, pc.quantity)
      BY <1>1 DEF Counting
    <2> QED
      BY <1>2, <1>4, <2>1, Counted
  <1>6. /\ SaveTxn(db, book') \in Books /\ SaveTxn(db, book').slots = db.slots
        /\ SaveTxn(db, book').costs = db.costs /\ SaveTxn(db, book').grp = db.grp
        /\ SaveTxn(db, book').txn.status = book'.txn.status
        /\ SameCounters(SaveTxn(db, book').txn, book'.txn)
    <2>1. db.txn.lock = book'.txn.lock /\ db.txn.lockable = book'.txn.lockable
      BY <1>5 DEF RedisRight, SameCounters
    <2> HIDE DEF Core
    <2> QED
      BY <1>4, <1>5, <2>1, SavedTxn DEF SameCounters
  <1>7. /\ db' \in Books /\ db'.slots = book'.slots /\ db'.costs = db.costs /\ db'.grp = db.grp
        /\ db'.txn.status = book'.txn.status /\ SameCounters(db'.txn, book'.txn)
    <2> HIDE DEF Core
    <2> QED
      BY <1>1, <1>5, <1>6, SlotSet
  <1>9. Opens' = Opens /\ Fresh' = Fresh /\ Level' = Level /\ Listed' = Listed /\ Sells' = Sells /\ Holding' = Holding
    BY <1>1, <1>5 DEF Opens, Fresh, Level, Listed, Sells, Holding
  <1>10. Types'
    BY <1>1, <1>3, <1>5, <1>7 DEF Types, PcRight
  <1>11. OrdersRight'
    BY <1>1 DEF OrdersRight
  <1>12. OpenRight'
    BY <1>1, <1>2, <1>3, <1>5, <1>9 DEF OpenRight
  <1>13. \A o : Noted(o) /\ Noted(o)'
    BY <1>1, <1>3 DEF Noted
  <1>14. GroupsRight'
    BY <1>5, <1>9, <1>13 DEF GroupsRight
  <1>15. LotsRight'
    BY <1>5, <1>9 DEF LotsRight
  <1>16. CloseRight'
    <2>1. \A m \in Nat : Account(m) => Account(m)'
      BY <1>1, <1>9 DEF Account
    <2> HIDE DEF Core
    <2> QED
      BY <1>1, <1>3, <1>5, <1>9, <2>1, CloseFramed
  <1>17. RedisRight'
    <2>1. \A g : Saved(g)' = Saved(g)
      BY <1>1, <1>3, <1>5 DEF Saved, Marking
    <2>2. Needed' = Needed
      BY <1>9, <1>13 DEF Needed
    <2> QED
      BY <1>5, <1>7, <2>1, <2>2 DEF RedisRight
  <1>18. StopRight'
    BY <1>1, <1>3, <1>5, <1>9 DEF StopRight
  <1> QED
    BY <1>10, <1>11, <1>12, <1>14, <1>15, <1>16, <1>17, <1>18
(* A step that shows no oddity but those the theorems are about.           *)
LEMMA CalmShows ==
    ASSUME Calm', NEW shown, Meets(shown)
    PROVE  shown \subseteq {"no_position", "limit_open"} /\ Calm
  BY DEF Calm, Meets

(* The exchange decides an order.                                          *)
LEMMA ExchangeKeeps ==
    ASSUME Core, Calm', NEW o \in flight, Exchange(o)
    PROVE  Core'
  <1> USE DEF Core
  <1>1. PICK n \in 0..o.quantity, trades \in 0..2 :
          /\ (n = 0) = (trades = 0)
          /\ trades <= n
          /\ Meets((IF trades = 2 THEN {"two_trades"} ELSE {})
                      \cup (IF EmptyEnd(o, n) THEN {"late_part"} ELSE {}))
          /\ flight' = (flight \ {o}) \cup {[o EXCEPT !.result = n, !.trades = trades]}
          /\ held' = IF o.kind = "open" THEN held + n ELSE held - n
    BY DEF Exchange
  <1>2. o.result = -1 /\ UNCHANGED <<book, db, cgs, pc, state>>
    BY DEF Exchange
  <1>3. o \in Orders /\ OrderRight(o) /\ o.news /\ o.quantity \in Nat
    BY <1>2 DEF OrdersRight, OrderRight, Types, Orders
  <1>4. trades # 2 /\ ~EmptyEnd(o, n) /\ odd' = odd
    <2> DEFINE shown == (IF trades = 2 THEN {"two_trades"} ELSE {})
                           \cup (IF EmptyEnd(o, n) THEN {"late_part"} ELSE {})
    <2>1. Meets(shown)
      BY <1>1
    <2>2. shown \subseteq {"no_position", "limit_open"}
      <3> HIDE DEF shown
      <3> QED
        BY <2>1, CalmShows
    <2>3. trades # 2 /\ ~EmptyEnd(o, n)
      BY <2>2
    <2>4. shown = {}
      BY <2>3
    <2> HIDE DEF shown
    <2> QED
      BY <2>1, <2>3, <2>4 DEF Meets
  <1> DEFINE x == [o EXCEPT !.result = n, !.trades = trades]
  <1>5. /\ x \in Orders /\ x.kind = o.kind /\ x.key = o.key /\ x.quantity = o.quantity /\ x.part = o.part
        /\ x.result = n /\ x.news /\ x.trades = (IF n > 0 THEN 1 ELSE 0) /\ n \in Nat
    <2>1. n \in Nat /\ trades \in Nat /\ n \in Int /\ trades = (IF n > 0 THEN 1 ELSE 0)
      BY <1>1, <1>3, <1>4
    <2> QED
      BY <1>3, <2>1 DEF Orders
  <1>6. flight' = (flight \ {o}) \cup {x}
    BY <1>1
  <1> HIDE DEF x
  <1>7. OrderRight(x)
    BY <1>1, <1>3, <1>5 DEF OrderRight
  <1>8. x \notin flight \ {o}
    BY <1>5 DEF OrdersRight
  <1>9. OrdersRight'
    BY <1>5, <1>6, <1>7 DEF OrdersRight
  <1>10. IsFiniteSet(flight') /\ flight' \subseteq Orders
    BY <1>5, <1>6, FS_RemoveElement, FS_AddElement DEF Types
  <1>11. held' \in Int
    BY <1>1, <1>5 DEF Types
  <1>12. Types'
    BY <1>2, <1>10, <1>11 DEF Types, PcRight
  <1>13. Level' = Level /\ Listed' = Listed /\ Level \in Int
    BY <1>2, BookParts DEF Level, Listed, Types
  <1>14. \A p : Noted(p)' = Noted(p)
    BY <1>2 DEF Noted
  <1>15. UnheardIn(flight') = UnheardIn(flight) + (IF o.kind = "open" THEN n ELSE -n) /\ UnheardIn(flight) \in Int
    <2>1. /\ IsFiniteSet(flight \ {o}) /\ flight \ {o} \subseteq Orders /\ flight \subseteq Orders /\ IsFiniteSet(flight)
      BY FS_RemoveElement DEF Types
    <2>2. UnheardIn(flight \ {o}) = UnheardIn(flight) - Unheard(o) /\ UnheardIn(flight) \in Int
      BY <1>3, <2>1, OneOrder
    <2>3. UnheardIn((flight \ {o}) \cup {x}) = UnheardIn(flight \ {o}) + Unheard(x)
      BY <1>5, <1>8, <2>1, OneOrder
    <2>4. Unheard(o) = 0
      BY <1>2 DEF Unheard
    <2>5. Unheard(x) = IF o.kind = "open" THEN n ELSE -n
      BY <1>5 DEF Unheard
    <2> QED
      BY <1>5, <1>6, <2>2, <2>3, <2>4, <2>5
  <1>16. \A m \in Nat : Account(m) => Account(m)'
    BY <1>1, <1>5, <1>13, <1>15 DEF Account
  <1>17. o.kind \in {"open", "close"}
    BY <1>3 DEF Orders
  <1>18. CASE o.kind = "open"
    <2>1. Opens' = (Opens \ {o}) \cup {x} /\ o \in Opens
      BY <1>5, <1>6, <1>18 DEF Opens
    <2>2. Sells' = Sells
      BY <1>5, <1>6, <1>18 DEF Sells
    <2>3. Fresh' = (Fresh \ {o}) \cup {x} /\ o \in Fresh
      BY <1>3, <1>5, <2>1 DEF Fresh
    <2>4. Opens' \ Fresh' = Opens \ Fresh
      BY <1>3, <1>5, <2>1, <2>3 DEF Fresh
    <2>5. Holding' = Holding
      BY <1>13, <2>4 DEF Holding
    <2>6. OpenRight'
      BY <1>2, <1>5, <1>13, <2>3 DEF OpenRight
    <2>7. GroupsRight'
      BY <1>2, <1>3, <1>5, <1>13, <1>14, <2>1 DEF GroupsRight, Noted
    <2>8. LotsRight'
      BY <1>2, <1>13, <2>5 DEF LotsRight
    <2>9. CloseRight'
      <3> HIDE DEF Core
      <3> QED
        BY <1>2, <1>13, <1>16, <2>2, CloseFramed
    <2>10. Needed' = Needed
      <3>1. \A p : Noted(p)' = Noted(p) /\ (Noted(o) = Noted(x))
        BY <1>5, <1>14 DEF Noted
      <3>2. {p.key : p \in {y \in Opens' : Noted(y)}} = {p.key : p \in {y \in Opens : Noted(y)}}
        BY <1>5, <2>1, <3>1
      <3> QED
        BY <1>13, <1>14, <3>2 DEF Needed
    <2>11. RedisRight'
      <3>1. \A g : Saved(g)' = Saved(g)
        BY <1>2 DEF Saved, Marking
      <3> QED
        BY <1>2, <2>10, <3>1 DEF RedisRight
    <2>12. StopRight'
      BY <1>2, <1>4, <2>1 DEF StopRight
    <2> QED
      BY <1>9, <1>12, <2>6, <2>7, <2>8, <2>9, <2>11, <2>12
  <1>19. CASE o.kind = "close"
    <2>1. Opens' = Opens
      BY <1>5, <1>6, <1>19 DEF Opens
    <2>2. Sells' = (Sells \ {o}) \cup {x} /\ o \in Sells /\ x \notin Sells \ {o}
      BY <1>5, <1>6, <1>8, <1>19 DEF Sells
    <2>3. Fresh' = Fresh /\ Holding' = Holding
      BY <1>13, <2>1 DEF Fresh, Holding
    <2>4. OpenRight'
      BY <1>2, <1>13, <2>3 DEF OpenRight
    <2>5. GroupsRight'
      BY <1>2, <1>13, <1>14, <2>1 DEF GroupsRight
    <2>6. LotsRight'
      BY <1>2, <1>13, <2>3 DEF LotsRight
    <2>7. CloseRight'
      <3>1. ~NoClosing
        BY <2>2 DEF NoClosing
      <3>2. ASSUME NEW k, NEW cg, Marked(k, cg)
            PROVE  /\ \A p \in Sells' : p.key = k
                   /\ o.key = k
        BY <1>5, <2>2, <3>2 DEF Marked
      <3>3. \A cg : OneNew(cg) => OneNew(cg)'
        BY <1>5, <2>2 DEF OneNew
      <3>4. \A cg : BothNew(cg) => BothNew(cg)'
        BY <1>5, <2>2 DEF BothNew
      <3>5. ASSUME CloseSent PROVE CloseSent'
        <4>1. Marked(pc.key, pc.cg)'
          BY <1>2, <1>13, <3>2, <3>5 DEF CloseSent, Marked
        <4>2. (OneNew(pc.cg) \/ BothNew(pc.cg))'
          BY <1>2, <3>3, <3>4, <3>5 DEF CloseSent
        <4>3. Account(0)'
          BY <1>16, <3>5 DEF CloseSent
        <4> QED
          BY <1>2, <3>5, <4>1, <4>2, <4>3 DEF CloseSent
      <3>6. ASSUME NEW k \in CloseKeys, CloseNoted(k) PROVE CloseNoted(k)'
        <4>0. PICK cg : cg = cgs[k]
          OBVIOUS
        <4>1. Marked(k, cg) /\ Parts(cg) /\ Account(cg.filled) /\ cg # NoGroup
          BY <3>6, <4>0 DEF CloseNoted
        <4>2. cg \in Closes
          BY <4>0, <4>1 DEF Types
        <4>3. cgs'[k] = cg /\ o.key = k
          BY <1>2, <3>2, <4>0, <4>1
        <4>4. ~(n = 0 /\ cg.frag = "RCV_ONE" /\ cg.filled > 0)
          BY <1>2, <1>4, <1>19, <4>1, <4>3 DEF EmptyEnd
        <4>5. cg.filled \in Nat
          BY <4>2 DEF Closes
        <4>6. ~OneHeard(cg) /\ ~SecondHeard(cg)
          BY <1>3, <2>2 DEF OneHeard, SecondHeard
        <4>7. ASSUME cg.frag = "RCV_ONE", SecondNew(cg) PROVE SecondNew(cg)'
          <5>1. PICK s \in Sells :
                   /\ s.news /\ s.quantity + cg.filled <= cg.quantity
                   /\ s.result = 0 => cg.filled = 0
                   /\ \/ Sells = {s}
                      \/ \E p \in Sells : Sells = {s, p} /\ ~p.news /\ cg.filled = p.result
            BY <4>7 DEF SecondNew
          <5>2. s = o
            BY <1>3, <2>2, <5>1
          <5>3. x.news /\ x.quantity + cg.filled <= cg.quantity /\ (x.result = 0 => cg.filled = 0)
            BY <1>5, <4>4, <4>5, <4>7, <5>1, <5>2
          <5>4. \/ Sells' = {x}
                \/ \E p \in Sells' : Sells' = {x, p} /\ ~p.news /\ cg.filled = p.result
            BY <1>3, <2>2, <5>1, <5>2
          <5> QED
            BY <2>2, <5>3, <5>4 DEF SecondNew
        <4>8. Parts(cg)'
          BY <3>3, <3>4, <4>1, <4>6, <4>7 DEF Parts
        <4>9. Marked(k, cg)'
          BY <1>2, <1>13, <3>2, <4>1 DEF Marked
        <4>10. Account(cg.filled)'
          BY <1>16, <4>1, <4>5
        <4> QED
          BY <1>2, <3>6, <4>0, <4>3, <4>8, <4>9, <4>10 DEF CloseNoted
      <3> QED
        BY <3>1, <3>5, <3>6 DEF CloseRight
    <2>8. RedisRight'
      <3>1. \A g : Saved(g)' = Saved(g)
        BY <1>2 DEF Saved, Marking
      <3>2. Needed' = Needed
        BY <1>13, <1>14, <2>1 DEF Needed
      <3> QED
        BY <1>2, <3>1, <3>2 DEF RedisRight
    <2>9. StopRight'
      BY <1>2, <1>4, <1>13, <2>1 DEF StopRight
    <2> QED
      BY <1>9, <1>12, <2>4, <2>5, <2>6, <2>7, <2>8, <2>9
  <1> QED
    BY <1>17, <1>18, <1>19
-----------------------------------------------------------------------------
(* The news and the trades of orders.                                      *)

(* Groups nobody names are forgotten, the others stay.                     *)
LEMMA Forgotten ==
    ASSUME NEW b \in Books, NEW used
    PROVE  LET f == Forget(b, used)
           IN  /\ f \in Books /\ f.txn = b.txn /\ f.slots = b.slots /\ f.costs = b.costs
               /\ \A g \in Keys : g \in used => f.grp[g] = b.grp[g]
  <1> DEFINE f == Forget(b, used)
             grp == [g \in Keys |-> IF g \in used THEN b.grp[g] ELSE NoGroup]
  <1>1. f = [b EXCEPT !.grp = grp]
    BY DEF Forget
  <1>2. grp \in [Keys -> Groups \cup {NoGroup}]
    BY BookParts
  <1>3. \A g \in Keys : g \in used => grp[g] = b.grp[g]
    OBVIOUS
  <1> HIDE DEF f, grp
  <1>4. f \in Books /\ f.txn = b.txn /\ f.slots = b.slots /\ f.costs = b.costs /\ f.grp = grp
    BY <1>1, <1>2 DEF Books
  <1> QED
    BY <1>3, <1>4 DEF f

(* One counter of the book written, and nothing else: the open lots,       *)
LEMMA OpenWritten ==
    ASSUME NEW b \in Books, NEW n \in Int
    PROVE  LET c == [b EXCEPT !.txn.open = n]
           IN  /\ c \in Books /\ c.slots = b.slots /\ c.costs = b.costs /\ c.grp = b.grp
               /\ c.txn.open = n /\ c.txn.opening = b.txn.opening /\ c.txn.closing = b.txn.closing
               /\ c.txn.lock = b.txn.lock /\ c.txn.lockable = b.txn.lockable /\ c.txn.status = b.txn.status
  <1>1. b.txn \in Txns
    BY BookParts
  <1>2. [b.txn EXCEPT !.open = n] \in Txns
    BY <1>1 DEF Txns
  <1> QED
    BY <1>1, <1>2 DEF Books, Txns

(* the lots being opened,                                                  *)
LEMMA OpeningWritten ==
    ASSUME NEW b \in Books, NEW n \in Nat
    PROVE  LET c == [b EXCEPT !.txn.opening = n]
           IN  /\ c \in Books /\ c.slots = b.slots /\ c.costs = b.costs /\ c.grp = b.grp
               /\ c.txn.open = b.txn.open /\ c.txn.opening = n /\ c.txn.closing = b.txn.closing
               /\ c.txn.lock = b.txn.lock /\ c.txn.lockable = b.txn.lockable /\ c.txn.status = b.txn.status
  <1>1. b.txn \in Txns
    BY BookParts
  <1>2. [b.txn EXCEPT !.opening = n] \in Txns
    BY <1>1 DEF Txns
  <1> QED
    BY <1>1, <1>2 DEF Books, Txns

(* and the lots being closed.                                              *)
LEMMA ClosingWritten ==
    ASSUME NEW b \in Books, NEW n \in Nat
    PROVE  LET c == [b EXCEPT !.txn.closing = n]
           IN  /\ c \in Books /\ c.slots = b.slots /\ c.costs = b.costs /\ c.grp = b.grp
               /\ c.txn.open = b.txn.open /\ c.txn.opening = b.txn.opening /\ c.txn.closing = n
               /\ c.txn.lock = b.txn.lock /\ c.txn.lockable = b.txn.lockable /\ c.txn.status = b.txn.status
  <1>1. b.txn \in Txns
    BY BookParts
  <1>2. [b.txn EXCEPT !.closing = n] \in Txns
    BY <1>1 DEF Txns
  <1> QED
    BY <1>1, <1>2 DEF Books, Txns

(* The same of the slot: its open lots,                                    *)
LEMMA SlotOpenWritten ==
    ASSUME NEW b \in Books, NEW n \in Int
    PROVE  LET c == [b EXCEPT !.slots[1].open = n]
           IN  /\ c \in Books /\ c.txn = b.txn /\ c.costs = b.costs /\ c.grp = b.grp
               /\ c.slots[1].open = n /\ c.slots[1].opening = b.slots[1].opening
               /\ c.slots[1].capacity = b.slots[1].capacity
  <1> DEFINE r == [b.slots[1] EXCEPT !.open = n]
             s == [b.slots EXCEPT ![1] = r]
             c == [b EXCEPT !.slots[1].open = n]
  <1>1. b.slots[1] \in Slots /\ b.slots \in [1..1 -> Slots]
    BY BookParts
  <1>2. r \in Slots /\ r.open = n /\ r.opening = b.slots[1].opening /\ r.capacity = b.slots[1].capacity
    BY <1>1 DEF Slots
  <1>3. c = [b EXCEPT !.slots = s]
    BY <1>1 DEF Books
  <1> HIDE DEF r, c
  <1>4. s \in [1..1 -> Slots] /\ s[1] = r
    BY <1>1, <1>2
  <1> HIDE DEF s
  <1>5. c \in Books /\ c.txn = b.txn /\ c.costs = b.costs /\ c.grp = b.grp /\ c.slots = s
    BY <1>3, <1>4 DEF Books
  <1> QED
    BY <1>2, <1>4, <1>5 DEF c

(* and those being opened.                                                 *)
LEMMA SlotOpeningWritten ==
    ASSUME NEW b \in Books, NEW n \in Nat
    PROVE  LET c == [b EXCEPT !.slots[1].opening = n]
           IN  /\ c \in Books /\ c.txn = b.txn /\ c.costs = b.costs /\ c.grp = b.grp
               /\ c.slots[1].open = b.slots[1].open /\ c.slots[1].opening = n
               /\ c.slots[1].capacity = b.slots[1].capacity
  <1> DEFINE r == [b.slots[1] EXCEPT !.opening = n]
             s == [b.slots EXCEPT ![1] = r]
             c == [b EXCEPT !.slots[1].opening = n]
  <1>1. b.slots[1] \in Slots /\ b.slots \in [1..1 -> Slots]
    BY BookParts
  <1>2. r \in Slots /\ r.opening = n /\ r.open = b.slots[1].open /\ r.capacity = b.slots[1].capacity
    BY <1>1 DEF Slots
  <1>3. c = [b EXCEPT !.slots = s]
    BY <1>1 DEF Books
  <1> HIDE DEF r, c
  <1>4. s \in [1..1 -> Slots] /\ s[1] = r
    BY <1>1, <1>2
  <1> HIDE DEF s
  <1>5. c \in Books /\ c.txn = b.txn /\ c.costs = b.costs /\ c.grp = b.grp /\ c.slots = s
    BY <1>3, <1>4 DEF Books
  <1> QED
    BY <1>2, <1>4, <1>5 DEF c

(* The book after the final news of an open order.                         *)
Opened(b, k, n) == [FillOpenGroup(b, k, n) EXCEPT !.txn.open = @ + n, !.txn.opening = 0,
                                                  !.slots[1].open = @ + n, !.slots[1].opening = 0]

(* The slot gets the lots that were filled, and so does the group.         *)
LEMMA OpenedBook ==
    ASSUME NEW b \in Books, NEW k \in Keys, b.grp[k] \in Groups, NEW n \in Nat
    PROVE  LET c == Opened(b, k, n)
           IN  /\ c \in Books /\ c.costs = b.costs
               /\ c.txn.open = b.txn.open + n /\ c.txn.opening = 0 /\ c.txn.closing = b.txn.closing
               /\ c.txn.lock = b.txn.lock /\ c.txn.lockable = b.txn.lockable /\ c.txn.status = b.txn.status
               /\ c.slots[1].open = b.slots[1].open + n /\ c.slots[1].opening = 0
               /\ c.slots[1].capacity = b.slots[1].capacity
               /\ c.grp[k] = [b.grp[k] EXCEPT !.filled = n] /\ c.grp[k] \in Groups
               /\ \A g \in Keys : g # k => c.grp[g] = b.grp[g]
  <1> DEFINE g1 == [b.grp[k] EXCEPT !.filled = n]
             grp == [b.grp EXCEPT ![k] = g1]
             f == FillOpenGroup(b, k, n)
             f1 == [f EXCEPT !.txn.open = f.txn.open + n]
             f2 == [f1 EXCEPT !.txn.opening = 0]
             f3 == [f2 EXCEPT !.slots[1].open = f.slots[1].open + n]
             c == Opened(b, k, n)
  <1>1. b.grp \in [Keys -> Groups \cup {NoGroup}]
    BY BookParts
  <1>2. f = [b EXCEPT !.grp = grp]
    BY <1>1 DEF FillOpenGroup, Books
  <1>3. g1 \in Groups
    BY DEF Groups
  <1>4. c = [[[[f EXCEPT !.txn.open = @ + n] EXCEPT !.txn.opening = 0]
                 EXCEPT !.slots[1].open = @ + n] EXCEPT !.slots[1].opening = 0]
    BY DEF Opened
  <1>5. grp \in [Keys -> Groups \cup {NoGroup}] /\ grp[k] = g1 /\ \A g \in Keys : g # k => grp[g] = b.grp[g]
    <2> HIDE DEF g1
    <2> QED
      BY <1>1, <1>3
  <1> HIDE DEF grp, f, c
  <1>6. f \in Books /\ f.txn = b.txn /\ f.slots = b.slots /\ f.costs = b.costs /\ f.grp = grp
    BY <1>2, <1>5 DEF Books
  <1>7. f.txn.open + n \in Int /\ f.slots[1].open + n \in Int
    BY <1>6, BookParts
  <1>8. /\ f1 \in Books /\ f1.slots = f.slots /\ f1.costs = f.costs /\ f1.grp = f.grp
        /\ f1.txn.open = f.txn.open + n /\ f1.txn.opening = f.txn.opening /\ f1.txn.closing = f.txn.closing
        /\ f1.txn.lock = f.txn.lock /\ f1.txn.lockable = f.txn.lockable /\ f1.txn.status = f.txn.status
    BY <1>6, <1>7, OpenWritten
  <1>9. [f EXCEPT !.txn.open = @ + n] = f1
    OBVIOUS
  <1> HIDE DEF f1
  <1>10. /\ f2 \in Books /\ f2.slots = f1.slots /\ f2.costs = f1.costs /\ f2.grp = f1.grp
         /\ f2.txn.open = f1.txn.open /\ f2.txn.opening = 0 /\ f2.txn.closing = f1.txn.closing
         /\ f2.txn.lock = f1.txn.lock /\ f2.txn.lockable = f1.txn.lockable /\ f2.txn.status = f1.txn.status
    BY <1>8, OpeningWritten
  <1> HIDE DEF f2
  <1>11. /\ f3 \in Books /\ f3.txn = f2.txn /\ f3.costs = f2.costs /\ f3.grp = f2.grp
         /\ f3.slots[1].open = f.slots[1].open + n /\ f3.slots[1].opening = f2.slots[1].opening
         /\ f3.slots[1].capacity = f2.slots[1].capacity
    BY <1>7, <1>10, SlotOpenWritten
  <1>12. [f2 EXCEPT !.slots[1].open = @ + n] = f3
    BY <1>8, <1>10
  <1> HIDE DEF f3
  <1>13. c = [f3 EXCEPT !.slots[1].opening = 0]
    BY <1>4, <1>9, <1>12 DEF f2
  <1>14. /\ c \in Books /\ c.txn = f3.txn /\ c.costs = f3.costs /\ c.grp = f3.grp
         /\ c.slots[1].open = f3.slots[1].open /\ c.slots[1].opening = 0
         /\ c.slots[1].capacity = f3.slots[1].capacity
    BY <1>11, <1>13, SlotOpeningWritten
  <1> HIDE DEF g1
  <1>15. /\ c.slots[1].open = b.slots[1].open + n /\ c.slots[1].opening = 0
         /\ c.slots[1].capacity = b.slots[1].capacity
    BY <1>6, <1>8, <1>10, <1>11, <1>14
  <1>16. /\ c.txn.open = b.txn.open + n /\ c.txn.opening = 0 /\ c.txn.closing = b.txn.closing
         /\ c.txn.lock = b.txn.lock /\ c.txn.lockable = b.txn.lockable /\ c.txn.status = b.txn.status
    BY <1>6, <1>8, <1>10, <1>11, <1>14
  <1>17. c \in Books /\ c.costs = b.costs /\ c.grp = grp
    BY <1>6, <1>8, <1>10, <1>11, <1>14
  <1>18. c.grp[k] = g1 /\ c.grp[k] \in Groups /\ \A g \in Keys : g # k => c.grp[g] = b.grp[g]
    BY <1>3, <1>5, <1>17
  <1> QED
    BY <1>15, <1>16, <1>17, <1>18 DEF c, g1

(* update_open_group in redis.                                             *)
LEMMA FillSaved ==
    ASSUME NEW d \in Books, NEW b \in Books, NEW k \in Keys, d.grp[k] \in Groups, NEW n \in Nat,
           b.grp[k] = [d.grp[k] EXCEPT !.filled = n]
    PROVE  LET e == SaveFilled(d, b, k)
           IN  /\ e \in Books /\ e.txn = d.txn /\ e.slots = d.slots /\ e.costs = d.costs
               /\ e.grp[k] = b.grp[k] /\ \A g \in Keys : g # k => e.grp[g] = d.grp[g]
  <1> DEFINE e == SaveFilled(d, b, k)
             g0 == d.grp[k]
             g1 == b.grp[k]
             g2 == [g0 EXCEPT !.filled = g1.filled, !.close = g1.close]
             grp == [d.grp EXCEPT ![k] = g2]
  <1>1. d.grp \in [Keys -> Groups \cup {NoGroup}] /\ g0 \in Groups /\ g1 = [g0 EXCEPT !.filled = n]
    BY BookParts
  <1>2. e = [d EXCEPT !.grp = grp]
    BY <1>1 DEF SaveFilled, Books
  <1> HIDE DEF g0, g1
  <1>3. g1 \in Groups /\ g1.filled = n /\ g1.close = g0.close
    BY <1>1 DEF Groups
  <1>4. g2 = g1
    BY <1>1, <1>3 DEF Groups
  <1> HIDE DEF g2
  <1>5. grp \in [Keys -> Groups \cup {NoGroup}] /\ grp[k] = g1 /\ \A g \in Keys : g # k => grp[g] = d.grp[g]
    BY <1>1, <1>3, <1>4
  <1> HIDE DEF grp, e
  <1>6. e \in Books /\ e.txn = d.txn /\ e.slots = d.slots /\ e.costs = d.costs /\ e.grp = grp
    BY <1>2, <1>5 DEF Books
  <1> QED
    BY <1>5, <1>6 DEF e, g1
(* Close groups are kept as long as an order of theirs is under way.       *)
LEMMA KeptSame ==
    ASSUME Core, Sells' = Sells
    PROVE  Kept(cgs, flight') = cgs
  <1>1. \A k \in CloseKeys : (\E o \in flight' : o.kind = "close" /\ o.key = k)
                                <=> (\E o \in Sells : o.key = k)
    <2>1. \A o : o \in Sells <=> o \in flight' /\ o.kind = "close"
      BY DEF Sells
    <2> QED
      BY <2>1
  <1>2. ASSUME NEW k \in CloseKeys, cgs[k] # NoGroup PROVE \E o \in Sells : o.key = k
    <2>1. CloseNoted(k)
      BY <1>2 DEF Core, CloseRight, NoClosing, CloseSent, CloseNoted
    <2>2. \E o \in Sells : TRUE
      BY <2>1 DEF CloseNoted, Parts, OneNew, OneHeard, BothNew, SecondNew, SecondHeard
    <2> QED
      BY <2>1, <2>2 DEF CloseNoted, Marked
  <1>3. cgs = [k \in CloseKeys |-> cgs[k]]
    BY DEF Core, Types
  <1> QED
    BY <1>1, <1>2, <1>3 DEF Kept

(* What is left of an order after its final news: nothing, or its trade.   *)
Heard(o, orders) ==
    \/ o.result = 0 /\ orders = flight \ {o}
    \/ o.result > 0 /\ \E x \in Orders :
          /\ orders = (flight \ {o}) \cup {x} /\ x \notin flight \ {o}
          /\ x.kind = o.kind /\ x.key = o.key /\ x.quantity = o.quantity /\ x.part = o.part
          /\ x.result = o.result /\ ~x.news /\ x.trades = 1

(* An order that is done is gone.                                          *)
LEMMA OrderGone ==
    ASSUME Core, NEW o \in flight, flight' = flight \ {o}
    PROVE  /\ OrdersRight' /\ flight' \subseteq Orders /\ IsFiniteSet(flight')
           /\ UnheardIn(flight') = UnheardIn(flight) - Unheard(o)
           /\ UnheardIn(flight) \in Int /\ Unheard(o) \in Int
  <1> USE DEF Core
  <1>1. /\ IsFiniteSet(flight \ {o}) /\ flight \ {o} \subseteq Orders /\ flight \subseteq Orders /\ IsFiniteSet(flight)
        /\ o \in Orders
    BY FS_RemoveElement DEF Types
  <1>2. UnheardIn(flight \ {o}) = UnheardIn(flight) - Unheard(o) /\ UnheardIn(flight) \in Int /\ Unheard(o) \in Int
    BY <1>1, OneOrder
  <1>3. OrdersRight'
    BY DEF OrdersRight
  <1> QED
    BY <1>1, <1>2, <1>3

(* An order that changes stays the same order.                             *)
LEMMA OrderChanged ==
    ASSUME Core, NEW o \in flight, NEW x \in Orders, OrderRight(x), x \notin flight \ {o},
           x.kind = o.kind, x.key = o.key, x.part = o.part,
           flight' = (flight \ {o}) \cup {x}
    PROVE  /\ OrdersRight' /\ flight' \subseteq Orders /\ IsFiniteSet(flight')
           /\ UnheardIn(flight') = UnheardIn(flight) - Unheard(o) + Unheard(x)
           /\ UnheardIn(flight) \in Int /\ Unheard(o) \in Int /\ Unheard(x) \in Int
  <1> USE DEF Core
  <1>1. /\ IsFiniteSet(flight \ {o}) /\ flight \ {o} \subseteq Orders /\ flight \subseteq Orders /\ IsFiniteSet(flight)
        /\ o \in Orders
    BY FS_RemoveElement DEF Types
  <1>2. /\ UnheardIn(flight \ {o}) = UnheardIn(flight) - Unheard(o) /\ UnheardIn(flight) \in Int /\ Unheard(o) \in Int
        /\ UnheardIn(flight \ {o}) \in Int
    BY <1>1, OneOrder
  <1>3. UnheardIn((flight \ {o}) \cup {x}) = UnheardIn(flight \ {o}) + Unheard(x) /\ Unheard(x) \in Int
    BY <1>1, OneOrder
  <1>4. OrdersRight'
    BY DEF OrdersRight
  <1>5. IsFiniteSet(flight') /\ flight' \subseteq Orders
    BY <1>1, FS_AddElement
  <1> QED
    BY <1>2, <1>3, <1>4, <1>5

(* The final news of an order.                                             *)
LEMMA OrderHears ==
    ASSUME Core, NEW o \in flight, o.news, o.result \in Nat, OrderRight(o),
           NEW orders, orders = Rest(o, [o EXCEPT !.news = FALSE])
    PROVE  Heard(o, orders)
  <1> USE DEF Core
  <1>1. o \in Orders
    BY DEF Types
  <1>3. CASE o.result = 0
    <2>1. o.trades = 0
      BY <1>3 DEF OrderRight
    <2>2. ~[o EXCEPT !.news = FALSE].news /\ [o EXCEPT !.news = FALSE].trades = 0
      BY <1>1, <2>1 DEF Orders
    <2>3. orders = flight \ {o}
      BY <2>2 DEF Rest
    <2> QED
      BY <1>3, <2>3 DEF Heard
  <1>4. CASE o.result > 0
    <2>0. o.trades = 1
      BY <1>4 DEF OrderRight
    <2> DEFINE x == [o EXCEPT !.news = FALSE]
    <2>2. /\ x \in Orders /\ x.kind = o.kind /\ x.key = o.key /\ x.quantity = o.quantity /\ x.part = o.part
          /\ x.result = o.result /\ ~x.news /\ x.trades = 1
      BY <1>1, <2>0 DEF Orders
    <2>3. orders = (flight \ {o}) \cup {x}
      BY <2>2 DEF Rest
    <2> HIDE DEF x
    <2>4. x \notin flight \ {o}
      BY <2>2 DEF OrdersRight
    <2> QED
      BY <1>4, <2>2, <2>3, <2>4 DEF Heard
  <1> QED
    BY <1>3, <1>4

(* What the news leaves of the orders.                                     *)
LEMMA OrderHeard ==
    ASSUME Core, NEW o \in flight, o.news, o.result \in Nat, OrderRight(o), Heard(o, flight')
    PROVE  /\ OrdersRight' /\ flight' \subseteq Orders /\ IsFiniteSet(flight')
           /\ UnheardIn(flight') = UnheardIn(flight) - Unheard(o)
           /\ UnheardIn(flight) \in Int /\ Unheard(o) \in Int
  <1>1. CASE o.result = 0 /\ flight' = flight \ {o}
    BY <1>1, OrderGone
  <1>2. CASE o.result > 0 /\ \E x \in Orders :
               /\ flight' = (flight \ {o}) \cup {x} /\ x \notin flight \ {o}
               /\ x.kind = o.kind /\ x.key = o.key /\ x.quantity = o.quantity /\ x.part = o.part
               /\ x.result = o.result /\ ~x.news /\ x.trades = 1
    <2>1. PICK x \in Orders :
               /\ flight' = (flight \ {o}) \cup {x} /\ x \notin flight \ {o}
               /\ x.kind = o.kind /\ x.key = o.key /\ x.quantity = o.quantity /\ x.part = o.part
               /\ x.result = o.result /\ ~x.news /\ x.trades = 1
      BY <1>2
    <2>2. OrderRight(x)
      BY <1>2, <2>1 DEF OrderRight
    <2>3. /\ OrdersRight' /\ flight' \subseteq Orders /\ IsFiniteSet(flight')
          /\ UnheardIn(flight') = UnheardIn(flight) - Unheard(o) + Unheard(x)
          /\ UnheardIn(flight) \in Int /\ Unheard(o) \in Int /\ Unheard(x) \in Int
      BY <2>1, <2>2, OrderChanged
    <2>4. Unheard(x) = 0
      BY <2>1 DEF Unheard
    <2> QED
      BY <2>3, <2>4
  <1> QED
    BY <1>1, <1>2, Zenon DEF Heard

(* on_order in a calm environment.                                         *)
LEMMA NewsComes ==
    ASSUME Core, Calm', NEW o \in flight, OnOrder(o)
    PROVE  /\ state = "up" /\ o.news /\ UNCHANGED <<pc, held, state, odd>>
           /\ o \in Orders /\ OrderRight(o) /\ o.result \in Nat /\ o.result <= o.quantity
           /\ ~Noting(o) /\ ~LatePart(o)
           /\ Heard(o, flight')
           /\ IF o.kind = "open" THEN PostOpen(o) ELSE PostClose(o)
  <1> DEFINE shown == (IF Noting(o) THEN {"overtaken"} ELSE {}) \cup (IF LatePart(o) THEN {"late_part"} ELSE {})
  <1>1. Meets(shown)
    BY DEF OnOrder
  <1>2. shown \subseteq {"no_position", "limit_open"}
    <2> HIDE DEF shown
    <2> QED
      BY <1>1, CalmShows
  <1>3. ~Noting(o) /\ ~LatePart(o)
    BY <1>2
  <1>4. shown = {}
    BY <1>3
  <1> HIDE DEF shown
  <1>5. odd' = odd
    BY <1>1, <1>4 DEF Meets
  <1>6. /\ state = "up" /\ o.news /\ o.result # -1 /\ UNCHANGED <<pc, held>>
        /\ flight' = Rest(o, [o EXCEPT !.news = FALSE])
    BY DEF OnOrder
  <1>7. UNCHANGED state /\ IF o.kind = "open" THEN PostOpen(o) ELSE PostClose(o)
    BY <1>3 DEF OnOrder, Unknown
  <1>8. o \in Orders /\ OrderRight(o)
    BY DEF Core, OrdersRight, Types
  <1>9. o.result \in Nat /\ o.result <= o.quantity
    BY <1>6, <1>8 DEF OrderRight, Orders
  <1>10. Heard(o, flight')
    BY <1>6, <1>8, <1>9, OrderHears
  <1> QED
    BY <1>3, <1>5, <1>6, <1>7, <1>8, <1>9, <1>10

(* post_open: the lots that were filled are in the slot.                   *)
LEMMA PostOpenKeeps ==
    ASSUME Core, Calm', NEW o \in flight, OnOrder(o), o.kind = "open"
    PROVE  Core'
  <1> DEFINE k == o.key
             n == o.result
             b == Opened(book, k, n)
             d == SetSlot(SaveFilled(SaveTxn(db, b), b, k), b, 1)
             used == Used(b, flight', cgs')
  <1>1. /\ state = "up" /\ o.news /\ UNCHANGED <<pc, held, state, odd>>
        /\ o \in Orders /\ OrderRight(o) /\ n \in Nat /\ n <= o.quantity /\ ~Noting(o)
        /\ Heard(o, flight') /\ PostOpen(o)
    BY NewsComes
  <1>2. /\ OrdersRight' /\ flight' \subseteq Orders /\ IsFiniteSet(flight')
        /\ UnheardIn(flight') = UnheardIn(flight) - n /\ UnheardIn(flight) \in Int
    <2>1. Unheard(o) = n
      BY <1>1 DEF Unheard
    <2> QED
      BY <1>1, <2>1, OrderHeard
  <1>3. cgs' = Kept(cgs, flight') /\ book' = Forget(b, used) /\ db' = Forget(d, used)
    BY <1>1 DEF PostOpen, Handled, Opened
  <1> USE DEF Core
  <1>4. o \in Opens /\ o \in Fresh /\ k \in Keys /\ pc.kind # "open" /\ Noted(o) /\ k \notin Listed
        /\ \A p \in Opens : p.key = k => p = o
    <2>1. o \in Opens /\ o \in Fresh /\ k \in Keys
      BY <1>1 DEF Opens, Fresh, OrderRight
    <2>2. pc.kind # "open"
      BY <1>1, <2>1 DEF OpenRight, Noting, Types, PcRight, Idle, At, OpenPcs, ClosePcs
    <2> QED
      BY <2>1, <2>2 DEF GroupsRight, Noted, OrdersRight, Opens
  <1>5. book.grp[k] = OpenGroup("NORMAL", o.quantity, 1) /\ book.grp[k] \in Groups /\ db.grp[k] = book.grp[k]
    <2>1. OpenGroup("NORMAL", o.quantity, 1) \in Groups
      BY <1>1 DEF OpenGroup, Groups, Orders
    <2>2. book.grp[k] = [OpenGroup("NORMAL", o.quantity, 1) EXCEPT !.filled = 0]
      BY <1>1, <1>4 DEF GroupsRight
    <2>3. book.grp[k] = OpenGroup("NORMAL", o.quantity, 1)
      BY <2>2 DEF OpenGroup
    <2>4. k \in Needed
      BY <1>4 DEF Needed
    <2>5. k \notin Marking
      BY <1>4 DEF Marking, CloseRight, NoClosing, CloseSent, CloseNoted, Marked
    <2> QED
      BY <2>1, <2>3, <2>4, <2>5 DEF RedisRight, Saved
  <1>6. book \in Books /\ db \in Books
    BY DEF Types
  <1> HIDE DEF Core
  <1>7. /\ b \in Books /\ b.costs = book.costs
        /\ b.txn.open = book.txn.open + n /\ b.txn.opening = 0 /\ b.txn.closing = book.txn.closing
        /\ b.txn.lock = book.txn.lock /\ b.txn.lockable = book.txn.lockable /\ b.txn.status = book.txn.status
        /\ b.slots[1].open = book.slots[1].open + n /\ b.slots[1].opening = 0
        /\ b.slots[1].capacity = book.slots[1].capacity
        /\ b.grp[k] = [book.grp[k] EXCEPT !.filled = n] /\ b.grp[k] \in Groups
        /\ \A g \in Keys : g # k => b.grp[g] = book.grp[g]
    BY <1>1, <1>4, <1>5, <1>6, OpenedBook
  <1> HIDE DEF b
  <1>8. /\ d \in Books /\ d.slots = b.slots /\ d.costs = db.costs
        /\ d.txn.status = b.txn.status /\ SameCounters(d.txn, b.txn)
        /\ d.grp[k] = b.grp[k] /\ \A g \in Keys : g # k => d.grp[g] = db.grp[g]
    <2> DEFINE d1 == SaveTxn(db, b)
               d2 == SaveFilled(d1, b, k)
    <2>1. db.txn.lock = b.txn.lock /\ db.txn.lockable = b.txn.lockable
      BY <1>7 DEF Core, RedisRight, SameCounters
    <2>2. /\ d1 \in Books /\ d1.slots = db.slots /\ d1.costs = db.costs /\ d1.grp = db.grp
          /\ d1.txn.status = b.txn.status /\ SameCounters(d1.txn, b.txn)
      BY <1>6, <1>7, <2>1, SavedTxn DEF SameCounters
    <2> HIDE DEF d1
    <2>3. d1.grp[k] \in Groups /\ b.grp[k] = [d1.grp[k] EXCEPT !.filled = n]
      BY <1>5, <1>7, <2>2
    <2>4. /\ d2 \in Books /\ d2.txn = d1.txn /\ d2.slots = d1.slots /\ d2.costs = d1.costs
          /\ d2.grp[k] = b.grp[k] /\ \A g \in Keys : g # k => d2.grp[g] = d1.grp[g]
      BY <1>1, <1>4, <1>7, <2>2, <2>3, FillSaved
    <2>5. d = SetSlot(d2, b, 1)
      BY DEF d1
    <2> HIDE DEF d2, d
    <2> QED
      BY <1>7, <2>2, <2>4, <2>5, SlotSet
  <1> HIDE DEF d
  <1>9. /\ book' \in Books /\ book'.txn = b.txn /\ book'.slots = b.slots /\ book'.costs = b.costs
        /\ \A g \in Keys : g \in used => book'.grp[g] = b.grp[g]
    BY <1>3, <1>7, Forgotten
  <1>10. /\ db' \in Books /\ db'.txn = d.txn /\ db'.slots = d.slots /\ db'.costs = d.costs
         /\ \A g \in Keys : g \in used => db'.grp[g] = d.grp[g]
    BY <1>3, <1>8, Forgotten
  <1>11. \A p \in flight' : p.kind = "open" => p.key \in used
    BY DEF Used
  <1>12. Listed \subseteq used /\ Listed' = Listed
    BY <1>7, <1>9 DEF Used, Listed
  <1> HIDE DEF used
  <1> USE DEF Core
  <1>13. \/ n = 0 /\ flight' = flight \ {o}
         \/ n > 0 /\ \E x \in Orders :
               /\ flight' = (flight \ {o}) \cup {x} /\ x \notin flight \ {o}
               /\ x.kind = o.kind /\ x.key = o.key /\ x.quantity = o.quantity /\ x.part = o.part
               /\ x.result = o.result /\ ~x.news /\ x.trades = 1
    BY <1>1 DEF Heard
  <1>14. Fresh = {o} /\ Fresh' = {} /\ Sells' = Sells
    <2>1. Fresh = {o}
      BY <1>4 DEF OpenRight
    <2>2. \A p \in flight' : p.kind = "open" => ~p.news
      BY <1>13, <2>1 DEF Fresh, Opens
    <2>3. Sells' = Sells
      BY <1>4, <1>13 DEF Sells, Opens
    <2> QED
      BY <2>1, <2>2, <2>3 DEF Fresh, Opens
  <1>15. cgs' = cgs
    BY <1>3, <1>14, KeptSame
  <1>16. Level' = Level + n /\ Level \in Int /\ Level + n <= Slot
    <2>1. Level \in Int /\ Slot \in Nat /\ o.quantity \in Nat /\ Level + o.quantity <= Slot
      BY <1>1, <1>4, <1>6, BookParts, TimeLineAssumption DEF Level, OpenRight, Orders
    <2> QED
      BY <1>1, <1>7, <1>9, <2>1 DEF Level
  <1>17. \A p \in Opens : p # o => p \in Opens' /\ p.key # k
    BY <1>4, <1>13 DEF Opens
  <1>18. \A p \in Opens' : \/ p \in Opens /\ p # o
                           \/ n > 0 /\ p.key = k /\ p.quantity = o.quantity /\ p.result = n /\ ~p.news
    BY <1>13 DEF Opens
  <1>19. ASSUME n > 0 PROVE \E p \in Opens' : p.key = k /\ ~p.news
    <2>1. PICK x \in Orders : x \in flight' /\ x.kind = o.kind /\ x.key = k /\ ~x.news
      BY <1>13, <1>19
    <2> QED
      BY <2>1 DEF Opens
  <1>20. k \notin Holding /\ Holding' = (IF n > 0 THEN Holding \cup {k} ELSE Holding)
    <2>1. \A p \in Opens \ Fresh : p.key # k
      BY <1>4, <1>14
    <2>2. k \notin Holding
      BY <1>4, <2>1 DEF Holding
    <2>3. \A g : g \in Holding' <=> g \in Listed \/ \E p \in Opens' : p.key = g
      BY <1>12, <1>14 DEF Holding
    <2>4. \A g : g \in Holding <=> g \in Listed \/ \E p \in Opens : p # o /\ p.key = g
      BY <1>14 DEF Holding
    <2> QED
      BY <1>17, <1>18, <1>19, <2>2, <2>3, <2>4
  <1>21. Types'
    BY <1>1, <1>2, <1>9, <1>10, <1>15 DEF Types, PcRight
  <1>22. OpenRight'
    BY <1>1, <1>4, <1>7, <1>9, <1>14 DEF OpenRight
  <1>23. GroupsRight'
    <2> SUFFICES ASSUME NEW p \in Opens'
                 PROVE  /\ p.key \notin Listed
                        /\ Noted(p) => book'.grp[p.key] = [OpenGroup("NORMAL", p.quantity, 1)
                                                 EXCEPT !.filled = IF p.news THEN 0 ELSE p.result]
      BY <1>1, <1>12 DEF GroupsRight, Noted
    <2>1. p.key \in used /\ p.key \in Keys
      BY <1>2, <1>11 DEF Opens, OrdersRight, OrderRight
    <2>2. CASE p \in Opens /\ p # o
      BY <1>7, <1>9, <1>17, <2>1, <2>2 DEF GroupsRight
    <2>3. CASE n > 0 /\ p.key = k /\ p.quantity = o.quantity /\ p.result = n /\ ~p.news
      BY <1>4, <1>5, <1>7, <1>9, <2>1, <2>3
    <2> QED
      BY <1>18, <2>2, <2>3
  <1>24. LotsRight'
    <2>1. \A g \in Holding : book'.grp[g] = book.grp[g] /\ g \in Keys
      <3>1. \A p \in Opens \ Fresh : p.key \in used /\ p.key # k
        BY <1>11, <1>14, <1>17 DEF Opens
      <3>2. \A g \in Holding : g \in used /\ g # k
        BY <1>4, <1>12, <3>1 DEF Holding
      <3> QED
        BY <1>7, <1>9, <3>2, FewGroups
    <2>2. LotsIn(book'.grp, Holding) = LotsIn(book.grp, Holding)
      BY <2>1, FewGroups, SameLots
    <2>3. CASE n = 0
      BY <1>7, <1>9, <1>12, <1>16, <1>20, <2>1, <2>2, <2>3 DEF LotsRight, Level
    <2>4. CASE n > 0
      <3>1. k \in used
        BY <1>11, <1>19, <2>4 DEF Opens
      <3>2. book'.grp[k] = [OpenGroup("NORMAL", o.quantity, 1) EXCEPT !.filled = n]
        BY <1>4, <1>5, <1>7, <1>9, <3>1
      <3>3. Remain(book'.grp[k]) = n /\ book'.grp[k].closing = 0
        <4>1. book'.grp[k].filled = n /\ book'.grp[k].close = 0 /\ book'.grp[k].closing = 0
          BY <3>2 DEF OpenGroup
        <4> QED
          BY <1>1, <4>1 DEF Remain
      <3>4. book'.grp[k] \in Groups
        BY <1>4, <1>7, <1>9, <3>1
      <3>5. \A g \in Holding \cup {k} : book'.grp[g] \in Groups
        BY <2>1, <3>4 DEF LotsRight
      <3>6. LotsIn(book'.grp, Holding \cup {k}) = LotsIn(book'.grp, Holding) + n
        <4>1. k \notin Holding /\ IsFiniteSet(Holding)
          BY <1>20, FewGroups
        <4> HIDE DEF Core
        <4>2. PICK grp, S, h : grp = book'.grp /\ S = Holding /\ h = k
          OBVIOUS
        <4>3. IsFiniteSet(S) /\ h \notin S /\ \A g \in S \cup {h} : grp[g] \in Groups
          BY <3>5, <4>1, <4>2
        <4>4. LotsIn(grp, S \cup {h}) = LotsIn(grp, S) + Remain(grp[h])
          BY <4>3, OneGroup, Zenon
        <4> QED
          BY <3>3, <4>2, <4>4
      <3>7. \A g \in Holding \cup {k} : Remain(book'.grp[g]) > 0 /\ book'.grp[g].closing <= Remain(book'.grp[g])
        <4>1. Remain(book'.grp[k]) > 0 /\ book'.grp[k].closing <= Remain(book'.grp[k])
          BY <1>1, <2>4, <3>3
        <4>2. \A g \in Holding : Remain(book.grp[g]) > 0 /\ book.grp[g].closing <= Remain(book.grp[g])
          BY DEF LotsRight
        <4> QED
          BY <2>1, <4>1, <4>2
      <3>8. Holding' = Holding \cup {k}
        BY <1>20, <2>4
      <3>9. Level' = LotsIn(book'.grp, Holding')
        BY <1>16, <2>2, <3>6, <3>8 DEF LotsRight
      <3>10. book'.txn.open = Level' /\ Level' <= Slot /\ IsInjective(book'.costs)
        BY <1>7, <1>9, <1>16 DEF LotsRight, Level
      <3> QED
        BY <3>5, <3>7, <3>8, <3>9, <3>10 DEF LotsRight
    <2> QED
      BY <1>1, <2>3, <2>4
  <1>25. CloseRight'
    <2>1. \A g \in Listed : book'.grp[g] = book.grp[g]
      BY <1>4, <1>7, <1>9, <1>12, FewGroups
    <2>2. \A m \in Nat : Account(m) => Account(m)'
      BY <1>1, <1>2, <1>16 DEF Account
    <2> HIDE DEF Core
    <2> QED
      BY <1>1, <1>7, <1>9, <1>12, <1>14, <1>15, <2>1, <2>2, CloseFramed
  <1>26. RedisRight'
    <2>1. Needed' \subseteq Listed \cup {p.key : p \in Opens'} /\ Needed' \subseteq Keys
      <3>1. \A p \in Opens' : p.key \in Keys
        BY <1>2 DEF Opens, OrdersRight, OrderRight
      <3> QED
        BY <1>12, <3>1, FewGroups DEF Needed
    <2>2. \A g \in Needed' : g \in used /\ g \in Keys
      BY <1>11, <1>12, <2>1 DEF Opens
    <2>3. \A g \in Needed' : g # k => g \in Needed
      BY <1>1, <1>12, <1>18 DEF Needed, Noted
    <2>4. k \notin Marking /\ Marking' = Marking
      BY <1>1, <1>4 DEF Marking, CloseRight, NoClosing, CloseSent, CloseNoted, Marked
    <2>5. ASSUME NEW g \in Needed' PROVE db'.grp[g] = Saved(g)'
      <3>1. g \in used /\ g \in Keys
        BY <2>2
      <3>2. CASE g = k
        BY <1>8, <1>9, <1>10, <2>4, <3>1, <3>2 DEF Saved
      <3>3. CASE g # k
        BY <1>7, <1>8, <1>9, <1>10, <2>3, <2>4, <3>1, <3>3 DEF Saved, RedisRight
      <3> QED
        BY <3>2, <3>3
    <2>6. db'.slots = book'.slots /\ db'.costs = book'.costs /\ SameCounters(db'.txn, book'.txn)
          /\ db'.txn.status = book'.txn.status
      BY <1>7, <1>8, <1>9, <1>10 DEF RedisRight
    <2> QED
      BY <2>5, <2>6 DEF RedisRight
  <1>27. StopRight'
    BY <1>1, <1>4, <1>7, <1>9 DEF StopRight
  <1> QED
    BY <1>2, <1>21, <1>22, <1>23, <1>24, <1>25, <1>26, <1>27
(* What a handler leaves: the book it made, without the forgotten groups.  *)
LEMMA HandledBook ==
    ASSUME Core, NEW b \in Books, NEW d \in Books, NEW closes, Handled(b, d, closes)
    PROVE  /\ cgs' = Kept(closes, flight')
           /\ book' \in Books /\ book'.txn = b.txn /\ book'.slots = b.slots /\ book'.costs = b.costs
           /\ db' \in Books /\ db'.txn = d.txn /\ db'.slots = d.slots /\ db'.costs = d.costs
           /\ \A g \in Keys : g \in ToSet(b.costs) \/ (\E p \in Opens' : p.key = g)
                                 => book'.grp[g] = b.grp[g] /\ db'.grp[g] = d.grp[g]
  <1> DEFINE used == Used(b, flight', cgs')
  <1>1. cgs' = Kept(closes, flight') /\ book' = Forget(b, used) /\ db' = Forget(d, used)
    BY DEF Handled
  <1>2. ToSet(b.costs) \subseteq used /\ \A p \in Opens' : p.key \in used
    BY DEF Used, Opens
  <1> HIDE DEF used
  <1>3. /\ book' \in Books /\ book'.txn = b.txn /\ book'.slots = b.slots /\ book'.costs = b.costs
        /\ \A g \in Keys : g \in used => book'.grp[g] = b.grp[g]
    BY <1>1, Forgotten
  <1>4. /\ db' \in Books /\ db'.txn = d.txn /\ db'.slots = d.slots /\ db'.costs = d.costs
        /\ \A g \in Keys : g \in used => db'.grp[g] = d.grp[g]
    BY <1>1, Forgotten
  <1> QED
    BY <1>1, <1>2, <1>3, <1>4

(* The close order whose news or trade comes is the one close order.       *)
LEMMA SellNoted ==
    ASSUME Core, NEW o \in flight, o.kind = "close", ~Noting(o)
    PROVE  /\ o \in Orders /\ OrderRight(o) /\ o \in Sells /\ o.key \in CloseKeys /\ CloseNoted(o.key)
           /\ pc.kind # "close" /\ book.txn.closing = cgs[o.key].quantity
           /\ cgs[o.key] \in Closes /\ \A p \in Sells : p.key = o.key
           /\ \A l \in CloseKeys : l # o.key => cgs[l] = NoGroup
           /\ cgs \in [CloseKeys -> Closes \cup {NoGroup}]
  <1>1. o \in Sells /\ o \in Orders /\ OrderRight(o) /\ o.key \in CloseKeys
    BY DEF Sells, Core, OrdersRight, OrderRight, Types
  <1>2. ~CloseSent
    BY <1>1 DEF CloseSent, Marked, Noting
  <1>3. PICK k \in CloseKeys : CloseNoted(k)
    BY <1>1, <1>2 DEF Core, CloseRight, NoClosing
  <1>4. k = o.key /\ \A p \in Sells : p.key = o.key
    BY <1>1, <1>3 DEF CloseNoted, Marked
  <1>5. pc.kind # "close"
    BY <1>3, <1>4 DEF CloseNoted, Noting
  <1> QED
    BY <1>1, <1>3, <1>4, <1>5 DEF CloseNoted, Core, Types

(* update_close_group.                                                     *)
LEMMA CloseFilled ==
    ASSUME NEW cg \in Closes, NEW n \in Nat
    PROVE  LET c == FillCloseGroup(cg, n)
           IN  /\ c \in Closes /\ c.quantity = cg.quantity /\ c.groups = cg.groups
               /\ c.filled = cg.filled + n
               /\ c.frag = (IF cg.frag = "NEED" THEN "RCV_ONE"
                            ELSE IF cg.frag = "RCV_ONE" THEN "RCV_TWO" ELSE cg.frag)
  <1> DEFINE frag == IF cg.frag = "NEED" THEN "RCV_ONE"
                     ELSE IF cg.frag = "RCV_ONE" THEN "RCV_TWO" ELSE cg.frag
  <1>1. FillCloseGroup(cg, n) = [cg EXCEPT !.filled = cg.filled + n, !.frag = frag]
    BY DEF FillCloseGroup, Closes, Frags
  <1>2. frag \in Frags /\ cg.filled + n \in Nat
    BY DEF Closes, Frags
  <1> HIDE DEF frag
  <1> QED
    BY <1>1, <1>2 DEF Closes, frag

(* The close group is kept while an order of it is under way.              *)
LEMMA KeptOne ==
    ASSUME NEW k \in CloseKeys, \A p \in Sells' : p.key = k, NEW cg \in Closes,
           NEW closes, \A l \in CloseKeys : closes[l] = IF l = k THEN cg ELSE NoGroup,
           NEW kept, kept = Kept(closes, flight')
    PROVE  /\ kept \in [CloseKeys -> Closes \cup {NoGroup}]
           /\ kept[k] = (IF Sells' = {} THEN NoGroup ELSE cg)
           /\ \A l \in CloseKeys : l # k => kept[l] = NoGroup
  <1>1. \A l \in CloseKeys : (\E p \in flight' : p.kind = "close" /\ p.key = l) <=> (l = k /\ Sells' # {})
    BY DEF Sells
  <1>2. kept = [l \in CloseKeys |-> IF l = k /\ Sells' # {} THEN closes[l] ELSE NoGroup]
    BY <1>1 DEF Kept
  <1> QED
    BY <1>2

(* A handler of the close order that closes no lots of the book.           *)
LEMMA SellFramed ==
    ASSUME Core, UNCHANGED <<pc, held, state, odd>>, state = "up", pc.kind # "close",
           OrdersRight', flight' \subseteq Orders, IsFiniteSet(flight'), Opens' = Opens,
           NEW b \in Books, NEW d \in Books, NEW closes, Handled(b, d, closes),
           b.slots = book.slots, b.costs = book.costs, d.slots = book.slots, d.costs = book.costs,
           b.txn.open = book.txn.open, b.txn.opening = book.txn.opening, b.txn.status = book.txn.status,
           SameCounters(d.txn, b.txn),
           d.txn.status \in {"STOP", "EXIT"} => b.txn.status = d.txn.status,
           \A g \in Keys : \/ b.grp[g] = book.grp[g]
                           \/ g \in Listed /\ b.grp[g] = [book.grp[g] EXCEPT !.closing = 0],
           \A g \in Needed : d.grp[g] = b.grp[g],
           cgs' \in [CloseKeys -> Closes \cup {NoGroup}], CloseRight'
    PROVE  Core'
  <1>1. /\ book' \in Books /\ book'.txn = b.txn /\ book'.slots = b.slots /\ book'.costs = b.costs
        /\ db' \in Books /\ db'.txn = d.txn /\ db'.slots = d.slots /\ db'.costs = d.costs
        /\ \A g \in Keys : g \in ToSet(b.costs) \/ (\E p \in Opens' : p.key = g)
                              => book'.grp[g] = b.grp[g] /\ db'.grp[g] = d.grp[g]
    BY HandledBook
  <1> USE DEF Core
  <1>2. /\ Fresh' = Fresh /\ Listed' = Listed /\ Level' = Level /\ Holding' = Holding /\ Needed' = Needed
        /\ \A p : Noted(p)' = Noted(p)
    BY <1>1 DEF Fresh, Listed, Level, Holding, Needed, Noted
  <1>3. \A g \in Holding \cup Needed : g \in Keys /\ book'.grp[g] = b.grp[g] /\ db'.grp[g] = d.grp[g]
    <2>1. \A p \in Opens : p.key \in Keys
      BY DEF Opens, OrdersRight, OrderRight
    <2>2. \A g \in Holding \cup Needed : g \in Listed \/ \E p \in Opens' : p.key = g
      BY DEF Holding, Needed
    <2>3. Listed = ToSet(b.costs)
      BY DEF Listed
    <2> QED
      BY <1>1, <2>1, <2>2, <2>3, FewGroups
  <1>4. Types'
    BY <1>1 DEF Types, PcRight
  <1>5. OpenRight'
    BY <1>1, <1>2 DEF OpenRight
  <1>6. GroupsRight'
    <2>1. \A p \in Opens : p.key \in Keys /\ p.key \notin Listed
      BY DEF Opens, OrdersRight, OrderRight, GroupsRight
    <2>2. \A p \in Opens : book'.grp[p.key] = book.grp[p.key]
      BY <1>1, <2>1
    <2> QED
      BY <1>2, <2>2 DEF GroupsRight
  <1>7. LotsRight'
    <2>1. ASSUME NEW g \in Holding
          PROVE  /\ book'.grp[g] \in Groups /\ Remain(book'.grp[g]) = Remain(book.grp[g])
                 /\ book'.grp[g].closing = book.grp[g].closing \/ book'.grp[g].closing = 0
      <3>1. book.grp[g] \in Groups /\ book'.grp[g] = b.grp[g] /\ g \in Keys
        BY <1>3 DEF LotsRight
      <3>2. CASE b.grp[g] = book.grp[g]
        BY <3>1, <3>2
      <3>3. CASE b.grp[g] = [book.grp[g] EXCEPT !.closing = 0]
        BY <3>1, <3>3 DEF Groups, Remain
      <3> QED
        BY <3>1, <3>2, <3>3
    <2>2. LotsIn(book'.grp, Holding) = LotsIn(book.grp, Holding)
      BY <2>1, FewGroups, SameLots
    <2>3. ASSUME NEW g \in Holding PROVE Remain(book'.grp[g]) > 0 /\ book'.grp[g].closing <= Remain(book'.grp[g])
      <3>1. Remain(book.grp[g]) > 0 /\ book.grp[g].closing <= Remain(book.grp[g]) /\ Remain(book.grp[g]) \in Int
        BY DEF LotsRight, Remain, Groups
      <3> QED
        BY <2>1, <3>1
    <2> QED
      BY <1>1, <1>2, <2>1, <2>2, <2>3 DEF LotsRight
  <1>8. RedisRight'
    <2>1. \A g : Saved(g)' = book'.grp[g]
      BY DEF Saved, Marking
    <2> QED
      BY <1>1, <1>2, <1>3, <2>1 DEF RedisRight
  <1>9. StopRight'
    BY <1>1, <1>2 DEF StopRight
  <1> QED
    BY <1>4, <1>5, <1>6, <1>7, <1>8, <1>9
(* unmark_closing: no lots of the groups are being closed any more.        *)
LEMMA Unmarked ==
    ASSUME NEW b \in Books, NEW cg, \A g \in ToSet(cg.groups) : b.grp[g] \in Groups
    PROVE  LET c == UnmarkClosing(b, cg)
           IN  /\ c \in Books /\ c.txn = b.txn /\ c.slots = b.slots /\ c.costs = b.costs
               /\ \A g \in Keys : c.grp[g] = IF g \in ToSet(cg.groups)
                                             THEN [b.grp[g] EXCEPT !.closing = 0] ELSE b.grp[g]
  <1> DEFINE c == UnmarkClosing(b, cg)
             grp == [g \in Keys |-> IF g \in ToSet(cg.groups)
                                    THEN [b.grp[g] EXCEPT !.closing = 0] ELSE b.grp[g]]
  <1>1. c = [b EXCEPT !.grp = grp]
    BY DEF UnmarkClosing
  <1>2. b.grp \in [Keys -> Groups \cup {NoGroup}]
    BY BookParts
  <1>3. \A g \in ToSet(cg.groups) : [b.grp[g] EXCEPT !.closing = 0] \in Groups
    BY DEF Groups
  <1>4. grp \in [Keys -> Groups \cup {NoGroup}]
    BY <1>2, <1>3
  <1>5. \A g \in Keys : grp[g] = IF g \in ToSet(cg.groups)
                                 THEN [b.grp[g] EXCEPT !.closing = 0] ELSE b.grp[g]
    OBVIOUS
  <1> HIDE DEF grp, c
  <1>6. c \in Books /\ c.txn = b.txn /\ c.slots = b.slots /\ c.costs = b.costs /\ c.grp = grp
    BY <1>1, <1>4 DEF Books
  <1> QED
    BY <1>5, <1>6 DEF c

(* What a close order does not change of a group.                          *)
SameOpened(x, y) == x.type = y.type /\ x.quantity = y.quantity /\ x.filled = y.filled /\ x.slot = y.slot

(* A group whose lots are not being closed any more.                       *)
LEMMA ClosingCleared ==
    ASSUME NEW x \in Groups, NEW y, y = [x EXCEPT !.closing = 0]
    PROVE  /\ y \in Groups /\ SameOpened(x, y) /\ y.closing = 0 /\ y.close = x.close
           /\ Remain(y) = Remain(x)
  BY DEF Groups, SameOpened, Remain

(* close and closing of the groups of a close order, in redis.             *)
LEMMA QuantitySaved ==
    ASSUME NEW d \in Books, NEW b \in Books, NEW cg,
           \A g \in ToSet(cg.groups) :
              d.grp[g] \in Groups /\ b.grp[g] \in Groups /\ SameOpened(d.grp[g], b.grp[g])
    PROVE  LET e == SaveQuantity(d, b, cg)
           IN  /\ e \in Books /\ e.txn = d.txn /\ e.slots = d.slots /\ e.costs = d.costs
               /\ \A g \in Keys : g \in ToSet(cg.groups) => e.grp[g] = b.grp[g]
               /\ \A g \in Keys : g \notin ToSet(cg.groups) => e.grp[g] = d.grp[g]
  <1> DEFINE e == SaveQuantity(d, b, cg)
             grp == [g \in Keys |-> IF g \in ToSet(cg.groups)
                       THEN [d.grp[g] EXCEPT !.close = b.grp[g].close, !.closing = b.grp[g].closing]
                       ELSE d.grp[g]]
  <1>1. d.grp \in [Keys -> Groups \cup {NoGroup}] /\ "grp" \in DOMAIN d
    BY BookParts
  <1>2. e = [d EXCEPT !.grp = grp]
    BY <1>1 DEF SaveQuantity
  <1>3. ASSUME NEW g \in ToSet(cg.groups)
        PROVE  [d.grp[g] EXCEPT !.close = b.grp[g].close, !.closing = b.grp[g].closing] = b.grp[g]
    <2>1. PICK x, y : x = d.grp[g] /\ y = b.grp[g]
      OBVIOUS
    <2>2. x \in Groups /\ y \in Groups /\ SameOpened(x, y)
      BY <2>1
    <2>3. [x EXCEPT !.close = y.close, !.closing = y.closing] = y
      BY <2>2 DEF Groups, SameOpened
    <2> QED
      BY <2>1, <2>3
  <1>4. \A g \in Keys : grp[g] = IF g \in ToSet(cg.groups) THEN b.grp[g] ELSE d.grp[g]
    BY <1>3
  <1>5. grp = [g \in Keys |-> grp[g]]
    OBVIOUS
  <1> HIDE DEF grp, e
  <1>6. grp \in [Keys -> Groups \cup {NoGroup}]
    BY <1>1, <1>4, <1>5
  <1>7. e \in Books /\ e.txn = d.txn /\ e.slots = d.slots /\ e.costs = d.costs /\ e.grp = grp
    BY <1>2, <1>6 DEF Books
  <1> QED
    BY <1>4, <1>7 DEF e

(* What the news of a close order says of the close group.                 *)
LEMMA NewsOfParts ==
    ASSUME NEW o \in Sells, Sells \subseteq Orders, o.news, o.result \in Nat, o.result <= o.quantity, o.quantity > 0,
           \A p \in Sells : p.key = o.key,
           ~LatePart(o), Heard(o, flight'), o.kind = "close", o \in flight,
           NEW cg \in Closes, Parts(cg)
    PROVE  LET c == FillCloseGroup(cg, o.result)
           IN  /\ c.frag = "RCV_ONE" \/ c.filled > 0 => Parts(c)' /\ Sells' # {}
               /\ ~(c.frag = "RCV_ONE" \/ c.filled > 0) => Sells' = {} /\ cg.filled = 0 /\ o.result = 0
               /\ \A p \in Sells' : p.key = o.key
  <1> DEFINE c == FillCloseGroup(cg, o.result)
  <1>1. /\ c \in Closes /\ c.quantity = cg.quantity /\ c.groups = cg.groups /\ c.filled = cg.filled + o.result
        /\ c.frag = (IF cg.frag = "NEED" THEN "RCV_ONE"
                     ELSE IF cg.frag = "RCV_ONE" THEN "RCV_TWO" ELSE cg.frag)
    BY CloseFilled
  <1> HIDE DEF c
  <1>2. \/ o.result = 0 /\ Sells' = Sells \ {o}
        \/ o.result > 0 /\ \E x \in Orders :
              /\ Sells' = (Sells \ {o}) \cup {x} /\ x \notin Sells \ {o}
              /\ x.key = o.key /\ x.quantity = o.quantity
              /\ x.result = o.result /\ ~x.news /\ x.trades = 1
    <2>1. CASE o.result = 0 /\ flight' = flight \ {o}
      BY <2>1 DEF Sells
    <2>2. CASE o.result > 0 /\ \E x \in Orders :
               /\ flight' = (flight \ {o}) \cup {x} /\ x \notin flight \ {o}
               /\ x.kind = o.kind /\ x.key = o.key /\ x.quantity = o.quantity /\ x.part = o.part
               /\ x.result = o.result /\ ~x.news /\ x.trades = 1
      BY <2>2 DEF Sells
    <2> QED
      BY <2>1, <2>2, Zenon DEF Heard
  <1>3. \A p \in Sells : p # o => p.news /\ (p.result = 0 => o.result = 0)
    BY DEF LatePart, Sells
  <1>4. o.quantity \in Nat /\ cg.quantity \in Nat /\ cg.filled \in Nat /\ o.result \in Int
    BY DEF Orders, Closes
  <1>5. \A p \in Sells' : p.key = o.key
    BY <1>2
  <1>6. CASE cg.frag = "NO" /\ OneNew(cg) /\ cg.filled = 0
    <2>1. Sells = {o} /\ o.quantity = cg.quantity
      BY <1>6 DEF OneNew
    <2>2. c.filled = o.result /\ c.frag = "NO"
      BY <1>1, <1>4, <1>6
    <2>3. CASE o.result = 0
      BY <1>2, <1>5, <1>6, <2>1, <2>2, <2>3 DEF c
    <2>4. CASE o.result > 0
      <3>1. PICK x : Sells' = {x} /\ x.quantity = o.quantity /\ x.result = o.result /\ ~x.news
        BY <1>2, <2>1, <2>4
      <3>2. OneHeard(c)'
        BY <1>1, <2>1, <2>2, <3>1 DEF OneHeard
      <3> QED
        BY <1>5, <2>2, <2>4, <3>1, <3>2 DEF Parts, c
    <2> QED
      BY <1>4, <2>3, <2>4
  <1>7. CASE cg.frag = "NO" /\ OneHeard(cg)
    BY <1>7 DEF OneHeard
  <1>8. CASE cg.frag = "NEED" /\ BothNew(cg) /\ cg.filled = 0
    <2>1. PICK p \in Sells : o # p /\ Sells = {o, p} /\ p.news /\ o.quantity + p.quantity = cg.quantity
          /\ p.quantity \in Nat
      <3>1. \A p \in Sells : p.quantity \in Nat
        BY DEF Orders
      <3>2. PICK q, p \in Sells : q # p /\ Sells = {q, p} /\ q.news /\ p.news /\ q.quantity + p.quantity = cg.quantity
        BY <1>8 DEF BothNew
      <3>3. q.quantity + p.quantity = p.quantity + q.quantity
        BY <3>1
      <3> QED
        BY <3>1, <3>2, <3>3
    <2>2. c.filled = o.result /\ c.frag = "RCV_ONE"
      BY <1>1, <1>4, <1>8
    <2>3. p.result = 0 => c.filled = 0
      BY <1>3, <2>1, <2>2
    <2>4. p.quantity + c.filled <= c.quantity
      BY <1>1, <1>4, <2>1, <2>2
    <2>5. /\ p \in Sells'
          /\ \/ Sells' = {p}
             \/ \E x \in Sells' : Sells' = {p, x} /\ ~x.news /\ c.filled = x.result
      BY <1>2, <2>1, <2>2
    <2>6. SecondNew(c)'
      BY <2>1, <2>3, <2>4, <2>5 DEF SecondNew
    <2> QED
      BY <1>5, <2>2, <2>5, <2>6 DEF Parts, c
  <1>9. CASE cg.frag = "RCV_ONE" /\ SecondNew(cg)
    <2>1. PICK s \in Sells : /\ s.news /\ s.quantity + cg.filled <= cg.quantity
                             /\ s.result = 0 => cg.filled = 0
                             /\ \/ Sells = {s}
                                \/ \E p \in Sells : Sells = {s, p} /\ ~p.news /\ cg.filled = p.result
      BY <1>9 DEF SecondNew
    <2>2. s = o /\ Sells = {o}
      BY <1>3, <2>1
    <2>3. c.filled = cg.filled + o.result /\ c.frag = "RCV_TWO"
      BY <1>1, <1>9
    <2>4. CASE o.result = 0
      <3>1. cg.filled = 0 /\ c.filled = 0 /\ Sells' = {}
        BY <1>2, <2>1, <2>2, <2>3, <2>4
      <3> QED
        BY <1>5, <2>3, <2>4, <3>1 DEF c
    <2>5. CASE o.result > 0
      <3>1. PICK x : Sells' = {x} /\ ~x.news
        BY <1>2, <2>2, <2>5
      <3>2. c.filled \in 1..c.quantity
        BY <1>1, <1>4, <2>1, <2>2, <2>3, <2>5
      <3>3. SecondHeard(c)'
        BY <3>1, <3>2 DEF SecondHeard
      <3> QED
        BY <1>5, <2>3, <3>1, <3>2, <3>3 DEF Parts, c
    <2> QED
      BY <1>4, <2>4, <2>5
  <1>10. CASE cg.frag = "RCV_TWO" /\ SecondHeard(cg)
    BY <1>10 DEF SecondHeard
  <1> QED
    BY <1>6, <1>7, <1>8, <1>9, <1>10, Zenon DEF Parts
(* post_close while orders are under way or lots were filled.              *)
LEMMA PostCloseMore ==
    ASSUME Core, Calm', NEW o \in flight, OnOrder(o), o.kind = "close",
           FillCloseGroup(cgs[o.key], o.result).frag = "RCV_ONE"
              \/ FillCloseGroup(cgs[o.key], o.result).filled > 0
    PROVE  Core'
  <1>1. /\ state = "up" /\ o.news /\ UNCHANGED <<pc, held, state, odd>>
        /\ o \in Orders /\ OrderRight(o) /\ o.result \in Nat /\ o.result <= o.quantity
        /\ ~Noting(o) /\ ~LatePart(o) /\ Heard(o, flight') /\ PostClose(o)
    BY NewsComes
  <1>2. /\ o \in Sells /\ o.key \in CloseKeys /\ CloseNoted(o.key)
        /\ pc.kind # "close" /\ book.txn.closing = cgs[o.key].quantity
        /\ cgs[o.key] \in Closes /\ \A p \in Sells : p.key = o.key
        /\ \A l \in CloseKeys : l # o.key => cgs[l] = NoGroup
        /\ cgs \in [CloseKeys -> Closes \cup {NoGroup}]
    BY <1>1, SellNoted
  <1>3. PICK k, cg0 : k = o.key /\ cg0 = cgs[o.key]
    OBVIOUS
  <1> DEFINE cg == FillCloseGroup(cg0, o.result)
             closes == [cgs EXCEPT ![k] = cg]
  <1>4. Handled(book, db, closes)
    BY <1>1, <1>3 DEF PostClose
  <1>5. /\ cg \in Closes /\ cg.quantity = cg0.quantity /\ cg.groups = cg0.groups
        /\ cg.filled = cg0.filled + o.result
    BY <1>1, <1>2, <1>3, CloseFilled
  <1>6. Parts(cg0) /\ Marked(k, cg0) /\ Account(cg0.filled)
    BY <1>2, <1>3 DEF CloseNoted
  <1>7. Parts(cg)' /\ Sells' # {} /\ \A p \in Sells' : p.key = k
    <2>1. Sells \subseteq Orders /\ o.quantity > 0
      BY <1>1 DEF Sells, Core, Types, OrderRight
    <2>2. cg.frag = "RCV_ONE" \/ cg.filled > 0
      BY <1>3
    <2>3. cg.frag = "RCV_ONE" \/ cg.filled > 0 => Parts(cg)' /\ Sells' # {}
      BY <1>1, <1>2, <1>3, <1>6, <2>1, NewsOfParts
    <2>4. \A p \in Sells' : p.key = k
      BY <1>1, <1>2, <1>3, <1>6, <2>1, NewsOfParts
    <2> QED
      BY <2>2, <2>3, <2>4
  <1> HIDE DEF cg, closes
  <1>8. /\ OrdersRight' /\ flight' \subseteq Orders /\ IsFiniteSet(flight')
        /\ UnheardIn(flight') = UnheardIn(flight) - Unheard(o)
        /\ UnheardIn(flight) \in Int /\ Unheard(o) \in Int
    BY <1>1, OrderHeard
  <1>9. Opens' = Opens
    <2>1. \A p : p \in flight' /\ p.kind = "open" <=> p \in flight /\ p.kind = "open"
      BY <1>1 DEF Heard
    <2> QED
      BY <2>1 DEF Opens
  <1>10. book \in Books /\ db \in Books
    BY DEF Core, Types
  <1>11. /\ cgs' = Kept(closes, flight')
         /\ book' \in Books /\ book'.txn = book.txn /\ book'.slots = book.slots /\ book'.costs = book.costs
         /\ \A g \in Keys : g \in Listed => book'.grp[g] = book.grp[g]
    BY <1>4, <1>10, HandledBook DEF Listed
  <1>12. /\ cgs' \in [CloseKeys -> Closes \cup {NoGroup}]
         /\ cgs'[k] = cg /\ \A l \in CloseKeys : l # k => cgs'[l] = NoGroup
    <2>1. PICK c, closed, kept : c = cg /\ closed = closes /\ kept = cgs'
      OBVIOUS
    <2>2. c \in Closes /\ (\A l \in CloseKeys : closed[l] = IF l = k THEN c ELSE NoGroup) /\ k \in CloseKeys /\ kept = Kept(closed, flight')
          /\ \A p \in Sells' : p.key = k
      BY <1>2, <1>3, <1>5, <1>7, <1>11, <2>1 DEF closes
    <2>3. /\ kept \in [CloseKeys -> Closes \cup {NoGroup}] /\ kept[k] = (IF Sells' = {} THEN NoGroup ELSE c)
          /\ \A l \in CloseKeys : l # k => kept[l] = NoGroup
      BY <2>2, KeptOne
    <2> QED
      BY <1>7, <2>1, <2>3
  <1>13. CloseRight'
    <2>1. Listed' = Listed /\ Level' = Level /\ \A g \in Listed : book'.grp[g].closing = book.grp[g].closing
      BY <1>11, FewGroups DEF Listed, Level
    <2>2. Marked(k, cg)'
      <3>1. ToSet(cg.groups) \subseteq Listed
        BY <1>5, <1>6 DEF Marked
      <3>2. IsFiniteSet(ToSet(cg.groups)) /\ \A g \in ToSet(cg.groups) : book'.grp[g].closing = book.grp[g].closing
        BY <2>1, <3>1, FewGroups, FS_Subset
      <3>3. ClosingIn(book'.grp, ToSet(cg.groups)) = ClosingIn(book.grp, ToSet(cg.groups))
        BY <3>2, SameClosing
      <3> QED
        BY <1>5, <1>6, <1>7, <2>1, <3>3 DEF Marked
    <2>3. Account(cg.filled)'
      <3>1. Unheard(o) = -o.result
        BY <1>1 DEF Unheard
      <3>2. Level \in Int /\ cg0.filled \in Nat
        BY <1>2, <1>3, <1>10, BookParts DEF Level, Closes
      <3> QED
        BY <1>1, <1>5, <1>6, <1>8, <2>1, <3>1, <3>2 DEF Account
    <2>4. cg # NoGroup
      BY <1>5 DEF Closes, NoGroup
    <2>5. CloseNoted(k)'
      BY <1>1, <1>2, <1>3, <1>5, <1>7, <1>11, <1>12, <2>2, <2>3, <2>4 DEF CloseNoted
    <2> QED
      BY <1>2, <1>3, <2>5 DEF CloseRight
  <1>14. /\ db.slots = book.slots /\ db.costs = book.costs /\ SameCounters(db.txn, book.txn)
         /\ db.txn.status \in {"STOP", "EXIT"} => book.txn.status = db.txn.status
         /\ \A g \in Needed : db.grp[g] = book.grp[g]
    BY <1>2 DEF Core, RedisRight, Saved, Marking
  <1> QED
    BY <1>1, <1>2, <1>4, <1>8, <1>9, <1>10, <1>12, <1>13, <1>14, SellFramed

(* post_close when nothing was filled and nothing is under way.            *)
LEMMA PostCloseNone ==
    ASSUME Core, Calm', NEW o \in flight, OnOrder(o), o.kind = "close",
           ~ (FillCloseGroup(cgs[o.key], o.result).frag = "RCV_ONE"
                \/ FillCloseGroup(cgs[o.key], o.result).filled > 0)
    PROVE  Core'
  <1>1. /\ state = "up" /\ o.news /\ UNCHANGED <<pc, held, state, odd>>
        /\ o \in Orders /\ OrderRight(o) /\ o.result \in Nat /\ o.result <= o.quantity
        /\ ~Noting(o) /\ ~LatePart(o) /\ Heard(o, flight') /\ PostClose(o)
    BY NewsComes
  <1>2. /\ o \in Sells /\ o.key \in CloseKeys /\ CloseNoted(o.key)
        /\ pc.kind # "close" /\ book.txn.closing = cgs[o.key].quantity
        /\ cgs[o.key] \in Closes /\ \A p \in Sells : p.key = o.key
        /\ \A l \in CloseKeys : l # o.key => cgs[l] = NoGroup
        /\ cgs \in [CloseKeys -> Closes \cup {NoGroup}]
    BY <1>1, SellNoted
  <1>3. PICK k, cg0 : k = o.key /\ cg0 = cgs[o.key]
    OBVIOUS
  <1> DEFINE cg == FillCloseGroup(cg0, o.result)
             closes == [cgs EXCEPT ![k] = cg]
             u == UnmarkClosing(book, cg)
             b == [u EXCEPT !.txn.closing = 0]
             s == SaveTxn(db, b)
             d == SaveQuantity(s, b, cg)
  <1>4. Handled(b, d, closes)
    BY <1>1, <1>3 DEF PostClose
  <1>5. /\ cg \in Closes /\ cg.quantity = cg0.quantity /\ cg.groups = cg0.groups
        /\ cg.filled = cg0.filled + o.result
    BY <1>1, <1>2, <1>3, CloseFilled
  <1>6. Parts(cg0) /\ Marked(k, cg0) /\ Account(cg0.filled)
    BY <1>2, <1>3 DEF CloseNoted
  <1>7. Sells' = {} /\ cg0.filled = 0 /\ o.result = 0
    <2>1. Sells \subseteq Orders /\ o.quantity > 0
      BY <1>1 DEF Sells, Core, Types, OrderRight
    <2>2. ~ (cg.frag = "RCV_ONE" \/ cg.filled > 0)
      BY <1>3
    <2>3. ~ (cg.frag = "RCV_ONE" \/ cg.filled > 0) => Sells' = {} /\ cg0.filled = 0 /\ o.result = 0
      BY <1>1, <1>2, <1>3, <1>6, <2>1, NewsOfParts
    <2> QED
      BY <2>2, <2>3
  <1> HIDE DEF cg, closes, u, b, s, d
  <1>8. /\ OrdersRight' /\ flight' \subseteq Orders /\ IsFiniteSet(flight')
        /\ UnheardIn(flight') = UnheardIn(flight) - Unheard(o)
        /\ UnheardIn(flight) \in Int /\ Unheard(o) \in Int
    BY <1>1, OrderHeard
  <1>9. Opens' = Opens
    <2>1. \A p : p \in flight' /\ p.kind = "open" <=> p \in flight /\ p.kind = "open"
      BY <1>1 DEF Heard
    <2> QED
      BY <2>1 DEF Opens
  <1>10. book \in Books /\ db \in Books
    BY DEF Core, Types
  <1>11. /\ ToSet(cg.groups) \subseteq Listed /\ \A g \in ToSet(cg.groups) : book.grp[g] \in Groups
         /\ \A g \in Listed \ ToSet(cg.groups) : book.grp[g].closing = 0
    BY <1>5, <1>6, FewGroups DEF Marked, Core, LotsRight
  <1>12. /\ u \in Books /\ u.txn = book.txn /\ u.slots = book.slots /\ u.costs = book.costs
         /\ \A g \in Keys : u.grp[g] = IF g \in ToSet(cg.groups)
                                       THEN [book.grp[g] EXCEPT !.closing = 0] ELSE book.grp[g]
    BY <1>10, <1>11, Unmarked DEF u
  <1>13. /\ b \in Books /\ b.slots = u.slots /\ b.costs = u.costs /\ b.grp = u.grp
         /\ b.txn.open = u.txn.open /\ b.txn.opening = u.txn.opening /\ b.txn.closing = 0
         /\ b.txn.lock = u.txn.lock /\ b.txn.lockable = u.txn.lockable /\ b.txn.status = u.txn.status
    BY <1>12, ClosingWritten DEF b
  <1>14. /\ db.slots = book.slots /\ db.costs = book.costs /\ SameCounters(db.txn, book.txn)
         /\ \A g \in Needed : db.grp[g] = book.grp[g]
    BY <1>2 DEF Core, RedisRight, Saved, Marking
  <1>15. /\ s \in Books /\ s.slots = db.slots /\ s.costs = db.costs /\ s.grp = db.grp
         /\ s.txn.status = b.txn.status /\ SameCounters(s.txn, b.txn)
    BY <1>10, <1>12, <1>13, <1>14, SavedTxn DEF SameCounters, s
  <1>16. \A g \in ToSet(cg.groups) : /\ s.grp[g] \in Groups /\ b.grp[g] \in Groups /\ s.grp[g] = book.grp[g]
                                     /\ b.grp[g] = [s.grp[g] EXCEPT !.closing = 0] /\ g \in Keys
    <2>1. ToSet(cg.groups) \subseteq Needed /\ ToSet(cg.groups) \subseteq Keys
      BY <1>11, FewGroups DEF Needed
    <2>2. \A g \in ToSet(cg.groups) : s.grp[g] = book.grp[g] /\ b.grp[g] = [s.grp[g] EXCEPT !.closing = 0]
      BY <1>12, <1>13, <1>14, <1>15, <2>1
    <2> QED
      BY <1>11, <2>1, <2>2 DEF Groups
  <1>17. /\ d \in Books /\ d.txn = s.txn /\ d.slots = s.slots /\ d.costs = s.costs
         /\ \A g \in Keys : g \in ToSet(cg.groups) => d.grp[g] = b.grp[g]
         /\ \A g \in Keys : g \notin ToSet(cg.groups) => d.grp[g] = s.grp[g]
    <2>1. \A g \in ToSet(cg.groups) :
             s.grp[g] \in Groups /\ b.grp[g] \in Groups /\ SameOpened(s.grp[g], b.grp[g])
      BY <1>16, ClosingCleared
    <2>2. PICK x, y, z : x = s /\ y = b /\ z = cg
      OBVIOUS
    <2>3. x \in Books /\ y \in Books
          /\ \A g \in ToSet(z.groups) : x.grp[g] \in Groups /\ y.grp[g] \in Groups /\ SameOpened(x.grp[g], y.grp[g])
      BY <1>13, <1>15, <2>1, <2>2
    <2>4. LET e == SaveQuantity(x, y, z)
          IN  /\ e \in Books /\ e.txn = x.txn /\ e.slots = x.slots /\ e.costs = x.costs
              /\ \A g \in Keys : g \in ToSet(z.groups) => e.grp[g] = y.grp[g]
              /\ \A g \in Keys : g \notin ToSet(z.groups) => e.grp[g] = x.grp[g]
      BY <2>3, QuantitySaved
    <2> QED
      BY <2>2, <2>4 DEF d
  <1>18. \A g \in Needed : d.grp[g] = b.grp[g]
    <2>1. Needed \subseteq Keys
      BY FewGroups DEF Needed, Opens, Core, OrdersRight, OrderRight
    <2>2. \A g \in ToSet(cg.groups) : d.grp[g] = b.grp[g]
      BY <1>16, <1>17
    <2>3. ASSUME NEW g \in Needed, g \notin ToSet(cg.groups) PROVE d.grp[g] = b.grp[g]
      BY <1>12, <1>13, <1>14, <1>15, <1>17, <2>1, <2>3
    <2> QED
      BY <2>2, <2>3
  <1>19. /\ cgs' = Kept(closes, flight')
         /\ book' \in Books /\ book'.txn = b.txn /\ book'.slots = b.slots /\ book'.costs = b.costs
         /\ \A g \in Keys : g \in Listed => book'.grp[g] = b.grp[g]
    <2>1. Listed = ToSet(b.costs)
      BY <1>12, <1>13 DEF Listed
    <2>2. PICK x, y, z : x = b /\ y = d /\ z = closes
      OBVIOUS
    <2>3. x \in Books /\ y \in Books /\ Handled(x, y, z) /\ Listed = ToSet(x.costs)
      BY <1>4, <1>13, <1>17, <2>1, <2>2
    <2>4. /\ cgs' = Kept(z, flight')
          /\ book' \in Books /\ book'.txn = x.txn /\ book'.slots = x.slots /\ book'.costs = x.costs
          /\ \A g \in Keys : g \in ToSet(x.costs) => book'.grp[g] = x.grp[g]
      BY <2>3, HandledBook
    <2> QED
      BY <2>2, <2>3, <2>4
  <1>20. cgs' \in [CloseKeys -> Closes \cup {NoGroup}] /\ \A l \in CloseKeys : cgs'[l] = NoGroup
    <2>1. PICK c, closed, kept : c = cg /\ closed = closes /\ kept = cgs'
      OBVIOUS
    <2>2. c \in Closes /\ (\A l \in CloseKeys : closed[l] = IF l = k THEN c ELSE NoGroup) /\ k \in CloseKeys /\ kept = Kept(closed, flight')
          /\ \A p \in Sells' : p.key = k
      BY <1>2, <1>3, <1>5, <1>7, <1>19, <2>1 DEF closes
    <2>3. /\ kept \in [CloseKeys -> Closes \cup {NoGroup}] /\ kept[k] = (IF Sells' = {} THEN NoGroup ELSE c)
          /\ \A l \in CloseKeys : l # k => kept[l] = NoGroup
      BY <2>2, KeptOne
    <2> QED
      BY <1>7, <2>1, <2>3
  <1>21. NoClosing'
    <2>1. Listed' = Listed /\ Level' = Level /\ \A g \in Listed : g \in Keys
      BY <1>12, <1>13, <1>19, FewGroups DEF Listed, Level
    <2>2. ASSUME NEW g \in Listed PROVE book'.grp[g].closing = 0
      <3>1. book.grp[g] \in Groups /\ g \in Keys /\ book'.grp[g] = u.grp[g]
        BY <1>13, <1>19, <2>1, FewGroups DEF Core, LotsRight
      <3>2. CASE g \in ToSet(cg.groups)
        <4>1. book'.grp[g] = [book.grp[g] EXCEPT !.closing = 0]
          BY <1>12, <3>1, <3>2
        <4> QED
          BY <3>1, <4>1 DEF Groups
      <3>3. CASE g \notin ToSet(cg.groups)
        BY <1>11, <1>12, <3>1, <3>3
      <3> QED
        BY <3>2, <3>3
    <2>3. Account(0)'
      <3>1. Unheard(o) = -o.result
        BY <1>1 DEF Unheard
      <3> QED
        BY <1>1, <1>6, <1>7, <1>8, <2>1, <3>1 DEF Account
    <2> QED
      BY <1>1, <1>2, <1>7, <1>13, <1>19, <1>20, <2>1, <2>2, <2>3 DEF NoClosing
  <1>22. CloseRight'
    BY <1>21 DEF CloseRight
  <1>23. \A g \in Keys : \/ b.grp[g] = book.grp[g]
                         \/ g \in Listed /\ b.grp[g] = [book.grp[g] EXCEPT !.closing = 0]
    BY <1>11, <1>12, <1>13
  <1>24. d.txn.status = b.txn.status /\ SameCounters(d.txn, b.txn) /\ d.slots = book.slots /\ d.costs = book.costs
    BY <1>14, <1>15, <1>17
  <1>25. b.slots = book.slots /\ b.costs = book.costs /\ b.txn.open = book.txn.open
         /\ b.txn.opening = book.txn.opening /\ b.txn.status = book.txn.status
    BY <1>12, <1>13
  <1> QED
    BY <1>1, <1>2, <1>4, <1>8, <1>9, <1>13, <1>17, <1>18, <1>20, <1>22, <1>23, <1>24, <1>25, SellFramed

(* on_order.                                                               *)
LEMMA OnOrderKeeps ==
    ASSUME Core, Calm', NEW o \in flight, OnOrder(o)
    PROVE  Core'
  <1>1. o.kind \in {"open", "close"}
    BY DEF Core, Types, Orders
  <1> QED
    BY <1>1, PostOpenKeeps, PostCloseMore, PostCloseNone
(* on_trade in a calm environment.                                         *)
LEMMA TradeComes ==
    ASSUME Core, Calm', NEW o \in flight, OnTrade(o)
    PROVE  /\ state = "up" /\ ~o.news /\ UNCHANGED <<pc, held, state, odd>>
           /\ o \in Orders /\ OrderRight(o) /\ o.result > 0 /\ ~Noting(o)
           /\ flight' = flight \ {o} /\ Unheard(o) = 0
           /\ IF o.kind = "open" THEN PostOpenAfterTrade(o) ELSE PostCloseAfterTrade(o)
  <1> DEFINE shown == (IF o.news THEN {"trade_first"} ELSE {}) \cup (IF Noting(o) THEN {"overtaken"} ELSE {})
  <1>1. Meets(shown)
    BY DEF OnTrade
  <1>2. shown \subseteq {"no_position", "limit_open"}
    <2> HIDE DEF shown
    <2> QED
      BY <1>1, CalmShows
  <1>3. ~Noting(o) /\ ~o.news
    BY <1>2
  <1>4. shown = {}
    BY <1>3
  <1> HIDE DEF shown
  <1>5. odd' = odd
    BY <1>1, <1>4 DEF Meets
  <1>6. /\ state = "up" /\ o.trades > 0 /\ UNCHANGED <<pc, held>>
        /\ flight' = Rest(o, [o EXCEPT !.trades = @ - 1])
    BY DEF OnTrade
  <1>7. UNCHANGED state /\ IF o.kind = "open" THEN PostOpenAfterTrade(o) ELSE PostCloseAfterTrade(o)
    BY <1>3 DEF OnTrade, Unknown
  <1>8. o \in Orders /\ OrderRight(o)
    BY DEF Core, OrdersRight, Types
  <1>9. o.result > 0 /\ o.trades = 1
    BY <1>3, <1>6, <1>8 DEF OrderRight, Orders
  <1>10. flight' = flight \ {o}
    <2>1. [o EXCEPT !.trades = @ - 1].news = o.news /\ [o EXCEPT !.trades = @ - 1].trades = 0
      BY <1>8, <1>9 DEF Orders
    <2> QED
      BY <1>3, <1>6, <2>1 DEF Rest
  <1>11. Unheard(o) = 0
    BY <1>3 DEF Unheard
  <1> QED
    BY <1>3, <1>5, <1>6, <1>7, <1>8, <1>9, <1>10, <1>11

(* The costs of a book written, and nothing else.                          *)
LEMMA CostsWritten ==
    ASSUME NEW b \in Books, NEW costs \in Seq(Keys)
    PROVE  LET c == [b EXCEPT !.costs = costs]
           IN  c \in Books /\ c.txn = b.txn /\ c.slots = b.slots /\ c.costs = costs /\ c.grp = b.grp
  BY DEF Books

(* post_open after the trade: the group of the order is in the costs.      *)
LEMMA PostOpenAfterTradeKeeps ==
    ASSUME Core, Calm', NEW o \in flight, OnTrade(o), o.kind = "open"
    PROVE  Core'
  <1>1. /\ state = "up" /\ ~o.news /\ UNCHANGED <<pc, held, state, odd>>
        /\ o \in Orders /\ OrderRight(o) /\ o.result > 0 /\ ~Noting(o)
        /\ flight' = flight \ {o} /\ Unheard(o) = 0 /\ PostOpenAfterTrade(o)
    BY TradeComes
  <1>2. PICK at, k, new :
           /\ at \in 0..Len(book.costs) /\ k = o.key /\ new = Placed(book.costs, at, k)
           /\ Handled([book EXCEPT !.costs = new],
                      [SaveTxn(db, [book EXCEPT !.costs = new]) EXCEPT !.costs = PlacedOnce(book.costs, at, k)], cgs)
    BY <1>1 DEF PostOpenAfterTrade
  <1>3. book \in Books /\ db \in Books /\ book.costs \in Seq(Keys)
    BY BookParts DEF Core, Types
  <1>4. /\ o \in Opens /\ o \notin Fresh /\ k \in Keys /\ k \notin Listed /\ Noted(o)
        /\ \A p \in Opens : p.key = k => p = o
    <2>1. o \in Opens /\ o \notin Fresh /\ k \in Keys
      BY <1>1, <1>2 DEF Opens, Fresh, OrderRight
    <2>2. k \notin Listed /\ \A p \in Opens : p.key = k => p = o
      BY <1>2, <2>1 DEF Core, GroupsRight, OrdersRight, Opens
    <2>3. Noted(o)
      <3>1. pc.kind = "open" => pc.key # k
        BY <2>1, <2>2 DEF Core, OpenRight, Fresh
      <3> QED
        BY <1>2, <3>1 DEF Noted
    <2> QED
      BY <2>1, <2>2, <2>3
  <1>5. /\ new \in Seq(Keys) /\ IsInjective(new) /\ ToSet(new) = Listed \cup {k}
        /\ PlacedOnce(book.costs, at, k) = new
    <2>1. PICK list : list = book.costs
      OBVIOUS
    <2>2. list \in Seq(Keys) /\ IsInjective(list) /\ k \notin ToSet(list) /\ at \in 0..Len(list)
          /\ new = Placed(list, at, k)
      BY <1>2, <1>3, <1>4, <2>1 DEF Core, LotsRight, Listed
    <2>3. /\ new \in Seq(Keys) /\ IsInjective(new) /\ ToSet(new) = ToSet(list) \cup {k}
          /\ PlacedOnce(list, at, k) = new
      BY <1>4, <2>2, PlacedIn
    <2> QED
      BY <2>1, <2>3 DEF Listed
  <1> DEFINE b == [book EXCEPT !.costs = new]
             s == SaveTxn(db, b)
             d == [s EXCEPT !.costs = new]
  <1>6. Handled(b, d, cgs)
    BY <1>2, <1>5
  <1>7. b \in Books /\ b.txn = book.txn /\ b.slots = book.slots /\ b.costs = new /\ b.grp = book.grp
    BY <1>3, <1>5, CostsWritten
  <1> HIDE DEF b
  <1>8. db.slots = book.slots /\ SameCounters(db.txn, book.txn)
    BY DEF Core, RedisRight
  <1>9. /\ s \in Books /\ s.slots = db.slots /\ s.grp = db.grp
        /\ s.txn.status = b.txn.status /\ SameCounters(s.txn, b.txn)
    BY <1>3, <1>7, <1>8, SavedTxn DEF SameCounters
  <1> HIDE DEF s
  <1>10. d \in Books /\ d.txn = s.txn /\ d.slots = s.slots /\ d.costs = new /\ d.grp = s.grp
    BY <1>5, <1>9, CostsWritten
  <1> HIDE DEF d
  <1>11. /\ cgs' = Kept(cgs, flight')
         /\ book' \in Books /\ book'.txn = b.txn /\ book'.slots = b.slots /\ book'.costs = b.costs
         /\ db' \in Books /\ db'.txn = d.txn /\ db'.slots = d.slots /\ db'.costs = d.costs
         /\ \A g \in Keys : g \in ToSet(b.costs) \/ (\E p \in Opens' : p.key = g)
                               => book'.grp[g] = b.grp[g] /\ db'.grp[g] = d.grp[g]
    <2>1. PICK x, y : x = b /\ y = d
      OBVIOUS
    <2>2. x \in Books /\ y \in Books /\ Handled(x, y, cgs)
      BY <1>6, <1>7, <1>10, <2>1
    <2>3. /\ cgs' = Kept(cgs, flight')
          /\ book' \in Books /\ book'.txn = x.txn /\ book'.slots = x.slots /\ book'.costs = x.costs
          /\ db' \in Books /\ db'.txn = y.txn /\ db'.slots = y.slots /\ db'.costs = y.costs
          /\ \A g \in Keys : g \in ToSet(x.costs) \/ (\E p \in Opens' : p.key = g)
                                => book'.grp[g] = x.grp[g] /\ db'.grp[g] = y.grp[g]
      BY <2>2, HandledBook
    <2> QED
      BY <2>1, <2>3
  <1>12. /\ OrdersRight' /\ flight' \subseteq Orders /\ IsFiniteSet(flight')
         /\ UnheardIn(flight') = UnheardIn(flight) - Unheard(o) /\ UnheardIn(flight) \in Int
    BY <1>1, OrderGone
  <1>13. Opens' = Opens \ {o} /\ Sells' = Sells /\ Fresh' = Fresh
    <2>1. Opens' = Opens \ {o} /\ Sells' = Sells
      BY <1>1 DEF Opens, Sells
    <2> QED
      BY <1>4, <2>1 DEF Fresh
  <1>14. cgs' = cgs
    BY <1>11, <1>13, KeptSame
  <1>15. Level' = Level /\ Listed' = Listed \cup {k} /\ \A p : Noted(p)' = Noted(p)
    BY <1>1, <1>5, <1>7, <1>11 DEF Level, Listed, Noted
  <1>16. Holding' = Holding /\ Needed' = Needed
    <2>1. \A g : g \in Holding' <=> g \in Listed \/ g = k \/ \E p \in Opens \ Fresh : p # o /\ p.key = g
      BY <1>13, <1>15 DEF Holding
    <2>2. \A g : g \in Needed' <=> g \in Listed \/ g = k \/ \E p \in Opens : p # o /\ Noted(p) /\ p.key = g
      BY <1>13, <1>15 DEF Needed
    <2>3. \A g : g \in Holding <=> g \in Listed \/ g = k \/ \E p \in Opens \ Fresh : p # o /\ p.key = g
      BY <1>2, <1>4 DEF Holding
    <2>4. \A g : g \in Needed <=> g \in Listed \/ g = k \/ \E p \in Opens : p # o /\ Noted(p) /\ p.key = g
      BY <1>2, <1>4 DEF Needed
    <2> QED
      BY <2>1, <2>2, <2>3, <2>4
  <1> USE DEF Core
  <1>17. \A g \in Holding \cup Needed : g \in Keys /\ book'.grp[g] = book.grp[g] /\ db'.grp[g] = db.grp[g]
    <2>1. \A g \in Holding \cup Needed : g \in Keys
      BY FewGroups DEF Needed, Opens, OrdersRight, OrderRight
    <2>2. \A g \in Holding' \cup Needed' : g \in Listed' \/ \E p \in Opens' : p.key = g
      BY DEF Holding, Needed
    <2>3. \A g \in Listed' : g \in ToSet(b.costs)
      BY <1>11 DEF Listed
    <2> QED
      BY <1>7, <1>9, <1>10, <1>11, <1>16, <2>1, <2>2, <2>3
  <1>18. Types'
    BY <1>1, <1>11, <1>12, <1>14 DEF Types, PcRight
  <1>19. OpenRight'
    BY <1>1, <1>7, <1>11, <1>13, <1>15 DEF OpenRight
  <1>20. GroupsRight'
    <2>1. \A p \in Opens' : p.key # k /\ p \in Opens
      BY <1>4, <1>13
    <2>2. \A p \in Opens : p.key \in Keys
      BY DEF Opens, OrdersRight, OrderRight
    <2>3. \A p \in Opens' : book'.grp[p.key] = book.grp[p.key]
      BY <1>7, <1>11, <2>1, <2>2
    <2> QED
      BY <1>15, <2>1, <2>3 DEF GroupsRight
  <1>21. LotsRight'
    <2>1. LotsIn(book'.grp, Holding) = LotsIn(book.grp, Holding)
      BY <1>17, FewGroups, SameLots
    <2> QED
      BY <1>5, <1>7, <1>11, <1>15, <1>16, <1>17, <2>1 DEF LotsRight
  <1>22. CloseRight'
    <2>1. \A g \in Listed : book'.grp[g].closing = book.grp[g].closing
      BY <1>17 DEF Holding
    <2>2. \A g \in Listed' \ Listed : book'.grp[g].closing = 0
      <3>1. book'.grp[k] = book.grp[k]
        BY <1>4, <1>7, <1>11, <1>5
      <3>2. book.grp[k] = [OpenGroup("NORMAL", o.quantity, 1) EXCEPT !.filled = o.result]
        BY <1>1, <1>2, <1>4 DEF GroupsRight
      <3>3. book.grp[k].closing = 0
        BY <3>2 DEF OpenGroup
      <3> QED
        BY <1>15, <3>1, <3>3
    <2>3. \A m \in Nat : Account(m) => Account(m)'
      BY <1>1, <1>12, <1>15 DEF Account
    <2> HIDE DEF Core
    <2> QED
      BY <1>1, <1>7, <1>11, <1>13, <1>14, <1>15, <2>1, <2>2, <2>3, CloseFramed
  <1>23. RedisRight'
    <2>1. Marking' = Marking
      BY <1>1 DEF Marking
    <2>2. \A g \in Needed : Saved(g)' = Saved(g)
      BY <1>17, <2>1 DEF Saved
    <2> QED
      BY <1>7, <1>8, <1>9, <1>10, <1>11, <1>16, <1>17, <2>2 DEF RedisRight
  <1>24. StopRight'
    BY <1>1, <1>7, <1>11, <1>13, <1>15 DEF StopRight
  <1> QED
    BY <1>12, <1>18, <1>19, <1>20, <1>21, <1>22, <1>23, <1>24
(* reset_txn_slots of the one slot: the lots that were closed leave it.    *)
LEMMA SlotReset ==
    ASSUME NEW s \in [1..1 -> Slots], NEW n \in Nat, n <= s[1].open
    PROVE  LET r == ResetTxnSlots(s, n)
           IN  /\ r \in [1..1 -> Slots] /\ r[1].open = s[1].open - n
               /\ r[1].opening = s[1].opening /\ r[1].capacity = s[1].capacity
  <1>1. s \in Seq(Slots) /\ Len(s) = 1 /\ DOMAIN s = 1..1
    <2>1. s \in Seq(Slots)
      BY SeqDef
    <2>2. s \in [1..Len(s) -> Slots] /\ Len(s) \in Nat
      BY <2>1, LenProperties
    <2>3. DOMAIN s = 1..1 /\ DOMAIN s = 1..Len(s)
      BY <2>2
    <2>4. 1 \in 1..Len(s) /\ (Len(s) >= 1 => Len(s) \in 1..1)
      BY <2>2, <2>3
    <2> QED
      BY <2>1, <2>2, <2>3, <2>4
  <1>2. OpenSum(SubSeq(s, 2, 1)) = 0
    <2>1. SubSeq(s, 2, 1) = <<>>
      BY <1>1
    <2>2. DOMAIN [i \in DOMAIN SubSeq(s, 2, 1) |-> SubSeq(s, 2, 1)[i].open] = {}
      BY <2>1
    <2> QED
      BY <2>2, SumOfNone DEF OpenSum, SumFunction
  <1> DEFINE x == s[1]
             y == [x EXCEPT !.open = x.open - Clip(n - OpenSum(SubSeq(s, 1 + 1, Len(s))), x.open)]
             r == ResetTxnSlots(s, n)
  <1>3. Clip(n - OpenSum(SubSeq(s, 1 + 1, Len(s))), x.open) = n
    <2>1. SubSeq(s, 1 + 1, Len(s)) = SubSeq(s, 2, 1)
      BY <1>1
    <2>2. x.open \in Int
      BY DEF Slots
    <2> DEFINE rest == OpenSum(SubSeq(s, 1 + 1, Len(s)))
    <2>0. rest = 0
      BY <1>2, <2>1
    <2> HIDE DEF rest
    <2>3. n - rest = n
      BY <2>0
    <2>4. n <= x.open
      OBVIOUS
    <2> HIDE DEF x
    <2> QED
      BY <2>2, <2>3, <2>4 DEF Clip, Least, rest
  <1>4. y \in Slots /\ y.open = s[1].open - n /\ y.opening = s[1].opening /\ y.capacity = s[1].capacity
    <2>1. x \in Slots /\ x.open - n \in Int
      BY DEF Slots
    <2>2. y = [x EXCEPT !.open = x.open - n]
      BY <1>3
    <2> HIDE DEF x, y
    <2>3. y \in Slots /\ y.open = x.open - n /\ y.opening = x.opening /\ y.capacity = x.capacity
      BY <2>1, <2>2 DEF Slots
    <2> QED
      BY <2>3 DEF x
  <1>5. DOMAIN r = 1..1 /\ r[1] = y /\ r = [i \in 1..1 |-> r[i]]
    BY <1>1 DEF ResetTxnSlots
  <1> HIDE DEF r, y
  <1>6. r \in [1..1 -> Slots]
    BY <1>4, <1>5
  <1> QED
    BY <1>4, <1>5, <1>6 DEF r

(* A group with another number of its lots closed, and none being closed.  *)
LEMMA NoneClosing ==
    ASSUME NEW x \in Groups, NEW m \in Nat
    PROVE  LET y == [x EXCEPT !.close = m, !.closing = 0]
           IN  y \in Groups /\ SameOpened(x, y) /\ y.closing = 0 /\ y.close = m /\ y.filled = x.filled
  BY DEF Groups, SameOpened

(* The lots of a group that were booked as closed.                         *)
LEMMA OneClosed ==
    ASSUME NEW x \in Groups, NEW n \in Nat, n <= x.closing, x.closing <= Remain(x)
    PROVE  LET y == MoreClosed(x, n)
           IN  /\ y \in Groups /\ SameOpened(x, y) /\ y.closing = 0
               /\ Remain(y) = Remain(x) - n /\ Remain(y) >= 0
               /\ (y.filled = y.close) <=> (Remain(y) = 0)
  <1> DEFINE m == x.close + n
             y == [x EXCEPT !.close = m, !.closing = 0]
  <1>1. MoreClosed(x, n) = y
    BY DEF MoreClosed
  <1>2. m \in Nat /\ x.filled \in Nat /\ x.closing \in Nat /\ x.close \in Nat
    BY DEF Groups
  <1> HIDE DEF m
  <1>3. y \in Groups /\ SameOpened(x, y) /\ y.closing = 0 /\ y.close = m /\ y.filled = x.filled
    BY <1>2, NoneClosing
  <1> HIDE DEF y
  <1>4. Remain(y) = Remain(x) - n
    BY <1>2, <1>3 DEF Remain, m
  <1>5. n <= Remain(x) /\ Remain(x) \in Int
    BY <1>2 DEF Remain
  <1>6. y.filled = y.close <=> Remain(y) = 0
    BY <1>2, <1>3 DEF Remain
  <1> QED
    BY <1>1, <1>3, <1>4, <1>5, <1>6

(* The slots of a book written, and nothing else.                          *)
LEMMA SlotsWritten ==
    ASSUME NEW b \in Books, NEW slots \in [1..1 -> Slots]
    PROVE  LET c == [b EXCEPT !.slots = slots]
           IN  c \in Books /\ c.txn = b.txn /\ c.slots = slots /\ c.costs = b.costs /\ c.grp = b.grp
  BY DEF Books

(* The groups of a book written, and nothing else.                         *)
LEMMA GroupsWritten ==
    ASSUME NEW b \in Books, NEW grp \in [Keys -> Groups \cup {NoGroup}]
    PROVE  LET c == [b EXCEPT !.grp = grp]
           IN  c \in Books /\ c.txn = b.txn /\ c.slots = b.slots /\ c.costs = b.costs /\ c.grp = grp
  BY DEF Books

(* The book after the last trade of a close order,                         *)
ClosedBookOf(b, cg) ==
    [BookClosed(b, cg) EXCEPT
        !.costs = WithoutGroups(@, Emptied(BookClosed(b, cg), cg)),
        !.txn.closing = 0, !.txn.open = @ - cg.filled,
        !.slots = ResetTxnSlots(@, cg.filled)]

(* with n[g] lots of each group booked as closed.                          *)
BookedAs(b, cg, n, c, gone) ==
    /\ c \in Books /\ IsInjective(c.costs)
    /\ ToSet(c.costs) = ToSet(b.costs) \ gone /\ gone \subseteq ToSet(cg.groups)
    /\ c.txn.open = b.txn.open - cg.filled /\ c.txn.opening = b.txn.opening /\ c.txn.closing = 0
    /\ c.txn.lock = b.txn.lock /\ c.txn.lockable = b.txn.lockable /\ c.txn.status = b.txn.status
    /\ c.slots = ResetTxnSlots(b.slots, cg.filled)
    /\ \A g \in ToSet(cg.groups) :
          /\ c.grp[g] \in Groups /\ SameOpened(b.grp[g], c.grp[g]) /\ c.grp[g].closing = 0
          /\ Remain(c.grp[g]) = Remain(b.grp[g]) - n[g] /\ Remain(c.grp[g]) >= 0
          /\ g \in gone <=> Remain(c.grp[g]) = 0
    /\ \A g \in Keys : g \notin ToSet(cg.groups) => c.grp[g] = b.grp[g]

(* The lots booked are those that were filled.                             *)
LEMMA BookIsClosed ==
    ASSUME NEW b \in Books, NEW cg \in Closes, IsInjective(cg.groups), IsInjective(b.costs),
           \A g \in ToSet(cg.groups) : b.grp[g] \in Groups /\ b.grp[g].closing <= Remain(b.grp[g]),
           ResetTxnSlots(b.slots, cg.filled) \in [1..1 -> Slots],
           NEW c, c = ClosedBookOf(b, cg)
    PROVE  \E n \in [ToSet(cg.groups) -> Nat], gone \in SUBSET ToSet(cg.groups) :
              /\ BookedAs(b, cg, n, c, gone)
              /\ SumFunctionOnSet(n, ToSet(cg.groups)) = Least(cg.filled, ClosingIn(b.grp, ToSet(cg.groups)))
  <1>1. /\ cg.groups \in Seq(Keys) /\ cg.filled \in Nat
        /\ b.grp \in [Keys -> Groups \cup {NoGroup}] /\ "grp" \in DOMAIN b
    BY BookParts DEF Closes
  <1>2. PICK c1, booked, gone : c1 = BookClosed(b, cg) /\ booked = c1.grp /\ gone = Emptied(c1, cg)
    OBVIOUS
  <1>3. PICK n \in [ToSet(cg.groups) -> Nat] : LotsBooked(b, cg, n, booked)
    <2>1. \A g \in ToSet(cg.groups) : b.grp[g] \in Groups
      OBVIOUS
    <2> QED
      BY <1>1, <1>2, <2>1, ClosedLots
  <1>4. c1 = [b EXCEPT !.grp = booked]
    <2>1. \E f : BookClosed(b, cg) = [b EXCEPT !.grp = f]
      BY DEF BookClosed
    <2>2. PICK f : c1 = [b EXCEPT !.grp = f]
      BY <1>2, <2>1
    <2>3. c1.grp = f
      BY <1>1, <2>2
    <2> QED
      BY <1>2, <2>2, <2>3
  <1>5. c1 \in Books /\ c1.txn = b.txn /\ c1.slots = b.slots /\ c1.costs = b.costs /\ c1.grp = booked
    BY <1>3, <1>4, GroupsWritten DEF LotsBooked
  <1>6. PICK left : left = WithoutGroups(b.costs, gone)
    OBVIOUS
  <1>7. left \in Seq(Keys) /\ IsInjective(left) /\ ToSet(left) = ToSet(b.costs) \ gone
    <2>1. b.costs \in Seq(Keys)
      BY BookParts
    <2> QED
      BY <1>6, <2>1, Without
  <1> DEFINE open == c1.txn.open - cg.filled
             slots == ResetTxnSlots(c1.slots, cg.filled)
             d1 == [c1 EXCEPT !.costs = left]
             d2 == [d1 EXCEPT !.txn.closing = 0]
             d3 == [d2 EXCEPT !.txn.open = open]
  <1>8. c = [c1 EXCEPT !.costs = left, !.txn.closing = 0, !.txn.open = open, !.slots = slots]
    <2>1. left = WithoutGroups(c1.costs, gone)
      BY <1>5, <1>6
    <2> QED
      BY <1>2, <2>1 DEF ClosedBookOf
  <1>9. open \in Int /\ slots \in [1..1 -> Slots] /\ open = b.txn.open - cg.filled /\ slots = ResetTxnSlots(b.slots, cg.filled)
    BY <1>1, <1>5, BookParts
  <1> HIDE DEF open, slots
  <1>10. c = [d3 EXCEPT !.slots = slots]
    BY <1>8
  <1>11. d1 \in Books /\ d1.txn = c1.txn /\ d1.slots = c1.slots /\ d1.costs = left /\ d1.grp = c1.grp
    BY <1>5, <1>7, CostsWritten
  <1> HIDE DEF d1
  <1>12. /\ d2 \in Books /\ d2.slots = d1.slots /\ d2.costs = d1.costs /\ d2.grp = d1.grp
         /\ d2.txn.open = d1.txn.open /\ d2.txn.opening = d1.txn.opening /\ d2.txn.closing = 0
         /\ d2.txn.lock = d1.txn.lock /\ d2.txn.lockable = d1.txn.lockable /\ d2.txn.status = d1.txn.status
    BY <1>11, ClosingWritten
  <1> HIDE DEF d2
  <1>13. /\ d3 \in Books /\ d3.slots = d2.slots /\ d3.costs = d2.costs /\ d3.grp = d2.grp
         /\ d3.txn.open = open /\ d3.txn.opening = d2.txn.opening /\ d3.txn.closing = d2.txn.closing
         /\ d3.txn.lock = d2.txn.lock /\ d3.txn.lockable = d2.txn.lockable /\ d3.txn.status = d2.txn.status
    BY <1>9, <1>12, OpenWritten
  <1> HIDE DEF d3
  <1>14. /\ c \in Books /\ c.txn = d3.txn /\ c.slots = slots /\ c.costs = d3.costs /\ c.grp = d3.grp
    BY <1>9, <1>10, <1>13, SlotsWritten
  <1>17. /\ c \in Books /\ c.slots = slots /\ c.costs = left /\ c.grp = booked
         /\ c.txn.open = b.txn.open - cg.filled /\ c.txn.opening = b.txn.opening /\ c.txn.closing = 0
         /\ c.txn.lock = b.txn.lock /\ c.txn.lockable = b.txn.lockable /\ c.txn.status = b.txn.status
    BY <1>5, <1>9, <1>11, <1>12, <1>13, <1>14
  <1>18. gone \subseteq ToSet(cg.groups) /\ \A g \in ToSet(cg.groups) : g \in gone <=> booked[g].filled = booked[g].close
    BY <1>2 DEF Emptied
  <1>19. ASSUME NEW g \in ToSet(cg.groups)
         PROVE  /\ c.grp[g] \in Groups /\ SameOpened(b.grp[g], c.grp[g]) /\ c.grp[g].closing = 0
                /\ Remain(c.grp[g]) = Remain(b.grp[g]) - n[g] /\ Remain(c.grp[g]) >= 0
                /\ g \in gone <=> Remain(c.grp[g]) = 0
    <2>1. PICK x, y, m : x = b.grp[g] /\ y = booked[g] /\ m = n[g]
      OBVIOUS
    <2>2. x \in Groups /\ m \in Nat /\ m <= x.closing /\ x.closing <= Remain(x)
      BY <1>3, <2>1 DEF LotsBooked
    <2>3. y = MoreClosed(x, m)
      BY <1>3, <2>1 DEF LotsBooked
    <2>4. /\ y \in Groups /\ SameOpened(x, y) /\ y.closing = 0
          /\ Remain(y) = Remain(x) - m /\ Remain(y) >= 0
          /\ (y.filled = y.close) <=> (Remain(y) = 0)
      BY <2>2, <2>3, OneClosed
    <2> QED
      BY <1>17, <1>18, <2>1, <2>4
  <1>20. BookedAs(b, cg, n, c, gone)
    BY <1>3, <1>7, <1>9, <1>17, <1>18, <1>19 DEF BookedAs, LotsBooked
  <1> QED
    BY <1>3, <1>18, <1>20 DEF LotsBooked
(* post_close after the trade of one of two close orders.                  *)
LEMMA FirstPartKeeps ==
    ASSUME Core, Calm', NEW o \in flight, OnTrade(o), o.kind = "close", cgs[o.key].frag = "RCV_ONE"
    PROVE  Core'
  <1>1. /\ state = "up" /\ ~o.news /\ UNCHANGED <<pc, held, state, odd>>
        /\ o \in Orders /\ OrderRight(o) /\ o.result > 0 /\ ~Noting(o)
        /\ flight' = flight \ {o} /\ Unheard(o) = 0 /\ PostCloseAfterTrade(o)
    BY TradeComes
  <1>2. /\ o \in Sells /\ o.key \in CloseKeys /\ CloseNoted(o.key)
        /\ pc.kind # "close" /\ book.txn.closing = cgs[o.key].quantity
        /\ cgs[o.key] \in Closes /\ \A p \in Sells : p.key = o.key
        /\ \A l \in CloseKeys : l # o.key => cgs[l] = NoGroup
        /\ cgs \in [CloseKeys -> Closes \cup {NoGroup}]
    BY <1>1, SellNoted
  <1>3. PICK k, cg : k = o.key /\ cg = cgs[o.key]
    OBVIOUS
  <1>4. Handled(book, db, cgs)
    BY <1>1 DEF PostCloseAfterTrade
  <1>5. Parts(cg) /\ Marked(k, cg) /\ Account(cg.filled) /\ cg \in Closes /\ cg.frag = "RCV_ONE"
    BY <1>2, <1>3 DEF CloseNoted
  <1>6. /\ OrdersRight' /\ flight' \subseteq Orders /\ IsFiniteSet(flight')
        /\ UnheardIn(flight') = UnheardIn(flight) - Unheard(o)
        /\ UnheardIn(flight) \in Int /\ Unheard(o) \in Int
    BY <1>1, OrderGone
  <1>7. Opens' = Opens /\ Sells' = Sells \ {o}
    BY <1>1, <1>2 DEF Opens, Sells
  <1>8. Parts(cg)' /\ Sells' # {} /\ \A p \in Sells' : p.key = k
    <2>1. PICK s \in Sells : /\ s.news /\ s.quantity + cg.filled <= cg.quantity
                             /\ s.result = 0 => cg.filled = 0
                             /\ \/ Sells = {s}
                                \/ \E p \in Sells : Sells = {s, p} /\ ~p.news /\ cg.filled = p.result
      BY <1>5 DEF Parts, SecondNew
    <2>2. s # o /\ Sells' = {s}
      BY <1>1, <1>2, <1>7, <2>1
    <2>3. SecondNew(cg)'
      BY <2>1, <2>2 DEF SecondNew
    <2> QED
      BY <1>2, <1>3, <1>5, <2>2, <2>3 DEF Parts
  <1>9. book \in Books /\ db \in Books
    BY DEF Core, Types
  <1>10. /\ cgs' = Kept(cgs, flight')
         /\ book' \in Books /\ book'.txn = book.txn /\ book'.slots = book.slots /\ book'.costs = book.costs
         /\ \A g \in Keys : g \in Listed => book'.grp[g] = book.grp[g]
    BY <1>4, <1>9, HandledBook DEF Listed
  <1>11. /\ cgs' \in [CloseKeys -> Closes \cup {NoGroup}]
         /\ cgs'[k] = cg /\ \A l \in CloseKeys : l # k => cgs'[l] = NoGroup
    <2>1. PICK closed, kept : closed = cgs /\ kept = cgs'
      OBVIOUS
    <2>2. cg \in Closes /\ (\A l \in CloseKeys : closed[l] = IF l = k THEN cg ELSE NoGroup)
          /\ k \in CloseKeys /\ kept = Kept(closed, flight') /\ \A p \in Sells' : p.key = k
      BY <1>2, <1>3, <1>5, <1>8, <1>10, <2>1
    <2>3. /\ kept \in [CloseKeys -> Closes \cup {NoGroup}] /\ kept[k] = (IF Sells' = {} THEN NoGroup ELSE cg)
          /\ \A l \in CloseKeys : l # k => kept[l] = NoGroup
      BY <2>2, KeptOne
    <2> QED
      BY <1>8, <2>1, <2>3
  <1>12. CloseRight'
    <2>1. Listed' = Listed /\ Level' = Level /\ \A g \in Listed : book'.grp[g].closing = book.grp[g].closing
      BY <1>10, FewGroups DEF Listed, Level
    <2>2. Marked(k, cg)'
      <3>1. ToSet(cg.groups) \subseteq Listed
        BY <1>5 DEF Marked
      <3>2. IsFiniteSet(ToSet(cg.groups)) /\ \A g \in ToSet(cg.groups) : book'.grp[g].closing = book.grp[g].closing
        BY <2>1, <3>1, FewGroups, FS_Subset
      <3>3. ClosingIn(book'.grp, ToSet(cg.groups)) = ClosingIn(book.grp, ToSet(cg.groups))
        BY <3>2, SameClosing
      <3> QED
        BY <1>5, <1>8, <2>1, <3>3 DEF Marked
    <2>3. Account(cg.filled)'
      BY <1>1, <1>5, <1>6, <2>1 DEF Account
    <2>4. cg # NoGroup
      BY <1>5 DEF Closes, NoGroup
    <2>5. CloseNoted(k)'
      BY <1>1, <1>2, <1>3, <1>8, <1>10, <1>11, <2>2, <2>3, <2>4 DEF CloseNoted
    <2> QED
      BY <1>2, <1>3, <2>5 DEF CloseRight
  <1>13. /\ db.slots = book.slots /\ db.costs = book.costs /\ SameCounters(db.txn, book.txn)
         /\ db.txn.status \in {"STOP", "EXIT"} => book.txn.status = db.txn.status
         /\ \A g \in Needed : db.grp[g] = book.grp[g]
    BY <1>2 DEF Core, RedisRight, Saved, Marking
  <1> QED
    BY <1>1, <1>2, <1>4, <1>6, <1>7, <1>9, <1>11, <1>12, <1>13, SellFramed

(* The lots that were marked are in the slot.                              *)
LEMMA MarkedLots ==
    ASSUME Core, NEW k, NEW cg, Marked(k, cg)
    PROVE  cg.quantity <= Level /\ cg.quantity \in Int
  <1> DEFINE G == ToSet(cg.groups)
             f == [g \in G |-> book.grp[g].closing]
             h == [g \in Holding |-> Remain(book.grp[g])]
             r == [g \in G |-> Remain(book.grp[g])]
  <1>1. G \subseteq Holding /\ IsFiniteSet(G) /\ IsFiniteSet(Holding)
    BY FewGroups, FS_Subset DEF Marked
  <1>2. \A g \in Holding : Remain(book.grp[g]) \in Nat /\ book.grp[g].closing \in Nat
                           /\ book.grp[g].closing <= Remain(book.grp[g])
    <2> TAKE g \in Holding
    <2>1. book.grp[g] \in Groups /\ Remain(book.grp[g]) > 0 /\ book.grp[g].closing <= Remain(book.grp[g])
      BY DEF Core, LotsRight
    <2> QED
      BY <2>1 DEF Groups, Remain
  <1>3. SumFunctionOnSet(f, G) = cg.quantity /\ SumFunctionOnSet(h, Holding) = Level
    BY DEF Marked, ClosingIn, Core, LotsRight, LotsIn, SumFunction
  <1>4. /\ \A g \in Holding : h[g] \in Nat
        /\ \A g \in G : f[g] \in Nat /\ r[g] = h[g] /\ f[g] <= r[g] /\ r[g] \in Nat
    BY <1>1, <1>2
  <1> DEFINE e == [g \in G |-> r[g] - f[g]]
  <1>5. \A g \in G : r[g] \in Int /\ f[g] \in Int /\ e[g] = r[g] - f[g] /\ e[g] \in Nat
    <2> TAKE g \in G
    <2>1. e[g] = r[g] - f[g]
      OBVIOUS
    <2>2. f[g] \in Nat /\ r[g] \in Nat /\ f[g] <= r[g]
      BY <1>4
    <2> HIDE DEF r, f, e, h, G
    <2> QED
      BY <2>1, <2>2
  <1> HIDE DEF f, h, r, e, G
  <1>6. SumFunctionOnSet(e, G) = SumFunctionOnSet(r, G) - SumFunctionOnSet(f, G)
    BY <1>1, <1>5, SumOfDifference
  <1>7. SumFunctionOnSet(e, G) \in Nat
    BY <1>1, <1>5, SumIsNat
  <1>8. SumFunctionOnSet(r, G) = SumFunctionOnSet(h, G)
    BY <1>1, <1>4, SameSum
  <1>9. SumFunctionOnSet(h, G) <= SumFunctionOnSet(h, Holding)
    BY <1>1, <1>4, SumOfSubset
  <1>10. SumFunctionOnSet(f, G) \in Int /\ SumFunctionOnSet(r, G) \in Int /\ SumFunctionOnSet(h, Holding) \in Int
    <2>1. (\A g \in G : f[g] \in Int /\ r[g] \in Int) /\ \A g \in Holding : h[g] \in Int
      BY <1>4
    <2> QED
      BY <1>1, <2>1, SumIsInt
  <1> QED
    BY <1>3, <1>6, <1>7, <1>8, <1>9, <1>10
(* What redis is given when lots were closed: the groups of the order, the *)
(* costs and the slots, and the counters.                                  *)
ClosedSave(d, b, cg) == [SaveQuantity(SaveTxn(d, b), b, cg) EXCEPT !.costs = b.costs, !.slots = b.slots]

(* It is what memory has of them.                                          *)
LEMMA ClosedSaved ==
    ASSUME NEW d \in Books, NEW b \in Books, NEW cg,
           d.txn.lock = b.txn.lock, d.txn.lockable = b.txn.lockable,
           \A g \in ToSet(cg.groups) :
              d.grp[g] \in Groups /\ b.grp[g] \in Groups /\ SameOpened(d.grp[g], b.grp[g]),
           NEW e, e = ClosedSave(d, b, cg)
    PROVE  /\ e \in Books /\ e.slots = b.slots /\ e.costs = b.costs
           /\ SameCounters(e.txn, b.txn) /\ e.txn.status = b.txn.status
           /\ \A g \in Keys : g \in ToSet(cg.groups) => e.grp[g] = b.grp[g]
           /\ \A g \in Keys : g \notin ToSet(cg.groups) => e.grp[g] = d.grp[g]
  <1>1. PICK s, q, c, costs, slots :
           /\ s = SaveTxn(d, b) /\ q = SaveQuantity(s, b, cg) /\ costs = b.costs /\ slots = b.slots
           /\ c = [q EXCEPT !.costs = costs]
    OBVIOUS
  <1>2. e = [c EXCEPT !.slots = slots]
    BY <1>1 DEF ClosedSave
  <1>3. /\ s \in Books /\ s.slots = d.slots /\ s.costs = d.costs /\ s.grp = d.grp
        /\ s.txn.status = b.txn.status /\ SameCounters(s.txn, b.txn)
    BY <1>1, SavedTxn DEF SameCounters
  <1>4. /\ q \in Books /\ q.txn = s.txn
        /\ \A g \in Keys : g \in ToSet(cg.groups) => q.grp[g] = b.grp[g]
        /\ \A g \in Keys : g \notin ToSet(cg.groups) => q.grp[g] = s.grp[g]
    <2>1. PICK x, y, z : x = s /\ y = b /\ z = cg
      OBVIOUS
    <2>2. x \in Books /\ y \in Books
          /\ \A g \in ToSet(z.groups) : x.grp[g] \in Groups /\ y.grp[g] \in Groups /\ SameOpened(x.grp[g], y.grp[g])
      BY <1>3, <2>1
    <2>3. LET f == SaveQuantity(x, y, z)
          IN  /\ f \in Books /\ f.txn = x.txn /\ f.slots = x.slots /\ f.costs = x.costs
              /\ \A g \in Keys : g \in ToSet(z.groups) => f.grp[g] = y.grp[g]
              /\ \A g \in Keys : g \notin ToSet(z.groups) => f.grp[g] = x.grp[g]
      BY ONLY <2>2, QuantitySaved
    <2> QED
      BY <1>1, <2>1, <2>3
  <1>5. costs \in Seq(Keys) /\ slots \in [1..1 -> Slots]
    BY <1>1, BookParts
  <1>6. c \in Books /\ c.txn = q.txn /\ c.costs = costs /\ c.grp = q.grp
    BY <1>1, <1>4, <1>5, CostsWritten
  <1>7. e \in Books /\ e.txn = c.txn /\ e.slots = slots /\ e.costs = c.costs /\ e.grp = c.grp
    BY ONLY <1>2, <1>5, <1>6, SlotsWritten
  <1> QED
    BY <1>1, <1>3, <1>4, <1>6, <1>7

(* The trade that ends a close order.                                      *)
LEMMA LastPartOf ==
    ASSUME NEW o \in Sells, ~o.news, OrderRight(o), o \in Orders, NEW cg, Parts(cg), cg.frag # "RCV_ONE"
    PROVE  Sells = {o} /\ cg.filled \in 1..cg.quantity
  <1>1. CASE OneNew(cg)
    BY <1>1 DEF OneNew
  <1>2. CASE BothNew(cg)
    BY <1>2 DEF BothNew
  <1>3. CASE OneHeard(cg)
    <2>1. Sells = {o} /\ o.quantity = cg.quantity /\ cg.filled = o.result
      BY <1>3 DEF OneHeard
    <2>2. o.result > 0 /\ o.result \in -1..o.quantity /\ o.quantity \in Nat
      BY DEF OrderRight, Orders
    <2> QED
      BY <2>1, <2>2
  <1>4. CASE SecondHeard(cg)
    BY <1>4 DEF SecondHeard
  <1> QED
    BY <1>1, <1>2, <1>3, <1>4 DEF Parts
(* post_close_after_trade of the last part: the lots leave the groups, the *)
(* slot, the counters and the account's side of the book alike.            *)
LEMMA LastPartKeeps ==
    ASSUME Core, Calm', NEW o \in flight, OnTrade(o), o.kind = "close", cgs[o.key].frag # "RCV_ONE"
    PROVE  Core'
  <1>1. /\ state = "up" /\ ~o.news /\ UNCHANGED <<pc, held, state, odd>>
        /\ o \in Orders /\ OrderRight(o) /\ o.result > 0 /\ ~Noting(o)
        /\ flight' = flight \ {o} /\ Unheard(o) = 0 /\ PostCloseAfterTrade(o)
    BY TradeComes
  <1>2. /\ o \in Sells /\ o.key \in CloseKeys /\ CloseNoted(o.key)
        /\ pc.kind # "close" /\ book.txn.closing = cgs[o.key].quantity
        /\ cgs[o.key] \in Closes /\ \A p \in Sells : p.key = o.key
        /\ \A l \in CloseKeys : l # o.key => cgs[l] = NoGroup
        /\ cgs \in [CloseKeys -> Closes \cup {NoGroup}]
    BY <1>1, SellNoted
  <1>3. PICK k, cg : k = o.key /\ cg = cgs[o.key]
    OBVIOUS
  <1>4. Parts(cg) /\ Marked(k, cg) /\ Account(cg.filled) /\ cg \in Closes /\ cg.frag # "RCV_ONE"
    BY <1>2, <1>3 DEF CloseNoted
  <1>5. Sells = {o} /\ cg.filled \in 1..cg.quantity
    BY <1>1, <1>2, <1>4, LastPartOf
  <1>6. /\ OrdersRight' /\ flight' \subseteq Orders /\ IsFiniteSet(flight')
        /\ UnheardIn(flight') = UnheardIn(flight) - Unheard(o)
        /\ UnheardIn(flight) \in Int /\ Unheard(o) \in Int
    BY <1>1, OrderGone
  <1>7. Opens' = Opens /\ Fresh' = Fresh /\ Sells' = {}
    <2>1. Opens' = Opens /\ Sells' = Sells \ {o}
      BY <1>1, <1>2 DEF Opens, Sells
    <2> QED
      BY <1>5, <2>1 DEF Fresh
  <1>8. book \in Books /\ db \in Books
    BY DEF Core, Types
  <1>9. cg.quantity <= Level /\ cg.quantity \in Int /\ cg.filled \in Nat /\ cg.filled > 0
        /\ cg.filled <= Level /\ Level \in Int
    <2>1. cg.quantity <= Level /\ cg.quantity \in Int
      BY <1>4, MarkedLots
    <2>2. Level \in Int
      BY <1>8, BookParts DEF Level
    <2> QED
      BY <1>5, <2>1, <2>2
  <1>10. PICK slots : /\ slots = ResetTxnSlots(book.slots, cg.filled) /\ slots \in [1..1 -> Slots]
                      /\ slots[1].open = Level - cg.filled /\ slots[1].opening = book.slots[1].opening
                      /\ slots[1].capacity = book.slots[1].capacity
    <2>1. PICK s, n : s = book.slots /\ n = cg.filled
      OBVIOUS
    <2>2. s \in [1..1 -> Slots] /\ n \in Nat /\ n <= s[1].open
      BY <1>8, <1>9, <2>1, BookParts DEF Level
    <2>3. LET r == ResetTxnSlots(s, n)
          IN  /\ r \in [1..1 -> Slots] /\ r[1].open = s[1].open - n
              /\ r[1].opening = s[1].opening /\ r[1].capacity = s[1].capacity
      BY <2>2, SlotReset
    <2> QED
      BY <2>1, <2>3 DEF Level
  <1>11. /\ ToSet(cg.groups) \subseteq Listed /\ IsInjective(cg.groups) /\ IsInjective(book.costs)
         /\ \A g \in ToSet(cg.groups) : /\ book.grp[g] \in Groups /\ g \in Keys
                                        /\ book.grp[g].closing <= Remain(book.grp[g])
         /\ ClosingIn(book.grp, ToSet(cg.groups)) = cg.quantity
    BY <1>4, FewGroups DEF Marked, Core, LotsRight
  <1>12. PICK b : b = ClosedBook(o) /\ b = ClosedBookOf(book, cg)
    BY <1>3 DEF ClosedBook, ClosedBookOf
  <1>13. PICK n \in [ToSet(cg.groups) -> Nat], gone \in SUBSET ToSet(cg.groups) :
            BookedAs(book, cg, n, b, gone) /\ SumFunctionOnSet(n, ToSet(cg.groups)) = cg.filled
    <2>1. PICK x : x = book
      OBVIOUS
    <2>2. /\ x \in Books /\ cg \in Closes /\ IsInjective(cg.groups) /\ IsInjective(x.costs)
          /\ \A g \in ToSet(cg.groups) : x.grp[g] \in Groups /\ x.grp[g].closing <= Remain(x.grp[g])
          /\ ResetTxnSlots(x.slots, cg.filled) \in [1..1 -> Slots] /\ b = ClosedBookOf(x, cg)
      BY <1>4, <1>8, <1>10, <1>11, <1>12, <2>1
    <2>3. PICK m \in [ToSet(cg.groups) -> Nat], left \in SUBSET ToSet(cg.groups) :
            /\ BookedAs(x, cg, m, b, left)
            /\ SumFunctionOnSet(m, ToSet(cg.groups)) = Least(cg.filled, ClosingIn(x.grp, ToSet(cg.groups)))
      BY <2>2, BookIsClosed
    <2>4. Least(cg.filled, ClosingIn(x.grp, ToSet(cg.groups))) = cg.filled
      BY <1>5, <1>11, <2>1 DEF Least
    <2> QED
      BY <2>1, <2>3, <2>4
  <1>14. PICK d : /\ d = ClosedSave(db, b, cg)
                  /\ Handled(b, d, cgs)
    BY <1>1, <1>3, <1>4, <1>12 DEF PostCloseAfterTrade, ClosedSave
  <1>15. /\ b \in Books /\ IsInjective(b.costs) /\ ToSet(b.costs) = Listed \ gone
         /\ b.txn.open = book.txn.open - cg.filled /\ b.txn.opening = book.txn.opening /\ b.txn.closing = 0
         /\ b.txn.lock = book.txn.lock /\ b.txn.lockable = book.txn.lockable
         /\ b.txn.status = book.txn.status /\ b.slots = slots
    BY <1>10, <1>13 DEF BookedAs, Listed
  <1>16. /\ \A g \in ToSet(cg.groups) :
               /\ b.grp[g] \in Groups /\ SameOpened(book.grp[g], b.grp[g]) /\ b.grp[g].closing = 0
               /\ Remain(b.grp[g]) = Remain(book.grp[g]) - n[g] /\ Remain(b.grp[g]) >= 0
               /\ g \in gone <=> Remain(b.grp[g]) = 0
         /\ \A g \in Keys : g \notin ToSet(cg.groups) => b.grp[g] = book.grp[g]
    BY <1>13 DEF BookedAs
  <1>17. /\ db.slots = book.slots /\ db.costs = book.costs /\ SameCounters(db.txn, book.txn)
         /\ \A g \in Needed : db.grp[g] = book.grp[g]
    BY <1>2 DEF Core, RedisRight, Saved, Marking
  <1>18. /\ d \in Books /\ d.slots = b.slots /\ d.costs = b.costs
         /\ SameCounters(d.txn, b.txn) /\ d.txn.status = b.txn.status
         /\ \A g \in Keys : g \in ToSet(cg.groups) => d.grp[g] = b.grp[g]
         /\ \A g \in Keys : g \notin ToSet(cg.groups) => d.grp[g] = db.grp[g]
    <2>1. ToSet(cg.groups) \subseteq Needed
      BY <1>11 DEF Needed
    <2>2. PICK x : x = db
      OBVIOUS
    <2>3. /\ x \in Books /\ b \in Books /\ x.txn.lock = b.txn.lock /\ x.txn.lockable = b.txn.lockable
          /\ d = ClosedSave(x, b, cg)
          /\ \A g \in ToSet(cg.groups) :
                x.grp[g] \in Groups /\ b.grp[g] \in Groups /\ SameOpened(x.grp[g], b.grp[g])
      BY <1>8, <1>11, <1>14, <1>15, <1>16, <1>17, <2>1, <2>2 DEF SameCounters
    <2>4. /\ d \in Books /\ d.slots = b.slots /\ d.costs = b.costs
          /\ SameCounters(d.txn, b.txn) /\ d.txn.status = b.txn.status
          /\ \A g \in Keys : g \in ToSet(cg.groups) => d.grp[g] = b.grp[g]
          /\ \A g \in Keys : g \notin ToSet(cg.groups) => d.grp[g] = x.grp[g]
      BY <2>3, ClosedSaved
    <2> QED
      BY <2>2, <2>4
  <1>19. /\ cgs' = Kept(cgs, flight')
         /\ book' \in Books /\ book'.txn = b.txn /\ book'.slots = b.slots /\ book'.costs = b.costs
         /\ db' \in Books /\ db'.txn = d.txn /\ db'.slots = d.slots /\ db'.costs = d.costs
         /\ \A g \in Keys : g \in ToSet(b.costs) \/ (\E p \in Opens' : p.key = g)
                               => book'.grp[g] = b.grp[g] /\ db'.grp[g] = d.grp[g]
    BY <1>14, <1>15, <1>18, HandledBook
  <1>20. cgs' \in [CloseKeys -> Closes \cup {NoGroup}] /\ \A l \in CloseKeys : cgs'[l] = NoGroup
    <2>1. PICK closed, kept : closed = cgs /\ kept = cgs'
      OBVIOUS
    <2>2. cg \in Closes /\ (\A l \in CloseKeys : closed[l] = IF l = k THEN cg ELSE NoGroup)
          /\ k \in CloseKeys /\ kept = Kept(closed, flight') /\ \A p \in Sells' : p.key = k
      BY <1>2, <1>3, <1>4, <1>7, <1>19, <2>1
    <2>3. /\ kept \in [CloseKeys -> Closes \cup {NoGroup}] /\ kept[k] = (IF Sells' = {} THEN NoGroup ELSE cg)
          /\ \A l \in CloseKeys : l # k => kept[l] = NoGroup
      BY <2>2, KeptOne
    <2> QED
      BY <1>7, <2>1, <2>3
  <1>21. /\ Listed' = Listed \ gone /\ Level' = Level - cg.filled /\ \A p : Noted(p)' = Noted(p)
         /\ gone \subseteq Listed
    BY <1>1, <1>10, <1>11, <1>15, <1>19 DEF Level, Listed, Noted
  <1> USE DEF Core
  <1>22. \A p \in Opens : p.key \in Keys /\ p.key \notin Listed
    BY DEF Opens, OrdersRight, OrderRight, GroupsRight
  <1>23. Holding' = Holding \ gone /\ Needed' = Needed \ gone
    <2>1. \A p \in Opens : p.key \notin gone
      BY <1>21, <1>22
    <2>2. Opens \ Fresh \subseteq Opens
      OBVIOUS
    <2> QED
      BY <1>7, <1>21, <2>1 DEF Holding, Needed
  <1>24. \A g \in Holding' \cup Needed' : g \in Keys /\ book'.grp[g] = b.grp[g] /\ db'.grp[g] = d.grp[g]
    <2>1. \A g \in Holding' \cup Needed' : g \in Listed' \/ \E p \in Opens' : p.key = g
      BY DEF Holding, Needed
    <2>2. \A g \in Listed' : g \in ToSet(b.costs)
      BY <1>19 DEF Listed
    <2>3. \A g \in Holding \cup Needed : g \in Keys
      BY <1>22, FewGroups DEF Needed
    <2> QED
      BY <1>19, <1>23, <2>1, <2>2, <2>3
  <1>25. Types'
    BY <1>1, <1>6, <1>19, <1>20 DEF Types, PcRight
  <1>26. OpenRight'
    <2>1. book'.txn.opening = book.txn.opening /\ book'.slots[1].opening = book.slots[1].opening
          /\ book'.slots[1].capacity = book.slots[1].capacity
      BY <1>10, <1>15, <1>19
    <2>2. ASSUME NEW p \in Fresh PROVE Level' + p.quantity <= Slot
      <3>1. p.quantity \in Nat /\ Slot \in Nat /\ Level + p.quantity <= Slot
        BY TimeLineAssumption DEF Fresh, Opens, Types, Orders, OpenRight
      <3> QED
        BY <1>9, <1>21, <3>1
    <2> QED
      BY <1>1, <1>7, <2>1, <2>2 DEF OpenRight
  <1>27. GroupsRight'
    <2>1. \A p \in Opens' : p \in Opens /\ p.key \notin gone /\ p.key \notin ToSet(cg.groups)
      BY <1>7, <1>11, <1>21, <1>22
    <2>2. \A p \in Opens' : book'.grp[p.key] = book.grp[p.key]
      BY <1>16, <1>19, <1>22, <2>1
    <2> QED
      BY <1>7, <1>21, <2>1, <2>2 DEF GroupsRight
  <1>28. LotsRight'
    <2>1. ASSUME NEW g \in Holding'
          PROVE  /\ book'.grp[g] \in Groups /\ Remain(book'.grp[g]) > 0
                 /\ book'.grp[g].closing <= Remain(book'.grp[g])
      <3>1. /\ g \in Holding /\ g \notin gone /\ g \in Keys /\ book'.grp[g] = b.grp[g]
            /\ book.grp[g] \in Groups /\ Remain(book.grp[g]) > 0 /\ book.grp[g].closing <= Remain(book.grp[g])
        BY <1>23, <1>24 DEF LotsRight
      <3>2. CASE g \in ToSet(cg.groups)
        <4>1. /\ b.grp[g] \in Groups /\ Remain(b.grp[g]) >= 0 /\ b.grp[g].closing = 0
              /\ Remain(b.grp[g]) # 0 /\ Remain(b.grp[g]) \in Int
          BY <1>16, <3>1, <3>2 DEF Remain, Groups
        <4> QED
          BY <3>1, <4>1
      <3>3. CASE g \notin ToSet(cg.groups)
        BY <1>16, <3>1, <3>3
      <3> QED
        BY <3>2, <3>3
    <2>2. LotsIn(b.grp, Holding \ gone) = LotsIn(book.grp, Holding) - SumFunctionOnSet(n, ToSet(cg.groups))
      <3>1. PICK S, G, x, y : S = Holding /\ G = ToSet(cg.groups) /\ x = book.grp /\ y = b.grp
        OBVIOUS
      <3>2. /\ IsFiniteSet(S) /\ G \in SUBSET S /\ n \in [G -> Nat] /\ gone \in SUBSET G
            /\ \A g \in S : x[g] \in Groups
        BY <1>11, <3>1, FewGroups DEF LotsRight
      <3>3. /\ \A g \in G : Remain(y[g]) = Remain(x[g]) - n[g]
            /\ \A g \in S \ G : Remain(y[g]) = Remain(x[g])
            /\ \A g \in gone : Remain(y[g]) = 0
        BY <1>16, <3>1, FewGroups
      <3>4. LotsIn(y, S \ gone) = LotsIn(x, S) - SumFunctionOnSet(n, G)
        <4>1. LeftBy(S, G, x, y, n, gone)
          BY <3>2, <3>3 DEF LeftBy
        <4> QED
          BY <3>2, <4>1, LotsLeft
      <3> QED
        BY <3>1, <3>4
    <2>3. LotsIn(book'.grp, Holding') = LotsIn(b.grp, Holding')
      <3>1. PICK S, x, y : S = Holding' /\ x = b.grp /\ y = book'.grp
        OBVIOUS
      <3>2. IsFiniteSet(S) /\ \A g \in S : Remain(y[g]) = Remain(x[g])
        BY <1>23, <1>24, <3>1, FewGroups, FS_Subset
      <3>3. LotsIn(y, S) = LotsIn(x, S)
        BY <3>2, SameLots
      <3> QED
        BY <3>1, <3>3
    <2>4. Level' = LotsIn(book'.grp, Holding')
      <3>1. Level = LotsIn(book.grp, Holding)
        BY DEF LotsRight
      <3>2. LotsIn(book'.grp, Holding') = Level - cg.filled
        BY <1>13, <1>23, <2>2, <2>3, <3>1
      <3> QED
        BY <1>21, <3>2
    <2>5. book'.txn.open = Level' /\ Level' <= Slot
      <3>1. book.txn.open = Level /\ Level <= Slot /\ Slot \in Nat
        BY TimeLineAssumption DEF LotsRight
      <3> QED
        BY <1>9, <1>15, <1>19, <1>21, <3>1
    <2>6. LotsIn(book.grp, Holding)' = LotsIn(book'.grp, Holding')
      BY DEF LotsIn
    <2> QED
      BY <1>15, <1>19, <2>1, <2>4, <2>5, <2>6 DEF LotsRight
  <1>29. CloseRight'
    <2>1. ASSUME NEW g \in Listed' PROVE book'.grp[g].closing = 0
      <3>1. g \in Listed /\ g \in Keys /\ book'.grp[g] = b.grp[g]
        BY <1>21, <1>24, FewGroups DEF Holding
      <3>2. g \notin ToSet(cg.groups) => book.grp[g].closing = 0
        BY <1>4, <3>1 DEF Marked
      <3> QED
        BY <1>16, <3>1, <3>2
    <2>2. Account(0)'
      <3>1. held = Level - cg.filled + UnheardIn(flight)
        BY <1>4 DEF Account
      <3>2. held' = Level' - 0 + UnheardIn(flight')
        BY <1>1, <1>6, <1>9, <1>21, <3>1
      <3> QED
        BY <3>2 DEF Account, UnheardIn
    <2> QED
      BY <1>1, <1>2, <1>7, <1>15, <1>19, <1>20, <2>1, <2>2 DEF CloseRight, NoClosing
  <1>30. RedisRight'
    <2>1. \A g : Saved(g)' = book'.grp[g]
      BY <1>1, <1>2 DEF Saved, Marking
    <2>2. ASSUME NEW g \in Needed' PROVE db'.grp[g] = book'.grp[g]
      <3>1. g \in Needed /\ g \in Keys /\ book'.grp[g] = b.grp[g] /\ db'.grp[g] = d.grp[g]
        BY <1>23, <1>24
      <3> QED
        BY <1>16, <1>17, <1>18, <3>1
    <2> QED
      BY <1>18, <1>19, <2>1, <2>2 DEF RedisRight
  <1>31. StopRight'
    <2>1. ~ (book.txn.status = "EXIT" /\ "limit_open" \notin odd)
      BY <1>9 DEF StopRight
    <2> QED
      BY <1>1, <1>7, <1>15, <1>19, <2>1 DEF StopRight
  <1> QED
    BY <1>6, <1>25, <1>26, <1>27, <1>28, <1>29, <1>30, <1>31

(* on_trade.                                                               *)
LEMMA OnTradeKeeps ==
    ASSUME Core, Calm', NEW o \in flight, OnTrade(o)
    PROVE  Core'
  <1>1. o.kind \in {"open", "close"}
    BY DEF Core, Types, Orders
  <1> QED
    BY <1>1, PostOpenAfterTradeKeeps, FirstPartKeeps, LastPartKeeps

(* The book when the price may be at its limit.                            *)
Stopped(b, limit) == [b EXCEPT !.txn.status = IF limit THEN "STOP" ELSE @]

(* Only the status differs.                                                *)
LEMMA StoppedBook ==
    ASSUME NEW b \in Books, NEW limit \in BOOLEAN
    PROVE  LET c == Stopped(b, limit)
           IN  /\ c \in Books /\ c.slots = b.slots /\ c.costs = b.costs /\ c.grp = b.grp
               /\ SameCounters(c.txn, b.txn)
               /\ c.txn.status = (IF limit THEN "STOP" ELSE b.txn.status)
  <1>1. PICK s, t : /\ s = (IF limit THEN "STOP" ELSE b.txn.status)
                    /\ t = [b.txn EXCEPT !.status = s]
    OBVIOUS
  <1>2. s \in Status /\ b.txn \in Txns
    BY <1>1, BookParts DEF Status
  <1>3. t \in Txns /\ SameCounters(t, b.txn) /\ t.status = s
    BY <1>1, <1>2 DEF Txns, SameCounters
  <1>4. Stopped(b, limit) = [b EXCEPT !.txn = t]
    BY <1>1 DEF Stopped
  <1>5. LET c == [b EXCEPT !.txn = t]
        IN  c \in Books /\ c.txn = t /\ c.slots = b.slots /\ c.costs = b.costs /\ c.grp = b.grp
    BY <1>3 DEF Books
  <1> QED
    BY <1>1, <1>3, <1>4, <1>5

(* The part of the costs that is scanned can be closed.                    *)
LEMMA PartCloseable ==
    ASSUME Core, NoClosing, NEW good \in 0..Len(book.costs), NEW a, a.grp = book.grp,
           NEW list, list = SubSeq(book.costs, 1, good)
    PROVE  Scannable(a, list) /\ ToSet(list) \subseteq Listed
  <1>1. PICK costs : costs = book.costs /\ costs \in Seq(Keys) /\ IsInjective(costs)
                     /\ \A i \in 1..Len(costs) : costs[i] \in Listed
    <2>1. book.costs \in Seq(Keys) /\ IsInjective(book.costs)
      BY BookParts DEF Core, Types, LotsRight
    <2>2. \A i \in 1..Len(book.costs) : book.costs[i] \in Listed
      BY <2>1 DEF Listed, ToSet
    <2> QED
      BY <2>1, <2>2
  <1>2. /\ list \in Seq(Keys) /\ Len(list) = good /\ good <= Len(costs)
        /\ \A i \in 1..Len(list) : list[i] = costs[i]
    BY <1>1
  <1>3. IsInjective(list)
    BY <1>1, <1>2 DEF IsInjective
  <1>4. \A i \in 1..Len(list) : list[i] \in Listed
    BY <1>1, <1>2
  <1>5. \A g \in Listed : book.grp[g] \in Groups /\ Remain(book.grp[g]) > 0 /\ book.grp[g].closing = 0
    BY DEF Core, LotsRight, Holding, NoClosing
  <1>6. ToSet(list) \subseteq Listed
    BY <1>2, <1>4 DEF ToSet
  <1> QED
    BY <1>2, <1>3, <1>4, <1>5, <1>6 DEF Scannable

(* What a scan of the book gives: the close group and the marked book.     *)
ScannedAs(cg, stopped, b, limit) ==
    /\ cg \in Closes /\ cg.filled = 0 /\ cg.frag = "NO" /\ IsInjective(cg.groups)
    /\ ToSet(cg.groups) \subseteq Listed
    /\ stopped \in Books /\ stopped.slots = book.slots /\ stopped.costs = book.costs
    /\ stopped.grp = book.grp /\ SameCounters(stopped.txn, book.txn)
    /\ stopped.txn.status = (IF limit THEN "STOP" ELSE book.txn.status)
    /\ b \in Books /\ b.txn = stopped.txn /\ b.slots = book.slots /\ b.costs = book.costs
    /\ \A g \in Keys : g \notin ToSet(cg.groups) => b.grp[g] = book.grp[g]
    /\ \A g \in ToSet(cg.groups) : /\ b.grp[g] = WithClosing(book.grp[g], b.grp[g].closing)
                                   /\ b.grp[g].closing \in 1..Remain(book.grp[g])
    /\ ClosingIn(b.grp, ToSet(cg.groups)) = cg.quantity

(* A scan at which nothing is being closed gives such a group and book.    *)
LEMMA ScanOfBook ==
    ASSUME Core, NoClosing, NEW limit \in BOOLEAN, NEW good \in 0..Len(book.costs),
           NEW volume \in Nat \ {0},
           NEW stopped, stopped = Stopped(book, limit),
           NEW list, list = SubSeq(book.costs, 1, good),
           NEW cg, cg = CloseGroup("NORMAL", book, list, volume),
           NEW b, b = MarkClosing(stopped, list, volume)
    PROVE  ScannedAs(cg, stopped, b, limit)
  <1>1. book \in Books
    BY DEF Core, Types
  <1>2. /\ stopped \in Books /\ stopped.slots = book.slots /\ stopped.costs = book.costs
        /\ stopped.grp = book.grp /\ SameCounters(stopped.txn, book.txn)
        /\ stopped.txn.status = (IF limit THEN "STOP" ELSE book.txn.status)
    BY <1>1, StoppedBook
  <1>3. Scannable(stopped, list) /\ ToSet(list) \subseteq Listed
    BY <1>2, PartCloseable
  <1>4. PICK x, marked : x = book /\ marked = b.grp
    OBVIOUS
  <1>5. "grp" \in DOMAIN stopped /\ stopped.grp \in [Keys -> Groups \cup {NoGroup}]
    BY <1>2, BookParts
  <1>6. cg = CloseGroup("NORMAL", x, list, volume) /\ marked = MarkClosing(stopped, list, volume).grp
        /\ x.grp = stopped.grp
    BY <1>2, <1>4
  <1>7. /\ cg.groups \in Seq(Keys) /\ IsInjective(cg.groups) /\ ToSet(cg.groups) \subseteq ToSet(list)
        /\ cg.quantity \in Nat
        /\ marked \in [Keys -> Groups \cup {NoGroup}]
        /\ \A g \in Keys \ ToSet(cg.groups) : marked[g] = stopped.grp[g]
        /\ \A g \in ToSet(cg.groups) :
              /\ marked[g] = WithClosing(stopped.grp[g], marked[g].closing)
              /\ marked[g].closing \in 1..Remain(stopped.grp[g])
        /\ ClosingIn(marked, ToSet(cg.groups)) = cg.quantity
    BY <1>3, <1>5, <1>6, ScanMarks
  <1>8. b = [stopped EXCEPT !.grp = marked]
    <2>1. \E f : b = [stopped EXCEPT !.grp = f]
      BY DEF MarkClosing
    <2>2. PICK f : b = [stopped EXCEPT !.grp = f]
      BY <2>1
    <2> QED
      BY <1>4, <1>5, <2>2
  <1>9. b \in Books /\ b.txn = stopped.txn /\ b.slots = stopped.slots /\ b.costs = stopped.costs
    <2>1. LET c == [stopped EXCEPT !.grp = marked]
          IN  c \in Books /\ c.txn = stopped.txn /\ c.slots = stopped.slots /\ c.costs = stopped.costs
      BY ONLY <1>2, <1>7, GroupsWritten
    <2> QED
      BY ONLY <1>8, <2>1
  <1>10. cg \in Closes /\ cg.filled = 0 /\ cg.frag = "NO"
    <2>1. cg.type = "NORMAL" /\ cg.filled = 0 /\ cg.frag = "NO"
          /\ cg = [type |-> cg.type, quantity |-> cg.quantity, filled |-> cg.filled,
                   frag |-> cg.frag, groups |-> cg.groups]
      BY DEF CloseGroup
    <2> QED
      BY <1>7, <2>1 DEF Closes, Frags
  <1> QED
    BY <1>2, <1>3, <1>4, <1>7, <1>9, <1>10 DEF ScannedAs

(* At the limit nothing is being opened, or the behaviour shows it.        *)
LEMMA StopAtLimit ==
    ASSUME Core, NEW limit \in BOOLEAN, book.txn.status \in {"STOP", "BLOCK", "RUNNING"},
           Opens' = Opens, pc'.kind # "open",
           book'.txn.status = (IF limit THEN "STOP" ELSE book.txn.status),
           NEW shown, odd' = odd \cup shown, limit /\ Opens # {} => "limit_open" \in shown
    PROVE  StopRight'
  BY DEF Core, StopRight
(* close that finds nothing to close.                                      *)
LEMMA CloseNothingKeeps ==
    ASSUME Core, state = "up", pc = At("close"), book.txn.status \in {"STOP", "BLOCK", "RUNNING"},
           NEW limit \in BOOLEAN, NEW cg, NEW stopped, NEW b, ScannedAs(cg, stopped, b, limit),
           book' = stopped, pc' = Idle, UNCHANGED <<db, flight, cgs, held, state>>,
           NEW shown, odd' = odd \cup shown, limit /\ Opens # {} => "limit_open" \in shown
    PROVE  Core'
  <1>1. /\ book' \in Books /\ book'.slots = book.slots /\ book'.costs = book.costs /\ book'.grp = book.grp
        /\ SameCounters(book'.txn, book.txn)
        /\ book'.txn.status = (IF limit THEN "STOP" ELSE book.txn.status)
    BY DEF ScannedAs
  <1>2. Opens' = Opens /\ pc'.kind # "open" /\ pc.kind = "none"
    BY DEF Opens, Idle, At
  <1>3. StopRight'
    BY <1>1, <1>2, StopAtLimit
  <1>4. db.txn.status \in {"EXIT", "STOP"} => book.txn.status = db.txn.status
    BY DEF Core, RedisRight
  <1>5. db' \in Books /\ db' = db /\ (db'.txn.status \in {"EXIT", "STOP"} => book'.txn.status = db'.txn.status)
    BY <1>1, <1>4 DEF Core, Types
  <1>6. SameCounters(db'.txn, db.txn)
    BY DEF SameCounters
  <1> QED
    BY <1>1, <1>2, <1>3, <1>5, <1>6, Framed

(* close whose order cannot be sent: the lots are unmarked again.          *)
LEMMA CloseNotSentKeeps ==
    ASSUME Core, NoClosing, state = "up", pc = At("close"),
           book.txn.status \in {"STOP", "BLOCK", "RUNNING"},
           NEW limit \in BOOLEAN, NEW cg, NEW stopped, NEW b, ScannedAs(cg, stopped, b, limit),
           NotSent(b, cg), UNCHANGED <<cgs, held, state>>,
           NEW shown, odd' = odd \cup shown, limit /\ Opens # {} => "limit_open" \in shown
    PROVE  Core'
  <1>1. /\ pc' = Idle /\ flight' = flight
        /\ book' = UnmarkClosing(b, cg) /\ db' = SaveQuantity(db, book', cg)
    BY DEF NotSent
  <1>2. /\ book \in Books /\ db \in Books /\ b \in Books /\ b.slots = book.slots /\ b.costs = book.costs
        /\ SameCounters(b.txn, book.txn) /\ b.txn.status = (IF limit THEN "STOP" ELSE book.txn.status)
        /\ \A g \in Keys : g \notin ToSet(cg.groups) => b.grp[g] = book.grp[g]
    BY DEF ScannedAs, Core, Types
  <1>3. \A g \in ToSet(cg.groups) : /\ g \in Listed /\ g \in Keys /\ book.grp[g] \in Groups
                                    /\ b.grp[g] \in Groups /\ [b.grp[g] EXCEPT !.closing = 0] = book.grp[g]
    <2> TAKE g \in ToSet(cg.groups)
    <2>1. PICK x, y, m : x = book.grp[g] /\ y = b.grp[g] /\ m = b.grp[g].closing
      OBVIOUS
    <2>2. g \in Listed /\ g \in Keys /\ x \in Groups /\ x.closing = 0
      BY <2>1, FewGroups DEF ScannedAs, Core, LotsRight, NoClosing
    <2>3. y = [x EXCEPT !.closing = m] /\ m \in Nat
      <3>1. y = WithClosing(x, m) /\ m \in 1..Remain(x)
        BY <2>1 DEF ScannedAs
      <3>2. Remain(x) \in Int
        BY <2>2 DEF Groups, Remain
      <3> QED
        BY <3>1, <3>2 DEF WithClosing
    <2>4. y \in Groups /\ [y EXCEPT !.closing = 0] = x
      BY <2>2, <2>3 DEF Groups
    <2> QED
      BY <2>1, <2>2, <2>4
  <1>4. /\ book' \in Books /\ book'.txn = b.txn /\ book'.slots = b.slots /\ book'.costs = b.costs
        /\ \A g \in Keys : book'.grp[g] = book.grp[g]
    <2>1. PICK u : u = UnmarkClosing(b, cg)
      OBVIOUS
    <2>2. b \in Books /\ \A g \in ToSet(cg.groups) : b.grp[g] \in Groups
      BY <1>2, <1>3
    <2>3. LET c == UnmarkClosing(b, cg)
          IN  /\ c \in Books /\ c.txn = b.txn /\ c.slots = b.slots /\ c.costs = b.costs
              /\ \A g \in Keys : c.grp[g] = IF g \in ToSet(cg.groups)
                                            THEN [b.grp[g] EXCEPT !.closing = 0] ELSE b.grp[g]
      BY ONLY <2>2, Unmarked, Zenon
    <2>4. /\ u \in Books /\ u.txn = b.txn /\ u.slots = b.slots /\ u.costs = b.costs
          /\ \A g \in Keys : u.grp[g] = book.grp[g]
      BY <1>2, <1>3, <2>1, <2>3
    <2> QED
      BY <1>1, <2>1, <2>4
  <1>5. book'.grp = book.grp
    <2>1. book'.grp \in [Keys -> Groups \cup {NoGroup}] /\ book.grp \in [Keys -> Groups \cup {NoGroup}]
      BY <1>2, <1>4, BookParts
    <2> QED
      BY <1>4, <2>1
  <1>6. /\ \A g \in Needed : g \in Keys /\ db.grp[g] = book.grp[g]
        /\ db.txn.status \in {"EXIT", "STOP"} => book.txn.status = db.txn.status
        /\ ToSet(cg.groups) \subseteq Needed
    <2>1. Needed \subseteq Keys /\ Listed \subseteq Needed
      BY FewGroups DEF Needed, Opens, Core, OrdersRight, OrderRight
    <2>2. pc.kind = "none"
      BY DEF At
    <2> QED
      BY <1>3, <2>1, <2>2 DEF Core, RedisRight, Saved, Marking
  <1>7. /\ db' \in Books /\ db'.txn = db.txn /\ db'.slots = db.slots /\ db'.costs = db.costs
        /\ \A g \in Keys : g \in ToSet(cg.groups) => db'.grp[g] = book'.grp[g]
        /\ \A g \in Keys : g \notin ToSet(cg.groups) => db'.grp[g] = db.grp[g]
    <2>1. PICK x, y, e : x = db /\ y = book' /\ e = db'
      OBVIOUS
    <2>2. x \in Books /\ y \in Books
          /\ \A g \in ToSet(cg.groups) : x.grp[g] \in Groups /\ y.grp[g] \in Groups /\ SameOpened(x.grp[g], y.grp[g])
      BY <1>2, <1>3, <1>4, <1>6, <2>1 DEF SameOpened
    <2>3. LET f == SaveQuantity(x, y, cg)
          IN  /\ f \in Books /\ f.txn = x.txn /\ f.slots = x.slots /\ f.costs = x.costs
              /\ \A g \in Keys : g \in ToSet(cg.groups) => f.grp[g] = y.grp[g]
              /\ \A g \in Keys : g \notin ToSet(cg.groups) => f.grp[g] = x.grp[g]
      BY ONLY <2>2, QuantitySaved
    <2> QED
      BY <1>1, <2>1, <2>3
  <1>8. \A g \in Needed : db'.grp[g] = db.grp[g]
    BY <1>5, <1>6, <1>7
  <1>9. Opens' = Opens /\ pc'.kind # "open" /\ pc.kind = "none"
    BY <1>1 DEF Opens, Idle, At
  <1>10. StopRight'
    BY <1>2, <1>4, <1>9, StopAtLimit
  <1>11. SameCounters(db'.txn, db.txn) /\ SameCounters(book'.txn, book.txn)
         /\ (db'.txn.status \in {"EXIT", "STOP"} => book'.txn.status = db'.txn.status)
    BY <1>2, <1>4, <1>6, <1>7 DEF SameCounters
  <1> QED
    BY <1>1, <1>2, <1>4, <1>5, <1>7, <1>8, <1>9, <1>10, <1>11, Framed
(* The order of a close, or the two it is split into.                      *)
LEMMA SplitOrders ==
    ASSUME NEW k \in CloseKeys, NEW n \in Nat \ {0}, NEW orders \in Split(k, n)
    PROVE  /\ orders \subseteq Orders
           /\ \A o \in orders : /\ OrderRight(o) /\ o.kind = "close" /\ o.key = k
                                /\ o.news /\ Unheard(o) = 0
           /\ \A o, p \in orders : o.part = p.part => o = p
           /\ \/ \E o \in Orders : orders = {o} /\ o.quantity = n
              \/ \E o, p \in Orders : orders = {o, p} /\ o # p /\ o.quantity + p.quantity = n
  <1> DEFINE Whole(m, i) == [kind |-> "close", key |-> k, quantity |-> m, part |-> i,
                             result |-> -1, news |-> TRUE, trades |-> 0]
  <1>1. ASSUME NEW m \in 1..n, NEW i \in {1, 2}
        PROVE  /\ Whole(m, i) \in Orders /\ OrderRight(Whole(m, i))
               /\ Whole(m, i).kind = "close" /\ Whole(m, i).key = k
               /\ Whole(m, i).news /\ Unheard(Whole(m, i)) = 0
               /\ Whole(m, i).quantity = m /\ Whole(m, i).part = i
    BY DEF Orders, OrderRight, Unheard
  <1>2. CASE orders = {Order("close", k, n)}
    <2>1. orders = {Whole(n, 1)}
      BY <1>2 DEF Order
    <2>2. n \in 1..n
      OBVIOUS
    <2> HIDE DEF Whole
    <2> QED
      BY <1>1, <2>1, <2>2
  <1>3. ASSUME NEW m \in 1..(n - 1),
               orders = {Order("close", k, m), [Order("close", k, n - m) EXCEPT !.part = 2]}
        PROVE  /\ orders = {Whole(m, 1), Whole(n - m, 2)}
               /\ m \in 1..n /\ n - m \in 1..n /\ m + (n - m) = n
    <2>1. ASSUME NEW r PROVE Order("close", k, r) = Whole(r, 1) /\ [Order("close", k, r) EXCEPT !.part = 2] = Whole(r, 2)
      <3>1. Order("close", k, r) = Whole(r, 1)
        BY DEF Order
      <3>2. PICK one, two : one = Whole(r, 1) /\ two = Whole(r, 2)
        OBVIOUS
      <3> DEFINE Wholes == [kind : {"close"}, key : {k}, quantity : {r}, part : {1, 2},
                            result : {-1}, news : {TRUE}, trades : {0}]
      <3>3. one \in Wholes /\ two \in Wholes /\ two.part = 2
        BY <3>2
      <3>4. [one EXCEPT !.part = 2] = two
        BY <3>3
      <3> QED
        BY <3>1, <3>2, <3>4
    <2>2. m \in 1..n /\ n - m \in 1..n /\ m + (n - m) = n
      OBVIOUS
    <2> HIDE DEF Whole
    <2> QED
      BY <1>3, <2>1, <2>2
  <1>4. ASSUME NEW m \in 1..(n - 1),
               orders = {Order("close", k, m), [Order("close", k, n - m) EXCEPT !.part = 2]}
        PROVE  /\ orders \subseteq Orders
               /\ \A o \in orders : /\ OrderRight(o) /\ o.kind = "close" /\ o.key = k
                                    /\ o.news /\ Unheard(o) = 0
               /\ \A o, p \in orders : o.part = p.part => o = p
               /\ \E o, p \in Orders : orders = {o, p} /\ o # p /\ o.quantity + p.quantity = n
    <2>1. PICK x, y : /\ x = Whole(m, 1) /\ y = Whole(n - m, 2) /\ orders = {x, y}
                      /\ m + (n - m) = n /\ m \in 1..n /\ n - m \in 1..n
      BY <1>3, <1>4
    <2> HIDE DEF Whole
    <2>2. /\ x \in Orders /\ OrderRight(x) /\ x.kind = "close" /\ x.key = k /\ x.news /\ Unheard(x) = 0
          /\ x.quantity = m /\ x.part = 1
      BY <1>1, <2>1
    <2>3. /\ y \in Orders /\ OrderRight(y) /\ y.kind = "close" /\ y.key = k /\ y.news /\ Unheard(y) = 0
          /\ y.quantity = n - m /\ y.part = 2
      BY <1>1, <2>1
    <2>4. x # y /\ x.quantity + y.quantity = n
      BY <2>1, <2>2, <2>3
    <2> QED
      BY <2>1, <2>2, <2>3, <2>4
  <1>5. \/ orders = {Order("close", k, n)}
        \/ \E m \in 1..(n - 1) :
              orders = {Order("close", k, m), [Order("close", k, n - m) EXCEPT !.part = 2]}
    BY DEF Split
  <1> QED
    BY <1>2, <1>4, <1>5

(* Orders nobody heard of yet change nothing of what is to be heard.       *)
LEMMA SilentOrders ==
    ASSUME NEW S \in SUBSET Orders, IsFiniteSet(S), NEW o \in Orders, NEW p \in Orders,
           o \notin S, p \notin S, Unheard(o) = 0, Unheard(p) = 0
    PROVE  /\ UnheardIn(S \cup {o}) = UnheardIn(S) /\ IsFiniteSet(S \cup {o})
           /\ UnheardIn(S \cup {o, p}) = UnheardIn(S) /\ IsFiniteSet(S \cup {o, p})
  <1>1. UnheardIn(S \cup {o}) = UnheardIn(S) /\ IsFiniteSet(S \cup {o})
    BY OneOrder, FS_AddElement
  <1>2. CASE p = o
    <2>1. S \cup {o, p} = S \cup {o}
      BY <1>2
    <2> QED
      BY <1>1, <2>1
  <1>3. CASE p # o
    <2>1. PICK T : T = S \cup {o} /\ T \in SUBSET Orders /\ IsFiniteSet(T) /\ p \notin T
      BY <1>1, <1>3
    <2>2. S \cup {o, p} = T \cup {p}
      BY <2>1
    <2>3. UnheardIn(T \cup {p}) = UnheardIn(T) /\ IsFiniteSet(T \cup {p})
      BY <2>1, OneOrder, FS_AddElement
    <2> QED
      BY <1>1, <2>1, <2>2, <2>3
  <1> QED
    BY <1>1, <1>2, <1>3
(* close whose order is sent.                                              *)
LEMMA CloseSentKeeps ==
    ASSUME Core, NoClosing, state = "up", pc = At("close"),
           book.txn.status \in {"STOP", "BLOCK", "RUNNING"},
           NEW limit \in BOOLEAN, NEW cg, NEW stopped, NEW b, ScannedAs(cg, stopped, b, limit),
           cg.quantity > 0, Sent(b, cg), UNCHANGED <<cgs, held, state>>,
           NEW shown, odd' = odd \cup shown, limit /\ Opens # {} => "limit_open" \in shown
    PROVE  Core'
  <1>1. PICK k, orders :
           /\ k \in FreeCloseKeys /\ orders \in Split(k, cg.quantity)
           /\ flight' = flight \cup orders
           /\ pc' = [at |-> "sent", kind |-> "close", key |-> k, cg |-> cg]
           /\ book' = b /\ db' = db
    BY DEF Sent
  <1>2. k \in CloseKeys /\ cg \in Closes /\ cg.quantity \in Nat \ {0}
    BY <1>1 DEF FreeCloseKeys, ScannedAs, Closes
  <1>3. /\ orders \subseteq Orders
        /\ \A o \in orders : /\ OrderRight(o) /\ o.kind = "close" /\ o.key = k
                             /\ o.news /\ Unheard(o) = 0
        /\ \A o, p \in orders : o.part = p.part => o = p
        /\ \/ \E o \in Orders : orders = {o} /\ o.quantity = cg.quantity
           \/ \E o, p \in Orders : orders = {o, p} /\ o # p /\ o.quantity + p.quantity = cg.quantity
    BY <1>1, <1>2, SplitOrders
  <1>4. flight \subseteq Orders /\ IsFiniteSet(flight) /\ \A o \in flight : o.kind # "close"
    BY DEF Core, Types, NoClosing, Sells
  <1>5. Sells' = orders /\ Opens' = Opens /\ Fresh' = Fresh
    <2>1. Sells' = orders /\ Opens' = Opens
      BY <1>1, <1>3, <1>4 DEF Sells, Opens
    <2> QED
      BY <2>1 DEF Fresh
  <1>6. /\ UnheardIn(flight') = UnheardIn(flight) /\ IsFiniteSet(flight') /\ flight' \subseteq Orders
    <2>1. \A o \in orders : o \in Orders /\ o \notin flight /\ Unheard(o) = 0
      BY <1>3, <1>4
    <2>2. CASE \E o \in Orders : orders = {o}
      BY <1>1, <1>4, <2>1, <2>2, SilentOrders
    <2>3. CASE \E o, p \in Orders : orders = {o, p}
      <3>1. PICK o, p \in Orders : orders = {o, p}
        BY <2>3
      <3>2. o \notin flight /\ p \notin flight /\ Unheard(o) = 0 /\ Unheard(p) = 0
        BY <2>1, <3>1
      <3>3. UnheardIn(flight \cup {o, p}) = UnheardIn(flight) /\ IsFiniteSet(flight \cup {o, p})
        BY <1>4, <3>2, SilentOrders
      <3> QED
        BY <1>1, <1>4, <3>1, <3>3
    <2> QED
      BY <1>1, <1>3, <1>4, <2>2, <2>3
  <1>7. OrdersRight'
    <2>1. \A o \in flight' : OrderRight(o)
      BY <1>1, <1>3 DEF Core, OrdersRight
    <2>2. ASSUME NEW o \in flight', NEW p \in flight', o.kind = p.kind, o.key = p.key,
                 o.kind = "close" => o.part = p.part
          PROVE  o = p
      BY <1>1, <1>3, <1>4, <2>2 DEF Core, OrdersRight
    <2> QED
      BY <2>1, <2>2 DEF OrdersRight
  <1>8. /\ book' \in Books /\ book'.txn = stopped.txn /\ book'.slots = book.slots /\ book'.costs = book.costs
        /\ SameCounters(stopped.txn, book.txn)
        /\ stopped.txn.status = (IF limit THEN "STOP" ELSE book.txn.status)
        /\ \A g \in Keys : g \notin ToSet(cg.groups) => book'.grp[g] = book.grp[g]
        /\ ToSet(cg.groups) \subseteq Listed
    BY <1>1 DEF ScannedAs
  <1>9. /\ Listed' = Listed /\ Level' = Level /\ Holding' = Holding
        /\ \A p : Noted(p) /\ Noted(p)'
    <2>1. pc.kind # "open" /\ pc'.kind # "open"
      BY <1>1 DEF At
    <2> QED
      BY <1>5, <1>8, <2>1 DEF Listed, Level, Holding, Noted
  <1>10. ASSUME NEW g \in ToSet(cg.groups)
         PROVE  /\ g \in Keys /\ book'.grp[g] \in Groups /\ Remain(book'.grp[g]) = Remain(book.grp[g])
                /\ book'.grp[g].closing <= Remain(book'.grp[g])
                /\ [book'.grp[g] EXCEPT !.closing = 0] = book.grp[g]
    <2>1. PICK x, y, m : x = book.grp[g] /\ y = book'.grp[g] /\ m = b.grp[g].closing
      OBVIOUS
    <2>2. g \in Keys /\ x \in Groups /\ x.closing = 0
      BY <1>8, <2>1, FewGroups DEF Core, LotsRight, NoClosing
    <2>3. y = [x EXCEPT !.closing = m] /\ m \in 1..Remain(x)
      BY <1>1, <2>1 DEF ScannedAs, WithClosing
    <2>4. Remain(x) \in Int /\ m \in Nat
      <3>1. Remain(x) \in Int
        BY <2>2 DEF Groups, Remain
      <3> QED
        BY <2>3, <3>1
    <2>5. y \in Groups /\ y.filled = x.filled /\ y.close = x.close /\ y.closing = m /\ [y EXCEPT !.closing = 0] = x
      BY <2>2, <2>3, <2>4 DEF Groups
    <2>6. Remain(y) = Remain(x) /\ y.closing <= Remain(y)
      BY <2>3, <2>4, <2>5 DEF Remain
    <2> QED
      BY <2>1, <2>2, <2>5, <2>6
  <1> USE DEF Core
  <1>11. Types'
    <2>1. pc' \in ClosePcs
      BY <1>1, <1>2 DEF ClosePcs
    <2> QED
      BY <1>1, <1>6, <1>8, <2>1 DEF Types, PcRight
  <1>12. OpenRight'
    <2>1. book'.txn.opening = book.txn.opening
      BY <1>8 DEF SameCounters
    <2>2. pc.kind # "open" /\ pc'.kind # "open"
      BY <1>1 DEF At
    <2> QED
      BY <1>5, <1>8, <1>9, <2>1, <2>2 DEF OpenRight
  <1>13. GroupsRight'
    <2>1. \A o \in Opens : o.key \in Keys /\ o.key \notin Listed
      BY DEF Opens, OrdersRight, OrderRight, GroupsRight
    <2>2. \A o \in Opens : book'.grp[o.key] = book.grp[o.key]
      BY <1>8, <2>1
    <2> QED
      BY <1>5, <1>9, <2>1, <2>2 DEF GroupsRight
  <1>14. LotsRight'
    <2>1. ASSUME NEW g \in Holding
          PROVE  /\ book'.grp[g] \in Groups /\ Remain(book'.grp[g]) = Remain(book.grp[g])
                 /\ Remain(book'.grp[g]) > 0 /\ book'.grp[g].closing <= Remain(book'.grp[g])
      <3>1. /\ g \in Keys /\ book.grp[g] \in Groups /\ Remain(book.grp[g]) > 0
            /\ book.grp[g].closing <= Remain(book.grp[g])
        BY FewGroups DEF LotsRight
      <3> QED
        BY <1>8, <1>10, <3>1
    <2>2. LotsIn(book'.grp, Holding) = LotsIn(book.grp, Holding)
      BY <2>1, FewGroups, SameLots
    <2>3. book'.txn.open = book.txn.open
      BY <1>8 DEF SameCounters
    <2> QED
      BY <1>8, <1>9, <2>1, <2>2, <2>3 DEF LotsRight
  <1>15. CloseRight'
    <2>1. Marked(k, cg)'
      <3>1. cg.quantity > 0 /\ IsInjective(cg.groups) /\ ClosingIn(book'.grp, ToSet(cg.groups)) = cg.quantity
        BY <1>1 DEF ScannedAs
      <3>2. \A g \in Listed \ ToSet(cg.groups) : book'.grp[g].closing = 0
        BY <1>8, FewGroups DEF NoClosing
      <3> QED
        BY <1>3, <1>5, <1>8, <1>9, <3>1, <3>2 DEF Marked
    <2>2. OneNew(cg)' \/ BothNew(cg)'
      <3>1. CASE \E o \in Orders : orders = {o} /\ o.quantity = cg.quantity
        <4>1. PICK o \in Orders : orders = {o} /\ o.quantity = cg.quantity
          BY <3>1
        <4>2. o \in Sells' /\ Sells' = {o} /\ o.news
          BY <1>3, <1>5, <4>1
        <4> QED
          BY <4>1, <4>2 DEF OneNew
      <3>2. CASE \E o, p \in Orders : orders = {o, p} /\ o # p /\ o.quantity + p.quantity = cg.quantity
        <4>1. PICK o, p \in Orders : orders = {o, p} /\ o # p /\ o.quantity + p.quantity = cg.quantity
          BY <3>2
        <4>2. o \in Sells' /\ p \in Sells' /\ Sells' = {o, p} /\ o.news /\ p.news
          BY <1>3, <1>5, <4>1
        <4> QED
          BY <4>1, <4>2 DEF BothNew
      <3> QED
        BY <1>3, <3>1, <3>2
    <2>3. Account(0)'
      BY <1>1, <1>6, <1>9 DEF Account, NoClosing
    <2>4. book'.txn.closing = 0
      BY <1>8 DEF SameCounters, NoClosing
    <2>5. cg.filled = 0 /\ cg.frag = "NO"
      BY DEF ScannedAs
    <2> QED
      BY <1>1, <2>1, <2>2, <2>3, <2>4, <2>5 DEF CloseRight, CloseSent, NoClosing
  <1>16. RedisRight'
    <2>1. Needed' = Needed /\ \A g \in Needed : g \in Keys
      BY <1>5, <1>9, FewGroups DEF Needed, Opens, OrdersRight, OrderRight
    <2>2. Marking' = ToSet(cg.groups) /\ Marking = {}
      BY <1>1 DEF Marking, At
    <2>3. \A g \in Needed : Saved(g)' = Saved(g)
      BY <1>8, <1>10, <2>1, <2>2 DEF Saved
    <2>4. SameCounters(db'.txn, book'.txn)
      BY <1>1, <1>8 DEF RedisRight, SameCounters
    <2>5. db'.txn.status \in {"EXIT", "STOP"} => book'.txn.status = db'.txn.status
      BY <1>1, <1>8 DEF RedisRight
    <2> QED
      BY <1>1, <1>8, <2>1, <2>3, <2>4, <2>5 DEF RedisRight
  <1>17. StopRight'
    <2>1. pc'.kind # "open" /\ book'.txn.status = (IF limit THEN "STOP" ELSE book.txn.status)
      BY <1>1, <1>8
    <2> QED
      BY <1>5, <2>1, StopAtLimit
  <1> QED
    BY <1>7, <1>11, <1>12, <1>13, <1>14, <1>15, <1>16, <1>17
(* No close order is under way when one may be sent.                       *)
LEMMA NoneUnderWay ==
    ASSUME Core, pc.kind = "none", book.txn.closing = 0
    PROVE  NoClosing
  <1>1. ~CloseSent
    BY DEF CloseSent
  <1>2. ASSUME NEW k \in CloseKeys PROVE ~CloseNoted(k)
    <2>1. CloseNoted(k) => cgs[k].quantity > 0 /\ cgs[k].quantity = 0
      BY DEF CloseNoted, Marked
    <2>2. CloseNoted(k) => cgs[k] \in Closes
      BY DEF CloseNoted, Core, Types
    <2> QED
      BY <2>1, <2>2 DEF Closes
  <1> QED
    BY <1>1, <1>2 DEF Core, CloseRight

(* close.                                                                  *)
LEMMA CloseKeeps ==
    ASSUME Core, Close
    PROVE  Core'
  <1>1. /\ state = "up" /\ pc = At("close") /\ book.txn.status \in {"STOP", "BLOCK", "RUNNING"}
        /\ book.txn.closing = 0 /\ cgs' = cgs /\ held' = held /\ state' = state
    BY DEF Close
  <1> DEFINE S(l)    == [book EXCEPT !.txn.status = IF l THEN "STOP" ELSE @]
             L(g)    == SubSeq(book.costs, 1, g)
             C(g, v) == CloseGroup("NORMAL", book, L(g), v)
             M(l, g, v) == MarkClosing(S(l), L(g), v)
             A(l)    == IF l /\ \E o \in flight : o.kind = "open" THEN {"limit_open"} ELSE {}
             Ends(l, g, v) ==
                \/ C(g, v).quantity > 0 /\ Sent(M(l, g, v), C(g, v)) /\ Meets(A(l))
                \/ /\ C(g, v).quantity > 0 /\ NotSent(M(l, g, v), C(g, v))
                   /\ Meets(A(l) \cup (IF C(g, v).quantity > Closable THEN {} ELSE {"no_position"}))
                \/ /\ C(g, v).quantity = 0 /\ book' = S(l) /\ pc' = Idle
                   /\ Meets(A(l)) /\ UNCHANGED <<db, flight>>
  <1>2. PICK limit \in BOOLEAN, good \in 0..Len(book.costs), volume \in 1..MaxVolume : Ends(limit, good, volume)
    <2>1. PICK limit \in BOOLEAN, good \in 0..Len(book.costs), volume \in 1..MaxVolume :
             LET stopped == [book EXCEPT !.txn.status = IF limit THEN "STOP" ELSE @]
                 force   == limit \/ book.txn.status \in {"STOP", "BLOCK"}
                 list    == SubSeq(book.costs, 1, good)
                 cg      == CloseGroup("NORMAL", book, list, volume)
                 b       == MarkClosing(stopped, list, volume)
                 atLimit == IF limit /\ \E o \in flight : o.kind = "open" THEN {"limit_open"} ELSE {}
             IN  /\ force => good = Len(book.costs)
                 /\ \/ /\ cg.quantity > 0
                       /\ Sent(b, cg)
                       /\ Meets(atLimit)
                    \/ /\ cg.quantity > 0
                       /\ NotSent(b, cg)
                       /\ Meets(atLimit \cup (IF cg.quantity > Closable THEN {} ELSE {"no_position"}))
                    \/ /\ cg.quantity = 0
                       /\ book' = stopped /\ pc' = Idle
                       /\ Meets(atLimit)
                       /\ UNCHANGED <<db, flight>>
      BY Zenon DEF Close
    <2>2. Ends(limit, good, volume)
      BY <2>1, Zenon
    <2> HIDE DEF Ends
    <2> QED
      BY <2>2
  <1>3. PICK stopped, list, cg, b, atLimit :
           /\ stopped = S(limit) /\ list = L(good) /\ cg = C(good, volume)
           /\ b = M(limit, good, volume) /\ atLimit = A(limit) /\ stopped = Stopped(book, limit)
    BY DEF Stopped
  <1>4. NoClosing
    <2>1. pc.kind = "none"
      BY <1>1 DEF At
    <2> QED
      BY <1>1, <2>1, NoneUnderWay
  <1>5. ScannedAs(cg, stopped, b, limit)
    <2>1. volume \in Nat \ {0}
      BY TimeLineAssumption
    <2>2. list = SubSeq(book.costs, 1, good) /\ cg = CloseGroup("NORMAL", book, list, volume)
          /\ b = MarkClosing(stopped, list, volume) /\ stopped = Stopped(book, limit)
      BY <1>3, Zenon
    <2> QED
      BY <1>4, <2>1, <2>2, ScanOfBook
  <1>6. limit /\ Opens # {} => "limit_open" \in atLimit
    BY <1>3 DEF Opens
  <1> HIDE DEF A, C, M, L, S
  <1>7. CASE cg.quantity > 0 /\ Sent(b, cg) /\ Meets(atLimit)
    <2>1. odd' = odd \cup atLimit
      BY <1>7 DEF Meets
    <2> QED
      BY <1>1, <1>4, <1>5, <1>6, <1>7, <2>1, CloseSentKeeps
  <1>8. CASE \E more : NotSent(b, cg) /\ Meets(atLimit \cup more)
    <2>1. PICK shown : odd' = odd \cup shown /\ (limit /\ Opens # {} => "limit_open" \in shown)
      BY <1>6, <1>8 DEF Meets
    <2> QED
      BY <1>1, <1>4, <1>5, <1>8, <2>1, CloseNotSentKeeps
  <1>9. CASE book' = stopped /\ pc' = Idle /\ Meets(atLimit) /\ UNCHANGED <<db, flight>>
    <2>1. odd' = odd \cup atLimit
      BY <1>9 DEF Meets
    <2> QED
      BY <1>1, <1>5, <1>6, <1>9, <2>1, CloseNothingKeeps
  <1> QED
    BY <1>2, <1>3, <1>7, <1>8, <1>9
(* update_close_group of a new order: the group is noted, and redis gets   *)
(* the marks.                                                              *)
LEMMA AddCloseGroupKeeps ==
    ASSUME Core, AddCloseGroup
    PROVE  Core'
  <1>1. /\ state = "up" /\ pc.at = "sent" /\ pc.kind = "close"
        /\ db' = SaveQuantity(db, book, pc.cg) /\ pc' = [pc EXCEPT !.at = "added"]
        /\ UNCHANGED <<book, flight, held, odd, state>>
    BY DEF AddCloseGroup
  <1>2. PICK frag, k, cg, new :
           /\ frag = IF Cardinality({o \in flight : o.kind = "close" /\ o.key = pc.key}) = 2 THEN "NEED" ELSE "NO"
           /\ k = pc.key /\ cg = pc.cg /\ new = [cg EXCEPT !.frag = frag]
           /\ cgs' = [cgs EXCEPT ![k] = new]
    BY DEF AddCloseGroup
  <1>3. pc \in ClosePcs /\ k \in CloseKeys /\ cg \in Closes
    BY <1>1, <1>2 DEF Core, Types, PcRight, OpenPcs, ClosePcs, Idle, At
  <1>4. /\ pc' = [at |-> "added", kind |-> "close", key |-> k, cg |-> cg]
        /\ pc'.at = "added" /\ pc'.kind = "close" /\ pc'.key = k /\ pc'.cg = cg
    BY <1>1, <1>2, <1>3 DEF ClosePcs
  <1>5. /\ book.txn.closing = 0 /\ \A l \in CloseKeys : cgs[l] = NoGroup
        /\ Marked(k, cg) /\ cg.filled = 0 /\ cg.frag = "NO"
        /\ OneNew(cg) \/ BothNew(cg)
        /\ Account(0)
    BY <1>1, <1>2 DEF Core, CloseRight, NoClosing, CloseSent, CloseNoted
  <1>6. /\ new \in Closes /\ new.quantity = cg.quantity /\ new.groups = cg.groups /\ new.filled = 0
        /\ new.frag = frag /\ frag \in {"NO", "NEED"}
    BY <1>2, <1>3, <1>5 DEF Closes, Frags
  <1>7. Sells' = Sells /\ Opens' = Opens /\ Fresh' = Fresh /\ Listed' = Listed /\ Level' = Level /\ Holding' = Holding
    BY <1>1 DEF Sells, Opens, Fresh, Listed, Level, Holding
  <1>8. frag = IF Cardinality(Sells) = 2 THEN "NEED" ELSE "NO"
    <2>1. {o \in flight : o.kind = "close" /\ o.key = pc.key} = Sells
      BY <1>2, <1>5 DEF Sells, Marked
    <2> QED
      BY <1>2, <2>1
  <1>9. Parts(new)
    <2>1. CASE OneNew(cg)
      <3>1. PICK o \in Sells : Sells = {o} /\ o.news /\ o.quantity = cg.quantity
        BY <2>1 DEF OneNew
      <3>2. Cardinality(Sells) = 1
        BY <3>1, FS_Singleton
      <3> QED
        BY <1>6, <1>8, <3>1, <3>2 DEF Parts, OneNew
    <2>2. CASE BothNew(cg)
      <3>1. PICK o, p \in Sells : o # p /\ Sells = {o, p} /\ o.news /\ p.news /\ o.quantity + p.quantity = cg.quantity
        BY <2>2 DEF BothNew
      <3>2. Cardinality({o} \cup {p}) = Cardinality({o}) + 1 /\ Cardinality({o}) = 1
        BY <3>1, FS_Singleton, FS_AddElement
      <3>3. Cardinality(Sells) = 2
        <4>1. Sells = {o} \cup {p}
          BY <3>1
        <4> QED
          BY <3>2, <4>1
      <3> QED
        BY <1>6, <1>8, <3>1, <3>3 DEF Parts, BothNew
    <2> QED
      BY <1>5, <2>1, <2>2
  <1> USE DEF Core
  <1>10. book \in Books /\ db \in Books /\ ToSet(cg.groups) \subseteq Listed /\ Listed \subseteq Needed
    BY <1>5 DEF Types, Marked, Needed
  <1>11. \A g \in Needed : g \in Keys /\ db.grp[g] = IF g \in ToSet(cg.groups)
                                                     THEN [book.grp[g] EXCEPT !.closing = 0] ELSE book.grp[g]
    <2>1. \A g \in Needed : g \in Keys
      BY FewGroups DEF Needed, Opens, OrdersRight, OrderRight
    <2> QED
      BY <1>1, <1>2, <2>1 DEF RedisRight, Saved, Marking
  <1>12. /\ db' \in Books /\ db'.txn = db.txn /\ db'.slots = db.slots /\ db'.costs = db.costs
         /\ \A g \in Keys : g \in ToSet(cg.groups) => db'.grp[g] = book.grp[g]
         /\ \A g \in Keys : g \notin ToSet(cg.groups) => db'.grp[g] = db.grp[g]
    <2>1. PICK x, y, e : x = db /\ y = book /\ e = db'
      OBVIOUS
    <2>2. \A g \in ToSet(cg.groups) : x.grp[g] \in Groups /\ y.grp[g] \in Groups /\ SameOpened(x.grp[g], y.grp[g])
      <3> TAKE g \in ToSet(cg.groups)
      <3>1. PICK u, v : u = y.grp[g] /\ v = x.grp[g]
        OBVIOUS
      <3>2. u \in Groups /\ v = [u EXCEPT !.closing = 0]
        BY <1>10, <1>11, <2>1, <3>1 DEF LotsRight, Holding
      <3>3. v \in Groups /\ SameOpened(u, v)
        BY <3>2, ClosingCleared
      <3> QED
        BY <3>1, <3>2, <3>3 DEF SameOpened
    <2>3. x \in Books /\ y \in Books
          /\ \A g \in ToSet(cg.groups) : x.grp[g] \in Groups /\ y.grp[g] \in Groups /\ SameOpened(x.grp[g], y.grp[g])
      BY <1>10, <2>1, <2>2
    <2>4. LET f == SaveQuantity(x, y, cg)
          IN  /\ f \in Books /\ f.txn = x.txn /\ f.slots = x.slots /\ f.costs = x.costs
              /\ \A g \in Keys : g \in ToSet(cg.groups) => f.grp[g] = y.grp[g]
              /\ \A g \in Keys : g \notin ToSet(cg.groups) => f.grp[g] = x.grp[g]
      BY ONLY <2>3, QuantitySaved
    <2> QED
      BY <1>1, <1>2, <2>1, <2>4
  <1>13. Types'
    <2>1. pc' \in ClosePcs
      BY <1>3, <1>4 DEF ClosePcs
    <2>2. cgs' \in [CloseKeys -> Closes \cup {NoGroup}]
      BY <1>2, <1>3, <1>6 DEF Types
    <2> QED
      BY <1>1, <1>12, <2>1, <2>2 DEF Types, PcRight
  <1>14. OrdersRight'
    BY <1>1 DEF OrdersRight
  <1>15. OpenRight' /\ GroupsRight' /\ LotsRight'
    <2>1. \A o : Noted(o) /\ Noted(o)'
      BY <1>1, <1>4 DEF Noted
    <2> QED
      BY <1>1, <1>4, <1>7, <2>1 DEF OpenRight, GroupsRight, LotsRight
  <1>16. CloseRight'
    <2>1. cgs'[k] = new /\ \A l \in CloseKeys : l # k => cgs'[l] = NoGroup
      BY <1>2, <1>3, <1>5 DEF Types
    <2>2. Marked(k, new)'
      BY <1>1, <1>5, <1>6, <1>7 DEF Marked
    <2>3. Parts(new)'
      BY <1>7, <1>9 DEF Parts, OneNew, OneHeard, BothNew, SecondNew, SecondHeard
    <2>4. Account(0)'
      BY <1>1, <1>5, <1>7 DEF Account
    <2>5. new # NoGroup
      BY <1>6 DEF Closes, NoGroup
    <2>6. CloseNoted(k)'
      BY <1>1, <1>4, <1>5, <1>6, <2>1, <2>2, <2>3, <2>4, <2>5 DEF CloseNoted
    <2> QED
      BY <1>3, <2>6 DEF CloseRight
  <1>17. RedisRight'
    <2>1. Needed' = Needed
      BY <1>1, <1>4, <1>7 DEF Needed, Noted
    <2>2. \A g : Saved(g)' = book.grp[g]
      BY <1>1, <1>4 DEF Saved, Marking
    <2>3. \A g \in Needed : db'.grp[g] = book.grp[g]
      BY <1>11, <1>12
    <2> QED
      BY <1>1, <1>12, <2>1, <2>2, <2>3 DEF RedisRight
  <1>18. StopRight'
    BY <1>1, <1>4, <1>7 DEF StopRight
  <1> QED
    BY <1>13, <1>14, <1>15, <1>16, <1>17, <1>18
(* The end of close: the lots being closed are counted.                    *)
LEMMA CountClosingKeeps ==
    ASSUME Core, CountClosing
    PROVE  Core'
  <1>1. /\ state = "up" /\ pc.at = "added" /\ pc.kind = "close" /\ pc' = Idle
        /\ UNCHANGED <<cgs, flight, held, odd, state>>
    BY DEF CountClosing
  <1>2. PICK k, n, b : /\ k = pc.key /\ n = pc.cg.quantity /\ b = [book EXCEPT !.txn.closing = n]
                       /\ book' = b /\ db' = SaveTxn(db, b)
    BY DEF CountClosing
  <1>3. pc \in ClosePcs /\ k \in CloseKeys
    BY <1>1, <1>2 DEF Core, Types, PcRight, OpenPcs, ClosePcs, Idle, At
  <1>4. /\ CloseNoted(k) /\ book.txn.closing = 0 /\ n = cgs[k].quantity /\ n \in Nat
        /\ \A l \in CloseKeys : l # k => cgs[l] = NoGroup
        /\ Marked(k, cgs[k]) /\ Parts(cgs[k]) /\ Account(cgs[k].filled) /\ cgs[k] # NoGroup
    <2>1. CloseNoted(k)
      BY <1>1, <1>2 DEF Core, CloseRight, NoClosing, CloseSent, CloseNoted
    <2>2. pc.cg \in Closes
      BY <1>3 DEF ClosePcs
    <2> QED
      BY <1>1, <1>2, <1>3, <2>1, <2>2 DEF CloseNoted, Closes
  <1>5. book \in Books /\ db \in Books
    BY DEF Core, Types
  <1>6. /\ b \in Books /\ b.slots = book.slots /\ b.costs = book.costs /\ b.grp = book.grp
        /\ b.txn.open = book.txn.open /\ b.txn.opening = book.txn.opening /\ b.txn.closing = n
        /\ b.txn.lock = book.txn.lock /\ b.txn.lockable = book.txn.lockable /\ b.txn.status = book.txn.status
    <2>1. PICK x : x = book /\ x \in Books
      BY <1>5
    <2>2. LET c == [x EXCEPT !.txn.closing = n]
          IN  /\ c \in Books /\ c.slots = x.slots /\ c.costs = x.costs /\ c.grp = x.grp
              /\ c.txn.open = x.txn.open /\ c.txn.opening = x.txn.opening /\ c.txn.closing = n
              /\ c.txn.lock = x.txn.lock /\ c.txn.lockable = x.txn.lockable /\ c.txn.status = x.txn.status
      BY <1>4, <2>1, ClosingWritten
    <2> QED
      BY <1>2, <2>1, <2>2
  <1>7. /\ db' \in Books /\ db'.slots = db.slots /\ db'.costs = db.costs /\ db'.grp = db.grp
        /\ db'.txn.status = b.txn.status /\ SameCounters(db'.txn, b.txn)
    <2>1. PICK x : x = db /\ x \in Books
      BY <1>5
    <2>2. x.txn.lock = b.txn.lock /\ x.txn.lockable = b.txn.lockable
      BY <1>6, <2>1 DEF Core, RedisRight, SameCounters
    <2>3. LET e == SaveTxn(x, b)
          IN  /\ e \in Books /\ e.slots = x.slots /\ e.costs = x.costs /\ e.grp = x.grp
              /\ e.txn.status = b.txn.status
              /\ e.txn.open = b.txn.open /\ e.txn.opening = b.txn.opening /\ e.txn.closing = b.txn.closing
              /\ e.txn.lock = x.txn.lock /\ e.txn.lockable = x.txn.lockable
      BY <1>6, <2>1, SavedTxn
    <2> QED
      BY <1>2, <2>1, <2>2, <2>3 DEF SameCounters
  <1>8. Sells' = Sells /\ Opens' = Opens /\ Fresh' = Fresh /\ Listed' = Listed /\ Level' = Level /\ Holding' = Holding
    BY <1>1, <1>2, <1>6 DEF Sells, Opens, Fresh, Listed, Level, Holding
  <1>9. pc'.kind = "none" /\ \A o : Noted(o) /\ Noted(o)'
    BY <1>1 DEF Noted, Idle
  <1> USE DEF Core
  <1>10. Types'
    BY <1>1, <1>2, <1>6, <1>7 DEF Types, PcRight
  <1>11. OrdersRight'
    BY <1>1 DEF OrdersRight
  <1>12. OpenRight' /\ GroupsRight' /\ LotsRight'
    BY <1>1, <1>2, <1>6, <1>8, <1>9 DEF OpenRight, GroupsRight, LotsRight
  <1>13. CloseRight'
    <2>1. Marked(k, cgs[k])'
      BY <1>1, <1>2, <1>4, <1>6, <1>8 DEF Marked
    <2>2. Parts(cgs[k])'
      BY <1>1, <1>4, <1>8 DEF Parts, OneNew, OneHeard, BothNew, SecondNew, SecondHeard
    <2>3. Account(cgs[k].filled)'
      BY <1>1, <1>4, <1>8 DEF Account
    <2>4. CloseNoted(k)'
      BY <1>1, <1>2, <1>4, <1>6, <1>9, <2>1, <2>2, <2>3 DEF CloseNoted
    <2> QED
      BY <1>3, <2>4 DEF CloseRight
  <1>14. RedisRight'
    <2>1. Needed' = Needed
      BY <1>8, <1>9 DEF Needed
    <2>2. \A g : Saved(g)' = Saved(g)
      BY <1>1, <1>2, <1>6, <1>9 DEF Saved, Marking
    <2> QED
      BY <1>2, <1>6, <1>7, <2>1, <2>2 DEF RedisRight
  <1>15. StopRight'
    BY <1>1, <1>2, <1>6, <1>8, <1>9 DEF StopRight
  <1> QED
    BY <1>10, <1>11, <1>12, <1>13, <1>14, <1>15

(* No order under way: nothing is closing, and nothing opening.            *)
LEMMA NoneInFlight ==
    ASSUME Core, flight = {}, pc.kind = "none"
    PROVE  /\ NoClosing /\ Opens = {} /\ Fresh = {} /\ Holding = Listed /\ Needed = Listed
           /\ book.txn.opening = 0 /\ book.slots[1].opening = 0 /\ held = Level /\ Level \in Int
  <1>1. Opens = {} /\ Fresh = {} /\ Sells = {} /\ Holding = Listed /\ Needed = Listed
    BY DEF Opens, Fresh, Sells, Holding, Needed
  <1>2. ~CloseSent
    BY DEF CloseSent
  <1>3. ASSUME NEW k \in CloseKeys PROVE ~CloseNoted(k)
    BY <1>1 DEF CloseNoted, Parts, OneNew, OneHeard, BothNew, SecondNew, SecondHeard
  <1>4. NoClosing
    BY <1>2, <1>3 DEF Core, CloseRight
  <1>5. book.txn.opening \in Nat /\ Level \in Int
    BY BookParts DEF Core, Types, Level
  <1>6. book.txn.opening = 0 /\ book.slots[1].opening = 0
    BY <1>1, <1>5 DEF Core, OpenRight
  <1>7. UnheardIn(flight) = 0
    BY SumOfNone DEF UnheardIn, SumFunction
  <1>8. held = Level
    BY <1>4, <1>5, <1>7 DEF NoClosing, Account
  <1> QED
    BY <1>1, <1>4, <1>5, <1>6, <1>8

(* The process dies between two ticks; no order is under way.              *)
LEMMA CrashKeeps ==
    ASSUME Core, Calm', Crash
    PROVE  Core'
  <1>1. /\ state' = "down" /\ pc' = Idle /\ flight' = {} /\ UNCHANGED <<book, db, held>>
        /\ cgs' = [k \in CloseKeys |-> NoGroup]
        /\ Meets(IF Quiet THEN {} ELSE {"crash"})
    BY DEF Crash
  <1>2. Quiet /\ odd' = odd
    BY <1>1, CalmShows DEF Meets
  <1>3. flight = {} /\ pc.kind = "none"
    BY <1>2 DEF Quiet, Core, Types, PcRight, Idle, At, OpenPcs, ClosePcs
  <1>4. NoClosing /\ Opens = {} /\ Fresh = {} /\ Holding = Listed /\ Needed = Listed /\ book.txn.opening = 0
    BY <1>3, NoneInFlight
  <1>5. flight' = flight /\ pc'.kind = "none" /\ \A o : Noted(o) /\ Noted(o)'
    BY <1>1, <1>3 DEF Idle, Noted
  <1>6. Opens' = Opens /\ Fresh' = Fresh /\ Sells' = Sells /\ Listed' = Listed /\ Level' = Level
        /\ Holding' = Holding /\ Needed' = Needed
    BY <1>1, <1>5 DEF Opens, Fresh, Sells, Listed, Level, Holding, Needed
  <1> USE DEF Core
  <1>7. Types' /\ OrdersRight'
    BY <1>1, <1>5 DEF Types, PcRight, OrdersRight
  <1>8. OpenRight' /\ GroupsRight' /\ LotsRight'
    BY <1>1, <1>3, <1>4, <1>5, <1>6 DEF OpenRight, GroupsRight, LotsRight
  <1>9. CloseRight'
    BY <1>1, <1>4, <1>5, <1>6 DEF CloseRight, NoClosing, Account
  <1>10. RedisRight'
    BY <1>1, <1>3, <1>5, <1>6 DEF RedisRight, Saved, Marking
  <1>11. StopRight'
    BY <1>1, <1>2, <1>5, <1>6 DEF StopRight
  <1> QED
    BY <1>7, <1>8, <1>9, <1>10, <1>11
(* What a restart loads.                                                   *)
LEMMA StartedBook ==
    ASSUME NEW d \in Books, NEW b,
           b = Started([txn |-> LoadTxn(d), slots |-> d.slots, costs |-> d.costs,
                        grp |-> LoadGroups(d, NamedGroups(d.costs))])
    PROVE  /\ b \in Books /\ b.slots = d.slots /\ b.costs = d.costs /\ SameCounters(b.txn, d.txn)
           /\ b.txn.status = (IF d.txn.status = "NEW" THEN "RUNNING" ELSE d.txn.status)
           /\ \A g \in Keys : g \in ToSet(d.costs) => b.grp[g] = d.grp[g]
  <1>1. PICK grp, c, s, t :
           /\ grp = LoadGroups(d, NamedGroups(d.costs))
           /\ c = [txn |-> d.txn, slots |-> d.slots, costs |-> d.costs, grp |-> grp]
           /\ s = (IF d.txn.status = "NEW" THEN "RUNNING" ELSE d.txn.status)
           /\ t = [d.txn EXCEPT !.status = s]
    OBVIOUS
  <1>2. /\ d.txn \in Txns /\ d.slots \in [1..1 -> Slots] /\ d.costs \in Seq(Keys)
        /\ d.grp \in [Keys -> Groups \cup {NoGroup}] /\ d.txn.status \in Status
    BY BookParts
  <1>3. grp \in [Keys -> Groups \cup {NoGroup}] /\ \A g \in Keys : g \in ToSet(d.costs) => grp[g] = d.grp[g]
    BY <1>1, <1>2 DEF LoadGroups, NamedGroups
  <1>4. c \in Books /\ c.txn = d.txn /\ c.slots = d.slots /\ c.costs = d.costs /\ c.grp = grp
    BY <1>1, <1>2, <1>3 DEF Books
  <1>5. s \in Status
    BY <1>1, <1>2 DEF Status
  <1>6. t \in Txns /\ SameCounters(t, d.txn) /\ t.status = s
    BY <1>1, <1>2, <1>5 DEF Txns, SameCounters
  <1>7. b = [c EXCEPT !.txn = t]
    <2>1. b = Started(c)
      BY <1>1 DEF LoadTxn
    <2>2. Started(c) = [c EXCEPT !.txn.status = IF c.txn.status = "NEW" THEN "RUNNING" ELSE c.txn.status]
      BY DEF Started
    <2> QED
      BY <1>1, <1>4, <2>1, <2>2
  <1>8. b \in Books /\ b.txn = t /\ b.slots = c.slots /\ b.costs = c.costs /\ b.grp = c.grp
    BY <1>4, <1>6, <1>7 DEF Books
  <1> QED
    BY <1>1, <1>3, <1>4, <1>6, <1>8

(* The assertions of load_long_txn hold when no order is under way.        *)
LEMMA QuietLoads ==
    ASSUME Core, flight = {}, pc.kind = "none"
    PROVE  LoadAsserts
  <1>1. NoClosing /\ Needed = Listed /\ book.txn.opening = 0 /\ book.slots[1].opening = 0
    BY NoneInFlight
  <1>2. /\ db.slots = book.slots /\ db.costs = book.costs /\ SameCounters(db.txn, book.txn)
        /\ \A g \in Listed : db.grp[g] = book.grp[g]
    BY <1>1 DEF Core, RedisRight, Saved, Marking
  <1>3. db.slots[1].open <= Slot
    BY <1>2 DEF Core, LotsRight, Level
  <1>4. \A g \in NamedGroups(db.costs) : db.grp[g].closing = 0
    BY <1>1, <1>2 DEF NoClosing, NamedGroups, Listed
  <1> QED
    BY <1>1, <1>2, <1>3, <1>4 DEF LoadAsserts, SameCounters, NoClosing

(* What a restart loads is right.                                          *)
LEMMA LoadKeeps ==
    ASSUME Core, Load
    PROVE  Core'
  <1>1. state = "down" /\ pc = Idle /\ flight = {} /\ UNCHANGED <<db, cgs, pc, flight, held, odd>>
    BY DEF Load, Core, Types
  <1>2. pc.kind = "none"
    BY <1>1 DEF Idle
  <1>3. /\ NoClosing /\ Opens = {} /\ Fresh = {} /\ Holding = Listed /\ Needed = Listed
        /\ book.txn.opening = 0 /\ book.slots[1].opening = 0 /\ Level \in Int
    BY <1>1, <1>2, NoneInFlight
  <1> USE DEF Core
  <1>4. /\ book \in Books /\ db \in Books /\ db.slots = book.slots /\ db.costs = book.costs
        /\ SameCounters(db.txn, book.txn)
        /\ db.txn.status \in {"EXIT", "STOP"} => book.txn.status = db.txn.status
        /\ \A g \in Listed : db.grp[g] = book.grp[g]
    BY <1>2, <1>3 DEF Types, RedisRight, Saved, Marking
  <1>5. LoadAsserts
    BY <1>1, <1>2, QuietLoads
  <1>6. state' = "up" /\ book' = Started(Loaded)
    BY <1>5 DEF Load
  <1>7. /\ book' \in Books /\ book'.slots = db.slots /\ book'.costs = db.costs /\ SameCounters(book'.txn, db.txn)
        /\ book'.txn.status = (IF db.txn.status = "NEW" THEN "RUNNING" ELSE db.txn.status)
        /\ \A g \in Keys : g \in ToSet(db.costs) => book'.grp[g] = db.grp[g]
    <2>1. PICK d, b : d = db /\ b = book'
      OBVIOUS
    <2>2. d \in Books /\ b = Started([txn |-> LoadTxn(d), slots |-> d.slots, costs |-> d.costs,
                                      grp |-> LoadGroups(d, NamedGroups(d.costs))])
      BY <1>4, <1>6, <2>1 DEF Loaded
    <2>3. /\ b \in Books /\ b.slots = d.slots /\ b.costs = d.costs /\ SameCounters(b.txn, d.txn)
          /\ b.txn.status = (IF d.txn.status = "NEW" THEN "RUNNING" ELSE d.txn.status)
          /\ \A g \in Keys : g \in ToSet(d.costs) => b.grp[g] = d.grp[g]
      BY ONLY <2>2, StartedBook
    <2> QED
      BY <2>1, <2>3
  <1>8. /\ Opens' = {} /\ Fresh' = {} /\ Sells' = {} /\ Listed' = Listed /\ Level' = Level
        /\ Holding' = Listed /\ Needed' = Listed
    BY <1>1, <1>4, <1>7 DEF Opens, Fresh, Sells, Listed, Level, Holding, Needed
  <1>9. \A g \in Listed : g \in Keys /\ book'.grp[g] = book.grp[g]
    BY <1>4, <1>7, FewGroups DEF Listed
  <1>10. Types' /\ OrdersRight'
    BY <1>1, <1>6, <1>7 DEF Types, PcRight, OrdersRight
  <1>11. OpenRight' /\ GroupsRight'
    BY <1>1, <1>2, <1>3, <1>4, <1>7, <1>8 DEF OpenRight, GroupsRight, SameCounters
  <1>12. LotsRight'
    <2>1. LotsIn(book'.grp, Listed) = LotsIn(book.grp, Listed)
      BY <1>9, FewGroups, SameLots
    <2> QED
      BY <1>3, <1>4, <1>7, <1>8, <1>9, <2>1 DEF LotsRight, SameCounters
  <1>13. CloseRight'
    BY <1>1, <1>2, <1>3, <1>4, <1>7, <1>8, <1>9 DEF CloseRight, NoClosing, Account, SameCounters
  <1>14. RedisRight'
    BY <1>1, <1>2, <1>4, <1>7, <1>8, <1>9 DEF RedisRight, Saved, Marking, SameCounters
  <1>15. StopRight'
    BY <1>1, <1>2, <1>4, <1>7, <1>8 DEF StopRight
  <1> QED
    BY <1>10, <1>11, <1>12, <1>13, <1>14, <1>15

(* A new transaction.                                                      *)
LEMMA InitIsRight ==
    ASSUME Init
    PROVE  Core
  <1>1. PICK slots, grp, d :
           /\ slots = ExtendTxnSlots(<<>>, <<Slot>>) /\ grp = [g \in Keys |-> NoGroup]
           /\ d = [txn |-> NewTxn, slots |-> slots, costs |-> <<>>, grp |-> grp]
           /\ db = d /\ book = Started(d)
    BY DEF Init
  <1>2. slots \in [1..1 -> Slots] /\ slots[1] = EmptySlot(Slot)
    <2>1. Clip(Len(<<Slot>>) - Len(<<>>), SlotBlock) = 1
      BY TimeLineAssumption DEF Clip, Least
    <2>2. slots = <<>> \o [i \in 1..1 |-> EmptySlot(<<Slot>>[Len(<<>>) + i])]
      BY <1>1, <2>1 DEF ExtendTxnSlots
    <2>3. [i \in 1..1 |-> EmptySlot(<<Slot>>[Len(<<>>) + i])] = <<EmptySlot(Slot)>>
      OBVIOUS
    <2>4. slots = <<EmptySlot(Slot)>>
      BY <2>2, <2>3
    <2>5. EmptySlot(Slot) \in Slots
      BY TimeLineAssumption DEF EmptySlot, Slots
    <2> QED
      BY <2>4, <2>5
  <1>3. NewTxn \in Txns
    BY DEF NewTxn, Txns, Status
  <1>4. d \in Books /\ d.txn = NewTxn /\ d.slots = slots /\ d.costs = <<>> /\ d.grp = grp
    BY <1>1, <1>2, <1>3 DEF Books
  <1>5. PICK t : t = [NewTxn EXCEPT !.status = "RUNNING"]
    OBVIOUS
  <1>6. t \in Txns /\ SameCounters(t, NewTxn) /\ t.status = "RUNNING"
    BY <1>3, <1>5 DEF Txns, Status, SameCounters
  <1>7. book = [d EXCEPT !.txn = t]
    BY <1>1, <1>4, <1>5 DEF Started, NewTxn
  <1>8. book \in Books /\ book.txn = t /\ book.slots = slots /\ book.costs = <<>> /\ book.grp = grp
    BY <1>4, <1>6, <1>7 DEF Books
  <1>9. /\ cgs = [k \in CloseKeys |-> NoGroup] /\ pc = Idle /\ flight = {} /\ held = 0 /\ state = "up"
        /\ pc.kind = "none"
    BY DEF Init, Idle
  <1>10. /\ NewTxn.open = 0 /\ NewTxn.opening = 0 /\ NewTxn.closing = 0 /\ NewTxn.status = "NEW"
         /\ EmptySlot(Slot).open = 0 /\ EmptySlot(Slot).opening = 0 /\ EmptySlot(Slot).capacity = Slot
    BY DEF NewTxn, EmptySlot
  <1>11. Opens = {} /\ Fresh = {} /\ Sells = {} /\ Listed = {} /\ Level = 0 /\ Holding = {} /\ Needed = {}
    BY <1>2, <1>8, <1>9, <1>10 DEF Opens, Fresh, Sells, Listed, Level, Holding, Needed, ToSet
  <1>12. Types /\ OrdersRight
    BY <1>1, <1>4, <1>8, <1>9, FS_EmptySet DEF Types, PcRight, OrdersRight
  <1>13. OpenRight /\ GroupsRight
    BY <1>2, <1>6, <1>8, <1>9, <1>10, <1>11 DEF OpenRight, GroupsRight, SameCounters
  <1>14. LotsRight
    <2>1. LotsIn(book.grp, {}) = 0
      BY SumOfNone DEF LotsIn, SumFunction
    <2>2. IsInjective(book.costs)
      BY <1>8 DEF IsInjective
    <2> QED
      BY <1>6, <1>8, <1>10, <1>11, <2>1, <2>2, TimeLineAssumption DEF LotsRight, SameCounters
  <1>15. CloseRight
    <2>1. UnheardIn(flight) = 0
      BY <1>9, SumOfNone DEF UnheardIn, SumFunction
    <2> QED
      BY <1>6, <1>8, <1>9, <1>10, <1>11, <2>1 DEF CloseRight, NoClosing, Account, SameCounters
  <1>16. RedisRight
    BY <1>1, <1>4, <1>6, <1>8, <1>10, <1>11 DEF RedisRight, SameCounters
  <1>17. StopRight
    BY <1>6, <1>8 DEF StopRight
  <1> QED
    BY <1>12, <1>13, <1>14, <1>15, <1>16, <1>17 DEF Core
(* A step that changes nothing.                                            *)
LEMMA StutterKeeps ==
    ASSUME Core, UNCHANGED vars
    PROVE  Core'
  <1>1. UNCHANGED <<book, db, cgs, pc, flight, held, odd, state>>
    BY DEF vars
  <1>2. /\ Sells' = Sells /\ Opens' = Opens /\ Fresh' = Fresh /\ Listed' = Listed /\ Level' = Level
        /\ Holding' = Holding /\ Needed' = Needed /\ \A o : Noted(o)' = Noted(o)
    BY <1>1 DEF Sells, Opens, Fresh, Listed, Level, Holding, Needed, Noted
  <1> USE DEF Core
  <1>3. Types' /\ OrdersRight' /\ OpenRight' /\ GroupsRight' /\ LotsRight' /\ StopRight'
    BY <1>1, <1>2 DEF Types, PcRight, OrdersRight, OpenRight, GroupsRight, LotsRight, StopRight
  <1>4. RedisRight'
    BY <1>1, <1>2 DEF RedisRight, Saved, Marking
  <1>5. CloseRight'
    <2>1. \A f : Account(f)' = Account(f)
      BY <1>1, <1>2 DEF Account
    <2>2. \A cg : (Parts(cg)' <=> Parts(cg)) /\ (OneNew(cg)' <=> OneNew(cg)) /\ (BothNew(cg)' <=> BothNew(cg))
      BY <1>2 DEF Parts, OneNew, OneHeard, BothNew, SecondNew, SecondHeard
    <2>3. \A k, cg : Marked(k, cg)' <=> Marked(k, cg)
      BY <1>1, <1>2 DEF Marked
    <2>4. (NoClosing => NoClosing') /\ (CloseSent => CloseSent')
      BY <1>1, <1>2, <2>1, <2>2, <2>3 DEF NoClosing, CloseSent
    <2>5. \A k \in CloseKeys : CloseNoted(k) => CloseNoted(k)'
      BY <1>1, <2>1, <2>2, <2>3 DEF CloseNoted
    <2> QED
      BY <2>4, <2>5 DEF CloseRight
  <1> QED
    BY <1>3, <1>4, <1>5

(* Oddities are never forgotten.                                           *)
LEMMA OddStays ==
    ASSUME Next
    PROVE  odd \subseteq odd'
  <1>1. \A shown : Meets(shown) => odd \subseteq odd'
    BY DEF Meets
  <1>2. CASE HandleTick
    BY <1>1, <1>2 DEF HandleTick, HandleTxnStatus, BuyOpen, Open, AddOpenGroup, CountOpening,
                      SellClose, Close, NoClose, AddCloseGroup, CountClosing
  <1>3. CASE BeforeTrading \/ TimePasses
    BY <1>3 DEF BeforeTrading, TimePasses
  <1>4. CASE \E o \in flight : Exchange(o) \/ OnOrder(o) \/ OnTrade(o)
    BY <1>1, <1>4 DEF Exchange, OnOrder, OnTrade
  <1>5. CASE Crash \/ Load
    BY <1>1, <1>5 DEF Crash, Load
  <1> QED
    BY <1>2, <1>3, <1>4, <1>5 DEF Next

(* Every step keeps the invariant.                                         *)
LEMMA NextKeeps ==
    ASSUME IInv, [Next]_vars
    PROVE  IInv'
  <1> SUFFICES ASSUME Calm' PROVE Core'
    BY DEF IInv
  <1>1. Calm
    BY OddStays DEF Calm, vars
  <1>2. Core
    BY <1>1 DEF IInv
  <1>3. CASE HandleTick
    BY <1>2, <1>3, HandleTxnStatusKeeps, OpenKeeps, AddOpenGroupKeeps, CountOpeningKeeps, CloseKeeps,
       NoCloseKeeps, AddCloseGroupKeeps, CountClosingKeeps DEF HandleTick, BuyOpen, SellClose
  <1>4. CASE BeforeTrading \/ TimePasses
    BY <1>2, <1>4, BeforeTradingKeeps, TimePassesKeeps
  <1>5. CASE \E o \in flight : Exchange(o) \/ OnOrder(o) \/ OnTrade(o)
    BY <1>2, <1>5, ExchangeKeeps, OnOrderKeeps, OnTradeKeeps
  <1>6. CASE Crash \/ Load
    BY <1>2, <1>6, CrashKeeps, LoadKeeps
  <1>7. CASE UNCHANGED vars
    BY <1>2, <1>7, StutterKeeps
  <1> QED
    BY <1>3, <1>4, <1>5, <1>6, <1>7 DEF Next

(* The inductive invariant: as long as the exchange behaves as the code    *)
(* is written for, the book in memory and in redis, the orders under way   *)
(* and the account fit together.                                           *)
THEOREM Invariance == Spec => []IInv
  <1>1. Init => IInv
    BY InitIsRight DEF IInv
  <1>2. IInv /\ [Next]_vars => IInv'
    BY NextKeeps
  <1> QED
    BY <1>1, <1>2, PTL DEF Spec
-----------------------------------------------------------------------------
(* The properties.                                                         *)

(* Close orders, and opens that were heard, bring no lots any more.        *)
LEMMA NoLotsToCome ==
    ASSUME NEW S \in SUBSET Orders, IsFiniteSet(S), \A o \in S : Unheard(o) \in Int /\ Unheard(o) <= 0
    PROVE  UnheardIn(S) \in Int /\ UnheardIn(S) <= 0
  <1> DEFINE f == [o \in S |-> 0]
             n == [o \in S |-> 0 - Unheard(o)]
             h == [o \in S |-> Unheard(o)]
  <1>1. \A o \in S : f[o] = 0 /\ f[o] \in Int /\ n[o] \in Nat /\ n[o] \in Int /\ h[o] \in Int /\ h[o] = f[o] - n[o]
    OBVIOUS
  <1>2. UnheardIn(S) = SumFunctionOnSet(h, S)
    BY DEF UnheardIn, SumFunction
  <1> HIDE DEF f, n, h
  <1>3. SumFunctionOnSet(h, S) = SumFunctionOnSet(f, S) - SumFunctionOnSet(n, S)
    BY <1>1, SumOfDifference
  <1>4. SumFunctionOnSet(f, S) = 0 /\ SumFunctionOnSet(n, S) \in Nat
    BY <1>1, SumOfZeros, SumIsNat
  <1> QED
    BY <1>2, <1>3, <1>4

(* What the orders under way may still bring to the account.               *)
LEMMA LotsToCome ==
    ASSUME Core
    PROVE  LET Undecided == {o \in flight : o.kind = "open" /\ o.result = -1}
               sum == SumFunction([o \in Undecided |-> o.quantity])
           IN  UnheardIn(flight) \in Int /\ sum \in Int /\ UnheardIn(flight) + sum <= Slot - Level
  <1> DEFINE U == {o \in flight : o.kind = "open" /\ o.result = -1}
             q == [o \in U |-> o.quantity]
  <1>1. /\ flight \subseteq Orders /\ IsFiniteSet(flight) /\ \A o \in flight : OrderRight(o)
        /\ Level \in Int /\ Slot \in Nat /\ Level <= Slot
    BY BookParts, TimeLineAssumption DEF Core, Types, OrdersRight, LotsRight, Level
  <1>2. \A o \in flight : o.result \in Int /\ o.quantity \in Nat /\ o.result <= o.quantity
    BY <1>1 DEF Orders, OrderRight
  <1>3. \A o \in flight \ Fresh : Unheard(o) \in Int /\ Unheard(o) <= 0
    BY <1>1, <1>2 DEF Unheard, Fresh, Opens, Orders
  <1>4. U \subseteq Fresh /\ SumFunction(q) = SumFunctionOnSet(q, U)
    BY <1>1 DEF Fresh, Opens, OrderRight, SumFunction
  <1>5. CASE Fresh = {}
    <2>1. UnheardIn(flight) \in Int /\ UnheardIn(flight) <= 0
      BY <1>1, <1>3, <1>5, NoLotsToCome
    <2>2. U = {}
      BY <1>4, <1>5
    <2> HIDE DEF q, U
    <2>3. SumFunction(q) = 0
      BY <1>4, <2>2, SumOfNone
    <2> QED
      BY <1>1, <2>1, <2>3 DEF q, U
  <1>6. ASSUME NEW o \in Fresh
         PROVE  /\ UnheardIn(flight) \in Int /\ SumFunction(q) \in Int
                /\ UnheardIn(flight) + SumFunction(q) <= Slot - Level
    <2>1. /\ o \in flight /\ o \in Orders /\ o.kind = "open" /\ o.news /\ Fresh = {o}
          /\ Level + o.quantity <= Slot
      BY <1>1 DEF Fresh, Opens, Core, OpenRight
    <2>2. UnheardIn(flight \ {o}) = UnheardIn(flight) - Unheard(o) /\ UnheardIn(flight) \in Int /\ Unheard(o) \in Int
      BY <1>1, <2>1, OneOrder
    <2>3. UnheardIn(flight \ {o}) <= 0
      <3>1. flight \ {o} \in SUBSET Orders /\ IsFiniteSet(flight \ {o})
            /\ \A p \in flight \ {o} : Unheard(p) \in Int /\ Unheard(p) <= 0
        BY <1>1, <1>3, <2>1, FS_RemoveElement
      <3> QED
        BY <3>1, NoLotsToCome
    <2>4. CASE o.result = -1
      <3>1. U = {o} /\ Unheard(o) = 0
        BY <1>4, <2>1, <2>4 DEF Unheard
      <3>2. q[o] = o.quantity
        BY <3>1
      <3> HIDE DEF q, U
      <3>3. SumFunctionOnSet(q, {o}) = q[o] + SumFunctionOnSet(q, {})
        <4>1. IsFiniteSet({o}) /\ {o} \ {o} = {} /\ \A x \in {o} : q[x] \in Int
          <5>1. o.quantity \in Int
            BY <1>2, <2>1
          <5> QED
            BY <3>2, <5>1, FS_Singleton
        <4> QED
          BY <4>1, SumTakeOut
      <3>4. SumFunction(q) = o.quantity
        BY <1>2, <1>4, <2>1, <3>1, <3>2, <3>3, SumOfNone
      <3> QED
        BY <1>1, <1>2, <2>1, <2>2, <2>3, <3>1, <3>4
    <2>5. CASE o.result # -1
      <3>1. U = {} /\ Unheard(o) <= o.quantity
        <4>1. U = {}
          BY <1>4, <2>1, <2>5
        <4>2. Unheard(o) <= o.quantity
          BY <1>2, <2>1 DEF Unheard
        <4> QED
          BY <4>1, <4>2
      <3> HIDE DEF q, U
      <3>2. SumFunction(q) = 0
        BY <1>4, <3>1, SumOfNone
      <3> QED
        BY <1>1, <1>2, <2>1, <2>2, <2>3, <3>1, <3>2
    <2> QED
      BY <2>4, <2>5
  <1> QED
    BY <1>5, <1>6

(* What was filled of the close order, and is not booked, is no debt.      *)
LEMMA SomeFilled ==
    ASSUME Core
    PROVE  \E filled \in Nat : Account(filled)
  <1>1. NoClosing \/ CloseSent => Account(0)
    BY DEF NoClosing, CloseSent
  <1>2. ASSUME NEW k \in CloseKeys, CloseNoted(k) PROVE cgs[k].filled \in Nat /\ Account(cgs[k].filled)
    <2>1. cgs[k] \in Closes
      BY <1>2 DEF CloseNoted, Core, Types
    <2> QED
      BY <1>2, <2>1 DEF CloseNoted, Closes
  <1> QED
    BY <1>1, <1>2 DEF Core, CloseRight

(* WithinSlot, for every slot and every volume: open() looks at the slot,  *)
(* which only the news of the order fills, and at opening, which the same  *)
(* news clears.                                                            *)
THEOREM SlotHolds == Spec => []WithinSlot
  <1>1. IInv => WithinSlot
    <2> SUFFICES ASSUME Core
                 PROVE  LET Undecided == {o \in flight : o.kind = "open" /\ o.result = -1}
                        IN  held + SumFunction([o \in Undecided |-> o.quantity]) <= Slot
      BY DEF IInv, Calm, WithinSlot, Sound
    <2>1. PICK filled \in Nat : held = Level - filled + UnheardIn(flight)
      BY SomeFilled DEF Account
    <2>2. PICK sum : /\ sum = SumFunction([o \in {o \in flight : o.kind = "open" /\ o.result = -1} |-> o.quantity])
                     /\ UnheardIn(flight) \in Int /\ sum \in Int /\ UnheardIn(flight) + sum <= Slot - Level
      BY LotsToCome
    <2>3. Level \in Int /\ Slot \in Nat
      BY BookParts, TimeLineAssumption DEF Core, Types, Level
    <2> QED
      BY <2>1, <2>2, <2>3
  <1> QED
    BY <1>1, Invariance, PTL

(* The lots of the groups behind the costs, in the order of the costs.     *)
LEMMA LotsOfCosts ==
    ASSUME Core
    PROVE  LotsOf(book, book.costs) = LotsIn(book.grp, Listed)
  <1>1. PICK list, grp : list = book.costs /\ grp = book.grp /\ list \in Seq(Keys) /\ IsInjective(list)
    BY BookParts DEF Core, Types, LotsRight
  <1> DEFINE f == [g \in Listed |-> Remain(grp[g])]
             h == [i \in DOMAIN list |-> Remain(grp[list[i]])]
  <1>2. Listed = {list[i] : i \in 1..Len(list)} /\ DOMAIN list = 1..Len(list) /\ Len(list) \in 0..Len(list)
    BY <1>1 DEF Listed, ToSet
  <1>3. \A g \in Listed : Remain(grp[g]) \in Int
    BY <1>1 DEF Core, LotsRight, Holding, Groups, Remain
  <1>4. \A i \in 1..Len(list) : f[list[i]] \in Int /\ h[i] = f[list[i]]
    BY <1>2, <1>3
  <1>5. LotsOf(book, book.costs) = SumFunctionOnSet(h, 1..Len(list))
    <2>1. Remains(book, book.costs) = h
      BY <1>1 DEF Remains
    <2>2. DOMAIN h = 1..Len(list)
      BY <1>2
    <2> HIDE DEF h
    <2> QED
      BY <2>1, <2>2 DEF LotsOf, SumFunction
  <1>6. LotsIn(book.grp, Listed) = SumFunctionOnSet(f, Listed)
    BY <1>1 DEF LotsIn, SumFunction
  <1> HIDE DEF f, h
  <1>7. SumFunctionOnSet(h, 1..Len(list)) = SumFunctionOnSet(f, {list[i] : i \in 1..Len(list)})
    BY <1>1, <1>2, <1>4, SumOfPlaces
  <1> QED
    BY <1>2, <1>5, <1>6, <1>7

(* BookAgrees, for every slot, every volume and any number of groups: when *)
(* no order is under way the counters, the slot, the groups behind the     *)
(* costs and the account agree on the lots.                                *)
THEOREM BooksAgree == Spec => []BookAgrees
  <1>1. IInv => BookAgrees
    <2> SUFFICES ASSUME Core, Quiet
                 PROVE  /\ book.txn.open = held /\ book.slots[1].open = held
                        /\ LotsOf(book, book.costs) = held
                        /\ book.txn.opening = 0 /\ book.slots[1].opening = 0 /\ book.txn.closing = 0
                        /\ \A g \in ToSet(book.costs) : book.grp[g].closing = 0
      BY DEF IInv, Calm, BookAgrees, Sound
    <2>1. flight = {} /\ pc.kind = "none"
      BY DEF Quiet, Core, Types, PcRight, Idle, At, OpenPcs, ClosePcs
    <2>2. /\ NoClosing /\ Holding = Listed /\ held = Level
          /\ book.txn.opening = 0 /\ book.slots[1].opening = 0
      BY <2>1, NoneInFlight
    <2>3. LotsOf(book, book.costs) = held /\ book.txn.open = held
      BY <2>2, LotsOfCosts DEF Core, LotsRight
    <2> QED
      BY <2>2, <2>3 DEF NoClosing, Level, Listed
  <1> QED
    BY <1>1, Invariance, PTL

(* ExitsFlat, for every slot and every volume: a transaction that has left *)
(* holds nothing and has no order under way.                               *)
THEOREM LeavesFlat == Spec => []ExitsFlat
  <1>1. IInv => ExitsFlat
    <2> SUFFICES ASSUME Core, odd \subseteq {"no_position"}, book.txn.status = "EXIT"
                 PROVE  held = 0 /\ flight = {}
      BY DEF IInv, Calm, ExitsFlat, Sound
    <2>1. Opens = {} /\ pc.kind # "open" /\ Level = 0
      BY DEF Core, StopRight
    <2>2. \A k, cg : Marked(k, cg) => cg.quantity <= 0 /\ cg.quantity > 0 /\ cg.quantity \in Int
      BY <2>1, MarkedLots DEF Marked
    <2>3. \A k, cg : ~Marked(k, cg)
      <3>1. \A n \in Int : ~ (n <= 0 /\ n > 0)
        OBVIOUS
      <3> QED
        BY <2>2, <3>1
    <2>4. NoClosing
      BY <2>3 DEF Core, CloseRight, CloseSent, CloseNoted
    <2>5. flight = {}
      <3>1. \A o \in flight : o.kind = "open" \/ o.kind = "close"
        BY DEF Core, Types, Orders
      <3> QED
        BY <2>1, <2>4, <3>1 DEF Opens, NoClosing, Sells
    <2>6. UnheardIn(flight) = 0
      BY <2>5, SumOfNone DEF UnheardIn, SumFunction
    <2> QED
      BY <2>1, <2>4, <2>5, <2>6 DEF NoClosing, Account
  <1> QED
    BY <1>1, Invariance, PTL

(* LoadsRight, for every slot, every volume and any number of groups:      *)
(* between two ticks redis holds what memory holds, and it passes the      *)
(* assertions of load_long_txn when no order is under way.                 *)
THEOREM Reloads == Spec => []LoadsRight
  <1>1. IInv => LoadsRight
    <2> SUFFICES ASSUME Core, pc = Idle
                 PROVE  /\ [db.txn EXCEPT !.status = ""] = [book.txn EXCEPT !.status = ""]
                        /\ db.slots = book.slots /\ db.costs = book.costs
                        /\ \A g \in ToSet(book.costs) : db.grp[g] = book.grp[g]
                        /\ Quiet => LoadAsserts
      BY DEF IInv, Calm, LoadsRight, Sound
    <2>1. pc.kind = "none"
      BY DEF Idle
    <2>2. /\ db.slots = book.slots /\ db.costs = book.costs /\ SameCounters(db.txn, book.txn)
          /\ \A g \in Listed : db.grp[g] = book.grp[g]
      BY <2>1 DEF Core, RedisRight, Saved, Marking, Needed
    <2>3. [db.txn EXCEPT !.status = ""] = [book.txn EXCEPT !.status = ""]
      <3>1. db.txn \in Txns /\ book.txn \in Txns
        BY BookParts DEF Core, Types
      <3> QED
        BY <2>2, <3>1 DEF Txns, SameCounters
    <2>4. Quiet => LoadAsserts
      BY <2>1, QuietLoads DEF Quiet
    <2> QED
      BY <2>2, <2>3, <2>4 DEF Listed
  <1> QED
    BY <1>1, Invariance, PTL
=============================================================================
