--------------------------- MODULE GridStgyProofs ---------------------------
(***************************************************************************)
(* That the grid strategy saves all it changes, for every configuration,   *)
(* any number of groups and any volume of the ticks: between two ticks     *)
(* redis holds the transaction that memory holds (Recoverable).  And that  *)
(* a lock never holds more lots than are open (LockCovers) and always has  *)
(* something left to do (LockGoesOn).                                      *)
(*                                                                         *)
(* The theorems are about the behaviours the code is written for: the      *)
(* exchange sends the final news of an order, then one trade, and the news *)
(* of the second part of a close order after the first part's trade; a     *)
(* restart comes when no order is under way (Calm).  News may overtake the  *)
(* note of its order, the account may hold too little, and the signal may  *)
(* come at any moment.                                                     *)
(*                                                                         *)
(* What is saved from place to place can only be said together with where  *)
(* the strategy thread is, which orders are at the exchange and which      *)
(* lots are marked as being closed for them.  The invariant (Core) is      *)
(* stated of memory and redis as parameters, so that a handler is proved   *)
(* from what it writes, by name, into a book with any other parts.         *)
(* The lots are a second invariant (LockCore) on top of it.                *)
(***************************************************************************)
EXTENDS GridStgy, TxnBookProofs
-----------------------------------------------------------------------------
(* Types.                                                                  *)

Txns   == [status : Status, open : Int, opening : Nat, closing : Nat, lock : Int, lockable : Int]
Slots  == [open : Int, opening : Nat, capacity : Nat]
Frags  == {"NO", "NEED", "RCV_ONE", "RCV_TWO"}
Closes == [type : {"NORMAL", "LOCK"}, quantity : Nat, filled : Nat, frag : Frags,
           groups : Seq(Keys)]
Books  == [txn : Txns, slots : Seq(Slots), costs : Seq(Keys), locks : Seq(Keys),
           grp : [Keys -> Groups \cup {NoGroup}]]
Orders == [kind : Opening \cup Closing, key : Keys \cup CloseKeys, part : {1, 2}, quantity : Nat,
           result : Int, news : BOOLEAN, trades : Nat]
OpenPcs  == [at : {"sent", "added"}, kind : Opening, key : Keys, quantity : Nat, slot : Nat]
ClosePcs == {p \in [at : {"sent", "added"}, kind : Closing, key : CloseKeys, cg : Closes] :
                p.cg.quantity > 0}
Pcs == {Idle} \cup OpenPcs \cup ClosePcs

Types ==
    /\ book \in Books /\ db \in Books
    /\ cgs \in [CloseKeys -> Closes \cup {NoGroup}]
    /\ pc \in Pcs
    /\ flight \in SUBSET Orders /\ IsFiniteSet(flight)
    /\ cfg \in Configs /\ state \in {"up", "down"}
    /\ state = "down" => pc = Idle /\ flight = {}

-----------------------------------------------------------------------------
(* The orders at the exchange: F is the set of them, p where the strategy  *)
(* thread is.                                                              *)

OrderRight(o) ==
    /\ o.quantity > 0 /\ o.result \in -1..o.quantity
    /\ o.result = -1 => o.news
    /\ o.trades = (IF o.result > 0 THEN 1 ELSE 0)
    /\ ~o.news => o.result > 0
    /\ o.kind \in Opening => o.key \in Keys
    /\ o.kind \in Closing => o.key \in CloseKeys
OrdersRight(F) ==
    /\ \A o \in F : OrderRight(o)
    /\ \A o, p \in F : o.kind \in Opening /\ p.kind \in Opening /\ o.key = p.key => o = p
    /\ \A o, p \in F : o.kind = p.kind /\ o.key = p.key /\ o.part = p.part => o = p

OpensOf(F) == {o \in F : o.kind \in Opening}
SellsOf(F) == {o \in F : o.kind \in Closing}
FreshOf(F) == {o \in F : o.kind \in Opening /\ o.news}
KeysOf(S)  == {o.key : o \in S}

(* The strategy thread is between an order and the note of its group.      *)
Sent(p, k) == p.at = "sent" /\ p.kind \in Opening /\ p.key = k

(* At most one order of those that open has no news yet.                   *)
FreshRight(F, p, opening) ==
    /\ \A o, x \in FreshOf(F) : o = x
    /\ \A o \in FreshOf(F) :
          IF p.kind \in Opening THEN p.key = o.key /\ p.kind = o.kind /\ p.quantity = o.quantity
                                ELSE opening = o.quantity
    /\ p.kind \in Opening => opening = 0 /\ (p.at = "sent" => FreshOf(F) # {})

-----------------------------------------------------------------------------
(* Groups and lists.                                                       *)

Listed(costs, locks) == ToSet(costs) \cup ToSet(locks)
TypeOfKind(kind) == IF kind \in {"open", "close"} THEN "NORMAL" ELSE "LOCK"
ClosingKind(type) == IF type = "NORMAL" THEN "close" ELSE "unlock"
ListOf(type, costs, locks) == IF type = "NORMAL" THEN costs ELSE locks

(* The group of an order that opens is in no list before its trade.        *)
Opened(o, group) ==
    /\ group \in Groups
    /\ group.type = TypeOfKind(o.kind) /\ group.quantity = o.quantity
    /\ group.filled = (IF o.news THEN 0 ELSE o.result) /\ group.close = 0 /\ group.closing = 0
GroupsRight(F, p, listed, grp) ==
    \A o \in OpensOf(F) :
        /\ o.key \notin listed
        /\ ~Sent(p, o.key) => Opened(o, grp[o.key])

ListsRight(costs, locks) ==
    IsInjective(costs) /\ IsInjective(locks) /\ ToSet(costs) \cap ToSet(locks) = {}

(* A group in a list has lots, and no more of them being closed than it    *)
(* has.                                                                    *)
Lively(group) == group \in Groups /\ Remain(group) > 0 /\ group.closing <= Remain(group)
LotsRight(listed, grp) == \A g \in listed : Lively(grp[g])

-----------------------------------------------------------------------------
(* Closing: at most one close order of one part or two.                    *)

OneNew(S, cg) == \E o \in S : S = {o} /\ o.news /\ o.quantity = cg.quantity
BothNew(S, cg) ==
    \E o, x \in S : /\ o # x /\ S = {o, x} /\ o.news /\ x.news
                    /\ o.quantity + x.quantity = cg.quantity
OneHeard(S, cg) ==
    \E o \in S : S = {o} /\ ~o.news /\ o.quantity = cg.quantity /\ cg.filled = o.result
SecondNew(S, cg) ==
    \E o \in S : /\ o.news /\ o.quantity + cg.filled <= cg.quantity
                 /\ o.result = 0 => cg.filled = 0
                 /\ \/ S = {o}
                    \/ \E x \in S : S = {o, x} /\ ~x.news /\ cg.filled = x.result
SecondHeard(S, cg) == cg.filled \in 1..cg.quantity /\ \E o \in S : S = {o} /\ ~o.news
Parts(S, cg) ==
    \/ cg.frag = "NO" /\ OneNew(S, cg) /\ cg.filled = 0
    \/ cg.frag = "NO" /\ OneHeard(S, cg)
    \/ cg.frag = "NEED" /\ BothNew(S, cg) /\ cg.filled = 0
    \/ cg.frag = "RCV_ONE" /\ SecondNew(S, cg)
    \/ cg.frag = "RCV_TWO" /\ SecondHeard(S, cg)

(* The lots marked as being closed are those of the groups of the order.   *)
Marked(S, k, cg, costs, locks, grp) ==
    /\ \A o \in S : o.kind = ClosingKind(cg.type) /\ o.key = k
    /\ cg.quantity > 0 /\ IsInjective(cg.groups)
    /\ ToSet(cg.groups) \subseteq ToSet(ListOf(cg.type, costs, locks))
    /\ \A g \in Listed(costs, locks) \ ToSet(cg.groups) : grp[g].closing = 0

NoClosing(S, p, closes, costs, locks, grp, closing) ==
    /\ S = {} /\ \A k \in CloseKeys : closes[k] = NoGroup
    /\ p.kind \in Closing => p.kind = "close" /\ p.at = "added"
    /\ closing = 0 => \A g \in Listed(costs, locks) : grp[g].closing = 0
CloseSent(S, p, closes, costs, locks, grp, closing) ==
    /\ p.kind \in Closing /\ p.at = "sent" /\ p.kind = ClosingKind(p.cg.type)
    /\ closing = (IF p.kind = "close" THEN 0 ELSE p.cg.quantity)
    /\ \A k \in CloseKeys : closes[k] = NoGroup
    /\ Marked(S, p.key, p.cg, costs, locks, grp) /\ p.cg.filled = 0 /\ p.cg.frag = "NO"
    /\ OneNew(S, p.cg) \/ BothNew(S, p.cg)
CloseNoted(k, S, p, closes, costs, locks, grp, closing) ==
    /\ closes[k] # NoGroup /\ \A l \in CloseKeys : l # k => closes[l] = NoGroup
    /\ IF p.kind \in Closing
       THEN /\ p.at = "added" /\ p.kind = "close" /\ p.key = k /\ closing = 0
            /\ closes[k].type = "NORMAL" /\ closes[k].quantity = p.cg.quantity
       ELSE closing = closes[k].quantity
    /\ Marked(S, k, closes[k], costs, locks, grp)
    /\ Parts(S, closes[k])
CloseRight(S, p, closes, costs, locks, grp, closing) ==
    \/ NoClosing(S, p, closes, costs, locks, grp, closing)
    \/ CloseSent(S, p, closes, costs, locks, grp, closing)
    \/ \E k \in CloseKeys : CloseNoted(k, S, p, closes, costs, locks, grp, closing)

-----------------------------------------------------------------------------
(* What redis holds.                                                       *)

Marking(p)  == IF p.kind \in Closing /\ p.at = "sent" THEN ToSet(p.cg.groups) ELSE {}
Saved(p, g, group) == IF g \in Marking(p) THEN WithClosing(group, 0) ELSE group
Needed(F, p, listed) == listed \cup KeysOf({o \in OpensOf(F) : ~Sent(p, o.key)})
GroupsSaved(F, p, listed, grp, saved) ==
    \A g \in Needed(F, p, listed) : saved[g] = Saved(p, g, grp[g])
TxnSaved(p, txn, saved) ==
    txn = saved \/ (p.kind = "unlock" /\ p.at = "sent" /\ saved = [txn EXCEPT !.closing = 0])
SlotsSaved(p, slots, saved) ==
    IF p.kind = "open" /\ p.at = "sent"
    THEN Len(saved) <= Len(slots) /\ saved = SubSeq(slots, 1, Len(saved))
    ELSE saved = slots
RedisRight(F, p, b, d) ==
    /\ TxnSaved(p, b.txn, d.txn)
    /\ SlotsSaved(p, b.slots, d.slots)
    /\ d.costs = b.costs /\ d.locks = b.locks
    /\ GroupsSaved(F, p, Listed(b.costs, b.locks), b.grp, d.grp)

-----------------------------------------------------------------------------
(* The environment has behaved as the code expects, and no handler threw.  *)
Calm == odd \subseteq Harmless \cup {"signal"} /\ state # "failed"
BookCore(F, p, closes, b) ==
    /\ OrdersRight(F)
    /\ FreshRight(F, p, b.txn.opening)
    /\ GroupsRight(F, p, Listed(b.costs, b.locks), b.grp)
    /\ ListsRight(b.costs, b.locks)
    /\ LotsRight(Listed(b.costs, b.locks), b.grp)
    /\ CloseRight(SellsOf(F), p, closes, b.costs, b.locks, b.grp, b.txn.closing)
Core ==
    /\ Types
    /\ BookCore(flight, pc, cgs, book)
    /\ RedisRight(flight, pc, book, db)
IInv == Calm => Core

(* The parts of a book, with their types.                                  *)
LEMMA BookParts ==
    ASSUME NEW b \in Books
    PROVE  /\ b.txn \in Txns /\ b.slots \in Seq(Slots)
           /\ b.costs \in Seq(Keys) /\ b.locks \in Seq(Keys) /\ b.grp \in [Keys -> Groups \cup {NoGroup}]
           /\ b.txn.open \in Int /\ b.txn.opening \in Nat /\ b.txn.closing \in Nat
           /\ b.txn.lock \in Int /\ b.txn.lockable \in Int /\ b.txn.status \in Status
           /\ "grp" \in DOMAIN b
           /\ \A i \in DOMAIN b.slots : /\ b.slots[i] \in Slots /\ b.slots[i].open \in Int
                                        /\ b.slots[i].opening \in Nat /\ b.slots[i].capacity \in Nat
  <1>1. b.txn \in Txns /\ b.slots \in Seq(Slots)
           /\ b.costs \in Seq(Keys) /\ b.locks \in Seq(Keys) /\ b.grp \in [Keys -> Groups \cup {NoGroup}]
           /\ "grp" \in DOMAIN b
    BY DEF Books
  <1>2. /\ b.txn.open \in Int /\ b.txn.opening \in Nat /\ b.txn.closing \in Nat
        /\ b.txn.lock \in Int /\ b.txn.lockable \in Int /\ b.txn.status \in Status
    BY <1>1 DEF Txns
  <1>3. \A i \in DOMAIN b.slots : b.slots[i] \in Slots
    BY <1>1
  <1> QED
    BY <1>1, <1>2, <1>3 DEF Slots

(* Counters that agree one by one are the same.                            *)
LEMMA TxnSame ==
    ASSUME NEW t \in Txns, NEW u \in Txns, t.status = u.status, t.open = u.open,
           t.opening = u.opening, t.closing = u.closing, t.lock = u.lock, t.lockable = u.lockable
    PROVE  t = u
  BY DEF Txns

(* The counters of a book written, and nothing else.                       *)
LEMMA TxnWritten ==
    ASSUME NEW b \in Books, NEW t \in Txns
    PROVE  LET c == [b EXCEPT !.txn = t]
           IN  c \in Books /\ c.txn = t /\ c.slots = b.slots /\ c.costs = b.costs
               /\ c.locks = b.locks /\ c.grp = b.grp
  BY DEF Books

(* The slots of a book written, and nothing else.                          *)
LEMMA SlotsWritten ==
    ASSUME NEW b \in Books, NEW s \in Seq(Slots)
    PROVE  LET c == [b EXCEPT !.slots = s]
           IN  c \in Books /\ c.txn = b.txn /\ c.slots = s /\ c.costs = b.costs
               /\ c.locks = b.locks /\ c.grp = b.grp
  BY DEF Books

(* The costs of a book written, and nothing else.                          *)
LEMMA CostsWritten ==
    ASSUME NEW b \in Books, NEW l \in Seq(Keys)
    PROVE  LET c == [b EXCEPT !.costs = l]
           IN  c \in Books /\ c.txn = b.txn /\ c.slots = b.slots /\ c.costs = l
               /\ c.locks = b.locks /\ c.grp = b.grp
  BY DEF Books

(* The locks of a book written, and nothing else.                          *)
LEMMA LocksWritten ==
    ASSUME NEW b \in Books, NEW l \in Seq(Keys)
    PROVE  LET c == [b EXCEPT !.locks = l]
           IN  c \in Books /\ c.txn = b.txn /\ c.slots = b.slots /\ c.costs = b.costs
               /\ c.locks = l /\ c.grp = b.grp
  BY DEF Books

(* The groups of a book written, and nothing else.                         *)
LEMMA GroupsWritten ==
    ASSUME NEW b \in Books, NEW g \in [Keys -> Groups \cup {NoGroup}]
    PROVE  LET c == [b EXCEPT !.grp = g]
           IN  c \in Books /\ c.txn = b.txn /\ c.slots = b.slots /\ c.costs = b.costs
               /\ c.locks = b.locks /\ c.grp = g
  BY DEF Books

(* update_txn: redis gets all counters but those of the lock.              *)
LEMMA SavedTxn ==
    ASSUME NEW b \in Books, NEW d \in Books, d.txn.lock = b.txn.lock, d.txn.lockable = b.txn.lockable
    PROVE  LET e == SaveTxn(d, b)
           IN  /\ e \in Books /\ e.txn = b.txn /\ e.slots = d.slots /\ e.costs = d.costs
               /\ e.locks = d.locks /\ e.grp = d.grp
  <1> DEFINE t == [d.txn EXCEPT !.status = b.txn.status, !.open = b.txn.open,
                                !.opening = b.txn.opening, !.closing = b.txn.closing]
  <1>1. b.txn \in Txns /\ d.txn \in Txns
    BY BookParts
  <1>2. t \in Txns /\ t.status = b.txn.status /\ t.open = b.txn.open /\ t.opening = b.txn.opening
        /\ t.closing = b.txn.closing /\ t.lock = b.txn.lock /\ t.lockable = b.txn.lockable
    BY <1>1 DEF Txns
  <1>3. SaveTxn(d, b) = [d EXCEPT !.txn = t]
    BY DEF SaveTxn
  <1> HIDE DEF t
  <1>4. t = b.txn
    BY <1>1, <1>2, TxnSame
  <1> QED
    BY <1>1, <1>3, <1>4 DEF Books

(* update_txn_lock: redis gets all counters but the lots that are open.    *)
LEMMA SavedTxnLock ==
    ASSUME NEW b \in Books, NEW d \in Books, d.txn.open = b.txn.open
    PROVE  LET e == SaveTxnLock(d, b)
           IN  /\ e \in Books /\ e.txn = b.txn /\ e.slots = d.slots /\ e.costs = d.costs
               /\ e.locks = d.locks /\ e.grp = d.grp
  <1> DEFINE t == [d.txn EXCEPT !.status = b.txn.status, !.opening = b.txn.opening,
                                !.closing = b.txn.closing, !.lock = b.txn.lock,
                                !.lockable = b.txn.lockable]
  <1>1. b.txn \in Txns /\ d.txn \in Txns
    BY BookParts
  <1>2. t \in Txns /\ t.status = b.txn.status /\ t.open = b.txn.open /\ t.opening = b.txn.opening
        /\ t.closing = b.txn.closing /\ t.lock = b.txn.lock /\ t.lockable = b.txn.lockable
    BY <1>1 DEF Txns
  <1>3. SaveTxnLock(d, b) = [d EXCEPT !.txn = t]
    BY DEF SaveTxnLock
  <1> HIDE DEF t
  <1>4. t = b.txn
    BY <1>1, <1>2, TxnSame
  <1> QED
    BY <1>1, <1>3, <1>4 DEF Books

(* A change of the status; and of the lots to lock with it.                *)
LEMMA StatusWritten ==
    ASSUME NEW b \in Books, NEW s \in Status
    PROVE  LET c == [b EXCEPT !.txn.status = s]
           IN  /\ c \in Books /\ c.slots = b.slots /\ c.costs = b.costs
               /\ c.locks = b.locks /\ c.grp = b.grp
               /\ c.txn.status = s /\ c.txn.open = b.txn.open /\ c.txn.opening = b.txn.opening
               /\ c.txn.closing = b.txn.closing /\ c.txn.lock = b.txn.lock
               /\ c.txn.lockable = b.txn.lockable
  <1> DEFINE t == [b.txn EXCEPT !.status = s]
  <1>1. b.txn \in Txns
    BY BookParts
  <1>2. /\ t \in Txns /\ t.status = s /\ t.open = b.txn.open /\ t.opening = b.txn.opening
        /\ t.closing = b.txn.closing /\ t.lock = b.txn.lock /\ t.lockable = b.txn.lockable
    BY <1>1 DEF Txns
  <1>3. PICK e : e = [b EXCEPT !.txn = t]
    OBVIOUS
  <1>4. [b EXCEPT !.txn.status = s] = e
    BY <1>3 DEF Books
  <1>5. e \in Books /\ e.txn = t /\ e.slots = b.slots /\ e.costs = b.costs /\ e.locks = b.locks /\ e.grp = b.grp
    BY <1>2, <1>3, TxnWritten
  <1> HIDE DEF t
  <1> QED
    BY <1>2, <1>4, <1>5

-----------------------------------------------------------------------------
(* What does not change the lists, the groups or the orders under way.     *)

(* Groups that join the lists, with nothing of them being closed, do not   *)
(* disturb what is known of the close orders.                              *)
LEMMA CloseFramed ==
    ASSUME NEW S, NEW p, NEW q, NEW closes, NEW costs, NEW locks, NEW grp, NEW closing,
           CloseRight(S, p, closes, costs, locks, grp, closing),
           NEW new, NEW longer, NEW wider,
           ToSet(costs) \subseteq ToSet(longer), ToSet(locks) \subseteq ToSet(wider),
           \A g \in Listed(costs, locks) : new[g].closing = grp[g].closing,
           \A g \in Listed(longer, wider) \ Listed(costs, locks) : new[g].closing = 0,
           p = q \/ (p.kind \notin Closing /\ q.kind \notin Closing)
    PROVE  CloseRight(S, q, closes, longer, wider, new, closing)
  <1>1. ASSUME NEW k, NEW cg, Marked(S, k, cg, costs, locks, grp)
        PROVE  Marked(S, k, cg, longer, wider, new)
    BY <1>1 DEF Marked, ListOf, Listed
  <1>2. CASE NoClosing(S, p, closes, costs, locks, grp, closing)
    <2>1. closing = 0 => \A g \in Listed(longer, wider) : new[g].closing = 0
      BY <1>2 DEF NoClosing
    <2> QED
      BY <1>2, <2>1 DEF NoClosing, CloseRight
  <1>3. CASE CloseSent(S, p, closes, costs, locks, grp, closing)
    <2>1. p = q
      BY <1>3 DEF CloseSent
    <2>2. Marked(S, p.key, p.cg, longer, wider, new)
      BY <1>1, <1>3 DEF CloseSent
    <2> QED
      BY <1>3, <2>1, <2>2 DEF CloseSent, CloseRight
  <1>4. ASSUME NEW k \in CloseKeys, CloseNoted(k, S, p, closes, costs, locks, grp, closing)
        PROVE  CloseRight(S, q, closes, longer, wider, new, closing)
    <2>1. Marked(S, k, closes[k], longer, wider, new)
      BY <1>1, <1>4 DEF CloseNoted
    <2>2. CloseNoted(k, S, q, closes, longer, wider, new, closing)
      BY <1>4, <2>1 DEF CloseNoted
    <2> QED
      BY <2>2 DEF CloseRight
  <1> QED
    BY <1>2, <1>3, <1>4 DEF CloseRight

(* Groups nobody names any more are forgotten, the others stay.            *)
LEMMA ForgetKeeps ==
    ASSUME NEW b \in Books, NEW used
    PROVE  LET c == Forget(b, used)
           IN  /\ c \in Books /\ c.txn = b.txn /\ c.slots = b.slots /\ c.costs = b.costs
               /\ c.locks = b.locks /\ \A g \in used \cap Keys : c.grp[g] = b.grp[g]
  <1> DEFINE n == [g \in Keys |-> IF g \in used THEN b.grp[g] ELSE NoGroup]
  <1>1. b.grp \in [Keys -> Groups \cup {NoGroup}]
    BY BookParts
  <1>2. n \in [Keys -> Groups \cup {NoGroup}] /\ \A g \in used \cap Keys : n[g] = b.grp[g]
    BY <1>1
  <1>3. Forget(b, used) = [b EXCEPT !.grp = n]
    BY DEF Forget
  <1> HIDE DEF n
  <1> QED
    BY <1>2, <1>3, GroupsWritten

(* The lists of a book name groups.                                        *)
LEMMA ListedKeys ==
    ASSUME NEW b \in Books
    PROVE  Listed(b.costs, b.locks) \subseteq Keys
  <1>1. b.costs \in Seq(Keys) /\ b.locks \in Seq(Keys)
    BY BookParts
  <1> QED
    BY <1>1 DEF Listed, ToSet

(* The parts of the book that an order looks at may be kept while others   *)
(* are forgotten.                                                          *)
LEMMA ForgetRight ==
    ASSUME NEW F, NEW p, NEW closes, NEW b \in Books, BookCore(F, p, closes, b), NEW used,
           Listed(b.costs, b.locks) \subseteq used, KeysOf(OpensOf(F)) \subseteq used
    PROVE  BookCore(F, p, closes, Forget(b, used))
  <1> DEFINE c == Forget(b, used)
  <1>1. /\ c \in Books /\ c.txn = b.txn /\ c.costs = b.costs
        /\ c.locks = b.locks /\ \A g \in used \cap Keys : c.grp[g] = b.grp[g]
    BY ForgetKeeps
  <1> HIDE DEF c
  <1>2. Listed(b.costs, b.locks) \subseteq Keys
    BY ListedKeys
  <1>3. \A g \in Listed(b.costs, b.locks) : c.grp[g] = b.grp[g]
    BY <1>1, <1>2
  <1>4. GroupsRight(F, p, Listed(b.costs, b.locks), c.grp)
    <2>1. \A o \in OpensOf(F) : o.key \in Keys /\ o.key \in used
      BY DEF OpensOf, KeysOf, BookCore, OrdersRight, OrderRight
    <2>2. \A o \in OpensOf(F) : c.grp[o.key] = b.grp[o.key]
      BY <1>1, <2>1
    <2> QED
      BY <2>2 DEF BookCore, GroupsRight
  <1>5. LotsRight(Listed(b.costs, b.locks), c.grp)
    BY <1>3 DEF BookCore, LotsRight
  <1>6. CloseRight(SellsOf(F), p, closes, b.costs, b.locks, c.grp, b.txn.closing)
    <2>1. CloseRight(SellsOf(F), p, closes, b.costs, b.locks, b.grp, b.txn.closing)
      BY DEF BookCore
    <2>2. \A g \in Listed(b.costs, b.locks) : c.grp[g].closing = b.grp[g].closing
      BY <1>3
    <2>3. \A g \in Listed(b.costs, b.locks) \ Listed(b.costs, b.locks) : c.grp[g].closing = 0
      OBVIOUS
    <2> QED
      BY <2>1, <2>2, <2>3, CloseFramed
  <1>7. BookCore(F, p, closes, c)
    BY <1>1, <1>4, <1>5, <1>6 DEF BookCore
  <1> QED
    BY <1>7 DEF c

(* Redis and memory forget the same groups, none of which the other still  *)
(* needs.                                                                  *)
LEMMA ForgetSaved ==
    ASSUME NEW F, NEW p, NEW b \in Books, NEW d \in Books, RedisRight(F, p, b, d), NEW used,
           Listed(b.costs, b.locks) \subseteq used, KeysOf(OpensOf(F)) \subseteq used,
           OrdersRight(F)
    PROVE  RedisRight(F, p, Forget(b, used), Forget(d, used))
  <1> DEFINE c == Forget(b, used)
             e == Forget(d, used)
  <1>1. /\ c.txn = b.txn /\ c.costs = b.costs /\ c.slots = b.slots
        /\ c.locks = b.locks /\ \A g \in used \cap Keys : c.grp[g] = b.grp[g]
    BY ForgetKeeps
  <1>2. /\ e.txn = d.txn /\ e.costs = d.costs /\ e.slots = d.slots
        /\ e.locks = d.locks /\ \A g \in used \cap Keys : e.grp[g] = d.grp[g]
    BY ForgetKeeps
  <1> HIDE DEF c, e
  <1>3. Needed(F, p, Listed(b.costs, b.locks)) \subseteq used \cap Keys
    <2>1. Listed(b.costs, b.locks) \subseteq Keys
      BY ListedKeys
    <2>2. \A o \in OpensOf(F) : o.key \in Keys /\ o.key \in used
      BY DEF OpensOf, KeysOf, OrdersRight, OrderRight
    <2> QED
      BY <2>1, <2>2 DEF Needed, KeysOf
  <1>4. GroupsSaved(F, p, Listed(b.costs, b.locks), c.grp, e.grp)
    BY <1>1, <1>2, <1>3 DEF RedisRight, GroupsSaved
  <1>5. RedisRight(F, p, c, e)
    BY <1>1, <1>2, <1>4 DEF RedisRight
  <1> QED
    BY <1>5 DEF c, e

(* What the handlers keep: the groups in the lists and of the orders.      *)
LEMMA UsedKeys ==
    ASSUME NEW F, NEW closes, NEW b
    PROVE  /\ Listed(b.costs, b.locks) \subseteq Used(b, F, closes)
           /\ KeysOf(OpensOf(F)) \subseteq Used(b, F, closes)
  BY DEF Used, Listed, KeysOf, OpensOf

(* A close group with orders under way is kept.                            *)
LEMMA KeptSame ==
    ASSUME NEW F, NEW p, NEW closes \in [CloseKeys -> Closes \cup {NoGroup}], NEW b,
           CloseRight(SellsOf(F), p, closes, b.costs, b.locks, b.grp, b.txn.closing)
    PROVE  Kept(closes, F) = closes
  <1>1. SUFFICES ASSUME NEW k \in CloseKeys, closes[k] # NoGroup
                 PROVE  \E o \in F : o.kind \in Closing /\ o.key = k
    BY DEF Kept
  <1>2. CloseNoted(k, SellsOf(F), p, closes, b.costs, b.locks, b.grp, b.txn.closing)
    BY <1>1 DEF CloseRight, NoClosing, CloseSent, CloseNoted
  <1>3. Parts(SellsOf(F), closes[k]) /\ \A o \in SellsOf(F) : o.key = k
    BY <1>2 DEF CloseNoted, Marked
  <1>4. \E o \in SellsOf(F) : TRUE
    BY <1>3 DEF Parts, OneNew, BothNew, OneHeard, SecondNew, SecondHeard
  <1> QED
    BY <1>3, <1>4 DEF SellsOf

(* Without close orders under way no close group is kept.                  *)
LEMMA KeptNone ==
    ASSUME NEW F, NEW closes \in [CloseKeys -> Closes \cup {NoGroup}], SellsOf(F) = {}
    PROVE  \A k \in CloseKeys : Kept(closes, F)[k] = NoGroup
  BY DEF Kept, SellsOf

(* What is kept are close groups.                                          *)
LEMMA KeptType ==
    ASSUME NEW F, NEW closes \in [CloseKeys -> Closes \cup {NoGroup}]
    PROVE  Kept(closes, F) \in [CloseKeys -> Closes \cup {NoGroup}]
  BY DEF Kept

(* A handler that leaves b in memory and d in redis.                       *)
LEMMA HandlerKeeps ==
    ASSUME NEW b \in Books, NEW d \in Books, NEW closes \in [CloseKeys -> Closes \cup {NoGroup}],
           Handled(b, d, closes), Types, pc' = pc, cfg' = cfg, state' = state, state = "up",
           flight' \in SUBSET Orders, IsFiniteSet(flight'),
           BookCore(flight', pc, Kept(closes, flight'), b), RedisRight(flight', pc, b, d)
    PROVE  Core'
  <1> DEFINE used == Used(b, flight', cgs')
  <1>1. cgs' = Kept(closes, flight') /\ book' = Forget(b, used) /\ db' = Forget(d, used)
    BY DEF Handled
  <1>2. Listed(b.costs, b.locks) \subseteq used /\ KeysOf(OpensOf(flight')) \subseteq used
    BY UsedKeys
  <1> HIDE DEF used
  <1>3. book' \in Books /\ db' \in Books
    BY <1>1, ForgetKeeps
  <1>4. cgs' \in [CloseKeys -> Closes \cup {NoGroup}]
    BY <1>1, KeptType
  <1>5. Types'
    BY <1>3, <1>4 DEF Types
  <1>6. BookCore(flight', pc', cgs', book')
    BY <1>1, <1>2, ForgetRight
  <1>7. RedisRight(flight', pc', book', db')
    <2>1. OrdersRight(flight')
      BY DEF BookCore
    <2> QED
      BY <1>1, <1>2, <2>1, ForgetSaved
  <1> QED
    BY <1>5, <1>6, <1>7 DEF Core

-----------------------------------------------------------------------------
(* The status.                                                             *)

(* The parts of the invariant.                                             *)
LEMMA CoreParts ==
    ASSUME Core
    PROVE  /\ Types /\ book \in Books /\ db \in Books /\ pc \in Pcs
           /\ cgs \in [CloseKeys -> Closes \cup {NoGroup}]
           /\ flight \in SUBSET Orders /\ IsFiniteSet(flight)
           /\ BookCore(flight, pc, cgs, book) /\ RedisRight(flight, pc, book, db)
  BY DEF Core, Types

(* Whatever has not been saved yet, the next save of the transaction saves *)
(* it, as its closing counter is part of every save.                       *)
LEMMA SavedCounters ==
    ASSUME Core
    PROVE  /\ db.txn.status = book.txn.status /\ db.txn.open = book.txn.open
           /\ db.txn.opening = book.txn.opening /\ db.txn.lock = book.txn.lock
           /\ db.txn.lockable = book.txn.lockable
           /\ ~(pc.kind = "unlock" /\ pc.at = "sent") => db.txn = book.txn
           /\ db.costs = book.costs /\ db.locks = book.locks
  <1>1. TxnSaved(pc, book.txn, db.txn) /\ book.txn \in Txns
    BY CoreParts, BookParts DEF RedisRight
  <1>2. db.costs = book.costs /\ db.locks = book.locks
    BY CoreParts DEF RedisRight
  <1> QED
    BY <1>1, <1>2 DEF TxnSaved, Txns

(* The counters change, but for those of what is being opened and closed.  *)
LEMMA CountersKeep ==
    ASSUME Core, pc' = pc, flight' = flight, cgs' = cgs, cfg' = cfg, state' = state,
           book' \in Books, db' \in Books,
           book'.slots = book.slots, book'.costs = book.costs, book'.locks = book.locks,
           book'.grp = book.grp, book'.txn.opening = book.txn.opening,
           book'.txn.closing = book.txn.closing,
           db'.txn = book'.txn, db'.slots = db.slots, db'.costs = db.costs, db'.locks = db.locks,
           db'.grp = db.grp
    PROVE  Core'
  <1>1. Types'
    BY DEF Core, Types
  <1>2. BookCore(flight', pc', cgs', book')
    BY DEF Core, BookCore
  <1>3. RedisRight(flight', pc', book', db')
    BY DEF Core, RedisRight, TxnSaved
  <1> QED
    BY <1>1, <1>2, <1>3 DEF Core

(* A new status of the transaction, saved at once, keeps the invariant.    *)
LEMMA SetStatusKeeps ==
    ASSUME Core, NEW from, NEW to \in Status, SetStatus(from, to),
           db' = SaveTxn(db, book') \/ db' = SaveTxnLock(db, book'),
           UNCHANGED <<pc, flight, cgs, cfg, state>>
    PROVE  Core'
  <1>1. book' = [book EXCEPT !.txn.status = to]
    BY DEF SetStatus
  <1>2. /\ book' \in Books /\ book'.slots = book.slots /\ book'.costs = book.costs
        /\ book'.locks = book.locks /\ book'.grp = book.grp
        /\ book'.txn.opening = book.txn.opening /\ book'.txn.closing = book.txn.closing
        /\ book'.txn.open = book.txn.open /\ book'.txn.lock = book.txn.lock
        /\ book'.txn.lockable = book.txn.lockable
    BY <1>1, CoreParts, StatusWritten
  <1>3. /\ db' \in Books /\ db'.txn = book'.txn /\ db'.slots = db.slots /\ db'.costs = db.costs
        /\ db'.locks = db.locks /\ db'.grp = db.grp
    <2>1. db \in Books /\ db.txn.lock = book'.txn.lock /\ db.txn.lockable = book'.txn.lockable
          /\ db.txn.open = book'.txn.open
      BY <1>2, CoreParts, SavedCounters
    <2>2. CASE db' = SaveTxn(db, book')
      BY <1>2, <2>1, <2>2, SavedTxn
    <2>3. CASE db' = SaveTxnLock(db, book')
      BY <1>2, <2>1, <2>3, SavedTxnLock
    <2> QED
      BY <2>2, <2>3
  <1> QED
    BY <1>2, <1>3, CountersKeep

(* So does the signal of a tick (update_signal).                           *)
LEMMA UpdateSignalKeeps ==
    ASSUME Core, UpdateSignal
    PROVE  Core'
  <1>1. UNCHANGED <<pc, flight, cgs, cfg, state>>
    BY DEF UpdateSignal
  <1>2. CASE SignalTxn
    <2>1. db' = SaveTxn(db, book')
      BY <1>2 DEF SignalTxn
    <2>2. PICK from \in Status, to \in Status : SetStatus(from, to)
      BY <1>2 DEF SignalTxn, Status
    <2> QED
      BY <1>1, <2>1, <2>2, SetStatusKeeps
  <1>3. CASE SignalUnlock
    BY <1>1, <1>3, SetStatusKeeps DEF SignalUnlock, Status
  <1>4. CASE SignalLock
    <2>1. book' = [book EXCEPT !.txn.status = "LOCKING", !.txn.lockable = book.txn.open]
          /\ db' = SaveTxnLock(db, book')
      BY <1>4 DEF SignalLock
    <2>2. book \in Books /\ book.txn.open \in Int /\ "LOCKING" \in Status
      BY CoreParts, BookParts DEF Status
    <2>3. /\ book' \in Books /\ book'.slots = book.slots /\ book'.costs = book.costs
          /\ book'.locks = book.locks /\ book'.grp = book.grp
          /\ book'.txn.opening = book.txn.opening /\ book'.txn.closing = book.txn.closing
          /\ book'.txn.open = book.txn.open
      <3>1. PICK c : c = book'
        OBVIOUS
      <3>2. c = [book EXCEPT !.txn.status = "LOCKING", !.txn.lockable = book.txn.open]
        BY ONLY <2>1, <3>1
      <3>3. /\ c \in Books /\ c.slots = book.slots /\ c.costs = book.costs
            /\ c.locks = book.locks /\ c.grp = book.grp
            /\ c.txn.opening = book.txn.opening /\ c.txn.closing = book.txn.closing
            /\ c.txn.open = book.txn.open
        <4> DEFINE t == [book.txn EXCEPT !.status = "LOCKING", !.lockable = book.txn.open]
        <4>1. book.txn \in Txns
          BY <2>2, BookParts
        <4>2. t \in Txns /\ t.open = book.txn.open /\ t.opening = book.txn.opening
              /\ t.closing = book.txn.closing
          BY <2>2, <4>1 DEF Txns
        <4>3. PICK e : e = [book EXCEPT !.txn = t]
          OBVIOUS
        <4>4. c = e
          BY <2>2, <3>2, <4>3 DEF Books
        <4> HIDE DEF t
        <4>5. /\ e \in Books /\ e.txn = t /\ e.slots = book.slots /\ e.costs = book.costs
              /\ e.locks = book.locks /\ e.grp = book.grp
          BY <2>2, <4>2, <4>3, TxnWritten
        <4> QED
          BY <4>2, <4>4, <4>5
      <3> QED
        BY ONLY <3>1, <3>3
    <2>4. /\ db' \in Books /\ db'.txn = book'.txn /\ db'.slots = db.slots /\ db'.costs = db.costs
          /\ db'.locks = db.locks /\ db'.grp = db.grp
      <3>1. db \in Books /\ db.txn.open = book'.txn.open
        BY <2>3, CoreParts, SavedCounters
      <3> QED
        BY <2>1, <2>3, <3>1, SavedTxnLock
    <2> QED
      BY <1>1, <2>3, <2>4, CountersKeep
  <1> QED
    BY <1>2, <1>3, <1>4 DEF UpdateSignal

(* So do the changes of the status at the start of a tick                  *)
(* (handle_txn_status).                                                    *)
LEMMA HandleTxnStatusKeeps ==
    ASSUME Core, HandleTxnStatus
    PROVE  Core'
  <1>1. db' = SaveTxnLock(db, book') /\ SetStatus("LOCK", "UNLOCKING") /\ "UNLOCKING" \in Status
        /\ UNCHANGED <<pc, flight, cgs, cfg, state>>
    BY DEF HandleTxnStatus, Status
  <1> QED
    BY <1>1, SetStatusKeeps

-----------------------------------------------------------------------------
(* Opening.                                                                *)

(* With nothing counted as being opened, no order that opens waits for     *)
(* news.                                                                   *)
LEMMA NoneOpening ==
    ASSUME NEW F, OrdersRight(F), FreshRight(F, Idle, 0)
    PROVE  FreshOf(F) = {}
  BY DEF FreshRight, FreshOf, OrdersRight, OrderRight, Idle, Opening

(* An order to open or to lock is sent.                                    *)
LEMMA SentOpens ==
    ASSUME Core, pc = Idle, book.txn.opening = 0, NEW kind \in Opening, NEW n \in Nat \ {0},
           NEW slot \in Nat, SendOpen(kind, n, slot), cgs' = cgs, cfg' = cfg, state' = state,
           book' \in Books, book'.txn = book.txn, book'.costs = book.costs,
           book'.locks = book.locks, book'.grp = book.grp, db' = db,
           SlotsSaved(pc', book'.slots, db.slots), state = "up"
    PROVE  Core'
  <1>1. PICK g \in FreeKeys :
            /\ pc' = [at |-> "sent", kind |-> kind, key |-> g, quantity |-> n, slot |-> slot]
            /\ flight' = flight \cup {Order(kind, g, 1, n)}
    BY DEF SendOpen
  <1> DEFINE o == Order(kind, g, 1, n)
             L == Listed(book.costs, book.locks)
  <1>2. g \in Keys /\ g \notin L /\ \A x \in OpensOf(flight) : x.key # g
    BY DEF FreeKeys, Used, Listed, OpensOf
  <1>3. /\ o.kind = kind /\ o.key = g /\ o.quantity = n /\ o.news /\ o.result = -1 /\ o.trades = 0
        /\ o \in Orders
    BY <1>2 DEF Order, Orders
  <1>4. OrdersRight(flight) /\ FreshRight(flight, Idle, 0) /\ GroupsRight(flight, Idle, L, book.grp)
    BY DEF Core, BookCore
  <1>5. FreshOf(flight) = {}
    BY <1>4, NoneOpening
  <1> HIDE DEF o
  <1>6. flight' = flight \cup {o}
    BY <1>1 DEF o
  <1>7. Types'
    <2>1. pc' \in Pcs
      BY <1>1, <1>2 DEF Pcs, OpenPcs
    <2>2. flight' \in SUBSET Orders /\ IsFiniteSet(flight')
      BY <1>3, <1>6, CoreParts, FS_AddElement
    <2> QED
      BY <2>1, <2>2, CoreParts DEF Types
  <1>8. OrdersRight(flight')
    <2>1. OrderRight(o)
      BY <1>2, <1>3 DEF OrderRight, Opening, Closing
    <2>2. \A x \in flight : x.kind \in Opening => x.key # o.key
      BY <1>2, <1>3 DEF OpensOf
    <2>3. o.kind \in Opening /\ \A x \in flight : ~(x.kind = o.kind /\ x.key = o.key)
      BY <1>3, <2>2
    <2> QED
      BY <1>4, <1>6, <2>1, <2>2, <2>3 DEF OrdersRight
  <1>9. FreshRight(flight', pc', book'.txn.opening)
    <2>1. FreshOf(flight') = {o}
      BY <1>3, <1>5, <1>6 DEF FreshOf
    <2>2. pc'.kind = kind /\ pc'.key = g /\ pc'.quantity = n /\ pc'.at = "sent"
      BY <1>1
    <2> QED
      BY <1>3, <2>1, <2>2 DEF FreshRight
  <1>10. GroupsRight(flight', pc', L, book.grp)
    <2>1. OpensOf(flight') = OpensOf(flight) \cup {o}
      BY <1>3, <1>6 DEF OpensOf
    <2>2. \A x \in OpensOf(flight) : x.key # g /\ ~Sent(pc', x.key) /\ ~Sent(Idle, x.key)
      BY <1>1, <1>2 DEF Sent, Idle
    <2>3. Sent(pc', g)
      BY <1>1 DEF Sent
    <2> QED
      BY <1>2, <1>3, <1>4, <2>1, <2>2, <2>3 DEF GroupsRight
  <1>11. CloseRight(SellsOf(flight'), pc', cgs, book.costs, book.locks, book.grp, book.txn.closing)
    <2>1. SellsOf(flight') = SellsOf(flight)
      BY <1>3, <1>6 DEF SellsOf, Opening, Closing
    <2>2. CloseRight(SellsOf(flight), pc, cgs, book.costs, book.locks, book.grp, book.txn.closing)
      BY DEF Core, BookCore
    <2>3. pc.kind \notin Closing /\ pc'.kind \notin Closing
      BY <1>1 DEF Idle, Closing, Opening
    <2>4. /\ ToSet(book.costs) \subseteq ToSet(book.costs) /\ ToSet(book.locks) \subseteq ToSet(book.locks)
          /\ \A x \in L : book.grp[x].closing = book.grp[x].closing
          /\ \A x \in L \ L : book.grp[x].closing = 0
      OBVIOUS
    <2> QED
      BY <2>1, <2>2, <2>3, <2>4, CloseFramed
  <1>12. BookCore(flight', pc', cgs', book')
    BY <1>8, <1>9, <1>10, <1>11 DEF Core, BookCore
  <1>13. GroupsSaved(flight', pc', L, book.grp, db.grp)
    <2>1. Needed(flight', pc', L) = Needed(flight, pc, L)
      <3>1. OpensOf(flight') = OpensOf(flight) \cup {o}
        BY <1>3, <1>6 DEF OpensOf
      <3>2. \A x \in OpensOf(flight) : ~Sent(pc', x.key) /\ ~Sent(pc, x.key)
        BY <1>1, <1>2 DEF Sent, Idle
      <3>3. Sent(pc', o.key)
        BY <1>1, <1>3 DEF Sent
      <3> QED
        BY <3>1, <3>2, <3>3 DEF Needed
    <2>2. Marking(pc) = {} /\ Marking(pc') = {}
      BY <1>1 DEF Marking, Idle, Opening, Closing
    <2>3. GroupsSaved(flight, pc, L, book.grp, db.grp)
      BY DEF Core, RedisRight
    <2> QED
      BY <2>1, <2>2, <2>3 DEF GroupsSaved, Saved
  <1>14. RedisRight(flight', pc', book', db')
    <2>1. TxnSaved(pc', book'.txn, db.txn)
      BY SavedCounters DEF Idle, TxnSaved
    <2> QED
      BY <1>13, <2>1, SavedCounters DEF RedisRight
  <1> QED
    BY <1>7, <1>12, <1>14 DEF Core

(* A configuration gives each slot a capacity.                             *)
LEMMA ConfigLots ==
    ASSUME NEW c \in Configs
    PROVE  c \in Seq(Nat \ {0}) /\ Len(c) \in Nat /\ \A i \in 1..Len(c) : c[i] \in Nat
  BY GridAssumption

(* Slots that were added come after those there were.                      *)
LEMMA SlotsExtended ==
    ASSUME NEW slots \in Seq(Slots), NEW c \in Configs
    PROVE  LET more == ExtendTxnSlots(slots, c)
           IN  /\ more \in Seq(Slots) /\ Len(slots) <= Len(more)
               /\ \A i \in 1..Len(slots) : more[i] = slots[i]
  <1> DEFINE n == Clip(Len(c) - Len(slots), SlotBlock)
             new == [i \in 1..n |-> EmptySlot(c[Len(slots) + i])]
  <1>1. n \in Nat /\ Len(slots) \in Nat /\ (n > 0 => Len(slots) + n <= Len(c))
    BY ConfigLots, GridAssumption DEF Clip, Least
  <1>2. \A i \in 1..n : EmptySlot(c[Len(slots) + i]) \in Slots
    <2> TAKE i \in 1..n
    <2>1. Len(slots) + i \in 1..Len(c)
      BY <1>1
    <2>2. c[Len(slots) + i] \in Nat
      BY <2>1, ConfigLots
    <2> QED
      BY <2>2 DEF EmptySlot, Slots
  <1>3. ExtendTxnSlots(slots, c) = slots \o new
    BY DEF ExtendTxnSlots
  <1> HIDE DEF n
  <1>4. new \in Seq(Slots) /\ Len(new) = n
    BY <1>1, <1>2
  <1> HIDE DEF new
  <1> QED
    BY <1>1, <1>3, <1>4

(* What rpush adds to the saved slots makes them those in memory.          *)
LEMMA SlotsAppended ==
    ASSUME NEW slots \in Seq(Slots), NEW more \in Seq(Slots), Len(slots) <= Len(more),
           \A i \in 1..Len(slots) : more[i] = slots[i]
    PROVE  /\ slots \o SubSeq(more, Len(slots) + 1, Len(more)) = more
           /\ slots = SubSeq(more, 1, Len(slots))
  <1> DEFINE rest == SubSeq(more, Len(slots) + 1, Len(more))
  <1>1. Len(slots) \in Nat /\ Len(more) \in Nat
    OBVIOUS
  <1>2. rest \in Seq(Slots) /\ Len(rest) = Len(more) - Len(slots)
        /\ \A i \in 1..Len(rest) : rest[i] = more[Len(slots) + i]
    BY <1>1
  <1> HIDE DEF rest
  <1>3. slots \o rest = more
    <2>1. slots \o rest \in Seq(Slots) /\ Len(slots \o rest) = Len(more)
      BY <1>1, <1>2
    <2>2. ASSUME NEW i \in 1..Len(more) PROVE (slots \o rest)[i] = more[i]
      <3>1. CASE i <= Len(slots)
        <4>1. i \in 1..Len(slots)
          BY <1>1, <3>1
        <4>2. (slots \o rest)[i] = slots[i]
          BY <1>1, <1>2, <4>1
        <4> QED
          BY <4>1, <4>2
      <3>2. CASE i > Len(slots)
        <4>1. i - Len(slots) \in 1..Len(rest) /\ Len(slots) + (i - Len(slots)) = i
          BY <1>1, <1>2, <3>2
        <4>2. (slots \o rest)[i] = rest[i - Len(slots)]
          BY <1>1, <1>2, <3>2, <4>1
        <4> QED
          BY <1>2, <4>1, <4>2
      <3> QED
        <4>1. i <= Len(slots) \/ i > Len(slots)
          BY <1>1
        <4> QED
          BY <3>1, <3>2, <4>1, Zenon
    <2> QED
      BY <2>1, <2>2, SeqEqual
  <1>4. slots = SubSeq(more, 1, Len(slots))
    BY <1>1
  <1> QED
    BY <1>3, <1>4 DEF rest

(* An order that opens was sent, and its group is still to be noted.       *)
LEMMA OpenKeeps ==
    ASSUME Core, Open
    PROVE  Core'
  <1>1. /\ state = "up" /\ pc = Idle /\ book.txn.opening = 0
        /\ book' = [book EXCEPT !.slots = Roomy] /\ cgs' = cgs /\ state' = state /\ cfg' = cfg
    BY DEF Open
  <1>2. Roomy \in Seq(Slots) /\ Len(book.slots) <= Len(Roomy)
        /\ \A i \in 1..Len(book.slots) : Roomy[i] = book.slots[i]
    <2>1. book.slots \in Seq(Slots) /\ cfg \in Configs
      BY CoreParts, BookParts DEF Types
    <2> QED
      BY <2>1, SlotsExtended DEF Roomy
  <1>3. /\ book' \in Books /\ book'.txn = book.txn /\ book'.costs = book.costs
        /\ book'.locks = book.locks /\ book'.grp = book.grp /\ book'.slots = Roomy
    BY <1>1, <1>2, CoreParts, SlotsWritten
  <1>4. db \in Books /\ db.slots = book.slots /\ db.txn = book.txn /\ book.slots \in Seq(Slots)
    BY <1>1, CoreParts, SavedCounters, BookParts DEF RedisRight, SlotsSaved, Idle
  <1>5. CASE db' = AppendSlots(db, Roomy) /\ UNCHANGED <<pc, flight, odd>>
    <2> DEFINE s == db.slots \o SubSeq(Roomy, Len(db.slots) + 1, Len(Roomy))
    <2>1. s = Roomy
      BY <1>2, <1>4, SlotsAppended
    <2>2. db' = [db EXCEPT !.slots = s]
      BY <1>5 DEF AppendSlots
    <2> HIDE DEF s
    <2>3. /\ db' \in Books /\ db'.txn = db.txn /\ db'.costs = db.costs
          /\ db'.locks = db.locks /\ db'.grp = db.grp /\ db'.slots = Roomy
      BY <1>2, <1>4, <2>1, <2>2, SlotsWritten
    <2>4. Types'
      BY <1>1, <1>3, <1>5, <2>3 DEF Core, Types
    <2>5. BookCore(flight', pc', cgs', book')
      BY <1>1, <1>3, <1>5 DEF Core, BookCore
    <2>6. RedisRight(flight', pc', book', db')
      BY <1>1, <1>3, <1>4, <1>5, <2>3 DEF Core, RedisRight, TxnSaved, SlotsSaved, Idle
    <2> QED
      BY <2>4, <2>5, <2>6 DEF Core
  <1>6. CASE /\ \E volume \in 1..MaxVolume :
                   LET i == Min(Room(Roomy))
                   IN  SendOpen("open", Least(Roomy[i].capacity - Roomy[i].open, volume), i)
             /\ db' = db
    <2>1. PICK volume \in 1..MaxVolume :
              LET i == Min(Room(Roomy))
              IN  SendOpen("open", Least(Roomy[i].capacity - Roomy[i].open, volume), i)
      BY <1>6
    <2> DEFINE i == Min(Room(Roomy))
               n == Least(Roomy[i].capacity - Roomy[i].open, volume)
    <2>2. i \in Room(Roomy)
      <3>1. Room(Roomy) # {} /\ Room(Roomy) \subseteq Nat
        BY <1>2 DEF Open, Room
      <3> QED
        BY <3>1, LeastNumber DEF Min
    <2>3. i \in 1..Len(Roomy) /\ Roomy[i].capacity > Roomy[i].open /\ Roomy[i] \in Slots
      BY <1>2, <2>2 DEF Room
    <2>4. n \in Nat \ {0}
      <3>1. Roomy[i].capacity - Roomy[i].open \in Nat \ {0} /\ volume \in Nat \ {0}
        BY <2>3, GridAssumption DEF Slots
      <3> QED
        BY <3>1 DEF Least
    <2>5. i \in Nat /\ SendOpen("open", n, i)
      BY <1>2, <2>1, <2>3
    <2> HIDE DEF i, n
    <2>6. SlotsSaved(pc', book'.slots, db.slots)
      <3>1. pc'.kind = "open" /\ pc'.at = "sent"
        BY <2>5 DEF SendOpen
      <3>2. db.slots = SubSeq(Roomy, 1, Len(db.slots))
        BY <1>2, <1>4, SlotsAppended
      <3> QED
        BY <1>2, <1>3, <1>4, <3>1, <3>2 DEF SlotsSaved
    <2> QED
      BY <1>1, <1>3, <1>6, <2>4, <2>5, <2>6, SentOpens DEF Opening
  <1> QED
    BY <1>5, <1>6 DEF Open

(* An order that locks was sent, and its group is still to be noted.       *)
LEMMA LockKeeps ==
    ASSUME Core, Lock
    PROVE  Core'
  <1>1. /\ state = "up" /\ pc = Idle /\ book.txn.opening = 0
        /\ book' = book /\ db' = db /\ cgs' = cgs /\ state' = state /\ cfg' = cfg
        /\ book.txn.lockable > book.txn.lock
    BY DEF Lock
  <1>2. PICK volume \in 1..MaxVolume :
            SendOpen("lock", Least(book.txn.lockable - book.txn.lock, volume), 0)
    BY DEF Lock
  <1> DEFINE n == Least(book.txn.lockable - book.txn.lock, volume)
  <1>3. n \in Nat \ {0}
    <2>1. book.txn.lockable - book.txn.lock \in Nat \ {0} /\ volume \in Nat \ {0}
      BY <1>1, CoreParts, BookParts, GridAssumption
    <2> QED
      BY <2>1 DEF Least
  <1>4. SendOpen("lock", n, 0)
    BY <1>2
  <1> HIDE DEF n
  <1>5. SlotsSaved(pc', book'.slots, db.slots)
    <2>1. pc'.kind = "lock"
      BY <1>4 DEF SendOpen
    <2>2. db.slots = book.slots
      BY <1>1, CoreParts DEF RedisRight, SlotsSaved, Idle
    <2> QED
      BY <1>1, <2>1, <2>2 DEF SlotsSaved
  <1> QED
    BY <1>1, <1>3, <1>4, <1>5, CoreParts, SentOpens DEF Opening

(* The group of the order is noted.                                        *)
LEMMA AddOpenGroupKeeps ==
    ASSUME Core, AddOpenGroup
    PROVE  Core'
  <1> DEFINE n == OpenGroup(IF pc.kind = "open" THEN "NORMAL" ELSE "LOCK", pc.quantity, pc.slot)
             L == Listed(book.costs, book.locks)
             F == flight
  <1>1. /\ state = "up" /\ pc.at = "sent" /\ pc.kind \in Opening
        /\ book' = [book EXCEPT !.grp[pc.key] = n]
        /\ db' = AddGroup(AppendSlots(db, book.slots), pc.key, n)
        /\ pc' = [pc EXCEPT !.at = "added"] /\ cgs' = cgs /\ flight' = flight
        /\ state' = state /\ cfg' = cfg
    BY DEF AddOpenGroup
  <1>2. pc \in OpenPcs
    BY <1>1, CoreParts DEF Pcs, ClosePcs, Idle, Opening, Closing
  <1>3. /\ pc.key \in Keys /\ pc.quantity \in Nat /\ pc.slot \in Nat
        /\ pc' \in OpenPcs /\ pc'.at = "added" /\ pc'.kind = pc.kind /\ pc'.key = pc.key
        /\ pc'.quantity = pc.quantity
    BY <1>1, <1>2 DEF OpenPcs
  <1>4. /\ n \in Groups /\ n.type = (IF pc.kind = "open" THEN "NORMAL" ELSE "LOCK")
        /\ n.quantity = pc.quantity /\ n.filled = 0 /\ n.close = 0 /\ n.closing = 0
    BY <1>3 DEF OpenGroup, Groups
  <1> HIDE DEF n
  <1>5. /\ book.grp \in [Keys -> Groups \cup {NoGroup}] /\ db.grp \in [Keys -> Groups \cup {NoGroup}]
        /\ book.slots \in Seq(Slots) /\ db.slots \in Seq(Slots)
    BY CoreParts, BookParts
  <1>6. /\ book' \in Books /\ book'.txn = book.txn /\ book'.slots = book.slots
        /\ book'.costs = book.costs /\ book'.locks = book.locks
        /\ book'.grp = [book.grp EXCEPT ![pc.key] = n]
    <2>1. [book.grp EXCEPT ![pc.key] = n] \in [Keys -> Groups \cup {NoGroup}]
      BY <1>4, <1>5
    <2>2. PICK h : h = [book.grp EXCEPT ![pc.key] = n]
      OBVIOUS
    <2>3. book' = [book EXCEPT !.grp = h]
      BY <1>1, <2>2
    <2> QED
      BY <2>1, <2>2, <2>3, CoreParts, GroupsWritten
  <1>7. /\ db' \in Books /\ db'.txn = db.txn /\ db'.slots = book.slots
        /\ db'.costs = db.costs /\ db'.locks = db.locks
        /\ db'.grp = [db.grp EXCEPT ![pc.key] = n]
    <2> DEFINE s == db.slots \o SubSeq(book.slots, Len(db.slots) + 1, Len(book.slots))
    <2>1. s = book.slots
      <3>1. Len(db.slots) <= Len(book.slots) /\ db.slots = SubSeq(book.slots, 1, Len(db.slots))
        <4>1. CASE pc.kind = "open"
          BY <1>1, <4>1, CoreParts DEF RedisRight, SlotsSaved
        <4>2. CASE pc.kind # "open"
          <5>1. db.slots = book.slots
            BY <4>2, CoreParts DEF RedisRight, SlotsSaved
          <5> QED
            BY <1>5, <5>1
        <4> QED
          BY <4>1, <4>2
      <3>2. \A i \in 1..Len(db.slots) : book.slots[i] = db.slots[i]
        BY <1>5, <3>1
      <3> QED
        BY <1>5, <3>1, <3>2, SlotsAppended
    <2>2. AppendSlots(db, book.slots) = [db EXCEPT !.slots = s]
      BY DEF AppendSlots
    <2> HIDE DEF s
    <2>3. PICK e : e = [db EXCEPT !.slots = s]
      OBVIOUS
    <2>4. /\ e \in Books /\ e.txn = db.txn /\ e.slots = book.slots
          /\ e.costs = db.costs /\ e.locks = db.locks /\ e.grp = db.grp
      BY <1>5, <2>1, <2>3, CoreParts, SlotsWritten
    <2>5. PICK h : h = [e.grp EXCEPT ![pc.key] = n]
      OBVIOUS
    <2>6. h \in [Keys -> Groups \cup {NoGroup}]
      BY <1>4, <1>5, <2>4, <2>5
    <2>7. db' = [e EXCEPT !.grp = h]
      BY <1>1, <2>2, <2>3, <2>5 DEF AddGroup
    <2> QED
      BY <2>4, <2>5, <2>6, <2>7, GroupsWritten
  <1>8. PICK o \in FreshOf(F) : FreshOf(F) = {o} /\ o.key = pc.key /\ o.kind = pc.kind
                                /\ o.quantity = pc.quantity
    BY <1>1 DEF Core, BookCore, FreshRight
  <1>9. o \in OpensOf(F) /\ o.news /\ \A x \in OpensOf(F) : x.key = pc.key => x = o
    BY <1>8 DEF Core, BookCore, OrdersRight, OpensOf, FreshOf
  <1>10. pc.key \notin L
    BY <1>8, <1>9 DEF Core, BookCore, GroupsRight
  <1>11. \A g \in L : book'.grp[g] = book.grp[g] /\ db'.grp[g] = db.grp[g]
    <2>1. L \subseteq Keys
      BY CoreParts, ListedKeys
    <2> QED
      BY <1>5, <1>6, <1>7, <1>10, <2>1
  <1>12. \A x \in OpensOf(F) : x # o => x.key \in Keys /\ x.key # pc.key
                                         /\ book'.grp[x.key] = book.grp[x.key]
                                         /\ db'.grp[x.key] = db.grp[x.key]
    <2>1. \A x \in OpensOf(F) : x.key \in Keys
      BY DEF Core, BookCore, OrdersRight, OrderRight, OpensOf
    <2> QED
      BY <1>5, <1>6, <1>7, <1>9, <2>1
  <1>13. book'.grp[pc.key] = n /\ db'.grp[pc.key] = n
    BY <1>3, <1>5, <1>6, <1>7
  <1>14. \A k : ~Sent(pc', k) /\ (Sent(pc, k) <=> k = pc.key)
    BY <1>1, <1>3 DEF Sent
  <1>15. Types'
    <2>1. pc' \in Pcs
      BY <1>3 DEF Pcs
    <2> QED
      BY <1>1, <1>6, <1>7, <2>1 DEF Core, Types
  <1>16. BookCore(flight', pc', cgs', book')
    <2>1. FreshRight(F, pc', book'.txn.opening)
      BY <1>1, <1>3, <1>6, <1>8 DEF Core, BookCore, FreshRight
    <2>2. GroupsRight(F, pc', L, book'.grp)
      <3>1. Opened(o, book'.grp[pc.key])
        BY <1>1, <1>4, <1>8, <1>9, <1>13 DEF Opened, TypeOfKind, Opening
      <3>2. \A x \in OpensOf(F) : x.key \notin L /\ (x # o => Opened(x, book.grp[x.key]))
        BY <1>12, <1>14 DEF Core, BookCore, GroupsRight
      <3> QED
        BY <1>8, <1>12, <3>1, <3>2 DEF GroupsRight
    <2>3. LotsRight(L, book'.grp)
      BY <1>11 DEF Core, BookCore, LotsRight
    <2>4. CloseRight(SellsOf(F), pc', cgs, book.costs, book.locks, book'.grp, book.txn.closing)
      <3>1. CloseRight(SellsOf(F), pc, cgs, book.costs, book.locks, book.grp, book.txn.closing)
        BY DEF Core, BookCore
      <3>2. pc.kind \notin Closing /\ pc'.kind \notin Closing
        BY <1>1, <1>3 DEF Closing, Opening
      <3>3. /\ ToSet(book.costs) \subseteq ToSet(book.costs) /\ ToSet(book.locks) \subseteq ToSet(book.locks)
            /\ \A x \in L : book'.grp[x].closing = book.grp[x].closing
            /\ \A x \in L \ L : book'.grp[x].closing = 0
        BY <1>11
      <3> QED
        BY <3>1, <3>2, <3>3, CloseFramed
    <2> QED
      BY <1>1, <1>6, <2>1, <2>2, <2>3, <2>4 DEF Core, BookCore
  <1>17. RedisRight(flight', pc', book', db')
    <2>1. GroupsSaved(F, pc', L, book'.grp, db'.grp)
      <3>1. Marking(pc) = {} /\ Marking(pc') = {}
        BY <1>1, <1>3 DEF Marking, Opening, Closing
      <3>2. \A g \in L : db.grp[g] = book.grp[g]
        BY <3>1 DEF Core, RedisRight, GroupsSaved, Saved, Needed
      <3>3. \A x \in OpensOf(F) : x # o => db.grp[x.key] = book.grp[x.key]
        <4> TAKE x \in OpensOf(F)
        <4>1. x # o => x.key \in Needed(F, pc, L)
          BY <1>12, <1>14 DEF Needed, KeysOf
        <4> QED
          BY <3>1, <4>1 DEF Core, RedisRight, GroupsSaved, Saved
      <3>4. \A x \in OpensOf(F) : db'.grp[x.key] = book'.grp[x.key]
        BY <1>8, <1>12, <1>13, <3>3
      <3>5. \A g \in Needed(F, pc', L) : db'.grp[g] = book'.grp[g]
        BY <1>11, <3>2, <3>4 DEF Needed, KeysOf
      <3> QED
        BY <3>1, <3>5 DEF GroupsSaved, Saved
    <2>2. TxnSaved(pc', book'.txn, db'.txn)
      <3>1. pc.kind # "unlock"
        BY <1>1 DEF Opening
      <3> QED
        BY <1>6, <1>7, <3>1, SavedCounters DEF TxnSaved
    <2>3. SlotsSaved(pc', book'.slots, db'.slots)
      BY <1>3, <1>6, <1>7 DEF SlotsSaved
    <2> QED
      BY <1>1, <1>6, <1>7, <2>1, <2>2, <2>3, SavedCounters DEF RedisRight
  <1> QED
    BY <1>15, <1>16, <1>17 DEF Core

-----------------------------------------------------------------------------
(* Noting an order that opens.                                             *)

(* One slot written, or none if it is not there.                           *)
LEMMA SlotChanged ==
    ASSUME NEW s \in Seq(Slots), NEW i, NEW r, i \in DOMAIN s => r \in Slots, NEW new,
           new = [s EXCEPT ![i] = r]
    PROVE  /\ new \in Seq(Slots) /\ DOMAIN new = DOMAIN s /\ Len(new) = Len(s)
           /\ \A j \in DOMAIN s : new[j] = IF j = i THEN r ELSE s[j]
  <1>1. s \in [1..Len(s) -> Slots] /\ Len(s) \in Nat /\ DOMAIN s = 1..Len(s)
    OBVIOUS
  <1>2. /\ new \in [1..Len(s) -> Slots] /\ \A j \in DOMAIN s : new[j] = IF j = i THEN r ELSE s[j]
    BY <1>1
  <1>3. new \in Seq(Slots) /\ Len(new) = Len(s)
    BY <1>1, <1>2, SeqDef
  <1> QED
    BY <1>1, <1>2, <1>3

(* set_txn_slot.                                                           *)
LEMMA SlotSet ==
    ASSUME NEW b \in Books, NEW d \in Books, NEW i, DOMAIN b.slots = DOMAIN d.slots,
           \A j \in DOMAIN b.slots : j # i => b.slots[j] = d.slots[j],
           NEW e, e = SetSlot(d, b, i)
    PROVE  /\ e \in Books /\ e.txn = d.txn /\ e.slots = b.slots /\ e.costs = d.costs
           /\ e.locks = d.locks /\ e.grp = d.grp
  <1>1. b.slots \in Seq(Slots) /\ d.slots \in Seq(Slots)
    BY BookParts
  <1>2. PICK s : s = [d.slots EXCEPT ![i] = b.slots[i]]
    OBVIOUS
  <1>3. s = b.slots
    <2>1. i \in DOMAIN d.slots => b.slots[i] \in Slots
      BY <1>1
    <2>2. /\ s \in Seq(Slots) /\ DOMAIN s = DOMAIN d.slots
          /\ \A j \in DOMAIN s : s[j] = IF j = i THEN b.slots[i] ELSE d.slots[j]
      <3>1. s = [j \in DOMAIN d.slots |-> IF j = i THEN b.slots[i] ELSE d.slots[j]]
        BY <1>1, <1>2
      <3>2. Len(d.slots) \in Nat /\ DOMAIN d.slots = 1..Len(d.slots)
        BY <1>1
      <3>3. s \in [1..Len(d.slots) -> Slots]
        BY <1>1, <2>1, <3>1, <3>2
      <3>4. s \in Seq(Slots)
        BY <3>2, <3>3, SeqDef
      <3> QED
        BY <3>1, <3>4
    <2>3. s = [j \in DOMAIN s |-> s[j]] /\ b.slots = [j \in DOMAIN s |-> b.slots[j]]
      BY <1>1, <2>2
    <2>4. \A j \in DOMAIN s : s[j] = b.slots[j]
      BY <2>2
    <2> QED
      BY <2>3, <2>4
  <1>4. e = [d EXCEPT !.slots = s]
    BY <1>2 DEF SetSlot
  <1> QED
    BY <1>1, <1>3, <1>4, SlotsWritten

(* The orders change and what is counted as being opened, or where the     *)
(* strategy thread is; the groups, the lists and what is being closed stay.*)
LEMMA CountOpeningKeeps ==
    ASSUME Core, CountOpening
    PROVE  Core'
  <1> DEFINE L == Listed(book.costs, book.locks)
             F == flight
             q == pc.quantity
             t == [book.txn EXCEPT !.opening = book.txn.opening + q]
  <1>1. /\ state = "up" /\ pc.at = "added" /\ pc.kind \in Opening /\ pc' = Idle
        /\ cgs' = cgs /\ flight' = flight /\ state' = state /\ cfg' = cfg
    BY DEF CountOpening
  <1>2. pc \in OpenPcs
    BY <1>1, CoreParts DEF Pcs, ClosePcs, Idle, Opening, Closing
  <1>3. pc.quantity \in Nat /\ pc.slot \in Nat /\ book.txn.opening = 0
    BY <1>1, <1>2 DEF OpenPcs, Core, BookCore, FreshRight
  <1>4. book.txn \in Txns /\ book.slots \in Seq(Slots) /\ db.slots = book.slots /\ db.txn = book.txn
    <2>1. pc.kind # "unlock" /\ ~(pc.kind = "open" /\ pc.at = "sent")
      BY <1>1 DEF Opening
    <2> QED
      BY <2>1, CoreParts, SavedCounters, BookParts DEF RedisRight, SlotsSaved
  <1>5. /\ t \in Txns /\ t.opening = q /\ t.open = book.txn.open /\ t.closing = book.txn.closing
        /\ t.lock = book.txn.lock /\ t.lockable = book.txn.lockable /\ t.status = book.txn.status
    BY <1>3, <1>4 DEF Txns
  <1>6. PICK b : b = [book EXCEPT !.txn = t]
    OBVIOUS
  <1>7. /\ b \in Books /\ b.txn = t /\ b.slots = book.slots /\ b.costs = book.costs
        /\ b.locks = book.locks /\ b.grp = book.grp
    <2> HIDE DEF t
    <2> QED
      BY <1>5, <1>6, CoreParts, TxnWritten
  <1>8. /\ book' \in Books /\ book'.txn = t /\ book'.costs = book.costs /\ book'.locks = book.locks
        /\ book'.grp = book.grp
        /\ db' \in Books /\ db'.txn = t /\ db'.costs = book.costs /\ db'.locks = book.locks
        /\ db'.grp = db.grp /\ db'.slots = book'.slots
    <2>1. CASE pc.kind = "open"
      <3> DEFINE i == pc.slot
                 r == [book.slots[i] EXCEPT !.opening = q]
      <3>1. PICK s : s = [book.slots EXCEPT ![i] = r]
        OBVIOUS
      <3>2. i \in DOMAIN book.slots => r \in Slots
        <4>1. i \in DOMAIN book.slots => book.slots[i] \in Slots
          BY <1>4
        <4> QED
          BY <1>3, <4>1 DEF Slots
      <3>3. book' = [b EXCEPT !.slots = s]
        <4>1. book' = [book EXCEPT !.txn.opening = book.txn.opening + q, !.slots[i].opening = q]
          BY <2>1 DEF CountOpening
        <4> QED
          <5>1. book' = [b EXCEPT !.slots[i].opening = q]
            BY <1>6, <4>1
          <5> HIDE DEF t
          <5> QED
            BY <1>7, <3>1, <5>1
      <3> HIDE DEF r, i, t
      <3>4. s \in Seq(Slots) /\ DOMAIN s = DOMAIN book.slots
            /\ \A j \in DOMAIN book.slots : j # i => s[j] = book.slots[j]
        BY <1>4, <3>1, <3>2, SlotChanged
      <3>5. /\ book' \in Books /\ book'.txn = t /\ book'.costs = book.costs
            /\ book'.locks = book.locks /\ book'.grp = book.grp /\ book'.slots = s
        BY <1>7, <3>3, <3>4, SlotsWritten
      <3>6. PICK e : e = SaveTxn(db, book')
        OBVIOUS
      <3>7. /\ e \in Books /\ e.txn = t /\ e.slots = book.slots /\ e.costs = book.costs
            /\ e.locks = book.locks /\ e.grp = db.grp
        BY <1>4, <1>5, <3>5, <3>6, CoreParts, SavedTxn, SavedCounters
      <3>8. db' = SetSlot(e, book', i)
        BY <2>1, <3>6 DEF CountOpening, i
      <3>9. /\ DOMAIN book'.slots = DOMAIN e.slots
            /\ \A j \in DOMAIN book'.slots : j # i => book'.slots[j] = e.slots[j]
        BY <3>4, <3>5, <3>7
      <3>10. /\ db' \in Books /\ db'.txn = e.txn /\ db'.slots = book'.slots /\ db'.costs = e.costs
             /\ db'.locks = e.locks /\ db'.grp = e.grp
        BY <3>5, <3>7, <3>8, <3>9, SlotSet
      <3> QED
        BY <3>5, <3>7, <3>10
    <2>2. CASE pc.kind = "lock"
      <3>1. book' = b
        <4>1. book' = [book EXCEPT !.txn.opening = @ + q]
          BY <2>2 DEF CountOpening
        <4> QED
          BY <1>6, <4>1, CoreParts DEF Books
      <3>2. db' = SaveTxnLock(db, book')
        BY <2>2 DEF CountOpening
      <3> HIDE DEF t
      <3> QED
        BY <1>4, <1>5, <1>7, <3>1, <3>2, CoreParts, SavedTxnLock, SavedCounters
    <2> QED
      BY <1>1, <2>1, <2>2 DEF Opening
  <1> HIDE DEF t
  <1>9. Types'
    BY <1>1, <1>8 DEF Core, Types, Pcs
  <1>10. \A k : ~Sent(pc, k) /\ ~Sent(pc', k)
    BY <1>1 DEF Sent, Idle
  <1>11. FreshRight(F, pc', book'.txn.opening)
    BY <1>1, <1>5, <1>8 DEF Core, BookCore, FreshRight, Idle, Opening
  <1>12. GroupsRight(F, pc', L, book.grp)
    BY <1>10 DEF Core, BookCore, GroupsRight
  <1>13. CloseRight(SellsOf(F), pc', cgs, book.costs, book.locks, book.grp, book.txn.closing)
    <2>1. CloseRight(SellsOf(F), pc, cgs, book.costs, book.locks, book.grp, book.txn.closing)
      BY DEF Core, BookCore
    <2>2. pc.kind \notin Closing /\ pc'.kind \notin Closing
      BY <1>1 DEF Closing, Opening, Idle
    <2>3. /\ ToSet(book.costs) \subseteq ToSet(book.costs) /\ ToSet(book.locks) \subseteq ToSet(book.locks)
          /\ \A x \in L : book.grp[x].closing = book.grp[x].closing
          /\ \A x \in L \ L : book.grp[x].closing = 0
      OBVIOUS
    <2> QED
      BY <2>1, <2>2, <2>3, CloseFramed
  <1>14. BookCore(flight', pc', cgs', book')
    BY <1>1, <1>5, <1>8, <1>11, <1>12, <1>13 DEF Core, BookCore
  <1>15. GroupsSaved(F, pc', L, book.grp, db.grp)
    <2>1. Needed(F, pc', L) = Needed(F, pc, L)
      BY <1>10 DEF Needed
    <2>2. Marking(pc) = {} /\ Marking(pc') = {}
      BY <1>1 DEF Marking, Idle
    <2>3. GroupsSaved(F, pc, L, book.grp, db.grp)
      BY DEF Core, RedisRight
    <2> QED
      BY <2>1, <2>2, <2>3 DEF GroupsSaved, Saved
  <1>16. RedisRight(flight', pc', book', db')
    BY <1>1, <1>8, <1>15 DEF RedisRight, TxnSaved, SlotsSaved, Idle
  <1> QED
    BY <1>9, <1>14, <1>16 DEF Core

-----------------------------------------------------------------------------
(* The exchange.                                                           *)

(* An order that opens changes at the exchange, and its news is still to   *)
(* come.                                                                   *)
LEMMA OrderReplaced ==
    ASSUME NEW F, NEW p, NEW closes, NEW b, BookCore(F, p, closes, b), NEW d, RedisRight(F, p, b, d),
           NEW o \in F, NEW x, OrderRight(x), x.kind = o.kind, x.key = o.key, x.part = o.part,
           x.quantity = o.quantity, o.news, x.news, NEW G, G = (F \ {o}) \cup {x},
           CloseRight(SellsOf(G), p, closes, b.costs, b.locks, b.grp, b.txn.closing)
    PROVE  BookCore(G, p, closes, b) /\ RedisRight(G, p, b, d)
  <1> DEFINE L == Listed(b.costs, b.locks)
  <1>1. OrdersRight(G)
    BY DEF BookCore, OrdersRight
  <1>2. FreshRight(G, p, b.txn.opening)
    <2>1. FreshRight(F, p, b.txn.opening)
      BY DEF BookCore
    <2>2. CASE o.kind \in Opening
      <3>1. o \in FreshOf(F)
        BY <2>2 DEF FreshOf
      <3>2. FreshOf(F) = {o}
        BY <2>1, <3>1 DEF FreshRight
      <3>3. FreshOf(G) = {x}
        BY <2>2, <3>2 DEF FreshOf
      <3> QED
        BY <2>1, <3>2, <3>3 DEF FreshRight
    <2>3. CASE o.kind \notin Opening
      <3>1. FreshOf(G) = FreshOf(F)
        BY <2>3 DEF FreshOf
      <3> QED
        BY <2>1, <3>1 DEF FreshRight
    <2> QED
      BY <2>2, <2>3
  <1>3. GroupsRight(G, p, L, b.grp)
    <2>1. \A y \in OpensOf(G) : y = x \/ y \in OpensOf(F)
      BY DEF OpensOf
    <2>2. x \in OpensOf(G) => o \in OpensOf(F)
      BY DEF OpensOf
    <2>3. ASSUME NEW group, Opened(o, group) PROVE Opened(x, group)
      BY <2>3 DEF Opened, TypeOfKind
    <2>4. GroupsRight(F, p, L, b.grp)
      BY DEF BookCore
    <2>5. ASSUME x \in OpensOf(G) PROVE x.key \notin L /\ (~Sent(p, x.key) => Opened(x, b.grp[x.key]))
      BY <2>2, <2>3, <2>4, <2>5 DEF GroupsRight
    <2> QED
      BY <2>1, <2>4, <2>5 DEF GroupsRight
  <1>4. BookCore(G, p, closes, b)
    BY <1>1, <1>2, <1>3 DEF BookCore
  <1>5. Needed(G, p, L) = Needed(F, p, L)
    <2>1. KeysOf({y \in OpensOf(G) : ~Sent(p, y.key)}) = KeysOf({y \in OpensOf(F) : ~Sent(p, y.key)})
      BY DEF KeysOf, OpensOf
    <2> QED
      BY <2>1 DEF Needed
  <1>6. RedisRight(G, p, b, d)
    BY <1>5 DEF RedisRight, GroupsSaved
  <1> QED
    BY <1>4, <1>6

(* What a calm step may show.                                              *)
LEMMA CalmShows ==
    ASSUME Calm', NEW shown, Meets(shown)
    PROVE  shown \subseteq {"late_trade", "no_position", "overtaken", "signal"} /\ odd \subseteq odd'
  BY DEF Calm, Meets, Harmless

(* A close order changes at the exchange.                                  *)
LEMMA SellExchanged ==
    ASSUME NEW F, NEW p, NEW closes, NEW costs, NEW locks, NEW grp, NEW closing,
           CloseRight(SellsOf(F), p, closes, costs, locks, grp, closing), OrdersRight(F),
           NEW o \in F, NEW x, x.kind = o.kind, x.key = o.key, x.part = o.part,
           x.quantity = o.quantity, o.news, x.news, o.result = -1,
           NEW G, G = (F \ {o}) \cup {x},
           o.kind \in Closing /\ x.result = 0 /\ closes[o.key] # NoGroup
               /\ closes[o.key].frag = "RCV_ONE" => ~(closes[o.key].filled > 0),
           closes \in [CloseKeys -> Closes \cup {NoGroup}]
    PROVE  CloseRight(SellsOf(G), p, closes, costs, locks, grp, closing)
  <1>1. CASE o.kind \notin Closing
    <2>1. SellsOf(G) = SellsOf(F)
      BY <1>1 DEF SellsOf
    <2> QED
      BY <2>1
  <1>2. CASE o.kind \in Closing
    <2> DEFINE S == SellsOf(F)
               T == SellsOf(G)
    <2>1. o \in S /\ T = (S \ {o}) \cup {x}
      BY <1>2 DEF SellsOf
    <2>2. \A y \in S : y # o => y # x
      BY <1>2 DEF OrdersRight, SellsOf
    <2> HIDE DEF S, T
    <2>3. ASSUME NEW k, NEW cg, Marked(S, k, cg, costs, locks, grp)
          PROVE  Marked(T, k, cg, costs, locks, grp)
      BY <2>1, <2>3 DEF Marked
    <2>4. ASSUME NEW cg, OneNew(S, cg) PROVE OneNew(T, cg)
      BY <2>1, <2>4 DEF OneNew
    <2>5. ASSUME NEW cg, BothNew(S, cg) PROVE BothNew(T, cg)
      <3>1. PICK a \in S, y \in S : /\ a # y /\ S = {a, y} /\ a.news /\ y.news
                                    /\ a.quantity + y.quantity = cg.quantity
        BY <2>5 DEF BothNew
      <3>2. CASE o = a
        <4>1. T = {x, y} /\ x # y
          BY <2>1, <2>2, <3>1, <3>2
        <4> QED
          BY <3>1, <3>2, <4>1 DEF BothNew
      <3>3. CASE o = y
        <4>1. T = {a, x} /\ a # x
          BY <2>1, <2>2, <3>1, <3>3
        <4> QED
          BY <3>1, <3>3, <4>1 DEF BothNew
      <3> QED
        BY <2>1, <3>1, <3>2, <3>3
    <2>6. CASE NoClosing(S, p, closes, costs, locks, grp, closing)
      BY <2>1, <2>6 DEF NoClosing
    <2>7. CASE CloseSent(S, p, closes, costs, locks, grp, closing)
      <3>1. CloseSent(T, p, closes, costs, locks, grp, closing)
        BY <2>3, <2>4, <2>5, <2>7 DEF CloseSent
      <3> QED
        BY <3>1 DEF CloseRight, T
    <2>8. ASSUME NEW k \in CloseKeys, CloseNoted(k, S, p, closes, costs, locks, grp, closing)
          PROVE  CloseRight(T, p, closes, costs, locks, grp, closing)
      <3> DEFINE cg == closes[k]
      <3>1. Marked(S, k, cg, costs, locks, grp) /\ Parts(S, cg) /\ cg # NoGroup
        BY <2>8 DEF CloseNoted
      <3>2. o.key = k /\ cg \in Closes
        BY <2>1, <3>1 DEF Marked
      <3> HIDE DEF cg
      <3>3. Parts(T, cg)
        <4>1. ~OneHeard(S, cg) /\ ~SecondHeard(S, cg)
          BY <2>1 DEF OneHeard, SecondHeard
        <4>2. ASSUME cg.frag = "RCV_ONE", SecondNew(S, cg) PROVE SecondNew(T, cg)
          <5>1. PICK a \in S :
                    /\ a.news /\ a.quantity + cg.filled <= cg.quantity
                    /\ \/ S = {a}
                       \/ \E y \in S : S = {a, y} /\ ~y.news /\ cg.filled = y.result
            BY <4>2 DEF SecondNew
          <5>2. a = o
            BY <2>1, <5>1
          <5>3. x \in T /\ x.quantity + cg.filled <= cg.quantity
            BY <2>1, <5>1, <5>2
          <5>4. x.result = 0 => cg.filled = 0
            BY <1>2, <3>1, <3>2, <4>2 DEF cg, Closes
          <5>5. \/ T = {x}
                \/ \E y \in T : T = {x, y} /\ ~y.news /\ cg.filled = y.result
            BY <2>1, <5>1, <5>2
          <5> QED
            BY <5>3, <5>4, <5>5 DEF SecondNew
        <4> QED
          BY <2>4, <2>5, <3>1, <4>1, <4>2 DEF Parts
      <3>4. Marked(T, k, cg, costs, locks, grp)
        BY <2>3, <3>1
      <3>5. CloseNoted(k, T, p, closes, costs, locks, grp, closing)
        BY <2>8, <3>3, <3>4 DEF CloseNoted, cg
      <3> QED
        BY <3>5 DEF CloseRight
    <2> QED
      BY <2>6, <2>7, <2>8 DEF CloseRight, S, T
  <1> QED
    BY <1>1, <1>2

(* What the exchange makes of an order changes nothing in the books.       *)
LEMMA ExchangeKeeps ==
    ASSUME Core, Calm', NEW o \in flight, Exchange(o)
    PROVE  Core'
  <1>1. PICK n \in 0..o.quantity, trades \in 0..2 :
            /\ (n = 0) = (trades = 0) /\ trades <= n
            /\ Meets((IF trades = 2 THEN {"two_trades"} ELSE {})
                        \cup (IF EmptyEnd(o, n) THEN {"late_part"} ELSE {}))
            /\ flight' = (flight \ {o}) \cup {[o EXCEPT !.result = n, !.trades = trades]}
    BY DEF Exchange
  <1>2. o.result = -1 /\ UNCHANGED <<cfg, book, db, cgs, pc, state>>
    BY DEF Exchange
  <1>3. trades # 2 /\ ~EmptyEnd(o, n)
    BY <1>1, CalmShows
  <1>4. OrderRight(o) /\ o \in Orders
    BY CoreParts DEF BookCore, OrdersRight
  <1>5. PICK x : x = [o EXCEPT !.result = n, !.trades = trades]
    OBVIOUS
  <1>6. /\ x \in Orders /\ x.kind = o.kind /\ x.key = o.key /\ x.part = o.part
        /\ x.quantity = o.quantity /\ x.news = o.news /\ x.result = n /\ x.trades = trades
    <2>1. n \in Int /\ trades \in Nat
      BY <1>4 DEF Orders
    <2> QED
      BY <1>4, <1>5, <2>1 DEF Orders
  <1>7. o.news /\ x.news
    BY <1>2, <1>4, <1>6 DEF OrderRight
  <1>8. OrderRight(x)
    BY <1>1, <1>3, <1>4, <1>6, <1>7 DEF OrderRight, Orders
  <1>9. flight' = (flight \ {o}) \cup {x}
    BY <1>1, <1>5
  <1>10. CloseRight(SellsOf(flight'), pc, cgs, book.costs, book.locks, book.grp, book.txn.closing)
    <2>1. CloseRight(SellsOf(flight), pc, cgs, book.costs, book.locks, book.grp, book.txn.closing)
          /\ OrdersRight(flight)
      BY DEF Core, BookCore
    <2>2. o.kind \in Closing /\ x.result = 0 /\ cgs[o.key] # NoGroup
               /\ cgs[o.key].frag = "RCV_ONE" => ~(cgs[o.key].filled > 0)
      BY <1>3, <1>6 DEF EmptyEnd
    <2> QED
      BY <1>2, <1>6, <1>7, <1>9, <2>1, <2>2, CoreParts, SellExchanged
  <1>11. BookCore(flight', pc, cgs, book) /\ RedisRight(flight', pc, book, db)
    BY <1>6, <1>7, <1>8, <1>9, <1>10, CoreParts, OrderReplaced
  <1>12. flight' \in SUBSET Orders /\ IsFiniteSet(flight')
    BY <1>6, <1>9, CoreParts, FS_RemoveElement, FS_AddElement
  <1>13. Types'
    BY <1>2, <1>12 DEF Core, Types
  <1> QED
    BY <1>2, <1>11, <1>13 DEF Core

-----------------------------------------------------------------------------
(* The final news of an order that opens.                                  *)

WithFilled(g, n) == [g EXCEPT !.filled = n]
TxnOpened(txn, n) == [txn EXCEPT !.open = txn.open + n, !.opening = 0]
TxnLocked(txn, n) == [txn EXCEPT !.lock = txn.lock + n, !.opening = 0]

(* update_open_group in memory,                                            *)
LEMMA GroupFilled ==
    ASSUME NEW b \in Books, NEW k \in Keys, b.grp[k] \in Groups, NEW n \in Nat,
           NEW f, f = FillOpenGroup(b, k, n)
    PROVE  /\ f \in Books /\ f.txn = b.txn /\ f.slots = b.slots /\ f.costs = b.costs
           /\ f.locks = b.locks
           /\ f.grp[k] = WithFilled(b.grp[k], n) /\ f.grp[k] \in Groups
           /\ \A g \in Keys : g # k => f.grp[g] = b.grp[g]
  <1>1. PICK g1 : g1 = [b.grp[k] EXCEPT !.filled = n]
    OBVIOUS
  <1>2. g1 \in Groups
    BY <1>1 DEF Groups
  <1>3. PICK h : h = [b.grp EXCEPT ![k] = g1]
    OBVIOUS
  <1>4. b.grp \in [Keys -> Groups \cup {NoGroup}]
    BY BookParts
  <1>5. h \in [Keys -> Groups \cup {NoGroup}] /\ h[k] = g1 /\ \A g \in Keys : g # k => h[g] = b.grp[g]
    BY <1>2, <1>3, <1>4
  <1>6. f = [b EXCEPT !.grp = h]
    BY <1>1, <1>3 DEF FillOpenGroup
  <1>7. /\ f \in Books /\ f.txn = b.txn /\ f.slots = b.slots /\ f.costs = b.costs
        /\ f.locks = b.locks /\ f.grp = h
    BY <1>5, <1>6, GroupsWritten
  <1> QED
    BY <1>1, <1>2, <1>5, <1>7 DEF WithFilled

(* and in redis.                                                           *)
LEMMA FillSaved ==
    ASSUME NEW d \in Books, NEW b, NEW k \in Keys, d.grp[k] \in Groups, NEW n \in Nat,
           b.grp[k] = WithFilled(d.grp[k], n), NEW e, e = SaveFilled(d, b, k)
    PROVE  /\ e \in Books /\ e.txn = d.txn /\ e.slots = d.slots /\ e.costs = d.costs
           /\ e.locks = d.locks
           /\ e.grp[k] = b.grp[k] /\ \A g \in Keys : g # k => e.grp[g] = d.grp[g]
  <1>1. b.grp[k] \in Groups /\ b.grp[k].filled = n /\ b.grp[k].close = d.grp[k].close
    BY DEF Groups, WithFilled
  <1>2. PICK g1 : g1 = [d.grp[k] EXCEPT !.filled = b.grp[k].filled, !.close = b.grp[k].close]
    OBVIOUS
  <1>3. g1 = b.grp[k]
    BY <1>1, <1>2 DEF Groups, WithFilled
  <1>4. PICK h : h = [d.grp EXCEPT ![k] = g1]
    OBVIOUS
  <1>5. d.grp \in [Keys -> Groups \cup {NoGroup}]
    BY BookParts
  <1>6. h \in [Keys -> Groups \cup {NoGroup}] /\ h[k] = g1 /\ \A g \in Keys : g # k => h[g] = d.grp[g]
    BY <1>1, <1>3, <1>4, <1>5
  <1>7. e = [d EXCEPT !.grp = h]
    <2>1. e = [d EXCEPT !.grp[k].filled = b.grp[k].filled, !.grp[k].close = b.grp[k].close]
      BY DEF SaveFilled
    <2> QED
      BY <1>2, <1>4, <1>5, <2>1 DEF Books
  <1>8. /\ e \in Books /\ e.txn = d.txn /\ e.slots = d.slots /\ e.costs = d.costs
        /\ e.locks = d.locks /\ e.grp = h
    BY <1>6, <1>7, GroupsWritten
  <1> QED
    BY <1>3, <1>6, <1>8

(* The book after the final news of an order to open.                      *)
OpenedBook(b, k, n, i) ==
    [FillOpenGroup(b, k, n) EXCEPT
        !.txn.open = @ + n, !.txn.opening = 0, !.slots[i].open = @ + n, !.slots[i].opening = 0]
SlotOpened(slots, i, n) == [slots EXCEPT ![i] = [slots[i] EXCEPT !.open = slots[i].open + n, !.opening = 0]]

(* What the final news of an order to open makes of the book.              *)
LEMMA BookOpened ==
    ASSUME NEW b \in Books, NEW k \in Keys, b.grp[k] \in Groups, NEW n \in Nat, NEW i,
           NEW c, c = OpenedBook(b, k, n, i)
    PROVE  /\ c \in Books /\ c.costs = b.costs /\ c.locks = b.locks
           /\ c.txn = TxnOpened(b.txn, n)
           /\ c.slots = SlotOpened(b.slots, i, n) /\ DOMAIN c.slots = DOMAIN b.slots
           /\ \A j \in DOMAIN b.slots : j # i => c.slots[j] = b.slots[j]
           /\ c.grp[k] = WithFilled(b.grp[k], n) /\ c.grp[k] \in Groups
           /\ \A g \in Keys : g # k => c.grp[g] = b.grp[g]
  <1>1. PICK f : f = FillOpenGroup(b, k, n)
    OBVIOUS
  <1>2. /\ f \in Books /\ f.txn = b.txn /\ f.slots = b.slots /\ f.costs = b.costs
        /\ f.locks = b.locks
        /\ f.grp[k] = WithFilled(b.grp[k], n) /\ f.grp[k] \in Groups
        /\ \A g \in Keys : g # k => f.grp[g] = b.grp[g]
    BY <1>1, GroupFilled
  <1>3. b.txn \in Txns /\ b.txn.open \in Int /\ b.slots \in Seq(Slots)
    BY BookParts
  <1>4. PICK t : t = [b.txn EXCEPT !.open = b.txn.open + n, !.opening = 0]
    OBVIOUS
  <1>5. t \in Txns
    <2>1. b.txn.open + n \in Int /\ b.txn.lock + n \in Int
      BY BookParts
    <2> QED
      BY <1>3, <1>4, <2>1 DEF Txns
  <1>6. PICK u : u = [f EXCEPT !.txn = t]
    OBVIOUS
  <1>7. /\ u \in Books /\ u.txn = t /\ u.slots = b.slots /\ u.costs = b.costs
        /\ u.locks = b.locks /\ u.grp = f.grp
    BY <1>2, <1>5, <1>6, TxnWritten
  <1>8. PICK s : s = SlotOpened(b.slots, i, n)
    OBVIOUS
  <1>9. /\ s \in Seq(Slots) /\ DOMAIN s = DOMAIN b.slots
        /\ \A j \in DOMAIN b.slots : j # i => s[j] = b.slots[j]
    <2>1. PICK r : r = [b.slots[i] EXCEPT !.open = b.slots[i].open + n, !.opening = 0]
      OBVIOUS
    <2>2. i \in DOMAIN b.slots => r \in Slots
      <3>1. i \in DOMAIN b.slots => b.slots[i] \in Slots
        BY <1>3
      <3> QED
        <4>1. i \in DOMAIN b.slots => b.slots[i].open + n \in Int
          BY <3>1 DEF Slots
        <4> QED
          BY <2>1, <3>1, <4>1 DEF Slots
    <2>3. s = [b.slots EXCEPT ![i] = r]
      BY <1>8, <2>1 DEF SlotOpened
    <2> QED
      BY <1>3, <2>2, <2>3, SlotChanged
  <1>10. c = [u EXCEPT !.slots = s]
    <2>1. c = [[[[f EXCEPT !.txn.open = f.txn.open + n] EXCEPT !.txn.opening = 0]
                   EXCEPT !.slots[i].open = f.slots[i].open + n] EXCEPT !.slots[i].opening = 0]
      BY <1>1, <1>2 DEF OpenedBook, Books
    <2>2. [[f EXCEPT !.txn.open = f.txn.open + n] EXCEPT !.txn.opening = 0] = u
      BY <1>2, <1>3, <1>4, <1>6 DEF Books
    <2>3. c = [[u EXCEPT !.slots[i].open = b.slots[i].open + n] EXCEPT !.slots[i].opening = 0]
      BY <1>2, <2>1, <2>2
    <2>4. PICK s1 : s1 = [b.slots EXCEPT ![i] = [b.slots[i] EXCEPT !.open = b.slots[i].open + n]]
      OBVIOUS
    <2>5. PICK u1 : u1 = [u EXCEPT !.slots = s1]
      OBVIOUS
    <2>6. u1 = [u EXCEPT !.slots[i].open = b.slots[i].open + n]
      BY <1>7, <2>4, <2>5
    <2>7. u1.slots = s1
      BY <1>7, <2>5 DEF Books
    <2>8. PICK s2 : s2 = [s1 EXCEPT ![i] = [s1[i] EXCEPT !.opening = 0]]
      OBVIOUS
    <2>9. c = [u1 EXCEPT !.slots = s2]
      BY <2>3, <2>6, <2>7, <2>8
    <2>10. s2 = s
      BY <1>3, <1>8, <2>4, <2>8 DEF SlotOpened
    <2> QED
      BY <1>7, <2>5, <2>9, <2>10 DEF Books
  <1>11. /\ c \in Books /\ c.txn = t /\ c.slots = s /\ c.costs = b.costs
         /\ c.locks = b.locks /\ c.grp = f.grp
    BY <1>7, <1>9, <1>10, SlotsWritten
  <1> QED
    BY <1>2, <1>4, <1>8, <1>9, <1>11 DEF TxnOpened

(* The book after the final news of an order to lock.                      *)
LockedBook(b, k, n) == [FillOpenGroup(b, k, n) EXCEPT !.txn.lock = @ + n, !.txn.opening = 0]

(* What the final news of an order to lock makes of the book.              *)
LEMMA BookLocked ==
    ASSUME NEW b \in Books, NEW k \in Keys, b.grp[k] \in Groups, NEW n \in Nat,
           NEW c, c = LockedBook(b, k, n)
    PROVE  /\ c \in Books /\ c.slots = b.slots /\ c.costs = b.costs /\ c.locks = b.locks
           /\ c.txn = TxnLocked(b.txn, n)
           /\ c.grp[k] = WithFilled(b.grp[k], n) /\ c.grp[k] \in Groups
           /\ \A g \in Keys : g # k => c.grp[g] = b.grp[g]
  <1>1. PICK f : f = FillOpenGroup(b, k, n)
    OBVIOUS
  <1>2. /\ f \in Books /\ f.txn = b.txn /\ f.slots = b.slots /\ f.costs = b.costs
        /\ f.locks = b.locks
        /\ f.grp[k] = WithFilled(b.grp[k], n) /\ f.grp[k] \in Groups
        /\ \A g \in Keys : g # k => f.grp[g] = b.grp[g]
    BY <1>1, GroupFilled
  <1>3. b.txn \in Txns /\ b.txn.lock \in Int
    BY BookParts
  <1>4. PICK t : t = [b.txn EXCEPT !.lock = b.txn.lock + n, !.opening = 0]
    OBVIOUS
  <1>5. t \in Txns
    <2>1. b.txn.open + n \in Int /\ b.txn.lock + n \in Int
      BY BookParts
    <2> QED
      BY <1>3, <1>4, <2>1 DEF Txns
  <1>6. c = [f EXCEPT !.txn = t]
    <2>1. c = [[f EXCEPT !.txn.lock = f.txn.lock + n] EXCEPT !.txn.opening = 0]
      BY <1>1, <1>2 DEF LockedBook, Books
    <2> QED
      BY <1>2, <1>3, <1>4, <2>1 DEF Books
  <1>7. /\ c \in Books /\ c.txn = t /\ c.slots = b.slots /\ c.costs = b.costs
        /\ c.locks = b.locks /\ c.grp = f.grp
    BY <1>2, <1>5, <1>6, TxnWritten
  <1> QED
    BY <1>2, <1>4, <1>7 DEF TxnLocked

(* What is left of the orders after the final news of one of them: its     *)
(* trade, if it was filled.                                                *)
NewsTaken(F, o, G) ==
    \/ o.result = 0 /\ G = F \ {o}
    \/ /\ o.result > 0
       /\ \E x \in Orders :
            /\ G = (F \ {o}) \cup {x} /\ x \notin F \ {o} /\ OrderRight(x)
            /\ x.kind = o.kind /\ x.key = o.key /\ x.quantity = o.quantity /\ x.part = o.part
            /\ x.result = o.result /\ ~x.news

WithoutNews(o) == [o EXCEPT !.news = FALSE]
AfterNews(F, o) ==
    (F \ {o}) \cup (IF WithoutNews(o).news \/ WithoutNews(o).trades > 0 THEN {WithoutNews(o)} ELSE {})

(* The final news of an order leaves its trade to come, if it was filled.  *)
LEMMA NewsComes ==
    ASSUME NEW F, F \in SUBSET Orders, IsFiniteSet(F), OrdersRight(F), NEW o \in F, o.news,
           o.result # -1, NEW G, G = AfterNews(F, o)
    PROVE  /\ NewsTaken(F, o, G) /\ G \in SUBSET Orders /\ IsFiniteSet(G) /\ OrdersRight(G)
           /\ o.result \in Nat
  <1>0. PICK left : left = WithoutNews(o)
    OBVIOUS
  <1>1. o \in Orders /\ OrderRight(o) /\ o.result \in Nat
    BY DEF OrdersRight, OrderRight, Orders
  <1>2. /\ left \in Orders /\ left.kind = o.kind /\ left.key = o.key /\ left.part = o.part
        /\ left.quantity = o.quantity /\ left.result = o.result /\ left.trades = o.trades /\ ~left.news
    BY <1>0, <1>1 DEF Orders, WithoutNews
  <1>3. IsFiniteSet(F \ {o}) /\ IsFiniteSet((F \ {o}) \cup {left})
    BY FS_RemoveElement, FS_AddElement
  <1>4. CASE o.result = 0
    <2>1. left.trades = 0
      BY <1>1, <1>2, <1>4 DEF OrderRight
    <2>2. G = F \ {o}
      BY <1>0, <1>2, <2>1 DEF AfterNews
    <2> QED
      BY <1>1, <1>3, <1>4, <2>2 DEF NewsTaken, OrdersRight
  <1>5. CASE o.result > 0
    <2>1. left.trades = 1 /\ OrderRight(left)
      BY <1>1, <1>2, <1>5 DEF OrderRight
    <2>2. G = (F \ {o}) \cup {left}
      BY <1>0, <1>2, <2>1 DEF AfterNews
    <2>3. left \notin F \ {o}
      BY <1>2 DEF OrdersRight
    <2>4. OrdersRight(G)
      <3>1. \A y \in G : OrderRight(y)
        BY <2>1, <2>2 DEF OrdersRight
      <3>2. \A y \in F \ {o} : /\ ~(y.kind \in Opening /\ left.kind \in Opening /\ y.key = left.key)
                                /\ ~(y.kind = left.kind /\ y.key = left.key /\ y.part = left.part)
        BY <1>2 DEF OrdersRight
      <3>3. \A u, v \in F \ {o} : /\ u.kind \in Opening /\ v.kind \in Opening /\ u.key = v.key => u = v
                                  /\ u.kind = v.kind /\ u.key = v.key /\ u.part = v.part => u = v
        BY DEF OrdersRight
      <3>4. \A y \in G : y = left \/ y \in F \ {o}
        BY <2>2
      <3>5. \A y, z \in G : /\ y.kind \in Opening /\ z.kind \in Opening /\ y.key = z.key => y = z
                            /\ y.kind = z.kind /\ y.key = z.key /\ y.part = z.part => y = z
        <4> TAKE y, z \in G
        <4>1. CASE y = left /\ z = left
          BY <4>1
        <4>2. CASE y = left /\ z \in F \ {o}
          BY <3>2, <4>2
        <4>3. CASE y \in F \ {o} /\ z = left
          BY <3>2, <4>3
        <4>4. CASE y \in F \ {o} /\ z \in F \ {o}
          BY <3>3, <4>4
        <4> QED
          BY <3>4, <4>1, <4>2, <4>3, <4>4
      <3> QED
        BY <3>1, <3>5 DEF OrdersRight
    <2> QED
      BY <1>1, <1>2, <1>3, <1>5, <2>1, <2>2, <2>3, <2>4 DEF NewsTaken
  <1> QED
    BY <1>1, <1>4, <1>5

(* The news of an order that opens: its group has the lots that were       *)
(* filled, and nothing is being opened any more.                           *)
FilledBooks(b, d, o, c, e) ==
    /\ c.costs = b.costs /\ c.locks = b.locks /\ c.txn.opening = 0
    /\ c.txn.closing = b.txn.closing /\ c.grp[o.key] = WithFilled(b.grp[o.key], o.result)
    /\ \A g \in Keys : g # o.key => c.grp[g] = b.grp[g]
    /\ e.txn = c.txn /\ e.slots = c.slots /\ e.costs = d.costs /\ e.locks = d.locks
    /\ e.grp[o.key] = c.grp[o.key] /\ \A g \in Keys : g # o.key => e.grp[g] = d.grp[g]

(* Books that take the final news of an order that opens are right again.  *)
LEMMA NewsOfOpen ==
    ASSUME NEW F, NEW p \in Pcs, NEW closes, NEW b, BookCore(F, p, closes, b), NEW d,
           RedisRight(F, p, b, d), NEW o \in F, o.kind \in Opening, o.news,
           ~(p.at = "sent" /\ p.kind = o.kind /\ p.key = o.key), o.result \in Nat,
           NEW G, NewsTaken(F, o, G), OrdersRight(G),
           NEW c, NEW e, FilledBooks(b, d, o, c, e),
           Listed(b.costs, b.locks) \subseteq Keys
    PROVE  BookCore(G, p, closes, c) /\ RedisRight(G, p, c, e)
  <1> DEFINE L == Listed(b.costs, b.locks)
  <1>0. /\ OrdersRight(F) /\ FreshRight(F, p, b.txn.opening) /\ GroupsRight(F, p, L, b.grp)
        /\ CloseRight(SellsOf(F), p, closes, b.costs, b.locks, b.grp, b.txn.closing)
        /\ LotsRight(L, b.grp)
    BY DEF BookCore
  <1>b. /\ c.costs = b.costs /\ c.locks = b.locks /\ c.txn.opening = 0
        /\ c.txn.closing = b.txn.closing /\ c.grp[o.key] = WithFilled(b.grp[o.key], o.result)
        /\ \A g \in Keys : g # o.key => c.grp[g] = b.grp[g]
        /\ e.txn = c.txn /\ e.slots = c.slots /\ e.costs = d.costs /\ e.locks = d.locks
        /\ e.grp[o.key] = c.grp[o.key] /\ \A g \in Keys : g # o.key => e.grp[g] = d.grp[g]
    BY DEF FilledBooks
  <1>1. o \in FreshOf(F) /\ FreshOf(F) = {o} /\ o \in OpensOf(F)
    BY <1>0 DEF FreshRight, FreshOf, OpensOf
  <1>2. p.kind \in Opening => p.at # "sent"
    BY <1>0, <1>1 DEF FreshRight
  <1>3. \A k : ~Sent(p, k)
    BY <1>2 DEF Sent
  <1>4. o.key \notin L /\ Opened(o, b.grp[o.key]) /\ o.key \in Keys
    BY <1>0, <1>1, <1>3 DEF GroupsRight, OrdersRight, OrderRight
  <1>5. \A g \in L : c.grp[g] = b.grp[g] /\ e.grp[g] = d.grp[g]
    BY <1>4, <1>b
  <1>6. \A y \in OpensOf(F) : y # o => /\ y.key # o.key /\ c.grp[y.key] = b.grp[y.key]
                                       /\ e.grp[y.key] = d.grp[y.key]
    BY <1>0, <1>1, <1>b DEF OrdersRight, OrderRight, OpensOf
  <1>7. SellsOf(G) = SellsOf(F)
    BY DEF NewsTaken, SellsOf, Opening, Closing
  <1>8. FreshOf(G) = {}
    BY <1>1 DEF NewsTaken, FreshOf
  <1>9. \A y \in OpensOf(G) : \/ y \in OpensOf(F) /\ y # o
                              \/ y.key = o.key /\ y.kind = o.kind /\ y.quantity = o.quantity
                                 /\ y.result = o.result /\ ~y.news
    BY DEF NewsTaken, OpensOf
  <1>10. GroupsRight(G, p, L, c.grp)
    <2>1. ASSUME NEW y, y.kind = o.kind, y.quantity = o.quantity, y.result = o.result, ~y.news
          PROVE  Opened(y, c.grp[o.key])
      BY <1>4, <1>b, <2>1 DEF Opened, TypeOfKind, Groups, WithFilled
    <2>2. ASSUME NEW y \in OpensOf(G) PROVE y.key \notin L /\ Opened(y, c.grp[y.key])
      <3>1. CASE y \in OpensOf(F) /\ y # o
        BY <1>0, <1>3, <1>6, <3>1 DEF GroupsRight
      <3>2. CASE y.key = o.key /\ y.kind = o.kind /\ y.quantity = o.quantity
                 /\ y.result = o.result /\ ~y.news
        BY <1>4, <2>1, <3>2
      <3> QED
        BY <1>9, <3>1, <3>2
    <2> QED
      BY <2>2 DEF GroupsRight
  <1>11. FreshRight(G, p, c.txn.opening)
    BY <1>2, <1>8, <1>b DEF FreshRight
  <1>12. LotsRight(L, c.grp)
    BY <1>0, <1>5 DEF LotsRight
  <1>13. CloseRight(SellsOf(F), p, closes, b.costs, b.locks, c.grp, b.txn.closing)
    <2>1. /\ ToSet(b.costs) \subseteq ToSet(b.costs) /\ ToSet(b.locks) \subseteq ToSet(b.locks)
          /\ \A x \in L : c.grp[x].closing = b.grp[x].closing
          /\ \A x \in L \ L : c.grp[x].closing = 0
      BY <1>5
    <2> QED
      BY <1>0, <2>1, CloseFramed
  <1>14. BookCore(G, p, closes, c)
    BY <1>7, <1>10, <1>11, <1>12, <1>13, <1>b DEF BookCore
  <1>15. GroupsSaved(G, p, L, c.grp, e.grp)
    <2>1. GroupsSaved(F, p, L, b.grp, d.grp)
      BY DEF RedisRight
    <2>2. o.key \notin Marking(p)
      <3>1. CASE Marking(p) = {}
        BY <3>1
      <3>2. CASE p.kind \in Closing /\ p.at = "sent"
        <4>1. Marked(SellsOf(F), p.key, p.cg, b.costs, b.locks, b.grp)
          BY <1>0, <3>2 DEF CloseRight, CloseSent, NoClosing, CloseNoted
        <4>2. ToSet(p.cg.groups) \subseteq L
          BY <4>1 DEF Marked, ListOf, Listed
        <4> QED
          BY <1>4, <4>2 DEF Marking
      <3> QED
        BY <3>1, <3>2 DEF Marking
    <2>3. e.grp[o.key] = Saved(p, o.key, c.grp[o.key])
      BY <1>b, <2>2 DEF Saved
    <2>4. \A g \in L : e.grp[g] = Saved(p, g, c.grp[g])
      BY <1>5, <2>1 DEF GroupsSaved, Needed
    <2>5. \A y \in OpensOf(F) : y # o => e.grp[y.key] = Saved(p, y.key, c.grp[y.key])
      <3>1. \A y \in OpensOf(F) : y.key \in Needed(F, p, L)
        BY <1>3 DEF Needed, KeysOf
      <3> QED
        BY <1>6, <2>1, <3>1 DEF GroupsSaved
    <2>6. \A g \in Needed(G, p, L) : g \in L \/ g = o.key \/ \E y \in OpensOf(F) : y # o /\ y.key = g
      BY <1>9 DEF Needed, KeysOf
    <2> QED
      BY <2>3, <2>4, <2>5, <2>6 DEF GroupsSaved
  <1>16. RedisRight(G, p, c, e)
    BY <1>2, <1>15, <1>b DEF RedisRight, TxnSaved, SlotsSaved, Opening
  <1> QED
    BY <1>14, <1>16

(* The final news of an order to open or to lock keeps the invariant       *)
(* (post_open, post_lock).                                                 *)
LEMMA PostOpenKeeps ==
    ASSUME Core, NEW o \in flight, (o.kind = "open" /\ PostOpen(o)) \/ (o.kind = "lock" /\ PostLock(o)),
           o.news, o.result # -1, ~Unknown(o), flight' = Rest(o, [o EXCEPT !.news = FALSE]),
           pc' = pc, cfg' = cfg, state' = state, state = "up"
    PROVE  Core'
  <1>1. /\ NewsTaken(flight, o, flight') /\ flight' \in SUBSET Orders /\ IsFiniteSet(flight')
        /\ OrdersRight(flight') /\ o.result \in Nat /\ OrdersRight(flight)
    <2>1. flight' = AfterNews(flight, o)
      BY DEF Rest, AfterNews, WithoutNews
    <2>2. OrdersRight(flight)
      BY DEF Core, BookCore
    <2> QED
      BY <2>1, <2>2, CoreParts, NewsComes
  <1>2. ~(pc.at = "sent" /\ pc.kind = o.kind /\ pc.key = o.key) /\ o.kind \in Opening
    BY DEF Unknown, Noting, Opening
  <1>3. PICK k : k = o.key
    OBVIOUS
  <1>4. k \in Keys /\ book.grp[k] \in Groups /\ k \in Needed(flight, pc, Listed(book.costs, book.locks))
        /\ k \notin Listed(book.costs, book.locks)
    <2>1. o \in FreshOf(flight) /\ o \in OpensOf(flight)
      BY <1>2 DEF FreshOf, OpensOf
    <2>2. ~Sent(pc, o.key)
      BY <1>2, <2>1 DEF Core, BookCore, FreshRight, Sent
    <2> QED
      BY <1>1, <1>2, <1>3, <2>1, <2>2 DEF Core, BookCore, GroupsRight, Opened, OrdersRight, OrderRight, Needed, KeysOf
  <1>5. db.grp[k] = book.grp[k]
    <2>1. k \notin Marking(pc)
      <3>1. CASE pc.kind \in Closing /\ pc.at = "sent"
        <4>1. Marked(SellsOf(flight), pc.key, pc.cg, book.costs, book.locks, book.grp)
          BY <3>1 DEF Core, BookCore, CloseRight, CloseSent, NoClosing, CloseNoted
        <4>2. ToSet(pc.cg.groups) \subseteq Listed(book.costs, book.locks)
          BY <4>1 DEF Marked, ListOf, Listed
        <4> QED
          BY <1>4, <4>2 DEF Marking
      <3> QED
        BY <3>1 DEF Marking
    <2> QED
      BY <1>4, <2>1 DEF Core, RedisRight, GroupsSaved, Saved
  <1>6. book \in Books /\ db \in Books /\ book.txn \in Txns /\ book.slots \in Seq(Slots)
    BY CoreParts, BookParts
  <1>7. db.slots = book.slots
    <2>1. o \in FreshOf(flight)
      BY <1>2 DEF FreshOf
    <2>2. ~(pc.kind = "open" /\ pc.at = "sent")
      BY <1>2, <2>1 DEF Core, BookCore, FreshRight, Opening
    <2> QED
      BY <2>2 DEF Core, RedisRight, SlotsSaved
  <1>8. PICK n : n = o.result
    OBVIOUS
  <1>9. n \in Nat
    BY <1>1, <1>8
  <1> DEFINE Good(b, e) ==
                /\ b \in Books /\ b.costs = book.costs /\ b.locks = book.locks /\ b.txn.opening = 0
                /\ b.txn.closing = book.txn.closing
                /\ b.grp[k] = WithFilled(book.grp[k], n)
                /\ \A g \in Keys : g # k => b.grp[g] = book.grp[g]
                /\ e \in Books /\ e.txn = b.txn /\ e.slots = b.slots /\ e.costs = db.costs
                /\ e.locks = db.locks
                /\ e.grp[k] = b.grp[k] /\ \A g \in Keys : g # k => e.grp[g] = db.grp[g]
  <1>10. ASSUME NEW b, NEW e, Good(b, e), Handled(b, e, cgs)
         PROVE  Core'
    <2>1. BookCore(flight', pc, cgs, b) /\ RedisRight(flight', pc, b, e)
      <3>1. Listed(book.costs, book.locks) \subseteq Keys
        BY <1>6, ListedKeys
      <3> QED
        <4>1. FilledBooks(book, db, o, b, e)
          BY <1>3, <1>8, <1>10 DEF FilledBooks
        <4> QED
          BY <1>1, <1>2, <3>1, <4>1, CoreParts, NewsOfOpen
    <2>2. Kept(cgs, flight') = cgs
      BY <2>1, CoreParts, KeptSame DEF BookCore
    <2> QED
      BY <1>1, <1>10, <2>1, <2>2, CoreParts, HandlerKeeps
  <1>11. CASE o.kind = "open" /\ PostOpen(o)
    <2>1. PICK i : i = book.grp[k].slot
      OBVIOUS
    <2>2. PICK b : b = OpenedBook(book, k, n, i)
      OBVIOUS
    <2>3. PICK e1 : e1 = SaveTxn(db, b)
      OBVIOUS
    <2>4. PICK e2 : e2 = SaveFilled(e1, b, k)
      OBVIOUS
    <2>5. PICK e : e = SetSlot(e2, b, i)
      OBVIOUS
    <2>6. Handled(b, e, cgs)
      BY <1>3, <1>8, <1>11, <2>1, <2>2, <2>3, <2>4, <2>5 DEF PostOpen, OpenedBook
    <2>7. /\ b \in Books /\ b.costs = book.costs /\ b.locks = book.locks
          /\ b.txn = TxnOpened(book.txn, n)
          /\ DOMAIN b.slots = DOMAIN book.slots
          /\ \A j \in DOMAIN book.slots : j # i => b.slots[j] = book.slots[j]
          /\ b.grp[k] = WithFilled(book.grp[k], n) /\ b.grp[k] \in Groups
          /\ \A g \in Keys : g # k => b.grp[g] = book.grp[g]
      BY <1>4, <1>6, <1>9, <2>2, BookOpened
    <2>8. /\ b.txn.opening = 0 /\ b.txn.closing = book.txn.closing /\ b.txn.lock = book.txn.lock
          /\ b.txn.lockable = book.txn.lockable
      BY <1>6, <2>7 DEF Txns, TxnOpened
    <2>9. /\ e1 \in Books /\ e1.txn = b.txn /\ e1.slots = db.slots /\ e1.costs = db.costs
          /\ e1.locks = db.locks /\ e1.grp = db.grp
      BY <1>6, <2>3, <2>7, <2>8, SavedCounters, SavedTxn
    <2>10. /\ e2 \in Books /\ e2.txn = b.txn /\ e2.slots = db.slots /\ e2.costs = db.costs
           /\ e2.locks = db.locks /\ e2.grp[k] = b.grp[k]
           /\ \A g \in Keys : g # k => e2.grp[g] = db.grp[g]
      BY <1>4, <1>5, <1>9, <2>4, <2>7, <2>9, FillSaved
    <2>11. /\ e \in Books /\ e.txn = b.txn /\ e.slots = b.slots /\ e.costs = db.costs
           /\ e.locks = db.locks /\ e.grp = e2.grp
      BY <1>7, <2>5, <2>7, <2>10, SlotSet
    <2>12. Good(b, e)
      BY <2>7, <2>8, <2>10, <2>11
    <2> QED
      BY <1>10, <2>6, <2>12
  <1>12. CASE o.kind = "lock" /\ PostLock(o)
    <2>1. PICK b : b = LockedBook(book, k, n)
      OBVIOUS
    <2>2. PICK e1 : e1 = SaveTxnLock(db, b)
      OBVIOUS
    <2>3. PICK e : e = SaveFilled(e1, b, k)
      OBVIOUS
    <2>4. Handled(b, e, cgs)
      BY <1>3, <1>8, <1>12, <2>1, <2>2, <2>3 DEF PostLock, LockedBook
    <2>5. /\ b \in Books /\ b.slots = book.slots /\ b.costs = book.costs /\ b.locks = book.locks
          /\ b.txn = TxnLocked(book.txn, n)
          /\ b.grp[k] = WithFilled(book.grp[k], n) /\ b.grp[k] \in Groups
          /\ \A g \in Keys : g # k => b.grp[g] = book.grp[g]
      BY <1>4, <1>6, <1>9, <2>1, BookLocked
    <2>6. /\ b.txn.opening = 0 /\ b.txn.closing = book.txn.closing /\ b.txn.open = book.txn.open
      BY <1>6, <2>5 DEF Txns, TxnLocked
    <2>7. /\ e1 \in Books /\ e1.txn = b.txn /\ e1.slots = db.slots /\ e1.costs = db.costs
          /\ e1.locks = db.locks /\ e1.grp = db.grp
      BY <1>6, <2>2, <2>5, <2>6, SavedCounters, SavedTxnLock
    <2>8. /\ e \in Books /\ e.txn = b.txn /\ e.slots = db.slots /\ e.costs = db.costs
          /\ e.locks = db.locks /\ e.grp[k] = b.grp[k]
          /\ \A g \in Keys : g # k => e.grp[g] = db.grp[g]
      BY <1>4, <1>5, <1>9, <2>3, <2>5, <2>7, FillSaved
    <2>9. Good(b, e)
      BY <1>7, <2>5, <2>6, <2>8
    <2> QED
      BY <1>10, <2>4, <2>9
  <1> QED
    BY <1>11, <1>12

-----------------------------------------------------------------------------
(* The final news of a close order.                                        *)

(* A handler of the close orders, which changes no order that opens.       *)
SellBooks(F, p, b, c, e) ==
    /\ Listed(c.costs, c.locks) \subseteq Listed(b.costs, b.locks)
    /\ ListsRight(c.costs, c.locks) /\ LotsRight(Listed(c.costs, c.locks), c.grp)
    /\ c.txn.opening = b.txn.opening
    /\ \A y \in OpensOf(F) : ~Sent(p, y.key) => c.grp[y.key] = b.grp[y.key]
    /\ Marking(p) = {}
    /\ e.txn = c.txn /\ SlotsSaved(p, c.slots, e.slots) /\ e.costs = c.costs /\ e.locks = c.locks
    /\ \A g \in Needed(F, p, Listed(c.costs, c.locks)) : e.grp[g] = c.grp[g]

(* Books that a handler of the close orders wrote are right again if the   *)
(* lots being closed are.                                                  *)
LEMMA SellHandled ==
    ASSUME NEW F, NEW p, NEW closes, NEW b, BookCore(F, p, closes, b),
           NEW G, OpensOf(G) = OpensOf(F), OrdersRight(G),
           NEW c, NEW e, SellBooks(F, p, b, c, e), NEW after,
           CloseRight(SellsOf(G), p, after, c.costs, c.locks, c.grp, c.txn.closing)
    PROVE  BookCore(G, p, after, c) /\ RedisRight(G, p, c, e)
  <1>1. FreshOf(G) = FreshOf(F)
    <2>1. FreshOf(G) = {y \in OpensOf(G) : y.news} /\ FreshOf(F) = {y \in OpensOf(F) : y.news}
      BY DEF FreshOf, OpensOf
    <2> QED
      BY <2>1
  <1>2. FreshRight(G, p, c.txn.opening)
    BY <1>1 DEF BookCore, FreshRight, SellBooks
  <1>3. GroupsRight(G, p, Listed(c.costs, c.locks), c.grp)
    BY DEF BookCore, GroupsRight, SellBooks
  <1>4. BookCore(G, p, after, c)
    BY <1>2, <1>3 DEF BookCore, SellBooks
  <1>5. Needed(G, p, Listed(c.costs, c.locks)) = Needed(F, p, Listed(c.costs, c.locks))
    BY DEF Needed
  <1>6. RedisRight(G, p, c, e)
    BY <1>5 DEF RedisRight, SellBooks, GroupsSaved, Saved, TxnSaved
  <1> QED
    BY <1>4, <1>6

(* The close order whose news or trade comes is the one close order.       *)
LEMMA SellNoted ==
    ASSUME Core, NEW o \in flight, o.kind \in Closing, ~Unknown(o)
    PROVE  /\ o \in Orders /\ OrderRight(o) /\ o \in SellsOf(flight) /\ o.key \in CloseKeys
           /\ CloseNoted(o.key, SellsOf(flight), pc, cgs, book.costs, book.locks, book.grp,
                         book.txn.closing)
           /\ cgs[o.key] \in Closes /\ o.kind = ClosingKind(cgs[o.key].type)
           /\ \A y \in SellsOf(flight) : y.key = o.key /\ y.kind = o.kind
           /\ \A l \in CloseKeys : l # o.key => cgs[l] = NoGroup
           /\ Marking(pc) = {} /\ db.txn = book.txn
           /\ \A g \in Needed(flight, pc, Listed(book.costs, book.locks)) : db.grp[g] = book.grp[g]
  <1> DEFINE S == SellsOf(flight)
  <1>1. o \in S /\ o \in Orders /\ OrderRight(o) /\ o.key \in CloseKeys
    BY CoreParts DEF SellsOf, BookCore, OrdersRight, OrderRight
  <1>2. ~NoClosing(S, pc, cgs, book.costs, book.locks, book.grp, book.txn.closing)
    BY <1>1 DEF NoClosing
  <1>3. ~CloseSent(S, pc, cgs, book.costs, book.locks, book.grp, book.txn.closing)
    BY <1>1 DEF CloseSent, Marked, Unknown, Noting
  <1>4. PICK k \in CloseKeys :
            CloseNoted(k, S, pc, cgs, book.costs, book.locks, book.grp, book.txn.closing)
    BY <1>2, <1>3, CoreParts DEF BookCore, CloseRight
  <1>5. \A y \in S : y.key = k /\ y.kind = ClosingKind(cgs[k].type)
    BY <1>4 DEF CloseNoted, Marked
  <1>6. k = o.key
    BY <1>1, <1>5
  <1>7. cgs[o.key] \in Closes
    BY <1>1, <1>4, <1>6, CoreParts DEF CloseNoted
  <1>8. ~(pc.kind \in Closing /\ pc.at = "sent")
    BY <1>4 DEF CloseNoted
  <1>9. Marking(pc) = {}
    BY <1>8 DEF Marking
  <1>10. db.txn = book.txn
    BY <1>8 DEF Core, RedisRight, TxnSaved, Closing
  <1>11. \A g \in Needed(flight, pc, Listed(book.costs, book.locks)) : db.grp[g] = book.grp[g]
    BY <1>9 DEF Core, RedisRight, GroupsSaved, Saved
  <1>12. \A l \in CloseKeys : l # o.key => cgs[l] = NoGroup
    BY <1>4, <1>6 DEF CloseNoted
  <1> QED
    BY <1>1, <1>4, <1>5, <1>6, <1>7, <1>9, <1>10, <1>11, <1>12

(* update_close_group.                                                     *)
LEMMA CloseFilled ==
    ASSUME NEW cg \in Closes, NEW n \in Nat
    PROVE  LET c == FillCloseGroup(cg, n)
           IN  /\ c \in Closes /\ c.type = cg.type /\ c.quantity = cg.quantity
               /\ c.groups = cg.groups /\ c.filled = cg.filled + n
               /\ c.frag = (IF cg.frag = "NEED" THEN "RCV_ONE"
                            ELSE IF cg.frag = "RCV_ONE" THEN "RCV_TWO" ELSE cg.frag)
  <1> DEFINE frag == IF cg.frag = "NEED" THEN "RCV_ONE"
                     ELSE IF cg.frag = "RCV_ONE" THEN "RCV_TWO" ELSE cg.frag
  <1>1. FillCloseGroup(cg, n) = [cg EXCEPT !.filled = cg.filled + n, !.frag = frag]
    BY DEF FillCloseGroup, Closes, Frags
  <1>2. frag \in Frags /\ cg.filled + n \in Nat
    BY DEF Closes, Frags
  <1> HIDE DEF frag
  <1> QED
    BY <1>1, <1>2 DEF Closes, frag

(* What the news of a close order says of the close group.                 *)
LEMMA NewsOfParts ==
    ASSUME NEW S, NEW o \in S, S \subseteq Orders, o.news, o.result \in Nat,
           o.result <= o.quantity, o.quantity > 0,
           \A y \in S : y # o => y.news /\ (y.result = 0 => o.result = 0),
           NEW T, \/ o.result = 0 /\ T = S \ {o}
                  \/ o.result > 0 /\ \E x \in Orders :
                        /\ T = (S \ {o}) \cup {x} /\ x \notin S \ {o}
                        /\ x.quantity = o.quantity /\ x.result = o.result /\ ~x.news,
           NEW cg \in Closes, Parts(S, cg), NEW c, c = FillCloseGroup(cg, o.result)
    PROVE  /\ c.frag = "RCV_ONE" \/ c.filled > 0 => Parts(T, c) /\ T # {}
           /\ ~(c.frag = "RCV_ONE" \/ c.filled > 0) => T = {}
  <1>1. /\ c \in Closes /\ c.quantity = cg.quantity /\ c.filled = cg.filled + o.result
        /\ c.frag = (IF cg.frag = "NEED" THEN "RCV_ONE"
                     ELSE IF cg.frag = "RCV_ONE" THEN "RCV_TWO" ELSE cg.frag)
    BY CloseFilled
  <1>4. o.quantity \in Nat /\ cg.quantity \in Nat /\ cg.filled \in Nat /\ o.result \in Int
    BY DEF Orders, Closes
  <1>6. CASE cg.frag = "NO" /\ OneNew(S, cg) /\ cg.filled = 0
    <2>1. S = {o} /\ o.quantity = cg.quantity
      BY <1>6 DEF OneNew
    <2>2. c.filled = o.result /\ c.frag = "NO"
      BY <1>1, <1>4, <1>6
    <2>3. CASE o.result = 0
      BY <1>6, <2>1, <2>2, <2>3
    <2>4. CASE o.result > 0
      <3>1. PICK x : T = {x} /\ x.quantity = o.quantity /\ x.result = o.result /\ ~x.news
        BY <2>1, <2>4
      <3>2. OneHeard(T, c)
        BY <1>1, <2>1, <2>2, <3>1 DEF OneHeard
      <3> QED
        BY <2>2, <2>4, <3>1, <3>2 DEF Parts
    <2> QED
      BY <1>4, <2>3, <2>4
  <1>7. CASE cg.frag = "NO" /\ OneHeard(S, cg)
    BY <1>7 DEF OneHeard
  <1>8. CASE cg.frag = "NEED" /\ BothNew(S, cg) /\ cg.filled = 0
    <2>1. PICK p \in S : o # p /\ S = {o, p} /\ p.news /\ o.quantity + p.quantity = cg.quantity
                         /\ p.quantity \in Nat
      <3>1. \A p \in S : p.quantity \in Nat
        BY DEF Orders
      <3>2. PICK q, p \in S : q # p /\ S = {q, p} /\ q.news /\ p.news /\ q.quantity + p.quantity = cg.quantity
        BY <1>8 DEF BothNew
      <3>3. q.quantity + p.quantity = p.quantity + q.quantity
        BY <3>1
      <3> QED
        BY <3>1, <3>2, <3>3
    <2>2. c.filled = o.result /\ c.frag = "RCV_ONE"
      BY <1>1, <1>4, <1>8
    <2>3. p.result = 0 => c.filled = 0
      BY <2>1, <2>2
    <2>4. p.quantity + c.filled <= c.quantity
      BY <1>1, <1>4, <2>1, <2>2
    <2>5. /\ p \in T
          /\ \/ T = {p}
             \/ \E x \in T : T = {p, x} /\ ~x.news /\ c.filled = x.result
      BY <2>1, <2>2
    <2>6. SecondNew(T, c)
      BY <2>1, <2>3, <2>4, <2>5 DEF SecondNew
    <2> QED
      BY <2>2, <2>5, <2>6 DEF Parts
  <1>9. CASE cg.frag = "RCV_ONE" /\ SecondNew(S, cg)
    <2>1. PICK s \in S : /\ s.news /\ s.quantity + cg.filled <= cg.quantity
                         /\ s.result = 0 => cg.filled = 0
                         /\ \/ S = {s}
                            \/ \E p \in S : S = {s, p} /\ ~p.news /\ cg.filled = p.result
      BY <1>9 DEF SecondNew
    <2>2. s = o /\ S = {o}
      BY <2>1
    <2>3. c.filled = cg.filled + o.result /\ c.frag = "RCV_TWO"
      BY <1>1, <1>9
    <2>4. CASE o.result = 0
      <3>1. cg.filled = 0 /\ c.filled = 0 /\ T = {}
        BY <2>1, <2>2, <2>3, <2>4
      <3> QED
        BY <2>3, <2>4, <3>1
    <2>5. CASE o.result > 0
      <3>1. PICK x : T = {x} /\ ~x.news
        BY <2>2, <2>5
      <3>2. c.filled \in 1..c.quantity
        BY <1>1, <1>4, <2>1, <2>2, <2>3, <2>5
      <3>3. SecondHeard(T, c)
        BY <3>1, <3>2 DEF SecondHeard
      <3> QED
        BY <2>3, <3>1, <3>2, <3>3 DEF Parts
    <2> QED
      BY <1>4, <2>4, <2>5
  <1>10. CASE cg.frag = "RCV_TWO" /\ SecondHeard(S, cg)
    BY <1>10 DEF SecondHeard
  <1> QED
    BY <1>6, <1>7, <1>8, <1>9, <1>10, Zenon DEF Parts

TxnFree(txn) == [txn EXCEPT !.closing = 0]
ClearedBook(b, cg) == [UnmarkClosing(b, cg) EXCEPT !.txn.closing = 0]

(* What a close order does not change of a group.                          *)
SameOpened(x, y) == x.type = y.type /\ x.quantity = y.quantity /\ x.filled = y.filled /\ x.slot = y.slot

(* A group whose lots are not being closed any more.                       *)
LEMMA ClosingCleared ==
    ASSUME NEW x \in Groups
    PROVE  /\ WithClosing(x, 0) \in Groups /\ SameOpened(x, WithClosing(x, 0))
           /\ WithClosing(x, 0).closing = 0 /\ WithClosing(x, 0).close = x.close
           /\ Remain(WithClosing(x, 0)) = Remain(x)
           /\ Lively(x) => Lively(WithClosing(x, 0))
  BY DEF Groups, SameOpened, Remain, WithClosing, Lively

(* unmark_closing and the end of what is being closed.                     *)
LEMMA BookCleared ==
    ASSUME NEW b \in Books, NEW cg, \A g \in ToSet(cg.groups) : b.grp[g] \in Groups,
           NEW c, c = ClearedBook(b, cg)
    PROVE  /\ c \in Books /\ c.txn = TxnFree(b.txn) /\ c.slots = b.slots /\ c.costs = b.costs
           /\ c.locks = b.locks
           /\ \A g \in Keys : c.grp[g] = IF g \in ToSet(cg.groups)
                                         THEN WithClosing(b.grp[g], 0) ELSE b.grp[g]
  <1> DEFINE u == UnmarkClosing(b, cg)
             grp == [g \in Keys |-> IF g \in ToSet(cg.groups)
                                    THEN WithClosing(b.grp[g], 0) ELSE b.grp[g]]
  <1>1. u = [b EXCEPT !.grp = grp]
    BY DEF UnmarkClosing, WithClosing
  <1>2. b.grp \in [Keys -> Groups \cup {NoGroup}]
    BY BookParts
  <1>3. \A g \in ToSet(cg.groups) : WithClosing(b.grp[g], 0) \in Groups
    BY ClosingCleared
  <1>4. grp \in [Keys -> Groups \cup {NoGroup}]
    BY <1>2, <1>3
  <1>5. \A g \in Keys : grp[g] = IF g \in ToSet(cg.groups)
                                 THEN WithClosing(b.grp[g], 0) ELSE b.grp[g]
    OBVIOUS
  <1> HIDE DEF grp
  <1>6. u \in Books /\ u.txn = b.txn /\ u.slots = b.slots /\ u.costs = b.costs /\ u.locks = b.locks
        /\ u.grp = grp
    BY <1>1, <1>4, GroupsWritten
  <1>7. c = [u EXCEPT !.txn.closing = 0]
    BY DEF ClearedBook
  <1> HIDE DEF u
  <1>8. TxnFree(u.txn) \in Txns /\ c = [u EXCEPT !.txn = TxnFree(u.txn)]
    BY <1>6, <1>7 DEF Books, Txns, TxnFree
  <1>9. /\ c \in Books /\ c.txn = TxnFree(u.txn) /\ c.slots = u.slots /\ c.costs = u.costs
        /\ c.locks = u.locks /\ c.grp = u.grp
    BY <1>6, <1>8, TxnWritten
  <1> QED
    BY <1>5, <1>6, <1>9

(* close and closing of the groups of a close order, in redis.             *)
OnlyClosed(d, b, cg) ==
    \A g \in ToSet(cg.groups) :
        d.grp[g] \in Groups /\ b.grp[g] \in Groups /\ SameOpened(d.grp[g], b.grp[g])

(* save_close_quantity: redis gets the groups of the close order.          *)
LEMMA QuantitySaved ==
    ASSUME NEW d \in Books, NEW b \in Books, NEW cg, OnlyClosed(d, b, cg), NEW e, e = SaveQuantity(d, b, cg)
    PROVE  /\ e \in Books /\ e.txn = d.txn /\ e.slots = d.slots /\ e.costs = d.costs
           /\ e.locks = d.locks
           /\ \A g \in Keys : e.grp[g] = IF g \in ToSet(cg.groups) THEN b.grp[g] ELSE d.grp[g]
  <1> DEFINE grp == [g \in Keys |-> IF g \in ToSet(cg.groups)
                       THEN [d.grp[g] EXCEPT !.close = b.grp[g].close, !.closing = b.grp[g].closing]
                       ELSE d.grp[g]]
  <1>1. /\ d.grp \in [Keys -> Groups \cup {NoGroup}] /\ "grp" \in DOMAIN d
        /\ b.grp \in [Keys -> Groups \cup {NoGroup}]
    BY BookParts
  <1>2. e = [d EXCEPT !.grp = grp]
    BY <1>1 DEF SaveQuantity
  <1>3. ASSUME NEW g \in ToSet(cg.groups)
        PROVE  [d.grp[g] EXCEPT !.close = b.grp[g].close, !.closing = b.grp[g].closing] = b.grp[g]
    <2>1. PICK x, y : x = d.grp[g] /\ y = b.grp[g]
      OBVIOUS
    <2>2. x \in Groups /\ y \in Groups /\ SameOpened(x, y)
      BY <2>1 DEF OnlyClosed
    <2>3. [x EXCEPT !.close = y.close, !.closing = y.closing] = y
      BY <2>2 DEF Groups, SameOpened
    <2> QED
      BY <2>1, <2>3
  <1>4. \A g \in Keys : grp[g] = IF g \in ToSet(cg.groups) THEN b.grp[g] ELSE d.grp[g]
    BY <1>3
  <1>5. grp = [g \in Keys |-> grp[g]]
    OBVIOUS
  <1> HIDE DEF grp
  <1>6. grp \in [Keys -> Groups \cup {NoGroup}]
    BY <1>1, <1>4, <1>5
  <1>7. /\ e \in Books /\ e.txn = d.txn /\ e.slots = d.slots /\ e.costs = d.costs
        /\ e.locks = d.locks /\ e.grp = grp
    BY <1>2, <1>6, GroupsWritten
  <1> QED
    BY <1>4, <1>7

(* What on_order does with the news of a close order in a calm environment.*)
LEMMA NewsOfSell ==
    ASSUME Core, Calm', NEW o \in flight, OnOrder(o), o.kind \in Closing
    PROVE  /\ state = "up" /\ o.news /\ pc' = pc /\ cfg' = cfg /\ state' = state
           /\ ~Unknown(o) /\ PostClose(o)
           /\ \A y \in SellsOf(flight) : y # o /\ y.kind = o.kind /\ y.key = o.key
                                            => y.news /\ (y.result = 0 => o.result = 0)
           /\ o.result \in Nat /\ OrderRight(o)
           /\ NewsTaken(flight, o, flight') /\ flight' \in SUBSET Orders /\ IsFiniteSet(flight')
           /\ OrdersRight(flight') /\ OpensOf(flight') = OpensOf(flight)
  <1>1. /\ state = "up" /\ o.news /\ o.result # -1 /\ pc' = pc /\ cfg' = cfg
        /\ flight' = Rest(o, [o EXCEPT !.news = FALSE])
    BY DEF OnOrder
  <1>2. ~Unknown(o) /\ state' = state /\ PostClose(o)
    BY DEF OnOrder, Calm, Closing
  <1>3. ~LatePart(o)
    <2>1. PICK shown : Meets(shown) /\ (LatePart(o) => "late_part" \in shown)
      BY DEF OnOrder
    <2> QED
      BY <2>1, CalmShows
  <1>4. OrdersRight(flight) /\ flight' = AfterNews(flight, o)
    BY <1>1 DEF Core, BookCore, Rest, AfterNews, WithoutNews
  <1>5. /\ NewsTaken(flight, o, flight') /\ flight' \in SUBSET Orders /\ IsFiniteSet(flight')
        /\ OrdersRight(flight') /\ o.result \in Nat
    BY <1>1, <1>4, CoreParts, NewsComes
  <1>6. OpensOf(flight') = OpensOf(flight)
    BY <1>5 DEF NewsTaken, OpensOf, Opening, Closing
  <1>7. \A y \in SellsOf(flight) : y # o /\ y.kind = o.kind /\ y.key = o.key
                                      => y.news /\ (y.result = 0 => o.result = 0)
    BY <1>3, <1>5 DEF LatePart, SellsOf
  <1> QED
    BY <1>1, <1>2, <1>4, <1>5, <1>6, <1>7 DEF OrdersRight

(* post_close and post_unlock.                                             *)
LEMMA PostCloseKeeps ==
    ASSUME Core, Calm', NEW o \in flight, OnOrder(o), o.kind \in Closing
    PROVE  Core'
  <1> DEFINE S == SellsOf(flight)
             T == SellsOf(flight')
             L == Listed(book.costs, book.locks)
  <1>1. /\ state = "up" /\ o.news /\ pc' = pc /\ cfg' = cfg /\ state' = state
        /\ ~Unknown(o) /\ PostClose(o)
        /\ \A y \in S : y # o /\ y.kind = o.kind /\ y.key = o.key
                            => y.news /\ (y.result = 0 => o.result = 0)
        /\ o.result \in Nat /\ OrderRight(o)
        /\ NewsTaken(flight, o, flight') /\ flight' \in SUBSET Orders /\ IsFiniteSet(flight')
        /\ OrdersRight(flight') /\ OpensOf(flight') = OpensOf(flight)
    BY NewsOfSell
  <1>2. PICK k, cg0, n : k = o.key /\ cg0 = cgs[o.key] /\ n = o.result
    OBVIOUS
  <1>3. /\ o \in Orders /\ o \in S /\ k \in CloseKeys
        /\ CloseNoted(k, S, pc, cgs, book.costs, book.locks, book.grp, book.txn.closing)
        /\ cg0 \in Closes /\ o.kind = ClosingKind(cg0.type)
        /\ \A y \in S : y.key = k /\ y.kind = o.kind
        /\ \A l \in CloseKeys : l # k => cgs[l] = NoGroup
        /\ Marking(pc) = {} /\ db.txn = book.txn
        /\ \A g \in Needed(flight, pc, L) : db.grp[g] = book.grp[g]
    BY <1>1, <1>2, SellNoted
  <1>4. PICK cg : cg = FillCloseGroup(cg0, n)
    OBVIOUS
  <1>5. PICK closes : closes = [cgs EXCEPT ![k] = cg]
    OBVIOUS
  <1>6. /\ cg \in Closes /\ cg.type = cg0.type /\ cg.quantity = cg0.quantity
        /\ cg.groups = cg0.groups
    BY <1>1, <1>2, <1>3, <1>4, CloseFilled
  <1>7. /\ closes \in [CloseKeys -> Closes \cup {NoGroup}]
        /\ closes[k] = cg /\ \A l \in CloseKeys : l # k => closes[l] = NoGroup
    BY <1>3, <1>5, <1>6, CoreParts
  <1>8. /\ book \in Books /\ db \in Books /\ pc \in Pcs
        /\ BookCore(flight, pc, cgs, book) /\ RedisRight(flight, pc, book, db)
    BY CoreParts
  <1>9. Marked(S, k, cg0, book.costs, book.locks, book.grp) /\ Parts(S, cg0)
    BY <1>2, <1>3 DEF CloseNoted
  <1>10. /\ cg.frag = "RCV_ONE" \/ cg.filled > 0 => Parts(T, cg) /\ T # {}
         /\ ~(cg.frag = "RCV_ONE" \/ cg.filled > 0) => T = {}
    <2>1. S \subseteq Orders
      BY <1>1, CoreParts DEF SellsOf
    <2>2. o.result <= o.quantity /\ o.quantity > 0
      BY <1>1 DEF OrderRight
    <2>3. \A y \in S : y # o => y.news /\ (y.result = 0 => o.result = 0)
      BY <1>1, <1>2, <1>3
    <2>4. \/ o.result = 0 /\ T = S \ {o}
          \/ o.result > 0 /\ \E x \in Orders :
                /\ T = (S \ {o}) \cup {x} /\ x \notin S \ {o}
                /\ x.quantity = o.quantity /\ x.result = o.result /\ ~x.news
      <3>1. CASE o.result = 0 /\ flight' = flight \ {o}
        BY <3>1 DEF SellsOf
      <3>2. CASE o.result > 0 /\ \E x \in Orders :
                /\ flight' = (flight \ {o}) \cup {x} /\ x \notin flight \ {o}
                /\ x.kind = o.kind /\ x.quantity = o.quantity /\ x.result = o.result /\ ~x.news
        BY <3>2 DEF SellsOf
      <3> QED
        BY <1>1, <3>1, <3>2 DEF NewsTaken
    <2>5. cg = FillCloseGroup(cg0, o.result)
      BY <1>2, <1>4
    <2> HIDE DEF S, T
    <2> QED
      BY <1>1, <1>3, <1>9, <2>1, <2>2, <2>3, <2>4, <2>5, NewsOfParts
  <1>11. \A y \in T : y.kind = o.kind /\ y.key = k
    BY <1>1, <1>2, <1>3 DEF NewsTaken, SellsOf
  <1>12. SlotsSaved(pc, book.slots, db.slots) /\ db.costs = book.costs /\ db.locks = book.locks
    BY <1>8 DEF RedisRight
  <1>13. CASE cg.frag = "RCV_ONE" \/ cg.filled > 0
    <2>1. Handled(book, db, closes)
      BY <1>1, <1>2, <1>4, <1>5, <1>13 DEF PostClose
    <2>2. Marked(T, k, cg, book.costs, book.locks, book.grp)
      BY <1>3, <1>6, <1>9, <1>11 DEF Marked
    <2>3. cg # NoGroup
      BY <1>6 DEF Closes, NoGroup
    <2>4. CloseNoted(k, T, pc, closes, book.costs, book.locks, book.grp, book.txn.closing)
      BY <1>2, <1>3, <1>6, <1>7, <1>10, <1>13, <2>2, <2>3 DEF CloseNoted
    <2>5. CloseRight(T, pc, closes, book.costs, book.locks, book.grp, book.txn.closing)
      BY <1>3, <2>4 DEF CloseRight
    <2>6. SellBooks(flight, pc, book, book, db)
      BY <1>3, <1>8, <1>12 DEF SellBooks, BookCore
    <2>7. BookCore(flight', pc, closes, book) /\ RedisRight(flight', pc, book, db)
      BY <1>1, <1>8, <2>5, <2>6, SellHandled
    <2>8. Kept(closes, flight') = closes
      BY <1>7, <2>5, KeptSame
    <2> QED
      BY <1>1, <1>7, <1>8, <2>1, <2>7, <2>8, CoreParts, HandlerKeeps
  <1>14. CASE ~(cg.frag = "RCV_ONE" \/ cg.filled > 0)
    <2>1. PICK b : b = ClearedBook(book, cg)
      OBVIOUS
    <2>2. PICK s : s = IF o.kind = "close" THEN SaveTxn(db, b) ELSE SaveTxnLock(db, b)
      OBVIOUS
    <2>3. PICK d : d = SaveQuantity(s, b, cg)
      OBVIOUS
    <2>4. Handled(b, d, closes)
      BY <1>1, <1>2, <1>4, <1>5, <1>14, <2>1, <2>2, <2>3 DEF PostClose, ClearedBook
    <2>5. /\ ToSet(cg.groups) \subseteq L /\ L \subseteq Keys
          /\ \A g \in L : book.grp[g] \in Groups /\ Lively(book.grp[g])
          /\ \A g \in L \ ToSet(cg.groups) : book.grp[g].closing = 0
      <3>1. \A g \in L : Lively(book.grp[g])
        BY <1>8 DEF BookCore, LotsRight
      <3>2. ToSet(cg.groups) \subseteq L
        BY <1>6, <1>9 DEF Marked, ListOf, Listed
      <3> QED
        BY <1>6, <1>8, <1>9, <3>1, <3>2, ListedKeys DEF Marked, Lively
    <2>6. /\ b \in Books /\ b.txn = TxnFree(book.txn) /\ b.slots = book.slots
          /\ b.costs = book.costs /\ b.locks = book.locks
          /\ \A g \in Keys : b.grp[g] = IF g \in ToSet(cg.groups)
                                        THEN WithClosing(book.grp[g], 0) ELSE book.grp[g]
      BY <1>8, <2>1, <2>5, BookCleared
    <2>7. /\ b.txn.closing = 0 /\ b.txn.opening = book.txn.opening /\ b.txn.open = book.txn.open
          /\ b.txn.lock = book.txn.lock /\ b.txn.lockable = book.txn.lockable
      BY <1>8, <2>6, BookParts DEF TxnFree, Txns
    <2>8. /\ s \in Books /\ s.txn = b.txn /\ s.slots = db.slots /\ s.costs = db.costs
          /\ s.locks = db.locks /\ s.grp = db.grp
      <3>1. db.txn.open = b.txn.open /\ db.txn.lock = b.txn.lock /\ db.txn.lockable = b.txn.lockable
        BY <1>3, <2>7
      <3>2. CASE o.kind = "close"
        BY <1>8, <2>2, <2>6, <3>1, <3>2, SavedTxn
      <3>3. CASE o.kind # "close"
        BY <1>8, <2>2, <2>6, <3>1, <3>3, SavedTxnLock
      <3> QED
        BY <3>2, <3>3
    <2>9. \A g \in L : g \in Needed(flight, pc, L) /\ db.grp[g] = book.grp[g]
      BY <1>3 DEF Needed
    <2>10. /\ d \in Books /\ d.txn = s.txn /\ d.slots = s.slots /\ d.costs = s.costs
           /\ d.locks = s.locks
           /\ \A g \in Keys : d.grp[g] = IF g \in ToSet(cg.groups) THEN b.grp[g] ELSE s.grp[g]
      <3>1. ASSUME NEW g \in ToSet(cg.groups)
            PROVE  s.grp[g] \in Groups /\ b.grp[g] \in Groups /\ SameOpened(s.grp[g], b.grp[g])
        <4>1. g \in L /\ g \in Keys /\ book.grp[g] \in Groups
          BY <2>5
        <4>2. s.grp[g] = book.grp[g] /\ b.grp[g] = WithClosing(book.grp[g], 0)
          BY <2>6, <2>8, <2>9, <4>1
        <4> QED
          BY <4>1, <4>2, ClosingCleared
      <3> QED
        BY <2>3, <2>6, <2>8, <3>1, QuantitySaved DEF OnlyClosed
    <2>11. \A g \in L : Lively(b.grp[g]) /\ b.grp[g].closing = 0
      <3>1. ASSUME NEW g \in L PROVE Lively(b.grp[g]) /\ b.grp[g].closing = 0
        <4>1. g \in Keys /\ book.grp[g] \in Groups /\ Lively(book.grp[g])
          BY <2>5
        <4>2. CASE g \in ToSet(cg.groups)
          BY <2>6, <4>1, <4>2, ClosingCleared
        <4>3. CASE g \notin ToSet(cg.groups)
          BY <2>5, <2>6, <4>1, <4>3
        <4> QED
          BY <4>2, <4>3
      <3> QED
        BY <3>1
    <2>12. \A y \in OpensOf(flight) : y.key \in Keys /\ y.key \notin L
      BY <1>8 DEF BookCore, GroupsRight, OrdersRight, OrderRight, OpensOf
    <2>13. \A y \in OpensOf(flight) : b.grp[y.key] = book.grp[y.key]
      BY <2>5, <2>6, <2>12
    <2>14. \A g \in Needed(flight, pc, L) : d.grp[g] = b.grp[g]
      <3>1. Needed(flight, pc, L) \subseteq Keys
        BY <2>5, <2>12 DEF Needed, KeysOf
      <3>2. ASSUME NEW g \in Needed(flight, pc, L), g \notin ToSet(cg.groups)
            PROVE  d.grp[g] = b.grp[g]
        BY <1>3, <2>6, <2>8, <2>10, <3>1, <3>2
      <3> QED
        BY <2>10, <3>1, <3>2
    <2>15. SellBooks(flight, pc, book, b, d)
      <3>1. LotsRight(L, b.grp) /\ ListsRight(book.costs, book.locks)
        BY <1>8, <2>11 DEF LotsRight, BookCore
      <3>2. d.txn = b.txn /\ SlotsSaved(pc, b.slots, d.slots) /\ d.costs = b.costs /\ d.locks = b.locks
        BY <1>12, <2>6, <2>8, <2>10
      <3> QED
        BY <1>3, <2>6, <2>7, <2>13, <2>14, <3>1, <3>2 DEF SellBooks
    <2>16. PICK kept : kept = Kept(closes, flight')
      OBVIOUS
    <2>17. T = {} /\ \A l \in CloseKeys : kept[l] = NoGroup
      BY <1>7, <1>10, <1>14, <2>16, KeptNone
    <2>18. CloseRight(T, pc, kept, b.costs, b.locks, b.grp, b.txn.closing)
      <3>1. pc.kind \in Closing => pc.kind = "close" /\ pc.at = "added"
        BY <1>3 DEF CloseNoted
      <3>2. NoClosing(T, pc, kept, b.costs, b.locks, b.grp, b.txn.closing)
        BY <2>6, <2>11, <2>17, <3>1 DEF NoClosing
      <3> QED
        BY <3>2 DEF CloseRight
    <2>19. BookCore(flight', pc, kept, b) /\ RedisRight(flight', pc, b, d)
      BY <1>1, <1>8, <2>15, <2>18, SellHandled
    <2> QED
      BY <1>1, <1>7, <2>4, <2>6, <2>10, <2>16, <2>19, CoreParts, HandlerKeeps
  <1> QED
    BY <1>13, <1>14

(* on_order.                                                               *)
LEMMA OnOrderKeeps ==
    ASSUME Core, Calm', NEW o \in flight, OnOrder(o)
    PROVE  Core'
  <1>1. CASE o.kind \in Closing
    BY <1>1, PostCloseKeeps
  <1>2. CASE o.kind \notin Closing
    <2>1. /\ state = "up" /\ o.news /\ o.result # -1 /\ pc' = pc /\ cfg' = cfg
          /\ flight' = Rest(o, [o EXCEPT !.news = FALSE])
      BY DEF OnOrder
    <2>2. /\ ~Unknown(o) /\ state' = state
          /\ (o.kind = "open" /\ PostOpen(o)) \/ (o.kind = "lock" /\ PostLock(o))
      BY <1>2 DEF OnOrder, Calm
    <2> QED
      BY <2>1, <2>2, PostOpenKeeps
  <1> QED
    BY <1>1, <1>2

-----------------------------------------------------------------------------
(* Trades of orders that open.                                             *)

(* on_trade in a calm environment: the only trade of an order whose news   *)
(* was taken.                                                              *)
LEMMA TradeComes ==
    ASSUME Core, Calm', NEW o \in flight, OnTrade(o)
    PROVE  /\ state = "up" /\ pc' = pc /\ cfg' = cfg /\ state' = state
           /\ o \in Orders /\ OrderRight(o) /\ ~o.news /\ o.result > 0 /\ ~TradeFails(o)
           /\ flight' = flight \ {o} /\ flight' \in SUBSET Orders /\ IsFiniteSet(flight')
           /\ OrdersRight(flight) /\ OrdersRight(flight')
           /\ \/ o.kind = "open" /\ PostOpenAfterTrade(o)
              \/ o.kind = "lock" /\ PostLockAfterTrade(o)
              \/ o.kind = "close" /\ PostCloseAfterTrade(o)
              \/ o.kind = "unlock" /\ PostUnlockAfterTrade(o)
  <1>1. /\ state = "up" /\ o.trades > 0 /\ pc' = pc /\ cfg' = cfg
        /\ flight' = Rest(o, [o EXCEPT !.trades = @ - 1])
    BY DEF OnTrade
  <1>2. /\ ~TradeFails(o) /\ state' = state
        /\ \/ o.kind = "open" /\ PostOpenAfterTrade(o)
           \/ o.kind = "lock" /\ PostLockAfterTrade(o)
           \/ o.kind = "close" /\ PostCloseAfterTrade(o)
           \/ o.kind = "unlock" /\ PostUnlockAfterTrade(o)
    BY DEF OnTrade, Calm
  <1>3. ~o.news
    <2>1. PICK shown : Meets(shown) /\ (o.news => "trade_first" \in shown)
      BY DEF OnTrade
    <2> QED
      BY <2>1, CalmShows
  <1>4. OrdersRight(flight) /\ OrderRight(o) /\ o \in Orders
    BY CoreParts DEF BookCore, OrdersRight
  <1>5. o.trades = 1 /\ o.result > 0
    BY <1>1, <1>3, <1>4 DEF OrderRight
  <1>6. PICK left : left = [o EXCEPT !.trades = o.trades - 1]
    OBVIOUS
  <1>7. ~left.news /\ left.trades = 0
    BY <1>3, <1>4, <1>5, <1>6 DEF Orders
  <1>8. flight' = flight \ {o}
    BY <1>1, <1>6, <1>7 DEF Rest
  <1>9. flight' \in SUBSET Orders /\ IsFiniteSet(flight')
    BY <1>8, CoreParts, FS_RemoveElement
  <1>10. OrdersRight(flight')
    BY <1>4, <1>8 DEF OrdersRight
  <1> QED
    BY <1>1, <1>2, <1>3, <1>4, <1>5, <1>8, <1>9, <1>10

(* The trade of an order that opens: its group enters its list.            *)
EnteredBooks(p, b, d, o, c, e) ==
    /\ ToSet(b.costs) \subseteq ToSet(c.costs) /\ ToSet(b.locks) \subseteq ToSet(c.locks)
    /\ Listed(c.costs, c.locks) = Listed(b.costs, b.locks) \cup {o.key}
    /\ ListsRight(c.costs, c.locks)
    /\ c.txn.opening = b.txn.opening /\ c.txn.closing = b.txn.closing /\ c.grp = b.grp
    /\ e.txn = c.txn /\ SlotsSaved(p, c.slots, e.slots) /\ e.costs = c.costs /\ e.locks = c.locks
    /\ e.grp = d.grp

(* Books that take the trade of an order that opens are right again.       *)
LEMMA TradeOfOpen ==
    ASSUME NEW F, NEW p, NEW closes, NEW b, BookCore(F, p, closes, b), NEW d,
           RedisRight(F, p, b, d), NEW o \in F, o.kind \in Opening, ~o.news, o.result > 0,
           NEW G, G = F \ {o}, NEW c, NEW e, EnteredBooks(p, b, d, o, c, e)
    PROVE  BookCore(G, p, closes, c) /\ RedisRight(G, p, c, e)
  <1> DEFINE L == Listed(b.costs, b.locks)
             M == Listed(c.costs, c.locks)
  <1>0. /\ OrdersRight(F) /\ FreshRight(F, p, b.txn.opening) /\ GroupsRight(F, p, L, b.grp)
        /\ LotsRight(L, b.grp)
        /\ CloseRight(SellsOf(F), p, closes, b.costs, b.locks, b.grp, b.txn.closing)
    BY DEF BookCore
  <1>b. /\ ToSet(b.costs) \subseteq ToSet(c.costs) /\ ToSet(b.locks) \subseteq ToSet(c.locks)
        /\ M = L \cup {o.key} /\ ListsRight(c.costs, c.locks)
        /\ c.txn.opening = b.txn.opening /\ c.txn.closing = b.txn.closing /\ c.grp = b.grp
        /\ e.txn = c.txn /\ SlotsSaved(p, c.slots, e.slots) /\ e.costs = c.costs
        /\ e.locks = c.locks /\ e.grp = d.grp
    BY DEF EnteredBooks
  <1>1. o \in OpensOf(F) /\ ~Sent(p, o.key)
    <2>1. o \in OpensOf(F)
      BY DEF OpensOf
    <2>2. ASSUME Sent(p, o.key) PROVE FALSE
      <3>1. PICK x \in FreshOf(F) : p.key = x.key
        BY <1>0, <2>2 DEF FreshRight, Sent
      <3>2. x \in F /\ x.kind \in Opening /\ x.news /\ x.key = o.key
        BY <2>2, <3>1 DEF FreshOf, Sent
      <3> QED
        BY <1>0, <3>2 DEF OrdersRight
    <2> QED
      BY <2>1, <2>2
  <1>2. o.key \notin L /\ Opened(o, b.grp[o.key])
    BY <1>0, <1>1 DEF GroupsRight
  <1>3. Lively(b.grp[o.key]) /\ b.grp[o.key].closing = 0
    <2>1. o.result \in Int
      BY <1>0 DEF OrdersRight, OrderRight
    <2> QED
      BY <1>2, <2>1 DEF Opened, Lively, Groups, Remain
  <1>4. OrdersRight(G) /\ FreshOf(G) = FreshOf(F) /\ SellsOf(G) = SellsOf(F)
        /\ OpensOf(G) = OpensOf(F) \ {o}
    BY <1>0 DEF OrdersRight, FreshOf, SellsOf, OpensOf, Opening, Closing
  <1>5. FreshRight(G, p, c.txn.opening)
    BY <1>0, <1>4, <1>b DEF FreshRight
  <1>6. GroupsRight(G, p, M, c.grp)
    <2>1. \A y \in OpensOf(G) : y \in OpensOf(F) /\ y.key # o.key
      BY <1>0, <1>1, <1>4 DEF OrdersRight, OpensOf
    <2> QED
      BY <1>0, <1>b, <2>1 DEF GroupsRight
  <1>7. LotsRight(M, c.grp)
    BY <1>0, <1>3, <1>b DEF LotsRight
  <1>8. CloseRight(SellsOf(F), p, closes, c.costs, c.locks, c.grp, b.txn.closing)
    <2>1. /\ \A g \in L : c.grp[g].closing = b.grp[g].closing
          /\ \A g \in M \ L : c.grp[g].closing = 0
      BY <1>3, <1>b
    <2> QED
      BY <1>0, <1>b, <2>1, CloseFramed
  <1>9. BookCore(G, p, closes, c)
    BY <1>4, <1>5, <1>6, <1>7, <1>8, <1>b DEF BookCore
  <1>10. Needed(G, p, M) \subseteq Needed(F, p, L)
    <2>1. o.key \in Needed(F, p, L)
      BY <1>1 DEF Needed, KeysOf
    <2>2. KeysOf({y \in OpensOf(G) : ~Sent(p, y.key)}) \subseteq KeysOf({y \in OpensOf(F) : ~Sent(p, y.key)})
      BY <1>4 DEF KeysOf
    <2>3. L \subseteq Needed(F, p, L)
      BY DEF Needed
    <2> QED
      BY <1>b, <2>1, <2>2, <2>3 DEF Needed
  <1>11. GroupsSaved(G, p, M, c.grp, e.grp)
    BY <1>10, <1>b DEF RedisRight, GroupsSaved
  <1>12. RedisRight(G, p, c, e)
    BY <1>11, <1>b DEF RedisRight, TxnSaved
  <1> QED
    BY <1>9, <1>12

(* Memory and redis after a handler that wrote the status and a list.      *)
EnteredCost(b, list, status) == [b EXCEPT !.costs = list, !.txn.status = status]
EnteredLock(b, list, status) == [b EXCEPT !.locks = list, !.txn.status = status]
TxnStatus(txn, status) == [txn EXCEPT !.status = status]

(* A group entered into a list of the book, and the status with it.        *)
LEMMA BookEntered ==
    ASSUME NEW b \in Books, NEW list \in Seq(Keys), NEW status \in Status,
           NEW c, NEW e, c = EnteredCost(b, list, status), e = EnteredLock(b, list, status)
    PROVE  /\ c \in Books /\ c.txn = TxnStatus(b.txn, status) /\ c.slots = b.slots
           /\ c.costs = list /\ c.locks = b.locks /\ c.grp = b.grp
           /\ e \in Books /\ e.txn = TxnStatus(b.txn, status) /\ e.slots = b.slots
           /\ e.costs = b.costs /\ e.locks = list /\ e.grp = b.grp
           /\ TxnStatus(b.txn, status).open = b.txn.open
           /\ TxnStatus(b.txn, status).opening = b.txn.opening
           /\ TxnStatus(b.txn, status).closing = b.txn.closing
           /\ TxnStatus(b.txn, status).lock = b.txn.lock
           /\ TxnStatus(b.txn, status).lockable = b.txn.lockable
  <1>1. b.txn \in Txns
    BY BookParts
  <1>2. PICK s : s = [b EXCEPT !.txn = TxnStatus(b.txn, status)]
    OBVIOUS
  <1>3. TxnStatus(b.txn, status) \in Txns
    BY <1>1 DEF Txns, TxnStatus
  <1>4. /\ s \in Books /\ s.txn = TxnStatus(b.txn, status) /\ s.slots = b.slots
        /\ s.costs = b.costs /\ s.locks = b.locks /\ s.grp = b.grp
    BY <1>2, <1>3, TxnWritten
  <1>5. c = [s EXCEPT !.costs = list] /\ e = [s EXCEPT !.locks = list]
    BY <1>2 DEF EnteredCost, EnteredLock, Books, TxnStatus
  <1>6. /\ c \in Books /\ c.txn = s.txn /\ c.slots = s.slots /\ c.costs = list
        /\ c.locks = s.locks /\ c.grp = s.grp
    BY <1>4, <1>5, CostsWritten
  <1>7. /\ e \in Books /\ e.txn = s.txn /\ e.slots = s.slots /\ e.costs = s.costs
        /\ e.locks = list /\ e.grp = s.grp
    BY <1>4, <1>5, LocksWritten
  <1> QED
    BY <1>1, <1>4, <1>6, <1>7 DEF Txns, TxnStatus

(* The trade of an order to open keeps the invariant: its group enters the *)
(* costs (post_open_after_trade).                                          *)
LEMMA PostOpenAfterTradeKeeps ==
    ASSUME Core, Calm', NEW o \in flight, OnTrade(o), o.kind = "open"
    PROVE  Core'
  <1>1. /\ state = "up" /\ pc' = pc /\ cfg' = cfg /\ state' = state
        /\ ~o.news /\ o.result > 0 /\ OrderRight(o) /\ o.kind \in Opening
        /\ flight' = flight \ {o} /\ flight' \in SUBSET Orders /\ IsFiniteSet(flight')
        /\ OrdersRight(flight') /\ PostOpenAfterTrade(o)
    BY TradeComes DEF Opening
  <1>2. /\ book \in Books /\ db \in Books /\ BookCore(flight, pc, cgs, book)
        /\ RedisRight(flight, pc, book, db) /\ cgs \in [CloseKeys -> Closes \cup {NoGroup}]
    BY CoreParts
  <1>3. /\ book.costs \in Seq(Keys) /\ book.txn.status \in Status /\ o.key \in Keys
        /\ IsInjective(book.costs)
    BY <1>1, <1>2, BookParts DEF BookCore, ListsRight, OrderRight
  <1>4. o.key \notin Listed(book.costs, book.locks)
    BY <1>1, <1>2 DEF BookCore, GroupsRight, OpensOf
  <1>5. PICK status : status = IF book.txn.status = "READY" THEN "RUNNING" ELSE book.txn.status
    OBVIOUS
  <1>6. status \in Status
    BY <1>3, <1>5 DEF Status
  <1>7. PICK at \in 0..Len(book.costs) :
            LET b == [book EXCEPT !.costs = Placed(@, at, o.key),
                                  !.txn.status = IF @ = "READY" THEN "RUNNING" ELSE @]
            IN  Handled(b, [SaveTxn(db, b) EXCEPT !.costs = PlacedOnce(book.costs, at, o.key)], cgs)
    BY <1>1 DEF PostOpenAfterTrade
  <1>8. PICK list : list = Placed(book.costs, at, o.key)
    OBVIOUS
  <1>9. /\ list \in Seq(Keys) /\ IsInjective(list) /\ ToSet(list) = ToSet(book.costs) \cup {o.key}
        /\ PlacedOnce(book.costs, at, o.key) = list
    BY <1>3, <1>4, <1>8, PlacedIn DEF Listed
  <1>10. PICK b : b = EnteredCost(book, list, status)
    OBVIOUS
  <1>11. PICK s : s = SaveTxn(db, b)
    OBVIOUS
  <1>12. PICK e : e = [s EXCEPT !.costs = list]
    OBVIOUS
  <1>13. Handled(b, e, cgs)
    BY <1>5, <1>7, <1>8, <1>9, <1>10, <1>11, <1>12 DEF EnteredCost
  <1>14. /\ b \in Books /\ b.slots = book.slots /\ b.costs = list /\ b.locks = book.locks
         /\ b.grp = book.grp /\ b.txn.opening = book.txn.opening
         /\ b.txn.closing = book.txn.closing /\ b.txn.lock = book.txn.lock
         /\ b.txn.lockable = book.txn.lockable
    BY <1>2, <1>6, <1>9, <1>10, BookEntered
  <1>15. /\ s \in Books /\ s.txn = b.txn /\ s.slots = db.slots /\ s.costs = db.costs
         /\ s.locks = db.locks /\ s.grp = db.grp
    BY <1>2, <1>11, <1>14, SavedCounters, SavedTxn
  <1>16. /\ e \in Books /\ e.txn = b.txn /\ e.slots = db.slots /\ e.costs = list
         /\ e.locks = db.locks /\ e.grp = db.grp
    BY <1>9, <1>12, <1>15, CostsWritten
  <1>17. EnteredBooks(pc, book, db, o, b, e)
    <2>1. Listed(list, book.locks) = Listed(book.costs, book.locks) \cup {o.key}
      BY <1>9 DEF Listed
    <2>2. ListsRight(list, book.locks)
      BY <1>2, <1>4, <1>9 DEF BookCore, ListsRight, Listed
    <2>3. SlotsSaved(pc, book.slots, db.slots) /\ db.locks = book.locks
      BY <1>2 DEF RedisRight
    <2> QED
      BY <1>9, <1>14, <1>16, <2>1, <2>2, <2>3 DEF EnteredBooks
  <1>18. BookCore(flight', pc, cgs, b) /\ RedisRight(flight', pc, b, e)
    BY <1>1, <1>2, <1>17, TradeOfOpen
  <1>19. Kept(cgs, flight') = cgs
    BY <1>2, <1>18, KeptSame DEF BookCore
  <1> QED
    BY <1>1, <1>2, <1>13, <1>14, <1>16, <1>18, <1>19, CoreParts, HandlerKeeps

(* The trade of an order to lock keeps the invariant: its group enters the *)
(* lock (post_lock_after_trade).                                           *)
LEMMA PostLockAfterTradeKeeps ==
    ASSUME Core, Calm', NEW o \in flight, OnTrade(o), o.kind = "lock"
    PROVE  Core'
  <1>1. /\ state = "up" /\ pc' = pc /\ cfg' = cfg /\ state' = state
        /\ ~o.news /\ o.result > 0 /\ OrderRight(o) /\ o.kind \in Opening
        /\ flight' = flight \ {o} /\ flight' \in SUBSET Orders /\ IsFiniteSet(flight')
        /\ OrdersRight(flight') /\ PostLockAfterTrade(o)
    BY TradeComes DEF Opening
  <1>2. /\ book \in Books /\ db \in Books /\ BookCore(flight, pc, cgs, book)
        /\ RedisRight(flight, pc, book, db) /\ cgs \in [CloseKeys -> Closes \cup {NoGroup}]
    BY CoreParts
  <1>3. /\ book.locks \in Seq(Keys) /\ book.txn.status \in Status /\ o.key \in Keys
        /\ IsInjective(book.locks)
    BY <1>1, <1>2, BookParts DEF BookCore, ListsRight, OrderRight
  <1>4. o.key \notin Listed(book.costs, book.locks)
    BY <1>1, <1>2 DEF BookCore, GroupsRight, OpensOf
  <1>5. PICK status : status = IF LockFull THEN "LOCK" ELSE book.txn.status
    OBVIOUS
  <1>6. status \in Status
    BY <1>3, <1>5 DEF Status
  <1>7. PICK at \in 0..Len(book.locks) :
            LET b == [book EXCEPT !.locks = Placed(@, at, o.key),
                                  !.txn.status = IF LockFull THEN "LOCK" ELSE @]
            IN  Handled(b, [SaveTxn(SaveTxnLock(db, b), b) EXCEPT
                                !.locks = PlacedOnce(book.locks, at, o.key)], cgs)
    BY <1>1 DEF PostLockAfterTrade
  <1>8. PICK list : list = Placed(book.locks, at, o.key)
    OBVIOUS
  <1>9. /\ list \in Seq(Keys) /\ IsInjective(list) /\ ToSet(list) = ToSet(book.locks) \cup {o.key}
        /\ PlacedOnce(book.locks, at, o.key) = list
    BY <1>3, <1>4, <1>8, PlacedIn DEF Listed
  <1>10. PICK b : b = EnteredLock(book, list, status)
    OBVIOUS
  <1>11. PICK r, s : r = SaveTxnLock(db, b) /\ s = SaveTxn(r, b)
    OBVIOUS
  <1>12. PICK e : e = [s EXCEPT !.locks = list]
    OBVIOUS
  <1>13. Handled(b, e, cgs)
    BY <1>5, <1>7, <1>8, <1>9, <1>10, <1>11, <1>12 DEF EnteredLock
  <1>14. /\ b \in Books /\ b.slots = book.slots /\ b.costs = book.costs /\ b.locks = list
         /\ b.grp = book.grp /\ b.txn.opening = book.txn.opening /\ b.txn.open = book.txn.open
         /\ b.txn.closing = book.txn.closing /\ b.txn.lock = book.txn.lock
         /\ b.txn.lockable = book.txn.lockable
    BY <1>2, <1>6, <1>9, <1>10, BookEntered
  <1>15. /\ r \in Books /\ r.txn = b.txn /\ r.slots = db.slots /\ r.costs = db.costs
         /\ r.locks = db.locks /\ r.grp = db.grp
    BY <1>2, <1>11, <1>14, SavedCounters, SavedTxnLock
  <1>16. /\ s \in Books /\ s.txn = b.txn /\ s.slots = db.slots /\ s.costs = db.costs
         /\ s.locks = db.locks /\ s.grp = db.grp
    BY <1>11, <1>14, <1>15, SavedTxn
  <1>17. /\ e \in Books /\ e.txn = b.txn /\ e.slots = db.slots /\ e.costs = db.costs
         /\ e.locks = list /\ e.grp = db.grp
    BY <1>9, <1>12, <1>16, LocksWritten
  <1>18. EnteredBooks(pc, book, db, o, b, e)
    <2>1. Listed(book.costs, list) = Listed(book.costs, book.locks) \cup {o.key}
      BY <1>9 DEF Listed
    <2>2. ListsRight(book.costs, list)
      BY <1>2, <1>4, <1>9 DEF BookCore, ListsRight, Listed
    <2>3. SlotsSaved(pc, book.slots, db.slots) /\ db.costs = book.costs
      BY <1>2 DEF RedisRight
    <2> QED
      BY <1>9, <1>14, <1>17, <2>1, <2>2, <2>3 DEF EnteredBooks
  <1>19. BookCore(flight', pc, cgs, b) /\ RedisRight(flight', pc, b, e)
    BY <1>1, <1>2, <1>18, TradeOfOpen
  <1>20. Kept(cgs, flight') = cgs
    BY <1>2, <1>19, KeptSame DEF BookCore
  <1> QED
    BY <1>1, <1>2, <1>13, <1>14, <1>17, <1>19, <1>20, CoreParts, HandlerKeeps

-----------------------------------------------------------------------------
(* Trades of close orders.                                                 *)

(* A group with another number of its lots closed, and none being closed.  *)
LEMMA NoneClosing ==
    ASSUME NEW x \in Groups, NEW m \in Nat
    PROVE  LET y == [x EXCEPT !.close = m, !.closing = 0]
           IN  y \in Groups /\ SameOpened(x, y) /\ y.closing = 0 /\ y.close = m /\ y.filled = x.filled
  BY DEF Groups, SameOpened

(* The lots of a group that were booked as closed.                         *)
LEMMA OneClosed ==
    ASSUME NEW x \in Groups, NEW n \in Nat, n <= x.closing, x.closing <= Remain(x)
    PROVE  LET y == MoreClosed(x, n)
           IN  /\ y \in Groups /\ SameOpened(x, y) /\ y.closing = 0
               /\ Remain(y) = Remain(x) - n /\ Remain(y) >= 0
               /\ (y.filled = y.close) <=> (Remain(y) = 0)
  <1> DEFINE m == x.close + n
             y == [x EXCEPT !.close = m, !.closing = 0]
  <1>1. MoreClosed(x, n) = y
    BY DEF MoreClosed
  <1>2. m \in Nat /\ x.filled \in Nat /\ x.closing \in Nat /\ x.close \in Nat
    BY DEF Groups
  <1> HIDE DEF m
  <1>3. y \in Groups /\ SameOpened(x, y) /\ y.closing = 0 /\ y.close = m /\ y.filled = x.filled
    BY <1>2, NoneClosing
  <1> HIDE DEF y
  <1>4. Remain(y) = Remain(x) - n
    BY <1>2, <1>3 DEF Remain, m
  <1>5. n <= Remain(x) /\ Remain(x) \in Int
    BY <1>2 DEF Remain
  <1>6. y.filled = y.close <=> Remain(y) = 0
    BY <1>2, <1>3 DEF Remain
  <1> QED
    BY <1>1, <1>3, <1>4, <1>5, <1>6

(* The groups after the lots that were closed are booked on them.          *)
ClosedGroups(b, cg, n, gone, grp) ==
    /\ gone \subseteq ToSet(cg.groups)
    /\ \A g \in ToSet(cg.groups) :
          /\ grp[g] \in Groups /\ SameOpened(b.grp[g], grp[g]) /\ grp[g].closing = 0
          /\ Remain(grp[g]) = Remain(b.grp[g]) - n[g] /\ Remain(grp[g]) >= 0
          /\ g \in gone <=> Remain(grp[g]) = 0
    /\ \A g \in Keys : g \notin ToSet(cg.groups) => grp[g] = b.grp[g]
    /\ SumFunctionOnSet(n, ToSet(cg.groups)) = Least(cg.filled, ClosingIn(b.grp, ToSet(cg.groups)))

(* What booking the lots of a close order makes of the groups.             *)
LEMMA BookIsClosed ==
    ASSUME NEW b \in Books, NEW cg \in Closes, IsInjective(cg.groups),
           \A g \in ToSet(cg.groups) : Lively(b.grp[g]),
           NEW c, c = BookClosed(b, cg), NEW gone, gone = Emptied(c, cg)
    PROVE  /\ c \in Books /\ c.txn = b.txn /\ c.slots = b.slots /\ c.costs = b.costs
           /\ c.locks = b.locks
           /\ \E n \in [ToSet(cg.groups) -> Nat] : ClosedGroups(b, cg, n, gone, c.grp)
  <1>1. /\ cg.groups \in Seq(Keys) /\ cg.filled \in Nat
        /\ b.grp \in [Keys -> Groups \cup {NoGroup}] /\ "grp" \in DOMAIN b
        /\ \A g \in ToSet(cg.groups) : b.grp[g] \in Groups /\ b.grp[g].closing <= Remain(b.grp[g])
    BY BookParts DEF Closes, Lively
  <1>2. PICK booked : booked = c.grp
    OBVIOUS
  <1>3. PICK n \in [ToSet(cg.groups) -> Nat] : LotsBooked(b, cg, n, booked)
    BY <1>1, <1>2, ClosedLots
  <1>4. c = [b EXCEPT !.grp = booked]
    <2>1. \E f : BookClosed(b, cg) = [b EXCEPT !.grp = f]
      BY DEF BookClosed
    <2>2. PICK f : c = [b EXCEPT !.grp = f]
      BY <2>1
    <2>3. c.grp = f
      BY <1>1, <2>2
    <2> QED
      BY <1>2, <2>2, <2>3
  <1>5. /\ c \in Books /\ c.txn = b.txn /\ c.slots = b.slots /\ c.costs = b.costs
        /\ c.locks = b.locks /\ c.grp = booked
    BY <1>3, <1>4, GroupsWritten DEF LotsBooked
  <1>6. /\ gone \subseteq ToSet(cg.groups)
        /\ \A g \in ToSet(cg.groups) : g \in gone <=> booked[g].filled = booked[g].close
    BY <1>2 DEF Emptied
  <1>7. ASSUME NEW g \in ToSet(cg.groups)
        PROVE  /\ c.grp[g] \in Groups /\ SameOpened(b.grp[g], c.grp[g]) /\ c.grp[g].closing = 0
               /\ Remain(c.grp[g]) = Remain(b.grp[g]) - n[g] /\ Remain(c.grp[g]) >= 0
               /\ g \in gone <=> Remain(c.grp[g]) = 0
    <2>1. PICK x, y, m : x = b.grp[g] /\ y = booked[g] /\ m = n[g]
      OBVIOUS
    <2>2. x \in Groups /\ m \in Nat /\ m <= x.closing /\ x.closing <= Remain(x)
      BY <1>1, <1>3, <2>1 DEF LotsBooked
    <2>3. y = MoreClosed(x, m)
      BY <1>3, <2>1 DEF LotsBooked
    <2>4. /\ y \in Groups /\ SameOpened(x, y) /\ y.closing = 0
          /\ Remain(y) = Remain(x) - m /\ Remain(y) >= 0
          /\ (y.filled = y.close) <=> (Remain(y) = 0)
      BY <2>2, <2>3, OneClosed
    <2> QED
      BY <1>5, <1>6, <2>1, <2>4
  <1>8. ClosedGroups(b, cg, n, gone, c.grp)
    BY <1>3, <1>5, <1>6, <1>7 DEF ClosedGroups, LotsBooked
  <1> QED
    BY <1>5, <1>8

(* Lots leave the slots.                                                   *)
LEMMA SlotsReset ==
    ASSUME NEW slots \in Seq(Slots), NEW n \in Nat
    PROVE  ResetTxnSlots(slots, n) \in Seq(Slots)
  <1>1. Len(slots) \in Nat /\ DOMAIN slots = 1..Len(slots)
    OBVIOUS
  <1> DEFINE Left(i) == OpenSum(SubSeq(slots, i + 1, Len(slots)))
             New(i) == [slots[i] EXCEPT !.open = slots[i].open - Clip(n - Left(i), slots[i].open)]
  <1>2. ASSUME NEW i \in 1..Len(slots) PROVE New(i) \in Slots
    <2>1. SubSeq(slots, i + 1, Len(slots)) \in Seq(Slots)
      BY <1>1
    <2>2. PICK rest : rest = SubSeq(slots, i + 1, Len(slots))
      OBVIOUS
    <2>3. rest \in Seq(Slots) /\ DOMAIN rest = 1..Len(rest) /\ Len(rest) \in Nat
          /\ \A j \in DOMAIN rest : rest[j] \in Slots
      BY <2>1, <2>2
    <2>4. \A j \in DOMAIN rest : rest[j].open \in Int
      BY <2>3 DEF Slots
    <2>5. IsFiniteSet(DOMAIN rest)
      BY <2>3, FS_Interval
    <2>6. OpenSum(rest) \in Int
      <3> DEFINE f == [j \in DOMAIN rest |-> rest[j].open]
      <3>1. DOMAIN f = DOMAIN rest /\ \A j \in DOMAIN f : f[j] \in Int
        BY <2>4
      <3>2. OpenSum(rest) = SumFunction(f)
        BY DEF OpenSum
      <3> HIDE DEF f
      <3>3. SumFunctionOnSet(f, DOMAIN f) \in Int
        BY <2>5, <3>1, SumIsInt
      <3> QED
        BY <3>2, <3>3 DEF SumFunction
    <2>7. PICK s : s = slots[i]
      OBVIOUS
    <2>0. s \in Slots
      BY <1>1, <2>7
    <2>8. s \in Slots /\ s.open \in Int
      BY <2>0 DEF Slots
    <2>9. Clip(n - OpenSum(rest), s.open) \in Int
      BY <2>6, <2>8 DEF Clip, Least
    <2>10. s.open - Clip(n - OpenSum(rest), s.open) \in Int
      BY <2>8, <2>9
    <2>11. PICK k : k = s.open - Clip(n - OpenSum(rest), s.open)
      OBVIOUS
    <2>12. [s EXCEPT !.open = k] \in Slots
      BY <2>8, <2>10, <2>11 DEF Slots
    <2>13. New(i) = [s EXCEPT !.open = k]
      <3>1. Left(i) = OpenSum(rest)
        BY <2>2
      <3> QED
        BY <2>7, <2>11, <3>1
    <2> QED
      BY <2>12, <2>13
  <1>3. ResetTxnSlots(slots, n) = [i \in 1..Len(slots) |-> New(i)]
    BY <1>1 DEF ResetTxnSlots
  <1> HIDE DEF New
  <1> QED
    BY <1>1, <1>2, <1>3

(* The book after the last trade of a close order.                         *)
TxnClosed(txn, n) == [txn EXCEPT !.open = txn.open - n, !.closing = 0]
TxnUnlocked(txn, n, status) == [txn EXCEPT !.lock = txn.lock - n, !.closing = 0, !.status = status]

ClosedBookOf(b, cg) ==
    [BookClosed(b, cg) EXCEPT
        !.costs = WithoutGroups(@, Emptied(BookClosed(b, cg), cg)),
        !.txn.closing = 0, !.txn.open = @ - cg.filled,
        !.slots = ResetTxnSlots(@, cg.filled)]
UnlockedBookOf(b, cg, status) ==
    [BookClosed(b, cg) EXCEPT
        !.locks = WithoutGroups(@, Emptied(BookClosed(b, cg), cg)),
        !.txn.closing = 0, !.txn.lock = @ - cg.filled, !.txn.status = status]

OnlyBooked(b, cg, r, gone) ==
    /\ r = BookClosed(b, cg) /\ gone = Emptied(r, cg)
    /\ r \in Books /\ r.txn = b.txn /\ r.slots = b.slots /\ r.costs = b.costs /\ r.locks = b.locks

(* What the last trade of an order to close makes of the rest of the book. *)
LEMMA ClosedBookIs ==
    ASSUME NEW b \in Books, NEW cg \in Closes, IsInjective(b.costs),
           NEW r, NEW gone, OnlyBooked(b, cg, r, gone),
           NEW c, c = ClosedBookOf(b, cg)
    PROVE  /\ c \in Books /\ c.txn = TxnClosed(b.txn, cg.filled) /\ c.txn \in Txns
           /\ c.slots = ResetTxnSlots(b.slots, cg.filled)
           /\ IsInjective(c.costs) /\ ToSet(c.costs) = ToSet(b.costs) \ gone
           /\ c.locks = b.locks /\ c.grp = r.grp
  <1>1. r = BookClosed(b, cg) /\ gone = Emptied(BookClosed(b, cg), cg)
    BY DEF OnlyBooked
  <1>2. /\ r \in Books /\ r.txn = b.txn /\ r.slots = b.slots /\ r.costs = b.costs
        /\ r.locks = b.locks
    BY DEF OnlyBooked
  <1>3. b.txn \in Txns /\ b.slots \in Seq(Slots) /\ b.costs \in Seq(Keys) /\ cg.filled \in Nat
        /\ b.txn.open \in Int
    BY BookParts DEF Closes
  <1>4. PICK left : left = WithoutGroups(b.costs, gone)
    OBVIOUS
  <1>5. left \in Seq(Keys) /\ IsInjective(left) /\ ToSet(left) = ToSet(b.costs) \ gone
    BY <1>3, <1>4, Without
  <1>6. PICK slots : slots = ResetTxnSlots(b.slots, cg.filled)
    OBVIOUS
  <1>7. slots \in Seq(Slots)
    BY <1>3, <1>6, SlotsReset
  <1>8. PICK txn : txn = TxnClosed(b.txn, cg.filled)
    OBVIOUS
  <1>9. txn \in Txns
    <2>1. b.txn.open - cg.filled \in Int
      BY <1>3
    <2> QED
      BY <1>3, <1>8, <2>1 DEF Txns, TxnClosed
  <1>10. c = [r EXCEPT !.costs = left, !.txn = txn, !.slots = slots]
    BY <1>1, <1>2, <1>4, <1>6, <1>8 DEF ClosedBookOf, TxnClosed, Books, Txns
  <1>11. PICK r1, r2 : r1 = [r EXCEPT !.costs = left] /\ r2 = [r1 EXCEPT !.txn = txn]
    OBVIOUS
  <1>12. /\ r1 \in Books /\ r1.txn = r.txn /\ r1.slots = r.slots /\ r1.costs = left
         /\ r1.locks = r.locks /\ r1.grp = r.grp
    BY <1>2, <1>5, <1>11, CostsWritten
  <1>13. /\ r2 \in Books /\ r2.txn = txn /\ r2.slots = r1.slots /\ r2.costs = r1.costs
         /\ r2.locks = r1.locks /\ r2.grp = r1.grp
    BY <1>9, <1>11, <1>12, TxnWritten
  <1>14. c = [r2 EXCEPT !.slots = slots]
    BY <1>10, <1>11
  <1>15. /\ c \in Books /\ c.txn = r2.txn /\ c.slots = slots /\ c.costs = r2.costs
         /\ c.locks = r2.locks /\ c.grp = r2.grp
    BY <1>7, <1>13, <1>14, SlotsWritten
  <1> QED
    BY <1>1, <1>2, <1>5, <1>6, <1>8, <1>9, <1>12, <1>13, <1>15

(* What the last trade of an order to unlock makes of the rest of the      *)
(* book.                                                                   *)
LEMMA UnlockedBookIs ==
    ASSUME NEW b \in Books, NEW cg \in Closes, IsInjective(b.locks), NEW status \in Status,
           NEW r, NEW gone, OnlyBooked(b, cg, r, gone),
           NEW c, c = UnlockedBookOf(b, cg, status)
    PROVE  /\ c \in Books /\ c.txn = TxnUnlocked(b.txn, cg.filled, status) /\ c.txn \in Txns
           /\ c.slots = b.slots
           /\ IsInjective(c.locks) /\ ToSet(c.locks) = ToSet(b.locks) \ gone
           /\ c.costs = b.costs /\ c.grp = r.grp
  <1>1. r = BookClosed(b, cg) /\ gone = Emptied(BookClosed(b, cg), cg)
    BY DEF OnlyBooked
  <1>2. /\ r \in Books /\ r.txn = b.txn /\ r.slots = b.slots /\ r.costs = b.costs
        /\ r.locks = b.locks
    BY DEF OnlyBooked
  <1>3. b.txn \in Txns /\ b.locks \in Seq(Keys) /\ cg.filled \in Nat /\ b.txn.lock \in Int
    BY BookParts DEF Closes
  <1>4. PICK left : left = WithoutGroups(b.locks, gone)
    OBVIOUS
  <1>5. left \in Seq(Keys) /\ IsInjective(left) /\ ToSet(left) = ToSet(b.locks) \ gone
    BY <1>3, <1>4, Without
  <1>6. PICK txn : txn = TxnUnlocked(b.txn, cg.filled, status)
    OBVIOUS
  <1>7. txn \in Txns
    <2>1. b.txn.lock - cg.filled \in Int
      BY <1>3
    <2> QED
      BY <1>3, <1>6, <2>1 DEF Txns, TxnUnlocked
  <1>8. c = [r EXCEPT !.locks = left, !.txn = txn]
    BY <1>1, <1>2, <1>4, <1>6 DEF UnlockedBookOf, TxnUnlocked, Books, Txns
  <1>9. PICK r1 : r1 = [r EXCEPT !.locks = left]
    OBVIOUS
  <1>10. /\ r1 \in Books /\ r1.txn = r.txn /\ r1.slots = r.slots /\ r1.costs = r.costs
         /\ r1.locks = left /\ r1.grp = r.grp
    BY <1>2, <1>5, <1>9, LocksWritten
  <1>11. c = [r1 EXCEPT !.txn = txn]
    BY <1>8, <1>9
  <1>12. /\ c \in Books /\ c.txn = txn /\ c.slots = r1.slots /\ c.costs = r1.costs
         /\ c.locks = r1.locks /\ c.grp = r1.grp
    BY <1>7, <1>10, <1>11, TxnWritten
  <1> QED
    BY <1>1, <1>2, <1>5, <1>6, <1>7, <1>10, <1>12

(* post_close and post_unlock after the trade of one of two close orders.  *)
LEMMA FirstPartKeeps ==
    ASSUME Core, Calm', NEW o \in flight, OnTrade(o), o.kind \in Closing,
           cgs[o.key].frag = "RCV_ONE"
    PROVE  Core'
  <1> DEFINE S == SellsOf(flight)
             T == SellsOf(flight')
             L == Listed(book.costs, book.locks)
  <1>1. /\ state = "up" /\ pc' = pc /\ cfg' = cfg /\ state' = state
        /\ ~o.news /\ o.result > 0 /\ OrderRight(o) /\ ~Unknown(o)
        /\ flight' = flight \ {o} /\ flight' \in SUBSET Orders /\ IsFiniteSet(flight')
        /\ OrdersRight(flight') /\ Handled(book, db, cgs)
    <2>1. ~TradeFails(o) /\ (PostCloseAfterTrade(o) \/ PostUnlockAfterTrade(o))
      BY TradeComes DEF Closing
    <2>2. ~Unknown(o) /\ Handled(book, db, cgs)
      BY <2>1 DEF TradeFails, PostCloseAfterTrade, PostUnlockAfterTrade
    <2> QED
      BY <2>2, TradeComes
  <1>2. PICK k, cg : k = o.key /\ cg = cgs[o.key]
    OBVIOUS
  <1>3. /\ o \in S /\ k \in CloseKeys
        /\ CloseNoted(k, S, pc, cgs, book.costs, book.locks, book.grp, book.txn.closing)
        /\ Marking(pc) = {} /\ db.txn = book.txn
        /\ \A g \in Needed(flight, pc, L) : db.grp[g] = book.grp[g]
    BY <1>1, <1>2, SellNoted
  <1>4. /\ book \in Books /\ db \in Books /\ pc \in Pcs
        /\ BookCore(flight, pc, cgs, book) /\ RedisRight(flight, pc, book, db)
        /\ cgs \in [CloseKeys -> Closes \cup {NoGroup}]
    BY CoreParts
  <1>5. T = S \ {o} /\ OpensOf(flight') = OpensOf(flight)
    BY <1>1 DEF SellsOf, OpensOf, Opening, Closing
  <1>6. Marked(S, k, cg, book.costs, book.locks, book.grp) /\ SecondNew(S, cg)
    BY <1>2, <1>3 DEF CloseNoted, Parts
  <1>7. Marked(T, k, cg, book.costs, book.locks, book.grp)
    BY <1>5, <1>6 DEF Marked
  <1>8. SecondNew(T, cg)
    <2>1. PICK s \in S : /\ s.news /\ s.quantity + cg.filled <= cg.quantity
                         /\ s.result = 0 => cg.filled = 0
                         /\ \/ S = {s}
                            \/ \E x \in S : S = {s, x} /\ ~x.news /\ cg.filled = x.result
      BY <1>6 DEF SecondNew
    <2>2. T = {s}
      BY <1>1, <1>3, <1>5, <2>1
    <2> QED
      BY <2>1, <2>2 DEF SecondNew
  <1>9. Parts(T, cg)
    BY <1>2, <1>8 DEF Parts
  <1>10. CloseNoted(k, T, pc, cgs, book.costs, book.locks, book.grp, book.txn.closing)
    BY <1>2, <1>3, <1>7, <1>9 DEF CloseNoted
  <1>11. CloseRight(T, pc, cgs, book.costs, book.locks, book.grp, book.txn.closing)
    BY <1>3, <1>10 DEF CloseRight
  <1>12. SellBooks(flight, pc, book, book, db)
    BY <1>3, <1>4 DEF SellBooks, BookCore, RedisRight
  <1>13. BookCore(flight', pc, cgs, book) /\ RedisRight(flight', pc, book, db)
    BY <1>1, <1>4, <1>5, <1>11, <1>12, SellHandled
  <1>14. Kept(cgs, flight') = cgs
    BY <1>4, <1>11, KeptSame
  <1> QED
    BY <1>1, <1>4, <1>13, <1>14, CoreParts, HandlerKeeps

(* Memory and redis when the last lots of a close order were booked.       *)
EndedBooks(p, b, d, cg, gone, c, e) ==
    /\ c \in Books /\ e \in Books
    /\ Listed(c.costs, c.locks) = Listed(b.costs, b.locks) \ gone /\ ListsRight(c.costs, c.locks)
    /\ c.txn.closing = 0 /\ c.txn.opening = b.txn.opening
    /\ e.txn = c.txn /\ SlotsSaved(p, c.slots, e.slots) /\ e.costs = c.costs /\ e.locks = c.locks
    /\ \A g \in Keys : e.grp[g] = IF g \in ToSet(cg.groups) THEN c.grp[g] ELSE d.grp[g]

(* Books in which the last lots of a close order were booked are right     *)
(* again.                                                                  *)
LEMMA CloseEnded ==
    ASSUME NEW F, NEW p, NEW closes, NEW b \in Books, BookCore(F, p, closes, b), NEW d,
           RedisRight(F, p, b, d), Marking(p) = {},
           p.kind \in Closing => p.kind = "close" /\ p.at = "added",
           NEW k, NEW cg, Marked(SellsOf(F), k, cg, b.costs, b.locks, b.grp),
           NEW c, NEW e, NEW n, NEW gone, ClosedGroups(b, cg, n, gone, c.grp),
           EndedBooks(p, b, d, cg, gone, c, e),
           NEW G, OpensOf(G) = OpensOf(F), SellsOf(G) = {}, OrdersRight(G),
           NEW kept, \A l \in CloseKeys : kept[l] = NoGroup
    PROVE  BookCore(G, p, kept, c) /\ RedisRight(G, p, c, e)
  <1> DEFINE L == Listed(b.costs, b.locks)
             M == Listed(c.costs, c.locks)
  <1>1. /\ M = L \ gone /\ ListsRight(c.costs, c.locks)
        /\ c.txn.closing = 0 /\ c.txn.opening = b.txn.opening
        /\ e.txn = c.txn /\ SlotsSaved(p, c.slots, e.slots) /\ e.costs = c.costs /\ e.locks = c.locks
        /\ \A g \in Keys : e.grp[g] = IF g \in ToSet(cg.groups) THEN c.grp[g] ELSE d.grp[g]
    BY DEF EndedBooks
  <1>2. /\ L \subseteq Keys /\ ToSet(cg.groups) \subseteq L
        /\ \A g \in L \ ToSet(cg.groups) : b.grp[g].closing = 0
    BY ListedKeys DEF Marked, ListOf, Listed
  <1>3. ASSUME NEW g \in M PROVE Lively(c.grp[g]) /\ c.grp[g].closing = 0
    <2>1. g \in L /\ g \notin gone /\ g \in Keys
      BY <1>1, <1>2
    <2>2. CASE g \in ToSet(cg.groups)
      <3>1. /\ c.grp[g] \in Groups /\ c.grp[g].closing = 0 /\ Remain(c.grp[g]) >= 0
            /\ Remain(c.grp[g]) # 0
        BY <2>1, <2>2 DEF ClosedGroups
      <3>2. Remain(c.grp[g]) \in Int
        BY <3>1 DEF Remain, Groups
      <3> QED
        BY <3>1, <3>2 DEF Lively
    <2>3. CASE g \notin ToSet(cg.groups)
      BY <1>2, <2>1, <2>3 DEF ClosedGroups, BookCore, LotsRight
    <2> QED
      BY <2>2, <2>3
  <1>4. \A y \in OpensOf(F) : y.key \in Keys /\ y.key \notin L
    BY DEF BookCore, GroupsRight, OrdersRight, OrderRight, OpensOf
  <1>5. \A y \in OpensOf(F) : c.grp[y.key] = b.grp[y.key]
    BY <1>2, <1>4 DEF ClosedGroups
  <1>6. \A g \in Needed(F, p, M) : e.grp[g] = c.grp[g]
    <2>1. \A g \in Needed(F, p, M) : g \in Keys /\ g \in Needed(F, p, L)
      BY <1>1, <1>2, <1>4 DEF Needed, KeysOf
    <2>2. \A g \in Needed(F, p, L) : d.grp[g] = b.grp[g]
      BY DEF RedisRight, GroupsSaved, Saved
    <2> QED
      BY <1>1, <2>1, <2>2 DEF ClosedGroups
  <1>7. SellBooks(F, p, b, c, e)
    BY <1>1, <1>3, <1>5, <1>6 DEF SellBooks, LotsRight
  <1>8. NoClosing(SellsOf(G), p, kept, c.costs, c.locks, c.grp, c.txn.closing)
    BY <1>3 DEF NoClosing
  <1>9. CloseRight(SellsOf(G), p, kept, c.costs, c.locks, c.grp, c.txn.closing)
    BY <1>8 DEF CloseRight
  <1> QED
    BY <1>7, <1>9, SellHandled

(* What redis is given when lots were closed.                              *)
ClosedSave(d, b, cg) ==
    [SaveQuantity(SaveTxn(d, b), b, cg) EXCEPT !.costs = b.costs, !.slots = b.slots]
UnlockedSave(d, b, cg) ==
    [SaveQuantity(SaveTxn(SaveTxnLock(d, b), b), b, cg) EXCEPT !.locks = b.locks]

(* What redis holds after the last trade of an order to close.             *)
LEMMA ClosedSaved ==
    ASSUME NEW d \in Books, NEW b \in Books, NEW cg,
           d.txn.lock = b.txn.lock, d.txn.lockable = b.txn.lockable,
           OnlyClosed(d, b, cg),
           NEW e, e = ClosedSave(d, b, cg)
    PROVE  /\ e \in Books /\ e.txn = b.txn /\ e.slots = b.slots /\ e.costs = b.costs
           /\ e.locks = d.locks
           /\ \A g \in Keys : e.grp[g] = IF g \in ToSet(cg.groups) THEN b.grp[g] ELSE d.grp[g]
  <1>1. PICK s, q : s = SaveTxn(d, b) /\ q = SaveQuantity(s, b, cg)
    OBVIOUS
  <1>2. PICK costs, slots : costs = b.costs /\ slots = b.slots
    OBVIOUS
  <1>3. PICK c : c = [q EXCEPT !.costs = costs]
    OBVIOUS
  <1>4. e = [c EXCEPT !.slots = slots]
    BY <1>1, <1>2, <1>3 DEF ClosedSave
  <1>5. /\ s \in Books /\ s.txn = b.txn /\ s.slots = d.slots /\ s.costs = d.costs
        /\ s.locks = d.locks /\ s.grp = d.grp
    BY <1>1, SavedTxn
  <1>6. /\ q \in Books /\ q.txn = s.txn /\ q.locks = s.locks
        /\ \A g \in Keys : q.grp[g] = IF g \in ToSet(cg.groups) THEN b.grp[g] ELSE s.grp[g]
    <2>1. OnlyClosed(s, b, cg)
      BY <1>5 DEF OnlyClosed
    <2> QED
      BY <1>1, <1>5, <2>1, QuantitySaved
  <1>7. costs \in Seq(Keys) /\ slots \in Seq(Slots)
    BY <1>2, BookParts
  <1>8. c \in Books /\ c.txn = q.txn /\ c.costs = costs /\ c.locks = q.locks /\ c.grp = q.grp
    BY <1>3, <1>6, <1>7, CostsWritten
  <1>9. /\ e \in Books /\ e.txn = c.txn /\ e.slots = slots /\ e.costs = c.costs
        /\ e.locks = c.locks /\ e.grp = c.grp
    BY <1>4, <1>7, <1>8, SlotsWritten
  <1> QED
    BY <1>2, <1>5, <1>6, <1>8, <1>9

(* What redis holds after the last trade of an order to unlock.            *)
LEMMA UnlockedSaved ==
    ASSUME NEW d \in Books, NEW b \in Books, NEW cg, d.txn.open = b.txn.open,
           OnlyClosed(d, b, cg),
           NEW e, e = UnlockedSave(d, b, cg)
    PROVE  /\ e \in Books /\ e.txn = b.txn /\ e.slots = d.slots /\ e.costs = d.costs
           /\ e.locks = b.locks
           /\ \A g \in Keys : e.grp[g] = IF g \in ToSet(cg.groups) THEN b.grp[g] ELSE d.grp[g]
  <1>1. PICK r, s, q : r = SaveTxnLock(d, b) /\ s = SaveTxn(r, b) /\ q = SaveQuantity(s, b, cg)
    OBVIOUS
  <1>2. PICK locks : locks = b.locks
    OBVIOUS
  <1>4. e = [q EXCEPT !.locks = locks]
    BY <1>1, <1>2 DEF UnlockedSave
  <1>5. /\ r \in Books /\ r.txn = b.txn /\ r.slots = d.slots /\ r.costs = d.costs
        /\ r.locks = d.locks /\ r.grp = d.grp
    BY <1>1, SavedTxnLock
  <1>6. /\ s \in Books /\ s.txn = b.txn /\ s.slots = d.slots /\ s.costs = d.costs
        /\ s.locks = d.locks /\ s.grp = d.grp
    BY <1>1, <1>5, SavedTxn
  <1>7. /\ q \in Books /\ q.txn = s.txn /\ q.slots = s.slots /\ q.costs = s.costs
        /\ \A g \in Keys : q.grp[g] = IF g \in ToSet(cg.groups) THEN b.grp[g] ELSE s.grp[g]
    <2>1. OnlyClosed(s, b, cg)
      BY <1>6 DEF OnlyClosed
    <2> QED
      BY <1>1, <1>6, <2>1, QuantitySaved
  <1>8. locks \in Seq(Keys)
    BY <1>2, BookParts
  <1>9. /\ e \in Books /\ e.txn = q.txn /\ e.slots = q.slots /\ e.costs = q.costs
        /\ e.locks = locks /\ e.grp = q.grp
    BY <1>4, <1>7, <1>8, LocksWritten
  <1> QED
    BY <1>2, <1>6, <1>7, <1>9

(* The trade that ends a close order.                                      *)
LEMMA LastPartOf ==
    ASSUME NEW S, NEW o \in S, ~o.news, OrderRight(o), o \in Orders, NEW cg, Parts(S, cg),
           cg.frag # "RCV_ONE"
    PROVE  S = {o} /\ cg.filled \in 1..cg.quantity
  <1>1. CASE OneNew(S, cg)
    BY <1>1 DEF OneNew
  <1>2. CASE BothNew(S, cg)
    BY <1>2 DEF BothNew
  <1>3. CASE OneHeard(S, cg)
    <2>1. S = {o} /\ o.quantity = cg.quantity /\ cg.filled = o.result
      BY <1>3 DEF OneHeard
    <2>2. o.result > 0 /\ o.result \in -1..o.quantity /\ o.quantity \in Nat
      BY DEF OrderRight, Orders
    <2> QED
      BY <2>1, <2>2
  <1>4. CASE SecondHeard(S, cg)
    BY <1>4 DEF SecondHeard
  <1> QED
    BY <1>1, <1>2, <1>3, <1>4 DEF Parts

(* post_close_after_trade and post_unlock_after_trade of the last part.    *)
LEMMA LastPartKeeps ==
    ASSUME Core, Calm', NEW o \in flight, OnTrade(o), o.kind \in Closing,
           cgs[o.key].frag # "RCV_ONE"
    PROVE  Core'
  <1> DEFINE S == SellsOf(flight)
             T == SellsOf(flight')
             L == Listed(book.costs, book.locks)
  <1>1. /\ state = "up" /\ pc' = pc /\ cfg' = cfg /\ state' = state
        /\ ~o.news /\ o.result > 0 /\ OrderRight(o) /\ ~Unknown(o)
        /\ flight' = flight \ {o} /\ flight' \in SUBSET Orders /\ IsFiniteSet(flight')
        /\ OrdersRight(flight')
    BY TradeComes DEF TradeFails
  <1>2. PICK k, cg : k = o.key /\ cg = cgs[o.key]
    OBVIOUS
  <1>3. /\ o \in S /\ k \in CloseKeys /\ o \in Orders
        /\ CloseNoted(k, S, pc, cgs, book.costs, book.locks, book.grp, book.txn.closing)
        /\ Marking(pc) = {} /\ db.txn = book.txn /\ cg \in Closes
        /\ o.kind = ClosingKind(cg.type)
        /\ \A g \in Needed(flight, pc, L) : db.grp[g] = book.grp[g]
    BY <1>1, <1>2, SellNoted
  <1>4. /\ book \in Books /\ db \in Books /\ pc \in Pcs
        /\ BookCore(flight, pc, cgs, book) /\ RedisRight(flight, pc, book, db)
        /\ cgs \in [CloseKeys -> Closes \cup {NoGroup}]
    BY CoreParts
  <1>5. OpensOf(flight') = OpensOf(flight)
    BY <1>1 DEF OpensOf, Opening, Closing
  <1>6. Marked(S, k, cg, book.costs, book.locks, book.grp) /\ Parts(S, cg)
    BY <1>2, <1>3 DEF CloseNoted
  <1>7. T = {}
    <2>1. S = {o}
      BY <1>1, <1>2, <1>3, <1>6, LastPartOf
    <2> QED
      BY <1>1, <2>1 DEF SellsOf
  <1>8. pc.kind \in Closing => pc.kind = "close" /\ pc.at = "added"
    BY <1>3 DEF CloseNoted
  <1>9. /\ ListsRight(book.costs, book.locks) /\ \A g \in L : Lively(book.grp[g])
        /\ IsInjective(cg.groups) /\ ToSet(cg.groups) \subseteq L /\ L \subseteq Keys
    BY <1>4, <1>6, ListedKeys DEF BookCore, LotsRight, Marked, ListOf, Listed
  <1>10. PICK r, gone : r = BookClosed(book, cg) /\ gone = Emptied(r, cg)
    OBVIOUS
  <1>11. /\ r \in Books /\ r.txn = book.txn /\ r.slots = book.slots /\ r.costs = book.costs
         /\ r.locks = book.locks
         /\ \E n \in [ToSet(cg.groups) -> Nat] : ClosedGroups(book, cg, n, gone, r.grp)
    BY <1>3, <1>4, <1>9, <1>10, BookIsClosed
  <1>b. OnlyBooked(book, cg, r, gone) /\ IsInjective(book.costs) /\ IsInjective(book.locks)
    BY <1>9, <1>10, <1>11 DEF ListsRight, OnlyBooked
  <1>12. PICK n \in [ToSet(cg.groups) -> Nat] : ClosedGroups(book, cg, n, gone, r.grp)
    BY <1>11
  <1>13. PICK kept : kept = Kept(cgs, flight')
    OBVIOUS
  <1>14. \A l \in CloseKeys : kept[l] = NoGroup
    BY <1>4, <1>7, <1>13, KeptNone
  <1>15. OnlyClosed(db, r, cg)
    <2>1. \A g \in ToSet(cg.groups) : db.grp[g] = book.grp[g] /\ book.grp[g] \in Groups
      BY <1>3, <1>9 DEF Needed, Lively
    <2> QED
      BY <1>12, <2>1 DEF ClosedGroups, OnlyClosed
  <1>16. db.costs = book.costs /\ db.locks = book.locks /\ SlotsSaved(pc, book.slots, db.slots)
    BY <1>4 DEF RedisRight
  <1>17. gone \subseteq ToSet(cg.groups)
    BY <1>12 DEF ClosedGroups
  <1>18. ASSUME NEW c, NEW e, Handled(c, e, cgs), c.grp = r.grp,
                EndedBooks(pc, book, db, cg, gone, c, e)
         PROVE  Core'
    <2>1. BookCore(flight', pc, kept, c) /\ RedisRight(flight', pc, c, e)
      BY <1>1, <1>3, <1>4, <1>5, <1>6, <1>7, <1>8, <1>12, <1>14, <1>18, CloseEnded
    <2> QED
      BY <1>1, <1>4, <1>13, <1>18, <2>1, CoreParts, HandlerKeeps DEF EndedBooks
  <1>19. CASE o.kind = "close"
    <2>1. PICK c, e : c = ClosedBookOf(book, cg) /\ e = ClosedSave(db, c, cg)
      OBVIOUS
    <2>2. Handled(c, e, cgs)
      <3>1. PostCloseAfterTrade(o)
        BY <1>19, TradeComes
      <3>2. c = ClosedBook(o)
        BY <1>2, <2>1 DEF ClosedBook, ClosedBookOf
      <3> QED
        BY <1>2, <2>1, <3>1, <3>2 DEF PostCloseAfterTrade, BookClose, ClosedSave
    <2>3. cg.type = "NORMAL"
      BY <1>3, <1>19 DEF ClosingKind
    <2>4. gone \subseteq ToSet(book.costs)
      BY <1>6, <1>17, <2>3 DEF Marked, ListOf
    <2>5. /\ c \in Books /\ c.txn = TxnClosed(book.txn, cg.filled) /\ c.txn \in Txns
          /\ c.slots = ResetTxnSlots(book.slots, cg.filled)
          /\ IsInjective(c.costs) /\ ToSet(c.costs) = ToSet(book.costs) \ gone
          /\ c.locks = book.locks /\ c.grp = r.grp
      BY <1>3, <1>4, <1>b, <2>1, ClosedBookIs
    <2>6. /\ c.txn.closing = 0 /\ c.txn.opening = book.txn.opening
          /\ c.txn.lock = book.txn.lock /\ c.txn.lockable = book.txn.lockable
      BY <1>4, <2>5, BookParts DEF TxnClosed, Txns
    <2>7. /\ e \in Books /\ e.txn = c.txn /\ e.slots = c.slots /\ e.costs = c.costs
          /\ e.locks = db.locks
          /\ \A g \in Keys : e.grp[g] = IF g \in ToSet(cg.groups) THEN c.grp[g] ELSE db.grp[g]
      <3>1. OnlyClosed(db, c, cg)
        BY <1>15, <2>1, <2>5, <2>6 DEF OnlyClosed
      <3>2. db.txn.lock = book.txn.lock /\ db.txn.lockable = book.txn.lockable
            /\ db.txn.open = book.txn.open
        BY <1>3
      <3> QED
        BY <1>4, <2>1, <2>5, <2>6, <3>1, <3>2, ClosedSaved
    <2>8. Listed(c.costs, c.locks) = L \ gone /\ ListsRight(c.costs, c.locks)
      BY <1>9, <2>4, <2>5 DEF Listed, ListsRight
    <2>9. SlotsSaved(pc, c.slots, e.slots)
      <3>1. c.slots \in Seq(Slots)
        BY <2>5, BookParts
      <3>2. PICK s : s = c.slots
        OBVIOUS
      <3>3. Len(s) <= Len(s) /\ s = SubSeq(s, 1, Len(s))
        BY <3>1, <3>2
      <3> QED
        BY <2>7, <3>2, <3>3 DEF SlotsSaved
    <2>10. EndedBooks(pc, book, db, cg, gone, c, e)
      BY <1>16, <2>5, <2>6, <2>7, <2>8, <2>9 DEF EndedBooks
    <2> QED
      BY <1>18, <2>2, <2>5, <2>10
  <1>20. CASE o.kind = "unlock"
    <2>1. PICK status : status = IF book.txn.lock - cg.filled = 0 THEN "RUNNING" ELSE book.txn.status
      OBVIOUS
    <2>2. PICK c, e : c = UnlockedBookOf(book, cg, status) /\ e = UnlockedSave(db, c, cg)
      OBVIOUS
    <2>3. Handled(c, e, cgs)
      <3>1. PostUnlockAfterTrade(o)
        BY <1>20, TradeComes
      <3>2. c = Unlocked(o)
        BY <1>2, <1>4, <1>10, <1>11, <2>1, <2>2 DEF Unlocked, UnlockedBookOf
      <3> QED
        BY <1>2, <2>2, <3>1, <3>2 DEF PostUnlockAfterTrade, UnlockedSave
    <2>4. cg.type = "LOCK"
      BY <1>3, <1>20 DEF ClosingKind, Closes
    <2>5. gone \subseteq ToSet(book.locks)
      BY <1>6, <1>17, <2>4 DEF Marked, ListOf
    <2>6. status \in Status
      BY <1>4, <2>1, BookParts DEF Status
    <2>7. /\ c \in Books /\ c.txn = TxnUnlocked(book.txn, cg.filled, status) /\ c.txn \in Txns
          /\ c.slots = book.slots
          /\ IsInjective(c.locks) /\ ToSet(c.locks) = ToSet(book.locks) \ gone
          /\ c.costs = book.costs /\ c.grp = r.grp
      BY <1>3, <1>4, <1>b, <2>2, <2>6, UnlockedBookIs
    <2>8. /\ c.txn.closing = 0 /\ c.txn.opening = book.txn.opening /\ c.txn.open = book.txn.open
      BY <1>4, <2>7, BookParts DEF TxnUnlocked, Txns
    <2>9. /\ e \in Books /\ e.txn = c.txn /\ e.slots = db.slots /\ e.costs = db.costs
          /\ e.locks = c.locks
          /\ \A g \in Keys : e.grp[g] = IF g \in ToSet(cg.groups) THEN c.grp[g] ELSE db.grp[g]
      <3>1. OnlyClosed(db, c, cg)
        BY <1>15, <2>2, <2>7, <2>8 DEF OnlyClosed
      <3>2. db.txn.lock = book.txn.lock /\ db.txn.lockable = book.txn.lockable
            /\ db.txn.open = book.txn.open
        BY <1>3
      <3> QED
        BY <1>4, <2>2, <2>7, <2>8, <3>1, <3>2, UnlockedSaved
    <2>10. Listed(c.costs, c.locks) = L \ gone /\ ListsRight(c.costs, c.locks)
      BY <1>9, <2>5, <2>7 DEF Listed, ListsRight
    <2>11. EndedBooks(pc, book, db, cg, gone, c, e)
      BY <1>16, <2>7, <2>8, <2>9, <2>10 DEF EndedBooks
    <2> QED
      BY <1>18, <2>3, <2>7, <2>11
  <1> QED
    BY <1>19, <1>20 DEF Closing

(* on_trade.                                                               *)
LEMMA OnTradeKeeps ==
    ASSUME Core, Calm', NEW o \in flight, OnTrade(o)
    PROVE  Core'
  <1>1. o.kind \in Opening \cup Closing
    BY TradeComes DEF Orders
  <1>2. CASE o.kind = "open"
    BY <1>2, PostOpenAfterTradeKeeps
  <1>3. CASE o.kind = "lock"
    BY <1>3, PostLockAfterTradeKeeps
  <1>4. CASE o.kind \in Closing
    BY <1>4, FirstPartKeeps, LastPartKeeps
  <1> QED
    BY <1>1, <1>2, <1>3, <1>4 DEF Opening

-----------------------------------------------------------------------------
(* Closing.                                                                *)

(* With nothing counted as being closed, no close order is under way.      *)
LEMMA NoneUnderWay ==
    ASSUME Core, pc = Idle, book.txn.closing = 0
    PROVE  /\ NoClosing(SellsOf(flight), Idle, cgs, book.costs, book.locks, book.grp, 0)
           /\ SellsOf(flight) = {} /\ \A k \in CloseKeys : cgs[k] = NoGroup
           /\ \A g \in Listed(book.costs, book.locks) : book.grp[g].closing = 0
  <1> DEFINE N(p) == NoClosing(SellsOf(flight), p, cgs, book.costs, book.locks, book.grp, 0)
  <1>1. CloseRight(SellsOf(flight), Idle, cgs, book.costs, book.locks, book.grp, 0)
    BY DEF Core, BookCore
  <1>2. Idle.kind \notin Closing
    BY DEF Idle, Closing
  <1>3. ASSUME NEW k \in CloseKeys,
               CloseNoted(k, SellsOf(flight), Idle, cgs, book.costs, book.locks, book.grp, 0)
        PROVE  FALSE
    <2>1. cgs[k].quantity > 0 /\ cgs[k].quantity = 0
      BY <1>2, <1>3 DEF CloseNoted, Marked
    <2> QED
      BY <2>1
  <1>4. N(Idle)
    BY <1>1, <1>2, <1>3 DEF CloseRight, CloseSent
  <1> QED
    BY <1>4 DEF NoClosing

(* c is b with lots of the groups of cg, and of no other, being closed.    *)
MarkedAs(b, cg, c) ==
    /\ cg \in Closes /\ cg.filled = 0 /\ cg.frag = "NO" /\ IsInjective(cg.groups)
    /\ ToSet(cg.groups) \subseteq ToSet(ListOf(cg.type, b.costs, b.locks))
    /\ ToSet(cg.groups) \subseteq Keys
    /\ c \in Books /\ c.txn = b.txn /\ c.slots = b.slots /\ c.costs = b.costs /\ c.locks = b.locks
    /\ \A g \in Keys \ ToSet(cg.groups) : c.grp[g] = b.grp[g]
    /\ \A g \in ToSet(cg.groups) : /\ c.grp[g] = WithClosing(b.grp[g], c.grp[g].closing)
                                   /\ c.grp[g].closing \in 1..Remain(b.grp[g])

(* The groups a close order may take from: nothing of them is being closed.*)
LEMMA FreeToClose ==
    ASSUME NEW b \in Books, ListsRight(b.costs, b.locks), LotsRight(Listed(b.costs, b.locks), b.grp),
           \A g \in Listed(b.costs, b.locks) : b.grp[g].closing = 0,
           NEW type \in {"NORMAL", "LOCK"}, NEW n \in 0..Len(ListOf(type, b.costs, b.locks)),
           NEW list, list = SubSeq(ListOf(type, b.costs, b.locks), 1, n)
    PROVE  Scannable(b, list) /\ ToSet(list) \subseteq ToSet(ListOf(type, b.costs, b.locks))
  <1>1. PICK whole : whole = ListOf(type, b.costs, b.locks)
    OBVIOUS
  <1>2. /\ whole \in Seq(Keys) /\ IsInjective(whole)
        /\ ToSet(whole) \subseteq Listed(b.costs, b.locks)
    BY <1>1, BookParts DEF ListOf, Listed, ListsRight
  <1>3. list \in Seq(Keys) /\ Len(list) = n /\ \A i \in 1..n : list[i] = whole[i]
    <2>1. list = SubSeq(whole, 1, n) /\ n \in 0..Len(whole)
      BY <1>1
    <2>2. \A i \in 1..n : whole[i] \in Keys
      BY <1>2, <2>1
    <2> QED
      BY <1>2, <2>1, <2>2, SubSeqProperties
  <1>4. n \in 0..Len(whole) /\ Len(whole) \in Nat /\ DOMAIN whole = 1..Len(whole) /\ DOMAIN list = 1..n
    BY <1>1, <1>2, <1>3
  <1>5. \A i \in 1..n : i \in DOMAIN whole /\ list[i] = whole[i] /\ list[i] \in ToSet(whole)
    BY <1>3, <1>4 DEF ToSet
  <1>6. IsInjective(list)
    BY <1>2, <1>4, <1>5 DEF IsInjective
  <1>7. ToSet(list) \subseteq ToSet(whole)
    BY <1>4, <1>5 DEF ToSet
  <1>8. \A i \in 1..Len(list) : /\ b.grp[list[i]] \in Groups /\ Remain(b.grp[list[i]]) > 0
                                /\ b.grp[list[i]].closing = 0
    BY <1>2, <1>3, <1>5 DEF LotsRight, Lively
  <1> QED
    BY <1>1, <1>3, <1>6, <1>7, <1>8 DEF Scannable

(* A scan of the book gives a close group and the book that is marked.     *)
LEMMA MarkedBook ==
    ASSUME NEW b \in Books, NEW type \in {"NORMAL", "LOCK"}, NEW list, Scannable(b, list),
           ToSet(list) \subseteq ToSet(ListOf(type, b.costs, b.locks)), NEW volume \in Nat \ {0},
           NEW cg, cg = CloseGroup(type, b, list, volume), NEW c, c = MarkClosing(b, list, volume)
    PROVE  MarkedAs(b, cg, c)
  <1>1. "grp" \in DOMAIN b /\ b.grp \in [Keys -> Groups \cup {NoGroup}] /\ b.grp = b.grp
    BY BookParts
  <1>2. PICK marked : marked = c.grp
    OBVIOUS
  <1>3. /\ cg.groups \in Seq(Keys) /\ IsInjective(cg.groups) /\ ToSet(cg.groups) \subseteq ToSet(list)
        /\ cg.quantity \in Nat
        /\ marked \in [Keys -> Groups \cup {NoGroup}]
        /\ \A g \in Keys \ ToSet(cg.groups) : marked[g] = b.grp[g]
        /\ \A g \in ToSet(cg.groups) :
              /\ marked[g] = WithClosing(b.grp[g], marked[g].closing)
              /\ marked[g].closing \in 1..Remain(b.grp[g])
    <2>1. marked = MarkClosing(b, list, volume).grp
      BY <1>2
    <2> QED
      BY <1>1, <2>1, ScanMarks
  <1>4. c = [b EXCEPT !.grp = marked]
    <2>1. \E f : c = [b EXCEPT !.grp = f]
      BY DEF MarkClosing
    <2>2. PICK f : c = [b EXCEPT !.grp = f]
      BY <2>1
    <2> QED
      BY <1>1, <1>2, <2>2
  <1>5. c \in Books /\ c.txn = b.txn /\ c.slots = b.slots /\ c.costs = b.costs /\ c.locks = b.locks
    <2>1. LET x == [b EXCEPT !.grp = marked]
          IN  x \in Books /\ x.txn = b.txn /\ x.slots = b.slots /\ x.costs = b.costs
              /\ x.locks = b.locks
      BY ONLY <1>3, b \in Books, GroupsWritten
    <2> QED
      BY ONLY <1>4, <2>1
  <1>6. cg \in Closes /\ cg.type = type /\ cg.filled = 0 /\ cg.frag = "NO"
    <2>1. cg.type = type /\ cg.filled = 0 /\ cg.frag = "NO"
          /\ cg = [type |-> cg.type, quantity |-> cg.quantity, filled |-> cg.filled,
                   frag |-> cg.frag, groups |-> cg.groups]
      BY DEF CloseGroup
    <2> QED
      BY <1>3, <2>1 DEF Closes, Frags
  <1>7. ToSet(cg.groups) \subseteq Keys
    BY <1>3 DEF ToSet
  <1> QED
    BY <1>2, <1>3, <1>5, <1>6, <1>7 DEF MarkedAs

(* What is marked can be unmarked.                                         *)
LEMMA MarkedGroups ==
    ASSUME NEW b \in Books, NEW cg, NEW c, MarkedAs(b, cg, c),
           LotsRight(Listed(b.costs, b.locks), b.grp),
           \A g \in Listed(b.costs, b.locks) : b.grp[g].closing = 0
    PROVE  /\ ToSet(cg.groups) \subseteq Listed(b.costs, b.locks)
           /\ \A g \in ToSet(cg.groups) :
                 /\ b.grp[g] \in Groups /\ c.grp[g] \in Groups /\ Lively(c.grp[g])
                 /\ WithClosing(c.grp[g], 0) = b.grp[g] /\ SameOpened(b.grp[g], c.grp[g])
           /\ LotsRight(Listed(b.costs, b.locks), c.grp)
           /\ \A g \in Listed(b.costs, b.locks) \ ToSet(cg.groups) : c.grp[g].closing = 0
  <1>1. ToSet(cg.groups) \subseteq Listed(b.costs, b.locks)
    BY DEF MarkedAs, ListOf, Listed
  <1>2. ASSUME NEW g \in ToSet(cg.groups)
        PROVE  /\ b.grp[g] \in Groups /\ c.grp[g] \in Groups /\ Lively(c.grp[g])
               /\ WithClosing(c.grp[g], 0) = b.grp[g] /\ SameOpened(b.grp[g], c.grp[g])
    <2>1. PICK x, y, m : x = b.grp[g] /\ y = c.grp[g] /\ m = c.grp[g].closing
      OBVIOUS
    <2>2. Lively(x) /\ x.closing = 0 /\ y = WithClosing(x, m) /\ m \in 1..Remain(x)
      BY <1>1, <2>1 DEF LotsRight, MarkedAs
    <2>3. x \in Groups /\ Remain(x) \in Int
      BY <2>2 DEF Lively, Groups, Remain
    <2>4. m \in Nat /\ m <= Remain(x)
      BY <2>2, <2>3
    <2>5. /\ y \in Groups /\ y.filled = x.filled /\ y.close = x.close /\ y.closing = m
          /\ WithClosing(y, 0) = x /\ SameOpened(x, y)
      BY <2>2, <2>3, <2>4 DEF Groups, WithClosing, SameOpened
    <2>6. Lively(y)
      BY <2>2, <2>3, <2>4, <2>5 DEF Lively, Remain
    <2> QED
      BY <2>1, <2>3, <2>5, <2>6
  <1>3. \A g \in Listed(b.costs, b.locks) \ ToSet(cg.groups) : c.grp[g] = b.grp[g]
    BY ListedKeys DEF MarkedAs
  <1> QED
    BY <1>1, <1>2, <1>3 DEF LotsRight

(* The order of a close, or the two it is split into.                      *)
LEMMA SplitOrders ==
    ASSUME NEW kind \in Closing, NEW k \in CloseKeys, NEW n \in Nat \ {0},
           NEW orders \in Split(kind, k, n)
    PROVE  /\ orders \subseteq Orders
           /\ \A o \in orders : OrderRight(o) /\ o.kind = kind /\ o.key = k /\ o.news
           /\ \A o, p \in orders : o.part = p.part => o = p
           /\ \/ \E o \in Orders : orders = {o} /\ o.quantity = n
              \/ \E o, p \in Orders : orders = {o, p} /\ o # p /\ o.quantity + p.quantity = n
  <1>1. ASSUME NEW m \in 1..n, NEW i \in {1, 2}
        PROVE  /\ Order(kind, k, i, m) \in Orders /\ OrderRight(Order(kind, k, i, m))
               /\ Order(kind, k, i, m).kind = kind /\ Order(kind, k, i, m).key = k
               /\ Order(kind, k, i, m).news
               /\ Order(kind, k, i, m).quantity = m /\ Order(kind, k, i, m).part = i
    BY DEF Order, Orders, OrderRight, Opening, Closing
  <1>2. CASE orders = {Order(kind, k, 1, n)}
    <2>1. n \in 1..n
      OBVIOUS
    <2> QED
      BY <1>1, <1>2, <2>1
  <1>3. ASSUME NEW m \in 1..(n - 1), orders = {Order(kind, k, 1, m), Order(kind, k, 2, n - m)}
        PROVE  /\ orders \subseteq Orders
               /\ \A o \in orders : OrderRight(o) /\ o.kind = kind /\ o.key = k /\ o.news
               /\ \A o, p \in orders : o.part = p.part => o = p
               /\ \E o, p \in Orders : orders = {o, p} /\ o # p /\ o.quantity + p.quantity = n
    <2>1. PICK x, y : /\ x = Order(kind, k, 1, m) /\ y = Order(kind, k, 2, n - m) /\ orders = {x, y}
                      /\ m + (n - m) = n /\ m \in 1..n /\ n - m \in 1..n
      BY <1>3
    <2>2. /\ x \in Orders /\ OrderRight(x) /\ x.kind = kind /\ x.key = k /\ x.news
          /\ x.quantity = m /\ x.part = 1
      BY <1>1, <2>1
    <2>3. /\ y \in Orders /\ OrderRight(y) /\ y.kind = kind /\ y.key = k /\ y.news
          /\ y.quantity = n - m /\ y.part = 2
      BY <1>1, <2>1
    <2>4. x # y /\ x.quantity + y.quantity = n
      BY <2>1, <2>2, <2>3
    <2> QED
      BY <2>1, <2>2, <2>3, <2>4
  <1>4. \/ orders = {Order(kind, k, 1, n)}
        \/ \E m \in 1..(n - 1) : orders = {Order(kind, k, 1, m), Order(kind, k, 2, n - m)}
    BY DEF Split
  <1> QED
    BY <1>2, <1>3, <1>4

(* The counter of what is being closed, and nothing else.                  *)
TxnClosing(txn, n) == [txn EXCEPT !.closing = n]

(* The counter of what is being closed, written.                           *)
LEMMA ClosingCounted ==
    ASSUME NEW txn \in Txns, NEW n \in Nat
    PROVE  LET t == TxnClosing(txn, n)
           IN  /\ t \in Txns /\ t.closing = n /\ t.opening = txn.opening /\ t.open = txn.open
               /\ t.lock = txn.lock /\ t.lockable = txn.lockable /\ t.status = txn.status
               /\ txn.closing = 0 => [t EXCEPT !.closing = 0] = txn
  BY DEF Txns, TxnClosing

(* b with lots of the groups of cg marked, and counted if they are the     *)
(* ones of an unlock.                                                      *)
MarkedBy(b, cg, kind, c) ==
    \E m : /\ MarkedAs(b, cg, m) /\ kind = ClosingKind(cg.type)
           /\ c \in Books /\ c.slots = b.slots /\ c.costs = b.costs /\ c.locks = b.locks
           /\ c.grp = m.grp
           /\ c.txn = IF kind = "close" THEN b.txn ELSE TxnClosing(b.txn, cg.quantity)

(* The orders of a close are sent.                                         *)
LEMMA SellSent ==
    ASSUME Core, state = "up", pc = Idle, book.txn.closing = 0, NEW cg, cg.quantity > 0,
           NEW kind \in Closing, MarkedBy(book, cg, kind, book'), SendClose(kind, cg),
           db' = db, cgs' = cgs, cfg' = cfg, state' = state
    PROVE  Core'
  <1>1. PICK c : /\ MarkedAs(book, cg, c) /\ kind = ClosingKind(cg.type)
                 /\ book' \in Books /\ book'.slots = book.slots /\ book'.costs = book.costs
                 /\ book'.locks = book.locks /\ book'.grp = c.grp
                 /\ book'.txn = IF kind = "close" THEN book.txn ELSE TxnClosing(book.txn, cg.quantity)
    BY DEF MarkedBy
  <1>2. PICK k, orders :
            /\ k \in FreeCloseKeys /\ orders \in Split(kind, k, cg.quantity)
            /\ flight' = flight \cup orders
            /\ pc' = [at |-> "sent", kind |-> kind, key |-> k, cg |-> cg]
    BY DEF SendClose
  <1>3. k \in CloseKeys /\ cg \in Closes /\ cg.quantity \in Nat \ {0} /\ cg.filled = 0 /\ cg.frag = "NO"
    BY <1>1, <1>2 DEF FreeCloseKeys, MarkedAs, Closes
  <1>4. /\ orders \subseteq Orders
        /\ \A o \in orders : OrderRight(o) /\ o.kind = kind /\ o.key = k /\ o.news
        /\ \A o, p \in orders : o.part = p.part => o = p
        /\ \/ \E o \in Orders : orders = {o} /\ o.quantity = cg.quantity
           \/ \E o, p \in Orders : orders = {o, p} /\ o # p /\ o.quantity + p.quantity = cg.quantity
    BY <1>2, <1>3, SplitOrders
  <1>5. /\ flight \in SUBSET Orders /\ IsFiniteSet(flight) /\ \A o \in flight : o.kind \notin Closing
        /\ \A l \in CloseKeys : cgs[l] = NoGroup
        /\ \A g \in Listed(book.costs, book.locks) : book.grp[g].closing = 0
    BY NoneUnderWay, CoreParts DEF SellsOf
  <1>6. flight' \in SUBSET Orders /\ IsFiniteSet(flight')
    <2>1. IsFiniteSet(orders)
      <3>1. CASE \E o \in Orders : orders = {o}
        BY <3>1, FS_Singleton
      <3>2. CASE \E o, p \in Orders : orders = {o, p}
        <4>1. PICK o \in Orders, p \in Orders : orders = {o, p}
          BY <3>2
        <4>2. orders = {o} \cup {p}
          BY <4>1
        <4> QED
          BY <4>2, FS_Singleton, FS_AddElement
      <3> QED
        BY <1>4, <3>1, <3>2
    <2> QED
      BY <1>2, <1>4, <1>5, <2>1, FS_Union
  <1>7. /\ SellsOf(flight') = orders /\ OpensOf(flight') = OpensOf(flight)
        /\ FreshOf(flight') = FreshOf(flight)
    <2>1. \A o \in orders : o.kind \in Closing /\ o.kind \notin Opening
      BY <1>4 DEF Closing, Opening
    <2> QED
      BY <1>2, <1>5, <2>1 DEF SellsOf, OpensOf, FreshOf
  <1>8. OrdersRight(flight')
    <2>1. OrdersRight(flight)
      BY DEF Core, BookCore
    <2>2. \A o \in flight' : OrderRight(o)
      BY <1>2, <1>4, <2>1 DEF OrdersRight
    <2>3. \A o, p \in flight' : o.kind \in Opening /\ p.kind \in Opening /\ o.key = p.key => o = p
      BY <1>7, <2>1 DEF OrdersRight, OpensOf
    <2>4. ASSUME NEW o \in flight', NEW p \in flight', o.kind = p.kind, o.key = p.key, o.part = p.part
          PROVE  o = p
      <3>1. CASE o \in orders /\ p \in orders
        BY <1>4, <2>4, <3>1
      <3>2. CASE o \in flight /\ p \in flight
        BY <2>1, <2>4, <3>2 DEF OrdersRight
      <3>3. ~(o \in orders /\ p \in flight) /\ ~(o \in flight /\ p \in orders)
        BY <1>4, <1>5, <2>4
      <3> QED
        BY <1>2, <3>1, <3>2, <3>3
    <2> QED
      BY <2>2, <2>3, <2>4 DEF OrdersRight
  <1> DEFINE L == Listed(book.costs, book.locks)
  <1>9. /\ ToSet(cg.groups) \subseteq L
        /\ \A g \in ToSet(cg.groups) :
              /\ book.grp[g] \in Groups /\ c.grp[g] \in Groups /\ Lively(c.grp[g])
              /\ WithClosing(c.grp[g], 0) = book.grp[g] /\ SameOpened(book.grp[g], c.grp[g])
        /\ LotsRight(L, c.grp)
        /\ \A g \in L \ ToSet(cg.groups) : c.grp[g].closing = 0
        /\ L \subseteq Keys
    <2>1. book \in Books /\ LotsRight(L, book.grp)
      BY CoreParts DEF Core, BookCore
    <2> QED
      BY <1>1, <1>5, <2>1, MarkedGroups, ListedKeys
  <1>10. \A g \in Keys \ ToSet(cg.groups) : c.grp[g] = book.grp[g]
    BY <1>1 DEF MarkedAs
  <1>11. /\ book'.txn.opening = book.txn.opening
         /\ book'.txn.closing = IF kind = "close" THEN 0 ELSE cg.quantity
         /\ book'.txn = book.txn \/ (kind = "unlock" /\ book.txn = [book'.txn EXCEPT !.closing = 0])
    <2>1. book.txn \in Txns
      BY CoreParts, BookParts
    <2>2. PICK t : t = TxnClosing(book.txn, cg.quantity)
      OBVIOUS
    <2>3. t.opening = book.txn.opening /\ t.closing = cg.quantity /\ [t EXCEPT !.closing = 0] = book.txn
      BY <1>3, <2>1, <2>2, ClosingCounted
    <2> QED
      BY <1>1, <2>2, <2>3 DEF Closing
  <1>12. /\ pc'.at = "sent" /\ pc'.kind = kind /\ pc'.key = k /\ pc'.cg = cg
         /\ pc.kind \notin Opening /\ pc'.kind \notin Opening /\ pc.kind \notin Closing
    BY <1>2 DEF Idle, Opening, Closing
  <1> HIDE DEF L
  <1>13. Types'
    <2>1. pc' \in Pcs
      BY <1>2, <1>3 DEF Pcs, ClosePcs
    <2> QED
      BY <1>1, <1>6, <2>1, CoreParts DEF Types
  <1>14. FreshRight(flight', pc', book'.txn.opening)
    <2>1. FreshRight(flight, pc, book.txn.opening)
      BY DEF Core, BookCore
    <2> QED
      BY <1>7, <1>11, <1>12, <2>1 DEF FreshRight
  <1>15. \A x : ~Sent(pc, x) /\ ~Sent(pc', x)
    BY <1>12 DEF Sent
  <1>16. \A o \in OpensOf(flight) : o.key \in Keys /\ o.key \notin ToSet(cg.groups)
    <2>1. GroupsRight(flight, pc, L, book.grp) /\ OrdersRight(flight)
      BY DEF Core, BookCore, L
    <2> QED
      BY <1>9, <2>1 DEF GroupsRight, OrdersRight, OrderRight, OpensOf
  <1>17. GroupsRight(flight', pc', L, c.grp)
    <2>1. GroupsRight(flight, pc, L, book.grp)
      BY DEF Core, BookCore, L
    <2>2. \A o \in OpensOf(flight) : c.grp[o.key] = book.grp[o.key]
      BY <1>10, <1>16
    <2> QED
      BY <1>7, <1>15, <2>1, <2>2 DEF GroupsRight
  <1>18. CloseRight(SellsOf(flight'), pc', cgs', book.costs, book.locks, c.grp, book'.txn.closing)
    <2>1. Marked(orders, k, cg, book.costs, book.locks, c.grp)
      <3>1. \A o \in orders : o.kind = ClosingKind(cg.type) /\ o.key = k
        BY <1>1, <1>4
      <3>2. IsInjective(cg.groups) /\ ToSet(cg.groups) \subseteq ToSet(ListOf(cg.type, book.costs, book.locks))
        BY <1>1 DEF MarkedAs
      <3> QED
        BY <1>9, <3>1, <3>2 DEF Marked, L
    <2>2. OneNew(orders, cg) \/ BothNew(orders, cg)
      <3>1. CASE \E o \in Orders : orders = {o} /\ o.quantity = cg.quantity
        <4>1. PICK o : orders = {o} /\ o.quantity = cg.quantity
          BY <3>1
        <4> QED
          BY <1>4, <4>1 DEF OneNew
      <3>2. CASE \E o, p \in Orders : orders = {o, p} /\ o # p /\ o.quantity + p.quantity = cg.quantity
        <4>1. PICK o, p : orders = {o, p} /\ o # p /\ o.quantity + p.quantity = cg.quantity
          BY <3>2
        <4> QED
          BY <1>4, <4>1 DEF BothNew
      <3> QED
        BY <1>4, <3>1, <3>2
    <2>3. CloseSent(orders, pc', cgs', book.costs, book.locks, c.grp, book'.txn.closing)
      BY <1>1, <1>3, <1>5, <1>11, <1>12, <2>1, <2>2 DEF CloseSent
    <2> QED
      BY <1>7, <2>3 DEF CloseRight
  <1>19. BookCore(flight', pc', cgs', book')
    <2>1. ListsRight(book.costs, book.locks)
      BY DEF Core, BookCore
    <2> QED
      BY <1>1, <1>8, <1>9, <1>14, <1>17, <1>18, <2>1 DEF BookCore, L
  <1>20. RedisRight(flight', pc', book', db')
    <2>1. db.txn = book.txn /\ db.costs = book.costs /\ db.locks = book.locks
      BY <1>12, SavedCounters DEF Closing
    <2>2. TxnSaved(pc', book'.txn, db.txn)
      BY <1>11, <1>12, <2>1 DEF TxnSaved
    <2>3. SlotsSaved(pc', book'.slots, db.slots)
      <3>1. SlotsSaved(pc, book.slots, db.slots)
        BY DEF Core, RedisRight
      <3> QED
        BY <1>1, <1>12, <3>1 DEF SlotsSaved, Opening
    <2>4. GroupsSaved(flight', pc', L, c.grp, db.grp)
      <3>1. GroupsSaved(flight, pc, L, book.grp, db.grp)
        BY DEF Core, RedisRight, L
      <3>2. Needed(flight', pc', L) = Needed(flight, pc, L) /\ Needed(flight, pc, L) \subseteq Keys
        BY <1>7, <1>9, <1>15, <1>16 DEF Needed, KeysOf
      <3>3. Marking(pc') = ToSet(cg.groups) /\ Marking(pc) = {}
        BY <1>12 DEF Marking
      <3>4. \A g \in Keys : Saved(pc', g, c.grp[g]) = Saved(pc, g, book.grp[g])
        BY <1>9, <1>10, <3>3 DEF Saved
      <3> QED
        BY <3>1, <3>2, <3>4 DEF GroupsSaved
    <2> QED
      BY <1>1, <2>1, <2>2, <2>3, <2>4 DEF RedisRight, L
  <1> QED
    BY <1>13, <1>19, <1>20 DEF Core

(* What is being closed of the groups of a close order is forgotten.       *)
LEMMA Unmarked ==
    ASSUME NEW b \in Books, NEW cg, \A g \in ToSet(cg.groups) : b.grp[g] \in Groups,
           NEW c, c = UnmarkClosing(b, cg)
    PROVE  /\ c \in Books /\ c.txn = b.txn /\ c.slots = b.slots /\ c.costs = b.costs
           /\ c.locks = b.locks
           /\ \A g \in Keys : c.grp[g] = IF g \in ToSet(cg.groups)
                                         THEN WithClosing(b.grp[g], 0) ELSE b.grp[g]
  <1> DEFINE grp == [g \in Keys |-> IF g \in ToSet(cg.groups)
                                    THEN [b.grp[g] EXCEPT !.closing = 0] ELSE b.grp[g]]
  <1>1. b.grp \in [Keys -> Groups \cup {NoGroup}] /\ c = [b EXCEPT !.grp = grp]
    BY BookParts DEF UnmarkClosing
  <1>2. \A g \in Keys : grp[g] = IF g \in ToSet(cg.groups) THEN WithClosing(b.grp[g], 0) ELSE b.grp[g]
    BY DEF WithClosing
  <1>3. \A g \in ToSet(cg.groups) : WithClosing(b.grp[g], 0) \in Groups
    BY ClosingCleared
  <1>4. grp = [g \in Keys |-> grp[g]]
    OBVIOUS
  <1> HIDE DEF grp
  <1>5. grp \in [Keys -> Groups \cup {NoGroup}]
    BY <1>1, <1>2, <1>3, <1>4
  <1>6. /\ c \in Books /\ c.txn = b.txn /\ c.slots = b.slots /\ c.costs = b.costs
        /\ c.locks = b.locks /\ c.grp = grp
    BY <1>1, <1>5, GroupsWritten
  <1> QED
    BY <1>2, <1>6

(* close whose orders are not sent: nothing is marked any more.            *)
LEMMA CloseNotSent ==
    ASSUME Core, pc = Idle, book.txn.closing = 0, NEW cg, NEW c, MarkedAs(book, cg, c),
           book' = UnmarkClosing(c, cg), UNCHANGED <<pc, flight, cgs, cfg, state, db>>
    PROVE  Core'
  <1>1. /\ book \in Books /\ LotsRight(Listed(book.costs, book.locks), book.grp)
        /\ \A g \in Listed(book.costs, book.locks) : book.grp[g].closing = 0
    BY NoneUnderWay, CoreParts DEF BookCore
  <1>2. /\ \A g \in ToSet(cg.groups) : c.grp[g] \in Groups /\ WithClosing(c.grp[g], 0) = book.grp[g]
        /\ c \in Books
    BY <1>1, MarkedGroups DEF MarkedAs
  <1>3. PICK b : b = book'
    OBVIOUS
  <1>4. /\ b \in Books /\ b.txn = c.txn /\ b.slots = c.slots /\ b.costs = c.costs
        /\ b.locks = c.locks
        /\ \A g \in Keys : b.grp[g] = IF g \in ToSet(cg.groups)
                                      THEN WithClosing(c.grp[g], 0) ELSE c.grp[g]
    BY <1>2, <1>3, Unmarked
  <1>5. \A g \in Keys : b.grp[g] = book.grp[g]
    BY <1>2, <1>4 DEF MarkedAs
  <1>6. b.grp = book.grp
    BY <1>1, <1>4, <1>5, BookParts
  <1>7. b.txn = book.txn /\ b.slots = book.slots /\ b.costs = book.costs /\ b.locks = book.locks
    BY <1>4 DEF MarkedAs
  <1>8. db.txn = book.txn /\ db \in Books
    BY SavedCounters, CoreParts DEF Idle
  <1> QED
    BY <1>3, <1>4, <1>6, <1>7, <1>8, CountersKeep

(* unlock whose orders are not sent: the lots stay marked and counted.     *)
LEMMA UnlockNotSent ==
    ASSUME Core, state = "up", pc = Idle, book.txn.closing = 0, NEW cg, cg.quantity > 0,
           MarkedBy(book, cg, "unlock", book'),
           db' = SaveQuantity(SaveTxnLock(db, book'), book', cg),
           UNCHANGED <<pc, flight, cgs, cfg, state>>
    PROVE  Core'
  <1> DEFINE L == Listed(book.costs, book.locks)
  <1>1. PICK c : /\ MarkedAs(book, cg, c)
                 /\ book' \in Books /\ book'.slots = book.slots /\ book'.costs = book.costs
                 /\ book'.locks = book.locks /\ book'.grp = c.grp
                 /\ book'.txn = TxnClosing(book.txn, cg.quantity)
    BY DEF MarkedBy
  <1>2. /\ book \in Books /\ db \in Books /\ LotsRight(L, book.grp) /\ L \subseteq Keys
        /\ \A g \in L : book.grp[g].closing = 0
        /\ SellsOf(flight) = {} /\ \A k \in CloseKeys : cgs[k] = NoGroup
    BY NoneUnderWay, CoreParts, ListedKeys DEF BookCore
  <1>3. /\ ToSet(cg.groups) \subseteq L
        /\ \A g \in ToSet(cg.groups) :
              /\ book.grp[g] \in Groups /\ c.grp[g] \in Groups /\ Lively(c.grp[g])
              /\ SameOpened(book.grp[g], c.grp[g])
        /\ LotsRight(L, c.grp)
    BY <1>1, <1>2, MarkedGroups
  <1>4. \A g \in Keys \ ToSet(cg.groups) : c.grp[g] = book.grp[g]
    BY <1>1 DEF MarkedAs
  <1>5. /\ book'.txn.opening = book.txn.opening /\ book'.txn.open = book.txn.open
        /\ book'.txn.closing = cg.quantity
    <2>1. book.txn \in Txns /\ cg.quantity \in Nat
      BY <1>1, <1>2, BookParts DEF MarkedAs, Closes
    <2>2. PICK t : t = TxnClosing(book.txn, cg.quantity)
      OBVIOUS
    <2>3. t.opening = book.txn.opening /\ t.open = book.txn.open /\ t.closing = cg.quantity
      BY <2>1, <2>2, ClosingCounted
    <2> QED
      BY <1>1, <2>2, <2>3
  <1>6. PICK b, e, f : b = book' /\ e = SaveTxnLock(db, b) /\ f = db' /\ f = SaveQuantity(e, b, cg)
    OBVIOUS
  <1>7. /\ e \in Books /\ e.txn = b.txn /\ e.slots = db.slots /\ e.costs = db.costs
        /\ e.locks = db.locks /\ e.grp = db.grp
    BY <1>1, <1>2, <1>5, <1>6, SavedCounters, SavedTxnLock
  <1>8. Needed(flight, pc, L) \subseteq Keys /\ L \subseteq Needed(flight, pc, L)
    BY <1>2, CoreParts DEF Needed, KeysOf, OpensOf, BookCore, OrdersRight, OrderRight
  <1>9. \A g \in Needed(flight, pc, L) : db.grp[g] = book.grp[g]
    <2>1. GroupsSaved(flight, pc, L, book.grp, db.grp)
      BY DEF Core, RedisRight
    <2>2. Marking(pc) = {}
      BY DEF Marking, Idle
    <2> QED
      BY <2>1, <2>2 DEF GroupsSaved, Saved
  <1>10. OnlyClosed(e, b, cg)
    BY <1>1, <1>3, <1>6, <1>7, <1>8, <1>9 DEF OnlyClosed
  <1>11. /\ f \in Books /\ f.txn = e.txn /\ f.slots = e.slots /\ f.costs = e.costs
         /\ f.locks = e.locks
         /\ \A g \in Keys : f.grp[g] = IF g \in ToSet(cg.groups) THEN b.grp[g] ELSE e.grp[g]
    BY <1>1, <1>6, <1>7, <1>10, QuantitySaved
  <1> HIDE DEF L
  <1>12. Types'
    BY <1>1, <1>6, <1>11, CoreParts DEF Types
  <1>13. GroupsRight(flight, pc, L, c.grp)
    <2>1. GroupsRight(flight, pc, L, book.grp) /\ OrdersRight(flight)
      BY DEF Core, BookCore, L
    <2>2. \A o \in OpensOf(flight) : c.grp[o.key] = book.grp[o.key]
      BY <1>3, <1>4, <2>1 DEF GroupsRight, OrdersRight, OrderRight, OpensOf
    <2> QED
      BY <2>1, <2>2 DEF GroupsRight
  <1>14. CloseRight(SellsOf(flight), pc, cgs, book.costs, book.locks, c.grp, cg.quantity)
    <2>1. pc.kind \notin Closing
      BY DEF Idle, Closing
    <2>2. NoClosing(SellsOf(flight), pc, cgs, book.costs, book.locks, c.grp, cg.quantity)
      BY <1>2, <2>1 DEF NoClosing
    <2> QED
      BY <2>2 DEF CloseRight
  <1>15. BookCore(flight', pc', cgs', book')
    BY <1>1, <1>3, <1>5, <1>13, <1>14 DEF BookCore, Core, L
  <1>16. RedisRight(flight', pc', book', db')
    <2>1. TxnSaved(pc', book'.txn, db'.txn)
      BY <1>6, <1>7, <1>11 DEF TxnSaved
    <2>2. SlotsSaved(pc', book'.slots, db'.slots)
      BY <1>1, <1>6, <1>7, <1>11 DEF SlotsSaved, Core, RedisRight
    <2>3. db'.costs = book'.costs /\ db'.locks = book'.locks
      BY <1>1, <1>6, <1>7, <1>11 DEF Core, RedisRight
    <2>4. GroupsSaved(flight', pc', L, c.grp, f.grp)
      <3>1. Marking(pc') = {}
        BY DEF Marking, Idle
      <3>2. \A g \in Needed(flight, pc, L) : f.grp[g] = c.grp[g]
        BY <1>1, <1>4, <1>6, <1>7, <1>8, <1>9, <1>11
      <3> QED
        BY <3>1, <3>2 DEF GroupsSaved, Saved
    <2> QED
      BY <1>1, <1>6, <2>1, <2>2, <2>3, <2>4 DEF RedisRight, L
  <1> QED
    BY <1>12, <1>15, <1>16 DEF Core

(* An order to close keeps the invariant, sent or not (close).             *)
LEMMA CloseKeeps ==
    ASSUME Core, Close
    PROVE  Core'
  <1> DEFINE L(good)    == SubSeq(book.costs, 1, good)
             C(good, v) == CloseGroup("NORMAL", book, L(good), v)
             M(good, v) == MarkClosing(book, L(good), v)
  <1>1. /\ state = "up" /\ pc = Idle /\ book.txn.closing = 0
        /\ UNCHANGED <<cfg, db, cgs, held, state, crashes>>
    BY DEF Close
  <1>2. PICK good \in Closeable, volume \in 1..MaxVolume :
            /\ C(good, volume).quantity > 0
            /\ \/ SendClose("close", C(good, volume)) /\ book' = M(good, volume)
               \/ /\ NothingSent("close", C(good, volume))
                  /\ book' = UnmarkClosing(M(good, volume), C(good, volume))
    BY DEF Close
  <1>3. PICK list, cg, c : list = L(good) /\ cg = C(good, volume) /\ c = M(good, volume)
    OBVIOUS
  <1>4. MarkedAs(book, cg, c) /\ cg.type = "NORMAL"
    <2>1. book.costs = ListOf("NORMAL", book.costs, book.locks) /\ volume \in Nat \ {0}
      BY GridAssumption DEF ListOf
    <2>2. good \in 0..Len(book.costs)
      <3>1. Len(book.costs) \in Nat
        BY CoreParts, BookParts
      <3> QED
        BY <3>1 DEF Closeable
    <2>3. PICK b, costs : b = book /\ costs = ListOf("NORMAL", b.costs, b.locks)
      OBVIOUS
    <2>4. /\ b \in Books /\ ListsRight(b.costs, b.locks)
          /\ LotsRight(Listed(b.costs, b.locks), b.grp)
          /\ \A g \in Listed(b.costs, b.locks) : b.grp[g].closing = 0
      BY <1>1, <2>3, CoreParts, NoneUnderWay DEF BookCore
    <2>5. good \in 0..Len(ListOf("NORMAL", b.costs, b.locks))
          /\ list = SubSeq(ListOf("NORMAL", b.costs, b.locks), 1, good)
      BY <1>3, <2>1, <2>2, <2>3
    <2>6. Scannable(b, list) /\ ToSet(list) \subseteq ToSet(ListOf("NORMAL", b.costs, b.locks))
      BY <2>4, <2>5, FreeToClose
    <2>7. cg = CloseGroup("NORMAL", b, list, volume) /\ c = MarkClosing(b, list, volume)
      BY <1>3, <2>3
    <2>8. MarkedAs(b, cg, c)
      BY <2>1, <2>4, <2>6, <2>7, MarkedBook
    <2>9. cg.type = "NORMAL"
      BY <2>7 DEF CloseGroup
    <2> QED
      BY <2>3, <2>8, <2>9
  <1> HIDE DEF L, C, M
  <1>5. CASE SendClose("close", cg) /\ book' = c
    <2>1. MarkedBy(book, cg, "close", book')
      BY <1>4, <1>5 DEF MarkedBy, MarkedAs, ClosingKind
    <2>2. "close" \in Closing
      BY DEF Closing
    <2> QED
      BY <1>1, <1>2, <1>3, <1>5, <2>1, <2>2, SellSent
  <1>6. CASE NothingSent("close", cg) /\ book' = UnmarkClosing(c, cg)
    <2>1. UNCHANGED <<pc, flight, cgs, cfg, state, db>>
      BY <1>1, <1>6 DEF NothingSent
    <2> QED
      BY <1>1, <1>4, <1>6, <2>1, CloseNotSent
  <1> QED
    BY <1>2, <1>3, <1>5, <1>6

(* An order to unlock keeps the invariant, sent or not (unlock).           *)
LEMMA UnlockKeeps ==
    ASSUME Core, Unlock
    PROVE  Core'
  <1> DEFINE C(v) == CloseGroup("LOCK", book, book.locks, v)
             M(v) == MarkClosing(book, book.locks, v)
  <1>1. /\ state = "up" /\ pc = Idle /\ book.txn.closing = 0
        /\ UNCHANGED <<cfg, cgs, held, state, crashes>>
    BY DEF Unlock
  <1>2. PICK volume \in 1..MaxVolume :
            /\ C(volume).quantity > 0
            /\ book' = [M(volume) EXCEPT !.txn.closing = C(volume).quantity]
            /\ \/ SendClose("unlock", C(volume)) /\ UNCHANGED db
               \/ /\ NothingSent("unlock", C(volume))
                  /\ db' = SaveQuantity(SaveTxnLock(db, book'), book', C(volume))
    BY DEF Unlock
  <1>3. PICK b, list, cg, c : /\ b = book /\ list = book.locks /\ cg = C(volume) /\ c = M(volume)
                              /\ cg = CloseGroup("LOCK", b, list, volume)
                              /\ c = MarkClosing(b, list, volume)
    OBVIOUS
  <1>4. MarkedAs(b, cg, c) /\ cg.type = "LOCK"
    <2>1. volume \in Nat \ {0}
      BY GridAssumption
    <2>2. list = ListOf("LOCK", b.costs, b.locks)
      BY <1>3 DEF ListOf
    <2>3. /\ b \in Books /\ ListsRight(b.costs, b.locks)
          /\ LotsRight(Listed(b.costs, b.locks), b.grp)
          /\ \A g \in Listed(b.costs, b.locks) : b.grp[g].closing = 0
      BY <1>1, <1>3, CoreParts, NoneUnderWay DEF BookCore
    <2>4. list \in Seq(Keys)
      BY <1>3, CoreParts, BookParts
    <2>5. Len(list) \in Nat /\ list = SubSeq(list, 1, Len(list))
      BY <2>4
    <2>6. Scannable(b, list) /\ ToSet(list) \subseteq ToSet(ListOf("LOCK", b.costs, b.locks))
      BY <2>2, <2>3, <2>5, FreeToClose
    <2>7. MarkedAs(b, cg, c)
      BY <1>3, <2>1, <2>3, <2>6, MarkedBook
    <2>8. cg.type = "LOCK"
      BY <1>3 DEF CloseGroup
    <2> QED
      BY <2>7, <2>8
  <1>5. MarkedBy(book, cg, "unlock", book')
    <2>1. PICK m, n : m = book' /\ n = cg.quantity
      OBVIOUS
    <2>2. c \in Books /\ c.txn \in Txns /\ n \in Nat
      BY <1>4, <2>1, BookParts DEF MarkedAs, Closes
    <2>3. m = [c EXCEPT !.txn.closing = n]
      BY <1>2, <1>3, <2>1
    <2>4. PICK t : t = TxnClosing(c.txn, n)
      OBVIOUS
    <2>5. t \in Txns
      BY <2>2, <2>4, ClosingCounted
    <2>6. m = [c EXCEPT !.txn = t]
      BY <2>2, <2>3, <2>4 DEF TxnClosing, Books
    <2>7. /\ m \in Books /\ m.txn = t /\ m.slots = c.slots /\ m.costs = c.costs
          /\ m.locks = c.locks /\ m.grp = c.grp
      BY <2>2, <2>5, <2>6, TxnWritten
    <2>8. MarkedAs(book, cg, c) /\ "unlock" = ClosingKind(cg.type)
      BY <1>3, <1>4 DEF ClosingKind
    <2> QED
      BY <2>1, <2>4, <2>7, <2>8 DEF MarkedBy, MarkedAs
  <1> HIDE DEF C, M
  <1>6. CASE SendClose("unlock", cg) /\ UNCHANGED db
    <2>1. "unlock" \in Closing
      BY DEF Closing
    <2> QED
      BY <1>1, <1>2, <1>3, <1>5, <1>6, <2>1, SellSent
  <1>7. CASE NothingSent("unlock", cg) /\ db' = SaveQuantity(SaveTxnLock(db, book'), book', cg)
    <2>1. UNCHANGED <<pc, flight, cgs, cfg, state>>
      BY <1>1, <1>7 DEF NothingSent
    <2> QED
      BY <1>1, <1>2, <1>3, <1>5, <1>7, <2>1, UnlockNotSent
  <1> QED
    BY <1>2, <1>3, <1>6, <1>7

(* A sent close is noted with its parts.                                   *)
LEMMA NotedParts ==
    ASSUME NEW S, NEW cg \in Closes, cg.frag = "NO", cg.filled = 0,
           OneNew(S, cg) \/ BothNew(S, cg),
           NEW new, new = [cg EXCEPT !.frag = IF Cardinality(S) = 2 THEN "NEED" ELSE "NO"]
    PROVE  /\ new \in Closes /\ new.type = cg.type /\ new.quantity = cg.quantity
           /\ new.groups = cg.groups /\ Parts(S, new)
  <1>1. PICK frag : frag = (IF Cardinality(S) = 2 THEN "NEED" ELSE "NO") /\ frag \in {"NO", "NEED"}
    OBVIOUS
  <1>2. /\ new \in Closes /\ new.type = cg.type /\ new.quantity = cg.quantity
        /\ new.groups = cg.groups /\ new.filled = 0 /\ new.frag = frag
    BY <1>1 DEF Closes, Frags
  <1>3. CASE OneNew(S, cg)
    <2>1. PICK o \in S : S = {o} /\ o.news /\ o.quantity = cg.quantity
      BY <1>3 DEF OneNew
    <2>2. Cardinality(S) = 1
      BY <2>1, FS_Singleton
    <2> QED
      BY <1>1, <1>2, <2>1, <2>2 DEF Parts, OneNew
  <1>4. CASE BothNew(S, cg)
    <2>1. PICK o, p \in S : o # p /\ S = {o, p} /\ o.news /\ p.news /\ o.quantity + p.quantity = cg.quantity
      BY <1>4 DEF BothNew
    <2>2. Cardinality({o} \cup {p}) = Cardinality({o}) + 1 /\ Cardinality({o}) = 1
      BY <2>1, FS_Singleton, FS_AddElement
    <2>3. S = {o} \cup {p}
      BY <2>1
    <2>4. Cardinality(S) = 2
      BY <2>2, <2>3
    <2> QED
      BY <1>1, <1>2, <2>1, <2>4 DEF Parts, BothNew
  <1> QED
    BY <1>2, <1>3, <1>4

(* The note of a close order keeps the invariant (add_close_group).        *)
LEMMA AddCloseGroupKeeps ==
    ASSUME Core, AddCloseGroup
    PROVE  Core'
  <1> DEFINE L == Listed(book.costs, book.locks)
  <1>1. /\ state = "up" /\ pc.at = "sent" /\ pc.kind \in Closing
        /\ UNCHANGED <<cfg, book, flight, held, odd, state>>
    BY DEF AddCloseGroup
  <1>2. PICK k, cg, S, new :
            /\ k = pc.key /\ cg = pc.cg /\ S = SellsOf(flight)
            /\ new = [cg EXCEPT !.frag = IF Cardinality(S) = 2 THEN "NEED" ELSE "NO"]
    OBVIOUS
  <1>3. pc \in ClosePcs /\ k \in CloseKeys /\ cg \in Closes /\ cg.quantity > 0
    <2>1. pc \in Pcs
      BY CoreParts
    <2>2. pc \in ClosePcs
      BY <1>1, <2>1 DEF Pcs, OpenPcs, Idle, Opening, Closing
    <2> QED
      BY <1>2, <2>2 DEF ClosePcs
  <1>4. CloseSent(S, pc, cgs, book.costs, book.locks, book.grp, book.txn.closing)
    <2>1. CloseRight(S, pc, cgs, book.costs, book.locks, book.grp, book.txn.closing)
      BY <1>2 DEF Core, BookCore
    <2> QED
      BY <1>1, <2>1 DEF CloseRight, NoClosing, CloseNoted
  <1>5. /\ pc.kind = ClosingKind(cg.type) /\ cg.filled = 0 /\ cg.frag = "NO"
        /\ book.txn.closing = (IF pc.kind = "close" THEN 0 ELSE cg.quantity)
        /\ \A l \in CloseKeys : cgs[l] = NoGroup
        /\ Marked(S, k, cg, book.costs, book.locks, book.grp)
        /\ OneNew(S, cg) \/ BothNew(S, cg)
    BY <1>2, <1>4 DEF CloseSent
  <1>6. /\ new \in Closes /\ new.type = cg.type /\ new.quantity = cg.quantity
        /\ new.groups = cg.groups /\ Parts(S, new)
    BY <1>2, <1>3, <1>5, NotedParts
  <1>7. cgs' = [cgs EXCEPT ![k] = new]
    <2>1. {o \in flight : o.kind = pc.kind /\ o.key = pc.key} = S
      BY <1>1, <1>2, <1>5 DEF SellsOf, Marked
    <2> QED
      BY <1>2, <2>1 DEF AddCloseGroup
  <1>8. /\ cgs' \in [CloseKeys -> Closes \cup {NoGroup}] /\ cgs'[k] = new
        /\ \A l \in CloseKeys : l # k => cgs'[l] = NoGroup
    BY <1>3, <1>5, <1>6, <1>7, CoreParts
  <1>9. /\ book \in Books /\ db \in Books /\ ToSet(cg.groups) \subseteq L /\ L \subseteq Keys
        /\ LotsRight(L, book.grp) /\ L \subseteq Needed(flight, pc, L)
    BY <1>5, CoreParts, ListedKeys DEF Marked, ListOf, Listed, Needed, BookCore
  <1>10. \A g \in Needed(flight, pc, L) :
            db.grp[g] = IF g \in ToSet(cg.groups) THEN WithClosing(book.grp[g], 0) ELSE book.grp[g]
    BY <1>1, <1>2 DEF Core, RedisRight, GroupsSaved, Saved, Marking
  <1>11. OnlyClosed(db, book, cg)
    <2>1. ASSUME NEW g \in ToSet(cg.groups)
          PROVE  db.grp[g] \in Groups /\ book.grp[g] \in Groups /\ SameOpened(db.grp[g], book.grp[g])
      <3>1. PICK x, y : x = book.grp[g] /\ y = db.grp[g]
        OBVIOUS
      <3>2. x \in Groups /\ y = WithClosing(x, 0)
        BY <1>9, <1>10, <3>1 DEF LotsRight, Lively
      <3>3. y \in Groups /\ SameOpened(x, y)
        BY <3>2, ClosingCleared
      <3> QED
        BY <3>1, <3>2, <3>3 DEF SameOpened
    <2> QED
      BY <2>1 DEF OnlyClosed
  <1>12. PICK e : e = SaveQuantity(db, book, cg)
    OBVIOUS
  <1>13. /\ e \in Books /\ e.txn = db.txn /\ e.slots = db.slots /\ e.costs = db.costs
         /\ e.locks = db.locks
         /\ \A g \in Keys : e.grp[g] = IF g \in ToSet(cg.groups) THEN book.grp[g] ELSE db.grp[g]
    BY <1>9, <1>11, <1>12, QuantitySaved
  <1>14. /\ db' \in Books /\ db'.txn = book.txn /\ db'.slots = db.slots /\ db'.costs = db.costs
         /\ db'.locks = db.locks /\ db'.grp = e.grp
    <2>1. CASE pc.kind = "close"
      <3>1. db' = e
        BY <1>2, <1>12, <2>1 DEF AddCloseGroup
      <3>2. db.txn = book.txn
        BY <2>1, SavedCounters
      <3> QED
        BY <1>13, <3>1, <3>2
    <2>2. CASE pc.kind # "close"
      <3>1. db' = SaveTxnLock(e, book)
        BY <1>2, <1>12, <2>2 DEF AddCloseGroup
      <3>2. e.txn.open = book.txn.open
        BY <1>13, SavedCounters
      <3> QED
        BY <1>9, <1>13, <3>1, <3>2, SavedTxnLock
    <2> QED
      BY <2>1, <2>2
  <1>15. /\ pc' \in Pcs /\ pc'.kind \notin Opening /\ pc'.at # "sent"
         /\ IF pc.kind = "close"
            THEN pc'.at = "added" /\ pc'.kind = "close" /\ pc'.key = k /\ pc'.cg = cg
            ELSE pc'.kind \notin Closing
    <2>1. CASE pc.kind = "close"
      <3>1. pc' = [pc EXCEPT !.at = "added"]
        BY <2>1 DEF AddCloseGroup
      <3>2. pc' \in ClosePcs /\ pc'.at = "added" /\ pc'.kind = "close" /\ pc'.key = k /\ pc'.cg = cg
        BY <1>2, <1>3, <2>1, <3>1 DEF ClosePcs
      <3> QED
        BY <2>1, <3>2 DEF Pcs, Opening
    <2>2. CASE pc.kind # "close"
      <3>1. pc' = Idle
        BY <2>2 DEF AddCloseGroup
      <3> QED
        BY <2>2, <3>1 DEF Pcs, Idle, Opening, Closing
    <2> QED
      BY <2>1, <2>2
  <1> HIDE DEF L
  <1>16. Types'
    BY <1>1, <1>8, <1>14, <1>15, CoreParts DEF Types
  <1>17. pc.kind \notin Opening /\ \A x : ~Sent(pc, x) /\ ~Sent(pc', x)
    BY <1>1, <1>15 DEF Sent, Opening, Closing
  <1>18. BookCore(flight', pc', cgs', book')
    <2>1. FreshRight(flight, pc', book.txn.opening)
      BY <1>15, <1>17 DEF Core, BookCore, FreshRight
    <2>2. GroupsRight(flight, pc', L, book.grp)
      BY <1>17 DEF Core, BookCore, GroupsRight, L
    <2>3. CloseRight(S, pc', cgs', book.costs, book.locks, book.grp, book.txn.closing)
      <3>1. Marked(S, k, new, book.costs, book.locks, book.grp)
        BY <1>5, <1>6 DEF Marked
      <3>2. new # NoGroup
        BY <1>6 DEF Closes, NoGroup
      <3>3. pc.kind = "close" => new.type = "NORMAL" /\ book.txn.closing = 0
        BY <1>5, <1>6 DEF ClosingKind
      <3>4. pc.kind # "close" => book.txn.closing = new.quantity
        BY <1>5, <1>6
      <3>5. "close" \in Closing
        BY DEF Closing
      <3>6. CloseNoted(k, S, pc', cgs', book.costs, book.locks, book.grp, book.txn.closing)
        BY <1>6, <1>8, <1>15, <3>1, <3>2, <3>3, <3>4, <3>5 DEF CloseNoted
      <3> QED
        BY <1>3, <3>6 DEF CloseRight
    <2> QED
      BY <1>1, <1>2, <2>1, <2>2, <2>3 DEF Core, BookCore, L
  <1>19. RedisRight(flight', pc', book', db')
    <2>1. SlotsSaved(pc', book.slots, db.slots)
      <3>1. SlotsSaved(pc, book.slots, db.slots)
        BY DEF Core, RedisRight
      <3> QED
        BY <1>15, <1>17, <3>1 DEF SlotsSaved, Opening
    <2>2. GroupsSaved(flight, pc', L, book.grp, e.grp)
      <3>1. Needed(flight, pc', L) = Needed(flight, pc, L) /\ Needed(flight, pc, L) \subseteq Keys
        BY <1>9, <1>17, CoreParts DEF Needed, KeysOf, OpensOf, BookCore, OrdersRight, OrderRight
      <3>2. Marking(pc') = {}
        BY <1>15 DEF Marking
      <3> QED
        BY <1>10, <1>13, <3>1, <3>2 DEF GroupsSaved, Saved
    <2>3. db'.costs = book.costs /\ db'.locks = book.locks
      BY <1>14 DEF Core, RedisRight
    <2> QED
      BY <1>1, <1>14, <2>1, <2>2, <2>3 DEF RedisRight, TxnSaved, L
  <1> QED
    BY <1>16, <1>18, <1>19 DEF Core

(* So does counting its lots and saving its groups, after the note.        *)
LEMMA CountClosingKeeps ==
    ASSUME Core, CountClosing
    PROVE  Core'
  <1>1. /\ state = "up" /\ pc.at = "added" /\ pc.kind = "close" /\ pc' = Idle
        /\ UNCHANGED <<cfg, cgs, flight, held, odd, state, crashes>>
    BY DEF CountClosing
  <1>2. PICK n, b : n = pc.cg.quantity /\ b = book' /\ b = [book EXCEPT !.txn.closing = n]
                    /\ db' = SaveTxn(db, b)
    BY DEF CountClosing
  <1>3. n \in Nat /\ n > 0
    <2>1. pc \in Pcs
      BY CoreParts
    <2>2. pc \in ClosePcs
      BY <1>1, <2>1 DEF Pcs, OpenPcs, Idle, Opening
    <2> QED
      BY <1>2, <2>2 DEF ClosePcs, Closes
  <1>4. book \in Books /\ db \in Books /\ book.txn \in Txns
    BY CoreParts, BookParts
  <1>5. PICK t : t = TxnClosing(book.txn, n)
    OBVIOUS
  <1>6. /\ t \in Txns /\ t.closing = n /\ t.opening = book.txn.opening /\ t.open = book.txn.open
        /\ t.lock = book.txn.lock /\ t.lockable = book.txn.lockable /\ t.status = book.txn.status
    BY <1>3, <1>4, <1>5, ClosingCounted
  <1>7. /\ b \in Books /\ b.txn = t /\ b.slots = book.slots /\ b.costs = book.costs
        /\ b.locks = book.locks /\ b.grp = book.grp
    <2>1. b = [book EXCEPT !.txn = t]
      BY <1>2, <1>4, <1>5 DEF TxnClosing, Books
    <2> QED
      BY <1>4, <1>6, <2>1, TxnWritten
  <1>8. /\ db' \in Books /\ db'.txn = b.txn /\ db'.slots = db.slots /\ db'.costs = db.costs
        /\ db'.locks = db.locks /\ db'.grp = db.grp
    <2>1. db.txn.lock = b.txn.lock /\ db.txn.lockable = b.txn.lockable
      BY <1>6, <1>7, SavedCounters
    <2> QED
      BY <1>2, <1>4, <1>7, <2>1, SavedTxn
  <1>9. /\ pc'.kind \notin Opening /\ pc'.kind \notin Closing /\ pc.kind \notin Opening
        /\ \A x : ~Sent(pc, x) /\ ~Sent(pc', x)
    BY <1>1 DEF Idle, Opening, Closing, Sent
  <1>10. Types'
    BY <1>1, <1>2, <1>7, <1>8, CoreParts DEF Types, Pcs
  <1> DEFINE L == Listed(book.costs, book.locks)
             R(p, n1) == CloseRight(SellsOf(flight), p, cgs, book.costs, book.locks, book.grp, n1)
  <1>11. R(pc', n)
    <2>1. R(pc, book.txn.closing)
      BY DEF Core, BookCore
    <2>2. CASE NoClosing(SellsOf(flight), pc, cgs, book.costs, book.locks, book.grp, book.txn.closing)
      <3>1. NoClosing(SellsOf(flight), pc', cgs, book.costs, book.locks, book.grp, n)
        BY <1>3, <1>9, <2>2 DEF NoClosing
      <3> QED
        BY <3>1 DEF CloseRight
    <2>3. ASSUME NEW k \in CloseKeys,
                 CloseNoted(k, SellsOf(flight), pc, cgs, book.costs, book.locks, book.grp, book.txn.closing)
          PROVE  CloseNoted(k, SellsOf(flight), pc', cgs, book.costs, book.locks, book.grp, n)
      BY <1>1, <1>2, <1>9, <2>3 DEF CloseNoted, Closing
    <2>4. ~CloseSent(SellsOf(flight), pc, cgs, book.costs, book.locks, book.grp, book.txn.closing)
      BY <1>1 DEF CloseSent
    <2> QED
      BY <2>1, <2>2, <2>3, <2>4 DEF CloseRight
  <1> HIDE DEF L, R
  <1>12. BookCore(flight', pc', cgs', book')
    <2>1. FreshRight(flight, pc', t.opening)
      BY <1>6, <1>9 DEF Core, BookCore, FreshRight
    <2>2. GroupsRight(flight, pc', L, book.grp)
      BY <1>9 DEF Core, BookCore, GroupsRight, L
    <2> QED
      BY <1>1, <1>2, <1>6, <1>7, <1>11, <2>1, <2>2 DEF Core, BookCore, L, R
  <1>13. RedisRight(flight', pc', book', db')
    <2>1. SlotsSaved(pc', b.slots, db'.slots)
      <3>1. SlotsSaved(pc, book.slots, db.slots)
        BY DEF Core, RedisRight
      <3> QED
        BY <1>7, <1>8, <1>9, <3>1 DEF SlotsSaved, Opening
    <2>2. GroupsSaved(flight, pc', L, book.grp, db.grp)
      <3>1. Needed(flight, pc', L) = Needed(flight, pc, L)
        BY <1>9 DEF Needed
      <3>2. Marking(pc') = {} /\ Marking(pc) = {}
        BY <1>1, <1>9 DEF Marking
      <3> QED
        BY <3>1, <3>2 DEF Core, RedisRight, GroupsSaved, Saved, L
    <2>3. db'.costs = b.costs /\ db'.locks = b.locks
      BY <1>7, <1>8 DEF Core, RedisRight
    <2> QED
      BY <1>1, <1>2, <1>7, <1>8, <2>1, <2>2, <2>3 DEF RedisRight, TxnSaved, L
  <1> QED
    BY <1>10, <1>12, <1>13 DEF Core

-----------------------------------------------------------------------------
(* Restarts.                                                               *)

(* Nothing is being closed when the strategy thread is idle and no order   *)
(* is at the exchange; a crash at such a moment loses nothing.             *)
LEMMA QuietBook ==
    ASSUME Core, flight = {}, pc = Idle
    PROVE  /\ NoClosing({}, Idle, cgs, book.costs, book.locks, book.grp, book.txn.closing)
           /\ SellsOf({}) = {} /\ OpensOf({}) = {} /\ FreshOf({}) = {}
           /\ \A L : Needed({}, Idle, L) = L
           /\ Marking(Idle) = {} /\ Idle.kind \notin Opening /\ Idle.kind \notin Closing
           /\ Idle \in Pcs
  <1>1. /\ SellsOf({}) = {} /\ OpensOf({}) = {} /\ FreshOf({}) = {} /\ Idle \in Pcs
        /\ Idle.kind \notin Opening /\ Idle.kind \notin Closing
    BY DEF SellsOf, OpensOf, FreshOf, Idle, Opening, Closing, Pcs
  <1>2. Marking(Idle) = {} /\ \A L : Needed({}, Idle, L) = L
    BY <1>1 DEF Marking, Needed, KeysOf
  <1>3. \A cg : ~Parts({}, cg)
    BY DEF Parts, OneNew, OneHeard, BothNew, SecondNew, SecondHeard
  <1>4. CloseRight({}, Idle, cgs, book.costs, book.locks, book.grp, book.txn.closing)
    BY <1>1 DEF Core, BookCore
  <1> QED
    BY <1>1, <1>2, <1>3, <1>4 DEF CloseRight, CloseSent, CloseNoted

(* A crash while nothing is under way loses nothing.                       *)
LEMMA CrashKeeps ==
    ASSUME Core, Calm', Crash
    PROVE  Core'
  <1>1. /\ state' = "down" /\ pc' = Idle /\ flight' = {} /\ UNCHANGED <<cfg, book, db>>
        /\ cgs' = [k \in CloseKeys |-> NoGroup]
        /\ Meets(IF Quiet THEN {} ELSE {"crash"})
    BY DEF Crash
  <1>2. Quiet
    BY <1>1, CalmShows
  <1>3. pc = Idle /\ flight = {}
    BY <1>2 DEF Quiet
  <1>4. \A k \in CloseKeys : cgs[k] = NoGroup
    BY <1>3, QuietBook DEF NoClosing
  <1>5. cgs' = cgs
    BY <1>1, <1>4, CoreParts
  <1>6. Types'
    BY <1>1, <1>3, <1>5, CoreParts DEF Types
  <1>7. BookCore(flight', pc', cgs', book') /\ RedisRight(flight', pc', book', db')
    BY <1>1, <1>3, <1>5, CoreParts
  <1> QED
    BY <1>6, <1>7 DEF Core

(* The smallest of some numbers.                                           *)
LEMMA SmallestOf ==
    ASSUME NEW S, S \subseteq Nat, S # {}
    PROVE  Min(S) \in S
  <1>1. PICK n \in S : \A m \in S : n <= m
    BY LeastNumber
  <1> QED
    BY <1>1 DEF Min

(* The slots a restart makes are slots.                                    *)
LEMMA SlotsLoaded ==
    ASSUME NEW d \in Books, db = d, NEW c \in Configs, LoadAsserts(c), NEW slots \in LoadedSlots(c)
    PROVE  slots \in Seq(Slots)
  <1>1. /\ d.slots \in Seq(Slots) /\ Len(d.slots) \in Nat /\ DOMAIN d.slots = 1..Len(d.slots)
        /\ \A i \in DOMAIN d.slots : d.slots[i].open \in Int
    BY BookParts
  <1>2. c \in Seq(Nat \ {0}) /\ Len(c) \in Nat /\ (\A i \in 1..Len(c) : c[i] \in Nat) /\ c # <<>>
    BY ConfigLots, GridAssumption
  <1>3. slots = Redistributed(OpenSum(d.slots), c) \/ slots = ShrinkTxnSlots(d.slots)
    BY DEF LoadedSlots
  <1>4. ASSUME slots = ShrinkTxnSlots(d.slots) PROVE slots \in Seq(Slots)
    <2> DEFINE cut == {i \in (SlotBlock - 1)..(Len(d.slots) - 1) :
                          i % SlotBlock = 0 /\ d.slots[i + 1].open = 0}
    <2>1. slots = IF cut = {} THEN d.slots ELSE SubSeq(d.slots, 1, Min(cut))
      BY <1>4 DEF ShrinkTxnSlots
    <2>2. SlotBlock - 1 \in Nat
      BY GridAssumption
    <2>3. cut \subseteq 0..Len(d.slots) /\ cut \subseteq Nat
      BY <1>1, <2>2
    <2> HIDE DEF cut
    <2>4. CASE cut = {}
      BY <1>1, <2>1, <2>4
    <2>5. CASE cut # {}
      <3>1. Min(cut) \in 0..Len(d.slots)
        BY <2>3, <2>5, SmallestOf
      <3>2. PICK n : n = Min(cut)
        OBVIOUS
      <3>3. \A i \in 1..n : d.slots[i] \in Slots
        BY <1>1, <3>1, <3>2
      <3> QED
        BY <1>1, <2>1, <2>5, <3>1, <3>2, <3>3, SubSeqProperties
    <2> QED
      BY <2>4, <2>5
  <1>5. ASSUME slots = Redistributed(OpenSum(d.slots), c) PROVE slots \in Seq(Slots)
    <2>1. PICK lots : lots = OpenSum(d.slots)
      OBVIOUS
    <2>2. lots \in Int
      <3> DEFINE f == [i \in DOMAIN d.slots |-> d.slots[i].open]
      <3>1. lots = SumFunctionOnSet(f, DOMAIN d.slots)
        BY <2>1 DEF OpenSum, SumFunction
      <3>2. \A i \in DOMAIN d.slots : f[i] \in Int
        BY <1>1
      <3>3. IsFiniteSet(DOMAIN d.slots)
        BY <1>1, FS_Interval
      <3> HIDE DEF f
      <3> QED
        BY <3>1, <3>2, <3>3, SumIsInt
    <2> DEFINE Need == {n \in 1..Len(c) :
                          /\ n % SlotBlock = 0 \/ n = Len(c)
                          /\ CfgSum(SubSeq(c, 1, n)) >= lots}
               Level(i) == [EmptySlot(c[i]) EXCEPT !.open = Clip(lots - CfgSum(SubSeq(c, 1, i - 1)), c[i])]
    <2>3. slots = [i \in 1..Min(Need) |-> Level(i)]
      BY <1>5, <2>1 DEF Redistributed
    <2>4. Min(Need) \in 1..Len(c)
      <3>1. SubSeq(c, 1, Len(c)) = c /\ Len(c) \in 1..Len(c)
        BY <1>2
      <3>2. lots <= CfgSum(c)
        BY <2>1 DEF LoadAsserts
      <3>3. CfgSum(c) \in Int
        <4>1. \A i \in DOMAIN c : c[i] \in Int
          BY <1>2
        <4>2. DOMAIN c = 1..Len(c) /\ IsFiniteSet(1..Len(c))
          BY <1>2, FS_Interval
        <4> QED
          BY <4>1, <4>2, SumIsInt DEF CfgSum, SumFunction
      <3>4. Len(c) \in Need
        BY <2>2, <3>1, <3>2, <3>3
      <3>5. Need \subseteq Nat /\ Need \subseteq 1..Len(c)
        BY <1>2
      <3> HIDE DEF Need
      <3> QED
        BY <3>4, <3>5, SmallestOf
    <2>5. ASSUME NEW i \in 1..Len(c) PROVE Level(i) \in Slots
      <3>1. PICK part : part = SubSeq(c, 1, i - 1)
        OBVIOUS
      <3>2. part \in Seq(Nat) /\ Len(part) \in Nat /\ DOMAIN part = 1..Len(part)
        BY <1>2, <3>1
      <3>3. CfgSum(part) \in Int
        <4>1. \A j \in DOMAIN part : part[j] \in Int
          BY <3>2
        <4>2. IsFiniteSet(1..Len(part))
          BY <3>2, FS_Interval
        <4> QED
          BY <3>2, <4>1, <4>2, SumIsInt DEF CfgSum, SumFunction
      <3>4. c[i] \in Nat
        BY <1>2
      <3>5. PICK n : n = lots - CfgSum(part) /\ n \in Int
        BY <2>2, <3>3
      <3>6. Clip(n, c[i]) \in Int
        BY <3>4, <3>5 DEF Clip, Least
      <3> QED
        BY <3>1, <3>4, <3>5, <3>6 DEF EmptySlot, Slots
    <2> HIDE DEF Need, Level
    <2>6. Min(Need) \in Nat /\ \A i \in 1..Min(Need) : Level(i) \in Slots
      BY <1>2, <2>4, <2>5
    <2> QED
      BY <2>3, <2>6
  <1> QED
    BY <1>3, <1>4, <1>5

(* What a restart reads from redis is right.                               *)
LEMMA LoadKeeps ==
    ASSUME Core, Calm', Load
    PROVE  Core'
  <1> DEFINE L == Listed(book.costs, book.locks)
  <1>1. state = "down" /\ pc = Idle /\ flight = {} /\ UNCHANGED <<cgs, pc, flight>> /\ cfg' \in Configs
    BY CoreParts DEF Load, Types
  <1>2. LoadAsserts(cfg') /\ state' = "up"
    BY DEF Load, Calm
  <1>3. PICK slots \in LoadedSlots(cfg') :
            /\ db' = ResetSlots(db, slots)
            /\ book' = [txn |-> LoadTxn(db), slots |-> slots,
                        costs |-> db.costs, locks |-> db.locks,
                        grp |-> LoadGroups(db, NamedGroups(db.costs) \cup NamedGroups(db.locks))]
    BY <1>2 DEF Load
  <1>4. /\ db \in Books /\ book \in Books /\ db.costs = book.costs /\ db.locks = book.locks
        /\ db.txn = book.txn /\ db.txn \in Txns /\ db.grp \in [Keys -> Groups \cup {NoGroup}]
        /\ L \subseteq Keys
    BY <1>1, CoreParts, SavedCounters, BookParts, ListedKeys DEF Idle
  <1>5. slots \in Seq(Slots)
    BY <1>1, <1>2, <1>4, SlotsLoaded
  <1>6. PICK grp : grp = LoadGroups(db, L)
    OBVIOUS
  <1>7. grp \in [Keys -> Groups \cup {NoGroup}] /\ \A g \in L : grp[g] = db.grp[g]
    BY <1>4, <1>6 DEF LoadGroups
  <1>8. book' = [txn |-> db.txn, slots |-> slots, costs |-> book.costs, locks |-> book.locks, grp |-> grp]
    BY <1>3, <1>4, <1>6 DEF LoadTxn, NamedGroups, Listed
  <1>9. /\ book'.txn = db.txn /\ book'.slots = slots /\ book'.costs = book.costs
        /\ book'.locks = book.locks /\ book'.grp = grp
    BY <1>8
  <1>10. book' \in Books
    BY <1>4, <1>5, <1>7, <1>8, BookParts DEF Books
  <1>11. /\ db' \in Books /\ db'.txn = db.txn /\ db'.slots = slots /\ db'.costs = db.costs
         /\ db'.locks = db.locks /\ db'.grp = db.grp
    <2>1. db' = [db EXCEPT !.slots = slots]
      BY <1>3 DEF ResetSlots
    <2> QED
      BY <1>4, <1>5, <2>1, SlotsWritten
  <1>12. /\ NoClosing({}, Idle, cgs, book.costs, book.locks, book.grp, book.txn.closing)
         /\ SellsOf({}) = {} /\ OpensOf({}) = {} /\ FreshOf({}) = {}
         /\ \A X : Needed({}, Idle, X) = X
         /\ Marking(Idle) = {} /\ Idle.kind \notin Opening /\ Idle.kind \notin Closing
    BY <1>1, QuietBook
  <1>13. \A g \in L : db.grp[g] = book.grp[g] /\ db.grp[g].closing = 0
    <2>1. \A g \in L : db.grp[g] = book.grp[g]
      BY <1>1, <1>12 DEF Core, RedisRight, GroupsSaved, Saved
    <2>2. \A g \in L : db.grp[g].closing = 0
      BY <1>2, <1>4 DEF LoadAsserts, NamedGroups, Listed
    <2> QED
      BY <2>1, <2>2
  <1> HIDE DEF L
  <1>14. Types'
    BY <1>1, <1>2, <1>10, <1>11, CoreParts DEF Types
  <1>15. BookCore(flight', pc', cgs', book')
    <2>1. /\ OrdersRight({}) /\ FreshRight({}, Idle, book.txn.opening)
          /\ ListsRight(book.costs, book.locks) /\ LotsRight(L, book.grp)
      BY <1>1, <1>4 DEF Core, BookCore, L
    <2>2. LotsRight(L, grp)
      BY <1>7, <1>13, <2>1 DEF LotsRight
    <2>3. GroupsRight({}, Idle, L, grp)
      BY <1>12 DEF GroupsRight
    <2>4. CloseRight({}, Idle, cgs, book.costs, book.locks, grp, book.txn.closing)
      <3>1. NoClosing({}, Idle, cgs, book.costs, book.locks, grp, book.txn.closing)
        BY <1>7, <1>12, <1>13 DEF NoClosing, L
      <3> QED
        BY <3>1 DEF CloseRight
    <2> QED
      BY <1>1, <1>4, <1>9, <1>12, <2>1, <2>2, <2>3, <2>4 DEF BookCore, L
  <1>16. RedisRight(flight', pc', book', db')
    <2>1. GroupsSaved({}, Idle, L, grp, db.grp)
      BY <1>7, <1>12 DEF GroupsSaved, Saved
    <2>2. SlotsSaved(Idle, slots, slots)
      BY <1>12 DEF SlotsSaved, Opening
    <2> QED
      BY <1>1, <1>4, <1>9, <1>11, <2>1, <2>2 DEF RedisRight, TxnSaved, L
  <1> QED
    BY <1>14, <1>15, <1>16 DEF Core

(* A new transaction.                                                      *)
LEMMA InitIsRight ==
    ASSUME Init
    PROVE  Core
  <1>1. /\ cfg \in Configs /\ book = EmptyBook(cfg) /\ db = book /\ pc = Idle /\ flight = {}
        /\ cgs = [k \in CloseKeys |-> NoGroup] /\ state = "up"
    BY DEF Init
  <1>2. PICK slots, grp : slots = ExtendTxnSlots(<<>>, cfg) /\ grp = [g \in Keys |-> NoGroup]
    OBVIOUS
  <1>3. slots \in Seq(Slots)
    <2>1. <<>> \in Seq(Slots)
      OBVIOUS
    <2> QED
      BY <1>1, <1>2, <2>1, SlotsExtended
  <1>4. NewTxn \in Txns /\ NewTxn.opening = 0 /\ NewTxn.closing = 0
    BY DEF NewTxn, Txns, Status
  <1>5. book = [txn |-> NewTxn, slots |-> slots, costs |-> <<>>, locks |-> <<>>, grp |-> grp]
    BY <1>1, <1>2 DEF EmptyBook
  <1>6. /\ book \in Books /\ book.txn = NewTxn /\ book.slots = slots /\ book.costs = <<>>
        /\ book.locks = <<>> /\ book.grp = grp
    BY <1>2, <1>3, <1>4, <1>5 DEF Books
  <1>7. Listed(book.costs, book.locks) = {}
    BY <1>6 DEF Listed, ToSet
  <1>8. /\ SellsOf(flight) = {} /\ OpensOf(flight) = {} /\ FreshOf(flight) = {}
        /\ pc.kind \notin Opening /\ pc.kind \notin Closing /\ pc \in Pcs
    BY <1>1 DEF SellsOf, OpensOf, FreshOf, Idle, Opening, Closing, Pcs
  <1>9. Types
    BY <1>1, <1>6, <1>8, FS_EmptySet DEF Types
  <1>10. BookCore(flight, pc, cgs, book)
    <2>1. OrdersRight(flight)
      BY <1>1 DEF OrdersRight
    <2>2. FreshRight(flight, pc, book.txn.opening)
      BY <1>8 DEF FreshRight
    <2>3. GroupsRight(flight, pc, {}, book.grp) /\ LotsRight({}, book.grp)
      BY <1>8 DEF GroupsRight, LotsRight
    <2>4. ListsRight(book.costs, book.locks)
      BY <1>6 DEF ListsRight, IsInjective, ToSet
    <2>5. NoClosing({}, pc, cgs, book.costs, book.locks, book.grp, book.txn.closing)
      BY <1>1, <1>7, <1>8 DEF NoClosing
    <2> QED
      BY <1>7, <1>8, <2>1, <2>2, <2>3, <2>4, <2>5 DEF BookCore, CloseRight
  <1>11. RedisRight(flight, pc, book, db)
    <2>1. GroupsSaved(flight, pc, {}, book.grp, db.grp)
      BY <1>8 DEF GroupsSaved, Needed, KeysOf
    <2> QED
      BY <1>1, <1>7, <1>8, <2>1 DEF RedisRight, TxnSaved, SlotsSaved, Opening
  <1> QED
    BY <1>9, <1>10, <1>11 DEF Core

(* A step that changes nothing.                                            *)
LEMMA StutterKeeps ==
    ASSUME Core, UNCHANGED vars
    PROVE  Core'
  BY DEF vars, Core, Types

(* Oddities are never forgotten, and a failed process stays failed.        *)
LEMMA OddStays ==
    ASSUME Next, state # "failed" \/ state' # "failed"
    PROVE  odd \subseteq odd' /\ (state' # "failed" => state # "failed")
  <1>1. \A shown : Meets(shown) => odd \subseteq odd'
    BY DEF Meets
  <1>2. CASE UpdateSignal \/ HandleTxnStatus
    BY <1>1, <1>2 DEF UpdateSignal, SignalTxn, SignalUnlock, SignalLock, HandleTxnStatus
  <1>3. CASE Open \/ Lock \/ AddOpenGroup \/ CountOpening
    BY <1>1, <1>3 DEF Open, Lock, SendOpen, AddOpenGroup, CountOpening
  <1>4. CASE Close \/ Unlock \/ AddCloseGroup \/ CountClosing
    <2>1. \A kind, cg : SendClose(kind, cg) \/ NothingSent(kind, cg) => odd \subseteq odd'
      BY <1>1 DEF SendClose, NothingSent
    <2> QED
      BY <1>4, <2>1 DEF Close, Unlock, AddCloseGroup, CountClosing
  <1>5. CASE \E o \in flight : Exchange(o) \/ OnOrder(o) \/ OnTrade(o)
    <2>1. ASSUME NEW o \in flight, Exchange(o) PROVE odd \subseteq odd' /\ state' = state
      BY <1>1, <2>1 DEF Exchange
    <2>2. ASSUME NEW o \in flight, OnOrder(o) PROVE odd \subseteq odd' /\ state = "up"
      BY <1>1, <2>2 DEF OnOrder
    <2>3. ASSUME NEW o \in flight, OnTrade(o) PROVE odd \subseteq odd' /\ state = "up"
      BY <1>1, <2>3 DEF OnTrade
    <2> QED
      BY <1>5, <2>1, <2>2, <2>3
  <1>6. CASE Crash \/ Load
    BY <1>1, <1>6 DEF Crash, Load
  <1> QED
    BY <1>2, <1>3, <1>4, <1>5, <1>6 DEF Next

(* Every step keeps the invariant.                                         *)
LEMMA NextKeeps ==
    ASSUME IInv, [Next]_vars
    PROVE  IInv'
  <1> SUFFICES ASSUME Calm' PROVE Core'
    BY DEF IInv
  <1>1. Calm
    BY OddStays DEF Calm, vars
  <1>2. Core
    BY <1>1 DEF IInv
  <1>3. CASE UpdateSignal \/ HandleTxnStatus
    BY <1>2, <1>3, UpdateSignalKeeps, HandleTxnStatusKeeps
  <1>4. CASE Open \/ Lock \/ AddOpenGroup \/ CountOpening
    BY <1>2, <1>4, OpenKeeps, LockKeeps, AddOpenGroupKeeps, CountOpeningKeeps
  <1>5. CASE Close \/ Unlock \/ AddCloseGroup \/ CountClosing
    BY <1>2, <1>5, CloseKeeps, UnlockKeeps, AddCloseGroupKeeps, CountClosingKeeps
  <1>6. CASE \E o \in flight : Exchange(o) \/ OnOrder(o) \/ OnTrade(o)
    BY <1>2, <1>6, ExchangeKeeps, OnOrderKeeps, OnTradeKeeps
  <1>7. CASE Crash \/ Load
    BY <1>2, <1>7, CrashKeeps, LoadKeeps
  <1>8. CASE UNCHANGED vars
    BY <1>2, <1>8, StutterKeeps
  <1> QED
    BY <1>3, <1>4, <1>5, <1>6, <1>7, <1>8 DEF Next

(* The inductive invariant: as long as the exchange behaves as the code    *)
(* is written for, the book in memory and in redis, the orders under way   *)
(* and the close groups fit together.                                      *)
THEOREM Invariance == Spec => []IInv
  <1>1. Init => IInv
    BY InitIsRight DEF IInv
  <1>2. IInv /\ [Next]_vars => IInv'
    BY NextKeeps
  <1> QED
    BY <1>1, <1>2, PTL DEF Spec

(* Between ticks redis holds what memory holds.                            *)
THEOREM SavedBetweenTicks == Spec => []Recoverable
  <1>1. IInv => Recoverable
    <2> SUFFICES ASSUME IInv, Sound(Harmless \cup {"signal"}), pc = Idle
                 PROVE  /\ db.txn = book.txn /\ db.slots = book.slots
                        /\ db.costs = book.costs /\ db.locks = book.locks
                        /\ \A g \in ToSet(book.costs) \cup ToSet(book.locks) : db.grp[g] = book.grp[g]
      BY DEF Recoverable
    <2>1. Core
      BY DEF IInv, Calm, Sound
    <2>2. pc.at # "sent" /\ pc.kind = "none"
      BY DEF Idle
    <2>3. db.txn = book.txn /\ db.costs = book.costs /\ db.locks = book.locks
      BY <2>1, <2>2, SavedCounters
    <2>4. db.slots = book.slots
      BY <2>1, <2>2 DEF Core, RedisRight, SlotsSaved
    <2>5. \A g \in Listed(book.costs, book.locks) : db.grp[g] = book.grp[g]
      BY <2>1, <2>2 DEF Core, RedisRight, GroupsSaved, Saved, Marking, Needed
    <2> QED
      BY <2>3, <2>4, <2>5 DEF Listed
  <1> QED
    BY <1>1, Invariance, PTL
-----------------------------------------------------------------------------
(* The lots.  What txn counts as open is what the groups hold that are     *)
(* listed in costs and those whose trade is still to come, and the same    *)
(* for what is locked.                                                     *)

(* The statuses in which lots are locked.                                  *)
Phases == {"LOCKING", "LOCK", "UNLOCKING"}

(* Orders of a kind whose final news was handled and whose trade was not.  *)
HeardOf(F, kind) == {o \in F : o.kind = kind /\ ~o.news}

Counted(F, kind, list) == ToSet(list) \cup KeysOf(HeardOf(F, kind))

LotsCounted(F, b) ==
    /\ b.txn.open = LotsIn(b.grp, Counted(F, "open", b.costs))
    /\ b.txn.lock = LotsIn(b.grp, Counted(F, "lock", b.locks))

(* A close order is for as many lots as are marked in its groups.          *)
MarksRight(p, closes, grp) ==
    /\ p.kind \in Closing /\ p.at = "sent" => ClosingIn(grp, ToSet(p.cg.groups)) = p.cg.quantity
    /\ \A k \in CloseKeys : closes[k] # NoGroup =>
          ClosingIn(grp, ToSet(closes[k].groups)) = closes[k].quantity

(* The status follows the locked lots: it is LOCK or UNLOCKING while there *)
(* are any, and LOCKING ends with the trade of the order that locks the    *)
(* last ones.                                                              *)
StatusRight(F, txn) ==
    /\ txn.status \in {"LOCK", "UNLOCKING"} => txn.lock > 0
    /\ txn.status = "LOCKING" /\ txn.lock >= txn.lockable => HeardOf(F, "lock") # {}
    /\ txn.status \notin Phases => txn.lock = 0
    /\ \A o \in F : o.kind = "lock" /\ o.news =>
          txn.status = "LOCKING" /\ txn.lock + o.quantity <= txn.lockable
    /\ \A o \in F : o.kind = "unlock" => txn.status = "UNLOCKING"

(* A transaction that once held lots keeps a group that no close order     *)
(* sells: the last lots are never closed.                                  *)
Spared(p, closes, costs, status) ==
    /\ status \notin {"NEW", "READY"} => costs # <<>>
    /\ p.kind = "close" /\ p.at = "sent" => ToSet(costs) \ ToSet(p.cg.groups) # {}
    /\ \A k \in CloseKeys : closes[k] # NoGroup /\ closes[k].type = "NORMAL" =>
          ToSet(costs) \ ToSet(closes[k].groups) # {}

(* While lots are locked nothing is opened or closed, and it is all the    *)
(* open lots that are to be locked.                                        *)
LockingOnly(F, txn) ==
    txn.status \in Phases =>
        /\ \A o \in F : o.kind \in {"lock", "unlock"}
        /\ txn.lockable = txn.open /\ txn.lock <= txn.open

-----------------------------------------------------------------------------
(* What the handlers write, in terms of the state after them.              *)

(* The groups somebody looks at.                                           *)
LookedAt(F, costs, locks) == Listed(costs, locks) \cup KeysOf(OpensOf(F))

(* A handler leaves of b what somebody looks at.                           *)
LEMMA HandledIs ==
    ASSUME NEW b \in Books, NEW d, NEW closes, Handled(b, d, closes), OrdersRight(flight')
    PROVE  /\ book'.txn = b.txn /\ book'.slots = b.slots /\ book'.costs = b.costs
           /\ book'.locks = b.locks
           /\ \A g \in LookedAt(flight', b.costs, b.locks) : book'.grp[g] = b.grp[g]
           /\ \A g \in Keys : book'.grp[g] # NoGroup => g \in Used(b, flight', cgs')
           /\ cgs' = Kept(closes, flight')
  <1> DEFINE used == Used(b, flight', cgs')
  <1>1. cgs' = Kept(closes, flight') /\ book' = Forget(b, used)
    BY DEF Handled
  <1>2. Listed(b.costs, b.locks) \subseteq used /\ KeysOf(OpensOf(flight')) \subseteq used
    BY UsedKeys
  <1>3. Listed(b.costs, b.locks) \subseteq Keys
    BY ListedKeys
  <1>4. KeysOf(OpensOf(flight')) \subseteq Keys
    BY DEF KeysOf, OpensOf, OrdersRight, OrderRight
  <1> HIDE DEF used
  <1>5. /\ book'.txn = b.txn /\ book'.slots = b.slots /\ book'.costs = b.costs
        /\ book'.locks = b.locks /\ \A g \in used \cap Keys : book'.grp[g] = b.grp[g]
    BY <1>1, ForgetKeeps
  <1>6. \A g \in Keys : book'.grp[g] # NoGroup => g \in used
    BY <1>1 DEF Forget, Books
  <1> QED
    BY <1>1, <1>2, <1>3, <1>4, <1>5, <1>6 DEF LookedAt, used

(* The final news of an order that opens (post_open, post_lock).           *)
OpenNews(o) ==
    /\ pc' = pc /\ cgs' = cgs /\ held' = held
    /\ o.news /\ o.result \in Nat /\ ~Sent(pc, o.key)
    /\ NewsTaken(flight, o, flight')
    /\ book'.costs = book.costs /\ book'.locks = book.locks
    /\ o.kind = "open" => /\ book'.txn = TxnOpened(book.txn, o.result)
                          /\ book'.slots = SlotOpened(book.slots, book.grp[o.key].slot, o.result)
    /\ o.kind = "lock" => /\ book'.txn = TxnLocked(book.txn, o.result)
                          /\ book'.slots = book.slots
    /\ o.result > 0 => book'.grp[o.key] = WithFilled(book.grp[o.key], o.result)
    /\ \A g \in LookedAt(flight', book.costs, book.locks) : g # o.key => book'.grp[g] = book.grp[g]
    /\ \A g \in Keys : book'.grp[g] # NoGroup => g \in Used(book', flight', cgs')

(* The final news of an order that opens writes what OpenNews says.        *)
LEMMA OpenNewsIs ==
    ASSUME Core, Calm', NEW o \in flight, OnOrder(o), o.kind \in Opening
    PROVE  OpenNews(o)
  <1>1. /\ state = "up" /\ o.news /\ o.result # -1 /\ pc' = pc /\ held' = held
        /\ flight' = Rest(o, [o EXCEPT !.news = FALSE])
    BY DEF OnOrder
  <1>2. /\ ~Unknown(o)
        /\ (o.kind = "open" /\ PostOpen(o)) \/ (o.kind = "lock" /\ PostLock(o))
    BY DEF OnOrder, Calm, Opening, Closing
  <1>3. /\ NewsTaken(flight, o, flight') /\ OrdersRight(flight') /\ o.result \in Nat
        /\ OrdersRight(flight)
    <2>1. flight' = AfterNews(flight, o)
      BY <1>1 DEF Rest, AfterNews, WithoutNews
    <2>2. OrdersRight(flight)
      BY DEF Core, BookCore
    <2> QED
      BY <1>1, <2>1, <2>2, CoreParts, NewsComes
  <1>4. ~Sent(pc, o.key) /\ o.key \in Keys /\ book.grp[o.key] \in Groups
    <2>1. o \in FreshOf(flight) /\ o \in OpensOf(flight)
      BY <1>1 DEF FreshOf, OpensOf
    <2>2. ~(pc.at = "sent" /\ pc.kind = o.kind /\ pc.key = o.key)
      BY <1>2 DEF Unknown, Noting
    <2>3. ~Sent(pc, o.key)
      BY <2>1, <2>2 DEF Core, BookCore, FreshRight, Sent
    <2> QED
      BY <1>3, <2>1, <2>3 DEF Core, BookCore, GroupsRight, Opened, OrdersRight, OrderRight
  <1>5. PICK k, n, i : k = o.key /\ n = o.result /\ i = book.grp[o.key].slot
    OBVIOUS
  <1>6. book \in Books
    BY CoreParts
  <1>7. PICK b, d : /\ Handled(b, d, cgs)
                    /\ (o.kind = "open" /\ b = OpenedBook(book, k, n, i))
                       \/ (o.kind = "lock" /\ b = LockedBook(book, k, n))
    BY <1>2, <1>5 DEF PostOpen, PostLock, OpenedBook, LockedBook
  <1>8. /\ b \in Books /\ b.costs = book.costs /\ b.locks = book.locks
        /\ o.kind = "open" => b.txn = TxnOpened(book.txn, n) /\ b.slots = SlotOpened(book.slots, i, n)
        /\ o.kind = "lock" => b.txn = TxnLocked(book.txn, n) /\ b.slots = book.slots
        /\ b.grp[k] = WithFilled(book.grp[k], n)
        /\ \A g \in Keys : g # k => b.grp[g] = book.grp[g]
    <2>1. CASE o.kind = "open"
      BY <1>3, <1>4, <1>5, <1>6, <1>7, <2>1, BookOpened
    <2>2. CASE o.kind = "lock"
      BY <1>3, <1>4, <1>5, <1>6, <1>7, <2>2, BookLocked
    <2> QED
      BY <2>1, <2>2 DEF Opening
  <1>9. /\ book'.txn = b.txn /\ book'.slots = b.slots /\ book'.costs = b.costs
        /\ book'.locks = b.locks
        /\ \A g \in LookedAt(flight', b.costs, b.locks) : book'.grp[g] = b.grp[g]
        /\ \A g \in Keys : book'.grp[g] # NoGroup => g \in Used(b, flight', cgs')
        /\ cgs' = Kept(cgs, flight')
    BY <1>3, <1>7, <1>8, HandledIs
  <1>10. cgs' = cgs
    <2>1. SellsOf(flight') = SellsOf(flight)
      BY <1>3 DEF NewsTaken, SellsOf, Opening, Closing
    <2>2. CloseRight(SellsOf(flight'), pc, cgs, book.costs, book.locks, book.grp, book.txn.closing)
      BY <2>1 DEF Core, BookCore
    <2> QED
      BY <1>9, <2>2, CoreParts, KeptSame
  <1>11. LookedAt(flight', b.costs, b.locks) \subseteq Keys
    BY <1>3, <1>6, <1>8, ListedKeys DEF LookedAt, KeysOf, OpensOf, OrdersRight, OrderRight
  <1>12. o.result > 0 => k \in LookedAt(flight', b.costs, b.locks)
    BY <1>3, <1>5 DEF NewsTaken, LookedAt, KeysOf, OpensOf
  <1>13. \A g \in Keys : book'.grp[g] # NoGroup => g \in Used(book', flight', cgs')
    BY <1>9 DEF Used
  <1>14. o.result > 0 => book'.grp[o.key] = WithFilled(book.grp[o.key], o.result)
    BY <1>5, <1>8, <1>9, <1>12
  <1>15. \A g \in LookedAt(flight', book.costs, book.locks) : g # o.key => book'.grp[g] = book.grp[g]
    BY <1>5, <1>8, <1>9, <1>11
  <1> QED
    BY <1>1, <1>3, <1>4, <1>5, <1>8, <1>9, <1>10, <1>13, <1>14, <1>15 DEF OpenNews

(* The trade of an order that opens (post_open_after_trade,                *)
(* post_lock_after_trade).                                                 *)
OpenTrade(o) ==
    /\ pc' = pc /\ cgs' = cgs /\ held' = held
    /\ ~o.news /\ o.result > 0 /\ flight' = flight \ {o} /\ o.key \notin Listed(book.costs, book.locks)
    /\ book'.slots = book.slots
    /\ o.kind = "open" =>
          /\ ToSet(book'.costs) = ToSet(book.costs) \cup {o.key} /\ book'.locks = book.locks
          /\ book'.txn = TxnStatus(book.txn, IF book.txn.status = "READY" THEN "RUNNING"
                                                                         ELSE book.txn.status)
    /\ o.kind = "lock" =>
          /\ book'.costs = book.costs /\ ToSet(book'.locks) = ToSet(book.locks) \cup {o.key}
          /\ book.txn.lock >= book.txn.lockable => book.txn.status = "LOCKING"
          /\ book'.txn = TxnStatus(book.txn, IF book.txn.lock >= book.txn.lockable
                                             THEN "LOCK" ELSE book.txn.status)
    /\ \A g \in LookedAt(flight, book.costs, book.locks) : book'.grp[g] = book.grp[g]
    /\ \A g \in Keys : book'.grp[g] # NoGroup => g \in Used(book', flight', cgs')

(* The trade of an order that opens writes what OpenTrade says.            *)
LEMMA OpenTradeIs ==
    ASSUME Core, Calm', NEW o \in flight, OnTrade(o), o.kind \in Opening
    PROVE  OpenTrade(o)
  <1>1. /\ pc' = pc /\ ~o.news /\ o.result > 0 /\ OrderRight(o) /\ ~TradeFails(o)
        /\ flight' = flight \ {o} /\ OrdersRight(flight')
        /\ (o.kind = "open" /\ PostOpenAfterTrade(o)) \/ (o.kind = "lock" /\ PostLockAfterTrade(o))
    BY TradeComes DEF Opening
  <1>2. /\ book \in Books /\ BookCore(flight, pc, cgs, book)
        /\ cgs \in [CloseKeys -> Closes \cup {NoGroup}] /\ held' = held
    BY CoreParts DEF OnTrade
  <1>3. /\ book.costs \in Seq(Keys) /\ book.locks \in Seq(Keys) /\ book.txn.status \in Status
        /\ o.key \in Keys /\ IsInjective(book.costs) /\ IsInjective(book.locks)
    BY <1>1, <1>2, BookParts DEF BookCore, ListsRight, OrderRight
  <1>4. o.key \notin Listed(book.costs, book.locks)
    BY <1>1, <1>2 DEF BookCore, GroupsRight, OpensOf
  <1>5. PICK cost, lock : /\ cost = IF book.txn.status = "READY" THEN "RUNNING" ELSE book.txn.status
                          /\ lock = IF LockFull THEN "LOCK" ELSE book.txn.status
    OBVIOUS
  <1>6. cost \in Status /\ lock \in Status
    BY <1>3, <1>5 DEF Status
  <1> DEFINE Entered(b) ==
                /\ b \in Books /\ b.slots = book.slots /\ b.grp = book.grp
                /\ o.kind = "open" => /\ ToSet(b.costs) = ToSet(book.costs) \cup {o.key}
                                      /\ b.locks = book.locks /\ b.txn = TxnStatus(book.txn, cost)
                /\ o.kind = "lock" => /\ ToSet(b.locks) = ToSet(book.locks) \cup {o.key}
                                      /\ b.costs = book.costs /\ b.txn = TxnStatus(book.txn, lock)
  <1>7. PICK b, d : Handled(b, d, cgs) /\ Entered(b)
    <2>1. CASE o.kind = "open"
      <3>1. PICK at \in 0..Len(book.costs) :
              LET b == [book EXCEPT !.costs = Placed(@, at, o.key),
                                    !.txn.status = IF @ = "READY" THEN "RUNNING" ELSE @]
              IN  Handled(b, [SaveTxn(db, b) EXCEPT !.costs = PlacedOnce(book.costs, at, o.key)], cgs)
        BY <1>1, <2>1 DEF PostOpenAfterTrade
      <3>2. PICK list : list = Placed(book.costs, at, o.key)
        OBVIOUS
      <3>3. list \in Seq(Keys) /\ ToSet(list) = ToSet(book.costs) \cup {o.key}
        BY <1>3, <1>4, <3>2, PlacedIn DEF Listed
      <3>4. PICK b : b = EnteredCost(book, list, cost)
        OBVIOUS
      <3>5. \E d : Handled(b, d, cgs)
        BY <1>5, <3>1, <3>2, <3>4 DEF EnteredCost
      <3>6. /\ b \in Books /\ b.txn = TxnStatus(book.txn, cost) /\ b.slots = book.slots
            /\ b.costs = list /\ b.locks = book.locks /\ b.grp = book.grp
        BY <1>2, <1>6, <3>3, <3>4, BookEntered
      <3>7. Entered(b)
        BY <2>1, <3>3, <3>6
      <3> HIDE DEF Entered
      <3> QED
        BY <3>5, <3>7
    <2>2. CASE o.kind = "lock"
      <3>1. PICK at \in 0..Len(book.locks) :
              LET b == [book EXCEPT !.locks = Placed(@, at, o.key),
                                    !.txn.status = IF LockFull THEN "LOCK" ELSE @]
              IN  Handled(b, [SaveTxn(SaveTxnLock(db, b), b) EXCEPT
                                  !.locks = PlacedOnce(book.locks, at, o.key)], cgs)
        BY <1>1, <2>2 DEF PostLockAfterTrade
      <3>2. PICK list : list = Placed(book.locks, at, o.key)
        OBVIOUS
      <3>3. list \in Seq(Keys) /\ ToSet(list) = ToSet(book.locks) \cup {o.key}
        BY <1>3, <1>4, <3>2, PlacedIn DEF Listed
      <3>4. PICK b : b = EnteredLock(book, list, lock)
        OBVIOUS
      <3>5. \E d : Handled(b, d, cgs)
        BY <1>5, <3>1, <3>2, <3>4 DEF EnteredLock
      <3>6. /\ b \in Books /\ b.txn = TxnStatus(book.txn, lock) /\ b.slots = book.slots
            /\ b.costs = book.costs /\ b.locks = list /\ b.grp = book.grp
        BY <1>2, <1>6, <3>3, <3>4, BookEntered
      <3>7. Entered(b)
        BY <2>2, <3>3, <3>6
      <3> HIDE DEF Entered
      <3> QED
        BY <3>5, <3>7
    <2> QED
      BY <2>1, <2>2 DEF Opening
  <1>8. /\ book'.txn = b.txn /\ book'.slots = b.slots /\ book'.costs = b.costs
        /\ book'.locks = b.locks
        /\ \A g \in LookedAt(flight', b.costs, b.locks) : book'.grp[g] = b.grp[g]
        /\ \A g \in Keys : book'.grp[g] # NoGroup => g \in Used(b, flight', cgs')
        /\ cgs' = Kept(cgs, flight')
    BY <1>1, <1>7, HandledIs
  <1>9. cgs' = cgs
    <2>1. SellsOf(flight') = SellsOf(flight)
      BY <1>1 DEF SellsOf, Opening, Closing
    <2>2. CloseRight(SellsOf(flight'), pc, cgs, book.costs, book.locks, book.grp, book.txn.closing)
      BY <1>2, <2>1 DEF BookCore
    <2> QED
      BY <1>2, <1>8, <2>2, KeptSame
  <1>10. LookedAt(flight, book.costs, book.locks) \subseteq LookedAt(flight', b.costs, b.locks)
    <2>1. Listed(b.costs, b.locks) = Listed(book.costs, book.locks) \cup {o.key}
      BY <1>7 DEF Listed, Opening
    <2>2. KeysOf(OpensOf(flight)) \subseteq KeysOf(OpensOf(flight')) \cup {o.key}
      BY <1>1 DEF KeysOf, OpensOf
    <2> QED
      BY <2>1, <2>2 DEF LookedAt
  <1>11. \A g \in Keys : book'.grp[g] # NoGroup => g \in Used(book', flight', cgs')
    BY <1>8 DEF Used
  <1>12. \A g \in LookedAt(flight, book.costs, book.locks) : book'.grp[g] = book.grp[g]
    BY <1>7, <1>8, <1>10
  <1>13. o.kind = "lock" => (book.txn.lock >= book.txn.lockable => book.txn.status = "LOCKING")
    BY <1>1 DEF TradeFails, LockAsserts, LockFull
  <1>14. LockFull <=> book.txn.lock >= book.txn.lockable
    BY DEF LockFull
  <1> QED
    BY <1>1, <1>2, <1>4, <1>5, <1>7, <1>8, <1>9, <1>11, <1>12, <1>13, <1>14 DEF OpenTrade

(* The final news of a close order (post_close, post_unlock): cg is the    *)
(* close group after it.                                                   *)
SellNewsTaken(o, k, cg) ==
    /\ pc' = pc /\ held' = held /\ book'.slots = book.slots
    /\ o.news /\ o.result \in Nat /\ o.key = k /\ k \in CloseKeys
    /\ NewsTaken(flight, o, flight') /\ OpensOf(flight') = OpensOf(flight)
    /\ cgs[k] \in Closes /\ cg = FillCloseGroup(cgs[k], o.result) /\ cg \in Closes
    /\ o.kind = ClosingKind(cg.type)
    /\ \A l \in CloseKeys : l # k => cgs[l] = NoGroup
    /\ CloseNoted(k, SellsOf(flight), pc, cgs, book.costs, book.locks, book.grp, book.txn.closing)
    /\ book'.costs = book.costs /\ book'.locks = book.locks
    /\ \A g \in Keys : book'.grp[g] # NoGroup => g \in Used(book', flight', cgs')

(* It is not the last one, or lots of the order were filled.               *)
SellNewsKept(k, cg) ==
    /\ cgs' = [cgs EXCEPT ![k] = cg] /\ book'.txn = book.txn /\ SellsOf(flight') # {}
    /\ \A g \in LookedAt(flight, book.costs, book.locks) : book'.grp[g] = book.grp[g]

(* Nothing was filled.                                                     *)
SellNewsEnds(cg) ==
    /\ cg.filled = 0 /\ SellsOf(flight') = {} /\ \A l \in CloseKeys : cgs'[l] = NoGroup
    /\ book'.txn = TxnFree(book.txn)
    /\ \A g \in LookedAt(flight, book.costs, book.locks) :
          book'.grp[g] = IF g \in ToSet(cg.groups) THEN WithClosing(book.grp[g], 0) ELSE book.grp[g]

(* The final news of a close order adds what it filled to its close group, *)
(* and ends the order where nothing was filled.                            *)
LEMMA SellNewsIs ==
    ASSUME Core, Calm', NEW o \in flight, OnOrder(o), o.kind \in Closing
    PROVE  \E k, cg : SellNewsTaken(o, k, cg) /\ (SellNewsKept(k, cg) \/ SellNewsEnds(cg))
  <1> DEFINE S == SellsOf(flight)
             T == SellsOf(flight')
             L == Listed(book.costs, book.locks)
  <1>1. /\ state = "up" /\ o.news /\ pc' = pc /\ cfg' = cfg /\ state' = state
        /\ ~Unknown(o) /\ PostClose(o)
        /\ \A y \in S : y # o /\ y.kind = o.kind /\ y.key = o.key
                            => y.news /\ (y.result = 0 => o.result = 0)
        /\ o.result \in Nat /\ OrderRight(o)
        /\ NewsTaken(flight, o, flight') /\ flight' \in SUBSET Orders /\ IsFiniteSet(flight')
        /\ OrdersRight(flight') /\ OpensOf(flight') = OpensOf(flight)
    BY NewsOfSell
  <1>2. PICK k, cg0, n : k = o.key /\ cg0 = cgs[o.key] /\ n = o.result
    OBVIOUS
  <1>3. /\ o \in Orders /\ o \in S /\ k \in CloseKeys
        /\ CloseNoted(k, S, pc, cgs, book.costs, book.locks, book.grp, book.txn.closing)
        /\ cg0 \in Closes /\ o.kind = ClosingKind(cg0.type)
        /\ \A y \in S : y.key = k /\ y.kind = o.kind
        /\ \A l \in CloseKeys : l # k => cgs[l] = NoGroup
    BY <1>1, <1>2, SellNoted
  <1>4. PICK cg : cg = FillCloseGroup(cg0, n)
    OBVIOUS
  <1>5. PICK closes : closes = [cgs EXCEPT ![k] = cg]
    OBVIOUS
  <1>6. /\ cg \in Closes /\ cg.type = cg0.type /\ cg.quantity = cg0.quantity
        /\ cg.groups = cg0.groups /\ cg.filled = cg0.filled + n
    BY <1>1, <1>2, <1>3, <1>4, CloseFilled
  <1>7. /\ closes \in [CloseKeys -> Closes \cup {NoGroup}]
        /\ closes[k] = cg /\ \A l \in CloseKeys : l # k => closes[l] = NoGroup
    BY <1>3, <1>5, <1>6, CoreParts
  <1>8. book \in Books /\ BookCore(flight, pc, cgs, book) /\ held' = held
    BY CoreParts DEF OnOrder
  <1>9. Marked(S, k, cg0, book.costs, book.locks, book.grp) /\ Parts(S, cg0)
    BY <1>2, <1>3 DEF CloseNoted
  <1>10. /\ cg.frag = "RCV_ONE" \/ cg.filled > 0 => T # {}
         /\ ~(cg.frag = "RCV_ONE" \/ cg.filled > 0) => T = {}
    <2>1. S \subseteq Orders
      BY <1>1, CoreParts DEF SellsOf
    <2>2. o.result <= o.quantity /\ o.quantity > 0
      BY <1>1 DEF OrderRight
    <2>3. \A y \in S : y # o => y.news /\ (y.result = 0 => o.result = 0)
      BY <1>1, <1>2, <1>3
    <2>4. \/ o.result = 0 /\ T = S \ {o}
          \/ o.result > 0 /\ \E x \in Orders :
                /\ T = (S \ {o}) \cup {x} /\ x \notin S \ {o}
                /\ x.quantity = o.quantity /\ x.result = o.result /\ ~x.news
      <3>1. CASE o.result = 0 /\ flight' = flight \ {o}
        BY <3>1 DEF SellsOf
      <3>2. CASE o.result > 0 /\ \E x \in Orders :
                /\ flight' = (flight \ {o}) \cup {x} /\ x \notin flight \ {o}
                /\ x.kind = o.kind /\ x.quantity = o.quantity /\ x.result = o.result /\ ~x.news
        BY <3>2 DEF SellsOf
      <3> QED
        BY <1>1, <3>1, <3>2 DEF NewsTaken
    <2>5. cg = FillCloseGroup(cg0, o.result)
      BY <1>2, <1>4
    <2> HIDE DEF S, T
    <2> QED
      BY <1>1, <1>3, <1>9, <2>1, <2>2, <2>3, <2>4, <2>5, NewsOfParts
  <1>11. LookedAt(flight', book.costs, book.locks) = LookedAt(flight, book.costs, book.locks)
    BY <1>1 DEF LookedAt
  <1>12. \A b : b.costs = book.costs /\ b.locks = book.locks
                   => Used(b, flight', cgs') = Used(book, flight', cgs')
    BY DEF Used
  <1>13. CASE cg.frag = "RCV_ONE" \/ cg.filled > 0
    <2>1. Handled(book, db, closes)
      BY <1>1, <1>2, <1>4, <1>5, <1>13 DEF PostClose
    <2>2. /\ book'.txn = book.txn /\ book'.slots = book.slots /\ book'.costs = book.costs
          /\ book'.locks = book.locks
          /\ \A g \in LookedAt(flight, book.costs, book.locks) : book'.grp[g] = book.grp[g]
          /\ \A g \in Keys : book'.grp[g] # NoGroup => g \in Used(book, flight', cgs')
          /\ cgs' = Kept(closes, flight')
      BY <1>1, <1>8, <1>11, <2>1, HandledIs
    <2>3. Kept(closes, flight') = closes
      <3>1. PICK x \in flight' : x.kind \in Closing /\ x.key = k
        <4>1. T # {} /\ T \subseteq flight'
          BY <1>10, <1>13 DEF SellsOf
        <4>2. \A y \in T : y.kind \in Closing /\ y.key = k
          <5>1. \A y \in T : y \in S \/ (y.key = o.key /\ y.kind = o.kind)
            BY <1>1 DEF NewsTaken, SellsOf
          <5> QED
            BY <1>2, <1>3, <5>1
        <4> QED
          BY <4>1, <4>2
      <3>2. \A l \in CloseKeys : Kept(closes, flight')[l] = closes[l]
        BY <1>7, <3>1 DEF Kept
      <3> QED
        BY <1>7, <3>2 DEF Kept
    <2>4. SellNewsKept(k, cg)
      BY <1>5, <1>10, <1>13, <2>2, <2>3 DEF SellNewsKept
    <2>5. SellNewsTaken(o, k, cg)
      BY <1>1, <1>2, <1>3, <1>4, <1>6, <1>8, <1>12, <2>2 DEF SellNewsTaken
    <2> QED
      BY <2>4, <2>5
  <1>14. CASE ~(cg.frag = "RCV_ONE" \/ cg.filled > 0)
    <2>1. PICK b : b = ClearedBook(book, cg)
      OBVIOUS
    <2>2. PICK d : Handled(b, d, closes)
      BY <1>1, <1>2, <1>4, <1>5, <1>14, <2>1 DEF PostClose, ClearedBook
    <2>3. \A g \in ToSet(cg.groups) : book.grp[g] \in Groups
      <3>1. \A g \in L : Lively(book.grp[g])
        BY <1>8 DEF BookCore, LotsRight
      <3>2. ToSet(cg.groups) \subseteq L
        BY <1>6, <1>9 DEF Marked, ListOf, Listed
      <3> QED
        BY <3>1, <3>2 DEF Lively
    <2>4. /\ b \in Books /\ b.txn = TxnFree(book.txn) /\ b.slots = book.slots
          /\ b.costs = book.costs /\ b.locks = book.locks
          /\ \A g \in Keys : b.grp[g] = IF g \in ToSet(cg.groups)
                                        THEN WithClosing(book.grp[g], 0) ELSE book.grp[g]
      BY <1>8, <2>1, <2>3, BookCleared
    <2>5. /\ book'.txn = b.txn /\ book'.slots = b.slots /\ book'.costs = b.costs
          /\ book'.locks = b.locks
          /\ \A g \in LookedAt(flight', b.costs, b.locks) : book'.grp[g] = b.grp[g]
          /\ \A g \in Keys : book'.grp[g] # NoGroup => g \in Used(b, flight', cgs')
          /\ cgs' = Kept(closes, flight')
      BY <1>1, <2>2, <2>4, HandledIs
    <2>6. T = {} /\ \A l \in CloseKeys : cgs'[l] = NoGroup
      BY <1>7, <1>10, <1>14, <2>5, KeptNone
    <2>7. LookedAt(flight, book.costs, book.locks) \subseteq Keys
      BY <1>8, ListedKeys DEF LookedAt, KeysOf, OpensOf, BookCore, OrdersRight, OrderRight
    <2>8. \A g \in LookedAt(flight, book.costs, book.locks) :
             book'.grp[g] = IF g \in ToSet(cg.groups) THEN WithClosing(book.grp[g], 0)
                                                      ELSE book.grp[g]
      BY <1>11, <2>4, <2>5, <2>7
    <2>9. cg.filled = 0
      BY <1>6, <1>14 DEF Closes
    <2>10. SellNewsEnds(cg)
      BY <2>4, <2>5, <2>6, <2>8, <2>9 DEF SellNewsEnds
    <2>11. \A g \in Keys : book'.grp[g] # NoGroup => g \in Used(book', flight', cgs')
      BY <1>12, <2>4, <2>5
    <2>12. SellNewsTaken(o, k, cg)
      BY <1>1, <1>2, <1>3, <1>4, <1>6, <1>8, <2>4, <2>5, <2>11 DEF SellNewsTaken
    <2> QED
      BY <2>10, <2>12
  <1> QED
    BY <1>13, <1>14

(* The trade of one of two close orders while the other one goes on.       *)
FirstTrade(o) ==
    /\ pc' = pc /\ held' = held /\ cgs' = cgs /\ ~o.news /\ flight' = flight \ {o}
    /\ o.kind \in Closing /\ SellsOf(flight') # {}
    /\ book'.txn = book.txn /\ book'.slots = book.slots /\ book'.costs = book.costs
    /\ book'.locks = book.locks
    /\ \A g \in LookedAt(flight, book.costs, book.locks) : book'.grp[g] = book.grp[g]
    /\ \A g \in Keys : book'.grp[g] # NoGroup => g \in Used(book', flight', cgs')

(* The trade of one of two close orders changes nothing but the file of    *)
(* orders.                                                                 *)
LEMMA FirstTradeIs ==
    ASSUME Core, Calm', NEW o \in flight, OnTrade(o), o.kind \in Closing,
           cgs[o.key].frag = "RCV_ONE"
    PROVE  FirstTrade(o)
  <1>1. /\ pc' = pc /\ ~o.news /\ ~Unknown(o) /\ flight' = flight \ {o}
        /\ OrdersRight(flight') /\ Handled(book, db, cgs)
    <2>1. ~TradeFails(o) /\ (PostCloseAfterTrade(o) \/ PostUnlockAfterTrade(o))
      BY TradeComes DEF Closing
    <2>2. ~Unknown(o) /\ Handled(book, db, cgs)
      BY <2>1 DEF TradeFails, PostCloseAfterTrade, PostUnlockAfterTrade
    <2> QED
      BY <2>2, TradeComes
  <1>2. PICK k : k = o.key
    OBVIOUS
  <1>3. /\ o \in SellsOf(flight) /\ k \in CloseKeys
        /\ CloseNoted(k, SellsOf(flight), pc, cgs, book.costs, book.locks, book.grp,
                      book.txn.closing)
        /\ \A y \in SellsOf(flight) : y.key = k /\ y.kind = o.kind
        /\ \A l \in CloseKeys : l # k => cgs[l] = NoGroup
    BY <1>1, <1>2, SellNoted
  <1>4. book \in Books /\ held' = held /\ cgs \in [CloseKeys -> Closes \cup {NoGroup}]
    BY CoreParts DEF OnTrade
  <1>5. /\ SellsOf(flight') = SellsOf(flight) \ {o}
        /\ LookedAt(flight', book.costs, book.locks) = LookedAt(flight, book.costs, book.locks)
    BY <1>1 DEF SellsOf, LookedAt, OpensOf, Opening, Closing
  <1>6. SellsOf(flight') # {}
    <2>1. SecondNew(SellsOf(flight), cgs[k])
      BY <1>2, <1>3 DEF CloseNoted, Parts
    <2>2. PICK s \in SellsOf(flight) : s.news
      BY <2>1 DEF SecondNew
    <2> QED
      BY <1>1, <1>5, <2>2
  <1>7. /\ book'.txn = book.txn /\ book'.slots = book.slots /\ book'.costs = book.costs
        /\ book'.locks = book.locks
        /\ \A g \in LookedAt(flight, book.costs, book.locks) : book'.grp[g] = book.grp[g]
        /\ \A g \in Keys : book'.grp[g] # NoGroup => g \in Used(book, flight', cgs')
        /\ cgs' = Kept(cgs, flight')
    BY <1>1, <1>4, <1>5, HandledIs
  <1>8. cgs' = cgs
    <2>1. PICK x \in flight' : x.kind \in Closing /\ x.key = k
      BY <1>3, <1>5, <1>6 DEF SellsOf
    <2>2. \A l \in CloseKeys : Kept(cgs, flight')[l] = cgs[l]
      BY <1>3, <2>1 DEF Kept
    <2> QED
      BY <1>4, <1>7, <2>2 DEF Kept
  <1>9. Used(book', flight', cgs') = Used(book, flight', cgs')
    BY <1>7 DEF Used
  <1> QED
    BY <1>1, <1>4, <1>6, <1>7, <1>8, <1>9 DEF FirstTrade

(* The last trade of a close order: its lots are booked on its groups.     *)
LastTrade(o, cg, n, gone, grp) ==
    /\ pc' = pc /\ held' = held /\ ~o.news /\ o.result > 0 /\ flight' = flight \ {o}
    /\ SellsOf(flight) = {o} /\ OpensOf(flight') = OpensOf(flight)
    /\ cg \in Closes /\ cg = cgs[o.key] /\ o.key \in CloseKeys /\ o.kind = ClosingKind(cg.type)
    /\ cg.filled \in 1..cg.quantity
    /\ \A l \in CloseKeys : cgs'[l] = NoGroup
    /\ \A l \in CloseKeys : l # o.key => cgs[l] = NoGroup
    /\ n \in [ToSet(cg.groups) -> Nat] /\ ClosedGroups(book, cg, n, gone, grp)
    /\ ToSet(cg.groups) \subseteq ToSet(ListOf(cg.type, book.costs, book.locks))
    /\ \A g \in LookedAt(flight', book'.costs, book'.locks) : book'.grp[g] = grp[g]
    /\ cg.type = "NORMAL" =>
          /\ book'.txn = TxnClosed(book.txn, cg.filled)
          /\ book'.slots = ResetTxnSlots(book.slots, cg.filled)
          /\ ToSet(book'.costs) = ToSet(book.costs) \ gone /\ book'.locks = book.locks
    /\ cg.type = "LOCK" =>
          /\ book'.txn = TxnUnlocked(book.txn, cg.filled,
                                     IF book.txn.lock - cg.filled = 0 THEN "RUNNING"
                                                                      ELSE book.txn.status)
          /\ book'.slots = book.slots
          /\ book'.costs = book.costs /\ ToSet(book'.locks) = ToSet(book.locks) \ gone
    /\ \A g \in Keys : book'.grp[g] # NoGroup => g \in Used(book', flight', cgs')

(* The last trade of a close order books its lots as LastTrade says.       *)
LEMMA LastTradeIs ==
    ASSUME Core, Calm', NEW o \in flight, OnTrade(o), o.kind \in Closing,
           cgs[o.key].frag # "RCV_ONE"
    PROVE  \E cg, n, gone, grp : LastTrade(o, cg, n, gone, grp)
  <1> DEFINE S == SellsOf(flight)
             T == SellsOf(flight')
             L == Listed(book.costs, book.locks)
  <1>1. /\ pc' = pc /\ ~o.news /\ o.result > 0 /\ OrderRight(o) /\ ~Unknown(o)
        /\ flight' = flight \ {o} /\ OrdersRight(flight')
    BY TradeComes DEF TradeFails
  <1>2. PICK k, cg : k = o.key /\ cg = cgs[o.key]
    OBVIOUS
  <1>3. /\ o \in S /\ k \in CloseKeys /\ o \in Orders
        /\ CloseNoted(k, S, pc, cgs, book.costs, book.locks, book.grp, book.txn.closing)
        /\ cg \in Closes /\ o.kind = ClosingKind(cg.type)
        /\ \A l \in CloseKeys : l # k => cgs[l] = NoGroup
    BY <1>1, <1>2, SellNoted
  <1>4. /\ book \in Books /\ BookCore(flight, pc, cgs, book) /\ held' = held
        /\ cgs \in [CloseKeys -> Closes \cup {NoGroup}]
    BY CoreParts DEF OnTrade
  <1>5. OpensOf(flight') = OpensOf(flight)
    BY <1>1 DEF OpensOf, Opening, Closing
  <1>6. Marked(S, k, cg, book.costs, book.locks, book.grp) /\ Parts(S, cg)
    BY <1>2, <1>3 DEF CloseNoted
  <1>7. S = {o} /\ T = {} /\ cg.filled \in 1..cg.quantity
    <2>1. S = {o} /\ cg.filled \in 1..cg.quantity
      BY <1>1, <1>2, <1>3, <1>6, LastPartOf
    <2> QED
      BY <1>1, <2>1 DEF SellsOf
  <1>8. /\ \A g \in L : Lively(book.grp[g])
        /\ IsInjective(cg.groups) /\ ToSet(cg.groups) \subseteq L
        /\ ToSet(cg.groups) \subseteq ToSet(ListOf(cg.type, book.costs, book.locks))
        /\ IsInjective(book.costs) /\ IsInjective(book.locks)
    BY <1>4, <1>6 DEF BookCore, LotsRight, ListsRight, Marked, ListOf, Listed
  <1>9. PICK r, gone : r = BookClosed(book, cg) /\ gone = Emptied(r, cg)
    OBVIOUS
  <1>10. /\ r \in Books /\ r.txn = book.txn /\ r.slots = book.slots /\ r.costs = book.costs
         /\ r.locks = book.locks
         /\ \E n \in [ToSet(cg.groups) -> Nat] : ClosedGroups(book, cg, n, gone, r.grp)
    BY <1>3, <1>4, <1>8, <1>9, BookIsClosed
  <1>11. OnlyBooked(book, cg, r, gone)
    BY <1>9, <1>10 DEF OnlyBooked
  <1>12. PICK n \in [ToSet(cg.groups) -> Nat] : ClosedGroups(book, cg, n, gone, r.grp)
    BY <1>10
  <1> DEFINE Booked(c) ==
                /\ c \in Books /\ c.grp = r.grp
                /\ cg.type = "NORMAL" =>
                      /\ c.txn = TxnClosed(book.txn, cg.filled)
                      /\ c.slots = ResetTxnSlots(book.slots, cg.filled)
                      /\ ToSet(c.costs) = ToSet(book.costs) \ gone /\ c.locks = book.locks
                /\ cg.type = "LOCK" =>
                      /\ c.txn = TxnUnlocked(book.txn, cg.filled,
                                             IF book.txn.lock - cg.filled = 0 THEN "RUNNING"
                                                                              ELSE book.txn.status)
                      /\ c.slots = book.slots
                      /\ c.costs = book.costs /\ ToSet(c.locks) = ToSet(book.locks) \ gone
  <1>13. ASSUME NEW c, NEW e, Handled(c, e, cgs), Booked(c)
         PROVE  \E g0 : LastTrade(o, cg, n, gone, g0)
    <2>1. /\ book'.txn = c.txn /\ book'.slots = c.slots /\ book'.costs = c.costs
          /\ book'.locks = c.locks
          /\ \A g \in LookedAt(flight', c.costs, c.locks) : book'.grp[g] = c.grp[g]
          /\ \A g \in Keys : book'.grp[g] # NoGroup => g \in Used(c, flight', cgs')
          /\ cgs' = Kept(cgs, flight')
      BY <1>1, <1>13, HandledIs
    <2>2. \A l \in CloseKeys : cgs'[l] = NoGroup
      BY <1>4, <1>7, <2>1, KeptNone
    <2>3. Used(book', flight', cgs') = Used(c, flight', cgs')
      BY <2>1 DEF Used
    <2>4. LastTrade(o, cg, n, gone, r.grp)
      BY <1>1, <1>2, <1>3, <1>4, <1>5, <1>7, <1>8, <1>12, <1>13, <2>1, <2>2, <2>3 DEF LastTrade
    <2> QED
      BY <2>4
  <1>14. CASE o.kind = "close"
    <2>1. PICK c, e : c = ClosedBookOf(book, cg) /\ e = ClosedSave(db, c, cg)
      OBVIOUS
    <2>2. Handled(c, e, cgs)
      <3>1. PostCloseAfterTrade(o)
        BY <1>14, TradeComes
      <3>2. c = ClosedBook(o)
        BY <1>2, <2>1 DEF ClosedBook, ClosedBookOf
      <3> QED
        BY <1>2, <2>1, <3>1, <3>2 DEF PostCloseAfterTrade, BookClose, ClosedSave
    <2>3. cg.type = "NORMAL"
      BY <1>3, <1>14 DEF ClosingKind
    <2>4. /\ c \in Books /\ c.txn = TxnClosed(book.txn, cg.filled) /\ c.txn \in Txns
          /\ c.slots = ResetTxnSlots(book.slots, cg.filled)
          /\ IsInjective(c.costs) /\ ToSet(c.costs) = ToSet(book.costs) \ gone
          /\ c.locks = book.locks /\ c.grp = r.grp
      BY <1>3, <1>4, <1>8, <1>11, <2>1, ClosedBookIs
    <2> QED
      BY <1>13, <2>2, <2>3, <2>4
  <1>15. CASE o.kind = "unlock"
    <2>1. PICK status : status = IF book.txn.lock - cg.filled = 0 THEN "RUNNING" ELSE book.txn.status
      OBVIOUS
    <2>2. PICK c, e : c = UnlockedBookOf(book, cg, status) /\ e = UnlockedSave(db, c, cg)
      OBVIOUS
    <2>3. Handled(c, e, cgs)
      <3>1. PostUnlockAfterTrade(o)
        BY <1>15, TradeComes
      <3>2. c = Unlocked(o)
        BY <1>2, <1>4, <1>9, <1>10, <2>1, <2>2 DEF Unlocked, UnlockedBookOf
      <3> QED
        BY <1>2, <2>2, <3>1, <3>2 DEF PostUnlockAfterTrade, UnlockedSave
    <2>4. cg.type = "LOCK"
      BY <1>3, <1>15 DEF ClosingKind, Closes
    <2>5. status \in Status
      BY <1>4, <2>1, BookParts DEF Status
    <2>6. /\ c \in Books /\ c.txn = TxnUnlocked(book.txn, cg.filled, status) /\ c.txn \in Txns
          /\ c.slots = book.slots
          /\ IsInjective(c.locks) /\ ToSet(c.locks) = ToSet(book.locks) \ gone
          /\ c.costs = book.costs /\ c.grp = r.grp
      BY <1>3, <1>4, <1>8, <1>11, <2>2, <2>5, UnlockedBookIs
    <2> QED
      BY <1>13, <2>1, <2>3, <2>4, <2>6
  <1> QED
    BY <1>14, <1>15 DEF Closing

(* Lots of the groups of cg are marked for a close order (close, unlock).  *)
CloseMarks(kind, cg) ==
    /\ pc = Idle /\ book.txn.closing = 0 /\ held' = held /\ cgs' = cgs
    /\ cg.quantity > 0 /\ MarkedBy(book, cg, kind, book')
    /\ ClosingIn(book'.grp, ToSet(cg.groups)) = cg.quantity
    /\ kind = "close" => /\ book.txn.status \in {"ONLY_CLOSE", "RUNNING"}
                         /\ ToSet(book.costs) \ ToSet(cg.groups) # {}
    /\ kind = "unlock" => book.txn.status = "UNLOCKING"

(* close whose orders are sent, or that leaves everything as it was.       *)
LEMMA CloseIs ==
    ASSUME Core, Close
    PROVE  \/ \E cg : CloseMarks("close", cg) /\ SendClose("close", cg)
           \/ UNCHANGED <<book, pc, flight, cgs, held>> /\ odd \subseteq odd'
  <1> DEFINE L(good)    == SubSeq(book.costs, 1, good)
             C(good, v) == CloseGroup("NORMAL", book, L(good), v)
             M(good, v) == MarkClosing(book, L(good), v)
  <1>1. /\ state = "up" /\ pc = Idle /\ book.txn.closing = 0 /\ cgs' = cgs /\ held' = held
        /\ book.txn.status \in {"ONLY_CLOSE", "RUNNING"}
    BY DEF Close
  <1>2. PICK good \in Closeable, volume \in 1..MaxVolume :
            /\ C(good, volume).quantity > 0
            /\ \/ SendClose("close", C(good, volume)) /\ book' = M(good, volume)
               \/ /\ NothingSent("close", C(good, volume))
                  /\ book' = UnmarkClosing(M(good, volume), C(good, volume))
    BY DEF Close
  <1>3. PICK list, cg, c : list = L(good) /\ cg = C(good, volume) /\ c = M(good, volume)
    OBVIOUS
  <1>4. volume \in Nat \ {0} /\ book.costs = ListOf("NORMAL", book.costs, book.locks)
    BY GridAssumption DEF ListOf
  <1>5. /\ book \in Books /\ ListsRight(book.costs, book.locks)
        /\ LotsRight(Listed(book.costs, book.locks), book.grp)
        /\ \A g \in Listed(book.costs, book.locks) : book.grp[g].closing = 0
        /\ book.costs \in Seq(Keys)
    BY <1>1, CoreParts, BookParts, NoneUnderWay DEF BookCore
  <1>6. good \in 1..Len(book.costs) /\ good < Len(book.costs) /\ Len(book.costs) \in Nat
    <2>1. Len(book.costs) \in Nat
      BY <1>5
    <2> QED
      BY <2>1 DEF Closeable
  <1>7. PICK b, costs : b = book /\ costs = ListOf("NORMAL", b.costs, b.locks)
    OBVIOUS
  <1>8. /\ list = SubSeq(ListOf("NORMAL", b.costs, b.locks), 1, good)
        /\ good \in 0..Len(ListOf("NORMAL", b.costs, b.locks))
    BY <1>3, <1>4, <1>6, <1>7
  <1>9. Scannable(b, list) /\ ToSet(list) \subseteq ToSet(ListOf("NORMAL", b.costs, b.locks))
    BY <1>5, <1>7, <1>8, FreeToClose
  <1>10. cg = CloseGroup("NORMAL", b, list, volume) /\ c = MarkClosing(b, list, volume)
    BY <1>3, <1>7
  <1>11. MarkedAs(b, cg, c) /\ cg.type = "NORMAL"
    BY <1>4, <1>5, <1>7, <1>9, <1>10, MarkedBook DEF CloseGroup
  <1>12. ClosingIn(c.grp, ToSet(cg.groups)) = cg.quantity /\ ToSet(cg.groups) \subseteq ToSet(list)
    <2>1. "grp" \in DOMAIN b /\ b.grp \in [Keys -> Groups \cup {NoGroup}]
      BY <1>5, <1>7, BookParts
    <2>2. PICK grp : grp = c.grp
      OBVIOUS
    <2>3. grp = MarkClosing(b, list, volume).grp
      BY <1>10, <2>2
    <2>4. ClosingIn(grp, ToSet(cg.groups)) = cg.quantity /\ ToSet(cg.groups) \subseteq ToSet(list)
      BY <1>4, <1>9, <1>10, <2>1, <2>3, ScanMarks
    <2> QED
      BY <2>2, <2>4
  <1>13. ToSet(book.costs) \ ToSet(cg.groups) # {}
    <2>1. PICK s, m : s = book.costs /\ m = Len(s)
      OBVIOUS
    <2>2. s \in Seq(Keys) /\ m \in Nat /\ good \in 1..m /\ good < m /\ IsInjective(s)
      BY <1>5, <1>6, <2>1 DEF ListsRight
    <2>3. ToSet(list) = {s[i] : i \in 1..good}
      <3>1. list = SubSeq(s, 1, good) /\ Len(list) = good /\ \A i \in 1..good : list[i] = s[i]
        BY <1>3, <2>1, <2>2
      <3> QED
        BY <2>2, <3>1 DEF ToSet
    <2>4. s[m] \in ToSet(s)
      BY <2>1, <2>2 DEF ToSet
    <2>5. s[m] \notin ToSet(list)
      BY <2>1, <2>2, <2>3 DEF IsInjective
    <2> QED
      BY <1>12, <2>1, <2>4, <2>5
  <1> HIDE DEF L, C, M
  <1>14. CASE SendClose("close", cg) /\ book' = c
    <2>1. MarkedBy(book, cg, "close", book')
      BY <1>7, <1>11, <1>14 DEF MarkedBy, MarkedAs, ClosingKind
    <2>2. CloseMarks("close", cg)
      BY <1>1, <1>2, <1>3, <1>12, <1>13, <1>14, <2>1 DEF CloseMarks
    <2> QED
      BY <1>14, <2>2
  <1>15. CASE NothingSent("close", cg) /\ book' = UnmarkClosing(c, cg)
    <2>1. /\ \A g \in ToSet(cg.groups) : c.grp[g] \in Groups /\ WithClosing(c.grp[g], 0) = book.grp[g]
          /\ c \in Books
      BY <1>5, <1>7, <1>11, MarkedGroups DEF MarkedAs
    <2>2. PICK a : a = book'
      OBVIOUS
    <2>3. /\ a \in Books /\ a.txn = c.txn /\ a.slots = c.slots /\ a.costs = c.costs
          /\ a.locks = c.locks
          /\ \A g \in Keys : a.grp[g] = IF g \in ToSet(cg.groups)
                                        THEN WithClosing(c.grp[g], 0) ELSE c.grp[g]
      BY <1>15, <2>1, <2>2, Unmarked
    <2>4. \A g \in Keys : a.grp[g] = book.grp[g]
      BY <1>7, <1>11, <2>1, <2>3 DEF MarkedAs
    <2>5. a.grp = book.grp
      BY <1>5, <2>3, <2>4, BookParts
    <2>6. a.txn = book.txn /\ a.slots = book.slots /\ a.costs = book.costs /\ a.locks = book.locks
      BY <1>7, <1>11, <2>3 DEF MarkedAs
    <2>7. a = book
      BY <1>5, <2>3, <2>5, <2>6 DEF Books
    <2>8. UNCHANGED <<pc, flight>> /\ odd \subseteq odd'
      BY <1>15 DEF NothingSent, Meets
    <2> QED
      BY <1>1, <2>2, <2>7, <2>8
  <1> QED
    BY <1>2, <1>3, <1>14, <1>15

(* unlock, whose orders are sent or not.                                   *)
LEMMA UnlockIs ==
    ASSUME Core, Unlock
    PROVE  \E cg : CloseMarks("unlock", cg) /\ (SendClose("unlock", cg) \/ NothingSent("unlock", cg))
  <1> DEFINE C(v) == CloseGroup("LOCK", book, book.locks, v)
             M(v) == MarkClosing(book, book.locks, v)
  <1>1. /\ pc = Idle /\ book.txn.closing = 0 /\ cgs' = cgs /\ held' = held
        /\ book.txn.status = "UNLOCKING"
    BY DEF Unlock
  <1>2. PICK volume \in 1..MaxVolume :
            /\ C(volume).quantity > 0
            /\ book' = [M(volume) EXCEPT !.txn.closing = C(volume).quantity]
            /\ SendClose("unlock", C(volume)) \/ NothingSent("unlock", C(volume))
    BY DEF Unlock
  <1>3. PICK b, list, cg, c : /\ b = book /\ list = book.locks /\ cg = C(volume) /\ c = M(volume)
                              /\ cg = CloseGroup("LOCK", b, list, volume)
                              /\ c = MarkClosing(b, list, volume)
    OBVIOUS
  <1>4. volume \in Nat \ {0} /\ list = ListOf("LOCK", b.costs, b.locks)
    BY <1>3, GridAssumption DEF ListOf
  <1>5. /\ b \in Books /\ ListsRight(b.costs, b.locks)
        /\ LotsRight(Listed(b.costs, b.locks), b.grp)
        /\ \A g \in Listed(b.costs, b.locks) : b.grp[g].closing = 0
    BY <1>1, <1>3, CoreParts, NoneUnderWay DEF BookCore
  <1>6. Len(list) \in Nat /\ list = SubSeq(list, 1, Len(list))
    <2>1. list \in Seq(Keys)
      BY <1>3, CoreParts, BookParts
    <2> QED
      BY <2>1
  <1>7. Scannable(b, list) /\ ToSet(list) \subseteq ToSet(ListOf("LOCK", b.costs, b.locks))
    BY <1>4, <1>5, <1>6, FreeToClose
  <1>8. MarkedAs(b, cg, c) /\ cg.type = "LOCK"
    BY <1>3, <1>4, <1>5, <1>7, MarkedBook DEF CloseGroup
  <1>9. ClosingIn(c.grp, ToSet(cg.groups)) = cg.quantity
    <2>1. "grp" \in DOMAIN b /\ b.grp \in [Keys -> Groups \cup {NoGroup}]
      BY <1>5, BookParts
    <2>2. PICK grp : grp = c.grp
      OBVIOUS
    <2>3. grp = MarkClosing(b, list, volume).grp
      BY <1>3, <2>2
    <2>4. ClosingIn(grp, ToSet(cg.groups)) = cg.quantity
      BY <1>3, <1>4, <1>7, <2>1, <2>3, ScanMarks
    <2> QED
      BY <2>2, <2>4
  <1>10. MarkedBy(book, cg, "unlock", book') /\ book'.grp = c.grp
    <2>1. PICK m, n : m = book' /\ n = cg.quantity
      OBVIOUS
    <2>2. c \in Books /\ c.txn \in Txns /\ n \in Nat
      BY <1>8, <2>1, BookParts DEF MarkedAs, Closes
    <2>3. m = [c EXCEPT !.txn.closing = n]
      BY <1>2, <1>3, <2>1
    <2>4. PICK t : t = TxnClosing(c.txn, n)
      OBVIOUS
    <2>5. t \in Txns
      BY <2>2, <2>4, ClosingCounted
    <2>6. m = [c EXCEPT !.txn = t]
      BY <2>2, <2>3, <2>4 DEF TxnClosing, Books
    <2>7. /\ m \in Books /\ m.txn = t /\ m.slots = c.slots /\ m.costs = c.costs
          /\ m.locks = c.locks /\ m.grp = c.grp
      BY <2>2, <2>5, <2>6, TxnWritten
    <2>8. MarkedAs(book, cg, c) /\ "unlock" = ClosingKind(cg.type)
      BY <1>3, <1>8 DEF ClosingKind
    <2> QED
      BY <2>1, <2>4, <2>7, <2>8 DEF MarkedBy, MarkedAs
  <1> HIDE DEF C, M
  <1>11. CloseMarks("unlock", cg)
    BY <1>1, <1>2, <1>3, <1>9, <1>10 DEF CloseMarks
  <1> QED
    BY <1>2, <1>3, <1>11

-----------------------------------------------------------------------------
(* The lots of the groups.                                                 *)

(* The groups whose lots are counted as open or as locked.                 *)
Opens(F, b) == Counted(F, "open", b.costs)
Locks(F, b) == Counted(F, "lock", b.locks)

(* A group that is counted has lots.                                       *)
Holding(C, grp) ==
    /\ C \subseteq Keys /\ IsFiniteSet(C)
    /\ \A g \in C : grp[g] \in Groups /\ Remain(grp[g]) \in Nat \ {0}

(* The groups that are counted hold lots, and none is counted twice.       *)
LEMMA CountedHold ==
    ASSUME NEW F, F \in SUBSET Orders, IsFiniteSet(F), NEW p, NEW closes, NEW b \in Books,
           BookCore(F, p, closes, b)
    PROVE  /\ Holding(Opens(F, b), b.grp) /\ Holding(Locks(F, b), b.grp)
           /\ Opens(F, b) \subseteq LookedAt(F, b.costs, b.locks)
           /\ Locks(F, b) \subseteq LookedAt(F, b.costs, b.locks)
           /\ LookedAt(F, b.costs, b.locks) \subseteq Keys
           /\ Opens(F, b) \cap Locks(F, b) = {}
           /\ \A o \in FreshOf(F) : o.key \notin Opens(F, b) \cup Locks(F, b)
           /\ \A kind \in Opening : \A o \in HeardOf(F, kind) : Remain(b.grp[o.key]) = o.result
  <1>1. /\ OrdersRight(F) /\ FreshRight(F, p, b.txn.opening)
        /\ GroupsRight(F, p, Listed(b.costs, b.locks), b.grp)
        /\ LotsRight(Listed(b.costs, b.locks), b.grp) /\ ListsRight(b.costs, b.locks)
    BY DEF BookCore
  <1>2. /\ Listed(b.costs, b.locks) \subseteq Keys /\ b.costs \in Seq(Keys) /\ b.locks \in Seq(Keys)
    BY BookParts, ListedKeys
  <1>3. \A o \in OpensOf(F) : o.key \in Keys /\ o.key \notin Listed(b.costs, b.locks)
    BY <1>1 DEF OpensOf, OrdersRight, OrderRight, GroupsRight
  <1>4. ASSUME NEW kind \in Opening, NEW o \in HeardOf(F, kind)
        PROVE  /\ b.grp[o.key] \in Groups /\ Remain(b.grp[o.key]) = o.result
               /\ o.result \in Nat \ {0} /\ o \in OpensOf(F)
    <2>1. o \in OpensOf(F) /\ ~o.news /\ o.result > 0 /\ OrderRight(o) /\ o \in F
      BY <1>1 DEF HeardOf, OpensOf, OrdersRight, OrderRight
    <2>2. ~Sent(p, o.key)
      <3>1. SUFFICES ASSUME Sent(p, o.key) PROVE FALSE
        OBVIOUS
      <3>2. PICK x \in FreshOf(F) : p.key = x.key
        BY <1>1, <3>1 DEF FreshRight, Sent
      <3>3. x = o
        BY <1>1, <2>1, <3>1, <3>2 DEF OrdersRight, FreshOf, OpensOf, Sent
      <3> QED
        BY <2>1, <3>2, <3>3 DEF FreshOf
    <2>3. Opened(o, b.grp[o.key])
      BY <1>1, <2>1, <2>2 DEF GroupsRight
    <2>4. o.result \in Int
      BY <2>1 DEF Orders
    <2>5. PICK g : g = b.grp[o.key]
      OBVIOUS
    <2>6. g \in Groups /\ g.filled = o.result /\ g.close = 0
      BY <2>1, <2>3, <2>5 DEF Opened
    <2>7. Remain(g) = o.result
      BY <2>4, <2>6 DEF Remain
    <2> QED
      BY <2>1, <2>4, <2>5, <2>6, <2>7
  <1>5. ASSUME NEW kind \in Opening, NEW list \in Seq(Keys),
               ToSet(list) \subseteq Listed(b.costs, b.locks)
        PROVE  /\ Holding(Counted(F, kind, list), b.grp)
               /\ Counted(F, kind, list) \subseteq LookedAt(F, b.costs, b.locks)
               /\ \A o \in FreshOf(F) : o.key \notin Counted(F, kind, list)
    <2>1. KeysOf(HeardOf(F, kind)) \subseteq KeysOf(OpensOf(F))
      BY <1>4 DEF KeysOf
    <2>2. Counted(F, kind, list) \subseteq Keys
      BY <1>2, <1>3, <1>5, <2>1 DEF Counted, KeysOf
    <2>3. IsFiniteSet(Counted(F, kind, list))
      <3>1. IsFiniteSet(Keys)
        <4>1. MaxGroups \in Nat
          BY GridAssumption
        <4> QED
          BY <4>1, FS_Interval DEF Keys
      <3> QED
        BY <2>2, <3>1, FS_Subset
    <2>4. ASSUME NEW g \in Counted(F, kind, list)
          PROVE  b.grp[g] \in Groups /\ Remain(b.grp[g]) \in Nat \ {0}
      <3>1. CASE g \in ToSet(list)
        <4>1. Lively(b.grp[g])
          BY <1>1, <1>5, <3>1 DEF LotsRight
        <4>2. PICK x : x = b.grp[g]
          OBVIOUS
        <4>3. x \in Groups /\ Remain(x) > 0 /\ Remain(x) \in Int
          BY <4>1, <4>2 DEF Lively, Groups, Remain
        <4> QED
          BY <4>2, <4>3
      <3>2. CASE g \notin ToSet(list)
        <4>1. PICK o \in HeardOf(F, kind) : g = o.key
          BY <3>2 DEF Counted, KeysOf
        <4> QED
          BY <1>4, <4>1
      <3> QED
        BY <3>1, <3>2
    <2>5. ASSUME NEW o \in FreshOf(F) PROVE o.key \notin Counted(F, kind, list)
      <3>1. o \in OpensOf(F)
        BY DEF FreshOf, OpensOf
      <3>2. o.key \notin ToSet(list)
        BY <1>3, <1>5, <3>1
      <3>3. \A x \in HeardOf(F, kind) : x.key # o.key
        BY <1>1 DEF OrdersRight, HeardOf, FreshOf
      <3> QED
        BY <3>2, <3>3 DEF Counted, KeysOf
    <2> QED
      BY <1>5, <2>1, <2>2, <2>3, <2>4, <2>5 DEF Holding, LookedAt, Counted
  <1>6. ToSet(b.costs) \subseteq Listed(b.costs, b.locks) /\ ToSet(b.locks) \subseteq Listed(b.costs, b.locks)
    BY DEF Listed
  <1>7. "open" \in Opening /\ "lock" \in Opening
    BY DEF Opening
  <1>8. Opens(F, b) \cap Locks(F, b) = {}
    <2>1. \A o \in HeardOf(F, "open"), x \in HeardOf(F, "lock") : o.key # x.key
      BY <1>1 DEF OrdersRight, HeardOf, Opening
    <2>2. \A o \in HeardOf(F, "open") \cup HeardOf(F, "lock") : o.key \notin Listed(b.costs, b.locks)
      BY <1>3, <1>4, <1>7
    <2>3. ToSet(b.costs) \cap ToSet(b.locks) = {}
      BY <1>1 DEF ListsRight
    <2> QED
      BY <2>1, <2>2, <2>3 DEF Opens, Locks, Counted, KeysOf, Listed
  <1>9. LookedAt(F, b.costs, b.locks) \subseteq Keys
    BY <1>2, <1>3 DEF LookedAt, KeysOf
  <1> QED
    BY <1>2, <1>4, <1>5, <1>6, <1>7, <1>8, <1>9 DEF Opens, Locks

(* Lots of groups that are counted.                                        *)
LEMMA LotsHeld ==
    ASSUME NEW C, NEW grp, Holding(C, grp)
    PROVE  /\ LotsIn(grp, C) \in Nat
           /\ \A g \in C : Remain(grp[g]) <= LotsIn(grp, C)
           /\ LotsIn(grp, C) = 0 <=> C = {}
  <1> DEFINE f == [g \in C |-> Remain(grp[g])]
  <1>1. IsFiniteSet(C) /\ \A g \in C : f[g] \in Nat /\ f[g] > 0
    BY DEF Holding
  <1>2. LotsIn(grp, C) = SumFunctionOnSet(f, C)
    BY DEF LotsIn, SumFunction
  <1> HIDE DEF f
  <1>3. SumFunctionOnSet(f, C) \in Nat
    BY <1>1, SumIsNat
  <1>4. ASSUME NEW g \in C PROVE f[g] <= SumFunctionOnSet(f, C)
    <2>1. SumFunctionOnSet(f, C) = f[g] + SumFunctionOnSet(f, C \ {g})
      BY <1>1, SumTakeOut
    <2>2. SumFunctionOnSet(f, C \ {g}) \in Nat
      <3>1. IsFiniteSet(C \ {g})
        BY <1>1, FS_Subset
      <3> QED
        BY <1>1, <3>1, SumIsNat
    <2> QED
      BY <1>1, <2>1, <2>2
  <1>5. C = {} => SumFunctionOnSet(f, C) = 0
    BY SumOfNone
  <1>6. \A g \in C : f[g] = Remain(grp[g])
    BY DEF f
  <1>7. SumFunctionOnSet(f, C) = 0 => C = {}
    BY <1>1, <1>3, <1>4
  <1> QED
    BY <1>2, <1>3, <1>4, <1>5, <1>6, <1>7

(* The same groups are counted with the same lots.                         *)
LEMMA LotsFramed ==
    ASSUME NEW F, NEW b, LotsCounted(F, b), NEW G, NEW c,
           c.txn.open = b.txn.open, c.txn.lock = b.txn.lock,
           Opens(G, c) = Opens(F, b), Locks(G, c) = Locks(F, b),
           IsFiniteSet(Opens(F, b)), IsFiniteSet(Locks(F, b)),
           \A g \in Opens(F, b) \cup Locks(F, b) : Remain(c.grp[g]) = Remain(b.grp[g])
    PROVE  LotsCounted(G, c)
  <1>1. PICK S, R, x, y : S = Opens(F, b) /\ R = Locks(F, b) /\ x = b.grp /\ y = c.grp
    OBVIOUS
  <1>2. LotsIn(y, S) = LotsIn(x, S) /\ LotsIn(y, R) = LotsIn(x, R)
    BY <1>1, SameLots
  <1> QED
    BY <1>1, <1>2 DEF LotsCounted, Opens, Locks

(* The same, with nothing changed but of groups nobody looks at.           *)
LEMMA LotsStay ==
    ASSUME Core, LotsCounted(flight, book),
           book'.txn.open = book.txn.open, book'.txn.lock = book.txn.lock,
           Opens(flight', book') = Opens(flight, book), Locks(flight', book') = Locks(flight, book),
           \A g \in Opens(flight, book) \cup Locks(flight, book) :
              Remain(book'.grp[g]) = Remain(book.grp[g])
    PROVE  LotsCounted(flight', book')
  <1>1. IsFiniteSet(Opens(flight, book)) /\ IsFiniteSet(Locks(flight, book))
    BY CoreParts, CountedHold DEF Holding
  <1> QED
    BY <1>1, LotsFramed

(* The final news of an order that opens: its group has lots, if it was    *)
(* filled.                                                                 *)
LEMMA OpenNewsLots ==
    ASSUME Core, LotsCounted(flight, book), NEW o \in flight, o.kind \in Opening, OpenNews(o)
    PROVE  LotsCounted(flight', book')
  <1> DEFINE k == o.key
             r == o.result
  <1>1. /\ book \in Books /\ BookCore(flight, pc, cgs, book) /\ flight \in SUBSET Orders
        /\ IsFiniteSet(flight)
    BY CoreParts
  <1>2. PICK A, B : A = Opens(flight, book) /\ B = Locks(flight, book)
    OBVIOUS
  <1>3. /\ Holding(A, book.grp) /\ Holding(B, book.grp) /\ A \cap B = {}
        /\ k \notin A \cup B /\ A \subseteq LookedAt(flight, book.costs, book.locks)
        /\ B \subseteq LookedAt(flight, book.costs, book.locks)
    <2>1. o \in FreshOf(flight)
      BY DEF FreshOf, OpenNews
    <2> QED
      BY <1>1, <1>2, <2>1, CountedHold
  <1>4. /\ NewsTaken(flight, o, flight') /\ r \in Nat /\ o.news
        /\ book'.costs = book.costs /\ book'.locks = book.locks
    BY DEF OpenNews
  <1>5. \A kind \in Opening : HeardOf(flight', kind) =
            IF r > 0 /\ kind = o.kind THEN HeardOf(flight, kind) \cup (HeardOf(flight', kind) \ flight)
                                      ELSE HeardOf(flight, kind)
    BY <1>4 DEF NewsTaken, HeardOf
  <1>6. \A kind \in Opening : KeysOf(HeardOf(flight', kind)) =
            IF r > 0 /\ kind = o.kind THEN KeysOf(HeardOf(flight, kind)) \cup {k}
                                      ELSE KeysOf(HeardOf(flight, kind))
    <2>1. CASE r > 0
      <3>1. PICK x \in Orders : /\ flight' = (flight \ {o}) \cup {x} /\ x \notin flight \ {o}
                                /\ x.kind = o.kind /\ x.key = k /\ ~x.news
        BY <1>4, <2>1 DEF NewsTaken
      <3>2. \A kind \in Opening : HeardOf(flight', kind) =
               IF kind = o.kind THEN HeardOf(flight, kind) \cup {x} ELSE HeardOf(flight, kind)
        BY <1>4, <3>1 DEF HeardOf
      <3> QED
        BY <2>1, <3>1, <3>2 DEF KeysOf
    <2>2. CASE ~(r > 0)
      BY <1>5, <2>2
    <2> QED
      BY <2>1, <2>2
  <1>7. PICK C, D : C = Opens(flight', book') /\ D = Locks(flight', book')
    OBVIOUS
  <1>8. /\ C = IF r > 0 /\ o.kind = "open" THEN A \cup {k} ELSE A
        /\ D = IF r > 0 /\ o.kind = "lock" THEN B \cup {k} ELSE B
    <2> HIDE DEF k, r
    <2>1. "open" \in Opening /\ "lock" \in Opening
      BY DEF Opening
    <2>2. /\ C = ToSet(book.costs) \cup KeysOf(HeardOf(flight', "open"))
          /\ D = ToSet(book.locks) \cup KeysOf(HeardOf(flight', "lock"))
          /\ A = ToSet(book.costs) \cup KeysOf(HeardOf(flight, "open"))
          /\ B = ToSet(book.locks) \cup KeysOf(HeardOf(flight, "lock"))
      BY <1>2, <1>4, <1>7 DEF Opens, Locks, Counted
    <2>3. /\ KeysOf(HeardOf(flight', "open")) = IF r > 0 /\ o.kind = "open"
                                               THEN KeysOf(HeardOf(flight, "open")) \cup {k}
                                               ELSE KeysOf(HeardOf(flight, "open"))
          /\ KeysOf(HeardOf(flight', "lock")) = IF r > 0 /\ o.kind = "lock"
                                               THEN KeysOf(HeardOf(flight, "lock")) \cup {k}
                                               ELSE KeysOf(HeardOf(flight, "lock"))
      BY <1>6, <2>1
    <2>4. CASE r > 0 /\ o.kind = "open"
      BY <2>2, <2>3, <2>4
    <2>5. CASE r > 0 /\ o.kind = "lock"
      BY <2>2, <2>3, <2>5
    <2>6. CASE ~(r > 0 /\ o.kind = "open") /\ ~(r > 0 /\ o.kind = "lock")
      BY <2>2, <2>3, <2>6
    <2> QED
      BY <2>4, <2>5, <2>6
  <1>9. \A g \in A \cup B : g \in LookedAt(flight', book.costs, book.locks) /\ g # k
    <2>1. \A kind \in Opening : KeysOf(HeardOf(flight, kind)) \subseteq KeysOf(OpensOf(flight'))
      BY <1>4 DEF KeysOf, HeardOf, OpensOf, NewsTaken
    <2> QED
      BY <1>2, <1>3, <2>1 DEF Opens, Locks, Counted, LookedAt, Listed, Opening
  <1>10. \A g \in A \cup B : book'.grp[g] = book.grp[g]
    BY <1>9 DEF OpenNews
  <1>11. r > 0 => book'.grp[k] \in Groups /\ Remain(book'.grp[k]) = r
    <2>1. SUFFICES ASSUME r > 0 PROVE book'.grp[k] \in Groups /\ Remain(book'.grp[k]) = r
      OBVIOUS
    <2>2. Opened(o, book.grp[k])
      BY <1>1 DEF OpenNews, BookCore, GroupsRight, OpensOf
    <2>3. PICK x, y : x = book.grp[k] /\ y = book'.grp[k]
      OBVIOUS
    <2>4. x \in Groups /\ x.close = 0 /\ y = WithFilled(x, r)
      BY <2>1, <2>2, <2>3 DEF Opened, OpenNews
    <2>5. y \in Groups /\ y.close = 0 /\ y.filled = r
      BY <1>4, <2>4 DEF WithFilled, Groups
    <2> QED
      BY <1>4, <2>3, <2>5 DEF Remain
  <1>12. PICK grp, new : grp = book.grp /\ new = book'.grp
    OBVIOUS
  <1>13. /\ LotsIn(new, A) = LotsIn(grp, A) /\ LotsIn(new, B) = LotsIn(grp, B)
         /\ IsFiniteSet(A) /\ IsFiniteSet(B)
         /\ \A g \in A \cup B : new[g] \in Groups
         /\ LotsIn(grp, A) \in Nat /\ LotsIn(grp, B) \in Nat
    <2>1. IsFiniteSet(A) /\ IsFiniteSet(B) /\ \A g \in A \cup B : grp[g] \in Groups
      BY <1>3, <1>12 DEF Holding
    <2> QED
      BY <1>3, <1>10, <1>12, <2>1, SameLots, LotsHeld
  <1>14. r > 0 => /\ LotsIn(new, A \cup {k}) = LotsIn(new, A) + r
                  /\ LotsIn(new, B \cup {k}) = LotsIn(new, B) + r
    <2> HIDE DEF k, r
    <2>1. SUFFICES ASSUME r > 0
                   PROVE  /\ LotsIn(new, A \cup {k}) = LotsIn(new, A) + r
                          /\ LotsIn(new, B \cup {k}) = LotsIn(new, B) + r
      OBVIOUS
    <2>2. PICK z : z = k
      OBVIOUS
    <2>3. new[z] \in Groups /\ Remain(new[z]) = r
      BY <1>11, <1>12, <2>1, <2>2
    <2>4. z \notin A /\ z \notin B /\ IsFiniteSet(A) /\ IsFiniteSet(B)
      BY <1>3, <1>13, <2>2
    <2>5. \A g \in A \cup {z} : new[g] \in Groups
      BY <1>13, <2>3
    <2>6. \A g \in B \cup {z} : new[g] \in Groups
      BY <1>13, <2>3
    <2>7. LotsIn(new, A \cup {z}) = LotsIn(new, A) + Remain(new[z])
      BY <2>4, <2>5, OneGroup
    <2>8. LotsIn(new, B \cup {z}) = LotsIn(new, B) + Remain(new[z])
      BY <2>4, <2>6, OneGroup
    <2> QED
      BY <2>2, <2>3, <2>7, <2>8
  <1>15. book.txn.open = LotsIn(grp, A) /\ book.txn.lock = LotsIn(grp, B)
    BY <1>2, <1>12 DEF LotsCounted, Opens, Locks
  <1>16. CASE o.kind = "open"
    <2>1. book'.txn.open = book.txn.open + r /\ book'.txn.lock = book.txn.lock
      <3>1. book'.txn = TxnOpened(book.txn, r) /\ book.txn \in Txns
        BY <1>1, <1>16, BookParts DEF OpenNews
      <3> QED
        BY <3>1 DEF TxnOpened, Txns
    <2>2. LotsIn(new, C) = LotsIn(grp, A) + r /\ LotsIn(new, D) = LotsIn(grp, B)
      BY <1>4, <1>8, <1>13, <1>14, <1>16
    <2> QED
      BY <1>7, <1>12, <1>15, <2>1, <2>2 DEF LotsCounted, Opens, Locks
  <1>17. CASE o.kind = "lock"
    <2>1. book'.txn.lock = book.txn.lock + r /\ book'.txn.open = book.txn.open
      <3>1. book'.txn = TxnLocked(book.txn, r) /\ book.txn \in Txns
        BY <1>1, <1>17, BookParts DEF OpenNews
      <3> QED
        BY <3>1 DEF TxnLocked, Txns
    <2>2. LotsIn(new, D) = LotsIn(grp, B) + r /\ LotsIn(new, C) = LotsIn(grp, A)
      BY <1>4, <1>8, <1>13, <1>14, <1>17
    <2> QED
      BY <1>7, <1>12, <1>15, <2>1, <2>2 DEF LotsCounted, Opens, Locks
  <1> QED
    BY <1>16, <1>17 DEF Opening

(* The lots and the status fit together: what is kept besides Core.        *)
LockCore ==
    /\ LotsCounted(flight, book)
    /\ MarksRight(pc, cgs, book.grp)
    /\ StatusRight(flight, book.txn)
    /\ Spared(pc, cgs, book.costs, book.txn.status)
    /\ "signal" \notin odd => LockingOnly(flight, book.txn)

(* Nothing is heard of the orders that open, and none is new.              *)
NothingHeard ==
    /\ \A kind \in Opening : HeardOf(flight', kind) = HeardOf(flight, kind)
    /\ \A o \in flight' : \E x \in flight : x.kind = o.kind /\ x.quantity = o.quantity
                                              /\ (o.news => x.news)

(* The lots and the lists stay.                                            *)
SameBook ==
    /\ book'.costs = book.costs /\ book'.locks = book.locks
    /\ book'.txn.open = book.txn.open /\ book'.txn.lock = book.txn.lock
    /\ \A g \in Opens(flight, book) \cup Locks(flight, book) :
          Remain(book'.grp[g]) = Remain(book.grp[g])
SameStatus == book'.txn.status = book.txn.status /\ book'.txn.lockable = book.txn.lockable

(* Where the lots, the lists and what is heard stay, the count stays.      *)
LEMMA LotsSame ==
    ASSUME Core, LockCore, SameBook, \A kind \in Opening : HeardOf(flight', kind) = HeardOf(flight, kind)
    PROVE  LotsCounted(flight', book')
  <1>1. Opens(flight', book') = Opens(flight, book) /\ Locks(flight', book') = Locks(flight, book)
    BY DEF SameBook, Opens, Locks, Counted, Opening
  <1> QED
    BY <1>1, LotsStay DEF SameBook, LockCore

(* Where the lots, the lists, the status and what is heard stay, the       *)
(* status stays right.                                                     *)
LEMMA StatusSame ==
    ASSUME LockCore, SameBook, SameStatus, NothingHeard, odd \subseteq odd'
    PROVE  /\ StatusRight(flight', book'.txn)
           /\ "signal" \notin odd' => LockingOnly(flight', book'.txn)
  <1>1. PICK t, u : t = book.txn /\ u = book'.txn
    OBVIOUS
  <1>2. u.status = t.status /\ u.lockable = t.lockable /\ u.open = t.open /\ u.lock = t.lock
    BY <1>1 DEF SameBook, SameStatus
  <1>3. HeardOf(flight', "lock") = HeardOf(flight, "lock")
    BY DEF NothingHeard, Opening
  <1>4. StatusRight(flight, t) /\ ("signal" \notin odd => LockingOnly(flight, t))
    BY <1>1 DEF LockCore
  <1>5. StatusRight(flight', u)
    BY <1>2, <1>3, <1>4 DEF StatusRight, NothingHeard
  <1>6. "signal" \notin odd' => LockingOnly(flight', u)
    BY <1>2, <1>4 DEF LockingOnly, NothingHeard
  <1> QED
    BY <1>1, <1>5, <1>6

(* What is marked stays, and so do the groups of the close orders.         *)
MarksStay ==
    /\ pc' = pc \/ (pc'.kind \notin Closing)
    /\ \A k \in CloseKeys : cgs'[k] = cgs[k] \/ cgs'[k] = NoGroup
    /\ \A g \in Listed(book.costs, book.locks) : book'.grp[g].closing = book.grp[g].closing

(* The groups of a close order are in the lists.                           *)
LEMMA CloseListed ==
    ASSUME Core
    PROVE  /\ pc.kind \in Closing /\ pc.at = "sent" =>
                /\ IsFiniteSet(ToSet(pc.cg.groups))
                /\ ToSet(pc.cg.groups) \subseteq Listed(book.costs, book.locks)
           /\ \A k \in CloseKeys : cgs[k] # NoGroup =>
                /\ IsFiniteSet(ToSet(cgs[k].groups))
                /\ ToSet(cgs[k].groups) \subseteq Listed(book.costs, book.locks)
  <1>1. /\ CloseRight(SellsOf(flight), pc, cgs, book.costs, book.locks, book.grp, book.txn.closing)
        /\ cgs \in [CloseKeys -> Closes \cup {NoGroup}] /\ pc \in Pcs
    BY CoreParts DEF BookCore
  <1>2. \A s \in Seq(Keys) : IsFiniteSet(ToSet(s))
    <2> TAKE s \in Seq(Keys)
    <2>1. ToSet(s) \subseteq Keys
      BY ElementOfSeq, LenProperties DEF ToSet
    <2>2. IsFiniteSet(Keys)
      BY GridAssumption, FS_Interval DEF Keys
    <2> QED
      BY <2>1, <2>2, FS_Subset
  <1>3. ASSUME NEW k \in CloseKeys, cgs[k] # NoGroup
        PROVE  /\ IsFiniteSet(ToSet(cgs[k].groups))
               /\ ToSet(cgs[k].groups) \subseteq Listed(book.costs, book.locks)
    <2>1. PICK l \in CloseKeys : CloseNoted(l, SellsOf(flight), pc, cgs, book.costs, book.locks,
                                            book.grp, book.txn.closing)
      BY <1>1, <1>3 DEF CloseRight, NoClosing, CloseSent
    <2>2. Marked(SellsOf(flight), l, cgs[l], book.costs, book.locks, book.grp) /\ l = k
      BY <1>3, <2>1 DEF CloseNoted
    <2>3. cgs[k].groups \in Seq(Keys)
      BY <1>1, <1>3 DEF Closes
    <2> QED
      BY <1>2, <2>2, <2>3 DEF Marked, ListOf, Listed
  <1>4. ASSUME pc.kind \in Closing, pc.at = "sent"
        PROVE  /\ IsFiniteSet(ToSet(pc.cg.groups))
               /\ ToSet(pc.cg.groups) \subseteq Listed(book.costs, book.locks)
    <2>1. CloseSent(SellsOf(flight), pc, cgs, book.costs, book.locks, book.grp, book.txn.closing)
      BY <1>1, <1>4 DEF CloseRight, NoClosing, CloseNoted
    <2>2. Marked(SellsOf(flight), pc.key, pc.cg, book.costs, book.locks, book.grp)
      BY <2>1 DEF CloseSent
    <2>3. pc.cg.groups \in Seq(Keys)
      BY <1>1, <1>4 DEF Pcs, Idle, OpenPcs, ClosePcs, Closes, Opening, Closing
    <2> QED
      BY <1>2, <2>2, <2>3 DEF Marked, ListOf, Listed
  <1> QED
    BY <1>3, <1>4

(* Where marks and close groups stay or go, the marks stay right.          *)
LEMMA MarksSame ==
    ASSUME Core, LockCore, MarksStay
    PROVE  MarksRight(pc', cgs', book'.grp)
  <1>1. PICK x, y : x = book.grp /\ y = book'.grp
    OBVIOUS
  <1>2. MarksRight(pc, cgs, x) /\ \A g \in Listed(book.costs, book.locks) : y[g].closing = x[g].closing
    BY <1>1 DEF LockCore, MarksStay
  <1>3. \A S : IsFiniteSet(S) /\ S \subseteq Listed(book.costs, book.locks)
                  => ClosingIn(y, S) = ClosingIn(x, S)
    BY <1>2, SameClosing
  <1>4. pc'.kind \in Closing /\ pc'.at = "sent" => ClosingIn(y, ToSet(pc'.cg.groups)) = pc'.cg.quantity
    <2>1. SUFFICES ASSUME pc'.kind \in Closing, pc'.at = "sent"
                   PROVE  ClosingIn(y, ToSet(pc'.cg.groups)) = pc'.cg.quantity
      OBVIOUS
    <2>2. pc' = pc
      BY <2>1 DEF MarksStay
    <2> QED
      BY <1>2, <1>3, <2>1, <2>2, CloseListed DEF MarksRight
  <1>5. ASSUME NEW k \in CloseKeys, cgs'[k] # NoGroup
        PROVE  ClosingIn(y, ToSet(cgs'[k].groups)) = cgs'[k].quantity
    <2>1. cgs'[k] = cgs[k]
      BY <1>5 DEF MarksStay
    <2> QED
      BY <1>2, <1>3, <1>5, <2>1, CloseListed DEF MarksRight
  <1> QED
    BY <1>1, <1>4, <1>5 DEF MarksRight

(* A group stays spared from closing while groups are only added to those  *)
(* held open.                                                              *)
LEMMA SparedSame ==
    ASSUME LockCore, ToSet(book.costs) \subseteq ToSet(book'.costs),
           book'.costs = book.costs \/ book'.costs # <<>>,
           book'.txn.status \notin {"NEW", "READY"} =>
              book.txn.status \notin {"NEW", "READY"} \/ book'.costs # <<>>,
           pc' = pc \/ (pc'.kind \notin Closing) \/ (pc'.at # "sent"),
           \A k \in CloseKeys : cgs'[k] = cgs[k] \/ cgs'[k] = NoGroup
    PROVE  Spared(pc', cgs', book'.costs, book'.txn.status)
  <1>1. PICK c, e : c = ToSet(book.costs) /\ e = ToSet(book'.costs)
    OBVIOUS
  <1>2. Spared(pc, cgs, book.costs, book.txn.status) /\ c \subseteq e
    BY <1>1 DEF LockCore
  <1>3. pc'.kind = "close" /\ pc'.at = "sent" => e \ ToSet(pc'.cg.groups) # {}
    BY <1>1, <1>2 DEF Spared, Closing
  <1>4. ASSUME NEW k \in CloseKeys, cgs'[k] # NoGroup, cgs'[k].type = "NORMAL"
        PROVE  e \ ToSet(cgs'[k].groups) # {}
    <2>1. cgs'[k] = cgs[k]
      BY <1>4
    <2>2. c \ ToSet(cgs[k].groups) # {}
      BY <1>1, <1>2, <1>4, <2>1 DEF Spared
    <2> QED
      BY <1>2, <2>1, <2>2
  <1>5. book'.txn.status \notin {"NEW", "READY"} => book'.costs # <<>>
    BY <1>2 DEF Spared
  <1> QED
    BY <1>1, <1>3, <1>4, <1>5 DEF Spared

(* What a signal or a tick makes of the status, but for the start of a lock.*)
Turned(from, to) ==
    \/ from = "NEW" /\ to = "READY"
    \/ from = "ONLY_CLOSE" /\ to = "RUNNING"
    \/ from = "RUNNING" /\ to = "ONLY_CLOSE"
    \/ from = "LOCK" /\ to = "UNLOCKING"

(* A new status; what the signal says of the lots to lock.                 *)
LEMMA SignalLocks ==
    ASSUME Core, LockCore, odd \subseteq odd', UpdateSignal \/ HandleTxnStatus
    PROVE  LockCore'
  <1>1. PICK t, u : t = book.txn /\ u = book'.txn
    OBVIOUS
  <1>2. /\ book \in Books /\ UNCHANGED <<flight, pc, cgs>>
        /\ book'.costs = book.costs /\ book'.locks = book.locks /\ book'.grp = book.grp
        /\ u.open = t.open /\ u.lock = t.lock
        /\ \/ u.lockable = t.lockable /\ Turned(t.status, u.status)
           \/ /\ t.status = "RUNNING" /\ u.status = "LOCKING" /\ u.lockable = t.open
              /\ "signal" \notin odd' => Quiet
    <2>1. book \in Books
      BY CoreParts
    <2>2. ASSUME NEW from, NEW to \in {"READY", "RUNNING", "ONLY_CLOSE", "UNLOCKING"}, SetStatus(from, to)
          PROVE  /\ book'.costs = book.costs /\ book'.locks = book.locks /\ book'.grp = book.grp
                 /\ u.open = t.open /\ u.lock = t.lock /\ u.lockable = t.lockable
                 /\ t.status = from /\ u.status = to
      <3>1. to \in Status
        BY DEF Status
      <3>2. book' = [book EXCEPT !.txn.status = to] /\ book.txn.status = from
        BY <2>2 DEF SetStatus
      <3> QED
        BY <1>1, <2>1, <3>1, <3>2, StatusWritten
    <2>3. CASE UpdateSignal
      <3>1. CASE SignalTxn
        <4>1. \/ SetStatus("NEW", "READY")
              \/ SetStatus("ONLY_CLOSE", "RUNNING")
              \/ SetStatus("RUNNING", "ONLY_CLOSE")
          BY <3>1 DEF SignalTxn
        <4> QED
          BY <2>1, <2>2, <2>3, <4>1 DEF Turned, UpdateSignal
      <3>2. CASE SignalUnlock
        <4>1. SetStatus("LOCK", "UNLOCKING")
          BY <3>2 DEF SignalUnlock
        <4> QED
          BY <2>1, <2>2, <2>3, <4>1 DEF Turned, UpdateSignal
      <3>3. CASE SignalLock
        <4>1. book' = [book EXCEPT !.txn.status = "LOCKING", !.txn.lockable = book.txn.open]
          BY <3>3 DEF SignalLock
        <4>2. book'.txn = [book.txn EXCEPT !.status = "LOCKING", !.lockable = book.txn.open]
          BY <2>1, <4>1, BookParts DEF Books
        <4>3. /\ u.status = "LOCKING" /\ u.lockable = t.open /\ u.open = t.open /\ u.lock = t.lock
          BY <1>1, <2>1, <4>2, BookParts DEF Txns
        <4>4. book'.costs = book.costs /\ book'.locks = book.locks /\ book'.grp = book.grp
          BY <2>1, <4>1 DEF Books
        <4>5. "signal" \notin odd' => Quiet
          BY <3>3 DEF SignalLock, Meets
        <4> QED
          BY <1>1, <2>1, <2>3, <3>3, <4>3, <4>4, <4>5 DEF SignalLock, UpdateSignal
      <3> QED
        BY <2>3, <3>1, <3>2, <3>3 DEF UpdateSignal
    <2>4. CASE HandleTxnStatus
      BY <2>1, <2>2, <2>4 DEF HandleTxnStatus, Turned
    <2> QED
      BY <2>3, <2>4
  <1>3. SameBook
    BY <1>1, <1>2 DEF SameBook
  <1>4. LotsCounted(flight', book')
    BY <1>2, <1>3, LotsSame
  <1>5. MarksRight(pc', cgs', book'.grp)
    <2>1. MarksStay
      BY <1>2 DEF MarksStay
    <2> QED
      BY <2>1, MarksSame
  <1>6. Spared(pc', cgs', book'.costs, book'.txn.status)
    <2>1. /\ book.txn.status \notin {"NEW", "READY"} \/ book'.txn.status \in {"NEW", "READY"}
          /\ ToSet(book.costs) \subseteq ToSet(book'.costs)
      BY <1>1, <1>2 DEF Turned
    <2> QED
      BY <1>2, <2>1, SparedSame
  <1>7. t.status = "RUNNING" => t.open > 0
    <2>1. SUFFICES ASSUME t.status = "RUNNING" PROVE t.open > 0
      OBVIOUS
    <2>2. book.costs # <<>>
      BY <1>1, <2>1 DEF LockCore, Spared
    <2>3. Opens(flight, book) # {}
      <3>1. book.costs \in Seq(Keys)
        BY <1>2, BookParts
      <3>2. book.costs[1] \in ToSet(book.costs)
        BY <2>2, <3>1, EmptySeq, LenProperties DEF ToSet
      <3> QED
        BY <3>2 DEF Opens, Counted
    <2>4. Holding(Opens(flight, book), book.grp)
      BY CoreParts, CountedHold
    <2>5. t.open = LotsIn(book.grp, Opens(flight, book))
      BY <1>1 DEF LockCore, LotsCounted, Opens
    <2>6. LotsIn(book.grp, Opens(flight, book)) \in Nat /\ LotsIn(book.grp, Opens(flight, book)) # 0
      BY <2>3, <2>4, LotsHeld
    <2> QED
      BY <2>5, <2>6
  <1>8. StatusRight(flight, t) /\ ("signal" \notin odd => LockingOnly(flight, t))
    BY <1>1 DEF LockCore
  <1>9. StatusRight(flight', u)
    <2>1. flight' = flight /\ t \in Txns
      BY <1>1, <1>2, BookParts
    <2>2. CASE t.status = "RUNNING" /\ u.status = "LOCKING" /\ u.lockable = t.open
      <3>1. t.lock = 0 /\ u.lock = 0 /\ u.lockable > 0 /\ u.lockable \in Int
        BY <1>2, <1>7, <1>8, <2>1, <2>2 DEF StatusRight, Phases, Txns
      <3>2. \A o \in flight : ~(o.kind = "lock" /\ o.news) /\ o.kind # "unlock"
        BY <1>8, <2>2 DEF StatusRight
      <3> QED
        BY <2>1, <2>2, <3>1, <3>2 DEF StatusRight, Phases
    <2>3. CASE u.lockable = t.lockable
      <3>1. u.open = t.open /\ u.lock = t.lock /\ flight' = flight /\ StatusRight(flight, t)
        BY <1>2, <1>8, <2>1
      <3>2. CASE Turned(t.status, u.status)
        <4>1. CASE t.status = "LOCK" /\ u.status = "UNLOCKING"
          BY <3>1, <4>1 DEF StatusRight, Phases
        <4>2. CASE t.status \in {"NEW", "ONLY_CLOSE", "RUNNING"} /\ u.status \in {"READY", "RUNNING", "ONLY_CLOSE"}
          BY <3>1, <4>2 DEF StatusRight, Phases
        <4> QED
          BY <3>2, <4>1, <4>2 DEF Turned
      <3>3. CASE t.status = "RUNNING" /\ u.status = "LOCKING" /\ u.lockable = t.open
        BY <2>2, <3>3
      <3> QED
        BY <1>2, <3>2, <3>3
    <2> QED
      BY <1>2, <2>2, <2>3
  <1>10. "signal" \notin odd' => LockingOnly(flight', u)
    <2>1. SUFFICES ASSUME "signal" \notin odd' PROVE LockingOnly(flight', u)
      OBVIOUS
    <2>2. LockingOnly(flight, t) /\ t \in Txns /\ flight' = flight
      BY <1>1, <1>2, <1>8, <2>1, BookParts
    <2>3. CASE t.status = "RUNNING" /\ u.status = "LOCKING" /\ u.lockable = t.open
      <3>1. flight = {}
        BY <1>2, <2>1, <2>3 DEF Quiet, Turned
      <3>2. u.lock = 0 /\ u.open > 0
        BY <1>2, <1>7, <1>8, <2>3 DEF StatusRight, Phases
      <3>3. u.lock <= u.open /\ u.lockable = u.open
        BY <1>2, <2>2, <2>3, <3>2 DEF Txns
      <3> QED
        BY <2>2, <3>1, <3>3 DEF LockingOnly
    <2>4. CASE u.lockable = t.lockable
      <3>1. u.open = t.open /\ u.lock = t.lock
        BY <1>2
      <3>2. u.status \in Phases => t.status \in Phases \/ (t.status = "RUNNING" /\ u.status = "LOCKING" /\ u.lockable = t.open)
        BY <1>2 DEF Turned, Phases
      <3>3. CASE u.status \in Phases => t.status \in Phases
        BY <2>2, <2>4, <3>1, <3>3 DEF LockingOnly
      <3>4. CASE t.status = "RUNNING" /\ u.status = "LOCKING" /\ u.lockable = t.open
        BY <2>3, <3>4
      <3> QED
        BY <3>2, <3>3, <3>4
    <2> QED
      BY <1>2, <2>3, <2>4
  <1> QED
    BY <1>1, <1>4, <1>5, <1>6, <1>9, <1>10 DEF LockCore

(* An order to open or to lock is sent, the only one that is new.          *)
Sends(kind, n, slot, o) ==
    /\ pc = Idle /\ book.txn.opening = 0 /\ FreshOf(flight) = {}
    /\ cgs' = cgs /\ held' = held /\ odd \subseteq odd'
    /\ kind = "lock" /\ "late_trade" \notin odd' => \A x \in flight : x.kind # "lock"
    /\ pc'.at = "sent" /\ pc'.kind = kind /\ pc'.key = o.key /\ pc'.quantity = n /\ pc'.slot = slot
    /\ flight' = flight \cup {o} /\ o \notin flight /\ o \in Orders
    /\ o.kind = kind /\ o.quantity = n /\ o.news /\ o.result = -1 /\ o.key \in Keys
    /\ o.key \notin LookedAt(flight, book.costs, book.locks)
    /\ o.key \notin Used(book, flight, cgs)
    /\ book'.txn = book.txn /\ book'.costs = book.costs /\ book'.locks = book.locks
    /\ book'.grp = book.grp

(* What sending an order to open or to lock writes.                        *)
LEMMA SendOpenIs ==
    ASSUME Core, pc = Idle, book.txn.opening = 0, NEW kind \in Opening, NEW n \in Nat \ {0},
           NEW slot, SendOpen(kind, n, slot), cgs' = cgs, held' = held,
           book'.txn = book.txn, book'.costs = book.costs, book'.locks = book.locks,
           book'.grp = book.grp
    PROVE  \E o : Sends(kind, n, slot, o)
  <1>1. PICK g \in FreeKeys :
            /\ pc' = [at |-> "sent", kind |-> kind, key |-> g, quantity |-> n, slot |-> slot]
            /\ flight' = flight \cup {Order(kind, g, 1, n)}
            /\ Meets(IF kind = "lock" /\ \E o \in flight : o.kind = "lock" THEN {"late_trade"} ELSE {})
    BY DEF SendOpen
  <1>2. PICK o : o = Order(kind, g, 1, n)
    OBVIOUS
  <1>3. g \in Keys /\ g \notin Used(book, flight, cgs)
    BY <1>1 DEF FreeKeys
  <1>4. g \notin LookedAt(flight, book.costs, book.locks)
    BY <1>3, UsedKeys DEF LookedAt
  <1>5. /\ o.kind = kind /\ o.key = g /\ o.quantity = n /\ o.news /\ o.result = -1
        /\ o \in Orders
    BY <1>2, <1>3 DEF Order, Orders
  <1>6. o \notin flight
    BY <1>4, <1>5 DEF LookedAt, KeysOf, OpensOf
  <1>7. OrdersRight(flight) /\ FreshRight(flight, Idle, 0)
    BY DEF Core, BookCore
  <1>8. FreshOf(flight) = {}
    BY <1>7, NoneOpening
  <1>9. /\ odd \subseteq odd'
        /\ kind = "lock" /\ "late_trade" \notin odd' => \A x \in flight : x.kind # "lock"
    BY <1>1 DEF Meets
  <1>10. /\ pc'.at = "sent" /\ pc'.kind = kind /\ pc'.key = o.key /\ pc'.quantity = n
         /\ pc'.slot = slot
    BY <1>1, <1>5
  <1> QED
    BY <1>1, <1>2, <1>3, <1>4, <1>5, <1>6, <1>8, <1>9, <1>10 DEF Sends

(* open: slots may have been added, and then an order for the room of one  *)
(* of them was sent, or nothing.                                           *)
RoomFor(i, n) ==
    /\ i \in DOMAIN Roomy /\ n \in Nat \ {0} /\ Roomy[i] \in Slots
    /\ Roomy[i].open + n <= Roomy[i].capacity

(* What a tick that opens writes: slots may be added, and an order for the *)
(* room of one of them is sent, or none.                                   *)
LEMMA OpenIs ==
    ASSUME Core, Open
    PROVE  /\ pc = Idle /\ book.txn.status \in {"READY", "RUNNING"} /\ cgs' = cgs /\ held' = held
           /\ book.txn.opening = 0 /\ book'.txn = book.txn /\ book'.costs = book.costs
           /\ book'.locks = book.locks /\ book'.grp = book.grp /\ book'.slots = Roomy
           /\ \/ UNCHANGED <<pc, flight, odd>>
              \/ \E n, i, o : RoomFor(i, n) /\ Sends("open", n, i, o)
  <1>1. /\ pc = Idle /\ book.txn.opening = 0 /\ book.txn.status \in {"READY", "RUNNING"}
        /\ book' = [book EXCEPT !.slots = Roomy] /\ cgs' = cgs /\ held' = held
    BY DEF Open
  <1>2. Roomy \in Seq(Slots)
    <2>1. book.slots \in Seq(Slots) /\ cfg \in Configs
      BY CoreParts, BookParts DEF Types
    <2> QED
      BY <2>1, SlotsExtended DEF Roomy
  <1>3. /\ book'.txn = book.txn /\ book'.costs = book.costs
        /\ book'.locks = book.locks /\ book'.grp = book.grp /\ book'.slots = Roomy
    BY <1>1, <1>2, CoreParts, SlotsWritten
  <1>4. CASE UNCHANGED <<pc, flight, odd>>
    BY <1>1, <1>3, <1>4
  <1>5. CASE \E volume \in 1..MaxVolume :
                LET i == Min(Room(Roomy))
                IN  SendOpen("open", Least(Roomy[i].capacity - Roomy[i].open, volume), i)
    <2>1. PICK volume \in 1..MaxVolume :
              LET i == Min(Room(Roomy))
              IN  SendOpen("open", Least(Roomy[i].capacity - Roomy[i].open, volume), i)
      BY <1>5
    <2>2. PICK i, n : i = Min(Room(Roomy)) /\ n = Least(Roomy[i].capacity - Roomy[i].open, volume)
      OBVIOUS
    <2>3. i \in Room(Roomy)
      <3>1. Room(Roomy) # {} /\ Room(Roomy) \subseteq Nat
        BY <1>2 DEF Open, Room
      <3> QED
        BY <2>2, <3>1, LeastNumber DEF Min
    <2>4. i \in 1..Len(Roomy) /\ Roomy[i].capacity > Roomy[i].open /\ Roomy[i] \in Slots
      BY <1>2, <2>3 DEF Room
    <2>5. n \in Nat \ {0} /\ n <= Roomy[i].capacity - Roomy[i].open
      <3>1. Roomy[i].capacity - Roomy[i].open \in Nat \ {0} /\ volume \in Nat \ {0}
        BY <2>4, GridAssumption DEF Slots
      <3> QED
        BY <2>2, <3>1 DEF Least
    <2>6. SendOpen("open", n, i)
      BY <2>1, <2>2
    <2>7. \E o : Sends("open", n, i, o)
      BY <1>1, <1>3, <2>5, <2>6, SendOpenIs DEF Opening
    <2>8. RoomFor(i, n)
      BY <1>2, <2>4, <2>5 DEF RoomFor, Slots
    <2> QED
      BY <1>1, <1>3, <2>7, <2>8
  <1> QED
    BY <1>4, <1>5 DEF Open

(* What a tick that locks writes: an order for some of the lots still to   *)
(* be locked is sent.                                                      *)
LEMMA LockIs ==
    ASSUME Core, Lock
    PROVE  /\ book.txn.status = "LOCKING" /\ book' = book
           /\ \E n \in Nat \ {0} : \E o : n <= book.txn.lockable - book.txn.lock /\ Sends("lock", n, 0, o)
  <1>1. /\ pc = Idle /\ book.txn.status = "LOCKING" /\ book.txn.opening = 0
        /\ book.txn.lockable > book.txn.lock /\ UNCHANGED <<book, cgs, held>>
    BY DEF Lock
  <1>2. PICK volume \in 1..MaxVolume : SendOpen("lock", Least(book.txn.lockable - book.txn.lock, volume), 0)
    BY DEF Lock
  <1>3. PICK n : n = Least(book.txn.lockable - book.txn.lock, volume)
    OBVIOUS
  <1>4. n \in Nat \ {0} /\ n <= book.txn.lockable - book.txn.lock
    <2>1. book.txn.lockable - book.txn.lock \in Nat \ {0} /\ volume \in Nat \ {0}
      BY <1>1, GridAssumption, CoreParts, BookParts
    <2> QED
      BY <1>3, <2>1 DEF Least
  <1>5. \E o : Sends("lock", n, 0, o)
    BY <1>1, <1>2, <1>3, <1>4, SendOpenIs DEF Opening
  <1> QED
    BY <1>1, <1>4, <1>5

(* An order that opens is under way, and nothing of it is heard.           *)
LEMMA SentHeard ==
    ASSUME NEW kind, NEW n, NEW slot, NEW o, Sends(kind, n, slot, o)
    PROVE  \A k \in Opening : HeardOf(flight', k) = HeardOf(flight, k)
  BY DEF Sends, HeardOf

(* A new order that opens disturbs neither the count of lots nor the marks *)
(* nor the group that is spared.                                           *)
LEMMA SentMarks ==
    ASSUME Core, LockCore, NEW kind \in Opening, NEW n, NEW slot, NEW o, Sends(kind, n, slot, o)
    PROVE  /\ LotsCounted(flight', book') /\ MarksRight(pc', cgs', book'.grp)
           /\ Spared(pc', cgs', book'.costs, book'.txn.status)
  <1>1. SameBook /\ MarksStay
    BY DEF Sends, SameBook, MarksStay, Opening, Closing
  <1>2. LotsCounted(flight', book') /\ MarksRight(pc', cgs', book'.grp)
    BY <1>1, SentHeard, LotsSame, MarksSame
  <1>3. Spared(pc', cgs', book'.costs, book'.txn.status)
    <2>1. /\ book'.costs = book.costs /\ book'.txn = book.txn /\ pc'.kind \notin Closing
          /\ cgs' = cgs
      BY DEF Sends, Opening, Closing
    <2> QED
      BY <2>1, SparedSame
  <1> QED
    BY <1>2, <1>3

(* A tick that opens keeps lots and status fitting.                        *)
LEMMA OpenLocks ==
    ASSUME Core, LockCore, odd \subseteq odd', Open
    PROVE  LockCore'
  <1>1. /\ pc = Idle /\ book.txn.status \in {"READY", "RUNNING"} /\ cgs' = cgs
        /\ book'.txn = book.txn /\ book'.costs = book.costs
        /\ book'.locks = book.locks /\ book'.grp = book.grp
        /\ \/ UNCHANGED <<pc, flight, odd>>
           \/ \E n, i, o : RoomFor(i, n) /\ Sends("open", n, i, o)
    BY OpenIs
  <1>2. CASE UNCHANGED <<pc, flight, odd>>
    BY <1>1, <1>2 DEF LockCore, LotsCounted, Counted
  <1>3. CASE \E n, i, o : RoomFor(i, n) /\ Sends("open", n, i, o)
    <2>1. PICK n, i, o : Sends("open", n, i, o)
      BY <1>3
    <2>2. /\ LotsCounted(flight', book') /\ MarksRight(pc', cgs', book'.grp)
          /\ Spared(pc', cgs', book'.costs, book'.txn.status)
      BY <2>1, SentMarks DEF Opening
    <2>3. PICK t : t = book.txn
      OBVIOUS
    <2>4. HeardOf(flight', "lock") = HeardOf(flight, "lock") /\ flight' = flight \cup {o} /\ o.kind = "open"
      BY <2>1, SentHeard DEF Sends, Opening
    <2>5. StatusRight(flight', t)
      BY <2>3, <2>4 DEF LockCore, StatusRight
    <2>6. LockingOnly(flight', t)
      BY <1>1, <2>3 DEF LockingOnly, Phases
    <2> QED
      BY <1>1, <2>2, <2>3, <2>5, <2>6 DEF LockCore
  <1> QED
    BY <1>1, <1>2, <1>3

(* A tick that locks keeps lots and status fitting.                        *)
LEMMA LockLocks ==
    ASSUME Core, LockCore, odd \subseteq odd', Lock
    PROVE  LockCore'
  <1>1. /\ book.txn.status = "LOCKING" /\ book' = book
        /\ \E n \in Nat \ {0} : \E o : n <= book.txn.lockable - book.txn.lock /\ Sends("lock", n, 0, o)
    BY LockIs
  <1>2. PICK n, o : /\ n \in Nat \ {0} /\ n <= book.txn.lockable - book.txn.lock
                    /\ Sends("lock", n, 0, o)
    BY <1>1
  <1>3. /\ LotsCounted(flight', book') /\ MarksRight(pc', cgs', book'.grp)
        /\ Spared(pc', cgs', book'.costs, book'.txn.status)
    BY <1>2, SentMarks DEF Opening
  <1>4. PICK t : t = book.txn /\ t \in Txns
    BY CoreParts, BookParts
  <1>5. /\ HeardOf(flight', "lock") = HeardOf(flight, "lock") /\ flight' = flight \cup {o}
        /\ o.kind = "lock" /\ o.quantity = n
    BY <1>2, SentHeard DEF Sends, Opening
  <1>6. t.lock + n <= t.lockable /\ t.status = "LOCKING"
    BY <1>1, <1>2, <1>4 DEF Txns
  <1>7. StatusRight(flight', t)
    BY <1>4, <1>5, <1>6 DEF LockCore, StatusRight
  <1>8. "signal" \notin odd' => LockingOnly(flight', t)
    BY <1>4, <1>5 DEF LockCore, LockingOnly
  <1> QED
    BY <1>1, <1>3, <1>4, <1>7, <1>8 DEF LockCore

(* The group of an order is added to the book (add_open_group).            *)
GroupAdded ==
    /\ pc.at = "sent" /\ pc.kind \in Opening /\ pc.key \in Keys /\ pc.slot \in Nat
    /\ pc'.at = "added" /\ pc'.kind = pc.kind /\ pc'.key = pc.key
    /\ pc'.quantity = pc.quantity /\ pc'.slot = pc.slot
    /\ UNCHANGED <<cgs, flight, held, odd>>
    /\ book'.txn = book.txn /\ book'.slots = book.slots
    /\ book'.costs = book.costs /\ book'.locks = book.locks
    /\ book'.grp[pc.key].slot = pc.slot
    /\ \A g \in Keys : g # pc.key => book'.grp[g] = book.grp[g]
    /\ \E o \in FreshOf(flight) : o.key = pc.key /\ o.kind = pc.kind

(* Adding the group of a new order writes what GroupAdded says.            *)
LEMMA AddOpenGroupIs ==
    ASSUME Core, AddOpenGroup
    PROVE  GroupAdded
  <1> DEFINE n == OpenGroup(IF pc.kind = "open" THEN "NORMAL" ELSE "LOCK", pc.quantity, pc.slot)
  <1>1. /\ pc.at = "sent" /\ pc.kind \in Opening
        /\ book' = [book EXCEPT !.grp[pc.key] = n]
        /\ pc' = [pc EXCEPT !.at = "added"] /\ UNCHANGED <<cgs, flight, held, odd>>
    BY DEF AddOpenGroup
  <1>2. pc \in OpenPcs
    BY <1>1, CoreParts DEF Pcs, ClosePcs, Idle, Opening, Closing
  <1>3. /\ pc.key \in Keys /\ pc.quantity \in Nat /\ pc.slot \in Nat
        /\ pc'.at = "added" /\ pc'.kind = pc.kind /\ pc'.key = pc.key
        /\ pc'.quantity = pc.quantity /\ pc'.slot = pc.slot
    BY <1>1, <1>2 DEF OpenPcs
  <1>4. n \in Groups /\ n.slot = pc.slot
    BY <1>3 DEF OpenGroup, Groups
  <1> HIDE DEF n
  <1>5. book \in Books /\ book.grp \in [Keys -> Groups \cup {NoGroup}]
    BY CoreParts, BookParts
  <1>6. PICK h : h = [book.grp EXCEPT ![pc.key] = n]
    OBVIOUS
  <1>7. /\ book'.txn = book.txn /\ book'.slots = book.slots
        /\ book'.costs = book.costs /\ book'.locks = book.locks /\ book'.grp = h
    <2>1. h \in [Keys -> Groups \cup {NoGroup}]
      BY <1>4, <1>5, <1>6
    <2>2. book' = [book EXCEPT !.grp = h]
      BY <1>1, <1>6
    <2> QED
      BY <1>5, <2>1, <2>2, GroupsWritten
  <1>8. h[pc.key] = n /\ \A g \in Keys : g # pc.key => h[g] = book.grp[g]
    BY <1>3, <1>5, <1>6
  <1>9. \E o \in FreshOf(flight) : o.key = pc.key /\ o.kind = pc.kind
    BY <1>1, CoreParts DEF BookCore, FreshRight
  <1> QED
    BY <1>1, <1>3, <1>4, <1>7, <1>8, <1>9 DEF GroupAdded

(* What is under way is counted.                                           *)
OpeningCounted ==
    /\ pc.at = "added" /\ pc.kind \in Opening /\ pc' = Idle
    /\ UNCHANGED <<cgs, flight, held, odd>>
    /\ book'.txn = [book.txn EXCEPT !.opening = pc.quantity]
    /\ book'.costs = book.costs /\ book'.locks = book.locks /\ book'.grp = book.grp
    /\ pc.kind = "lock" => book'.slots = book.slots
    /\ pc.kind = "open" =>
          /\ book'.slots \in Seq(Slots) /\ DOMAIN book'.slots = DOMAIN book.slots
          /\ \A i \in DOMAIN book.slots :
                IF i = pc.slot
                THEN /\ book'.slots[i].open = book.slots[i].open
                     /\ book'.slots[i].capacity = book.slots[i].capacity
                ELSE book'.slots[i] = book.slots[i]

(* Counting what is being opened writes what OpeningCounted says.          *)
LEMMA CountOpeningIs ==
    ASSUME Core, CountOpening
    PROVE  OpeningCounted
  <1>1. /\ pc.at = "added" /\ pc.kind \in Opening /\ pc' = Idle
        /\ UNCHANGED <<cgs, flight, held, odd>>
    BY DEF CountOpening
  <1>2. /\ book \in Books /\ book.txn \in Txns /\ book.slots \in Seq(Slots) /\ book.txn.opening = 0
        /\ pc.quantity \in Nat
    <2>1. pc \in OpenPcs
      BY <1>1, CoreParts DEF Pcs, ClosePcs, Idle, Opening, Closing
    <2> QED
      BY <1>1, <2>1, CoreParts, BookParts DEF BookCore, FreshRight, OpenPcs
  <1>3. PICK t : t = [book.txn EXCEPT !.opening = pc.quantity] /\ t \in Txns
    <2>1. [book.txn EXCEPT !.opening = pc.quantity] \in Txns
      BY <1>2 DEF Txns
    <2> QED
      BY <2>1
  <1>4. PICK b : b = [book EXCEPT !.txn = t]
    OBVIOUS
  <1>5. /\ b \in Books /\ b.txn = t /\ b.slots = book.slots /\ b.costs = book.costs
        /\ b.locks = book.locks /\ b.grp = book.grp
    BY <1>2, <1>3, <1>4, TxnWritten
  <1>6. CASE pc.kind = "lock"
    <2>1. book' = [book EXCEPT !.txn.opening = @ + pc.quantity]
      BY <1>6 DEF CountOpening
    <2>2. book' = b
      BY <1>2, <1>3, <1>4, <2>1
    <2> QED
      BY <1>1, <1>3, <1>5, <1>6, <2>2 DEF OpeningCounted
  <1>7. CASE pc.kind = "open"
    <2>1. book' = [book EXCEPT !.txn.opening = @ + pc.quantity, !.slots[pc.slot].opening = pc.quantity]
      BY <1>7 DEF CountOpening
    <2>2. PICK i, q : i = pc.slot /\ q = pc.quantity
      OBVIOUS
    <2>3. PICK r : r = [book.slots[i] EXCEPT !.opening = q]
      OBVIOUS
    <2>4. PICK s : s = [book.slots EXCEPT ![i] = r]
      OBVIOUS
    <2>5. i \in DOMAIN book.slots => /\ r \in Slots /\ r.open = book.slots[i].open
                                     /\ r.capacity = book.slots[i].capacity
      <3>1. i \in DOMAIN book.slots => book.slots[i] \in Slots
        BY <1>2
      <3> QED
        BY <1>2, <2>2, <2>3, <3>1 DEF Slots
    <2>6. book' = [b EXCEPT !.slots = s]
      <3>1. book' = [b EXCEPT !.slots[i].opening = q]
        <4>1. t = [book.txn EXCEPT !.opening = book.txn.opening + q]
          BY <1>2, <1>3, <2>2
        <4>2. book' = [book EXCEPT !.txn = [book.txn EXCEPT !.opening = book.txn.opening + q],
                                   !.slots[i].opening = q]
          BY <2>1, <2>2
        <4> QED
          BY <1>4, <4>1, <4>2
      <3> QED
        BY <1>5, <2>3, <2>4, <3>1
    <2>8. /\ s \in Seq(Slots) /\ DOMAIN s = DOMAIN book.slots
          /\ \A j \in DOMAIN book.slots : s[j] = IF j = i THEN r ELSE book.slots[j]
      BY <1>2, <2>4, <2>5, SlotChanged
    <2>7. /\ book'.txn = t /\ book'.slots = s /\ book'.costs = book.costs
          /\ book'.locks = book.locks /\ book'.grp = book.grp
      BY <1>5, <2>6, <2>8, SlotsWritten
    <2> QED
      BY <1>1, <1>3, <1>7, <2>2, <2>5, <2>7, <2>8 DEF OpeningCounted
  <1> QED
    BY <1>1, <1>6, <1>7 DEF Opening

(* Adding the group of a new order keeps lots and status fitting.          *)
LEMMA AddOpenGroupLocks ==
    ASSUME Core, LockCore, odd \subseteq odd', AddOpenGroup
    PROVE  LockCore'
  <1>1. GroupAdded
    BY AddOpenGroupIs
  <1>2. PICK o \in FreshOf(flight) : o.key = pc.key
    BY <1>1 DEF GroupAdded
  <1>3. SameBook
    <2>1. pc.key \notin Opens(flight, book) \cup Locks(flight, book)
      BY <1>2, CoreParts, CountedHold
    <2>2. Opens(flight, book) \cup Locks(flight, book) \subseteq Keys
      BY CoreParts, CountedHold DEF Holding
    <2>3. \A g \in Opens(flight, book) \cup Locks(flight, book) : book'.grp[g] = book.grp[g]
      BY <1>1, <2>1, <2>2 DEF GroupAdded
    <2> QED
      BY <1>1, <2>3 DEF SameBook, GroupAdded
  <1>4. MarksStay
    <2>1. o \in OpensOf(flight) /\ GroupsRight(flight, pc, Listed(book.costs, book.locks), book.grp)
      BY <1>2, CoreParts DEF FreshOf, OpensOf, BookCore
    <2>2. pc.key \notin Listed(book.costs, book.locks) /\ Listed(book.costs, book.locks) \subseteq Keys
      BY <1>2, <2>1, CoreParts, ListedKeys DEF GroupsRight
    <2> QED
      BY <1>1, <2>2 DEF MarksStay, GroupAdded, Opening, Closing
  <1>5. NothingHeard /\ SameStatus
    BY <1>1 DEF GroupAdded, NothingHeard, SameStatus
  <1>6. Spared(pc', cgs', book'.costs, book'.txn.status)
    <2>1. /\ book'.costs = book.costs /\ book'.txn = book.txn /\ pc'.kind \notin Closing /\ cgs' = cgs
      BY <1>1 DEF GroupAdded, Opening, Closing
    <2> QED
      BY <2>1, SparedSame
  <1> QED
    BY <1>3, <1>4, <1>5, <1>6, LotsSame, StatusSame, MarksSame DEF LockCore, NothingHeard

(* Counting what is being opened keeps lots and status fitting.            *)
LEMMA CountOpeningLocks ==
    ASSUME Core, LockCore, odd \subseteq odd', CountOpening
    PROVE  LockCore'
  <1>1. OpeningCounted
    BY CountOpeningIs
  <1>2. SameBook /\ SameStatus
    BY <1>1, CoreParts, BookParts DEF OpeningCounted, SameBook, SameStatus, Txns
  <1>3. MarksStay /\ NothingHeard
    BY <1>1 DEF OpeningCounted, MarksStay, NothingHeard, Idle, Closing
  <1>4. Spared(pc', cgs', book'.costs, book'.txn.status)
    <2>1. /\ book'.costs = book.costs /\ book'.txn.status = book.txn.status
          /\ pc'.kind \notin Closing /\ cgs' = cgs
      BY <1>1, <1>2 DEF OpeningCounted, SameStatus, Idle, Closing
    <2> QED
      BY <2>1, SparedSame
  <1> QED
    BY <1>2, <1>3, <1>4, LotsSame, StatusSame, MarksSame DEF LockCore, NothingHeard

(* The orders of a close are sent.                                         *)
SellsSent(kind, cg, k, orders) ==
    /\ pc'.at = "sent" /\ pc'.kind = kind /\ pc'.key = k /\ pc'.cg = cg
    /\ k \in CloseKeys /\ flight' = flight \cup orders /\ odd' = odd
    /\ \A o \in orders : o.kind = kind /\ o.news /\ o.result = -1
    /\ cg.quantity <= Closable(kind)

(* Sending the orders of a close writes what SellsSent says.               *)
LEMMA SendCloseIs ==
    ASSUME NEW kind \in Closing, NEW cg, cg.quantity \in Nat \ {0}, SendClose(kind, cg)
    PROVE  \E k, orders : SellsSent(kind, cg, k, orders)
  <1>1. PICK k \in FreeCloseKeys :
            /\ \E orders \in Split(kind, k, cg.quantity) : flight' = flight \cup orders
            /\ pc' = [at |-> "sent", kind |-> kind, key |-> k, cg |-> cg]
    BY DEF SendClose
  <1>2. PICK orders \in Split(kind, k, cg.quantity) : flight' = flight \cup orders
    BY <1>1
  <1>3. \A o \in orders : o.kind = kind /\ o.news /\ o.result = -1
    BY <1>2 DEF Split, Order
  <1>4. pc'.at = "sent" /\ pc'.kind = kind /\ pc'.key = k /\ pc'.cg = cg
    BY <1>1
  <1> QED
    BY <1>1, <1>2, <1>3, <1>4 DEF SellsSent, SendClose, FreeCloseKeys

(* Marking lots for a close order changes neither lots nor status.         *)
LEMMA MarkedLots ==
    ASSUME Core, NEW kind, NEW cg, CloseMarks(kind, cg)
    PROVE  SameBook /\ SameStatus
  <1>1. PICK m : /\ MarkedAs(book, cg, m) /\ kind = ClosingKind(cg.type)
                 /\ book'.slots = book.slots /\ book'.costs = book.costs
                 /\ book'.locks = book.locks /\ book'.grp = m.grp
                 /\ book'.txn = IF kind = "close" THEN book.txn ELSE TxnClosing(book.txn, cg.quantity)
    BY DEF CloseMarks, MarkedBy
  <1>2. SameStatus /\ book'.txn.open = book.txn.open /\ book'.txn.lock = book.txn.lock
    <2>1. book.txn \in Txns
      BY CoreParts, BookParts
    <2> QED
      BY <1>1, <2>1 DEF TxnClosing, Txns, SameStatus
  <1>3. \A g \in Opens(flight, book) \cup Locks(flight, book) : g \in Keys /\ book.grp[g] \in Groups
    BY CoreParts, CountedHold DEF Holding
  <1>4. \A g \in Opens(flight, book) \cup Locks(flight, book) : Remain(book'.grp[g]) = Remain(book.grp[g])
    <2> TAKE g \in Opens(flight, book) \cup Locks(flight, book)
    <2>1. CASE g \notin ToSet(cg.groups)
      BY <1>1, <1>3, <2>1 DEF MarkedAs
    <2>2. CASE g \in ToSet(cg.groups)
      <3>1. m.grp[g] = WithClosing(book.grp[g], m.grp[g].closing)
        BY <1>1, <2>2 DEF MarkedAs
      <3>2. PICK x, n : x = book.grp[g] /\ n = m.grp[g].closing
        OBVIOUS
      <3>3. Remain(WithClosing(x, n)) = Remain(x)
        BY <1>3, <3>2 DEF WithClosing, Remain, Groups
      <3> QED
        BY <1>1, <3>1, <3>2, <3>3
    <2> QED
      BY <2>1, <2>2
  <1> QED
    BY <1>1, <1>2, <1>4 DEF SameBook

(* Orders of a close, sent for lots that were marked, keep lots and status *)
(* fitting.                                                                *)
LEMMA SellsLocks ==
    ASSUME Core, LockCore, odd \subseteq odd', NEW kind \in Closing, NEW cg, CloseMarks(kind, cg),
           NEW k, NEW orders, SellsSent(kind, cg, k, orders)
    PROVE  LockCore'
  <1>1. SameBook /\ SameStatus
    BY MarkedLots
  <1>2. \A x \in Opening : HeardOf(flight', x) = HeardOf(flight, x)
    BY DEF SellsSent, HeardOf, Opening, Closing
  <1>3. LotsCounted(flight', book')
    BY <1>1, <1>2, LotsSame
  <1>4. cgs' = cgs /\ \A l \in CloseKeys : cgs[l] = NoGroup
    BY NoneUnderWay DEF CloseMarks
  <1>5. MarksRight(pc', cgs', book'.grp)
    BY <1>4 DEF MarksRight, CloseMarks, SellsSent
  <1>6. PICK t, u : t = book.txn /\ u = book'.txn
    OBVIOUS
  <1>7. /\ StatusRight(flight, t) /\ u.status = t.status /\ u.lock = t.lock /\ u.open = t.open
        /\ u.lockable = t.lockable /\ ("signal" \notin odd => LockingOnly(flight, t))
        /\ kind = "unlock" => t.status = "UNLOCKING"
        /\ kind = "close" => t.status \notin Phases
    BY <1>1, <1>6 DEF LockCore, SameBook, SameStatus, CloseMarks, Phases
  <1>8. flight' = flight \cup orders /\ (\A o \in orders : o.kind = kind) /\ odd' = odd
    BY DEF SellsSent
  <1>9. StatusRight(flight', u)
    BY <1>2, <1>7, <1>8 DEF StatusRight, Opening, Closing
  <1>10. "signal" \notin odd' => LockingOnly(flight', u)
    BY <1>7, <1>8 DEF LockingOnly, Closing
  <1>11. Spared(pc', cgs', book'.costs, book'.txn.status)
    BY <1>1, <1>4 DEF Spared, CloseMarks, SellsSent, SameBook, SameStatus, LockCore
  <1> QED
    BY <1>3, <1>5, <1>6, <1>9, <1>10, <1>11 DEF LockCore

(* A tick that closes keeps lots and status fitting.                       *)
LEMMA CloseLocks ==
    ASSUME Core, LockCore, odd \subseteq odd', Close
    PROVE  LockCore'
  <1>1. \/ \E cg : CloseMarks("close", cg) /\ SendClose("close", cg)
        \/ UNCHANGED <<book, pc, flight, cgs, held>>
    BY CloseIs
  <1>2. CASE \E cg : CloseMarks("close", cg) /\ SendClose("close", cg)
    <2>1. PICK cg : CloseMarks("close", cg) /\ SendClose("close", cg)
      BY <1>2
    <2>2. cg.quantity \in Nat \ {0}
      BY <2>1 DEF CloseMarks, MarkedBy, MarkedAs, Closes
    <2> QED
      BY <2>1, <2>2, SendCloseIs, SellsLocks DEF Closing
  <1>3. CASE UNCHANGED <<book, pc, flight, cgs, held>>
    BY <1>3 DEF LockCore, LotsCounted, Counted
  <1> QED
    BY <1>1, <1>2, <1>3

(* A tick that unlocks keeps lots and status fitting.                      *)
LEMMA UnlockLocks ==
    ASSUME Core, LockCore, odd \subseteq odd', Unlock
    PROVE  LockCore'
  <1>1. PICK cg : CloseMarks("unlock", cg) /\ (SendClose("unlock", cg) \/ NothingSent("unlock", cg))
    BY UnlockIs
  <1>2. CASE SendClose("unlock", cg)
    <2>1. cg.quantity \in Nat \ {0}
      BY <1>1 DEF CloseMarks, MarkedBy, MarkedAs, Closes
    <2> QED
      BY <1>1, <1>2, <2>1, SendCloseIs, SellsLocks DEF Closing
  <1>3. CASE NothingSent("unlock", cg)
    <2>1. SameBook /\ SameStatus
      BY <1>1, MarkedLots
    <2>2. NothingHeard /\ flight' = flight /\ pc' = pc
      BY <1>3 DEF NothingSent, NothingHeard
    <2>3. pc = Idle /\ cgs' = cgs /\ \A l \in CloseKeys : cgs[l] = NoGroup
      BY <1>1, NoneUnderWay DEF CloseMarks
    <2>4. MarksRight(pc', cgs', book'.grp)
      BY <2>2, <2>3 DEF MarksRight, Idle, Closing
    <2>5. Spared(pc', cgs', book'.costs, book'.txn.status)
      BY <2>1, <2>2, <2>3 DEF LockCore, Spared, SameBook, SameStatus
    <2> QED
      BY <2>1, <2>2, <2>4, <2>5, LotsSame, StatusSame DEF LockCore, NothingHeard
  <1> QED
    BY <1>1, <1>2, <1>3

(* A close order is noted (add_close_group).                               *)
CloseGroupNoted ==
    /\ pc.at = "sent" /\ pc.kind \in Closing /\ pc.key \in CloseKeys /\ pc.cg \in Closes
    /\ UNCHANGED <<book, flight, held, odd>>
    /\ \A k \in CloseKeys : k # pc.key => cgs'[k] = cgs[k]
    /\ cgs'[pc.key] # NoGroup /\ cgs'[pc.key].type = pc.cg.type /\ cgs'[pc.key].filled = pc.cg.filled
    /\ cgs'[pc.key].groups = pc.cg.groups /\ cgs'[pc.key].quantity = pc.cg.quantity
    /\ IF pc.kind = "close"
       THEN /\ pc'.at = "added" /\ pc'.kind = "close" /\ pc'.key = pc.key /\ pc'.cg = pc.cg
       ELSE pc' = Idle

(* Noting a close order writes what CloseGroupNoted says.                  *)
LEMMA AddCloseGroupIs ==
    ASSUME Core, AddCloseGroup
    PROVE  CloseGroupNoted
  <1>1. /\ pc.at = "sent" /\ pc.kind \in Closing /\ UNCHANGED <<book, flight, held, odd>>
        /\ pc' = IF pc.kind = "close" THEN [pc EXCEPT !.at = "added"] ELSE Idle
        /\ cgs \in [CloseKeys -> Closes \cup {NoGroup}]
    BY CoreParts DEF AddCloseGroup
  <1>2. PICK f : cgs' = [cgs EXCEPT ![pc.key] = [pc.cg EXCEPT !.frag = f]] /\ f \in {"NEED", "NO"}
    BY DEF AddCloseGroup
  <1>3. pc \in ClosePcs
    BY <1>1, CoreParts DEF Pcs, OpenPcs, Idle, Opening, Closing
  <1>4. pc.key \in CloseKeys /\ pc.cg \in Closes
    BY <1>3 DEF ClosePcs
  <1>5. PICK new : new = [pc.cg EXCEPT !.frag = f]
    OBVIOUS
  <1>6. /\ new.type = pc.cg.type /\ new.filled = pc.cg.filled /\ new.groups = pc.cg.groups
        /\ new.quantity = pc.cg.quantity /\ new \in Closes
    BY <1>2, <1>4, <1>5 DEF Closes, Frags
  <1>7. new # NoGroup
    BY <1>6 DEF Closes, NoGroup
  <1>8. cgs'[pc.key] = new /\ \A k \in CloseKeys : k # pc.key => cgs'[k] = cgs[k]
    BY <1>1, <1>2, <1>4, <1>5
  <1>9. pc.kind = "close" => /\ pc'.at = "added" /\ pc'.kind = "close" /\ pc'.key = pc.key
                             /\ pc'.cg = pc.cg
    BY <1>1, <1>3 DEF ClosePcs
  <1> QED
    BY <1>1, <1>4, <1>6, <1>7, <1>8, <1>9 DEF CloseGroupNoted

(* Noting a close order keeps lots and status fitting.                     *)
LEMMA AddCloseGroupLocks ==
    ASSUME Core, LockCore, odd \subseteq odd', AddCloseGroup
    PROVE  LockCore'
  <1>1. CloseGroupNoted
    BY AddCloseGroupIs
  <1>2. pc.kind = ClosingKind(pc.cg.type)
    <2>1. CloseRight(SellsOf(flight), pc, cgs, book.costs, book.locks, book.grp, book.txn.closing)
      BY CoreParts DEF BookCore
    <2> QED
      BY <1>1, <2>1 DEF CloseRight, NoClosing, CloseSent, CloseNoted, CloseGroupNoted
  <1>3. SameBook /\ SameStatus /\ NothingHeard /\ book' = book
    BY <1>1 DEF CloseGroupNoted, SameBook, SameStatus, NothingHeard
  <1>4. MarksRight(pc', cgs', book.grp)
    BY <1>1 DEF LockCore, MarksRight, CloseGroupNoted, Idle, Closing
  <1>5. Spared(pc', cgs', book.costs, book.txn.status)
    <2>1. Spared(pc, cgs, book.costs, book.txn.status)
      BY DEF LockCore
    <2>2. pc.kind = "close" => ToSet(book.costs) \ ToSet(pc.cg.groups) # {}
      BY <1>1, <2>1 DEF Spared, CloseGroupNoted
    <2>3. pc'.kind = "close" => pc'.at # "sent"
      BY <1>1 DEF CloseGroupNoted, Idle
    <2>4. ASSUME NEW k \in CloseKeys, cgs'[k] # NoGroup, cgs'[k].type = "NORMAL"
          PROVE  ToSet(book.costs) \ ToSet(cgs'[k].groups) # {}
      <3>1. CASE k # pc.key
        <4>1. cgs'[k] = cgs[k]
          BY <1>1, <3>1 DEF CloseGroupNoted
        <4> QED
          BY <2>1, <2>4, <4>1 DEF Spared
      <3>2. CASE k = pc.key
        <4>1. pc.cg.type = "NORMAL" /\ cgs'[k].groups = pc.cg.groups
          BY <1>1, <2>4, <3>2 DEF CloseGroupNoted
        <4>2. pc.kind = "close"
          BY <1>2, <4>1 DEF ClosingKind
        <4> QED
          BY <2>2, <4>1, <4>2
      <3> QED
        BY <3>1, <3>2
    <2> QED
      BY <2>1, <2>3, <2>4 DEF Spared
  <1> QED
    BY <1>3, <1>4, <1>5, LotsSame, StatusSame DEF LockCore, NothingHeard

(* What is being closed is counted.                                        *)
LEMMA CountClosingIs ==
    ASSUME Core, CountClosing
    PROVE  /\ pc.at = "added" /\ pc.kind = "close" /\ pc' = Idle
           /\ UNCHANGED <<cgs, flight, held, odd>>
           /\ book'.txn = TxnClosing(book.txn, pc.cg.quantity)
           /\ book'.slots = book.slots /\ book'.costs = book.costs /\ book'.locks = book.locks
           /\ book'.grp = book.grp /\ SameStatus
           /\ book'.txn.open = book.txn.open /\ book'.txn.lock = book.txn.lock
           /\ book'.txn.opening = book.txn.opening
  <1>1. /\ pc.at = "added" /\ pc.kind = "close" /\ pc' = Idle
        /\ UNCHANGED <<cgs, flight, held, odd>>
        /\ book' = [book EXCEPT !.txn.closing = pc.cg.quantity]
    BY DEF CountClosing
  <1>2. book \in Books /\ book.txn \in Txns
    BY CoreParts, BookParts
  <1>3. pc.cg.quantity \in Nat
    <2>1. pc \in ClosePcs
      BY <1>1, CoreParts DEF Pcs, OpenPcs, Idle, Opening, Closing
    <2> QED
      BY <2>1 DEF ClosePcs, Closes
  <1>4. PICK t : t = TxnClosing(book.txn, pc.cg.quantity)
    OBVIOUS
  <1>5. /\ t \in Txns /\ t.status = book.txn.status /\ t.open = book.txn.open
        /\ t.lock = book.txn.lock /\ t.lockable = book.txn.lockable /\ t.opening = book.txn.opening
    BY <1>2, <1>3, <1>4, ClosingCounted
  <1>6. book' = [book EXCEPT !.txn = t]
    BY <1>1, <1>4 DEF TxnClosing
  <1>7. /\ book'.txn = t /\ book'.slots = book.slots /\ book'.costs = book.costs
        /\ book'.locks = book.locks /\ book'.grp = book.grp
    BY <1>2, <1>5, <1>6, TxnWritten
  <1> QED
    BY <1>1, <1>4, <1>5, <1>7 DEF SameStatus

(* Counting what is being closed keeps lots and status fitting.            *)
LEMMA CountClosingLocks ==
    ASSUME Core, LockCore, odd \subseteq odd', CountClosing
    PROVE  LockCore'
  <1>1. SameBook /\ SameStatus /\ NothingHeard /\ MarksStay
    BY CountClosingIs DEF SameBook, NothingHeard, MarksStay, Idle, Closing
  <1>2. Spared(pc', cgs', book'.costs, book'.txn.status)
    <2>1. /\ book'.costs = book.costs /\ book'.txn.status = book.txn.status
          /\ pc'.kind \notin Closing /\ cgs' = cgs
      BY CountClosingIs DEF SameStatus, Idle, Closing
    <2> QED
      BY <2>1, SparedSame
  <1> QED
    BY <1>1, <1>2, LotsSame, StatusSame, MarksSame DEF LockCore, NothingHeard

(* The exchange decides on an order.                                       *)
Decides(o, x) ==
    /\ o.result = -1 /\ o.news /\ x \in Orders /\ x.news /\ x.result \in 0..o.quantity
    /\ x.kind = o.kind /\ x.key = o.key /\ x.part = o.part /\ x.quantity = o.quantity
    /\ flight' = (flight \ {o}) \cup {x} /\ UNCHANGED <<book, pc, cgs>>
    /\ held' = CASE o.kind = "open"   -> [held EXCEPT !.normal = @ + x.result]
                 [] o.kind = "lock"   -> [held EXCEPT !.lock = @ + x.result]
                 [] o.kind = "close"  -> [held EXCEPT !.normal = @ - x.result]
                 [] o.kind = "unlock" -> [held EXCEPT !.lock = @ - x.result]

(* The exchange decides on one order that is new, and the account changes  *)
(* by what it fills.                                                       *)
LEMMA ExchangeIs ==
    ASSUME Core, NEW o \in flight, Exchange(o)
    PROVE  \E x : Decides(o, x)
  <1>1. o \in Orders /\ OrderRight(o) /\ o.result = -1 /\ UNCHANGED <<book, pc, cgs>>
    BY CoreParts DEF Exchange, BookCore, OrdersRight
  <1>2. PICK n \in 0..o.quantity, trades \in 0..2 :
            /\ flight' = (flight \ {o}) \cup {[o EXCEPT !.result = n, !.trades = trades]}
            /\ held' = CASE o.kind = "open"   -> [held EXCEPT !.normal = @ + n]
                         [] o.kind = "lock"   -> [held EXCEPT !.lock = @ + n]
                         [] o.kind = "close"  -> [held EXCEPT !.normal = @ - n]
                         [] o.kind = "unlock" -> [held EXCEPT !.lock = @ - n]
    BY DEF Exchange
  <1>3. PICK x : x = [o EXCEPT !.result = n, !.trades = trades]
    OBVIOUS
  <1>4. /\ x.result = n /\ x.kind = o.kind /\ x.key = o.key /\ x.part = o.part
        /\ x.quantity = o.quantity /\ x.news = o.news
    BY <1>1, <1>3 DEF Orders
  <1>5. x \in Orders
    <2>1. n \in Int /\ trades \in Nat
      BY <1>1, <1>2 DEF Orders
    <2> QED
      BY <1>1, <1>3, <2>1 DEF Orders
  <1>6. o.news
    BY <1>1 DEF OrderRight
  <1> QED
    BY <1>1, <1>2, <1>3, <1>4, <1>5, <1>6 DEF Decides

(* A decision of the exchange keeps lots and status fitting: nothing is    *)
(* heard of it yet.                                                        *)
LEMMA ExchangeLocks ==
    ASSUME Core, LockCore, odd \subseteq odd', NEW o \in flight, Exchange(o)
    PROVE  LockCore'
  <1>1. PICK x : Decides(o, x)
    BY ExchangeIs
  <1>2. NothingHeard
    BY <1>1 DEF Decides, NothingHeard, HeardOf
  <1>3. SameBook /\ SameStatus /\ book' = book /\ pc' = pc /\ cgs' = cgs
    BY <1>1 DEF Decides, SameBook, SameStatus
  <1> QED
    BY <1>2, <1>3, LotsSame, StatusSame DEF LockCore, NothingHeard

(* A restart while nothing is under way.                                   *)
LEMMA CrashLocks ==
    ASSUME Core, LockCore, odd \subseteq odd', Calm', Crash
    PROVE  LockCore'
  <1>1. flight = {} /\ pc = Idle
    BY CalmShows DEF Crash, Quiet
  <1>2. /\ flight' = flight /\ pc' = pc /\ book' = book /\ \A k \in CloseKeys : cgs'[k] = NoGroup
    BY <1>1 DEF Crash
  <1>3. SameBook /\ SameStatus /\ NothingHeard /\ MarksRight(pc', cgs', book'.grp)
        /\ Spared(pc', cgs', book'.costs, book'.txn.status)
    BY <1>2 DEF SameBook, SameStatus, NothingHeard, MarksRight, Spared, LockCore
  <1> QED
    BY <1>2, <1>3, LotsSame, StatusSame DEF LockCore, NothingHeard

(* A restart finds in redis what memory held.                              *)
LEMMA LoadIs ==
    ASSUME Core, Calm', Load
    PROVE  /\ pc = Idle /\ flight = {} /\ UNCHANGED <<cgs, pc, flight, held>> /\ odd \subseteq odd'
           /\ \A k \in CloseKeys : cgs[k] = NoGroup
           /\ book'.txn = book.txn /\ book'.costs = book.costs /\ book'.locks = book.locks
           /\ db.slots = book.slots
           /\ \E config \in Configs :
                 /\ LoadAsserts(config) /\ book'.slots \in LoadedSlots(config)
                 /\ book'.slots \in Seq(Slots) /\ cfg' = config
                 /\ "gap" \notin odd' =>
                       ~(book'.slots = ShrinkTxnSlots(db.slots) /\ OpenSum(book'.slots) # OpenSum(db.slots))
           /\ \A g \in Listed(book.costs, book.locks) : book'.grp[g] = book.grp[g]
           /\ \A g \in Keys : book'.grp[g] # NoGroup => g \in Listed(book.costs, book.locks)
           /\ book.txn.opening = 0 /\ book.txn.closing = 0
           /\ \A i \in DOMAIN book.slots : book.slots[i].opening = 0
  <1>1. /\ state = "down" /\ pc = Idle /\ flight = {} /\ UNCHANGED <<cgs, pc, flight, held>>
        /\ \A k \in CloseKeys : cgs[k] = NoGroup
    <2>1. state = "down" /\ pc = Idle /\ flight = {} /\ UNCHANGED <<cgs, pc, flight, held>>
      BY CoreParts DEF Load, Types
    <2> QED
      BY <2>1, QuietBook DEF NoClosing
  <1>2. /\ db.txn = book.txn /\ db.slots = book.slots /\ db.costs = book.costs
        /\ db.locks = book.locks
        /\ \A g \in Listed(book.costs, book.locks) : db.grp[g] = book.grp[g]
    BY <1>1, QuietBook, CoreParts, SavedCounters
       DEF RedisRight, SlotsSaved, GroupsSaved, Saved, Idle, Needed
  <1>3. /\ LoadAsserts(cfg') /\ cfg' \in Configs
        /\ \E slots \in LoadedSlots(cfg') :
              /\ book' = [txn |-> LoadTxn(db), slots |-> slots,
                          costs |-> db.costs, locks |-> db.locks,
                          grp |-> LoadGroups(db, NamedGroups(db.costs) \cup NamedGroups(db.locks))]
              /\ Meets(IF slots = ShrinkTxnSlots(db.slots) /\ OpenSum(slots) # OpenSum(db.slots)
                       THEN {"gap"} ELSE {})
    BY DEF Load, Calm
  <1>4. PICK slots \in LoadedSlots(cfg') :
              /\ book' = [txn |-> LoadTxn(db), slots |-> slots,
                          costs |-> db.costs, locks |-> db.locks,
                          grp |-> LoadGroups(db, NamedGroups(db.costs) \cup NamedGroups(db.locks))]
              /\ Meets(IF slots = ShrinkTxnSlots(db.slots) /\ OpenSum(slots) # OpenSum(db.slots)
                       THEN {"gap"} ELSE {})
    BY <1>3
  <1>5. PICK L : L = Listed(book.costs, book.locks) /\ L \subseteq Keys
    BY CoreParts, ListedKeys
  <1>6. NamedGroups(db.costs) \cup NamedGroups(db.locks) = L
    BY <1>2, <1>5 DEF NamedGroups, Listed
  <1>7. book'.grp = [g \in Keys |-> IF g \in L THEN db.grp[g] ELSE NoGroup]
    BY <1>4, <1>6 DEF LoadGroups
  <1>8. /\ book'.txn = book.txn /\ book'.costs = book.costs /\ book'.locks = book.locks
        /\ book'.slots = slots
    BY <1>2, <1>4 DEF LoadTxn
  <1>9. slots \in Seq(Slots)
    BY <1>3, <1>4, CoreParts, SlotsLoaded
  <1>10. /\ odd \subseteq odd'
         /\ "gap" \notin odd' =>
               ~(slots = ShrinkTxnSlots(db.slots) /\ OpenSum(slots) # OpenSum(db.slots))
    BY <1>4 DEF Meets
  <1>11. /\ book.txn.opening = 0 /\ book.txn.closing = 0
         /\ \A i \in DOMAIN book.slots : book.slots[i].opening = 0
    BY <1>2, <1>3 DEF LoadAsserts
  <1> QED
    BY <1>1, <1>2, <1>3, <1>4, <1>5, <1>7, <1>8, <1>9, <1>10, <1>11

(* A restart keeps lots and status fitting: it finds in redis what memory  *)
(* held.                                                                   *)
LEMMA LoadLocks ==
    ASSUME Core, LockCore, odd \subseteq odd', Calm', Load
    PROVE  LockCore'
  <1>1. SameStatus /\ NothingHeard
    BY LoadIs DEF SameStatus, NothingHeard
  <1>2. MarksRight(pc', cgs', book'.grp) /\ Spared(pc', cgs', book'.costs, book'.txn.status)
    BY LoadIs DEF MarksRight, Idle, Closing, Spared, LockCore
  <1>3. SameBook
    <2>1. \A kind : HeardOf(flight, kind) = {}
      BY LoadIs DEF HeardOf
    <2>2. Opens(flight, book) \cup Locks(flight, book) = Listed(book.costs, book.locks)
      BY <2>1 DEF Opens, Locks, Counted, KeysOf, Listed
    <2> QED
      BY <2>2, LoadIs DEF SameBook
  <1> QED
    BY <1>1, <1>2, <1>3, LotsSame, StatusSame DEF LockCore, NothingHeard

(* The final news of an order to open or to lock.                          *)
LEMMA OpenNewsLocks ==
    ASSUME Core, LockCore, odd \subseteq odd', NEW o \in flight, o.kind \in Opening, OpenNews(o)
    PROVE  LockCore'
  <1>1. LotsCounted(flight', book')
    BY OpenNewsLots DEF LockCore
  <1>2. /\ NewsTaken(flight, o, flight') /\ pc' = pc /\ cgs' = cgs /\ o.news /\ o.result \in Nat
        /\ book'.costs = book.costs /\ book'.locks = book.locks
    BY DEF OpenNews
  <1>3. o \in Orders /\ OrderRight(o) /\ o.result <= o.quantity
    BY <1>2, CoreParts DEF BookCore, OrdersRight, OrderRight
  <1>4. MarksRight(pc', cgs', book'.grp)
    <2>1. o.key \notin Listed(book.costs, book.locks)
      BY CoreParts DEF BookCore, GroupsRight, OpensOf
    <2>2. \A g \in Listed(book.costs, book.locks) : book'.grp[g] = book.grp[g]
      BY <2>1 DEF OpenNews, LookedAt
    <2> QED
      BY <1>2, <2>2, MarksSame DEF MarksStay
  <1>5. PICK t, u : t = book.txn /\ u = book'.txn
    OBVIOUS
  <1>6. t \in Txns /\ StatusRight(flight, t) /\ ("signal" \notin odd => LockingOnly(flight, t))
    BY <1>5, CoreParts, BookParts DEF LockCore
  <1>7. /\ u.status = t.status /\ u.lockable = t.lockable
        /\ o.kind = "open" => u.lock = t.lock
        /\ o.kind = "lock" => u.lock = t.lock + o.result /\ u.open = t.open
    <2>1. CASE o.kind = "open"
      <3>1. u = TxnOpened(t, o.result)
        BY <1>5, <2>1 DEF OpenNews
      <3> QED
        BY <1>6, <2>1, <3>1 DEF TxnOpened, Txns
    <2>2. CASE o.kind = "lock"
      <3>1. u = TxnLocked(t, o.result)
        BY <1>5, <2>2 DEF OpenNews
      <3> QED
        BY <1>6, <2>2, <3>1 DEF TxnLocked, Txns
    <2> QED
      BY <2>1, <2>2 DEF Opening
  <1>8. Spared(pc', cgs', book'.costs, book'.txn.status)
    BY <1>2, <1>5, <1>7, SparedSame
  <1>9. \A y \in flight' : \E x \in flight : x.kind = y.kind /\ x.quantity = y.quantity /\ (y.news => x.news /\ x = y)
    BY <1>2 DEF NewsTaken
  <1>10. /\ HeardOf(flight, "lock") \subseteq HeardOf(flight', "lock")
         /\ o.kind = "lock" /\ o.result > 0 => HeardOf(flight', "lock") # {}
    BY <1>2 DEF NewsTaken, HeardOf
  <1>11. o.kind = "lock" => t.status = "LOCKING" /\ t.lock + o.quantity <= t.lockable
    BY <1>2, <1>6 DEF StatusRight
  <1>12. \A y \in flight' : y.kind = "lock" /\ y.news => o.kind # "lock"
    <2> SUFFICES ASSUME NEW y \in flight', y.kind = "lock", y.news, o.kind = "lock" PROVE FALSE
      OBVIOUS
    <2>1. y \in flight /\ y # o
      BY <1>2, <1>9 DEF NewsTaken
    <2>2. FreshRight(flight, pc, book.txn.opening) /\ y \in FreshOf(flight) /\ o \in FreshOf(flight)
      BY <1>2, <2>1, CoreParts DEF BookCore, FreshOf, Opening
    <2> QED
      BY <2>1, <2>2 DEF FreshRight
  <1>13. StatusRight(flight', u)
    <2>1. o.quantity \in Nat /\ o.result \in Nat /\ o.result <= o.quantity /\ u.lockable = t.lockable
          /\ t.lock \in Int /\ t.lockable \in Int
      BY <1>2, <1>3, <1>6, <1>7 DEF Orders, Txns
    <2>2. CASE o.kind = "open"
      <3>1. u.lock = t.lock /\ u.status = t.status /\ u.lockable = t.lockable
        BY <1>7, <2>2
      <3> QED
        BY <1>6, <1>9, <1>10, <3>1 DEF StatusRight
    <2>3. CASE o.kind = "lock"
      <3>1. u.status = "LOCKING" /\ u.lock = t.lock + o.result /\ u.lockable = t.lockable
        BY <1>7, <1>11, <2>3
      <3>2. \A y \in flight' : y.kind # "unlock"
        BY <1>6, <1>9, <1>11, <2>3 DEF StatusRight
      <3>3. u.lock >= u.lockable => HeardOf(flight', "lock") # {}
        <4>1. CASE o.result = 0
          BY <1>6, <1>10, <1>11, <2>1, <2>3, <3>1, <4>1 DEF StatusRight
        <4>2. CASE o.result > 0
          BY <1>10, <2>3, <4>2
        <4> QED
          BY <2>1, <4>1, <4>2
      <3> QED
        BY <1>12, <2>3, <3>1, <3>2, <3>3 DEF StatusRight, Phases
    <2> QED
      BY <2>2, <2>3 DEF Opening
  <1>14. "signal" \notin odd' => LockingOnly(flight', u)
    <2>1. SUFFICES ASSUME "signal" \notin odd', u.status \in Phases
                   PROVE  /\ \A y \in flight' : y.kind \in {"lock", "unlock"}
                          /\ u.lockable = u.open /\ u.lock <= u.open
      BY DEF LockingOnly
    <2>2. /\ \A y \in flight : y.kind \in {"lock", "unlock"}
          /\ t.lockable = t.open /\ t.lock <= t.open
      BY <1>6, <1>7, <2>1 DEF LockingOnly
    <2>3. o.kind = "lock"
      BY <2>2 DEF Opening
    <2>4. t.lock + o.result <= t.lockable
      BY <1>2, <1>3, <1>6, <1>11, <2>3 DEF Txns, Orders
    <2> QED
      BY <1>7, <1>9, <2>2, <2>3, <2>4
  <1> QED
    BY <1>1, <1>4, <1>5, <1>8, <1>13, <1>14 DEF LockCore

(* The trade of an order to open or to lock.                               *)
LEMMA OpenTradeLocks ==
    ASSUME Core, LockCore, odd \subseteq odd', NEW o \in flight, o.kind \in Opening, OpenTrade(o)
    PROVE  LockCore'
  <1>1. /\ pc' = pc /\ cgs' = cgs /\ ~o.news /\ o.result > 0 /\ flight' = flight \ {o}
        /\ o.key \notin Listed(book.costs, book.locks)
        /\ \A g \in LookedAt(flight, book.costs, book.locks) : book'.grp[g] = book.grp[g]
    BY DEF OpenTrade
  <1>2. PICK t, u : t = book.txn /\ u = book'.txn
    OBVIOUS
  <1>3. t \in Txns /\ StatusRight(flight, t) /\ ("signal" \notin odd => LockingOnly(flight, t))
    BY <1>2, CoreParts, BookParts DEF LockCore
  <1>4. /\ u.open = t.open /\ u.lock = t.lock /\ u.lockable = t.lockable
        /\ o.kind = "open" => u.status = IF t.status = "READY" THEN "RUNNING" ELSE t.status
        /\ o.kind = "lock" => u.status = IF t.lock >= t.lockable THEN "LOCK" ELSE t.status
    <2>1. \E s : u = TxnStatus(t, s)
      BY <1>2 DEF OpenTrade, Opening
    <2>2. \A s : TxnStatus(t, s).open = t.open /\ TxnStatus(t, s).lock = t.lock
                 /\ TxnStatus(t, s).lockable = t.lockable /\ TxnStatus(t, s).status = s
      BY <1>3 DEF TxnStatus, Txns
    <2> QED
      BY <1>2, <2>1, <2>2 DEF OpenTrade
  <1>5. \A kind \in Opening : KeysOf(HeardOf(flight, kind)) =
           IF kind = o.kind THEN KeysOf(HeardOf(flight', kind)) \cup {o.key}
                            ELSE KeysOf(HeardOf(flight', kind))
    BY <1>1 DEF HeardOf, KeysOf
  <1>6. Opens(flight', book') = Opens(flight, book) /\ Locks(flight', book') = Locks(flight, book)
    <2>1. CASE o.kind = "open"
      <3>1. ToSet(book'.costs) = ToSet(book.costs) \cup {o.key} /\ book'.locks = book.locks
        BY <2>1 DEF OpenTrade
      <3>2. /\ KeysOf(HeardOf(flight, "open")) = KeysOf(HeardOf(flight', "open")) \cup {o.key}
            /\ KeysOf(HeardOf(flight, "lock")) = KeysOf(HeardOf(flight', "lock"))
        BY <1>5, <2>1 DEF Opening
      <3> QED
        BY <3>1, <3>2 DEF Opens, Locks, Counted
    <2>2. CASE o.kind = "lock"
      <3>1. ToSet(book'.locks) = ToSet(book.locks) \cup {o.key} /\ book'.costs = book.costs
        BY <2>2 DEF OpenTrade
      <3>2. /\ KeysOf(HeardOf(flight, "lock")) = KeysOf(HeardOf(flight', "lock")) \cup {o.key}
            /\ KeysOf(HeardOf(flight, "open")) = KeysOf(HeardOf(flight', "open"))
        BY <1>5, <2>2 DEF Opening
      <3> QED
        BY <3>1, <3>2 DEF Opens, Locks, Counted
    <2> QED
      BY <2>1, <2>2 DEF Opening
  <1>7. LotsCounted(flight', book')
    <2>1. \A g \in Opens(flight, book) \cup Locks(flight, book) : book'.grp[g] = book.grp[g]
      BY <1>1, CoreParts, CountedHold
    <2> QED
      BY <1>2, <1>4, <1>6, <2>1, LotsStay DEF LockCore
  <1>8. MarksRight(pc', cgs', book'.grp)
    BY <1>1, MarksSame DEF MarksStay, LookedAt
  <1>9. Spared(pc', cgs', book'.costs, book'.txn.status)
    <2>1. CASE o.kind = "open"
      <3>1. ToSet(book'.costs) = ToSet(book.costs) \cup {o.key}
        BY <2>1 DEF OpenTrade
      <3>2. book'.costs # <<>>
        <4>1. ToSet(<<>>) = {}
          BY DEF ToSet
        <4> QED
          BY <3>1, <4>1
      <3> QED
        BY <1>1, <3>1, <3>2, SparedSame
    <2>2. CASE o.kind = "lock"
      <3>1. \/ book'.costs = book.costs /\ t.status = "LOCKING"
            \/ t.status = u.status
        BY <1>2, <1>4, <2>2 DEF OpenTrade
      <3>2. book'.costs = book.costs
        BY <2>2 DEF OpenTrade
      <3> QED
        BY <1>1, <1>2, <3>1, <3>2, SparedSame
    <2> QED
      BY <2>1, <2>2 DEF Opening
  <1>10. o \in HeardOf(flight, o.kind)
    BY <1>1 DEF HeardOf
  <1>11. o.kind = "lock" => t.lock > 0
    <2>1. SUFFICES ASSUME o.kind = "lock" PROVE t.lock > 0
      OBVIOUS
    <2>2. o.key \in Locks(flight, book)
      BY <1>10, <2>1 DEF Locks, Counted, KeysOf
    <2>3. Holding(Locks(flight, book), book.grp)
      BY CoreParts, CountedHold
    <2>4. LotsIn(book.grp, Locks(flight, book)) \in Nat /\ LotsIn(book.grp, Locks(flight, book)) # 0
      BY <2>2, <2>3, LotsHeld
    <2>5. t.lock = LotsIn(book.grp, Locks(flight, book))
      BY <1>2 DEF LockCore, LotsCounted, Locks
    <2> QED
      BY <2>4, <2>5
  <1>12. StatusRight(flight', u)
    <2>1. t.lock \in Int /\ t.lockable \in Int
      BY <1>3 DEF Txns
    <2>2. CASE o.kind = "open"
      <3>1. HeardOf(flight', "lock") = HeardOf(flight, "lock")
        BY <1>1, <2>2 DEF HeardOf
      <3>2. u.status = t.status \/ (t.status = "READY" /\ u.status = "RUNNING")
        BY <1>4, <2>2
      <3>3. \A y \in flight' : y \in flight
        BY <1>1
      <3>4. CASE u.status = t.status
        BY <1>3, <1>4, <3>1, <3>3, <3>4 DEF StatusRight
      <3>5. CASE t.status = "READY" /\ u.status = "RUNNING"
        BY <1>3, <1>4, <3>1, <3>3, <3>5 DEF StatusRight, Phases
      <3> QED
        BY <3>2, <3>4, <3>5
    <2>3. CASE o.kind = "lock" /\ t.lock >= t.lockable
      <3>1. t.status = "LOCKING" /\ u.status = "LOCK"
        BY <1>2, <1>4, <2>3 DEF OpenTrade
      <3>2. \A y \in flight' : ~(y.kind = "lock" /\ y.news) /\ y.kind # "unlock"
        <4> TAKE y \in flight'
        <4>1. y \in flight /\ y \in Orders /\ OrderRight(y)
          BY <1>1, CoreParts DEF BookCore, OrdersRight
        <4>2. y.kind # "unlock"
          BY <1>3, <3>1, <4>1 DEF StatusRight
        <4>3. y.kind = "lock" /\ y.news => t.lock + y.quantity <= t.lockable
          BY <1>3, <4>1 DEF StatusRight
        <4>4. y.quantity > 0 /\ y.quantity \in Nat
          BY <4>1 DEF OrderRight, Orders
        <4> QED
          BY <2>1, <2>3, <4>2, <4>3, <4>4
      <3> QED
        BY <1>4, <1>11, <2>3, <3>1, <3>2 DEF StatusRight, Phases
    <2>4. CASE o.kind = "lock" /\ ~(t.lock >= t.lockable)
      <3>1. u.status = t.status
        BY <1>4, <2>4
      <3>2. \A y \in flight' : y \in flight
        BY <1>1
      <3> QED
        BY <1>3, <1>4, <2>4, <3>1, <3>2 DEF StatusRight
    <2> QED
      BY <2>2, <2>3, <2>4 DEF Opening
  <1>13. "signal" \notin odd' => LockingOnly(flight', u)
    <2>1. u.status \in Phases => t.status \in Phases
      BY <1>2, <1>4 DEF OpenTrade, Opening, Phases
    <2> QED
      BY <1>1, <1>3, <1>4, <2>1 DEF LockingOnly
  <1> QED
    BY <1>2, <1>7, <1>8, <1>9, <1>12, <1>13 DEF LockCore

(* A close order under way was noted: its groups are not marked anew.      *)
LEMMA NotSelling ==
    ASSUME NEW k, NEW S, NEW p, NEW closes, NEW costs, NEW locks, NEW grp, NEW closing,
           CloseNoted(k, S, p, closes, costs, locks, grp, closing)
    PROVE  ~(p.kind \in Closing /\ p.at = "sent")
  BY DEF CloseNoted

(* The final news of a close order.                                        *)
LEMMA SellNewsLocks ==
    ASSUME Core, LockCore, odd \subseteq odd', NEW o \in flight, o.kind \in Closing,
           NEW k, NEW cg, SellNewsTaken(o, k, cg), SellNewsKept(k, cg) \/ SellNewsEnds(cg)
    PROVE  LockCore'
  <1>1. /\ pc' = pc /\ NewsTaken(flight, o, flight') /\ OpensOf(flight') = OpensOf(flight)
        /\ cgs[k] \in Closes /\ cg = FillCloseGroup(cgs[k], o.result) /\ o.result \in Nat /\ k \in CloseKeys
        /\ book'.costs = book.costs /\ book'.locks = book.locks
        /\ CloseNoted(k, SellsOf(flight), pc, cgs, book.costs, book.locks, book.grp, book.txn.closing)
    BY DEF SellNewsTaken
  <1>2. NothingHeard
    <2>1. \A kind \in Opening : HeardOf(flight', kind) = HeardOf(flight, kind)
      BY <1>1 DEF OpensOf, HeardOf
    <2> QED
      BY <1>1, <2>1 DEF NothingHeard, NewsTaken
  <1>3. cg.groups = cgs[k].groups /\ cg.quantity = cgs[k].quantity /\ cg.type = cgs[k].type
    BY <1>1, CloseFilled
  <1>4. book.txn \in Txns
    BY CoreParts, BookParts
  <1>5. \A g \in Opens(flight, book) \cup Locks(flight, book) :
           g \in LookedAt(flight, book.costs, book.locks) /\ book.grp[g] \in Groups
    BY CoreParts, CountedHold DEF Holding
  <1>6. cgs[k] # NoGroup /\ ~(pc.kind \in Closing /\ pc.at = "sent")
    BY <1>1, NotSelling DEF CloseNoted
  <1>7. CASE SellNewsKept(k, cg)
    <2>1. /\ cgs' = [cgs EXCEPT ![k] = cg] /\ book'.txn = book.txn
          /\ \A g \in LookedAt(flight, book.costs, book.locks) : book'.grp[g] = book.grp[g]
      BY <1>7 DEF SellNewsKept
    <2>2. SameBook /\ SameStatus
      BY <1>1, <1>5, <2>1 DEF SameBook, SameStatus
    <2>3. cgs \in [CloseKeys -> Closes \cup {NoGroup}]
      BY CoreParts
    <2>4. \A l \in CloseKeys : cgs'[l] # NoGroup =>
             cgs[l] # NoGroup /\ cgs'[l].groups = cgs[l].groups
             /\ cgs'[l].quantity = cgs[l].quantity /\ cgs'[l].type = cgs[l].type
      BY <1>3, <1>6, <2>1, <2>3
    <2>5. MarksRight(pc', cgs', book'.grp)
      <3>1. PICK x, y : x = book.grp /\ y = book'.grp
        OBVIOUS
      <3>2. MarksRight(pc, cgs, x) /\ \A g \in Listed(book.costs, book.locks) : y[g] = x[g]
        BY <2>1, <3>1 DEF LockCore, LookedAt
      <3>3. ASSUME NEW l \in CloseKeys, cgs'[l] # NoGroup
            PROVE  ClosingIn(y, ToSet(cgs'[l].groups)) = cgs'[l].quantity
        <4>1. /\ IsFiniteSet(ToSet(cgs[l].groups))
              /\ ToSet(cgs[l].groups) \subseteq Listed(book.costs, book.locks)
          BY <2>4, <3>3, CloseListed
        <4>2. ClosingIn(y, ToSet(cgs[l].groups)) = ClosingIn(x, ToSet(cgs[l].groups))
          BY <3>2, <4>1, SameClosing
        <4> QED
          BY <2>4, <3>2, <3>3, <4>2 DEF MarksRight
      <3> QED
        BY <1>1, <1>6, <3>1, <3>3 DEF MarksRight
    <2>6. Spared(pc', cgs', book'.costs, book'.txn.status)
      BY <1>1, <2>1, <2>4 DEF LockCore, Spared
    <2> QED
      BY <1>2, <2>2, <2>5, <2>6, LotsSame, StatusSame DEF LockCore, NothingHeard
  <1>8. CASE SellNewsEnds(cg)
    <2>1. /\ \A l \in CloseKeys : cgs'[l] = NoGroup
          /\ book'.txn = TxnFree(book.txn)
          /\ \A g \in LookedAt(flight, book.costs, book.locks) :
                book'.grp[g] = IF g \in ToSet(cg.groups) THEN WithClosing(book.grp[g], 0) ELSE book.grp[g]
      BY <1>8 DEF SellNewsEnds
    <2>2. SameStatus /\ book'.txn.open = book.txn.open /\ book'.txn.lock = book.txn.lock
      BY <1>4, <2>1 DEF TxnFree, Txns, SameStatus
    <2>3. SameBook
      <3>1. \A g \in Opens(flight, book) \cup Locks(flight, book) : Remain(book'.grp[g]) = Remain(book.grp[g])
        BY <1>5, <2>1, ClosingCleared
      <3> QED
        BY <1>1, <2>2, <3>1 DEF SameBook
    <2>4. MarksRight(pc', cgs', book'.grp)
      BY <1>1, <1>6, <2>1 DEF MarksRight
    <2>5. Spared(pc', cgs', book'.costs, book'.txn.status)
      <3>1. book'.txn.status = book.txn.status
        BY <2>2 DEF SameStatus
      <3> QED
        BY <1>1, <2>1, <3>1, SparedSame
    <2> QED
      BY <1>2, <2>2, <2>3, <2>4, <2>5, LotsSame, StatusSame DEF LockCore, NothingHeard
  <1> QED
    BY <1>7, <1>8

(* The trade of the first of two close orders.                             *)
LEMMA FirstTradeLocks ==
    ASSUME Core, LockCore, odd \subseteq odd', NEW o \in flight, FirstTrade(o)
    PROVE  LockCore'
  <1>1. /\ pc' = pc /\ cgs' = cgs /\ flight' = flight \ {o} /\ o.kind \in Closing
        /\ book'.txn = book.txn /\ book'.costs = book.costs /\ book'.locks = book.locks
        /\ \A g \in LookedAt(flight, book.costs, book.locks) : book'.grp[g] = book.grp[g]
    BY DEF FirstTrade
  <1>2. NothingHeard
    BY <1>1 DEF NothingHeard, HeardOf, Opening, Closing
  <1>3. SameBook /\ SameStatus
    <2>1. \A g \in Opens(flight, book) \cup Locks(flight, book) :
             g \in LookedAt(flight, book.costs, book.locks)
      BY CoreParts, CountedHold
    <2> QED
      BY <1>1, <2>1 DEF SameBook, SameStatus
  <1>4. MarksStay
    BY <1>1 DEF MarksStay, LookedAt
  <1>5. Spared(pc', cgs', book'.costs, book'.txn.status)
    BY <1>1 DEF LockCore
  <1> QED
    BY <1>2, <1>3, <1>4, <1>5, LotsSame, StatusSame, MarksSame DEF LockCore, NothingHeard

(* Lots of counted groups were closed.                                     *)
SoldFrom(C, b, cg, n, gone, grp) ==
    /\ Holding(C, b.grp) /\ cg \in Closes /\ ToSet(cg.groups) \subseteq C
    /\ n \in [ToSet(cg.groups) -> Nat] /\ ClosedGroups(b, cg, n, gone, grp)
    /\ cg.filled <= ClosingIn(b.grp, ToSet(cg.groups))

(* The lots left in the groups that are counted after a close order.       *)
LEMMA LotsSold ==
    ASSUME NEW C, NEW b, NEW cg, NEW n, NEW gone, NEW grp, SoldFrom(C, b, cg, n, gone, grp)
    PROVE  LotsIn(grp, C \ gone) = LotsIn(b.grp, C) - cg.filled
  <1>5. /\ Holding(C, b.grp) /\ cg \in Closes /\ ToSet(cg.groups) \subseteq C
        /\ n \in [ToSet(cg.groups) -> Nat] /\ ClosedGroups(b, cg, n, gone, grp)
        /\ cg.filled <= ClosingIn(b.grp, ToSet(cg.groups))
    BY DEF SoldFrom
  <1>1. LeftBy(C, ToSet(cg.groups), b.grp, grp, n, gone)
    BY <1>5 DEF LeftBy, ClosedGroups, Holding
  <1>2. IsFiniteSet(C)
    BY <1>5 DEF Holding
  <1>3. SumFunctionOnSet(n, ToSet(cg.groups)) = cg.filled
    BY <1>5 DEF ClosedGroups, Least
  <1>4. LotsIn(grp, C \ gone) = LotsIn(b.grp, C) - SumFunctionOnSet(n, ToSet(cg.groups))
    BY <1>1, <1>2, LotsLeft
  <1> QED
    BY <1>3, <1>4

(* The last trade of a close order takes its lots from the count and from  *)
(* the groups alike.                                                       *)
LEMMA LastTradeLots ==
    ASSUME Core, LockCore, NEW o \in flight, o.kind \in Closing,
           NEW cg, NEW n, NEW gone, NEW grp, LastTrade(o, cg, n, gone, grp)
    PROVE  LotsCounted(flight', book')
  <1>1. /\ flight' = flight \ {o} /\ cg \in Closes /\ cg = cgs[o.key] /\ o.key \in CloseKeys
        /\ cg.filled \in 1..cg.quantity /\ n \in [ToSet(cg.groups) -> Nat]
        /\ ClosedGroups(book, cg, n, gone, grp)
        /\ ToSet(cg.groups) \subseteq ToSet(ListOf(cg.type, book.costs, book.locks))
        /\ \A g \in LookedAt(flight', book'.costs, book'.locks) : book'.grp[g] = grp[g]
    BY DEF LastTrade
  <1>2. PICK A, B : A = Opens(flight, book) /\ B = Locks(flight, book)
    OBVIOUS
  <1>3. PICK C, D : C = Opens(flight', book') /\ D = Locks(flight', book')
    OBVIOUS
  <1>4. /\ Holding(A, book.grp) /\ Holding(B, book.grp) /\ A \cap B = {}
        /\ ToSet(book.costs) \subseteq A /\ ToSet(book.locks) \subseteq B
    BY <1>2, CoreParts, CountedHold DEF Opens, Locks, Counted
  <1>5. cg # NoGroup /\ cg.quantity \in Nat
    BY <1>1 DEF Closes, NoGroup
  <1>6. cg.filled <= ClosingIn(book.grp, ToSet(cg.groups))
    <2>1. ClosingIn(book.grp, ToSet(cg.groups)) = cg.quantity
      BY <1>1, <1>5 DEF LockCore, MarksRight
    <2> QED
      BY <1>1, <1>5, <2>1
  <1>7. \A kind \in Opening : HeardOf(flight', kind) = HeardOf(flight, kind)
    BY <1>1 DEF HeardOf, Opening, Closing
  <1>8. gone \subseteq ToSet(cg.groups)
    BY <1>1 DEF ClosedGroups
  <1>9. \A kind \in Opening : KeysOf(HeardOf(flight, kind)) \cap Listed(book.costs, book.locks) = {}
    BY CoreParts DEF BookCore, GroupsRight, KeysOf, HeardOf, OpensOf
  <1>10. \A g \in Keys : g \notin ToSet(cg.groups) => grp[g] = book.grp[g]
    BY <1>1 DEF ClosedGroups
  <1>11. book.txn.open = LotsIn(book.grp, A) /\ book.txn.lock = LotsIn(book.grp, B) /\ book.txn \in Txns
    BY <1>2, CoreParts, BookParts DEF LockCore, LotsCounted, Opens, Locks
  <1>12. C \cup D \subseteq LookedAt(flight', book'.costs, book'.locks)
    <2>1. KeysOf(HeardOf(flight', "open")) \cup KeysOf(HeardOf(flight', "lock")) \subseteq KeysOf(OpensOf(flight'))
      BY DEF KeysOf, HeardOf, OpensOf, Opening
    <2> QED
      BY <1>3, <2>1 DEF Opens, Locks, Counted, LookedAt, Listed
  <1>13. \A g \in C \cup D : book'.grp[g] = grp[g]
    BY <1>1, <1>12
  <1>16. PICK X, Y : /\ A = ToSet(book.costs) \cup X /\ C = ToSet(book'.costs) \cup X
                     /\ B = ToSet(book.locks) \cup Y /\ D = ToSet(book'.locks) \cup Y
                     /\ X \cap ToSet(book.costs) = {} /\ Y \cap ToSet(book.locks) = {}
    <2> DEFINE X == KeysOf(HeardOf(flight, "open"))
               Y == KeysOf(HeardOf(flight, "lock"))
    <2>1. /\ A = ToSet(book.costs) \cup X /\ B = ToSet(book.locks) \cup Y
      BY <1>2 DEF Opens, Locks, Counted
    <2>2. /\ C = ToSet(book'.costs) \cup X /\ D = ToSet(book'.locks) \cup Y
      BY <1>3, <1>7 DEF Opens, Locks, Counted, Opening
    <2>3. X \cap ToSet(book.costs) = {} /\ Y \cap ToSet(book.locks) = {}
      BY <1>9 DEF Listed, Opening
    <2> HIDE DEF X, Y
    <2> QED
      BY <2>1, <2>2, <2>3
  <1>14. CASE cg.type = "NORMAL"
    <2>1. /\ book'.txn = TxnClosed(book.txn, cg.filled)
          /\ ToSet(book'.costs) = ToSet(book.costs) \ gone /\ book'.locks = book.locks
      BY <1>14 DEF LastTrade
    <2>2. book'.txn.open = book.txn.open - cg.filled /\ book'.txn.lock = book.txn.lock
      BY <1>11, <2>1 DEF TxnClosed, Txns
    <2>3. ToSet(cg.groups) \subseteq ToSet(book.costs)
      BY <1>1, <1>14 DEF ListOf
    <2>4. C = A \ gone /\ D = B
      <3>1. PICK x, y : x = ToSet(book.costs) /\ y = ToSet(book'.costs) /\ y = x \ gone
        BY <2>1
      <3>2. gone \subseteq x
        BY <1>8, <2>3, <3>1
      <3>3. PICK z : A = x \cup z /\ C = y \cup z /\ z \cap x = {}
        BY <1>16, <3>1
      <3>4. D = B
        BY <1>16, <2>1
      <3> QED
        BY <3>1, <3>2, <3>3, <3>4
    <2>5. LotsIn(grp, C) = LotsIn(book.grp, A) - cg.filled
      <3>1. ToSet(cg.groups) \subseteq A /\ Holding(A, book.grp)
        BY <1>4, <2>3
      <3>2. SoldFrom(A, book, cg, n, gone, grp)
        BY <1>1, <1>6, <3>1 DEF SoldFrom
      <3>3. LotsIn(grp, A \ gone) = LotsIn(book.grp, A) - cg.filled
        BY <3>2, LotsSold
      <3> QED
        BY <2>4, <3>3
    <2>6. \A g \in D : grp[g] = book.grp[g]
      BY <1>4, <1>10, <2>3, <2>4 DEF Holding
    <2>7. LotsIn(grp, D) = LotsIn(book.grp, B)
      BY <1>4, <2>4, <2>6, SameLots DEF Holding
    <2>8. IsFiniteSet(C) /\ IsFiniteSet(D)
      BY <1>4, <2>4, FS_Subset DEF Holding
    <2>9. PICK new : new = book'.grp
      OBVIOUS
    <2>10. LotsIn(new, C) = LotsIn(grp, C) /\ LotsIn(new, D) = LotsIn(grp, D)
      BY <1>13, <2>8, <2>9, SameLots
    <2> QED
      BY <1>3, <1>11, <2>2, <2>5, <2>7, <2>9, <2>10 DEF LotsCounted, Opens, Locks
  <1>15. CASE cg.type = "LOCK"
    <2>1. /\ \E s : book'.txn = TxnUnlocked(book.txn, cg.filled, s)
          /\ ToSet(book'.locks) = ToSet(book.locks) \ gone /\ book'.costs = book.costs
      BY <1>15 DEF LastTrade
    <2>2. book'.txn.lock = book.txn.lock - cg.filled /\ book'.txn.open = book.txn.open
      BY <1>11, <2>1 DEF TxnUnlocked, Txns
    <2>3. ToSet(cg.groups) \subseteq ToSet(book.locks)
      BY <1>1, <1>15 DEF ListOf
    <2>4. D = B \ gone /\ C = A
      <3>1. PICK x, y : x = ToSet(book.locks) /\ y = ToSet(book'.locks) /\ y = x \ gone
        BY <2>1
      <3>2. gone \subseteq x
        BY <1>8, <2>3, <3>1
      <3>3. PICK z : B = x \cup z /\ D = y \cup z /\ z \cap x = {}
        BY <1>16, <3>1
      <3>4. C = A
        BY <1>16, <2>1
      <3> QED
        BY <3>1, <3>2, <3>3, <3>4
    <2>5. LotsIn(grp, D) = LotsIn(book.grp, B) - cg.filled
      <3>1. ToSet(cg.groups) \subseteq B /\ Holding(B, book.grp)
        BY <1>4, <2>3
      <3>2. SoldFrom(B, book, cg, n, gone, grp)
        BY <1>1, <1>6, <3>1 DEF SoldFrom
      <3>3. LotsIn(grp, B \ gone) = LotsIn(book.grp, B) - cg.filled
        BY <3>2, LotsSold
      <3> QED
        BY <2>4, <3>3
    <2>6. \A g \in C : grp[g] = book.grp[g]
      BY <1>4, <1>10, <2>3, <2>4 DEF Holding
    <2>7. LotsIn(grp, C) = LotsIn(book.grp, A)
      BY <1>4, <2>4, <2>6, SameLots DEF Holding
    <2>8. IsFiniteSet(C) /\ IsFiniteSet(D)
      BY <1>4, <2>4, FS_Subset DEF Holding
    <2>9. PICK new : new = book'.grp
      OBVIOUS
    <2>10. LotsIn(new, C) = LotsIn(grp, C) /\ LotsIn(new, D) = LotsIn(grp, D)
      BY <1>13, <2>8, <2>9, SameLots
    <2> QED
      BY <1>3, <1>11, <2>2, <2>5, <2>7, <2>9, <2>10 DEF LotsCounted, Opens, Locks
  <1> QED
    BY <1>1, <1>14, <1>15 DEF Closes

(* The last trade of a close order keeps lots and status fitting: the lock *)
(* ends with its last lot.                                                 *)
LEMMA LastTradeLocks ==
    ASSUME Core, Core', LockCore, odd \subseteq odd', NEW o \in flight, o.kind \in Closing,
           NEW cg, NEW n, NEW gone, NEW grp, LastTrade(o, cg, n, gone, grp)
    PROVE  LockCore'
  <1>1. /\ pc' = pc /\ flight' = flight \ {o} /\ SellsOf(flight) = {o} /\ o \in SellsOf(flight)
        /\ cg \in Closes /\ cg = cgs[o.key] /\ o.key \in CloseKeys /\ o.kind = ClosingKind(cg.type)
        /\ \A l \in CloseKeys : cgs'[l] = NoGroup
    BY DEF LastTrade
  <1>2. LotsCounted(flight', book')
    BY LastTradeLots
  <1>3. cg # NoGroup
    BY <1>1 DEF Closes, NoGroup
  <1>4. ~(pc.kind \in Closing /\ pc.at = "sent")
    <2>1. CloseRight(SellsOf(flight), pc, cgs, book.costs, book.locks, book.grp, book.txn.closing)
      BY CoreParts DEF BookCore
    <2>2. PICK k \in CloseKeys : CloseNoted(k, SellsOf(flight), pc, cgs, book.costs, book.locks,
                                            book.grp, book.txn.closing)
      BY <1>1, <1>3, <2>1 DEF CloseRight, NoClosing, CloseSent
    <2> QED
      BY <2>2, NotSelling
  <1>5. MarksRight(pc', cgs', book'.grp)
    BY <1>1, <1>4 DEF MarksRight
  <1>6. PICK t, u : t = book.txn /\ u = book'.txn
    OBVIOUS
  <1>7. t \in Txns /\ StatusRight(flight, t) /\ ("signal" \notin odd => LockingOnly(flight, t))
    BY <1>6, CoreParts, BookParts DEF LockCore
  <1>8. \A y \in flight' : y \in flight /\ y.kind \notin Closing
    BY <1>1 DEF SellsOf
  <1>9. HeardOf(flight', "lock") = HeardOf(flight, "lock")
    BY <1>1 DEF HeardOf, Closing
  <1>10. CASE cg.type = "NORMAL"
    <2>1. /\ u = TxnClosed(t, cg.filled) /\ ToSet(book'.costs) = ToSet(book.costs) \ gone
          /\ gone \subseteq ToSet(cg.groups) /\ o.kind = "close"
      BY <1>1, <1>6, <1>10 DEF LastTrade, ClosedGroups, ClosingKind
    <2>2. u.status = t.status /\ u.lock = t.lock /\ u.lockable = t.lockable
      BY <1>7, <2>1 DEF TxnClosed, Txns
    <2>3. StatusRight(flight', u)
      BY <1>7, <1>8, <1>9, <2>2 DEF StatusRight
    <2>4. "signal" \notin odd' => LockingOnly(flight', u)
      <3>1. "signal" \notin odd' => t.status \notin Phases
        BY <1>7, <2>1 DEF LockingOnly
      <3> QED
        BY <2>2, <3>1 DEF LockingOnly
    <2>5. Spared(pc', cgs', book'.costs, book'.txn.status)
      <3>1. ToSet(book.costs) \ ToSet(cg.groups) # {}
        BY <1>1, <1>3, <1>10 DEF LockCore, Spared
      <3>2. ToSet(book'.costs) # {}
        BY <2>1, <3>1
      <3>3. book'.costs # <<>>
        BY <3>2 DEF ToSet
      <3> QED
        BY <1>1, <1>4, <3>3 DEF Spared, Closing
    <2> QED
      BY <1>2, <1>5, <1>6, <2>3, <2>4, <2>5 DEF LockCore
  <1>11. CASE cg.type = "LOCK"
    <2>1. /\ u = TxnUnlocked(t, cg.filled, IF t.lock - cg.filled = 0 THEN "RUNNING" ELSE t.status)
          /\ book'.costs = book.costs /\ o.kind = "unlock" /\ cg.filled \in Nat
      BY <1>1, <1>6, <1>11 DEF LastTrade, ClosedGroups, ClosingKind, Closes
    <2>2. /\ u.lock = t.lock - cg.filled /\ u.lockable = t.lockable /\ u.open = t.open
          /\ u.status = IF u.lock = 0 THEN "RUNNING" ELSE t.status
      BY <1>7, <2>1 DEF TxnUnlocked, Txns
    <2>3. u.lock \in Nat
      <3>1. Holding(Locks(flight', book'), book'.grp)
        <4>1. PICK F, p, c, b : F = flight' /\ p = pc' /\ c = cgs' /\ b = book'
          OBVIOUS
        <4>2. F \in SUBSET Orders /\ IsFiniteSet(F) /\ b \in Books /\ BookCore(F, p, c, b)
          BY <4>1 DEF Core, Types
        <4>3. Holding(Locks(F, b), b.grp)
          BY <4>2, CountedHold
        <4> QED
          BY <4>1, <4>3
      <3>2. u.lock = LotsIn(book'.grp, Locks(flight', book'))
        BY <1>2, <1>6 DEF LotsCounted, Locks
      <3>3. PICK C, new : C = Locks(flight', book') /\ new = book'.grp
        OBVIOUS
      <3>4. Holding(C, new) /\ u.lock = LotsIn(new, C)
        BY <3>1, <3>2, <3>3
      <3> QED
        BY <3>4, LotsHeld
    <2>4. t.status = "UNLOCKING"
      BY <1>1, <1>7, <2>1 DEF StatusRight, SellsOf
    <2>5. StatusRight(flight', u)
      <3>1. \A y \in flight' : ~(y.kind = "lock" /\ y.news) /\ y.kind # "unlock"
        BY <1>7, <1>8, <2>4 DEF StatusRight, Closing
      <3> QED
        BY <2>2, <2>3, <2>4, <3>1 DEF StatusRight, Phases
    <2>6. "signal" \notin odd' => LockingOnly(flight', u)
      <3>1. SUFFICES ASSUME "signal" \notin odd' PROVE LockingOnly(flight', u)
        OBVIOUS
      <3>2. LockingOnly(flight, t) /\ t.status \in Phases
        BY <1>7, <2>4, <3>1 DEF Phases
      <3>3. u.lock <= u.open
        BY <1>7, <2>1, <2>2, <3>2 DEF LockingOnly, Txns
      <3> QED
        BY <1>8, <2>2, <3>2, <3>3 DEF LockingOnly
    <2>7. Spared(pc', cgs', book'.costs, book'.txn.status)
      <3>1. book'.txn.status \notin {"NEW", "READY"} => book.txn.status \notin {"NEW", "READY"}
        BY <1>6, <2>4
      <3> QED
        BY <1>1, <2>1, <3>1, SparedSame
    <2> QED
      BY <1>2, <1>5, <1>6, <2>5, <2>6, <2>7 DEF LockCore
  <1> QED
    BY <1>1, <1>10, <1>11 DEF Closes

(* The news of an order keeps lots and status fitting.                     *)
LEMMA OnOrderLocks ==
    ASSUME Core, LockCore, odd \subseteq odd', Calm', NEW o \in flight, OnOrder(o)
    PROVE  LockCore'
  <1>1. CASE o.kind \in Opening
    BY <1>1, OpenNewsIs, OpenNewsLocks
  <1>2. CASE o.kind \in Closing
    <2>1. \E k, cg : SellNewsTaken(o, k, cg) /\ (SellNewsKept(k, cg) \/ SellNewsEnds(cg))
      BY <1>2, SellNewsIs
    <2> QED
      BY <1>2, <2>1, SellNewsLocks
  <1> QED
    BY <1>1, <1>2, CoreParts DEF Orders

(* A trade keeps lots and status fitting.                                  *)
LEMMA OnTradeLocks ==
    ASSUME Core, Core', LockCore, odd \subseteq odd', Calm', NEW o \in flight, OnTrade(o)
    PROVE  LockCore'
  <1>1. CASE o.kind \in Opening
    BY <1>1, OpenTradeIs, OpenTradeLocks
  <1>2. CASE o.kind \in Closing /\ cgs[o.key].frag = "RCV_ONE"
    BY <1>2, FirstTradeIs, FirstTradeLocks
  <1>3. CASE o.kind \in Closing /\ cgs[o.key].frag # "RCV_ONE"
    <2>1. PICK cg, n, gone, grp : LastTrade(o, cg, n, gone, grp)
      BY <1>3, LastTradeIs
    <2> QED
      BY <1>3, <2>1, LastTradeLocks
  <1> QED
    BY <1>1, <1>2, <1>3, CoreParts DEF Orders

(* Lots and status fit in a new transaction.                               *)
LEMMA InitLocks ==
    ASSUME Init
    PROVE  LockCore
  <1>1. /\ flight = {} /\ pc = Idle /\ book.txn = NewTxn /\ book.costs = <<>> /\ book.locks = <<>>
        /\ \A k \in CloseKeys : cgs[k] = NoGroup
    BY DEF Init, EmptyBook
  <1>2. \A kind : HeardOf(flight, kind) = {}
    BY <1>1 DEF HeardOf
  <1>3. Opens(flight, book) = {} /\ Locks(flight, book) = {}
    BY <1>1, <1>2 DEF Opens, Locks, Counted, KeysOf, ToSet
  <1>4. LotsIn(book.grp, {}) = 0
    <2>1. Holding({}, book.grp)
      BY FS_EmptySet DEF Holding
    <2> QED
      BY <2>1, LotsHeld
  <1>5. LotsCounted(flight, book)
    <2>1. book.txn.open = 0 /\ book.txn.lock = 0
      BY <1>1 DEF NewTxn
    <2> QED
      BY <1>3, <1>4, <2>1 DEF LotsCounted, Opens, Locks
  <1>6. MarksRight(pc, cgs, book.grp) /\ Spared(pc, cgs, book.costs, book.txn.status)
    BY <1>1 DEF MarksRight, Spared, NewTxn, Idle, Closing
  <1>7. StatusRight(flight, book.txn) /\ LockingOnly(flight, book.txn)
    BY <1>1 DEF StatusRight, LockingOnly, NewTxn, Phases
  <1> QED
    BY <1>5, <1>6, <1>7 DEF LockCore

(* Lots and status fit while nothing changes.                              *)
LEMMA StutterLocks ==
    ASSUME LockCore, UNCHANGED vars
    PROVE  LockCore'
  <1>1. UNCHANGED <<flight, book, pc, cgs, odd>>
    BY DEF vars
  <1>2. LotsCounted(flight', book') = LotsCounted(flight, book)
    BY <1>1 DEF LotsCounted, Counted
  <1> QED
    BY <1>1, <1>2 DEF LockCore

(* Every step keeps lots and status fitting.                               *)
LEMMA NextLocks ==
    ASSUME Core, Core', LockCore, Calm', [Next]_vars
    PROVE  LockCore'
  <1>1. CASE UNCHANGED vars
    BY <1>1, StutterLocks
  <1>2. CASE Next
    <2>1. odd \subseteq odd'
      BY <1>2, OddStays DEF Calm
    <2>2. CASE UpdateSignal \/ HandleTxnStatus
      BY <2>1, <2>2, SignalLocks
    <2>3. CASE Open \/ Lock
      BY <2>1, <2>3, OpenLocks, LockLocks
    <2>4. CASE AddOpenGroup \/ CountOpening
      BY <2>1, <2>4, AddOpenGroupLocks, CountOpeningLocks
    <2>5. CASE Close \/ Unlock
      BY <2>1, <2>5, CloseLocks, UnlockLocks
    <2>6. CASE AddCloseGroup \/ CountClosing
      BY <2>1, <2>6, AddCloseGroupLocks, CountClosingLocks
    <2>7. ASSUME NEW o \in flight, Exchange(o) \/ OnOrder(o) \/ OnTrade(o)
          PROVE  LockCore'
      BY <2>1, <2>7, ExchangeLocks, OnOrderLocks, OnTradeLocks
    <2>8. CASE Crash \/ Load
      BY <2>1, <2>8, CrashLocks, LoadLocks
    <2> QED
      BY <1>2, <2>2, <2>3, <2>4, <2>5, <2>6, <2>7, <2>8 DEF Next
  <1> QED
    BY <1>1, <1>2

(* The lots and the status fit together as long as the exchange behaves as *)
(* the code is written for.                                                *)
LInv == Calm => LockCore

(* The lots that txn counts are those of its groups, and the status        *)
(* follows them, for all configurations, groups and volumes of the ticks.  *)
THEOREM LotsInvariance == Spec => []LInv
  <1>1. Init => LInv
    BY InitLocks DEF LInv
  <1>2. IInv /\ IInv' /\ LInv /\ [Next]_vars => LInv'
    <2> SUFFICES ASSUME IInv, IInv', LInv, [Next]_vars, Calm' PROVE LockCore'
      BY DEF LInv
    <2>1. Calm
      BY OddStays DEF Calm, vars
    <2> QED
      BY <2>1, NextLocks DEF IInv, LInv
  <1> QED
    BY <1>1, <1>2, Invariance, PTL DEF Spec

(* Neither the open nor the locked lots are negative.                      *)
LEMMA OpenLots ==
    ASSUME Core, LockCore
    PROVE  book.txn.open \in Nat /\ book.txn.lock \in Nat
  <1>1. PICK A, B, grp : A = Opens(flight, book) /\ B = Locks(flight, book) /\ grp = book.grp
    OBVIOUS
  <1>2. Holding(A, grp) /\ Holding(B, grp)
    BY <1>1, CoreParts, CountedHold
  <1>3. LotsIn(grp, A) \in Nat /\ LotsIn(grp, B) \in Nat
    BY <1>2, LotsHeld
  <1> QED
    BY <1>1, <1>3 DEF LockCore, LotsCounted, Opens, Locks

(* LockCovers of GridStgy for all configurations, groups and volumes: the  *)
(* lots locked by post_lock and post_lock_after_trade never exceed the     *)
(* open lots they stand for.                                               *)
THEOREM LockWithinOpen == Spec => []LockCovers
  <1>1. IInv /\ LInv => LockCovers
    <2> SUFFICES ASSUME IInv, LInv, Sound(Harmless) PROVE book.txn.lock <= book.txn.open
      BY DEF LockCovers
    <2>1. Calm /\ "signal" \notin odd
      BY DEF Sound, Calm, Harmless
    <2>2. Core /\ LockCore
      BY <2>1 DEF IInv, LInv
    <2>3. StatusRight(flight, book.txn) /\ LockingOnly(flight, book.txn)
      BY <2>1, <2>2 DEF LockCore
    <2>4. CASE book.txn.status \in Phases
      BY <2>3, <2>4 DEF LockingOnly
    <2>5. CASE book.txn.status \notin Phases
      BY <2>2, <2>3, <2>5, OpenLots DEF StatusRight
    <2> QED
      BY <2>4, <2>5
  <1> QED
    BY <1>1, Invariance, LotsInvariance, PTL

(* LockGoesOn of GridStgy for all configurations, groups and volumes: a    *)
(* LOCKING transaction always has lots left to lock, or the trade that     *)
(* ends it is on its way, and one that is locked or unlocking has locked   *)
(* lots.                                                                   *)
THEOREM LockHasWork == Spec => []LockGoesOn
  <1>1. IInv /\ LInv => LockGoesOn
    <2> SUFFICES ASSUME IInv, LInv, Sound(Harmless \cup {"signal"}), Quiet
                 PROVE  /\ book.txn.status = "LOCKING" => book.txn.lock < book.txn.lockable
                        /\ book.txn.status = "UNLOCKING" => book.txn.lock > 0
      BY DEF LockGoesOn
    <2>1. Core /\ LockCore
      BY DEF IInv, LInv, Sound, Calm
    <2>2. HeardOf(flight, "lock") = {}
      BY DEF Quiet, HeardOf
    <2>3. book.txn.lock \in Int /\ book.txn.lockable \in Int
      BY <2>1, CoreParts, BookParts
    <2> QED
      BY <2>1, <2>2, <2>3 DEF LockCore, StatusRight
  <1> QED
    BY <1>1, Invariance, LotsInvariance, PTL

=============================================================================
