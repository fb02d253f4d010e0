------------------------------ MODULE TxnBook ------------------------------
(***************************************************************************)
(* The book of one transaction of a strategy (model::Txn, Slot, TxnCost,   *)
(* OpenGroup, CloseGroup) and what the helpers and services do to it:      *)
(* src/src/stgy/single_grid/single_grid_stgy_helper.hpp, the same helpers  *)
(* of src/src/stgy/time_line, src/src/service/{txn,group}_service.hpp and  *)
(* src/src/dao/{txn,group}_dao.hpp.  A book is a record                    *)
(*   txn      status and counters                                          *)
(*   slots    the levels of the grid                                       *)
(*   costs    open groups with lots, best price first                      *)
(*   locks    open groups of the lock                                      *)
(*   grp      the open groups by key                                       *)
(* in the memory of the process, and another one in redis.                 *)
(*                                                                         *)
(* Prices are left out: what they decide, the modules that use the book    *)
(* leave open.                                                             *)
(***************************************************************************)
EXTENDS Integers, Sequences, SequencesExt, FiniteSetsExt, Functions

CONSTANTS
    SlotBlock,      \* 5 in the code: slots are added so many at a time
    MaxGroups       \* bound: open groups that exist at the same time

Keys    == 1..MaxGroups
NoGroup == [type |-> "NONE"]
Status  == {"NEW", "READY", "RUNNING", "BLOCK", "LOCKING", "LOCK", "UNLOCKING",
            "ONLY_CLOSE", "STOP", "EXIT"}

NewTxn == [status |-> "NEW", open |-> 0, opening |-> 0, closing |-> 0,
           lock |-> 0, lockable |-> 0]

Least(a, b) == IF a <= b THEN a ELSE b
Clip(n, cap) == IF n <= 0 THEN 0 ELSE Least(n, cap)

-----------------------------------------------------------------------------
(* Slots.                                                                  *)

EmptySlot(capacity) == [open |-> 0, opening |-> 0, capacity |-> capacity]

OpenSum(slots) == SumFunction([i \in DOMAIN slots |-> slots[i].open])
CfgSum(cfg)    == SumFunction(cfg)

(* The next SlotBlock slots of the configuration, or what is left of it.   *)
ExtendTxnSlots(slots, cfg) ==
    slots \o [i \in 1..Clip(Len(cfg) - Len(slots), SlotBlock) |-> EmptySlot(cfg[Len(slots) + i])]

(* Cut at the first slot that begins a block and is empty.                 *)
ShrinkTxnSlots(slots) ==
    LET cut == {i \in (SlotBlock - 1)..(Len(slots) - 1) :
                    i % SlotBlock = 0 /\ slots[i + 1].open = 0}
    IN  IF cut = {} THEN slots ELSE SubSeq(slots, 1, Min(cut))

(* The mutated form the project checks SlotsRight against.                 *)
RedistributedOff(lots, cfg) ==
    [i \in DOMAIN cfg |->
        [EmptySlot(cfg[i]) EXCEPT !.open = Clip(lots - CfgSum(SubSeq(cfg, 1, i)), cfg[i])]]

(* The lots poured into the slots of another configuration, in as many     *)
(* blocks as they need.                                                    *)
Redistributed(lots, cfg) ==
    LET Need  == {n \in 1..Len(cfg) :
                    /\ n % SlotBlock = 0 \/ n = Len(cfg)
                    /\ CfgSum(SubSeq(cfg, 1, n)) >= lots}
    IN  [i \in 1..Min(Need) |->
            [EmptySlot(cfg[i]) EXCEPT !.open = Clip(lots - CfgSum(SubSeq(cfg, 1, i - 1)), cfg[i])]]

(* Lots that were closed leave the slots from the last one backwards.      *)
ResetTxnSlots(slots, closed) ==
    [i \in DOMAIN slots |->
        [slots[i] EXCEPT !.open = @ - Clip(closed - OpenSum(SubSeq(slots, i + 1, Len(slots))), @)]]

Room(slots) == {i \in DOMAIN slots : slots[i].capacity > slots[i].open}

-----------------------------------------------------------------------------
(* Groups.                                                                 *)

OpenGroup(type, quantity, slot) ==
    [type |-> type, quantity |-> quantity, filled |-> 0, close |-> 0, closing |-> 0,
     slot |-> slot]

Remain(g) == g.filled - g.close

(* update_open_group and update_close_group on the final news of an order. *)
FillOpenGroup(b, g, filled) == [b EXCEPT !.grp[g].filled = filled]

FillCloseGroupOver(cg, filled) ==
    [cg EXCEPT !.filled = filled,
               !.frag = CASE @ = "NEED"    -> "RCV_ONE"
                          [] @ = "RCV_ONE" -> "RCV_TWO"
                          [] OTHER         -> @]

FillCloseGroup(cg, filled) ==
    [cg EXCEPT !.filled = @ + filled,
               !.frag = CASE @ = "NEED"    -> "RCV_ONE"
                          [] @ = "RCV_ONE" -> "RCV_TWO"
                          [] OTHER         -> @]

Remains(b, list) == [i \in DOMAIN list |-> Remain(b.grp[list[i]])]
LotsOf(b, list)  == SumFunction(Remains(b, list))

(* scan_can_close over the entries of a list, until volume lots are found: *)
(* the lots taken from the i-th entry, and the entries it looks at.        *)
TakenAt(b, list, i, volume) ==
    Least(Remain(b.grp[list[i]]), volume - SumFunctionOnSet(Remains(b, list), 1..(i - 1)))

Scanned(b, list, volume) ==
    {i \in DOMAIN list :
        \A k \in 1..(i - 1) : SumFunctionOnSet(Remains(b, list), 1..k) < volume}

ScannedLots(b, list, volume) ==
    SumFunction([i \in Scanned(b, list, volume) |-> TakenAt(b, list, i, volume)])

MarkClosing(b, list, volume) ==
    [b EXCEPT !.grp = [g \in Keys |->
        LET Mine == {i \in Scanned(b, list, volume) : list[i] = g}
        IN  IF Mine = {} THEN b.grp[g]
            ELSE [b.grp[g] EXCEPT !.closing =
                    @ + SumFunction([i \in Mine |-> TakenAt(b, list, i, volume)])]]]

CloseGroup(type, b, list, volume) ==
    [type |-> type, quantity |-> ScannedLots(b, list, volume), filled |-> 0, frag |-> "NO",
     groups |-> SubSeq(list, 1, Cardinality(Scanned(b, list, volume)))]

UnmarkClosingNot(b, cg) == b

UnmarkClosing(b, cg) ==
    [b EXCEPT !.grp = [g \in Keys |-> IF g \in ToSet(cg.groups)
                                      THEN [b.grp[g] EXCEPT !.closing = 0] ELSE b.grp[g]]]

(* The lots that were closed are booked on the groups of the close order,  *)
(* first come first served: each group gets what those ahead of it left.   *)
BookClosed(b, cg) ==
    LET Ahead(g)  == {cg.groups[j] : j \in {j \in DOMAIN cg.groups : \A k \in 1..j : cg.groups[k] # g}}
        Booked(g) == Clip(cg.filled - SumFunction([h \in Ahead(g) |-> b.grp[h].closing]),
                          b.grp[g].closing)
    IN  [b EXCEPT !.grp = [g \in Keys |->
            IF g \in ToSet(cg.groups)
            THEN [b.grp[g] EXCEPT !.close = @ + Booked(g), !.closing = 0]
            ELSE b.grp[g]]]

(* Groups of the close order that have no lots left.                       *)
Emptied(b, cg) == {g \in ToSet(cg.groups) : b.grp[g].filled = b.grp[g].close}

(* A list without some of its groups; the others keep their order.         *)
WithoutGroups(list, gone) ==
    LET Stay   == {i \in DOMAIN list : list[i] \notin gone}
        Nth(n) == CHOOSE i \in Stay : Cardinality({j \in Stay : j <= i}) = n
    IN  [n \in 1..Cardinality(Stay) |-> list[Nth(n)]]

(* add_txn_cost: at the place the price gives.  Redis keeps a group once.  *)
Placed(list, at, g) == SubSeq(list, 1, at) \o <<g>> \o SubSeq(list, at + 1, Len(list))
PlacedOnce(list, at, g) ==
    WithoutGroups(SubSeq(list, 1, at), {g}) \o <<g>>
        \o WithoutGroups(SubSeq(list, at + 1, Len(list)), {g})

-----------------------------------------------------------------------------
(* What update_txn and update_txn_lock write of the counters.              *)

SaveTxn(db, b) ==
    [db EXCEPT !.txn = [@ EXCEPT !.status = b.txn.status, !.open = b.txn.open,
                                 !.opening = b.txn.opening, !.closing = b.txn.closing]]

SaveTxnLockNotOpening(db, b) ==
    [db EXCEPT !.txn = [@ EXCEPT !.status = b.txn.status, !.closing = b.txn.closing,
                                 !.lock = b.txn.lock, !.lockable = b.txn.lockable]]

SaveTxnLock(db, b) ==
    [db EXCEPT !.txn = [@ EXCEPT !.status = b.txn.status, !.opening = b.txn.opening,
                                 !.closing = b.txn.closing, !.lock = b.txn.lock,
                                 !.lockable = b.txn.lockable]]

SaveFilled(db, b, g)  == [db EXCEPT !.grp[g].filled = b.grp[g].filled,
                                    !.grp[g].close = b.grp[g].close]
SaveQuantity(db, b, cg) ==
    [db EXCEPT !.grp = [g \in Keys |->
        IF g \in ToSet(cg.groups)
        THEN [@[g] EXCEPT !.close = b.grp[g].close, !.closing = b.grp[g].closing]
        ELSE @[g]]]

(* append_txn_slots, set_txn_slot, reset_txn_slots and add_open_group.     *)
AppendSlots(db, slots) == [db EXCEPT !.slots = @ \o SubSeq(slots, Len(@) + 1, Len(slots))]
SetSlot(db, b, i)      == [db EXCEPT !.slots[i] = b.slots[i]]
ResetSlots(db, slots)  == [db EXCEPT !.slots = slots]
AddGroup(db, g, group) == [db EXCEPT !.grp[g] = group]

(* What a restart reads: the transaction; the groups its lists name, each  *)
(* by its key; and of all groups in redis only those.                      *)
LoadTxn(db)          == db.txn
NamedGroups(list)    == ToSet(list)
LoadGroups(db, keys) == [g \in Keys |-> IF g \in keys THEN db.grp[g] ELSE NoGroup]

(* Groups nothing refers to any more are never read again; their keys are  *)
(* used anew.                                                              *)
Forget(b, used) == [b EXCEPT !.grp = [g \in Keys |-> IF g \in used THEN b.grp[g] ELSE NoGroup]]
=============================================================================
