-------------------------- MODULE PositionsProofs ---------------------------
(***************************************************************************)
(* Proofs about the positions, for any prices, any lots held overnight,    *)
(* any number of trades of any size and any number of logins.              *)
(*                                                                         *)
(* LogRight: the exchange has what the trades of its log add up to, and    *)
(* never had less than nothing.                                            *)
(* StartRight: until the portfolio is built, every trade the stream gave   *)
(* is in trades_ or about to get there.                                    *)
(* HeldRight: from then on the holding lists have what the log adds up to, *)
(* as far as it was reported or applied (LotsAgree).                       *)
(* BackRight, ApiRight: no close meets empty lists, and an order is split  *)
(* by what the lists have (ClosesAgree).                                   *)
(* LInv: lots are counted from the first one opened that day.  Those of    *)
(* the exchange are the last ones, those of a holding list the last ones   *)
(* of the trades reported or applied, and each costs what the trade it     *)
(* came from says; so what closing takes earns the same (PricesAgree).     *)
(* CashBalanced is inductive with the shapes alone (CashAddsUp).           *)
(***************************************************************************)
EXTENDS Positions, SequenceTheorems, SumTheorems, TLAPS

(* As much of the types as the proofs need.                                *)
Trades  == [id : Nat, side : Sides, effect : Effects, lots : Nat \ {0}, price : Nat \ {0}]
Entries == [price : Int, lots : Nat]

ExchangeShape ==
    /\ exOld \in [Sides -> Nat] /\ exToday \in [Sides -> Seq(Nat)] /\ exRealized \in Int
    /\ log \in Seq(Trades) /\ \A i \in 1..Len(log) : log[i].id = i
    /\ got \in 0..Len(log)

StartShape ==
    /\ sync \in {"logged_in", "queried", "dated", "ready"}
    /\ report \in [old : [Sides -> Nat], today : [Sides -> Nat], realized : Int]
    /\ reported \in 0..Len(log) /\ noted \in 0..Len(log)
    /\ again \in BOOLEAN /\ late \in BOOLEAN
    /\ cached \in Seq(Trades) /\ \A i \in 1..Len(cached) :
          cached[i].id \in 1..Len(log) /\ cached[i] = log[cached[i].id]
    /\ entering # <<>> => \E k \in 1..Len(log) : entering = <<log[k]>>

AccountShape ==
    /\ holding \in [Sides -> [old : Seq(Entries), today : Seq(Entries)]]
    /\ realized \in Int /\ cash \in Int
    /\ backward \subseteq 1..Len(log)

(* What the exchange holds of a side after n trades of a log: of           *)
(* yesterday's lots, of today's, and how many lots those trades opened.    *)
OldPart(s, m)  == IF m.effect = "CLOSE" /\ HeldSide(m) = s THEN -m.lots ELSE 0
OpenPart(s, m) == IF m.effect = "OPEN" /\ m.side = s THEN m.lots ELSE 0
NewPart(s, m)  == IF m.effect = "CLOSE_TODAY" /\ HeldSide(m) = s THEN -m.lots ELSE OpenPart(s, m)

OldAfter(l, s, n)    == OldLots[s] + SumFunctionOnSet([i \in 1..n |-> OldPart(s, l[i])], 1..n)
NewAfter(l, s, n)    == SumFunctionOnSet([i \in 1..n |-> NewPart(s, l[i])], 1..n)
OpenedAfter(l, s, n) == SumFunctionOnSet([i \in 1..n |-> OpenPart(s, l[i])], 1..n)

LogRight ==
    /\ \A s \in Sides : exOld[s] = OldAfter(log, s, Len(log)) /\ Len(exToday[s]) = NewAfter(log, s, Len(log))
    /\ \A s \in Sides : \A n \in 0..Len(log) :
          OldAfter(log, s, n) >= 0 /\ NewAfter(log, s, n) >= 0 /\ NewAfter(log, s, n) <= OpenedAfter(log, s, n)

(* The trades taken before the date was noted are in trades_ or about to   *)
(* get there, and the report is of the exchange as it was.                 *)
Kept(k) == entering = <<log[k]>> \/ \E i \in 1..Len(cached) : cached[i].id = k

StartRight ==
    /\ sync \in {"logged_in", "queried"} =>
          ~again /\ ~late /\ \A k \in 1..got : Kept(k)
    /\ sync = "dated" => ~late /\ \A k \in 1..noted : Kept(k)
    /\ sync = "dated" /\ dead = "no" => got = IF again THEN 0 ELSE noted
    /\ sync # "logged_in" => \A s \in Sides :
          report.old[s] = OldAfter(log, s, reported) /\ report.today[s] = NewAfter(log, s, reported)
    /\ sync # "ready" => backward = {}

(* The holding lists follow the log from what the report covers on.        *)
Applied == reported + Cardinality(backward)

HeldRight ==
    sync = "ready" /\ Regular /\ dead = "no" =>
        /\ Applied <= Len(log) /\ backward = (reported + 1)..Applied
        /\ got <= Applied /\ (~again => got = Applied)
        /\ \A s \in Sides :
              /\ Held(s) = OldAfter(log, s, Applied) + NewAfter(log, s, Applied)
              /\ Plain => Lots(holding[s].old) = OldAfter(log, s, Applied)

(* No close is booked on empty lists.                                      *)
BackRight == dead = "back" => ~Regular

(* What a strategy thread has seen, unless a trade was applied since.      *)
ListLots(s, effect) == Lots(IF effect = "CLOSE" THEN holding[s].old ELSE holding[s].today)

Orders == [at : {"idle", "read", "split"}, side : Sides, effect : Effects, amount : Nat,
           first : Nat, seen : Nat, parts : Seq([effect : Effects, amount : Int])]

ApiRight ==
    /\ api \in Orders
    /\ api.at # "idle" => sync = "ready" /\ api.effect # "OPEN" /\ api.seen <= Cardinality(backward)
    /\ api.at = "read" /\ api.seen = Cardinality(backward) =>
          api.first = ListLots(Other(api.side), api.effect)
    /\ api.at = "split" /\ api.seen = Cardinality(backward) =>
          \A i \in DOMAIN api.parts :
             /\ api.parts[i].effect # "OPEN"
             /\ api.parts[i].amount <= ListLots(Other(api.side), api.parts[i].effect)

Shape == ExchangeShape /\ StartShape /\ AccountShape

(* The inductive invariant.                                                *)
IInv == Shape /\ LogRight /\ StartRight /\ HeldRight /\ BackRight /\ ApiRight /\ CashBalanced
-----------------------------------------------------------------------------
(* The holding lists.                                                      *)

LotsIn(list)  == [i \in DOMAIN list |-> list[i].lots]
ValueIn(list) == [i \in DOMAIN list |-> list[i].price * list[i].lots]

(* The entries of a list, and their lots and values as sequences.          *)
LEMMA EntriesTyped ==
    ASSUME NEW list \in Seq(Entries)
    PROVE  /\ LotsIn(list) \in Seq(Nat) /\ LotsIn(list) \in Seq(Int)
           /\ ValueIn(list) \in Seq(Int)
           /\ DOMAIN list = 1..Len(list)
           /\ Len(LotsIn(list)) = Len(list) /\ Len(ValueIn(list)) = Len(list)
           /\ \A i \in 1..Len(list) :
                 /\ list[i] \in Entries /\ list[i].lots \in Nat /\ list[i].price \in Int
                 /\ LotsIn(list)[i] = list[i].lots
                 /\ ValueIn(list)[i] = list[i].price * list[i].lots
  <1>1. DOMAIN list = 1..Len(list) /\ Len(list) \in Nat
    OBVIOUS
  <1>2. \A i \in 1..Len(list) : list[i] \in Entries
    BY ElementOfSeq
  <1>3. \A i \in 1..Len(list) : list[i].lots \in Nat /\ list[i].price \in Int
    BY <1>2 DEF Entries
  <1>4. \A i \in 1..Len(list) : list[i].price * list[i].lots \in Int
    BY <1>3
  <1> QED
    BY <1>1, <1>2, <1>3, <1>4 DEF LotsIn, ValueIn

(* The lots of a list are a natural number, and its value is a number.     *)
LEMMA LotsNat ==
    ASSUME NEW list \in Seq(Entries)
    PROVE  Lots(list) \in Nat /\ Value(list) \in Int
  <1>1. /\ DOMAIN LotsIn(list) = 1..Len(list) /\ DOMAIN ValueIn(list) = 1..Len(list)
        /\ \A i \in 1..Len(list) : LotsIn(list)[i] \in Nat /\ ValueIn(list)[i] \in Int
    BY EntriesTyped
  <1>2. IsFiniteSet(1..Len(list))
    BY FS_Interval
  <1>3. Lots(list) = SumFunctionOnSet(LotsIn(list), 1..Len(list))
    BY <1>1 DEF Lots, LotsIn, SumFunction
  <1>4. Value(list) = SumFunctionOnSet(ValueIn(list), 1..Len(list))
    BY <1>1 DEF Value, ValueIn, SumFunction
  <1> QED
    BY <1>1, <1>2, <1>3, <1>4, SumIsNat, SumIsInt

(* A list with one more entry in front.                                    *)
LEMMA ConsLots ==
    ASSUME NEW list \in Seq(Entries), NEW e \in Entries
    PROVE  /\ <<e>> \o list \in Seq(Entries)
           /\ Lots(<<e>> \o list) = e.lots + Lots(list)
           /\ Value(<<e>> \o list) = e.price * e.lots + Value(list)
  <1> DEFINE more == <<e>> \o list
  <1>1. e.lots \in Int /\ e.price \in Int /\ e.price * e.lots \in Int
    BY DEF Entries
  <1>2. /\ more \in Seq(Entries) /\ Len(more) = Len(list) + 1 /\ more[1] = e
        /\ \A i \in 2..Len(more) : more[i] = list[i - 1]
    OBVIOUS
  <1>3. LotsIn(more) = <<e.lots>> \o LotsIn(list)
    <2>1. <<e.lots>> \o LotsIn(list) \in Seq(Int) /\ Len(<<e.lots>> \o LotsIn(list)) = Len(list) + 1
      BY <1>1, EntriesTyped
    <2>2. LotsIn(more) \in Seq(Int) /\ Len(LotsIn(more)) = Len(more)
      BY <1>2, EntriesTyped
    <2>3. ASSUME NEW i \in 1..Len(more) PROVE LotsIn(more)[i] = (<<e.lots>> \o LotsIn(list))[i]
      <3>1. LotsIn(more)[i] = more[i].lots
        BY <1>2, EntriesTyped
      <3>2. CASE i = 1
        BY <1>1, <1>2, <3>1, <3>2, EntriesTyped
      <3>3. CASE i # 1
        <4>1. i \in 2..Len(more) /\ i - 1 \in 1..Len(list)
          BY <1>2, <3>3
        <4>2. (<<e.lots>> \o LotsIn(list))[i] = LotsIn(list)[i - 1]
          BY <1>1, <1>2, <4>1, EntriesTyped
        <4>3. LotsIn(list)[i - 1] = list[i - 1].lots
          BY <4>1, EntriesTyped
        <4> QED
          BY <1>2, <3>1, <4>1, <4>2, <4>3
      <3> QED
        BY <3>2, <3>3
    <2> QED
      BY <1>2, <2>1, <2>2, <2>3, SeqEqual
  <1>4. ValueIn(more) = <<e.price * e.lots>> \o ValueIn(list)
    <2>1. /\ <<e.price * e.lots>> \o ValueIn(list) \in Seq(Int)
          /\ Len(<<e.price * e.lots>> \o ValueIn(list)) = Len(list) + 1
      BY <1>1, EntriesTyped
    <2>2. ValueIn(more) \in Seq(Int) /\ Len(ValueIn(more)) = Len(more)
      BY <1>2, EntriesTyped
    <2>3. ASSUME NEW i \in 1..Len(more)
          PROVE  ValueIn(more)[i] = (<<e.price * e.lots>> \o ValueIn(list))[i]
      <3>1. ValueIn(more)[i] = more[i].price * more[i].lots
        BY <1>2, EntriesTyped
      <3>2. CASE i = 1
        BY <1>1, <1>2, <3>1, <3>2, EntriesTyped
      <3>3. CASE i # 1
        <4>1. i \in 2..Len(more) /\ i - 1 \in 1..Len(list)
          BY <1>2, <3>3
        <4>2. (<<e.price * e.lots>> \o ValueIn(list))[i] = ValueIn(list)[i - 1]
          BY <1>1, <1>2, <4>1, EntriesTyped
        <4>3. ValueIn(list)[i - 1] = list[i - 1].price * list[i - 1].lots
          BY <4>1, EntriesTyped
        <4> QED
          BY <1>2, <3>1, <4>1, <4>2, <4>3
      <3> QED
        BY <3>2, <3>3
    <2> QED
      BY <1>2, <2>1, <2>2, <2>3, SeqEqual
  <1>5. SumFunction(LotsIn(more)) = e.lots + SumFunction(LotsIn(list))
    BY <1>1, <1>3, EntriesTyped, SumOfCons
  <1>6. SumFunction(ValueIn(more)) = e.price * e.lots + SumFunction(ValueIn(list))
    BY <1>1, <1>4, EntriesTyped, SumOfCons
  <1> QED
    BY <1>2, <1>5, <1>6 DEF Lots, Value, LotsIn, ValueIn

(* The lots behind an entry, as a part of the sum of them all.             *)
LEMMA BehindIs ==
    ASSUME NEW list \in Seq(Entries), NEW i \in 0..Len(list)
    PROVE  Behind(list, i) = SumFunctionOnSet(LotsIn(list), (i + 1)..Len(list))
  <1> DEFINE t == SubSeq(list, i + 1, Len(list))
  <1>1. /\ t \in Seq(Entries) /\ Len(t) = Len(list) - i
        /\ \A k \in 1..Len(t) : t[k] = list[k + i]
    OBVIOUS
  <1>2. LotsIn(t) = SubSeq(LotsIn(list), i + 1, Len(list))
    <2> DEFINE u == SubSeq(LotsIn(list), i + 1, Len(list))
    <2>1. LotsIn(list) \in Seq(Int) /\ Len(LotsIn(list)) = Len(list)
      BY EntriesTyped
    <2>2. /\ u \in Seq(Int) /\ Len(u) = Len(list) - i
          /\ \A k \in 1..Len(u) : u[k] = LotsIn(list)[k + i]
      <3>1. Len(list) \in Int /\ i + 1 \in Int
        OBVIOUS
      <3>2. \A k \in (i + 1)..Len(list) : LotsIn(list)[k] \in Int
        BY EntriesTyped
      <3>3. /\ u \in Seq(Int)
            /\ Len(u) = IF i + 1 <= Len(list) THEN Len(list) - (i + 1) + 1 ELSE 0
            /\ \A k \in 1..(Len(list) - (i + 1) + 1) : u[k] = LotsIn(list)[(i + 1) + k - 1]
        BY <3>1, <3>2, SubSeqProperties
      <3>4. Len(u) = Len(list) - i
        BY <3>1, <3>3
      <3>5. ASSUME NEW k \in 1..Len(u) PROVE u[k] = LotsIn(list)[k + i]
        <4>1. k \in 1..(Len(list) - (i + 1) + 1) /\ (i + 1) + k - 1 = k + i
          BY <3>4
        <4> QED
          BY <3>3, <4>1
      <3> QED
        BY <3>3, <3>4, <3>5
    <2>3. /\ LotsIn(t) \in Seq(Int) /\ Len(LotsIn(t)) = Len(t)
          /\ \A k \in 1..Len(t) : LotsIn(t)[k] = t[k].lots
      BY <1>1, EntriesTyped
    <2> HIDE DEF t, u
    <2>4. ASSUME NEW k \in 1..Len(t) PROVE LotsIn(t)[k] = u[k]
      <3>1. k + i \in 1..Len(list)
        BY <1>1
      <3>2. LotsIn(list)[k + i] = list[k + i].lots
        BY <3>1, EntriesTyped
      <3> QED
        BY <1>1, <2>2, <2>3, <3>2
    <2>5. LotsIn(t) = u
      BY <1>1, <2>2, <2>3, <2>4, SeqEqual
    <2> QED
      BY <2>5 DEF u
  <1>3. LotsIn(list) \in Seq(Int) /\ Len(LotsIn(list)) = Len(list)
    BY EntriesTyped
  <1>4. SumFunction(SubSeq(LotsIn(list), i + 1, Len(list)))
           = SumFunctionOnSet(LotsIn(list), (i + 1)..Len(list))
    BY <1>3, SumOfTail
  <1> QED
    BY <1>2, <1>4 DEF Behind, Lots, LotsIn

(* What is behind an entry is what is behind the next, and its lots.       *)
LEMMA BehindStep ==
    ASSUME NEW list \in Seq(Entries)
    PROVE  /\ Behind(list, 0) = Lots(list) /\ Behind(list, Len(list)) = 0
           /\ \A i \in 0..Len(list) : Behind(list, i) \in Nat
           /\ \A i \in 1..Len(list) : Behind(list, i - 1) = list[i].lots + Behind(list, i)
  <1>1. Behind(list, 0) = Lots(list)
    <2>1. SubSeq(list, 0 + 1, Len(list)) = list
      OBVIOUS
    <2> QED
      BY <2>1 DEF Behind
  <1>2. Behind(list, Len(list)) = 0
    <2>1. Len(list) \in 0..Len(list) /\ (Len(list) + 1)..Len(list) = {}
      OBVIOUS
    <2> QED
      BY <2>1, BehindIs, SumOfNone
  <1>3. ASSUME NEW i \in 0..Len(list) PROVE Behind(list, i) \in Nat
    <2>1. SubSeq(list, i + 1, Len(list)) \in Seq(Entries)
      OBVIOUS
    <2> QED
      BY <2>1, LotsNat DEF Behind
  <1>4. ASSUME NEW i \in 1..Len(list) PROVE Behind(list, i - 1) = list[i].lots + Behind(list, i)
    <2> DEFINE R == i..Len(list)
    <2>1. /\ i - 1 \in 0..Len(list) /\ i \in 0..Len(list) /\ (i - 1) + 1 = i
          /\ R \ {i} = (i + 1)..Len(list) /\ i \in R /\ R \subseteq 1..Len(list)
      OBVIOUS
    <2>2. IsFiniteSet(R)
      BY FS_Interval
    <2>3. \A k \in R : LotsIn(list)[k] \in Int
      BY <2>1, EntriesTyped
    <2>4. Behind(list, i - 1) = SumFunctionOnSet(LotsIn(list), R)
      BY <2>1, BehindIs
    <2>5. Behind(list, i) = SumFunctionOnSet(LotsIn(list), R \ {i})
      BY <2>1, BehindIs
    <2>6. LotsIn(list)[i] = list[i].lots
      BY EntriesTyped
    <2> HIDE DEF R
    <2> QED
      BY <2>1, <2>2, <2>3, <2>4, <2>5, <2>6, SumTakeOut
  <1> QED
    BY <1>1, <1>2, <1>3, <1>4

(* The further back the fewer lots are behind.                             *)
LEMMA BehindFalls ==
    ASSUME NEW list \in Seq(Entries), NEW i \in 0..Len(list), NEW k \in i..Len(list)
    PROVE  Behind(list, k) <= Behind(list, i)
  <1>1. k \in 0..Len(list)
    OBVIOUS
  <1>2. SumFunctionOnSet(LotsIn(list), (k + 1)..Len(list))
           <= SumFunctionOnSet(LotsIn(list), (i + 1)..Len(list))
    <2> DEFINE S == (i + 1)..Len(list)
               R == (k + 1)..Len(list)
    <2>1. R \in SUBSET S /\ S \subseteq 1..Len(list)
      OBVIOUS
    <2>2. IsFiniteSet(S)
      BY FS_Interval
    <2>3. \A j \in S : LotsIn(list)[j] \in Nat
      BY <2>1, EntriesTyped
    <2> HIDE DEF S, R
    <2>4. SumFunctionOnSet(LotsIn(list), R) <= SumFunctionOnSet(LotsIn(list), S)
      BY <2>1, <2>2, <2>3, SumOfSubset
    <2> QED
      BY <2>4 DEF S, R
  <1> QED
    BY <1>1, <1>2, BehindIs

(* Only the last entry that stays gives lots and keeps some; those behind  *)
(* it go.                                                                  *)
LEMMA RestIs ==
    ASSUME NEW list \in Seq(Entries), NEW left \in Nat, NEW n \in 0..Len(list),
           Behind(list, n) <= left, \A m \in 0..(n - 1) : Behind(list, m) > left
    PROVE  /\ DOMAIN Rest(list, left) = 1..n
           /\ \A i \in 1..n :
                 /\ Rest(list, left)[i].price = list[i].price
                 /\ i # n => Rest(list, left)[i].lots = list[i].lots
                 /\ i = n => Rest(list, left)[i].lots
                               = list[i].lots - (left - Behind(list, i))
           /\ Rest(list, left) \in Seq(Entries)
  <1> DEFINE r == Rest(list, left)
  <1>1. \A i \in 0..Len(list) : Behind(list, i) \in Nat
    BY BehindStep
  <1>2. {i \in DOMAIN list : Behind(list, i - 1) > left} = 1..n
    <2>1. ASSUME NEW i \in 1..Len(list), i > n PROVE ~ (Behind(list, i - 1) > left)
      <3>1. i - 1 \in n..Len(list) /\ i - 1 \in 0..Len(list)
        BY <2>1
      <3>2. Behind(list, i - 1) <= Behind(list, n)
        BY <3>1, BehindFalls
      <3> QED
        BY <1>1, <3>1, <3>2
    <2>2. ASSUME NEW i \in 1..n PROVE Behind(list, i - 1) > left
      <3>1. i - 1 \in 0..(n - 1)
        OBVIOUS
      <3> QED
        BY <3>1
    <2>3. DOMAIN list = 1..Len(list) /\ 1..n \subseteq 1..Len(list)
      OBVIOUS
    <2> QED
      BY <2>1, <2>2, <2>3
  <1>3. r = [i \in 1..n |-> [list[i] EXCEPT !.lots = @ - Taken(list, i, left)]]
    BY <1>2 DEF Rest
  <1>4. ASSUME NEW i \in 1..n
        PROVE  /\ r[i].price = list[i].price /\ r[i] \in Entries
               /\ i # n => r[i].lots = list[i].lots
               /\ i = n => r[i].lots = list[i].lots - (left - Behind(list, i))
    <2>1. list[i] \in Entries /\ list[i].lots \in Nat
      BY EntriesTyped
    <2>2. r[i] = [list[i] EXCEPT !.lots = @ - Taken(list, i, left)]
      BY <1>3
    <2>3. r[i].price = list[i].price /\ r[i].lots = list[i].lots - Taken(list, i, left)
      BY <2>1, <2>2 DEF Entries
    <2>4. ASSUME i # n PROVE Taken(list, i, left) = 0
      <3>1. i \in 0..(n - 1) /\ i \in 0..Len(list)
        BY <2>4
      <3>2. Behind(list, i) > left /\ Behind(list, i) \in Nat
        BY <1>1, <3>1
      <3> QED
        BY <3>2 DEF Taken
    <2>5. ASSUME i = n
          PROVE  Taken(list, i, left) = left - Behind(list, i) /\ Taken(list, i, left) \in 0..list[i].lots
      <3>1. i - 1 \in 0..(n - 1) /\ i \in 0..Len(list) /\ i \in 1..Len(list)
        BY <2>5
      <3>2. Behind(list, i) <= left /\ Behind(list, i) \in Nat
        BY <1>1, <2>5, <3>1
      <3>3. list[i].lots + Behind(list, i) > left
        BY <3>1, BehindStep
      <3> DEFINE room == left - Behind(list, i)
      <3>4. room \in Nat /\ room < list[i].lots
        BY <2>1, <3>2, <3>3
      <3>5. Taken(list, i, left) = IF room <= 0 THEN 0 ELSE IF room < list[i].lots THEN room ELSE list[i].lots
        BY DEF Taken
      <3> HIDE DEF room
      <3>6. Taken(list, i, left) = room
        BY <3>4, <3>5
      <3> QED
        BY <2>1, <3>4, <3>6 DEF room
    <2>6. Taken(list, i, left) \in 0..list[i].lots
      BY <2>1, <2>4, <2>5
    <2>7. r[i] \in Entries
      <3>1. list[i].lots - Taken(list, i, left) \in Nat
        BY <2>1, <2>6
      <3> QED
        BY <2>1, <2>2, <3>1 DEF Entries
    <2> QED
      BY <2>1, <2>3, <2>4, <2>5, <2>7
  <1>5. r \in Seq(Entries)
    <2>1. r \in [1..n -> Entries]
      BY <1>3, <1>4
    <2> QED
      BY <2>1
  <1> QED
    BY <1>3, <1>4, <1>5

(* As many lots are gone as were taken.                                    *)
LEMMA RestLots ==
    ASSUME NEW list \in Seq(Entries), NEW left \in 0..Lots(list)
    PROVE  /\ Rest(list, left) \in Seq(Entries)
           /\ Lots(Rest(list, left)) = Lots(list) - left
  <1> DEFINE T == {n \in 0..Len(list) : Behind(list, n) <= left}
             r == Rest(list, left)
             f == LotsIn(list)
  <1>1. Lots(list) \in Nat /\ left \in Nat
    BY LotsNat
  <1>2. T \subseteq Nat /\ T # {}
    <2>1. Len(list) \in T
      BY <1>1, BehindStep
    <2> QED
      BY <2>1
  <1>3. PICK n \in T : \A m \in T : n <= m
    <2> HIDE DEF T
    <2> QED
      BY <1>2, LeastNumber
  <1>4. /\ n \in 0..Len(list) /\ Behind(list, n) <= left /\ n \in Nat
        /\ Behind(list, n) \in Nat
    BY <1>3, BehindStep
  <1>5. \A m \in 0..(n - 1) : Behind(list, m) > left
    <2> SUFFICES ASSUME NEW m \in 0..(n - 1) PROVE Behind(list, m) > left
      OBVIOUS
    <2>1. m \in 0..Len(list) /\ m < n
      BY <1>4
    <2>2. m \notin T
      BY <1>3, <2>1
    <2>3. Behind(list, m) \in Nat
      BY <2>1, BehindStep
    <2> QED
      BY <1>1, <2>1, <2>2, <2>3
  <1> HIDE DEF T
  <1>6. /\ DOMAIN r = 1..n
        /\ \A i \in 1..n :
                 /\ r[i].price = list[i].price
                 /\ i # n => r[i].lots = list[i].lots
                 /\ i = n => r[i].lots = list[i].lots - (left - Behind(list, i))
        /\ r \in Seq(Entries)
    BY <1>1, <1>4, <1>5, RestIs
  <1> HIDE DEF r
  <1>7. Lots(r) = SumFunctionOnSet(LotsIn(r), 1..n)
    BY <1>6 DEF Lots, SumFunction, LotsIn
  <1>8. \A i \in 1..n : LotsIn(r)[i] = r[i].lots
    BY <1>6 DEF LotsIn
  <1>9. \A i \in 1..Len(list) : f[i] = list[i].lots /\ list[i].lots \in Nat
    BY EntriesTyped
  <1> HIDE DEF f
  <1>10. Lots(list) = SumFunctionOnSet(f, 1..n) + Behind(list, n)
    <2>1. Behind(list, 0) = Lots(list) /\ 0 \in 0..Len(list)
      BY BehindStep
    <2>2. Behind(list, 0) = SumFunctionOnSet(f, (0 + 1)..Len(list))
      BY <2>1, BehindIs DEF f
    <2>3. Behind(list, n) = SumFunctionOnSet(f, (n + 1)..Len(list))
      BY <1>4, BehindIs DEF f
    <2> DEFINE S == 1..n
               R == (n + 1)..Len(list)
    <2>4. S \cap R = {} /\ S \cup R = (0 + 1)..Len(list) /\ S \cup R \subseteq 1..Len(list)
      BY <1>4
    <2>5. IsFiniteSet(S) /\ IsFiniteSet(R)
      BY <1>4, FS_Interval
    <2>6. \A i \in S \cup R : f[i] \in Int
      BY <1>9, <2>4
    <2> HIDE DEF S, R
    <2>7. SumFunctionOnSet(f, S \cup R) = SumFunctionOnSet(f, S) + SumFunctionOnSet(f, R)
      BY <2>4, <2>5, <2>6, SumOfUnion
    <2> QED
      BY <2>1, <2>2, <2>3, <2>4, <2>7 DEF S, R
  <1>11. CASE n = 0
    <2>1. SumFunctionOnSet(f, 1..n) = 0 /\ SumFunctionOnSet(LotsIn(r), 1..n) = 0
      <3>1. 1..n = {}
        BY <1>11
      <3> QED
        BY <3>1, SumOfNone
    <2> QED
      BY <1>1, <1>4, <1>6, <1>7, <1>10, <2>1 DEF r
  <1>12. CASE n # 0
    <2>1. n \in 1..n /\ IsFiniteSet(1..n) /\ n \in 1..Len(list)
      BY <1>4, <1>12, FS_Interval
    <2>2. \A i \in 1..n : f[i] \in Int /\ LotsIn(r)[i] \in Int
      <3>1. \A i \in 1..n : i \in 1..Len(list)
        BY <1>4
      <3>2. Len(r) = n
        BY <1>4, <1>6
      <3>3. \A i \in 1..n : r[i].lots \in Nat
        BY <1>6, <3>2, EntriesTyped
      <3> QED
        BY <1>8, <1>9, <3>1, <3>3
    <2>3. \A i \in 1..n : i # n => LotsIn(r)[i] = f[i]
      <3>1. \A i \in 1..n : i \in 1..Len(list)
        BY <1>4
      <3> QED
        BY <1>6, <1>8, <1>9, <3>1
    <2>4. SumFunctionOnSet(LotsIn(r), 1..n)
             = SumFunctionOnSet(f, 1..n) + (LotsIn(r)[n] - f[n])
      <3> DEFINE S == 1..n
      <3>1. /\ n \in S /\ IsFiniteSet(S) /\ \A i \in S : f[i] \in Int /\ LotsIn(r)[i] \in Int
            /\ \A i \in S : i # n => LotsIn(r)[i] = f[i]
        BY <2>1, <2>2, <2>3
      <3> HIDE DEF S
      <3>2. SumFunctionOnSet(LotsIn(r), S) = SumFunctionOnSet(f, S) + (LotsIn(r)[n] - f[n])
        BY <3>1, SumChange
      <3> QED
        BY <3>2 DEF S
    <2>5. LotsIn(r)[n] = f[n] - (left - Behind(list, n)) /\ f[n] \in Int
      BY <1>6, <1>8, <1>9, <2>1
    <2>6. SumFunctionOnSet(f, 1..n) \in Int
      BY <2>1, <2>2, SumIsInt
    <2>7. SumFunctionOnSet(f, 1..n) + ((f[n] - (left - Behind(list, n))) - f[n])
             = (SumFunctionOnSet(f, 1..n) + Behind(list, n)) - left
      BY <1>1, <1>4, <2>5, <2>6
    <2>8. Lots(r) = Lots(list) - left
      BY <1>7, <1>10, <2>4, <2>5, <2>7
    <2> QED
      BY <1>6, <2>8 DEF r
  <1> QED
    BY <1>11, <1>12

(* If there are no lots too many all entries stay.                         *)
LEMMA RestOfNone ==
    ASSUME NEW list \in Seq(Entries), NEW left \in Int, left < 0
    PROVE  Rest(list, left) = list
  <1>1. ASSUME NEW i \in 1..Len(list)
        PROVE  Behind(list, i - 1) > left /\ Taken(list, i, left) = 0
    <2>1. i - 1 \in 0..Len(list) /\ i \in 0..Len(list)
      OBVIOUS
    <2>2. Behind(list, i - 1) \in Nat /\ Behind(list, i) \in Nat
      BY <2>1, BehindStep
    <2> QED
      BY <2>2 DEF Taken
  <1>2. DOMAIN list = 1..Len(list)
    OBVIOUS
  <1>3. {i \in DOMAIN list : Behind(list, i - 1) > left} = 1..Len(list)
    BY <1>1, <1>2
  <1>4. Rest(list, left) = [i \in 1..Len(list) |-> [list[i] EXCEPT !.lots = @ - Taken(list, i, left)]]
    BY <1>3 DEF Rest
  <1>5. ASSUME NEW i \in 1..Len(list) PROVE [list[i] EXCEPT !.lots = @ - Taken(list, i, left)] = list[i]
    <2>1. list[i] \in Entries /\ list[i].lots \in Nat
      BY EntriesTyped
    <2>2. list[i].lots - Taken(list, i, left) = list[i].lots
      BY <1>1, <2>1
    <2> QED
      BY <2>1, <2>2 DEF Entries
  <1>6. Rest(list, left) = [i \in 1..Len(list) |-> list[i]]
    BY <1>4, <1>5
  <1> QED
    BY <1>6

(* What closing earns is a number.                                         *)
LEMMA EarningInt ==
    ASSUME NEW s \in Sides, NEW list \in Seq(Entries), NEW left \in Nat, NEW price \in Int
    PROVE  Earning(s, list, left, price) \in Int
  <1> DEFINE f == [i \in DOMAIN list |-> Taken(list, i, left) * Earned(s, list[i].price, price)]
  <1>1. DOMAIN f = 1..Len(list) /\ IsFiniteSet(1..Len(list))
    BY FS_Interval
  <1>2. ASSUME NEW i \in 1..Len(list) PROVE f[i] \in Int
    <2>1. list[i].lots \in Nat /\ list[i].price \in Int
      BY EntriesTyped
    <2>2. Behind(list, i) \in Nat
      <3>1. i \in 0..Len(list)
        OBVIOUS
      <3> QED
        BY <3>1, BehindStep
    <2>3. Taken(list, i, left) \in Int
      BY <2>1, <2>2 DEF Taken
    <2>4. Earned(s, list[i].price, price) \in Int
      BY <2>1 DEF Earned
    <2> QED
      BY <2>3, <2>4
  <1>3. Earning(s, list, left, price) = SumFunctionOnSet(f, 1..Len(list))
    BY <1>1 DEF Earning, SumFunction
  <1> HIDE DEF f
  <1> QED
    BY <1>1, <1>2, <1>3, SumIsInt

(* Counting what is before each numbers the members of a set in order.     *)
LEMMA Ranks ==
    ASSUME NEW S, IsFiniteSet(S), NEW B \in [S -> SUBSET S],
           \A i \in S : i \notin B[i],
           \A i, j \in S : i \in B[j] => B[i] \subseteq B[j],
           \A i, j \in S : i # j => i \in B[j] \/ j \in B[i]
    PROVE  [i \in S |-> Cardinality(B[i]) + 1] \in Bijection(S, 1..Cardinality(S))
  <1> DEFINE r == [i \in S |-> Cardinality(B[i]) + 1]
             n == Cardinality(S)
  <1>1. n \in Nat /\ IsFiniteSet(1..n) /\ Cardinality(1..n) = n
    <2>1. n \in Nat
      BY FS_CardinalityType
    <2> QED
      BY <2>1, FS_Interval
  <1>2. ASSUME NEW i \in S
        PROVE  /\ IsFiniteSet(B[i]) /\ Cardinality(B[i]) \in Nat /\ Cardinality(B[i]) <= n - 1
               /\ r[i] = Cardinality(B[i]) + 1
    <2>1. B[i] \in SUBSET (S \ {i})
      OBVIOUS
    <2>2. IsFiniteSet(S \ {i}) /\ Cardinality(S \ {i}) = n - 1
      BY FS_RemoveElement
    <2>3. IsFiniteSet(B[i]) /\ Cardinality(B[i]) <= n - 1
      BY <2>1, <2>2, FS_Subset
    <2> QED
      BY <2>3, FS_CardinalityType
  <1>3. ASSUME NEW i \in S, NEW j \in S, i \in B[j] PROVE r[i] < r[j]
    <2>1. B[i] \in SUBSET (B[j] \ {i})
      BY <1>3
    <2>2. IsFiniteSet(B[j] \ {i}) /\ Cardinality(B[j] \ {i}) = Cardinality(B[j]) - 1
      BY <1>2, <1>3, FS_RemoveElement
    <2>3. Cardinality(B[i]) <= Cardinality(B[j]) - 1
      BY <2>1, <2>2, FS_Subset
    <2> HIDE DEF r
    <2> QED
      BY <1>2, <2>3
  <1>4. r \in [S -> 1..n]
    BY <1>1, <1>2
  <1>5. ASSUME NEW i \in S, NEW j \in S, r[i] = r[j] PROVE i = j
    <2> SUFFICES ASSUME i # j PROVE FALSE
      OBVIOUS
    <2>1. r[i] \in Int /\ r[j] \in Int
      BY <1>1, <1>4
    <2> HIDE DEF r
    <2>2. r[i] < r[j] \/ r[j] < r[i]
      BY <1>3
    <2> QED
      BY <1>5, <2>1, <2>2
  <1> HIDE DEF r, n
  <1>6. r \in Injection(S, 1..n)
    BY <1>4, <1>5 DEF Injection, IsInjective
  <1>7. r \in Surjection(S, 1..n)
    <2>1. Cardinality(S) = Cardinality(1..n)
      BY <1>1 DEF n
    <2> QED
      BY <1>1, <1>6, <2>1, FS_Injection
  <1> QED
    BY <1>6, <1>7 DEF Bijection, r, n

(* positions() lists each opening trade that was kept, in some order.      *)
Opens(s) == {i \in DOMAIN cached : cached[i].effect = "OPEN" /\ cached[i].side = s}

(* The list of the opening trades has each of them once, a later one       *)
(* before an earlier one.                                                  *)
LEMMA OpenedNth ==
    ASSUME cached \in Seq(Trades), NEW s \in Sides
    PROVE  /\ IsFiniteSet(Opens(s)) /\ Cardinality(Opens(s)) \in Nat
           /\ Opened(s) \in Seq(Entries) /\ Len(Opened(s)) = Cardinality(Opens(s))
           /\ \E r \in Bijection(Opens(s), 1..Cardinality(Opens(s))) :
                 /\ \A i \in Opens(s) : /\ Opened(s)[r[i]].lots = cached[i].lots
                                        /\ Opened(s)[r[i]].price = cached[i].price
                 /\ \A i, j \in Opens(s) : cached[j].id > cached[i].id => r[j] < r[i]
  <1> DEFINE S == Opens(s)
             B == [i \in S |-> {j \in S : \/ cached[j].id > cached[i].id
                                          \/ cached[j].id = cached[i].id /\ j < i}]
             n == Cardinality(S)
             Nth(k) == CHOOSE i \in S : Cardinality(B[i]) = k - 1
  <1>1. ASSUME NEW i \in S
        PROVE  /\ i \in Nat /\ cached[i].id \in Nat /\ cached[i].lots \in Nat
               /\ cached[i].price \in Int
    <2>1. i \in 1..Len(cached)
      BY DEF Opens
    <2>2. cached[i] \in Trades
      BY <2>1, ElementOfSeq
    <2> QED
      BY <2>1, <2>2 DEF Trades
  <1>2. IsFiniteSet(S) /\ n \in Nat
    <2>1. S \in SUBSET (1..Len(cached))
      BY DEF Opens
    <2>2. IsFiniteSet(1..Len(cached))
      BY FS_Interval
    <2> QED
      BY <2>1, <2>2, FS_Subset, FS_CardinalityType
  <1> DEFINE r == [i \in S |-> Cardinality(B[i]) + 1]
  <1>3. r \in Bijection(S, 1..n)
    <2>1. B \in [S -> SUBSET S]
      OBVIOUS
    <2>2. \A i \in S : i \notin B[i]
      BY <1>1
    <2>3. \A i, j \in S : i \in B[j] => B[i] \subseteq B[j]
      BY <1>1
    <2>4. \A i, j \in S : i # j => i \in B[j] \/ j \in B[i]
      BY <1>1
    <2> HIDE DEF S, B
    <2> QED
      BY <1>2, <2>1, <2>2, <2>3, <2>4, Ranks
  <1>4. Opened(s) = [k \in 1..n |-> [price |-> cached[Nth(k)].price, lots |-> cached[Nth(k)].lots]]
    <2>1. ASSUME NEW k
          PROVE  Nth(k) = CHOOSE i \in S :
                    Cardinality({j \in S : \/ cached[j].id > cached[i].id
                                           \/ /\ cached[j].id = cached[i].id
                                              /\ j < i}) = k - 1
      OBVIOUS
    <2> QED
      BY <2>1, Zenon DEF Opened, Opens
  <1> HIDE DEF B
  <1>5. /\ r \in [S -> 1..n] /\ \A i \in S : r[i] = Cardinality(B[i]) + 1
        /\ \A i, j \in S : r[i] = r[j] => i = j
        /\ \A k \in 1..n : \E i \in S : r[i] = k
    BY <1>3 DEF Bijection, Injection, Surjection, IsInjective
  <1>6. ASSUME NEW i \in S PROVE Cardinality(B[i]) \in Int
    <2>1. B[i] \in SUBSET S
      BY DEF B
    <2> QED
      BY <1>2, <2>1, FS_Subset, FS_CardinalityType
  <1>7. ASSUME NEW i \in S PROVE Nth(r[i]) = i
    <2>1. r[i] = Cardinality(B[i]) + 1 /\ r[i] \in 1..n
      BY <1>5
    <2>2. Cardinality(B[i]) = r[i] - 1
      BY <1>6, <2>1
    <2>3. Nth(r[i]) \in S /\ Cardinality(B[Nth(r[i])]) = r[i] - 1
      BY <2>2
    <2> HIDE DEF r
    <2>4. r[Nth(r[i])] = Cardinality(B[Nth(r[i])]) + 1
      BY <1>5, <2>3
    <2>5. r[Nth(r[i])] = r[i]
      BY <1>6, <2>1, <2>3, <2>4
    <2> HIDE DEF Nth
    <2> QED
      BY <1>5, <2>3, <2>5
  <1>8. ASSUME NEW k \in 1..n PROVE Nth(k) \in S
    <2>1. PICK i \in S : r[i] = k
      BY <1>5
    <2> HIDE DEF Nth, r
    <2> QED
      BY <1>7, <2>1
  <1> HIDE DEF r, Nth
  <1>9. Opened(s) \in Seq(Entries) /\ Len(Opened(s)) = n
    <2>1. \A k \in 1..n : [price |-> cached[Nth(k)].price, lots |-> cached[Nth(k)].lots] \in Entries
      BY <1>1, <1>8 DEF Entries
    <2> HIDE DEF n
    <2>2. Opened(s) \in [1..n -> Entries]
      BY <1>4, <2>1
    <2> QED
      BY <1>2, <2>2
  <1>10. ASSUME NEW i \in S
         PROVE  Opened(s)[r[i]].lots = cached[i].lots /\ Opened(s)[r[i]].price = cached[i].price
    <2>1. r[i] \in 1..n
      BY <1>5
    <2>2. /\ Opened(s)[r[i]].lots = cached[Nth(r[i])].lots
          /\ Opened(s)[r[i]].price = cached[Nth(r[i])].price
      BY <1>4, <2>1
    <2> QED
      BY <1>7, <2>2
  <1>11. ASSUME NEW i \in S, NEW j \in S, cached[j].id > cached[i].id PROVE r[j] < r[i]
    <2>1. B[i] \in SUBSET S /\ B[j] \in SUBSET B[i] /\ j \in B[i] /\ j \notin B[j]
      BY <1>1, <1>11 DEF B
    <2>2. IsFiniteSet(B[i])
      BY <1>2, <2>1, FS_Subset
    <2>3. Cardinality(B[j]) <= Cardinality(B[i]) /\ Cardinality(B[j]) # Cardinality(B[i])
      BY <2>1, <2>2, FS_Subset
    <2> QED
      BY <1>5, <1>6, <2>3
  <1> HIDE DEF S
  <1>12. /\ IsFiniteSet(S) /\ n \in Nat /\ Opened(s) \in Seq(Entries) /\ Len(Opened(s)) = n
         /\ \E p \in Bijection(S, 1..n) :
               /\ \A i \in S : Opened(s)[p[i]].lots = cached[i].lots /\ Opened(s)[p[i]].price = cached[i].price
               /\ \A i, j \in S : cached[j].id > cached[i].id => p[j] < p[i]
    BY <1>2, <1>3, <1>9, <1>10, <1>11
  <1> QED
    BY <1>12 DEF S

(* It has the lots of all of them.                                         *)
LEMMA OpenedLots ==
    ASSUME cached \in Seq(Trades), NEW s \in Sides
    PROVE  /\ Opened(s) \in Seq(Entries) /\ IsFiniteSet(Opens(s))
           /\ Lots(Opened(s)) = SumFunctionOnSet([i \in Opens(s) |-> cached[i].lots], Opens(s))
  <1> DEFINE S == Opens(s)
             n == Cardinality(S)
             g == [i \in S |-> cached[i].lots]
             f == LotsIn(Opened(s))
  <1>1. /\ IsFiniteSet(S) /\ n \in Nat /\ Opened(s) \in Seq(Entries) /\ Len(Opened(s)) = n
    BY OpenedNth
  <1>2. PICK r \in Bijection(S, 1..n) : \A i \in S : Opened(s)[r[i]].lots = cached[i].lots
    BY OpenedNth
  <1>3. \A i \in S : r[i] \in 1..n
    BY <1>2 DEF Bijection, Injection
  <1>4. \A k \in 1..n : f[k] \in Int
    BY <1>1, EntriesTyped
  <1>5. ASSUME NEW i \in S PROVE g[i] = f[r[i]]
    <2>1. f[r[i]] = Opened(s)[r[i]].lots
      BY <1>1, <1>3, EntriesTyped
    <2> QED
      BY <1>2, <2>1
  <1>6. Lots(Opened(s)) = SumFunctionOnSet(f, 1..n)
    <2>1. DOMAIN Opened(s) = 1..n
      BY <1>1
    <2> QED
      BY <2>1 DEF Lots, SumFunction, LotsIn
  <1> HIDE DEF g, f, S
  <1>7. SumFunctionOnSet(g, S) = SumFunctionOnSet(f, 1..n)
    <2> DEFINE R == 1..n
    <2>1. r \in Bijection(S, R) /\ \A y \in R : f[y] \in Int
      BY <1>2, <1>4
    <2> HIDE DEF R
    <2>2. SumFunctionOnSet(g, S) = SumFunctionOnSet(f, R)
      BY <1>1, <1>5, <2>1, SumReindex
    <2> QED
      BY <2>2 DEF R
  <1> QED
    BY <1>1, <1>6, <1>7 DEF g, S
-----------------------------------------------------------------------------
(* What the exchange holds.                                                *)

(* A trade adds today's lots only by opening.                              *)
LEMMA PartsTyped ==
    ASSUME NEW m \in Trades, NEW s \in Sides
    PROVE  /\ OldPart(s, m) \in Int /\ NewPart(s, m) \in Int
           /\ OpenPart(s, m) \in Nat /\ OpenPart(s, m) \in Int
           /\ NewPart(s, m) <= OpenPart(s, m)
           /\ HeldSide(m) \in Sides /\ m.side \in Sides /\ m.effect \in Effects
           /\ m.lots \in Nat /\ m.lots > 0 /\ m.price \in Nat /\ m.id \in Nat
  BY DEF Trades, OldPart, NewPart, OpenPart, HeldSide, Other, Sides, Effects

(* Before any trade there are yesterday's lots.                            *)
LEMMA AfterNone ==
    ASSUME NEW l, NEW s \in Sides
    PROVE  /\ OldAfter(l, s, 0) = OldLots[s] /\ NewAfter(l, s, 0) = 0 /\ OpenedAfter(l, s, 0) = 0
           /\ OldLots[s] \in Nat
  <1>1. 1..0 = {} /\ OldLots[s] \in Nat
    BY ConstAssumption
  <1>2. \A f : SumFunctionOnSet(f, 1..0) = 0
    BY <1>1, SumOfNone
  <1> QED
    BY <1>1, <1>2 DEF OldAfter, NewAfter, OpenedAfter

(* What the trades add up to are numbers.                                  *)
LEMMA AfterInt ==
    ASSUME NEW l \in Seq(Trades), NEW s \in Sides, NEW n \in 0..Len(l)
    PROVE  OldAfter(l, s, n) \in Int /\ NewAfter(l, s, n) \in Int /\ OpenedAfter(l, s, n) \in Int
  <1>1. IsFiniteSet(1..n)
    BY FS_Interval
  <1>2. \A i \in 1..n : l[i] \in Trades
    <2>1. \A i \in 1..n : i \in 1..Len(l)
      OBVIOUS
    <2> QED
      BY <2>1, ElementOfSeq
  <1> DEFINE f == [i \in 1..n |-> OldPart(s, l[i])]
             g == [i \in 1..n |-> NewPart(s, l[i])]
             h == [i \in 1..n |-> OpenPart(s, l[i])]
  <1>3. \A i \in 1..n : f[i] \in Int /\ g[i] \in Int /\ h[i] \in Int
    BY <1>2, PartsTyped
  <1> HIDE DEF f, g, h
  <1>4. SumFunctionOnSet(f, 1..n) \in Int /\ SumFunctionOnSet(g, 1..n) \in Int
        /\ SumFunctionOnSet(h, 1..n) \in Int
    BY <1>1, <1>3, SumIsInt
  <1>5. OldLots[s] \in Int
    BY AfterNone
  <1> QED
    BY <1>4, <1>5 DEF f, g, h, OldAfter, NewAfter, OpenedAfter

(* One more trade adds its part.                                           *)
LEMMA AfterNext ==
    ASSUME NEW l \in Seq(Trades), NEW s \in Sides, NEW n \in Nat, n + 1 <= Len(l)
    PROVE  /\ OldAfter(l, s, n + 1) = OldAfter(l, s, n) + OldPart(s, l[n + 1])
           /\ NewAfter(l, s, n + 1) = NewAfter(l, s, n) + NewPart(s, l[n + 1])
           /\ OpenedAfter(l, s, n + 1) = OpenedAfter(l, s, n) + OpenPart(s, l[n + 1])
  <1>1. IsFiniteSet(1..n)
    BY FS_Interval
  <1>2. \A i \in 1..(n + 1) : l[i] \in Trades
    <2>1. \A i \in 1..(n + 1) : i \in 1..Len(l)
      OBVIOUS
    <2> QED
      BY <2>1, ElementOfSeq
  <1>3. n + 1 \in 1..(n + 1) /\ 1..n \subseteq 1..(n + 1)
    OBVIOUS
  <1> DEFINE f(k) == [i \in 1..k |-> OldPart(s, l[i])]
             g(k) == [i \in 1..k |-> NewPart(s, l[i])]
             h(k) == [i \in 1..k |-> OpenPart(s, l[i])]
  <1>4. /\ \A i \in 1..(n + 1) : f(n + 1)[i] = OldPart(s, l[i]) /\ f(n + 1)[i] \in Int
        /\ \A i \in 1..n : f(n + 1)[i] = f(n)[i]
    BY <1>2, <1>3, PartsTyped
  <1>5. /\ \A i \in 1..(n + 1) : g(n + 1)[i] = NewPart(s, l[i]) /\ g(n + 1)[i] \in Int
        /\ \A i \in 1..n : g(n + 1)[i] = g(n)[i]
    BY <1>2, <1>3, PartsTyped
  <1>6. /\ \A i \in 1..(n + 1) : h(n + 1)[i] = OpenPart(s, l[i]) /\ h(n + 1)[i] \in Int
        /\ \A i \in 1..n : h(n + 1)[i] = h(n)[i]
    BY <1>2, <1>3, PartsTyped
  <1> HIDE DEF f, g, h
  <1>7. SumFunctionOnSet(f(n + 1), 1..(n + 1)) = SumFunctionOnSet(f(n), 1..n) + OldPart(s, l[n + 1])
    <2>1. SumFunctionOnSet(f(n + 1), 1..(n + 1)) = SumFunctionOnSet(f(n + 1), 1..n) + f(n + 1)[n + 1]
      BY <1>4, SumOfNext
    <2>2. SumFunctionOnSet(f(n + 1), 1..n) = SumFunctionOnSet(f(n), 1..n)
      BY <1>1, <1>4, SameSum
    <2> QED
      BY <1>3, <1>4, <2>1, <2>2
  <1>8. SumFunctionOnSet(g(n + 1), 1..(n + 1)) = SumFunctionOnSet(g(n), 1..n) + NewPart(s, l[n + 1])
    <2>1. SumFunctionOnSet(g(n + 1), 1..(n + 1)) = SumFunctionOnSet(g(n + 1), 1..n) + g(n + 1)[n + 1]
      BY <1>5, SumOfNext
    <2>2. SumFunctionOnSet(g(n + 1), 1..n) = SumFunctionOnSet(g(n), 1..n)
      BY <1>1, <1>5, SameSum
    <2> QED
      BY <1>3, <1>5, <2>1, <2>2
  <1>9. SumFunctionOnSet(h(n + 1), 1..(n + 1)) = SumFunctionOnSet(h(n), 1..n) + OpenPart(s, l[n + 1])
    <2>1. SumFunctionOnSet(h(n + 1), 1..(n + 1)) = SumFunctionOnSet(h(n + 1), 1..n) + h(n + 1)[n + 1]
      BY <1>6, SumOfNext
    <2>2. SumFunctionOnSet(h(n + 1), 1..n) = SumFunctionOnSet(h(n), 1..n)
      BY <1>1, <1>6, SameSum
    <2> QED
      BY <1>3, <1>6, <2>1, <2>2
  <1>10. OldAfter(l, s, n + 1) = OldAfter(l, s, n) + OldPart(s, l[n + 1])
    <2>1. /\ OldAfter(l, s, n + 1) = OldLots[s] + SumFunctionOnSet(f(n + 1), 1..(n + 1))
          /\ OldAfter(l, s, n) = OldLots[s] + SumFunctionOnSet(f(n), 1..n)
      BY DEF OldAfter, f
    <2>2. SumFunctionOnSet(f(n), 1..n) \in Int /\ OldPart(s, l[n + 1]) \in Int /\ OldLots[s] \in Int
      <3>1. \A i \in 1..n : f(n)[i] \in Int
        BY <1>3, <1>4
      <3>2. SumFunctionOnSet(f(n), 1..n) \in Int
        BY <1>1, <3>1, SumIsInt
      <3>3. OldPart(s, l[n + 1]) \in Int
        BY <1>3, <1>4
      <3>4. OldLots[s] \in Int
        BY ConstAssumption
      <3> QED
        BY <3>2, <3>3, <3>4
    <2> QED
      BY <1>7, <2>1, <2>2
  <1> QED
    BY <1>8, <1>9, <1>10 DEF NewAfter, OpenedAfter, g, h

(* What was said of the first trades stays true when there are more.       *)
LEMMA AfterKept ==
    ASSUME NEW l, NEW k, NEW s, NEW n \in Nat, \A i \in 1..n : k[i] = l[i]
    PROVE  /\ OldAfter(k, s, n) = OldAfter(l, s, n) /\ NewAfter(k, s, n) = NewAfter(l, s, n)
           /\ OpenedAfter(k, s, n) = OpenedAfter(l, s, n)
  <1>1. /\ [i \in 1..n |-> OldPart(s, k[i])] = [i \in 1..n |-> OldPart(s, l[i])]
        /\ [i \in 1..n |-> NewPart(s, k[i])] = [i \in 1..n |-> NewPart(s, l[i])]
        /\ [i \in 1..n |-> OpenPart(s, k[i])] = [i \in 1..n |-> OpenPart(s, l[i])]
    OBVIOUS
  <1> QED
    BY <1>1 DEF OldAfter, NewAfter, OpenedAfter

(* The step of the exchange.                                               *)
LEMMA TradeStep ==
    ASSUME ExchangeShape, LogRight, NEW side \in Sides, NEW effect \in Effects,
           NEW lots \in 1..MaxLots, ExchangeTrade(side, effect, lots)
    PROVE  /\ ExchangeShape' /\ LogRight'
           /\ Len(log') = Len(log) + 1 /\ \A i \in 1..Len(log) : log'[i] = log[i]
  <1>0. PICK n \in Nat : n = Len(log)
    BY DEF ExchangeShape
  <1> DEFINE price == PriceOf[n + 1]
             m == [id |-> n + 1, side |-> side, effect |-> effect, lots |-> lots, price |-> price]
             s == HeldSide(m)
  <1>1. /\ log \in Seq(Trades) /\ n \in Nat /\ \A i \in 1..n : log[i].id = i
        /\ exOld \in [Sides -> Nat] /\ exToday \in [Sides -> Seq(Nat)] /\ exRealized \in Int
        /\ got \in 0..n
    BY <1>0 DEF ExchangeShape
  <1>2. price \in Nat \ {0} /\ lots \in Nat \ {0}
    <2>1. n < Len(PriceOf) /\ PriceOf \in Seq(Nat \ {0})
      BY <1>0, ConstAssumption DEF ExchangeTrade
    <2>2. n + 1 \in 1..Len(PriceOf)
      BY <1>1, <2>1
    <2>3. price \in Nat \ {0}
      BY <2>1, <2>2, ElementOfSeq
    <2>4. MaxLots \in Nat
      BY ConstAssumption
    <2> QED
      BY <2>3, <2>4
  <1>3. m \in Trades
    BY <1>1, <1>2 DEF Trades
  <1>4. log' = Append(log, m) /\ got' = got
    BY <1>0 DEF ExchangeTrade, stream
  <1>5. /\ log' \in Seq(Trades) /\ Len(log') = n + 1 /\ log'[n + 1] = m
        /\ \A i \in 1..n : log'[i] = log[i]
    BY <1>0, <1>1, <1>3, <1>4
  <1>6. s \in Sides /\ m.effect = effect /\ m.lots = lots /\ m.side = side /\ m.id = n + 1 /\ m.price = price
    <2>1. m.effect = effect /\ m.lots = lots /\ m.side = side /\ m.id = n + 1 /\ m.price = price
      OBVIOUS
    <2> HIDE DEF m
    <2> QED
      BY <1>3, <2>1, PartsTyped
  <1>7. \/ /\ effect = "OPEN"
           /\ exToday' = [exToday EXCEPT ![s] = @ \o [i \in 1..lots |-> price]]
           /\ exOld' = exOld /\ exRealized' = exRealized
        \/ /\ effect = "CLOSE" /\ exOld[s] >= lots
           /\ exOld' = [exOld EXCEPT ![s] = @ - lots]
           /\ exRealized' = exRealized + lots * Earned(s, PreSettlement, price)
           /\ exToday' = exToday
        \/ /\ effect = "CLOSE_TODAY" /\ Len(exToday[s]) >= lots
           /\ exToday' = [exToday EXCEPT ![s] = SubSeq(@, lots + 1, Len(@))]
           /\ exRealized' = exRealized +
                SumFunction([i \in 1..lots |-> Earned(s, exToday[s][i], price)])
           /\ exOld' = exOld
    BY <1>0 DEF ExchangeTrade
  <1> HIDE DEF s, m, price
  <1>8. /\ exOld' \in [Sides -> Nat] /\ exToday' \in [Sides -> Seq(Nat)]
        /\ \A t \in Sides : /\ exOld'[t] = exOld[t] + OldPart(t, m)
                            /\ Len(exToday'[t]) = Len(exToday[t]) + NewPart(t, m)
    <2>1. \A t \in Sides : exOld[t] \in Nat /\ exToday[t] \in Seq(Nat) /\ Len(exToday[t]) \in Nat
      BY <1>1
    <2>2. CASE effect = "OPEN"
      <3>1. exToday' = [exToday EXCEPT ![s] = @ \o [i \in 1..lots |-> price]] /\ exOld' = exOld
        BY <1>7, <2>2
      <3> DEFINE more == [i \in 1..lots |-> price]
      <3>2. more \in Seq(Nat) /\ Len(more) = lots
        BY <1>2
      <3>3. \A t \in Sides : exToday'[t] = IF t = s THEN exToday[t] \o more ELSE exToday[t]
        BY <1>1, <3>1
      <3>4. \A t \in Sides : OldPart(t, m) = 0 /\ NewPart(t, m) = IF t = s THEN lots ELSE 0
        BY <1>6, <2>2 DEF OldPart, NewPart, OpenPart, s, HeldSide
      <3> HIDE DEF more
      <3>5. \A t \in Sides : /\ exToday[t] \o more \in Seq(Nat)
                             /\ Len(exToday[t] \o more) = Len(exToday[t]) + lots
        BY <2>1, <3>2
      <3>6. exToday' \in [Sides -> Seq(Nat)]
        BY <1>1, <2>1, <3>1, <3>5 DEF more
      <3>7. ASSUME NEW t \in Sides PROVE Len(exToday'[t]) = Len(exToday[t]) + NewPart(t, m)
        <4>1. CASE t = s
          BY <3>3, <3>4, <3>5, <4>1
        <4>2. CASE t # s
          <5>1. exToday'[t] = exToday[t] /\ NewPart(t, m) = 0
            BY <3>3, <3>4, <4>2
          <5> QED
            BY <2>1, <5>1
        <4> QED
          BY <4>1, <4>2
      <3> QED
        BY <1>1, <2>1, <3>1, <3>4, <3>6, <3>7
    <2>3. CASE effect = "CLOSE"
      <3>1. exOld[s] >= lots /\ exOld' = [exOld EXCEPT ![s] = @ - lots] /\ exToday' = exToday
        BY <1>7, <2>3
      <3>2. \A t \in Sides : /\ OldPart(t, m) = IF t = s THEN -lots ELSE 0
                             /\ NewPart(t, m) = 0
        BY <1>6, <2>3 DEF OldPart, NewPart, OpenPart, s
      <3> QED
        BY <1>1, <1>2, <1>6, <2>1, <3>1, <3>2
    <2>4. CASE effect = "CLOSE_TODAY"
      <3>1. /\ Len(exToday[s]) >= lots /\ exOld' = exOld
            /\ exToday' = [exToday EXCEPT ![s] = SubSeq(@, lots + 1, Len(@))]
        BY <1>7, <2>4
      <3>2. \A t \in Sides : /\ NewPart(t, m) = IF t = s THEN -lots ELSE 0
                             /\ OldPart(t, m) = 0
        BY <1>6, <2>4 DEF OldPart, NewPart, OpenPart, s
      <3> DEFINE rest == SubSeq(exToday[s], lots + 1, Len(exToday[s]))
      <3>3. rest \in Seq(Nat) /\ Len(rest) = Len(exToday[s]) - lots
        <4>1. exToday[s] \in Seq(Nat) /\ lots \in 1..Len(exToday[s])
          BY <1>2, <1>6, <2>1, <3>1
        <4> QED
          BY <4>1
      <3> HIDE DEF rest
      <3>4. exToday' = [exToday EXCEPT ![s] = rest]
        BY <3>1 DEF rest
      <3>5. exToday' \in [Sides -> Seq(Nat)] /\ \A t \in Sides : exToday'[t] = IF t = s THEN rest ELSE exToday[t]
        BY <1>1, <1>6, <3>3, <3>4
      <3>6. ASSUME NEW t \in Sides PROVE Len(exToday'[t]) = Len(exToday[t]) + NewPart(t, m)
        <4>1. CASE t = s
          <5>1. exToday'[t] = rest /\ NewPart(t, m) = -lots /\ Len(exToday[t]) \in Int /\ lots \in Int
            BY <1>2, <2>1, <3>2, <3>5, <4>1
          <5> QED
            BY <3>3, <4>1, <5>1
        <4>2. CASE t # s
          <5>1. exToday'[t] = exToday[t] /\ NewPart(t, m) = 0 /\ Len(exToday[t]) \in Int
            BY <2>1, <3>2, <3>5, <4>2
          <5> QED
            BY <5>1
        <4> QED
          BY <4>1, <4>2
      <3>7. \A t \in Sides : exOld'[t] = exOld[t] + OldPart(t, m)
        BY <2>1, <3>1, <3>2
      <3> QED
        BY <1>1, <3>1, <3>5, <3>6, <3>7
    <2> QED
      BY <1>7, <2>2, <2>3, <2>4
  <1>9. exRealized' \in Int
    <2>1. CASE effect = "CLOSE"
      <3>1. Earned(s, PreSettlement, price) \in Int
        BY <1>2, ConstAssumption DEF Earned
      <3>2. lots * Earned(s, PreSettlement, price) \in Int
        BY <1>2, <3>1
      <3> QED
        BY <1>1, <1>7, <2>1, <3>2
    <2>2. CASE effect = "CLOSE_TODAY"
      <3> DEFINE f == [i \in 1..lots |-> Earned(s, exToday[s][i], price)]
      <3>1. \A i \in 1..lots : exToday[s][i] \in Nat
        <4>1. exToday[s] \in Seq(Nat) /\ 1..lots \subseteq 1..Len(exToday[s])
          BY <1>1, <1>2, <1>6, <1>7, <2>2
        <4> QED
          BY <4>1, ElementOfSeq
      <3>2. \A i \in 1..lots : f[i] \in Int
        BY <1>2, <3>1 DEF Earned
      <3>3. IsFiniteSet(1..lots) /\ DOMAIN f = 1..lots
        BY <1>2, FS_Interval
      <3> HIDE DEF f
      <3>4. SumFunction(f) \in Int
        BY <3>2, <3>3, SumIsInt DEF SumFunction
      <3>5. exRealized' = exRealized + SumFunction(f)
        BY <1>7, <2>2 DEF f
      <3> QED
        BY <1>1, <3>4, <3>5
    <2>3. CASE effect = "OPEN"
      BY <1>1, <1>7, <2>3
    <2> QED
      BY <2>1, <2>2, <2>3 DEF Effects
  <1>10. \A i \in 1..(n + 1) : log'[i].id = i
    <2> SUFFICES ASSUME NEW i \in 1..(n + 1) PROVE log'[i].id = i
      OBVIOUS
    <2>1. i \in 1..n \/ i = n + 1
      OBVIOUS
    <2> QED
      BY <1>1, <1>5, <1>6, <2>1
  <1>11. ExchangeShape'
    BY <1>1, <1>4, <1>5, <1>8, <1>9, <1>10 DEF ExchangeShape
  <1>12. ASSUME NEW t \in Sides, NEW k \in 0..n
         PROVE  /\ OldAfter(log', t, k) = OldAfter(log, t, k) /\ NewAfter(log', t, k) = NewAfter(log, t, k)
                /\ OpenedAfter(log', t, k) = OpenedAfter(log, t, k)
    <2>1. \A i \in 1..k : log'[i] = log[i]
      BY <1>1, <1>5
    <2> QED
      BY <2>1, AfterKept
  <1>13. ASSUME NEW t \in Sides
         PROVE  /\ OldAfter(log', t, n + 1) = exOld'[t] /\ NewAfter(log', t, n + 1) = Len(exToday'[t])
                /\ NewAfter(log', t, n + 1) <= OpenedAfter(log', t, n + 1)
    <2>1. n + 1 <= Len(log') /\ n \in Nat
      BY <1>1, <1>5
    <2>2. /\ OldAfter(log', t, n + 1) = OldAfter(log', t, n) + OldPart(t, m)
          /\ NewAfter(log', t, n + 1) = NewAfter(log', t, n) + NewPart(t, m)
          /\ OpenedAfter(log', t, n + 1) = OpenedAfter(log', t, n) + OpenPart(t, m)
      <3>1. ASSUME NEW k \in Nat, k + 1 <= Len(log')
            PROVE  /\ OldAfter(log', t, k + 1) = OldAfter(log', t, k) + OldPart(t, log'[k + 1])
                   /\ NewAfter(log', t, k + 1) = NewAfter(log', t, k) + NewPart(t, log'[k + 1])
                   /\ OpenedAfter(log', t, k + 1) = OpenedAfter(log', t, k) + OpenPart(t, log'[k + 1])
        BY <1>5, <3>1, AfterNext
      <3> QED
        BY <1>5, <2>1, <3>1
    <2>3. /\ OldAfter(log', t, n) = exOld[t] /\ NewAfter(log', t, n) = Len(exToday[t])
          /\ Len(exToday[t]) <= OpenedAfter(log', t, n)
      <3>1. n \in 0..n
        BY <1>1
      <3>2. exOld[t] = OldAfter(log, t, n) /\ Len(exToday[t]) = NewAfter(log, t, n) /\ NewAfter(log, t, n) <= OpenedAfter(log, t, n)
        BY <1>0, <3>1 DEF LogRight
      <3> QED
        BY <1>12, <3>1, <3>2
    <2>4. /\ NewPart(t, m) <= OpenPart(t, m) /\ NewPart(t, m) \in Int /\ OpenPart(t, m) \in Int
          /\ Len(exToday[t]) \in Int /\ OpenedAfter(log', t, n) \in Int
      <3>1. OpenedAfter(log, t, n) \in Int
        <4>1. log \in Seq(Trades) /\ n \in 0..Len(log)
          BY <1>0, <1>1
        <4> QED
          BY <4>1, AfterInt
      <3>2. OpenedAfter(log', t, n) = OpenedAfter(log, t, n)
        <4>1. n \in 0..n
          BY <1>1
        <4> QED
          BY <1>12, <4>1
      <3>3. NewPart(t, m) <= OpenPart(t, m) /\ NewPart(t, m) \in Int /\ OpenPart(t, m) \in Int
        BY <1>3, PartsTyped
      <3>4. Len(exToday[t]) \in Int
        BY <1>1
      <3> QED
        BY <3>1, <3>2, <3>3, <3>4
    <2>5. exOld'[t] = exOld[t] + OldPart(t, m) /\ Len(exToday'[t]) = Len(exToday[t]) + NewPart(t, m)
      BY <1>8
    <2>6. OldAfter(log', t, n + 1) = exOld'[t] /\ NewAfter(log', t, n + 1) = Len(exToday'[t])
      BY <2>2, <2>3, <2>5
    <2>7. Len(exToday[t]) + NewPart(t, m) <= OpenedAfter(log', t, n) + OpenPart(t, m)
      BY <2>3, <2>4
    <2> QED
      BY <2>2, <2>3, <2>6, <2>7
  <1>14. ASSUME NEW t \in Sides, NEW k \in 0..(n + 1)
         PROVE  OldAfter(log', t, k) >= 0 /\ NewAfter(log', t, k) >= 0 /\ NewAfter(log', t, k) <= OpenedAfter(log', t, k)
    <2>1. CASE k = n + 1
      <3>1. exOld'[t] \in Nat /\ Len(exToday'[t]) \in Nat
        BY <1>8
      <3> QED
        BY <1>13, <2>1, <3>1
    <2>2. CASE k # n + 1
      <3>1. k \in 0..n
        BY <1>1, <2>2
      <3> QED
        BY <1>0, <1>12, <3>1 DEF LogRight
    <2> QED
      BY <2>1, <2>2
  <1>15. LogRight'
    <2>1. \A t \in Sides : exOld'[t] = OldAfter(log, t, Len(log))' /\ Len(exToday'[t]) = NewAfter(log, t, Len(log))'
      BY <1>0, <1>5, <1>13
    <2>2. \A t \in Sides : \A k \in 0..Len(log') :
             OldAfter(log', t, k) >= 0 /\ NewAfter(log', t, k) >= 0 /\ NewAfter(log', t, k) <= OpenedAfter(log', t, k)
      BY <1>5, <1>14
    <2> QED
      BY <2>1, <2>2 DEF LogRight
  <1> QED
    BY <1>0, <1>5, <1>11, <1>15
-----------------------------------------------------------------------------
(* Steps that leave the exchange or the account alone.                     *)

(* LogRight is about the exchange alone.                                   *)
LEMMA LogSame == ASSUME LogRight, UNCHANGED exchange PROVE LogRight'
  BY DEF LogRight, exchange

(* AccountShape is about the account and the number of trades.             *)
LEMMA AccountSame == ASSUME AccountShape, UNCHANGED account, UNCHANGED exchange PROVE AccountShape'
  BY DEF AccountShape, account, exchange

(* CashBalanced is about the account once it is built.                     *)
LEMMA CashSame == ASSUME CashBalanced, UNCHANGED account, UNCHANGED sync PROVE CashBalanced'
  <1>1. holding' = holding /\ cash' = cash /\ realized' = realized /\ sync' = sync
    BY DEF account
  <1> QED
    BY <1>1 DEF CashBalanced, Margin

(* ApiRight is about the strategy thread and the holding lists.            *)
LEMMA ApiSame ==
    ASSUME ApiRight, UNCHANGED account, UNCHANGED strategy, sync' = sync \/ api.at = "idle"
    PROVE  ApiRight'
  <1>1. holding' = holding /\ backward' = backward /\ api' = api
    BY DEF account, strategy
  <1>2. CASE api.at = "idle"
    BY <1>1, <1>2 DEF ApiRight
  <1>3. CASE sync' = sync
    BY <1>1, <1>3 DEF ApiRight, ListLots
  <1> QED
    BY <1>2, <1>3

(* HeldRight is about the exchange, the start and the account.             *)
LEMMA HeldSame ==
    ASSUME HeldRight, UNCHANGED <<exchange, start, account>>, UNCHANGED <<got, again, dead>>
    PROVE  HeldRight'
  <1>1. /\ holding' = holding /\ backward' = backward /\ log' = log /\ sync' = sync
        /\ reported' = reported /\ noted' = noted /\ late' = late
        /\ got' = got /\ again' = again /\ dead' = dead
    BY DEF exchange, start, account
  <1>2. Applied' = Applied /\ (Regular' <=> Regular) /\ (Plain' <=> Plain)
    BY <1>1 DEF Applied, Regular, Plain
  <1>3. \A s \in Sides : Held(s)' = Held(s)
    BY <1>1 DEF Held
  <1> QED
    BY <1>1, <1>2, <1>3 DEF HeldRight

(* Steps of the strategy thread.                                           *)
LEMMA OutsideStrategy ==
    ASSUME IInv, UNCHANGED <<exchange, stream, start, caching, account, dead>>
    PROVE  Shape' /\ LogRight' /\ StartRight' /\ HeldRight' /\ BackRight' /\ CashBalanced'
  <1>1. /\ UNCHANGED exchange /\ UNCHANGED account /\ UNCHANGED start
        /\ log' = log /\ got' = got /\ again' = again /\ dead' = dead /\ sync' = sync
        /\ entering' = entering /\ cached' = cached /\ noted' = noted /\ reported' = reported
        /\ report' = report /\ late' = late /\ backward' = backward
    BY DEF exchange, stream, start, caching, account
  <1>2. LogRight' /\ AccountShape' /\ HeldRight' /\ CashBalanced'
    BY <1>1, LogSame, AccountSame, HeldSame, CashSame DEF IInv, Shape
  <1>3. ExchangeShape'
    BY <1>1 DEF IInv, Shape, ExchangeShape, exchange
  <1>4. StartShape'
    BY <1>1 DEF IInv, Shape, StartShape
  <1>5. StartRight'
    BY <1>1 DEF IInv, StartRight, Kept
  <1>6. BackRight'
    BY <1>1 DEF IInv, BackRight, Regular
  <1> QED
    BY <1>2, <1>3, <1>4, <1>5, <1>6 DEF Shape

(* The trades applied can be counted.                                      *)
LEMMA BackwardCount ==
    ASSUME AccountShape, ExchangeShape
    PROVE  IsFiniteSet(backward) /\ Cardinality(backward) \in Nat
  <1>1. Len(log) \in Nat
    BY DEF ExchangeShape
  <1>2. IsFiniteSet(1..Len(log))
    BY <1>1, FS_Interval
  <1> QED
    BY <1>2, FS_Subset, FS_CardinalityType DEF AccountShape

(* The holding lists of a side.                                            *)
LEMMA HoldingTyped ==
    ASSUME AccountShape, NEW s \in Sides
    PROVE  /\ holding[s].old \in Seq(Entries) /\ holding[s].today \in Seq(Entries)
           /\ Lots(holding[s].old) \in Nat /\ Lots(holding[s].today) \in Nat
           /\ Held(s) = Lots(holding[s].old) + Lots(holding[s].today)
           /\ Other(s) \in Sides
  <1>1. holding[s].old \in Seq(Entries) /\ holding[s].today \in Seq(Entries)
    BY DEF AccountShape
  <1> QED
    BY <1>1, LotsNat DEF Held, Other, Sides

(* ReadFirst keeps the invariant: what it reads is what is there.          *)
LEMMA ReadStep ==
    ASSUME IInv, NEW side \in Sides, NEW effect \in Effects, NEW amount \in Amounts,
           ReadFirst(side, effect, amount)
    PROVE  IInv'
  <1>1. UNCHANGED <<exchange, stream, start, caching, account, dead>>
    BY DEF ReadFirst
  <1>2. ApiRight'
    <2>1. /\ effect \in Effects /\ effect # "OPEN" /\ sync = "ready" /\ amount \in Nat
      BY ConstAssumption DEF ReadFirst, Effects
    <2>2. /\ api' = [at |-> "read", side |-> side, effect |-> effect, amount |-> amount,
                     first |-> Lots(FirstList(side, effect)), seen |-> Cardinality(backward),
                     parts |-> <<>>]
      BY DEF ReadFirst, NoOrder
    <2>9. /\ api'.at = "read" /\ api'.side = side /\ api'.effect = effect /\ api'.amount = amount
          /\ api'.seen = Cardinality(backward) /\ api'.first = Lots(FirstList(side, effect))
      BY <2>2
    <2>3. sync' = sync /\ holding' = holding /\ backward' = backward
      BY <1>1 DEF start, account
    <2>4. AccountShape /\ Other(side) \in Sides /\ Cardinality(backward) \in Nat
      BY BackwardCount DEF IInv, Shape, Other, Sides
    <2>5. Lots(FirstList(side, effect)) = ListLots(Other(side), effect)
      BY <2>1 DEF FirstList, ListLots, Effects
    <2>6. Lots(FirstList(side, effect)) \in Nat
      BY <2>4, <2>5, HoldingTyped DEF ListLots
    <2>7. ListLots(Other(side), effect)' = ListLots(Other(side), effect)
      BY <2>3 DEF ListLots
    <2>8. api' \in Orders
      BY <2>1, <2>2, <2>4, <2>6 DEF Orders
    <2> QED
      BY <2>1, <2>3, <2>4, <2>5, <2>6, <2>7, <2>8, <2>9 DEF ApiRight
  <1> QED
    BY <1>1, <1>2, OutsideStrategy DEF IInv

(* Joining sequences of one element.                                       *)
LEMMA TwoOne ==
    ASSUME NEW P, NEW x \in P, NEW y \in P
    PROVE  <<x>> \o <<y>> = <<x, y>> /\ <<>> \o <<y>> = <<y>>
  <1>1. <<x>> \in Seq(P) /\ <<y>> \in Seq(P) /\ <<>> \in Seq(P) /\ <<x, y>> \in Seq(P)
    OBVIOUS
  <1>2. /\ Len(<<x>>) = 1 /\ Len(<<y>>) = 1 /\ Len(<<x, y>>) = 2 /\ Len(<<>>) = 0
    OBVIOUS
  <1>3. <<x>> \o <<y>> \in Seq(P) /\ Len(<<x>> \o <<y>>) = 2
    BY <1>1, <1>2
  <1>4. \A i \in 1..2 : (<<x>> \o <<y>>)[i] = <<x, y>>[i]
    BY <1>1, <1>2
  <1>5. <<x>> \o <<y>> = <<x, y>>
    BY <1>1, <1>2, <1>3, <1>4, SeqEqual
  <1> QED
    BY <1>1, <1>5

(* SplitOrder and Submit keep the invariant: no part is more than the list *)
(* of its kind has.                                                        *)
LEMMA SplitStep ==
    ASSUME IInv, SplitOrder \/ Submit
    PROVE  IInv'
  <1>1. UNCHANGED <<exchange, stream, start, caching, account, dead>>
    BY DEF SplitOrder, Submit
  <1>2. sync' = sync /\ holding' = holding /\ backward' = backward
    BY <1>1 DEF start, account
  <1>3. CASE Submit
    <2>1. api' = NoOrder
      BY <1>3 DEF Submit
    <2>2. api' \in Orders /\ api'.at = "idle"
      BY <2>1 DEF NoOrder, Orders, Sides, Effects
    <2>3. ApiRight'
      BY <2>2 DEF ApiRight
    <2> QED
      BY <1>1, <2>3, OutsideStrategy DEF IInv
  <1>4. CASE SplitOrder
    <2> DEFINE o == Other(api.side)
               p == Parts(api)
    <2>1. /\ api.at = "read" /\ api' = [api EXCEPT !.at = "split", !.parts = p]
          /\ api \in Orders
      BY <1>4 DEF SplitOrder, IInv, ApiRight
    <2>2. /\ sync = "ready" /\ api.effect \in {"CLOSE", "CLOSE_TODAY"}
          /\ api.seen \in Nat /\ api.seen <= Cardinality(backward)
          /\ api.seen = Cardinality(backward) => api.first = ListLots(o, api.effect)
          /\ api.amount \in Nat /\ api.first \in Nat /\ api.side \in Sides
      BY <2>1 DEF IInv, ApiRight, Orders, Effects
    <2>3. AccountShape /\ o \in Sides
      BY <2>2 DEF IInv, Shape, Other, Sides
    <2>4. /\ ListLots(o, api.effect) \in Nat /\ ListLots(o, Second(api.effect)) \in Nat
          /\ Held(o) = ListLots(o, api.effect) + ListLots(o, Second(api.effect))
          /\ Second(api.effect) \in {"CLOSE", "CLOSE_TODAY"}
      BY <2>2, <2>3, HoldingTyped DEF ListLots, Second
    <2> DEFINE P == [effect : Effects, amount : Int]
    <2>5. /\ p \in Seq(P)
          /\ \A i \in DOMAIN p : p[i].effect # "OPEN"
          /\ api.seen = Cardinality(backward) =>
                \A i \in DOMAIN p : p[i].amount <= ListLots(o, p[i].effect)
      <3> DEFINE a == Part(api.effect, api.amount)
                 f == Part(api.effect, api.first)
                 r == Part(Second(api.effect), api.amount - api.first)
      <3>1. /\ a \in P /\ a.effect = api.effect /\ a.amount = api.amount
            /\ f \in P /\ f.effect = api.effect /\ f.amount = api.first
            /\ r \in P /\ r.effect = Second(api.effect) /\ r.amount = api.amount - api.first
            /\ api.effect # "OPEN" /\ Second(api.effect) # "OPEN"
        BY <2>2, <2>4 DEF Part, Effects
      <3>2. \/ p = <<>>
            \/ api.amount <= api.first /\ p = <<a>>
            \/ api.amount <= Held(o) /\ p = <<f, r>>
            \/ api.amount <= Held(o) /\ api.first = 0 /\ p = <<r>>
        <4>1. Held(o) \in Nat
          BY <2>4
        <4>2. CASE api.amount > Held(o)
          BY <4>2 DEF Parts
        <4>3. CASE api.amount <= Held(o) /\ api.amount <= api.first
          BY <2>2, <4>1, <4>3 DEF Parts
        <4>4. CASE ~ (api.amount > Held(o)) /\ ~ (api.amount <= Held(o) /\ api.amount <= api.first)
          <5>1. p = (IF api.first > 0 THEN <<f>> ELSE <<>>) \o <<r>>
            BY <4>4, Zenon DEF Parts
          <5>2. api.amount <= Held(o)
            BY <2>2, <4>1, <4>4
          <5> HIDE DEF p, f, r, P
          <5>3. <<f>> \o <<r>> = <<f, r>> /\ <<>> \o <<r>> = <<r>>
            BY <3>1, TwoOne
          <5>4. CASE api.first > 0
            BY <5>1, <5>2, <5>3, <5>4
          <5>5. CASE ~ (api.first > 0)
            <6>1. api.first = 0
              BY <2>2, <5>5
            <6> QED
              BY <5>1, <5>2, <5>3, <5>5, <6>1
          <5> QED
            BY <5>4, <5>5
        <4> QED
          BY <4>2, <4>3, <4>4
      <3> HIDE DEF p, a, f, r, P
      <3>3. CASE p = <<>>
        BY <3>3
      <3>4. CASE api.amount <= api.first /\ p = <<a>>
        BY <2>2, <2>4, <3>1, <3>4
      <3>5. CASE api.amount <= Held(o) /\ p = <<f, r>>
        BY <2>2, <2>4, <3>1, <3>5
      <3>6. CASE api.amount <= Held(o) /\ api.first = 0 /\ p = <<r>>
        BY <2>2, <2>4, <3>1, <3>6
      <3> QED
        BY <3>2, <3>3, <3>4, <3>5, <3>6
    <2> HIDE DEF p
    <2>6. /\ api' \in Orders /\ api'.at = "split" /\ api'.parts = p
          /\ api'.side = api.side /\ api'.effect = api.effect /\ api'.seen = api.seen
      BY <2>1, <2>5 DEF Orders
    <2>7. \A s, e : ListLots(s, e)' = ListLots(s, e)
      BY <1>2 DEF ListLots
    <2>8. ApiRight'
      BY <1>2, <2>2, <2>5, <2>6, <2>7 DEF ApiRight
    <2> QED
      BY <1>1, <2>8, OutsideStrategy DEF IInv
  <1> QED
    BY <1>3, <1>4
-----------------------------------------------------------------------------
(* Steps of the exchange, of the start and of the stream.                  *)

(* A trade of the exchange keeps the invariant: what was said of the       *)
(* trades before it stays true.                                            *)
LEMMA ExchangeKeeps ==
    ASSUME IInv, dead = "no", NEW side \in Sides, NEW effect \in Effects,
           NEW lots \in 1..MaxLots, ExchangeTrade(side, effect, lots)
    PROVE  IInv'
  <1>1. /\ ExchangeShape' /\ LogRight'
        /\ Len(log') = Len(log) + 1 /\ \A i \in 1..Len(log) : log'[i] = log[i]
    BY TradeStep DEF IInv, Shape
  <1>2. /\ UNCHANGED account /\ UNCHANGED start /\ UNCHANGED strategy
        /\ got' = got /\ again' = again /\ dead' = dead /\ sync' = sync
        /\ entering' = entering /\ cached' = cached /\ noted' = noted /\ reported' = reported
        /\ report' = report /\ late' = late /\ backward' = backward
        /\ holding' = holding /\ realized' = realized /\ cash' = cash
    BY DEF ExchangeTrade, stream, start, caching, account, strategy
  <1>3. PICK n \in Nat : n = Len(log)
    BY DEF IInv, Shape, ExchangeShape
  <1>4. got \in 0..n /\ reported \in 0..n /\ noted \in 0..n
    BY <1>3 DEF IInv, Shape, ExchangeShape, StartShape
  <1>5. StartShape'
    <2>1. StartShape
      BY DEF IInv, Shape
    <2>2. /\ reported \in 0..(n + 1) /\ noted \in 0..(n + 1)
      BY <1>4
    <2>3. ASSUME NEW i \in 1..Len(cached)
          PROVE  cached[i].id \in 1..(n + 1) /\ cached[i] = log'[cached[i].id]
      <3>1. cached[i].id \in 1..n /\ cached[i] = log[cached[i].id]
        BY <1>3, <2>1 DEF StartShape
      <3> QED
        BY <1>1, <1>3, <3>1
    <2>4. entering # <<>> => \E k \in 1..(n + 1) : entering = <<log'[k]>>
      <3> SUFFICES ASSUME entering # <<>> PROVE \E k \in 1..(n + 1) : entering = <<log'[k]>>
        OBVIOUS
      <3>1. PICK k \in 1..n : entering = <<log[k]>>
        BY <1>3, <2>1 DEF StartShape
      <3> QED
        BY <1>1, <1>3, <3>1
    <2> QED
      BY <1>1, <1>2, <1>3, <2>1, <2>2, <2>3, <2>4 DEF StartShape
  <1>6. AccountShape'
    <2>1. AccountShape /\ 1..n \subseteq 1..(n + 1)
      BY DEF IInv, Shape
    <2> QED
      BY <1>1, <1>2, <1>3, <2>1 DEF AccountShape
  <1>7. ASSUME NEW s \in Sides, NEW k \in 0..n
        PROVE  OldAfter(log', s, k) = OldAfter(log, s, k) /\ NewAfter(log', s, k) = NewAfter(log, s, k)
    <2>1. \A i \in 1..k : log'[i] = log[i]
      BY <1>1, <1>3
    <2> QED
      BY <2>1, AfterKept
  <1>8. StartRight'
    <2>1. \A k \in 1..n : Kept(k) => Kept(k)'
      BY <1>1, <1>2, <1>3 DEF Kept
    <2>2. StartRight
      BY DEF IInv
    <2>3. sync # "logged_in" => \A s \in Sides :
             report.old[s] = OldAfter(log', s, reported) /\ report.today[s] = NewAfter(log', s, reported)
      BY <1>4, <1>7, <2>2 DEF StartRight
    <2>4. 1..got \subseteq 1..n /\ 1..noted \subseteq 1..n
      BY <1>4
    <2>5. /\ sync \in {"logged_in", "queried"} => ~again /\ ~late /\ \A k \in 1..got : Kept(k)'
          /\ sync = "dated" => ~late /\ \A k \in 1..noted : Kept(k)'
      BY <2>1, <2>2, <2>4 DEF StartRight
    <2>6. /\ sync = "dated" /\ dead = "no" => got = IF again THEN 0 ELSE noted
          /\ sync # "ready" => backward = {}
      BY <2>2 DEF StartRight
    <2> QED
      BY <1>2, <2>3, <2>5, <2>6 DEF StartRight
  <1>9. HeldRight'
    <2> SUFFICES ASSUME sync = "ready", Regular', dead = "no" 
                 PROVE  HeldRight'
      BY <1>2 DEF HeldRight
    <2>1. Regular
      BY <1>2 DEF Regular
    <2>2. /\ Applied <= n /\ backward = (reported + 1)..Applied
          /\ got <= Applied /\ (~again => got = Applied)
          /\ \A s \in Sides :
                /\ Held(s) = OldAfter(log, s, Applied) + NewAfter(log, s, Applied)
                /\ Plain => Lots(holding[s].old) = OldAfter(log, s, Applied)
      BY <1>3, <2>1 DEF IInv, HeldRight
    <2>3. Applied \in 0..n
      <3>1. Cardinality(backward) \in Nat
        BY BackwardCount DEF IInv, Shape
      <3> QED
        BY <1>4, <2>2, <3>1 DEF Applied
    <2>4. Plain' => Plain
      <3> SUFFICES ASSUME Plain', NEW i \in DOMAIN log, log[i].effect = "CLOSE_TODAY"
                   PROVE  OldLots[HeldSide(log[i])] = 0
        BY DEF Plain
      <3>1. log \in Seq(Trades) /\ log' \in Seq(Trades)
        BY <1>1 DEF IInv, Shape, ExchangeShape
      <3>2. i \in DOMAIN log' /\ log'[i] = log[i]
        BY <1>1, <3>1
      <3> QED
        BY <3>2 DEF Plain
    <2>5. Applied' = Applied /\ \A s \in Sides : Held(s)' = Held(s)
      BY <1>2 DEF Applied, Held
    <2>6. ASSUME NEW s \in Sides
          PROVE  /\ OldAfter(log', s, Applied) = OldAfter(log, s, Applied)
                 /\ NewAfter(log', s, Applied) = NewAfter(log, s, Applied)
      BY <1>7, <2>3
    <2>7. Applied <= n + 1
      BY <2>3
    <2> QED
      BY <1>1, <1>2, <1>3, <2>2, <2>4, <2>5, <2>6, <2>7 DEF HeldRight
  <1>10. BackRight' /\ CashBalanced' /\ ApiRight'
    <2>1. BackRight'
      BY <1>2 DEF BackRight
    <2>2. CashBalanced'
      BY <1>2, CashSame DEF IInv
    <2>3. ApiRight'
      BY <1>2, ApiSame DEF IInv
    <2> QED
      BY <2>1, <2>2, <2>3
  <1> QED
    BY <1>1, <1>5, <1>6, <1>8, <1>9, <1>10 DEF IInv, Shape

(* A stream that begins anew keeps the invariant.                          *)
LEMMA ReloginKeeps == ASSUME IInv, dead = "no", Relogin PROVE IInv'
  <1>1. /\ UNCHANGED exchange /\ UNCHANGED start /\ UNCHANGED caching
        /\ UNCHANGED account /\ UNCHANGED strategy /\ dead' = dead
        /\ got' = 0 /\ again' = (sync \in {"dated", "ready"})
    BY DEF Relogin
  <1>2. /\ log' = log /\ exOld' = exOld /\ exToday' = exToday /\ exRealized' = exRealized
        /\ sync' = sync /\ report' = report /\ reported' = reported /\ noted' = noted /\ late' = late
        /\ entering' = entering /\ cached' = cached /\ backward' = backward /\ holding' = holding
    BY <1>1 DEF exchange, start, caching, account
  <1>3. LogRight' /\ AccountShape' /\ CashBalanced' /\ ApiRight'
    BY <1>1, <1>2, LogSame, AccountSame, CashSame, ApiSame DEF IInv, Shape
  <1>4. ExchangeShape'
    BY <1>1, <1>2 DEF IInv, Shape, ExchangeShape
  <1>5. StartShape'
    BY <1>1, <1>2 DEF IInv, Shape, StartShape
  <1>6. StartRight'
    <2>1. StartRight /\ \A k \in 1..noted : Kept(k)' <=> Kept(k)
      BY <1>2 DEF IInv, Kept
    <2>2. 1..got' = {}
      BY <1>1
    <2> QED
      BY <1>1, <1>2, <2>1, <2>2 DEF StartRight
  <1>7. HeldRight'
    <2> SUFFICES ASSUME sync = "ready", Regular' PROVE HeldRight'
      BY <1>2 DEF HeldRight
    <2>1. Regular /\ again' = TRUE
      BY <1>1, <1>2 DEF Regular
    <2>2. HeldRight
      BY DEF IInv
    <2>3. Applied' = Applied /\ Applied \in Nat /\ (Plain' <=> Plain) /\ \A s \in Sides : Held(s)' = Held(s)
      <3>1. Cardinality(backward) \in Nat /\ reported \in Nat
        BY BackwardCount DEF IInv, Shape, StartShape
      <3> QED
        BY <1>2, <3>1 DEF Applied, Plain, Held
    <2>4. got' <= Applied
      BY <1>1, <2>3
    <2> QED
      BY <1>1, <1>2, <2>1, <2>2, <2>3, <2>4 DEF HeldRight
  <1>8. BackRight'
    BY <1>1 DEF BackRight
  <1> QED
    BY <1>3, <1>4, <1>5, <1>6, <1>7, <1>8 DEF IInv, Shape

(* Before the portfolio is there is no order and nothing is held.          *)
LEMMA NotReady ==
    ASSUME IInv, sync' # "ready", sync # "ready", dead' # "back", UNCHANGED account, UNCHANGED strategy,
           UNCHANGED exchange
    PROVE  LogRight' /\ AccountShape' /\ HeldRight' /\ CashBalanced' /\ BackRight' /\ ApiRight'
  <1>1. api.at = "idle"
    BY DEF IInv, ApiRight, Orders
  <1>2. LogRight' /\ AccountShape' /\ ApiRight'
    BY <1>1, LogSame, AccountSame, ApiSame DEF IInv, Shape
  <1> QED
    BY <1>2 DEF HeldRight, CashBalanced, BackRight

(* QryPosition keeps the invariant: the report is what the trades so far   *)
(* add up to.                                                              *)
LEMMA QryKeeps == ASSUME IInv, dead = "no", QryPosition PROVE IInv'
  <1>1. /\ UNCHANGED exchange /\ UNCHANGED stream /\ UNCHANGED caching
        /\ UNCHANGED account /\ UNCHANGED strategy /\ dead' = dead
        /\ sync = "logged_in" /\ sync' = "queried" /\ reported' = Len(log)
        /\ report' = [old |-> exOld, today |-> [s \in Sides |-> Len(exToday[s])],
                      realized |-> exRealized]
        /\ noted' = noted /\ late' = late
    BY DEF QryPosition
  <1>2. /\ log' = log /\ exOld' = exOld /\ exToday' = exToday /\ exRealized' = exRealized
        /\ got' = got /\ again' = again /\ entering' = entering /\ cached' = cached
        /\ backward' = backward
    BY <1>1 DEF exchange, stream, caching, account
  <1>3. LogRight' /\ AccountShape' /\ HeldRight' /\ CashBalanced' /\ BackRight' /\ ApiRight'
    BY <1>1, NotReady
  <1>4. ExchangeShape'
    BY <1>1, <1>2 DEF IInv, Shape, ExchangeShape
  <1>5. StartShape'
    <2>1. /\ exOld \in [Sides -> Nat] /\ exRealized \in Int /\ Len(log) \in 0..Len(log)
          /\ \A s \in Sides : exToday[s] \in Seq(Nat)
      BY DEF IInv, Shape, ExchangeShape
    <2>2. [s \in Sides |-> Len(exToday[s])] \in [Sides -> Nat]
      BY <2>1
    <2>3. report' \in [old : [Sides -> Nat], today : [Sides -> Nat], realized : Int]
      BY <1>1, <2>1, <2>2
    <2> QED
      BY <1>1, <1>2, <2>1, <2>3 DEF IInv, Shape, StartShape
  <1>6. StartRight'
    <2>1. StartRight /\ LogRight /\ \A k : Kept(k)' <=> Kept(k)
      BY <1>2 DEF IInv, Kept
    <2>2. \A s \in Sides : report'.old[s] = exOld[s] /\ report'.today[s] = Len(exToday[s])
      BY <1>1
    <2> QED
      BY <1>1, <1>2, <2>1, <2>2 DEF StartRight, LogRight
  <1> QED
    BY <1>3, <1>4, <1>5, <1>6 DEF IInv, Shape

(* NoteDate keeps the invariant.                                           *)
LEMMA NoteKeeps == ASSUME IInv, dead = "no", NoteDate PROVE IInv'
  <1>1. /\ UNCHANGED exchange /\ UNCHANGED stream /\ UNCHANGED caching
        /\ UNCHANGED account /\ UNCHANGED strategy /\ dead' = dead
        /\ sync = "queried" /\ sync' = "dated" /\ reported' = reported /\ report' = report
        /\ noted' = got /\ late' = late
    BY DEF NoteDate
  <1>2. /\ log' = log /\ exOld' = exOld /\ exToday' = exToday /\ exRealized' = exRealized
        /\ got' = got /\ again' = again /\ entering' = entering /\ cached' = cached
        /\ backward' = backward
    BY <1>1 DEF exchange, stream, caching, account
  <1>3. LogRight' /\ AccountShape' /\ HeldRight' /\ CashBalanced' /\ BackRight' /\ ApiRight'
    BY <1>1, NotReady
  <1>4. ExchangeShape'
    BY <1>1, <1>2 DEF IInv, Shape, ExchangeShape
  <1>5. StartShape'
    BY <1>1, <1>2 DEF IInv, Shape, StartShape, ExchangeShape
  <1>6. StartRight'
    <2>1. StartRight /\ \A k : Kept(k)' <=> Kept(k)
      BY <1>2 DEF IInv, Kept
    <2> QED
      BY <1>1, <1>2, <2>1 DEF StartRight
  <1> QED
    BY <1>3, <1>4, <1>5, <1>6 DEF IInv, Shape

(* SeeOldDate keeps the invariant: the trade it takes is about to be kept. *)
LEMMA OldDateKeeps == ASSUME IInv, dead = "no", SeeOldDate PROVE IInv'
  <1>1. /\ UNCHANGED exchange /\ UNCHANGED start /\ again' = again /\ cached' = cached
        /\ UNCHANGED account /\ UNCHANGED strategy /\ dead' = dead
        /\ sync \in {"logged_in", "queried"} /\ entering = <<>> /\ entering' = <<Msg>>
        /\ got < Len(log) /\ got' = got + 1
    BY DEF SeeOldDate, Take
  <1>2. /\ log' = log /\ exOld' = exOld /\ exToday' = exToday /\ exRealized' = exRealized
        /\ sync' = sync /\ report' = report /\ reported' = reported /\ noted' = noted /\ late' = late
        /\ backward' = backward
    BY <1>1 DEF exchange, start, account
  <1>3. LogRight' /\ AccountShape' /\ HeldRight' /\ CashBalanced' /\ BackRight' /\ ApiRight'
    BY <1>1, <1>2, NotReady
  <1>4. ExchangeShape'
    BY <1>1, <1>2 DEF IInv, Shape, ExchangeShape
  <1>5. got + 1 \in 1..Len(log) /\ entering' = <<log[got + 1]>> /\ got \in Nat
    BY <1>1 DEF Msg, IInv, Shape, ExchangeShape
  <1>6. StartShape'
    BY <1>1, <1>2, <1>5 DEF IInv, Shape, StartShape
  <1>7. StartRight'
    <2>1. StartRight
      BY DEF IInv
    <2>2. ASSUME NEW k \in 1..got' PROVE Kept(k)'
      <3>1. CASE k = got + 1
        BY <1>2, <1>5, <3>1 DEF Kept
      <3>2. CASE k # got + 1
        <4>1. k \in 1..got
          BY <1>1, <1>5, <3>2
        <4>2. Kept(k)
          BY <1>1, <2>1, <4>1 DEF StartRight
        <4> QED
          BY <1>1, <4>2 DEF Kept
      <3> QED
        BY <3>1, <3>2
    <2> QED
      BY <1>1, <1>2, <2>1, <2>2 DEF StartRight
  <1> QED
    BY <1>3, <1>4, <1>6, <1>7 DEF IInv, Shape

(* CacheTrade keeps the invariant: a trade that was about to be kept is.   *)
LEMMA CacheKeeps == ASSUME IInv, dead = "no", CacheTrade PROVE IInv'
  <1>1. /\ UNCHANGED exchange /\ UNCHANGED stream /\ UNCHANGED start
        /\ UNCHANGED account /\ UNCHANGED strategy /\ dead' = dead
        /\ entering # <<>> /\ cached' = cached \o entering /\ entering' = <<>>
    BY DEF CacheTrade
  <1>2. /\ log' = log /\ exOld' = exOld /\ exToday' = exToday /\ exRealized' = exRealized
        /\ sync' = sync /\ report' = report /\ reported' = reported /\ noted' = noted /\ late' = late
        /\ got' = got /\ again' = again /\ backward' = backward
    BY <1>1 DEF exchange, stream, start, account
  <1>3. LogRight' /\ AccountShape' /\ HeldRight' /\ CashBalanced' /\ BackRight' /\ ApiRight'
    <2>1. LogRight' /\ AccountShape' /\ HeldRight' /\ CashBalanced' /\ ApiRight'
      BY <1>1, <1>2, LogSame, AccountSame, HeldSame, CashSame, ApiSame DEF IInv, Shape
    <2> QED
      BY <1>1, <2>1 DEF BackRight
  <1>4. ExchangeShape'
    BY <1>1, <1>2 DEF IInv, Shape, ExchangeShape
  <1>5. PICK k \in 1..Len(log) : entering = <<log[k]>>
    BY <1>1 DEF IInv, Shape, StartShape
  <1>6. log[k] \in Trades /\ log[k].id = k
    BY <1>5, ElementOfSeq DEF IInv, Shape, ExchangeShape
  <1>7. /\ cached \in Seq(Trades) /\ cached' = Append(cached, log[k])
    BY <1>1, <1>5, <1>6 DEF IInv, Shape, StartShape
  <1>8. /\ cached' \in Seq(Trades) /\ Len(cached') = Len(cached) + 1
        /\ cached'[Len(cached) + 1] = log[k]
        /\ \A i \in 1..Len(cached) : cached'[i] = cached[i]
    BY <1>6, <1>7
  <1>9. StartShape'
    <2>1. ASSUME NEW i \in 1..Len(cached')
          PROVE  cached'[i].id \in 1..Len(log) /\ cached'[i] = log[cached'[i].id]
      <3>1. CASE i = Len(cached) + 1
        BY <1>6, <1>8, <3>1
      <3>2. CASE i # Len(cached) + 1
        <4>1. i \in 1..Len(cached)
          BY <1>7, <1>8, <3>2
        <4> QED
          BY <1>8, <4>1 DEF IInv, Shape, StartShape
      <3> QED
        BY <3>1, <3>2
    <2> QED
      BY <1>1, <1>2, <1>8, <2>1 DEF IInv, Shape, StartShape
  <1>10. StartRight'
    <2>1. ASSUME NEW j \in 1..Len(log), Kept(j) PROVE Kept(j)'
      <3>1. CASE entering = <<log[j]>>
        <4>1. log[j] = log[k] /\ log[j].id = j
          BY <1>5, <3>1 DEF IInv, Shape, ExchangeShape
        <4>2. cached'[Len(cached) + 1].id = j /\ Len(cached) + 1 \in 1..Len(cached')
          BY <1>7, <1>8, <4>1
        <4> QED
          BY <4>2 DEF Kept
      <3>2. CASE \E i \in 1..Len(cached) : cached[i].id = j
        <4>1. PICK i \in 1..Len(cached) : cached[i].id = j
          BY <3>2
        <4>2. i \in 1..Len(cached') /\ cached'[i].id = j
          BY <1>7, <1>8, <4>1
        <4> QED
          BY <4>2 DEF Kept
      <3> QED
        BY <2>1, <3>1, <3>2 DEF Kept
    <2>2. 1..got \subseteq 1..Len(log) /\ 1..noted \subseteq 1..Len(log)
      BY DEF IInv, Shape, ExchangeShape, StartShape
    <2>3. StartRight
      BY DEF IInv
    <2> QED
      BY <1>2, <1>1, <2>1, <2>2, <2>3 DEF StartRight
  <1> QED
    BY <1>3, <1>4, <1>9, <1>10 DEF IInv, Shape

(* NoPortfolio keeps the invariant: the process has died.                  *)
LEMMA NoPortfolioKeeps == ASSUME IInv, dead = "no", NoPortfolio PROVE IInv'
  <1>1. /\ UNCHANGED exchange /\ UNCHANGED start /\ UNCHANGED caching /\ again' = again
        /\ UNCHANGED account /\ UNCHANGED strategy /\ dead' = "null"
        /\ sync = "dated" /\ got < Len(log) /\ got' = got + 1
    BY DEF NoPortfolio, Take
  <1>2. /\ log' = log /\ exOld' = exOld /\ exToday' = exToday /\ exRealized' = exRealized
        /\ sync' = sync /\ report' = report /\ reported' = reported /\ noted' = noted /\ late' = late
        /\ entering' = entering /\ cached' = cached /\ backward' = backward
    BY <1>1 DEF exchange, start, caching, account
  <1>3. LogRight' /\ AccountShape' /\ HeldRight' /\ CashBalanced' /\ BackRight' /\ ApiRight'
    BY <1>1, <1>2, NotReady
  <1>4. ExchangeShape'
    BY <1>1, <1>2 DEF IInv, Shape, ExchangeShape
  <1>5. StartShape'
    BY <1>1, <1>2 DEF IInv, Shape, StartShape
  <1>6. StartRight'
    <2>1. StartRight /\ \A k : Kept(k)' <=> Kept(k)
      BY <1>2 DEF IInv, Kept
    <2> QED
      BY <1>1, <1>2, <2>1 DEF StartRight
  <1> QED
    BY <1>3, <1>4, <1>5, <1>6 DEF IInv, Shape

(* SkipTrade keeps the invariant: it skips only what was applied.          *)
LEMMA SkipKeeps == ASSUME IInv, dead = "no", SkipTrade PROVE IInv'
  <1>1. /\ UNCHANGED exchange /\ UNCHANGED start /\ UNCHANGED caching /\ again' = again
        /\ UNCHANGED account /\ UNCHANGED strategy /\ dead' = dead
        /\ sync = "ready" /\ got < Len(log) /\ got' = got + 1 /\ Msg.id \in backward
    BY DEF SkipTrade, Take
  <1>2. /\ log' = log /\ exOld' = exOld /\ exToday' = exToday /\ exRealized' = exRealized
        /\ sync' = sync /\ report' = report /\ reported' = reported /\ noted' = noted /\ late' = late
        /\ entering' = entering /\ cached' = cached /\ backward' = backward /\ holding' = holding
    BY <1>1 DEF exchange, start, caching, account
  <1>3. LogRight' /\ AccountShape' /\ CashBalanced' /\ BackRight' /\ ApiRight'
    <2>1. LogRight' /\ AccountShape' /\ CashBalanced' /\ ApiRight'
      BY <1>1, <1>2, LogSame, AccountSame, CashSame, ApiSame DEF IInv, Shape
    <2> QED
      BY <1>1, <2>1 DEF BackRight
  <1>4. ExchangeShape' /\ Msg.id = got + 1 /\ got \in Nat
    <2>1. got + 1 \in 1..Len(log)
      BY <1>1 DEF IInv, Shape, ExchangeShape
    <2> QED
      BY <1>1, <1>2, <2>1 DEF IInv, Shape, ExchangeShape, Msg
  <1>5. StartShape'
    BY <1>1, <1>2 DEF IInv, Shape, StartShape
  <1>6. StartRight'
    BY <1>1, <1>2 DEF IInv, StartRight
  <1>7. HeldRight'
    <2> SUFFICES ASSUME Regular' PROVE HeldRight'
      BY DEF HeldRight
    <2>1. Regular
      BY <1>1, <1>2 DEF Regular
    <2>2. /\ Applied <= Len(log) /\ backward = (reported + 1)..Applied
          /\ got <= Applied /\ (~again => got = Applied)
          /\ \A s \in Sides :
                /\ Held(s) = OldAfter(log, s, Applied) + NewAfter(log, s, Applied)
                /\ Plain => Lots(holding[s].old) = OldAfter(log, s, Applied)
      BY <1>1, <2>1 DEF IInv, HeldRight
    <2>3. Applied \in Nat
      BY BackwardCount DEF IInv, Shape, StartShape, Applied
    <2>4. got + 1 <= Applied /\ again
      BY <1>1, <1>4, <2>2, <2>3
    <2>5. Applied' = Applied /\ (Plain' <=> Plain) /\ \A s \in Sides : Held(s)' = Held(s)
      BY <1>2 DEF Applied, Plain, Held
    <2> QED
      BY <1>1, <1>2, <2>2, <2>4, <2>5 DEF HeldRight
  <1> QED
    BY <1>3, <1>4, <1>5, <1>6, <1>7 DEF IInv, Shape
-----------------------------------------------------------------------------
(* The portfolio.                                                          *)

(* The opening trades of the day that were kept open as many lots as the   *)
(* first n trades, if these were all kept.                                 *)
LEMMA OpenedKept ==
    ASSUME ExchangeShape, StartShape, NEW s \in Sides, NEW n \in 0..Len(log),
           \A k \in 1..n : \E i \in 1..Len(cached) : cached[i].id = k
    PROVE  OpenedAfter(log, s, n) <= Lots(Opened(s))
  <1> DEFINE K == {k \in 1..n : log[k].effect = "OPEN" /\ log[k].side = s}
             b == [k \in K |-> CHOOSE i \in 1..Len(cached) : cached[i].id = k]
             R == {b[k] : k \in K}
             f == [i \in 1..n |-> OpenPart(s, log[i])]
             h == [i \in Opens(s) |-> cached[i].lots]
  <1>1. /\ cached \in Seq(Trades) /\ DOMAIN cached = 1..Len(cached)
        /\ \A i \in 1..Len(cached) : cached[i] = log[cached[i].id] /\ cached[i] \in Trades
    <2>1. cached \in Seq(Trades)
      BY DEF StartShape
    <2> QED
      BY <2>1, ElementOfSeq DEF StartShape
  <1>2. \A k \in 1..n : log[k] \in Trades
    <2>1. \A k \in 1..n : k \in 1..Len(log)
      OBVIOUS
    <2> QED
      BY <2>1, ElementOfSeq DEF ExchangeShape
  <1>3. ASSUME NEW k \in K
        PROVE  /\ b[k] \in 1..Len(cached) /\ cached[b[k]].id = k /\ cached[b[k]] = log[k]
               /\ b[k] \in Opens(s)
    <2>1. \E i \in 1..Len(cached) : cached[i].id = k
      OBVIOUS
    <2>2. b[k] \in 1..Len(cached) /\ cached[b[k]].id = k
      BY <2>1
    <2>3. cached[b[k]] = log[k]
      BY <1>1, <2>2
    <2> QED
      BY <1>1, <2>2, <2>3 DEF Opens
  <1>4. IsFiniteSet(1..n) /\ IsFiniteSet(K) /\ K \subseteq 1..n
    <2>1. IsFiniteSet(1..n) /\ K \subseteq 1..n
      BY FS_Interval
    <2> HIDE DEF K
    <2>2. K \in SUBSET (1..n)
      BY <2>1
    <2>3. IsFiniteSet(K)
      BY <2>1, <2>2, FS_Subset, Zenon
    <2> QED
      BY <2>1, <2>3
  <1>5. b \in Bijection(K, R)
    <2>1. b \in [K -> R]
      OBVIOUS
    <2>2. ASSUME NEW j \in K, NEW k \in K, b[j] = b[k] PROVE j = k
      <3>1. cached[b[j]].id = j /\ cached[b[k]].id = k
        BY <1>3
      <3> HIDE DEF b, K
      <3> QED
        BY <2>2, <3>1
    <2>3. \A r \in R : \E k \in K : b[k] = r
      OBVIOUS
    <2> HIDE DEF b, R, K
    <2> QED
      BY <2>1, <2>2, <2>3 DEF Bijection, Injection, Surjection, IsInjective
  <1>6. R \subseteq Opens(s) /\ IsFiniteSet(Opens(s))
    <2>1. \A k \in K : b[k] \in Opens(s)
      BY <1>3
    <2>2. R \subseteq Opens(s)
      <3> HIDE DEF b, K
      <3> QED
        BY <2>1
    <2> QED
      BY <1>1, <2>2, OpenedLots
  <1>7. \A i \in Opens(s) : h[i] = cached[i].lots /\ h[i] \in Nat
    BY <1>1 DEF Opens, Trades
  <1>8. \A k \in K : f[k] = h[b[k]] /\ f[k] \in Int
    <2> SUFFICES ASSUME NEW k \in K PROVE f[k] = h[b[k]] /\ f[k] \in Int
      OBVIOUS
    <2>1. f[k] = log[k].lots /\ log[k].lots \in Int
      BY <1>2 DEF OpenPart, Trades
    <2> QED
      BY <1>3, <1>7, <2>1
  <1>9. \A k \in (1..n) \ K : f[k] = 0
    BY DEF OpenPart
  <1> DEFINE Z == (1..n) \ K
  <1>10. IsFiniteSet(Z) /\ K \cap Z = {} /\ K \cup Z = 1..n
    BY <1>4, FS_Subset
  <1> HIDE DEF K, R, b, f, h, Z
  <1>11. SumFunctionOnSet(f, 1..n) = SumFunctionOnSet(f, K) + SumFunctionOnSet(f, Z)
    <2>1. \A k \in K \cup Z : f[k] \in Int
      BY <1>8, <1>9 DEF Z
    <2>2. IsFiniteSet(K) /\ IsFiniteSet(Z) /\ K \cap Z = {}
      BY <1>4, <1>10
    <2>3. SumFunctionOnSet(f, K \cup Z) = SumFunctionOnSet(f, K) + SumFunctionOnSet(f, Z)
      BY <2>1, <2>2, SumOfUnion
    <2> QED
      BY <1>10, <2>3
  <1>12. SumFunctionOnSet(f, Z) = 0
    BY <1>9, <1>10, SumOfZeros DEF Z
  <1>13. SumFunctionOnSet(f, K) = SumFunctionOnSet(h, R)
    <2>1. \A y \in R : h[y] \in Int
      BY <1>6, <1>7
    <2>2. \A x \in K : f[x] = h[b[x]]
      BY <1>8
    <2>3. IsFiniteSet(K)
      BY <1>4
    <2> QED
      BY <1>5, <2>1, <2>2, <2>3, SumReindex
  <1>14. SumFunctionOnSet(h, R) <= SumFunctionOnSet(h, Opens(s))
    BY <1>6, <1>7, SumOfSubset
  <1>15. SumFunctionOnSet(f, K) \in Int
    BY <1>4, <1>8, SumIsInt
  <1>16. OpenedAfter(log, s, n) = SumFunctionOnSet(f, K)
    BY <1>11, <1>12, <1>15 DEF OpenedAfter, f
  <1>17. Lots(Opened(s)) = SumFunctionOnSet(h, Opens(s))
    BY <1>1, OpenedLots DEF h
  <1> QED
    BY <1>13, <1>14, <1>16, <1>17

(* The list of today's lots is cut down to what was reported.              *)
LEMMA TodayLots ==
    ASSUME ExchangeShape, StartShape, NEW s \in Sides
    PROVE  /\ TodayList(s) \in Seq(Entries)
           /\ report.today[s] <= Lots(Opened(s)) => Lots(TodayList(s)) = report.today[s]
  <1> DEFINE all == Opened(s)
             t == report.today[s]
  <1>1. all \in Seq(Entries) /\ Lots(all) \in Nat /\ t \in Nat
    <2>1. all \in Seq(Entries)
      BY OpenedLots DEF StartShape
    <2> QED
      BY <2>1, LotsNat DEF StartShape
  <1>2. TodayList(s) = Rest(all, Lots(all) - t)
    BY DEF TodayList
  <1> HIDE DEF all, t
  <1>3. CASE Lots(all) - t < 0
    <2>1. Rest(all, Lots(all) - t) = all
      BY <1>1, <1>3, RestOfNone
    <2> QED
      BY <1>1, <1>2, <1>3, <2>1 DEF all, t
  <1>4. CASE Lots(all) - t >= 0
    <2>1. Lots(all) - t \in 0..Lots(all)
      BY <1>1, <1>4
    <2>2. /\ Rest(all, Lots(all) - t) \in Seq(Entries)
          /\ Lots(Rest(all, Lots(all) - t)) = Lots(all) - (Lots(all) - t)
      BY <1>1, <2>1, RestLots
    <2> QED
      BY <1>1, <1>2, <2>2 DEF all, t
  <1> QED
    BY <1>1, <1>3, <1>4

(* A list of one entry.                                                    *)
LEMMA OneLots ==
    ASSUME NEW e \in Entries
    PROVE  <<e>> \in Seq(Entries) /\ Lots(<<e>>) = e.lots
  <1>1. <<>> \in Seq(Entries) /\ Lots(<<>>) = 0
    <2>1. DOMAIN LotsIn(<<>>) = {}
      BY DEF LotsIn
    <2> QED
      BY <2>1, SumOfNone DEF Lots, LotsIn, SumFunction
  <1>2. <<e>> \o <<>> = <<e>>
    <2>1. <<e>> \in Seq(Entries)
      OBVIOUS
    <2> QED
      BY <2>1
  <1>3. /\ <<e>> \o <<>> \in Seq(Entries) /\ Lots(<<e>> \o <<>>) = e.lots + Lots(<<>>)
    BY <1>1, ConsLots
  <1> QED
    BY <1>1, <1>2, <1>3 DEF Entries

(* A margin is a number.                                                   *)
LEMMA MarginInt ==
    ASSUME NEW h \in [Sides -> [old : Seq(Entries), today : Seq(Entries)]]
    PROVE  Margin(h) \in Int
  <1>1. \A s \in Sides : h[s].old \in Seq(Entries) /\ h[s].today \in Seq(Entries)
    OBVIOUS
  <1>2. \A s \in Sides : Value(h[s].old) \in Int /\ Value(h[s].today) \in Int
    BY <1>1, LotsNat
  <1> QED
    BY <1>2 DEF Margin, Sides

(* BuildPortfolio keeps the invariant: its lists have the lots of the      *)
(* report, since all the opening trades that covers were kept.             *)
LEMMA BuildKeeps == ASSUME IInv, dead = "no", BuildPortfolio PROVE IInv'
  <1> DEFINE new(s) == [price |-> PreSettlement, lots |-> report.old[s]]
  <1>1. /\ UNCHANGED exchange /\ UNCHANGED stream /\ UNCHANGED caching /\ UNCHANGED strategy
        /\ dead' = dead /\ sync = "dated" /\ sync' = "ready"
        /\ holding' = [s \in Sides |-> [old |-> <<new(s)>>, today |-> TodayList(s)]]
        /\ realized' = report.realized /\ cash' = Balance + report.realized - Margin(holding')
        /\ backward' = {} /\ late' = (entering # <<>>)
        /\ report' = report /\ reported' = reported /\ noted' = noted
    BY DEF BuildPortfolio
  <1>2. /\ log' = log /\ exOld' = exOld /\ exToday' = exToday /\ exRealized' = exRealized
        /\ got' = got /\ again' = again /\ entering' = entering /\ cached' = cached /\ api' = api
    BY <1>1 DEF exchange, stream, caching, strategy
  <1>3. ExchangeShape /\ StartShape /\ AccountShape /\ LogRight /\ StartRight /\ ApiRight
    BY DEF IInv, Shape
  <1>4. LogRight' /\ BackRight'
    BY <1>1, <1>3, LogSame DEF BackRight
  <1>5. ExchangeShape'
    BY <1>2, <1>3 DEF ExchangeShape
  <1>6. StartShape'
    BY <1>1, <1>2, <1>3 DEF StartShape
  <1>7. ASSUME NEW s \in Sides
        PROVE  /\ new(s) \in Entries /\ <<new(s)>> \in Seq(Entries) /\ TodayList(s) \in Seq(Entries)
               /\ Lots(<<new(s)>>) = report.old[s]
    <2>1. report.old[s] \in Nat /\ PreSettlement \in Int
      BY <1>3, ConstAssumption DEF StartShape
    <2>2. new(s) \in Entries /\ new(s).lots = report.old[s]
      BY <2>1 DEF Entries
    <2> HIDE DEF new
    <2> QED
      BY <1>3, <2>2, OneLots, TodayLots
  <1> HIDE DEF new
  <1>8. \A s \in Sides : holding'[s].old = <<new(s)>> /\ holding'[s].today = TodayList(s)
    BY <1>1
  <1>9. AccountShape'
    <2>1. holding' \in [Sides -> [old : Seq(Entries), today : Seq(Entries)]]
      BY <1>1, <1>7
    <2>2. Margin(holding') \in Int
      BY <2>1, MarginInt
    <2>3. realized' \in Int /\ cash' \in Int
      BY <1>1, <1>3, <2>2, ConstAssumption DEF StartShape
    <2> QED
      BY <1>1, <2>1, <2>3 DEF AccountShape
  <1>10. StartRight'
    BY <1>1, <1>2, <1>3 DEF StartRight
  <1>11. CashBalanced'
    <2>1. Margin(holding') \in Int
      BY <1>9, MarginInt DEF AccountShape
    <2>2. Margin(holding)' = Margin(holding')
      BY DEF Margin
    <2>3. report.realized \in Int /\ Balance \in Int
      BY <1>3, ConstAssumption DEF StartShape
    <2>4. cash' + Margin(holding)' = Balance + realized'
      BY <1>1, <2>1, <2>2, <2>3
    <2> QED
      BY <2>4 DEF CashBalanced
  <1>12. ApiRight'
    <2>1. api.at = "idle"
      BY <1>1, <1>3 DEF ApiRight, Orders
    <2> QED
      BY <1>2, <1>3, <2>1 DEF ApiRight
  <1>13. HeldRight'
    <2> SUFFICES ASSUME Regular' PROVE HeldRight'
      BY DEF HeldRight
    <2>1. noted = reported /\ entering = <<>> /\ (again => reported = 0)
      BY <1>1, <1>2 DEF Regular
    <2>2. got = IF again THEN 0 ELSE noted
      BY <1>1, <1>3 DEF StartRight
    <2>3. reported \in Nat /\ reported \in 0..Len(log)
      BY <1>3 DEF StartShape
    <2>4. got = reported
      BY <2>1, <2>2, <2>3
    <2>5. Applied' = reported
      <3>1. Cardinality({}) = 0
        BY FS_EmptySet
      <3> QED
        BY <1>1, <2>3, <3>1 DEF Applied
    <2>6. \A k \in 1..reported : \E i \in 1..Len(cached) : cached[i].id = k
      <3>1. \A k \in 1..reported : Kept(k)
        BY <1>1, <1>3, <2>1 DEF StartRight
      <3>2. \A k : entering # <<log[k]>>
        BY <2>1
      <3> QED
        BY <3>1, <3>2 DEF Kept
    <2>7. ASSUME NEW s \in Sides
          PROVE  /\ Held(s)' = OldAfter(log, s, reported) + NewAfter(log, s, reported)
                 /\ Lots(holding[s].old)' = OldAfter(log, s, reported)
      <3>1. /\ report.old[s] = OldAfter(log, s, reported)
            /\ report.today[s] = NewAfter(log, s, reported)
        BY <1>1, <1>3 DEF StartRight
      <3>2. NewAfter(log, s, reported) <= OpenedAfter(log, s, reported)
        BY <1>3, <2>3 DEF LogRight
      <3>3. OpenedAfter(log, s, reported) <= Lots(Opened(s))
        BY <1>3, <2>3, <2>6, OpenedKept
      <3>4. /\ NewAfter(log, s, reported) \in Int /\ OpenedAfter(log, s, reported) \in Int
            /\ Lots(Opened(s)) \in Int
        <4>1. Opened(s) \in Seq(Entries)
          BY <1>3, OpenedLots DEF StartShape
        <4>2. Lots(Opened(s)) \in Int
          BY <4>1, LotsNat
        <4> QED
          BY <1>3, <2>3, <4>2, AfterInt DEF ExchangeShape
      <3>5. Lots(TodayList(s)) = report.today[s]
        <4>1. report.today[s] <= Lots(Opened(s))
          BY <3>1, <3>2, <3>3, <3>4
        <4> QED
          BY <1>3, <4>1, TodayLots
      <3>6. Held(s)' = Lots(holding'[s].old) + Lots(holding'[s].today)
        BY DEF Held
      <3> QED
        BY <1>7, <1>8, <3>1, <3>5, <3>6
    <2>8. {} = (reported + 1)..reported
      BY <2>3
    <2> QED
      BY <1>1, <1>2, <2>3, <2>4, <2>5, <2>7, <2>8 DEF HeldRight
  <1> QED
    BY <1>4, <1>5, <1>6, <1>9, <1>10, <1>11, <1>12, <1>13 DEF IInv, Shape
-----------------------------------------------------------------------------
(* Trades that are applied.                                                *)

(* Yesterday's lots never become more.                                     *)
LEMMA OldAfterFalls ==
    ASSUME NEW l \in Seq(Trades), NEW s \in Sides, NEW n \in 0..Len(l)
    PROVE  OldAfter(l, s, n) <= OldLots[s]
  <1> DEFINE T == {k \in 0..n : OldAfter(l, s, k) > OldLots[s]}
  <1> SUFFICES ASSUME T # {} PROVE FALSE
    <2>1. \A k \in 0..n : OldAfter(l, s, k) <= OldLots[s] \/ k \in T
      <3>1. \A k \in 0..n : OldAfter(l, s, k) \in Int
        BY AfterInt
      <3>2. OldLots[s] \in Int
        BY AfterNone
      <3> QED
        BY <3>1, <3>2
    <2>2. n \in 0..n
      OBVIOUS
    <2> QED
      BY <2>1, <2>2
  <1>1. T \subseteq Nat
    OBVIOUS
  <1>2. PICK k \in T : \A m \in T : k <= m
    BY <1>1, LeastNumber
  <1>3. k \in 0..n /\ OldAfter(l, s, k) > OldLots[s] /\ OldLots[s] \in Nat
    BY <1>2, AfterNone
  <1>4. k # 0
    BY <1>3, AfterNone
  <1> DEFINE j == k - 1
  <1>5. j \in Nat /\ j \in 0..n /\ k = j + 1 /\ j + 1 <= Len(l) /\ j + 1 \in 1..Len(l)
    BY <1>3, <1>4
  <1>6. OldAfter(l, s, j) \in Int /\ ~ (OldAfter(l, s, j) > OldLots[s])
    <2>1. j \notin T
      BY <1>2, <1>5
    <2>2. j \in 0..Len(l)
      BY <1>5
    <2> QED
      BY <1>5, <2>1, <2>2, AfterInt
  <1> HIDE DEF j
  <1>7. OldAfter(l, s, j + 1) = OldAfter(l, s, j) + OldPart(s, l[j + 1])
    BY <1>5, AfterNext
  <1>8. OldPart(s, l[j + 1]) \in Int /\ OldPart(s, l[j + 1]) <= 0
    <2>1. l[j + 1] \in Trades
      BY <1>5, ElementOfSeq
    <2>2. OldPart(s, l[j + 1]) \in Int /\ l[j + 1].lots \in Nat
      BY <2>1, PartsTyped
    <2> QED
      BY <2>2 DEF OldPart
  <1> QED
    BY <1>3, <1>5, <1>6, <1>7, <1>8

(* What the next trade of the stream is.                                   *)
LEMMA NextTrade ==
    ASSUME IInv, Take
    PROVE  /\ got + 1 \in 1..Len(log) /\ got \in Nat /\ got' = got + 1
           /\ Msg = log[got + 1] /\ Msg \in Trades /\ Msg.id = got + 1
           /\ Msg.side \in Sides /\ HeldSide(Msg) \in Sides /\ Msg.effect \in Effects
           /\ Msg.lots \in Nat /\ Msg.price \in Nat
  <1>1. ExchangeShape /\ got < Len(log) /\ got' = got + 1
    BY DEF IInv, Shape, Take
  <1>2. got + 1 \in 1..Len(log) /\ got \in Nat
    BY <1>1 DEF ExchangeShape
  <1>3. log[got + 1] \in Trades /\ log[got + 1].id = got + 1
    BY <1>1, <1>2, ElementOfSeq DEF ExchangeShape
  <1>4. /\ log[got + 1].side \in Sides /\ HeldSide(log[got + 1]) \in Sides
        /\ log[got + 1].effect \in Effects
        /\ log[got + 1].lots \in Nat /\ log[got + 1].price \in Nat
    BY <1>3 DEF Trades, HeldSide, Other, Sides, Effects
  <1> QED
    BY <1>1, <1>2, <1>3, <1>4 DEF Msg

(* If the start was regular it is the one after those applied.             *)
LEMMA NextApplied ==
    ASSUME IInv, dead = "no", Take, sync = "ready", Msg.id \notin backward, Regular
    PROVE  /\ got = Applied /\ Applied \in Nat /\ Applied + 1 <= Len(log)
           /\ \A s \in Sides :
                 /\ Held(s) = OldAfter(log, s, Applied) + NewAfter(log, s, Applied)
                 /\ Plain => Lots(holding[s].old) = OldAfter(log, s, Applied)
                 /\ OldAfter(log, s, Applied + 1) = OldAfter(log, s, Applied) + OldPart(s, Msg)
                 /\ NewAfter(log, s, Applied + 1) = NewAfter(log, s, Applied) + NewPart(s, Msg)
                 /\ OldAfter(log, s, Applied) \in Nat /\ NewAfter(log, s, Applied) \in Nat
                 /\ OldAfter(log, s, Applied + 1) >= 0 /\ NewAfter(log, s, Applied + 1) >= 0
                 /\ OldAfter(log, s, Applied) <= OldLots[s]
  <1>1. /\ backward = (reported + 1)..Applied /\ got <= Applied /\ (~again => got = Applied)
        /\ \A s \in Sides :
                 /\ Held(s) = OldAfter(log, s, Applied) + NewAfter(log, s, Applied)
                 /\ Plain => Lots(holding[s].old) = OldAfter(log, s, Applied)
    BY DEF IInv, HeldRight
  <1>2. Applied \in Nat /\ reported \in Nat
    BY BackwardCount DEF IInv, Shape, StartShape, Applied
  <1>3. got + 1 \in 1..Len(log) /\ got \in Nat /\ Msg = log[got + 1] /\ Msg.id = got + 1
    BY NextTrade
  <1>4. got = Applied
    <2>1. CASE again
      <3>1. reported = 0
        BY <2>1 DEF Regular
      <3>2. backward = 1..Applied /\ got + 1 \notin backward
        BY <1>1, <1>3, <3>1
      <3> QED
        BY <1>1, <1>2, <1>3, <3>2
    <2> QED
      BY <1>1, <2>1
  <1>5. ASSUME NEW s \in Sides
        PROVE  /\ OldAfter(log, s, got + 1) = OldAfter(log, s, got) + OldPart(s, log[got + 1])
               /\ NewAfter(log, s, got + 1) = NewAfter(log, s, got) + NewPart(s, log[got + 1])
               /\ OldAfter(log, s, got) \in Nat /\ NewAfter(log, s, got) \in Nat
               /\ OldAfter(log, s, got + 1) >= 0 /\ NewAfter(log, s, got + 1) >= 0
               /\ OldAfter(log, s, got) <= OldLots[s]
    <2>1. log \in Seq(Trades) /\ LogRight
      BY DEF IInv, Shape, ExchangeShape
    <2>2. got \in 0..Len(log) /\ got + 1 \in 0..Len(log) /\ got + 1 <= Len(log)
      BY <1>3
    <2>3. /\ OldAfter(log, s, got + 1) = OldAfter(log, s, got) + OldPart(s, log[got + 1])
          /\ NewAfter(log, s, got + 1) = NewAfter(log, s, got) + NewPart(s, log[got + 1])
      BY <1>3, <2>1, <2>2, AfterNext
    <2>4. /\ OldAfter(log, s, got) >= 0 /\ NewAfter(log, s, got) >= 0
          /\ OldAfter(log, s, got + 1) >= 0 /\ NewAfter(log, s, got + 1) >= 0
      BY <2>1, <2>2 DEF LogRight
    <2>5. OldAfter(log, s, got) \in Int /\ NewAfter(log, s, got) \in Int
      BY <2>1, <2>2, AfterInt
    <2>6. OldAfter(log, s, got) <= OldLots[s]
      BY <2>1, <2>2, OldAfterFalls
    <2> QED
      BY <2>3, <2>4, <2>5, <2>6
  <1> QED
    BY <1>1, <1>2, <1>3, <1>4, <1>5

(* All but the account, whatever the trade does to that.                   *)
LEMMA AppliedKeeps ==
    ASSUME IInv, dead = "no", Take, sync = "ready", Msg.id \notin backward,
           backward' = backward \cup {Msg.id},
           UNCHANGED <<exchange, start, caching, strategy, again, dead>>
    PROVE  /\ ExchangeShape' /\ StartShape' /\ LogRight' /\ StartRight' /\ BackRight' /\ ApiRight'
           /\ backward' \subseteq 1..Len(log')
           /\ Regular' => Regular
           /\ Regular => /\ Applied' = Applied + 1 /\ got' = Applied'
                         /\ Applied' <= Len(log') /\ backward' = (reported' + 1)..Applied'
  <1>1. /\ log' = log /\ exOld' = exOld /\ exToday' = exToday /\ exRealized' = exRealized
        /\ sync' = sync /\ report' = report /\ reported' = reported /\ noted' = noted /\ late' = late
        /\ entering' = entering /\ cached' = cached /\ again' = again /\ api' = api /\ dead' = dead
    BY DEF exchange, start, caching, strategy
  <1>2. got + 1 \in 1..Len(log) /\ got \in Nat /\ got' = got + 1 /\ Msg.id = got + 1
    BY NextTrade
  <1>3. ExchangeShape'
    BY <1>1, <1>2 DEF IInv, Shape, ExchangeShape
  <1>4. StartShape'
    BY <1>1 DEF IInv, Shape, StartShape
  <1>5. LogRight' /\ BackRight'
    BY <1>1, LogSame DEF IInv, BackRight, exchange
  <1>6. StartRight'
    BY <1>1 DEF IInv, StartRight
  <1>7. /\ IsFiniteSet(backward) /\ Cardinality(backward) \in Nat
        /\ Cardinality(backward') = Cardinality(backward) + 1
    <2>1. IsFiniteSet(backward) /\ Cardinality(backward) \in Nat
      BY BackwardCount DEF IInv, Shape
    <2> QED
      BY <2>1, FS_AddElement
  <1>8. ApiRight'
    <2>1. /\ api \in Orders /\ api.seen \in Nat
          /\ api.at # "idle" => sync = "ready" /\ api.effect # "OPEN" /\ api.seen <= Cardinality(backward)
      BY DEF IInv, ApiRight, Orders
    <2>2. api.at # "idle" => api.seen <= Cardinality(backward') /\ api.seen # Cardinality(backward')
      BY <1>7, <2>1
    <2> QED
      BY <1>1, <2>1, <2>2 DEF ApiRight
  <1>9. backward' \subseteq 1..Len(log')
    BY <1>1, <1>2 DEF IInv, Shape, AccountShape
  <1>10. Regular' <=> Regular
    BY <1>1 DEF Regular
  <1>11. ASSUME Regular
         PROVE  /\ Applied' = Applied + 1 /\ got' = Applied'
                /\ Applied' <= Len(log') /\ backward' = (reported' + 1)..Applied'
    <2>1. got = Applied /\ Applied \in Nat /\ Applied + 1 <= Len(log)
      BY <1>11, NextApplied
    <2>2. reported \in Nat /\ backward = (reported + 1)..Applied
      BY <1>11 DEF IInv, HeldRight, Shape, StartShape
    <2>3. Applied' = Applied + 1
      BY <1>1, <1>7, <2>2 DEF Applied
    <2>4. reported <= Applied
      BY <1>7, <2>2 DEF Applied
    <2>5. backward' = (reported + 1)..(Applied + 1)
      BY <1>2, <2>1, <2>2, <2>4
    <2> QED
      BY <1>1, <1>2, <2>1, <2>3, <2>5
  <1> QED
    BY <1>3, <1>4, <1>5, <1>6, <1>8, <1>9, <1>10, <1>11

(* The lists follow the log if they change as the trade says.              *)
LEMMA AppliedHeld ==
    ASSUME IInv, dead = "no", Take, sync = "ready", Msg.id \notin backward,
           backward' = backward \cup {Msg.id},
           UNCHANGED <<exchange, start, caching, strategy, again, dead>>,
           Regular => \A s \in Sides :
              /\ Held(s)' = Held(s) + OldPart(s, Msg) + NewPart(s, Msg)
              /\ Plain => Lots(holding[s].old)' = Lots(holding[s].old) + OldPart(s, Msg)
    PROVE  HeldRight'
  <1> SUFFICES ASSUME Regular' PROVE HeldRight'
    BY DEF HeldRight
  <1>1. /\ Regular /\ Applied' = Applied + 1 /\ got' = Applied'
        /\ Applied' <= Len(log') /\ backward' = (reported' + 1)..Applied'
    BY AppliedKeeps
  <1>2. log' = log /\ again' = again /\ dead' = dead /\ (Plain' <=> Plain)
    BY DEF exchange, Plain
  <1>3. /\ Applied \in Nat
        /\ \A s \in Sides :
                 /\ Held(s) = OldAfter(log, s, Applied) + NewAfter(log, s, Applied)
                 /\ Plain => Lots(holding[s].old) = OldAfter(log, s, Applied)
                 /\ OldAfter(log, s, Applied + 1) = OldAfter(log, s, Applied) + OldPart(s, Msg)
                 /\ NewAfter(log, s, Applied + 1) = NewAfter(log, s, Applied) + NewPart(s, Msg)
                 /\ OldAfter(log, s, Applied) \in Nat /\ NewAfter(log, s, Applied) \in Nat
    BY <1>1, NextApplied
  <1>4. \A s \in Sides : OldPart(s, Msg) \in Int /\ NewPart(s, Msg) \in Int
    BY NextTrade, PartsTyped
  <1>5. ASSUME NEW s \in Sides
        PROVE  /\ Held(s)' = OldAfter(log, s, Applied + 1) + NewAfter(log, s, Applied + 1)
               /\ Plain => Lots(holding[s].old)' = OldAfter(log, s, Applied + 1)
    <2>1. Held(s)' = OldAfter(log, s, Applied + 1) + NewAfter(log, s, Applied + 1)
      BY <1>1, <1>3, <1>4
    <2>2. Plain => Lots(holding[s].old)' = OldAfter(log, s, Applied + 1)
      BY <1>1, <1>3, <1>4
    <2> QED
      BY <2>1, <2>2
  <1>6. got' <= Applied'
    BY <1>1, <1>3
  <1> QED
    BY <1>1, <1>2, <1>5, <1>6 DEF HeldRight

(* ApplyOpen keeps the invariant: the lots and the margin of the new entry *)
(* are those of the trade.                                                 *)
LEMMA OpenKeeps == ASSUME IInv, dead = "no", ApplyOpen PROVE IInv'
  <1> DEFINE t == Msg.side
             e == [price |-> Msg.price, lots |-> Msg.lots]
             list == holding[t].today
             h == [holding EXCEPT ![t].today = <<e>> \o @]
  <1>1. /\ Take /\ sync = "ready" /\ Msg.id \notin backward /\ Msg.effect = "OPEN"
        /\ holding' = h /\ realized' = realized + 0 /\ cash' = cash + -(Msg.price * Msg.lots)
        /\ backward' = backward \cup {Msg.id}
        /\ UNCHANGED <<exchange, start, caching, strategy, again, dead>>
    BY DEF ApplyOpen, Apply
  <1>2. /\ Msg \in Trades /\ t \in Sides /\ Msg.lots \in Nat /\ Msg.price \in Nat
        /\ e \in Entries /\ e.price = Msg.price /\ e.lots = Msg.lots
    <2>1. Msg \in Trades /\ t \in Sides /\ Msg.lots \in Nat /\ Msg.price \in Nat
      BY <1>1, NextTrade
    <2> QED
      BY <2>1 DEF Entries
  <1>3. /\ AccountShape /\ realized \in Int /\ cash \in Int
        /\ holding \in [Sides -> [old : Seq(Entries), today : Seq(Entries)]]
        /\ list \in Seq(Entries) /\ Lots(list) \in Nat /\ Value(list) \in Int
    <2>1. AccountShape
      BY DEF IInv, Shape
    <2>2. list \in Seq(Entries)
      BY <1>2, <2>1, HoldingTyped
    <2> QED
      BY <2>1, <2>2, LotsNat DEF AccountShape
  <1> HIDE DEF e
  <1>4. /\ <<e>> \o list \in Seq(Entries)
        /\ Lots(<<e>> \o list) = Msg.lots + Lots(list)
        /\ Value(<<e>> \o list) = Msg.price * Msg.lots + Value(list)
    BY <1>2, <1>3, ConsLots
  <1>5. /\ h \in [Sides -> [old : Seq(Entries), today : Seq(Entries)]]
        /\ \A s \in Sides : /\ h[s].old = holding[s].old
                            /\ h[s].today = IF s = t THEN <<e>> \o list ELSE holding[s].today
    BY <1>2, <1>3, <1>4
  <1> HIDE DEF h
  <1>6. Msg.price * Msg.lots \in Int
    BY <1>2
  <1>7. AccountShape'
    <2>1. backward' \subseteq 1..Len(log')
      BY <1>1, AppliedKeeps
    <2> QED
      BY <1>1, <1>3, <1>5, <1>6, <2>1 DEF AccountShape
  <1>8. CashBalanced'
    <2>1. \A s \in Sides : Value(holding[s].old) \in Int /\ Value(holding[s].today) \in Int
      <3>1. \A s \in Sides : holding[s].old \in Seq(Entries) /\ holding[s].today \in Seq(Entries)
        BY <1>3, HoldingTyped
      <3> QED
        BY <3>1, LotsNat
    <2>2. Margin(h) = Margin(holding) + Msg.price * Msg.lots
      <3>1. CASE t = "BUY"
        <4>1. /\ Value(h["BUY"].today) = Msg.price * Msg.lots + Value(holding["BUY"].today)
              /\ Value(h["SELL"].today) = Value(holding["SELL"].today)
              /\ Value(h["BUY"].old) = Value(holding["BUY"].old)
              /\ Value(h["SELL"].old) = Value(holding["SELL"].old)
          BY <1>4, <1>5, <3>1 DEF Sides
        <4> QED
          BY <1>6, <2>1, <4>1 DEF Margin, Sides
      <3>2. CASE t = "SELL"
        <4>1. /\ Value(h["SELL"].today) = Msg.price * Msg.lots + Value(holding["SELL"].today)
              /\ Value(h["BUY"].today) = Value(holding["BUY"].today)
              /\ Value(h["BUY"].old) = Value(holding["BUY"].old)
              /\ Value(h["SELL"].old) = Value(holding["SELL"].old)
          BY <1>4, <1>5, <3>2 DEF Sides
        <4> QED
          BY <1>6, <2>1, <4>1 DEF Margin, Sides
      <3> QED
        BY <1>2, <3>1, <3>2 DEF Sides
    <2>3. cash + Margin(holding) = Balance + realized /\ Margin(holding) \in Int /\ Balance \in Int
      BY <1>1, <1>3, MarginInt, ConstAssumption DEF IInv, CashBalanced
    <2>4. Margin(holding)' = Margin(h)
      BY <1>1 DEF Margin
    <2> QED
      BY <1>1, <1>3, <1>6, <2>2, <2>3, <2>4 DEF CashBalanced
  <1>9. HeldRight'
    <2>1. ASSUME NEW s \in Sides
          PROVE  /\ Held(s)' = Held(s) + OldPart(s, Msg) + NewPart(s, Msg)
                 /\ Lots(holding[s].old)' = Lots(holding[s].old) + OldPart(s, Msg)
      <3>1. OldPart(s, Msg) = 0 /\ NewPart(s, Msg) = IF s = t THEN Msg.lots ELSE 0
        BY <1>1 DEF OldPart, NewPart, OpenPart
      <3>2. /\ Lots(holding[s].old) \in Nat /\ Lots(holding[s].today) \in Nat
            /\ Held(s) = Lots(holding[s].old) + Lots(holding[s].today)
        BY <1>3, HoldingTyped
      <3>3. /\ Held(s)' = Lots(h[s].old) + Lots(h[s].today)
            /\ Lots(holding[s].old)' = Lots(h[s].old)
        BY <1>1 DEF Held
      <3>4. /\ Lots(h[s].old) = Lots(holding[s].old)
            /\ Lots(h[s].today) = Lots(holding[s].today) + NewPart(s, Msg)
        <4>1. CASE s = t
          <5>1. h[s].old = holding[s].old /\ h[s].today = <<e>> \o list /\ holding[s].today = list
            BY <1>5, <4>1
          <5>2. NewPart(s, Msg) = Msg.lots
            BY <3>1, <4>1
          <5> HIDE DEF list
          <5>3. Lots(h[s].today) = Msg.lots + Lots(list)
            BY <1>4, <5>1
          <5> QED
            BY <1>2, <1>3, <5>1, <5>2, <5>3
        <4>2. CASE s # t
          BY <1>5, <3>1, <3>2, <4>2
        <4> QED
          BY <4>1, <4>2
      <3>5. NewPart(s, Msg) \in Int
        BY <1>2, PartsTyped
      <3> QED
        BY <3>1, <3>2, <3>3, <3>4, <3>5
    <2> QED
      BY <1>1, <2>1, AppliedHeld
  <1> QED
    BY <1>1, <1>7, <1>8, <1>9, AppliedKeeps DEF IInv, Shape

(* What is released of a margin and earned leaves cash and margin even.     *)
LEMMA ReleasedToo ==
    ASSUME NEW c \in Int, NEW a \in Int, NEW b \in Int, NEW p \in Int, NEW r \in Int,
           NEW B \in Int, c + a = B + r
    PROVE  (c + (a - b + p)) + b = B + (r + p)
  OBVIOUS

(* ApplyClose keeps the invariant: the exchange had the lots, so the lists *)
(* do if the start was regular, and the margin that is released comes back *)
(* as cash.                                                                *)
LEMMA CloseKeeps == ASSUME IInv, dead = "no", ApplyClose PROVE IInv'
  <1> DEFINE t    == HeldSide(Msg)
             h    == holding[t]
             old  == FromOld(h, Msg.lots)
             left == Msg.lots - old
             rest == [holding EXCEPT ![t] = [old |-> Rest(h.old, old), today |-> Rest(h.today, left)]]
             pnl  == Earning(t, h.old, old, Msg.price) + Earning(t, h.today, left, Msg.price)
  <1>1. /\ Take /\ sync = "ready" /\ Msg.id \notin backward /\ Msg.effect # "OPEN"
        /\ UNCHANGED exchange /\ again' = again
        /\ UNCHANGED start /\ UNCHANGED caching /\ UNCHANGED strategy
    BY DEF ApplyClose
  <1>2. IF left > Lots(h.today)
          THEN dead' = "back" /\ UNCHANGED account
          ELSE /\ holding' = rest /\ realized' = realized + pnl
               /\ cash' = cash + (Margin(holding) - Margin(rest) + pnl)
               /\ backward' = backward \cup {Msg.id} /\ dead' = dead
    BY DEF ApplyClose, Apply
  <1>3. /\ Msg \in Trades /\ t \in Sides /\ Msg.lots \in Nat /\ Msg.price \in Int
        /\ Msg.effect \in {"CLOSE", "CLOSE_TODAY"} /\ got' = got + 1 /\ got + 1 \in 1..Len(log)
        /\ got \in Nat
    <2>1. /\ Msg \in Trades /\ got' = got + 1 /\ got + 1 \in 1..Len(log) /\ got \in Nat
          /\ t \in Sides /\ Msg.lots \in Nat /\ Msg.price \in Nat /\ Msg.effect \in Effects
      BY <1>1, NextTrade
    <2> HIDE DEF t
    <2> QED
      BY <1>1, <2>1 DEF Effects
  <1> HIDE DEF t
  <1>4. /\ AccountShape /\ realized \in Int /\ cash \in Int
        /\ holding \in [Sides -> [old : Seq(Entries), today : Seq(Entries)]]
        /\ h.old \in Seq(Entries) /\ h.today \in Seq(Entries)
        /\ Lots(h.old) \in Nat /\ Lots(h.today) \in Nat
        /\ Held(t) = Lots(h.old) + Lots(h.today)
    <2>1. AccountShape
      BY DEF IInv, Shape
    <2> QED
      BY <1>3, <2>1, HoldingTyped DEF AccountShape
  <1> HIDE DEF h
  <1>5. /\ old \in Nat /\ old <= Lots(h.old) /\ left \in Nat
        /\ Msg.lots < Lots(h.old) => old = Msg.lots
        /\ ~ (Msg.lots < Lots(h.old)) => old = Lots(h.old)
    BY <1>3, <1>4 DEF FromOld
  <1>6. \A s \in Sides : /\ OldPart(s, Msg) = IF s = t /\ Msg.effect = "CLOSE" THEN -Msg.lots ELSE 0
                         /\ NewPart(s, Msg) = IF s = t /\ Msg.effect = "CLOSE_TODAY" THEN -Msg.lots ELSE 0
    BY <1>1, <1>3 DEF OldPart, NewPart, OpenPart, t
  <1>7. Regular => /\ Msg.lots <= Held(t)
                   /\ Plain => /\ Lots(h.old) \in Nat
                               /\ Msg.effect = "CLOSE" => Msg.lots <= Lots(h.old)
                               /\ Msg.effect = "CLOSE_TODAY" => Lots(h.old) = 0
    <2> SUFFICES ASSUME Regular
                 PROVE  /\ Msg.lots <= Held(t)
                        /\ Plain => /\ Msg.effect = "CLOSE" => Msg.lots <= Lots(h.old)
                                    /\ Msg.effect = "CLOSE_TODAY" => Lots(h.old) = 0
      BY <1>4
    <2> DEFINE O == OldAfter(log, t, Applied)
               N == NewAfter(log, t, Applied)
    <2>1. Held(t) = O + N
      BY <1>1, <1>3, NextApplied
    <2>2. /\ O \in Nat /\ N \in Nat /\ O <= OldLots[t]
          /\ O + OldPart(t, Msg) >= 0 /\ N + NewPart(t, Msg) >= 0
      <3>1. /\ O \in Nat /\ N \in Nat /\ O <= OldLots[t]
            /\ OldAfter(log, t, Applied + 1) = O + OldPart(t, Msg)
            /\ NewAfter(log, t, Applied + 1) = N + NewPart(t, Msg)
            /\ OldAfter(log, t, Applied + 1) >= 0 /\ NewAfter(log, t, Applied + 1) >= 0
        BY <1>1, <1>3, NextApplied
      <3> QED
        BY <3>1
    <2> HIDE DEF O, N
    <2>3. Msg.lots <= Held(t)
      BY <1>3, <1>6, <2>1, <2>2
    <2>4. ASSUME Plain
          PROVE  /\ Msg.effect = "CLOSE" => Msg.lots <= Lots(h.old)
                 /\ Msg.effect = "CLOSE_TODAY" => Lots(h.old) = 0
      <3>1. Lots(h.old) = O
        BY <1>1, <1>3, <2>4, NextApplied DEF h, O
      <3>2. Msg.effect = "CLOSE" => Msg.lots <= O
        BY <1>3, <1>6, <2>2
      <3>3. Msg.effect = "CLOSE_TODAY" => OldLots[t] = 0
        <4>1. got + 1 \in DOMAIN log /\ Msg = log[got + 1]
          BY <1>1, <1>3, NextTrade DEF IInv, Shape, ExchangeShape
        <4> QED
          BY <2>4, <4>1 DEF Plain, t
      <3>4. Msg.effect = "CLOSE_TODAY" => O = 0
        BY <2>2, <3>3
      <3> QED
        BY <3>1, <3>2, <3>4
    <2> QED
      BY <2>3, <2>4
  <1> HIDE DEF old, left
  <1>8. CASE left > Lots(h.today)
    <2>1. dead' = "back" /\ UNCHANGED account
      BY <1>2, <1>8
    <2>2. /\ log' = log /\ exOld' = exOld /\ exToday' = exToday /\ exRealized' = exRealized
          /\ sync' = sync /\ report' = report /\ reported' = reported /\ noted' = noted /\ late' = late
          /\ entering' = entering /\ cached' = cached
      BY <1>1 DEF exchange, start, caching
    <2>3. ~ Regular
      <3> SUFFICES ASSUME Regular PROVE FALSE
        OBVIOUS
      <3>1. Msg.lots <= Lots(h.old) + Lots(h.today)
        BY <1>4, <1>7
      <3>2. left = Msg.lots - old
        BY DEF left
      <3> QED
        BY <1>3, <1>4, <1>5, <1>8, <3>1, <3>2
    <2>4. BackRight' /\ HeldRight'
      <3>1. ~ Regular'
        BY <1>1, <2>2, <2>3 DEF Regular
      <3> QED
        BY <3>1 DEF BackRight, HeldRight
    <2>5. LogRight' /\ AccountShape' /\ CashBalanced' /\ ApiRight'
      BY <1>1, <2>1, <2>2, LogSame, AccountSame, CashSame, ApiSame DEF IInv, Shape
    <2>6. ExchangeShape'
      BY <1>3, <2>2 DEF IInv, Shape, ExchangeShape
    <2>7. StartShape'
      BY <1>1, <2>2 DEF IInv, Shape, StartShape
    <2>8. StartRight'
      BY <1>1, <2>2 DEF IInv, StartRight
    <2> QED
      BY <2>4, <2>5, <2>6, <2>7, <2>8 DEF IInv, Shape
  <1>9. CASE ~ (left > Lots(h.today))
    <2>1. /\ holding' = rest /\ realized' = realized + pnl
          /\ cash' = cash + (Margin(holding) - Margin(rest) + pnl)
          /\ backward' = backward \cup {Msg.id} /\ dead' = dead
      BY <1>2, <1>9
    <2>2. UNCHANGED <<exchange, start, caching, strategy, again, dead>>
      BY <1>1, <2>1
    <2>3. /\ Rest(h.old, old) \in Seq(Entries) /\ Lots(Rest(h.old, old)) = Lots(h.old) - old
          /\ Rest(h.today, left) \in Seq(Entries) /\ Lots(Rest(h.today, left)) = Lots(h.today) - left
      <3>1. old \in 0..Lots(h.old) /\ left \in 0..Lots(h.today)
        BY <1>4, <1>5, <1>9
      <3> QED
        BY <1>4, <3>1, RestLots
    <2>4. pnl \in Int
      <3>1. Earning(t, h.old, old, Msg.price) \in Int
        BY <1>3, <1>4, <1>5, EarningInt
      <3>2. Earning(t, h.today, left, Msg.price) \in Int
        BY <1>3, <1>4, <1>5, EarningInt
      <3> QED
        BY <3>1, <3>2
    <2> HIDE DEF pnl
    <2>5. /\ rest \in [Sides -> [old : Seq(Entries), today : Seq(Entries)]]
          /\ rest[t].old = Rest(h.old, old) /\ rest[t].today = Rest(h.today, left)
          /\ \A s \in Sides : s # t => rest[s] = holding[s]
      BY <1>3, <1>4, <2>3
    <2> HIDE DEF rest
    <2>6. Margin(holding) \in Int /\ Margin(rest) \in Int /\ Balance \in Int
      <3>1. Margin(holding) \in Int
        BY <1>4, MarginInt
      <3>2. Margin(rest) \in Int
        BY <2>5, MarginInt
      <3> QED
        BY <3>1, <3>2, ConstAssumption
    <2>7. AccountShape'
      <3>1. backward' \subseteq 1..Len(log')
        BY <1>1, <2>1, <2>2, AppliedKeeps
      <3>2. realized' \in Int /\ cash' \in Int
        <4>1. cash \in Int /\ realized \in Int /\ pnl \in Int
          BY <1>4, <2>4
        <4>2. realized' = realized + pnl /\ cash' = cash + (Margin(holding) - Margin(rest) + pnl)
          BY <2>1
        <4> QED
          BY <2>6, <4>1, <4>2
      <3> QED
        BY <2>1, <2>5, <3>1, <3>2 DEF AccountShape
    <2>8. CashBalanced'
      <3>1. cash + Margin(holding) = Balance + realized
        BY <1>1 DEF IInv, CashBalanced
      <3>2. Margin(holding)' = Margin(rest)
        BY <2>1 DEF Margin
      <3>3. cash' + Margin(holding)' = Balance + realized'
        <4>1. cash \in Int /\ realized \in Int /\ pnl \in Int
          BY <1>4, <2>4
        <4>2. realized' = realized + pnl /\ cash' = cash + (Margin(holding) - Margin(rest) + pnl)
          BY <2>1
        <4>3. (cash + (Margin(holding) - Margin(rest) + pnl)) + Margin(rest) = Balance + (realized + pnl)
          <5>1. /\ cash \in Int /\ realized \in Int /\ pnl \in Int /\ Balance \in Int
                /\ Margin(holding) \in Int /\ Margin(rest) \in Int
                /\ cash + Margin(holding) = Balance + realized
            BY <2>6, <3>1, <4>1
          <5> QED
            BY <5>1, ReleasedToo
        <4> QED
          BY <3>2, <4>2, <4>3
      <3> QED
        BY <3>3 DEF CashBalanced
    <2>9. HeldRight'
      <3>1. ASSUME Regular, NEW s \in Sides
            PROVE  /\ Held(s)' = Held(s) + OldPart(s, Msg) + NewPart(s, Msg)
                   /\ Plain => Lots(holding[s].old)' = Lots(holding[s].old) + OldPart(s, Msg)
        <4>1. /\ Held(s)' = Lots(rest[s].old) + Lots(rest[s].today)
              /\ Lots(holding[s].old)' = Lots(rest[s].old)
          BY <2>1 DEF Held
        <4>2. /\ Lots(holding[s].old) \in Nat /\ Lots(holding[s].today) \in Nat
              /\ Held(s) = Lots(holding[s].old) + Lots(holding[s].today)
          BY <1>4, HoldingTyped
        <4>3. CASE s # t
          <5>1. OldPart(s, Msg) = 0 /\ NewPart(s, Msg) = 0 /\ rest[s] = holding[s]
            BY <1>6, <2>5, <4>3
          <5> QED
            BY <4>1, <4>2, <5>1
        <4>4. CASE s = t
          <5>1. /\ Lots(rest[s].old) = Lots(h.old) - old
                /\ Lots(rest[s].today) = Lots(h.today) - left /\ left = Msg.lots - old
                /\ Lots(holding[s].old) = Lots(h.old) /\ Held(s) = Lots(h.old) + Lots(h.today)
            BY <1>4, <2>3, <2>5, <4>4 DEF h, left
          <5>2. Held(s)' = Held(s) - Msg.lots
            <6>1. Held(s)' = (Lots(h.old) - old) + (Lots(h.today) - left)
              BY <4>1, <5>1
            <6>2. /\ Lots(h.old) \in Int /\ Lots(h.today) \in Int /\ old \in Int /\ Msg.lots \in Int
                  /\ left = Msg.lots - old /\ Held(s) = Lots(h.old) + Lots(h.today)
              BY <1>3, <1>4, <1>5, <5>1
            <6> QED
              BY <6>1, <6>2
          <5>3. /\ OldPart(s, Msg) = IF Msg.effect = "CLOSE" THEN -Msg.lots ELSE 0
                /\ NewPart(s, Msg) = IF Msg.effect = "CLOSE_TODAY" THEN -Msg.lots ELSE 0
            BY <1>6, <4>4
          <5>4. Held(s)' = Held(s) + OldPart(s, Msg) + NewPart(s, Msg)
            BY <1>3, <4>2, <5>2, <5>3
          <5>5. Plain => Lots(holding[s].old)' = Lots(holding[s].old) + OldPart(s, Msg)
            <6> SUFFICES ASSUME Plain
                         PROVE  Lots(holding[s].old)' = Lots(holding[s].old) + OldPart(s, Msg)
              OBVIOUS
            <6>1. CASE Msg.effect = "CLOSE"
              <7>1. old = Msg.lots
                BY <1>3, <1>4, <1>5, <1>7, <3>1, <6>1
              <7> QED
                BY <1>3, <1>4, <4>1, <5>1, <5>3, <6>1, <7>1
            <6>2. CASE Msg.effect = "CLOSE_TODAY"
              <7>1. old = 0
                BY <1>3, <1>4, <1>5, <1>7, <3>1, <6>2
              <7> QED
                BY <1>3, <1>4, <4>1, <5>1, <5>3, <6>2, <7>1
            <6> QED
              BY <1>3, <6>1, <6>2
          <5> QED
            BY <5>4, <5>5
        <4> QED
          BY <4>3, <4>4
      <3> QED
        BY <1>1, <2>1, <2>2, <3>1, AppliedHeld
    <2> QED
      BY <1>1, <2>1, <2>2, <2>7, <2>8, <2>9, AppliedKeeps DEF IInv, Shape
  <1> QED
    BY <1>8, <1>9
-----------------------------------------------------------------------------
(* The invariant.                                                          *)

(* The invariant holds at first.                                           *)
LEMMA InitIInv == Init => IInv
  <1> SUFFICES ASSUME Init PROVE IInv
    OBVIOUS
  <1> USE DEF Init
  <1>1. OldLots \in [Sides -> Nat] /\ Balance \in Int
    BY ConstAssumption
  <1>2. Len(log) = 0 /\ log \in Seq(Trades) /\ 1..0 = {}
    OBVIOUS
  <1>3. ExchangeShape
    <2>1. exToday \in [Sides -> Seq(Nat)]
      OBVIOUS
    <2> QED
      BY <1>1, <1>2, <2>1 DEF ExchangeShape
  <1>4. StartShape
    <2>1. NoReport \in [old : [Sides -> Nat], today : [Sides -> Nat], realized : Int]
      BY <1>1 DEF NoReport
    <2>2. cached \in Seq(Trades) /\ Len(cached) = 0
      OBVIOUS
    <2>3. \A i \in 1..Len(cached) : cached[i].id \in 1..Len(log) /\ cached[i] = log[cached[i].id]
      BY <1>2, <2>2
    <2>4. entering # <<>> => \E k \in 1..Len(log) : entering = <<log[k]>>
      OBVIOUS
    <2>5. again \in BOOLEAN /\ late \in BOOLEAN
      OBVIOUS
    <2>6. /\ sync \in {"logged_in", "queried", "dated", "ready"}
          /\ report \in [old : [Sides -> Nat], today : [Sides -> Nat], realized : Int]
          /\ reported \in 0..Len(log) /\ noted \in 0..Len(log)
      BY <1>2, <2>1
    <2> QED
      BY <2>2, <2>3, <2>4, <2>5, <2>6, Zenon DEF StartShape
  <1>5. AccountShape
    BY <1>2 DEF AccountShape, NoHolding
  <1>6. LogRight
    <2>1. ASSUME NEW s \in Sides
          PROVE  /\ exOld[s] = OldAfter(log, s, 0) /\ Len(exToday[s]) = NewAfter(log, s, 0)
                 /\ OldAfter(log, s, 0) >= 0 /\ NewAfter(log, s, 0) >= 0
                 /\ NewAfter(log, s, 0) <= OpenedAfter(log, s, 0)
      <3>1. exOld[s] = OldLots[s] /\ Len(exToday[s]) = 0
        OBVIOUS
      <3>2. /\ OldAfter(log, s, 0) = OldLots[s] /\ NewAfter(log, s, 0) = 0
            /\ OpenedAfter(log, s, 0) = 0 /\ OldLots[s] \in Nat
        BY AfterNone
      <3> QED
        BY <3>1, <3>2
    <2>2. 0..0 = {0}
      OBVIOUS
    <2> QED
      BY <1>2, <2>1, <2>2 DEF LogRight
  <1>7. StartRight /\ HeldRight /\ BackRight /\ CashBalanced
    BY <1>2 DEF StartRight, HeldRight, BackRight, CashBalanced
  <1>8. ApiRight
    <2>1. NoOrder \in Orders /\ NoOrder.at = "idle"
      BY DEF NoOrder, Orders, Sides, Effects
    <2> QED
      BY <2>1 DEF ApiRight
  <1> QED
    BY <1>3, <1>4, <1>5, <1>6, <1>7, <1>8 DEF IInv, Shape

(* A step that changes nothing keeps the invariant.                        *)
LEMMA StutterKeeps == ASSUME IInv, UNCHANGED vars PROVE IInv'
  <1>1. /\ UNCHANGED <<exchange, stream, start, caching, account, dead>> /\ UNCHANGED exchange
        /\ UNCHANGED account /\ UNCHANGED strategy /\ sync' = sync
    BY DEF vars, exchange, stream, start, caching, account, strategy
  <1>2. ApiRight'
    BY <1>1, ApiSame DEF IInv
  <1> QED
    BY <1>1, <1>2, OutsideStrategy DEF IInv

(* Every step keeps the invariant.                                         *)
LEMMA NextIInv == IInv /\ [Next]_vars => IInv'
  <1> SUFFICES ASSUME IInv, [Next]_vars PROVE IInv'
    OBVIOUS
  <1>1. CASE UNCHANGED vars
    BY <1>1, StutterKeeps
  <1>2. CASE Next
    <2>1. dead = "no"
      BY <1>2 DEF Next
    <2>2. ASSUME NEW side \in Sides, NEW effect \in Effects, NEW lots \in 1..MaxLots,
                 ExchangeTrade(side, effect, lots)
          PROVE  IInv'
      BY <2>1, <2>2, ExchangeKeeps
    <2>3. ASSUME NEW side \in Sides, NEW effect \in Effects, NEW amount \in Amounts,
                 ReadFirst(side, effect, amount)
          PROVE  IInv'
      BY <2>3, ReadStep
    <2>4. CASE Relogin
      BY <2>1, <2>4, ReloginKeeps
    <2>5. CASE QryPosition
      BY <2>1, <2>5, QryKeeps
    <2>6. CASE NoteDate
      BY <2>1, <2>6, NoteKeeps
    <2>7. CASE BuildPortfolio
      BY <2>1, <2>7, BuildKeeps
    <2>8. CASE SeeOldDate
      BY <2>1, <2>8, OldDateKeeps
    <2>9. CASE CacheTrade
      BY <2>1, <2>9, CacheKeeps
    <2>10. CASE NoPortfolio
      BY <2>1, <2>10, NoPortfolioKeeps
    <2>11. CASE SkipTrade
      BY <2>1, <2>11, SkipKeeps
    <2>12. CASE ApplyOpen
      BY <2>1, <2>12, OpenKeeps
    <2>13. CASE ApplyClose
      BY <2>1, <2>13, CloseKeeps
    <2>14. CASE SplitOrder \/ Submit
      BY <2>14, SplitStep
    <2> QED
      BY <1>2, <2>2, <2>3, <2>4, <2>5, <2>6, <2>7, <2>8, <2>9, <2>10, <2>11, <2>12, <2>13, <2>14
         DEF Next
  <1> QED
    BY <1>1, <1>2

(* The inductive invariant holds: the lots of the exchange are what the    *)
(* log adds up to, and the holding lists are from the start on.            *)
THEOREM Invariance == Spec => []IInv
  <1> QED
    BY InitIInv, NextIInv, PTL DEF Spec

(* Money is neither made nor lost: cash and margin are the balance the day *)
(* began with and what closing has earned (account(), apply_trade).        *)
THEOREM CashAddsUp == Spec => []CashBalanced
  <1>1. IInv => CashBalanced
    BY DEF IInv
  <1> QED
    BY <1>1, Invariance, PTL

(* What a caught up, regular start says of a side.                         *)
LEMMA CaughtUpLots ==
    ASSUME IInv, CaughtUp, Regular
    PROVE  \A s \in Sides :
              /\ Held(s) = exOld[s] + Len(exToday[s])
              /\ Plain => Lots(holding[s].old) = exOld[s]
  <1>1. /\ Applied <= Len(log) /\ got <= Applied
        /\ \A s \in Sides :
              /\ Held(s) = OldAfter(log, s, Applied) + NewAfter(log, s, Applied)
              /\ Plain => Lots(holding[s].old) = OldAfter(log, s, Applied)
    BY DEF IInv, HeldRight, CaughtUp
  <1>2. Applied \in Nat /\ Len(log) \in Nat /\ got = Len(log)
    BY BackwardCount DEF IInv, Shape, ExchangeShape, StartShape, Applied, CaughtUp
  <1>3. Applied = Len(log)
    BY <1>1, <1>2
  <1> QED
    BY <1>1, <1>3 DEF IInv, LogRight

(* However the trades of the day fall before and after the start, the      *)
(* holding lists have as many lots as the exchange (positions(),           *)
(* apply_trade).                                                           *)
THEOREM LotsAgree == Spec => []HoldingsRight
  <1>1. IInv => HoldingsRight
    BY CaughtUpLots DEF HoldingsRight
  <1> QED
    BY <1>1, Invariance, PTL

(* Closing asks for nothing that is not there, and a close that is booked  *)
(* never finds the lists empty, if the start was regular (order,           *)
(* _close_holding).                                                        *)
THEOREM ClosesAgree == Spec => []ClosesFit
  <1>1. ASSUME IInv PROVE ClosesFit
    <2>1. Regular => dead # "back"
      BY <1>1 DEF IInv, BackRight
    <2>2. ASSUME Undisturbed, Plain PROVE Fits
      <3> DEFINE s == Other(api.side)
      <3>1. /\ CaughtUp /\ Regular /\ api.at = "split" /\ api.seen = Cardinality(backward)
        BY <2>2 DEF Undisturbed
      <3>2. s \in Sides
        BY <1>1 DEF IInv, ApiRight, Orders, Other, Sides
      <3>3. ListLots(s, "CLOSE") = exOld[s] /\ ListLots(s, "CLOSE_TODAY") = Len(exToday[s])
        <4>1. Held(s) = exOld[s] + Len(exToday[s]) /\ Lots(holding[s].old) = exOld[s]
          BY <1>1, <2>2, <3>1, <3>2, CaughtUpLots
        <4>2. /\ Held(s) = Lots(holding[s].old) + Lots(holding[s].today)
              /\ Lots(holding[s].today) \in Nat
          BY <1>1, <3>2, HoldingTyped DEF IInv, Shape
        <4>3. exOld[s] \in Nat /\ Len(exToday[s]) \in Nat
          BY <1>1, <3>2 DEF IInv, Shape, ExchangeShape
        <4> HIDE DEF s
        <4>4. Lots(holding[s].today) = Len(exToday[s])
          BY <4>1, <4>2, <4>3
        <4> QED
          BY <4>1, <4>4 DEF ListLots
      <3>4. ASSUME NEW i \in DOMAIN api.parts
            PROVE  api.parts[i].amount <= IF api.parts[i].effect = "CLOSE" THEN exOld[s]
                                                                           ELSE Len(exToday[s])
        <4>1. api.parts[i].effect # "OPEN" /\ api.parts[i].amount <= ListLots(s, api.parts[i].effect)
          BY <1>1, <3>1 DEF IInv, ApiRight
        <4>2. ListLots(s, api.parts[i].effect)
                 = IF api.parts[i].effect = "CLOSE" THEN exOld[s] ELSE Len(exToday[s])
          BY <3>3, Zenon DEF ListLots
        <4> QED
          BY <4>1, <4>2
      <3> QED
        BY <3>4 DEF Fits
    <2> QED
      BY <2>1, <2>2 DEF ClosesFit
  <1> QED
    BY <1>1, Invariance, PTL
-----------------------------------------------------------------------------
(* Which lots the exchange has, at what prices, and what closing earned.   *)

(* The lots of a side that the first n trades closed of those opened this  *)
(* day.                                                                    *)
ClosedAfter(l, s, n) == OpenedAfter(l, s, n) - NewAfter(l, s, n)

(* The q-th lot of a side that was opened this day came from trade j; what *)
(* it cost.                                                                *)
FromTrade(l, s, q, j) == OpenedAfter(l, s, j - 1) < q /\ q <= OpenedAfter(l, s, j)
PriceAt(l, s, q)      == l[CHOOSE j \in 1..Len(l) : FromTrade(l, s, q, j)].price

(* What a trade of the log earned at the exchange, which closes the oldest *)
(* lots first; and the first n trades.                                     *)
EarnedAt(l, s, c, k, price) == Earned(s, PriceAt(l, s, k + c), price)
TodayEarned(l, s, c, m) ==
    SumFunctionOnSet([k \in 1..m.lots |-> EarnedAt(l, s, c, k, m.price)], 1..m.lots)
EarnedBy(l, i) ==
    CASE l[i].effect = "OPEN"  -> 0
      [] l[i].effect = "CLOSE" -> l[i].lots * Earned(HeldSide(l[i]), PreSettlement, l[i].price)
      [] l[i].effect = "CLOSE_TODAY" ->
            TodayEarned(l, HeldSide(l[i]), ClosedAfter(l, HeldSide(l[i]), i - 1), l[i])
EarnedAfter(l, n) == SumFunctionOnSet([i \in 1..n |-> EarnedBy(l, i)], 1..n)

(* Today's lots at the exchange are the last opened ones; what closing has *)
(* earned.                                                                 *)
PricesRight ==
    /\ \A s \in Sides : \A k \in 1..Len(exToday[s]) :
          exToday[s][k] = PriceAt(log, s, k + ClosedAfter(log, s, Len(log)))
    /\ exRealized = EarnedAfter(log, Len(log))

(* Until the date is noted, the trades are in trades_ in order, or the     *)
(* stream has begun anew, or a trade is in trades_ twice.                  *)
Came       == cached \o entering
InOrder(n) == Len(Came) = n /\ \A i \in 1..n : Came[i] = log[i]
CacheRight ==
    /\ sync \in {"logged_in", "queried"} =>
          \/ InOrder(got) \/ ~IsInjective(Came)
          \/ got = 0 /\ \E i \in DOMAIN Came : Came[i] = log[1]
    /\ sync = "dated" => InOrder(noted) \/ ~IsInjective(Came) \/ noted = 0

ReportRight == sync # "logged_in" => report.realized = EarnedAfter(log, reported)

(* The lots of a list are those opened after the first c, in their order.  *)
ListFrom(list, l, s, c) ==
    \A i \in DOMAIN list : \A k \in (Behind(list, i) + 1)..Behind(list, i - 1) :
        list[i].price = PriceAt(l, s, k + c)

ListsRight ==
    sync = "ready" /\ Regular /\ dead = "no" /\ Plain /\ IsInjective(cached) =>
        /\ realized = EarnedAfter(log, Applied)
        /\ \A s \in Sides :
              /\ \A i \in DOMAIN holding[s].old : holding[s].old[i].price = PreSettlement
              /\ ListFrom(holding[s].today, log, s, ClosedAfter(log, s, Applied))

LInv == PricesRight /\ CacheRight /\ ReportRight /\ ListsRight

(* Where the list that is left ends.                                       *)
LEMMA RestEnds ==
    ASSUME NEW list \in Seq(Entries), NEW left \in Nat
    PROVE  \E n \in 0..Len(list) : /\ Behind(list, n) <= left
                                   /\ \A m \in 0..(n - 1) : Behind(list, m) > left
  <1> DEFINE T == {n \in 0..Len(list) : Behind(list, n) <= left}
  <1>1. T \subseteq Nat /\ T # {}
    <2>1. Len(list) \in T
      BY BehindStep
    <2> QED
      BY <2>1
  <1>2. PICK n \in T : \A m \in T : n <= m
    <2> HIDE DEF T
    <2> QED
      BY <1>1, LeastNumber
  <1>3. ASSUME NEW m \in 0..(n - 1) PROVE Behind(list, m) > left
    <2>1. m \in 0..Len(list) /\ m < n
      BY <1>2
    <2>2. m \notin T
      BY <1>2, <2>1
    <2>3. Behind(list, m) \in Nat
      BY <2>1, BehindStep
    <2> QED
      BY <2>1, <2>2, <2>3
  <1> QED
    BY <1>2, <1>3

(* The entries that are left keep their prices, and have so many fewer     *)
(* lots behind them.                                                       *)
LEMMA RestBehind ==
    ASSUME NEW list \in Seq(Entries), NEW left \in 0..Lots(list)
    PROVE  \E n \in 0..Len(list) :
              /\ DOMAIN Rest(list, left) = 1..n
              /\ \A i \in 1..n : Rest(list, left)[i].price = list[i].price
              /\ \A i \in 0..(n - 1) : Behind(Rest(list, left), i) = Behind(list, i) - left
              /\ Behind(Rest(list, left), n) = 0 /\ Behind(list, n) <= left
  <1> DEFINE r == Rest(list, left)
  <1>1. Lots(list) \in Nat /\ left \in Nat
    BY LotsNat
  <1>2. PICK n \in 0..Len(list) : /\ Behind(list, n) <= left
                                  /\ \A m \in 0..(n - 1) : Behind(list, m) > left
    BY <1>1, RestEnds
  <1>3. /\ DOMAIN r = 1..n
        /\ \A i \in 1..n : /\ r[i].price = list[i].price
                           /\ i # n => r[i].lots = list[i].lots
        /\ r \in Seq(Entries)
    BY <1>1, <1>2, RestIs
  <1>4. Lots(r) = Lots(list) - left
    BY <1>1, RestLots
  <1> HIDE DEF r
  <1>5. Len(r) = n
    BY <1>3
  <1>6. Behind(r, 0) = Lots(r) /\ Behind(r, n) = 0 /\ Behind(list, 0) = Lots(list)
    BY <1>3, <1>5, BehindStep
  <1> DEFINE P == {i \in Nat : i < n => Behind(r, i) = Behind(list, i) - left}
  <1>7. 0 \in P
    BY <1>4, <1>6
  <1>8. ASSUME NEW i \in 0..(n - 1), i \in P PROVE i + 1 \in P
    <2> SUFFICES ASSUME i + 1 < n PROVE Behind(r, i + 1) = Behind(list, i + 1) - left
      OBVIOUS
    <2>1. /\ i + 1 \in 1..n /\ i + 1 \in 1..Len(list) /\ (i + 1) - 1 = i /\ i + 1 # n
          /\ i \in 0..Len(list) /\ i + 1 \in 0..Len(list) /\ i \in 0..Len(r) /\ i + 1 \in 0..Len(r)
          /\ i + 1 \in 1..Len(r)
      BY <1>5
    <2>2. Behind(r, i) = r[i + 1].lots + Behind(r, i + 1)
      BY <1>3, <2>1, BehindStep
    <2>3. Behind(list, i) = list[i + 1].lots + Behind(list, i + 1)
      BY <2>1, BehindStep
    <2>4. r[i + 1].lots = list[i + 1].lots /\ list[i + 1].lots \in Nat
      BY <1>3, <2>1, EntriesTyped
    <2>5. Behind(r, i + 1) \in Nat /\ Behind(list, i + 1) \in Nat
      BY <1>3, <2>1, BehindStep
    <2>6. Behind(r, i) = Behind(list, i) - left
      BY <1>8, <2>1
    <2> QED
      BY <1>1, <2>2, <2>3, <2>4, <2>5, <2>6
  <1> HIDE DEF P
  <1>9. \A i \in 0..n : i \in P
    BY <1>7, <1>8, CountUp
  <1>10. \A i \in 0..(n - 1) : Behind(r, i) = Behind(list, i) - left
    BY <1>9 DEF P
  <1> QED
    BY <1>2, <1>3, <1>6, <1>10 DEF r

(* What left lots taken from a list earn is the sum of what each of them   *)
(* earns, counted from the back of the list.                               *)
LEMMA EarningIs ==
    ASSUME NEW s \in Sides, NEW list \in Seq(Entries), NEW left \in 0..Lots(list),
           NEW price \in Int, NEW v, \A k \in 1..left : v[k] \in Int,
           \A i \in 1..Len(list) : \A k \in (Behind(list, i) + 1)..Behind(list, i - 1) :
              k <= left => v[k] = Earned(s, list[i].price, price)
    PROVE  Earning(s, list, left, price) = SumFunctionOnSet(v, 1..left)
  <1> DEFINE n      == Len(list)
             B(i)   == Behind(list, i)
             C(i)   == IF B(i) < left THEN B(i) ELSE left
             e(i)   == Earned(s, list[i].price, price)
             f      == [i \in DOMAIN list |-> Taken(list, i, left) * Earned(s, list[i].price, price)]
             V(m)   == SumFunctionOnSet(v, 1..m)
             F(i)   == SumFunctionOnSet(f, (i + 1)..n)
  <1>1. Lots(list) \in Nat /\ left \in Nat /\ n \in Nat /\ DOMAIN list = 1..n
    BY LotsNat
  <1>2. /\ B(0) = Lots(list) /\ B(n) = 0
        /\ \A i \in 0..n : B(i) \in Nat
        /\ \A i \in 1..n : B(i - 1) = list[i].lots + B(i)
    BY BehindStep
  <1>3. \A i \in 1..n : list[i].lots \in Nat /\ list[i].price \in Int /\ e(i) \in Int
    BY EntriesTyped DEF Earned
  <1>4. \A i \in 1..n : \A k \in (B(i) + 1)..B(i - 1) : k <= left => v[k] = e(i)
    OBVIOUS
  <1>5. \A i \in 1..n : Taken(list, i, left) = C(i - 1) - C(i) /\ C(i) <= C(i - 1)
    <2> TAKE i \in 1..n
    <2>1. /\ B(i) \in Nat /\ B(i - 1) = list[i].lots + B(i) /\ list[i].lots \in Nat
      BY <1>2, <1>3
    <2> HIDE DEF B
    <2>2. Taken(list, i, left) = IF left - B(i) <= 0 THEN 0
                                 ELSE IF left - B(i) < list[i].lots THEN left - B(i) ELSE list[i].lots
      BY DEF Taken, B
    <2>3. C(i) = (IF B(i) < left THEN B(i) ELSE left) /\ C(i - 1) = (IF B(i - 1) < left THEN B(i - 1) ELSE left)
      OBVIOUS
    <2> DEFINE x == B(i)
               y == B(i - 1)
               l == list[i].lots
    <2>4. /\ x \in Nat /\ y = l + x /\ l \in Nat /\ left \in Nat
          /\ Taken(list, i, left) = IF left - x <= 0 THEN 0 ELSE IF left - x < l THEN left - x ELSE l
          /\ C(i) = (IF x < left THEN x ELSE left) /\ C(i - 1) = (IF y < left THEN y ELSE left)
      BY <1>1, <2>1, <2>2, <2>3
    <2> HIDE DEF x, y, l, C
    <2>5. CASE left <= x
      <3>1. Taken(list, i, left) = 0 /\ C(i) = left /\ C(i - 1) = left
        BY <2>4, <2>5
      <3> QED
        BY <2>4, <3>1
    <2>6. CASE x < left /\ left - x < l
      <3>1. Taken(list, i, left) = left - x /\ C(i) = x /\ C(i - 1) = left
        BY <2>4, <2>6
      <3> QED
        BY <2>4, <2>6, <3>1
    <2>7. CASE x < left /\ ~(left - x < l)
      <3>1. Taken(list, i, left) = l /\ C(i) = x /\ C(i - 1) = y
        <4>1. y <= left /\ Taken(list, i, left) = l /\ C(i) = x
          BY <2>4, <2>7
        <4>2. y < left => C(i - 1) = y
          BY <2>4
        <4>3. ~(y < left) => C(i - 1) = left
          BY <2>4
        <4>4. y \in Nat /\ left \in Nat
          BY <2>4
        <4>5. y < left \/ y = left
          BY ONLY <4>1, <4>4
        <4> QED
          BY ONLY <4>1, <4>2, <4>3, <4>4, <4>5
      <3> QED
        BY <2>4, <2>7, <3>1
    <2> QED
      BY <2>4, <2>5, <2>6, <2>7
  <1>6. \A i \in 0..n : C(i) \in 0..left /\ C(i) <= B(i)
    BY <1>1, <1>2
  <1>7. \A i \in 1..n : f[i] = (C(i - 1) - C(i)) * e(i) /\ f[i] \in Int
    <2> TAKE i \in 1..n
    <2>1. f[i] = Taken(list, i, left) * e(i)
      BY <1>1
    <2>2. i \in 0..n /\ i - 1 \in 0..n
      BY <1>1
    <2>3. C(i - 1) \in Int /\ C(i) \in Int /\ e(i) \in Int
      BY <1>3, <1>6, <2>2
    <2> HIDE DEF f, C, e
    <2> QED
      BY <1>5, <2>1, <2>3
  <1> HIDE DEF B, C, e, f
  <1>8. \A i \in 1..n : V(C(i - 1)) = V(C(i)) + f[i]
    <2> TAKE i \in 1..n
    <2> DEFINE a == C(i)
               b == C(i - 1)
               S == 1..a
               R == (a + 1)..b
    <2>1. a \in Nat /\ b \in Nat /\ a <= b /\ b <= left /\ a <= B(i) /\ b <= B(i - 1) /\ e(i) \in Int
      <3>1. i \in 0..n /\ i - 1 \in 0..n
        BY <1>1
      <3> QED
        BY <1>1, <1>3, <1>5, <1>6, <3>1
    <2>2. a < b => a = B(i)
      BY <1>1, <1>2, <2>1 DEF C
    <2>3. f[i] = (b - a) * e(i)
      BY <1>7
    <2> HIDE DEF a, b
    <2>4. S \cap R = {} /\ S \cup R = 1..b /\ IsFiniteSet(S) /\ IsFiniteSet(R)
      <3>1. IsFiniteSet(S) /\ IsFiniteSet(R)
        BY <2>1, FS_Interval
      <3>2. S \cap R = {} /\ S \cup R = 1..b
        BY <2>1
      <3> QED
        BY <3>1, <3>2
    <2>5. \A k \in S \cup R : v[k] \in Int
      BY <1>1, <2>1, <2>4
    <2>6. \A k \in R : v[k] = e(i)
      <3> TAKE k \in R
      <3>1. a = B(i) /\ k \in (B(i) + 1)..B(i - 1) /\ k <= left
        <4>1. B(i) \in Nat /\ B(i - 1) \in Nat
          <5>1. i \in 0..n /\ i - 1 \in 0..n
            BY <1>1
          <5> QED
            BY <1>2, <5>1
        <4> QED
          BY <1>1, <2>1, <2>2, <4>1
      <3> QED
        BY <1>4, <3>1
    <2>7. SumFunctionOnSet(v, S \cup R) = SumFunctionOnSet(v, S) + SumFunctionOnSet(v, R)
      <3> HIDE DEF S, R
      <3> QED
        BY <2>4, <2>5, SumOfUnion
    <2>8. SumFunctionOnSet(v, R) = (b - a) * e(i)
      <3> DEFINE w == [k \in 1..(b - a) |-> e(i)]
                 h == [k \in 1..(b - a) |-> a + k]
      <3>1. h \in Bijection(1..(b - a), R)
        <4>1. h \in [1..(b - a) -> R]
          BY <2>1
        <4>2. \A k, l \in 1..(b - a) : h[k] = h[l] => k = l
          BY <2>1
        <4>3. \A r \in R : \E k \in 1..(b - a) : h[k] = r
          <5> TAKE r \in R
          <5>1. r - a \in 1..(b - a) /\ h[r - a] = r
            BY <2>1
          <5> QED
            BY <5>1
        <4> HIDE DEF h, R
        <4> QED
          BY <4>1, <4>2, <4>3 DEF Bijection, Injection, Surjection, IsInjective
      <3>2. \A k \in 1..(b - a) : w[k] = v[h[k]]
        <4> TAKE k \in 1..(b - a)
        <4>1. h[k] \in R
          BY <2>1
        <4> QED
          BY <2>6, <4>1
      <3>3. \A r \in R : v[r] \in Int
        BY <2>1, <2>6
      <3>4. IsFiniteSet(1..(b - a)) /\ b - a \in Nat
        BY <2>1, FS_Interval
      <3>5. \A k \in 1..(b - a) : w[k] = e(i)
        OBVIOUS
      <3> HIDE DEF h, w, R
      <3>6. SumFunctionOnSet(w, 1..(b - a)) = SumFunctionOnSet(v, R)
        BY <3>1, <3>2, <3>3, <3>4, SumReindex
      <3>7. SumFunctionOnSet(w, 1..(b - a)) = (b - a) * e(i)
        BY <2>1, <3>4, <3>5, SumOfConstant
      <3> QED
        BY <3>6, <3>7
    <2>9. V(b) = V(a) + (b - a) * e(i)
      BY <2>4, <2>7, <2>8
    <2> QED
      BY <2>3, <2>9 DEF a, b
  <1>9. \A i \in 1..n : F(i - 1) = f[i] + F(i)
    <2> TAKE i \in 1..n
    <2> DEFINE R == i..n
    <2>1. R \ {i} = (i + 1)..n /\ i \in R /\ R \subseteq 1..n /\ (i - 1) + 1 = i
      BY <1>1
    <2>2. IsFiniteSet(R)
      BY <1>1, FS_Interval
    <2>3. \A k \in R : f[k] \in Int
      BY <1>7, <2>1
    <2> HIDE DEF R
    <2>4. SumFunctionOnSet(f, R) = f[i] + SumFunctionOnSet(f, R \ {i})
      BY <2>1, <2>2, <2>3, SumTakeOut
    <2> QED
      BY <2>1, <2>4 DEF R
  <1> DEFINE P == {j \in 0..n : F(n - j) = V(C(n - j)) /\ V(C(n - j)) \in Int}
  <1>10. 0 \in P
    <2>1. n - 0 = n /\ (n + 1)..n = {} /\ 1..0 = {}
      BY <1>1
    <2>2. C(n) = 0
      BY <1>1, <1>2 DEF C
    <2>3. F(n) = 0 /\ V(0) = 0
      BY <2>1, SumOfNone
    <2> QED
      BY <1>1, <2>1, <2>2, <2>3
  <1>11. ASSUME NEW j \in 0..(n - 1), j \in P PROVE j + 1 \in P
    <2> DEFINE i == n - j
    <2>1. i \in 1..n /\ n - (j + 1) = i - 1 /\ j + 1 \in 0..n
      BY <1>1
    <2>2. F(i) = V(C(i)) /\ V(C(i)) \in Int
      BY <1>11
    <2> HIDE DEF i
    <2>3. F(i - 1) = f[i] + F(i) /\ V(C(i - 1)) = V(C(i)) + f[i] /\ f[i] \in Int
      BY <1>7, <1>8, <1>9, <2>1
    <2> HIDE DEF F, V
    <2>4. F(i - 1) = V(C(i - 1)) /\ V(C(i - 1)) \in Int
      BY <2>2, <2>3
    <2> QED
      BY <2>1, <2>4
  <1> HIDE DEF P
  <1>12. n \in P
    <2>1. \A j \in 0..n : j \in P
      BY <1>1, <1>10, <1>11, CountUp
    <2> QED
      BY <1>1, <2>1
  <1>13. F(0) = V(C(0))
    BY <1>1, <1>12 DEF P
  <1>14. C(0) = left
    BY <1>1, <1>2 DEF C
  <1>15. DOMAIN f = (0 + 1)..n
    BY <1>1 DEF f
  <1>16. Earning(s, list, left, price) = SumFunctionOnSet(f, DOMAIN f)
    BY DEF Earning, f, SumFunction
  <1> QED
    BY <1>13, <1>14, <1>15, <1>16

(* An entry put in front has the whole list behind it.                     *)
LEMMA ConsBehind ==
    ASSUME NEW list \in Seq(Entries), NEW e \in Entries
    PROVE  /\ Len(<<e>> \o list) = Len(list) + 1 /\ (<<e>> \o list)[1] = e
           /\ \A i \in 1..Len(list) : (<<e>> \o list)[i + 1] = list[i]
           /\ Behind(<<e>> \o list, 0) = e.lots + Lots(list)
           /\ \A i \in 0..Len(list) : Behind(<<e>> \o list, i + 1) = Behind(list, i)
  <1> DEFINE new == <<e>> \o list
  <1>1. new \in Seq(Entries) /\ Lots(new) = e.lots + Lots(list)
    BY ConsLots
  <1>2. /\ Len(new) = Len(list) + 1 /\ new[1] = e /\ \A i \in 1..Len(list) : new[i + 1] = list[i]
    OBVIOUS
  <1>3. ASSUME NEW i \in 0..Len(list) PROVE Behind(new, i + 1) = Behind(list, i)
    <2>1. SubSeq(new, (i + 1) + 1, Len(new)) = SubSeq(list, i + 1, Len(list))
      <3> DEFINE t == SubSeq(new, (i + 1) + 1, Len(new))
                 u == SubSeq(list, i + 1, Len(list))
      <3>1. /\ u \in Seq(Entries) /\ Len(u) = Len(list) - i
            /\ \A k \in 1..Len(u) : u[k] = list[k + i]
        OBVIOUS
      <3> HIDE DEF new
      <3>2. /\ t \in Seq(Entries) /\ Len(t) = Len(list) - i
            /\ \A k \in 1..Len(t) : t[k] = new[k + i + 1]
        BY <1>1, <1>2
      <3> HIDE DEF t, u
      <3>3. ASSUME NEW k \in 1..Len(t) PROVE t[k] = u[k]
        <4>1. k + i \in 1..Len(list) /\ t[k] = new[k + i + 1] /\ u[k] = list[k + i]
          BY <3>1, <3>2
        <4> QED
          BY <1>2, <4>1
      <3>4. t = u
        BY <3>1, <3>2, <3>3, SeqEqual
      <3> QED
        BY <3>4 DEF t, u
    <2> QED
      BY <2>1 DEF Behind
  <1>4. Behind(new, 0) = Lots(new)
    BY <1>1, BehindStep
  <1> QED
    BY <1>1, <1>2, <1>3, <1>4

(* What the log says of the lots is not less than nothing.                 *)
Sane(l) == \A s \in Sides : \A n \in 0..Len(l) :
              NewAfter(l, s, n) >= 0 /\ NewAfter(l, s, n) <= OpenedAfter(l, s, n)

(* No trade lessens what was opened.                                       *)
LEMMA OpenedRises ==
    ASSUME NEW l \in Seq(Trades), NEW s \in Sides, NEW n \in 0..Len(l), NEW m \in 0..n
    PROVE  /\ OpenedAfter(l, s, m) \in Int /\ OpenedAfter(l, s, n) \in Int
           /\ 0 <= OpenedAfter(l, s, m) /\ OpenedAfter(l, s, m) <= OpenedAfter(l, s, n)
  <1> DEFINE A(i) == OpenedAfter(l, s, i)
             P == {i \in 0..Len(l) : 0 <= A(i) /\ \A k \in 0..i : A(k) <= A(i)}
  <1>1. \A i \in 0..Len(l) : A(i) \in Int
    BY AfterInt
  <1>2. \A i \in 0..(Len(l) - 1) : \E x \in Nat : A(i + 1) = A(i) + x
    <2> TAKE i \in 0..(Len(l) - 1)
    <2>1. i \in Nat /\ i + 1 <= Len(l) /\ i + 1 \in 1..Len(l)
      OBVIOUS
    <2>2. A(i + 1) = A(i) + OpenPart(s, l[i + 1])
      BY <2>1, AfterNext
    <2>3. l[i + 1] \in Trades
      BY <2>1
    <2>4. OpenPart(s, l[i + 1]) \in Nat
      BY <2>3, PartsTyped
    <2> QED
      BY <2>2, <2>4
  <1>3. A(0) = 0
    BY AfterNone
  <1> HIDE DEF A
  <1>4. 0 \in P
    BY <1>1, <1>3
  <1>5. ASSUME NEW i \in 0..(Len(l) - 1), i \in P PROVE i + 1 \in P
    <2>1. PICK x \in Nat : A(i + 1) = A(i) + x
      BY <1>2
    <2>2. i \in 0..Len(l) /\ i + 1 \in 0..Len(l) /\ A(i) \in Int /\ A(i + 1) \in Int
      BY <1>1
    <2>3. \A k \in 0..(i + 1) : A(k) <= A(i + 1)
      <3> TAKE k \in 0..(i + 1)
      <3>1. CASE k = i + 1
        BY <2>2, <3>1
      <3>2. CASE k # i + 1
        <4>1. k \in 0..i /\ A(k) \in Int
          BY <1>1, <3>2
        <4>2. A(k) <= A(i)
          BY <1>5, <4>1
        <4> QED
          BY <2>1, <2>2, <4>1, <4>2
      <3> QED
        BY <3>1, <3>2
    <2> QED
      BY <1>5, <2>1, <2>2, <2>3
  <1> HIDE DEF P
  <1>6. n \in P /\ m \in P
    <2>1. \A i \in 0..Len(l) : i \in P
      <3>1. Len(l) \in Nat
        OBVIOUS
      <3> QED
        BY <1>4, <1>5, <3>1, CountUp
    <2> QED
      BY <2>1
  <1>7. 0 <= A(m) /\ A(m) <= A(n) /\ A(m) \in Int /\ A(n) \in Int
    BY <1>1, <1>6 DEF P
  <1> QED
    BY <1>7 DEF A

(* Each lot that was opened came from one trade.                           *)
LEMMA LotFound ==
    ASSUME NEW l \in Seq(Trades), NEW s \in Sides, NEW n \in 0..Len(l),
           NEW q \in 1..OpenedAfter(l, s, n)
    PROVE  \E j \in 1..n : FromTrade(l, s, q, j)
  <1> DEFINE A(i) == OpenedAfter(l, s, i)
             T == {i \in 0..n : q <= A(i)}
  <1>1. \A i \in 0..n : A(i) \in Int
    BY AfterInt
  <1>2. T \subseteq Nat /\ n \in T /\ A(0) = 0 /\ q \in Nat /\ q > 0
    BY <1>1, AfterNone
  <1> HIDE DEF A
  <1>3. PICK j \in T : \A i \in T : j <= i
    <2> HIDE DEF T
    <2> QED
      BY <1>2, LeastNumber
  <1>4. j \in 1..n /\ q <= A(j)
    BY <1>2, <1>3
  <1>5. j - 1 \in 0..n /\ j - 1 \notin T
    BY <1>3, <1>4
  <1>6. A(j - 1) < q
    BY <1>1, <1>2, <1>5
  <1> QED
    BY <1>4, <1>6 DEF FromTrade, A

(* Each lot that was opened came from one trade only.                       *)
LEMMA LotOnce ==
    ASSUME NEW l \in Seq(Trades), NEW s \in Sides, NEW q \in Int,
           NEW j \in 1..Len(l), FromTrade(l, s, q, j), NEW k \in 1..Len(l), FromTrade(l, s, q, k)
    PROVE  j = k
  <1> DEFINE A(i) == OpenedAfter(l, s, i)
  <1>1. A(j - 1) < q /\ q <= A(j) /\ A(k - 1) < q /\ q <= A(k)
    BY DEF FromTrade
  <1>2. \A i \in 0..Len(l) : A(i) \in Int
    BY AfterInt
  <1>3. ASSUME j < k PROVE FALSE
    <2>1. k - 1 \in 0..Len(l) /\ j \in 0..(k - 1)
      BY <1>3
    <2>2. A(j) <= A(k - 1) /\ A(j) \in Int /\ A(k - 1) \in Int
      BY <2>1, OpenedRises
    <2> HIDE DEF A
    <2> QED
      BY <1>1, <2>2
  <1>4. ASSUME k < j PROVE FALSE
    <2>1. j - 1 \in 0..Len(l) /\ k \in 0..(j - 1)
      BY <1>4
    <2>2. A(k) <= A(j - 1) /\ A(k) \in Int /\ A(j - 1) \in Int
      BY <2>1, OpenedRises
    <2> HIDE DEF A
    <2> QED
      BY <1>1, <2>2
  <1> QED
    BY <1>3, <1>4

(* Its price is that of the trade.                                         *)
LEMMA PriceIs ==
    ASSUME NEW l \in Seq(Trades), NEW s \in Sides, NEW q \in Int,
           NEW j \in 1..Len(l), FromTrade(l, s, q, j)
    PROVE  PriceAt(l, s, q) = l[j].price /\ PriceAt(l, s, q) \in Nat
  <1> DEFINE c == CHOOSE i \in 1..Len(l) : FromTrade(l, s, q, i)
  <1>1. c \in 1..Len(l) /\ FromTrade(l, s, q, c)
    OBVIOUS
  <1>2. PriceAt(l, s, q) = l[c].price
    BY DEF PriceAt
  <1> HIDE DEF c
  <1>3. c = j
    BY <1>1, LotOnce
  <1>4. l[j] \in Trades
    OBVIOUS
  <1>5. l[j].price \in Nat
    BY <1>4 DEF Trades
  <1> QED
    BY <1>2, <1>3, <1>5

(* The price of a lot that was opened is a number.                          *)
LEMMA PriceNat ==
    ASSUME NEW l \in Seq(Trades), NEW s \in Sides, NEW n \in 0..Len(l),
           NEW q \in 1..OpenedAfter(l, s, n)
    PROVE  PriceAt(l, s, q) \in Nat
  <1>1. PICK j \in 1..n : FromTrade(l, s, q, j)
    BY LotFound
  <1>2. j \in 1..Len(l) /\ q \in Int
    OBVIOUS
  <1> QED
    BY <1>1, <1>2, PriceIs

(* A longer log says the same of the trades that were there.               *)
Longer(k, l) == Len(l) <= Len(k) /\ \A i \in 1..Len(l) : k[i] = l[i]

(* The lots held, opened and closed after n trades are the same in a longer log. *)
LEMMA LongerAfter ==
    ASSUME NEW l \in Seq(Trades), NEW k \in Seq(Trades), Longer(k, l), NEW s \in Sides,
           NEW n \in 0..Len(l)
    PROVE  /\ OldAfter(k, s, n) = OldAfter(l, s, n) /\ NewAfter(k, s, n) = NewAfter(l, s, n)
           /\ OpenedAfter(k, s, n) = OpenedAfter(l, s, n) /\ n \in 0..Len(k)
           /\ ClosedAfter(k, s, n) = ClosedAfter(l, s, n)
  <1>1. n \in Nat /\ n \in 0..Len(k) /\ \A i \in 1..n : k[i] = l[i]
    BY DEF Longer
  <1>2. /\ OldAfter(k, s, n) = OldAfter(l, s, n) /\ NewAfter(k, s, n) = NewAfter(l, s, n)
        /\ OpenedAfter(k, s, n) = OpenedAfter(l, s, n)
    BY <1>1, AfterKept
  <1> QED
    BY <1>1, <1>2 DEF ClosedAfter

(* A lot keeps its price when the log grows.                                *)
LEMMA PriceKept ==
    ASSUME NEW l \in Seq(Trades), NEW k \in Seq(Trades), Longer(k, l), NEW s \in Sides,
           NEW n \in 0..Len(l), NEW q \in 1..OpenedAfter(l, s, n)
    PROVE  PriceAt(k, s, q) = PriceAt(l, s, q)
  <1>1. PICK j \in 1..n : FromTrade(l, s, q, j)
    BY LotFound
  <1>2. j \in 1..Len(l) /\ j \in 1..Len(k) /\ q \in Int /\ j - 1 \in 0..Len(l) /\ j \in 0..Len(l)
    BY DEF Longer
  <1>3. FromTrade(k, s, q, j)
    BY <1>1, <1>2, LongerAfter DEF FromTrade
  <1>4. k[j] = l[j]
    BY <1>2 DEF Longer
  <1> QED
    BY <1>1, <1>2, <1>3, <1>4, PriceIs

(* The fields of a trade.                                                  *)
LEMMA TradeTyped ==
    ASSUME NEW m \in Trades
    PROVE  /\ HeldSide(m) \in Sides /\ m.side \in Sides /\ m.effect \in Effects
           /\ m.lots \in Nat /\ m.lots \in Int /\ 1 \in Int /\ m.price \in Nat
           /\ IsFiniteSet(1..m.lots)
  <1>1. "BUY" \in Sides
    BY DEF Sides
  <1>2. /\ HeldSide(m) \in Sides /\ m.side \in Sides /\ m.effect \in Effects
        /\ m.lots \in Nat /\ m.price \in Nat
    BY <1>1, PartsTyped
  <1>3. m.lots \in Int /\ 1 \in Int
    BY <1>2
  <1>4. IsFiniteSet(1..m.lots)
    BY <1>3, FS_Interval
  <1> QED
    BY <1>2, <1>3, <1>4

(* What a trade of a sane log earned, as a number.                         *)
LEMMA ClosedOf ==
    ASSUME NEW l \in Seq(Trades), Sane(l), NEW s \in Sides, NEW n \in 0..Len(l)
    PROVE  /\ ClosedAfter(l, s, n) \in Nat /\ NewAfter(l, s, n) \in Nat
           /\ OpenedAfter(l, s, n) = NewAfter(l, s, n) + ClosedAfter(l, s, n)
  <1>1. NewAfter(l, s, n) \in Int /\ OpenedAfter(l, s, n) \in Int
    BY AfterInt
  <1>2. NewAfter(l, s, n) >= 0 /\ NewAfter(l, s, n) <= OpenedAfter(l, s, n)
    BY DEF Sane
  <1> QED
    BY <1>1, <1>2 DEF ClosedAfter

(* The lots a trade closes were opened before it.                          *)
LEMMA ClosedLotsOpened ==
    ASSUME NEW l \in Seq(Trades), Sane(l), NEW i \in 1..Len(l), l[i].effect = "CLOSE_TODAY",
           NEW k \in 1..l[i].lots
    PROVE  LET s == HeldSide(l[i])
           IN  /\ s \in Sides /\ i - 1 \in 0..Len(l) /\ l[i].lots <= NewAfter(l, s, i - 1)
               /\ k + ClosedAfter(l, s, i - 1) \in 1..OpenedAfter(l, s, i - 1)
               /\ ClosedAfter(l, s, i) = ClosedAfter(l, s, i - 1) + l[i].lots
  <1> DEFINE s == HeldSide(l[i])
             lots == l[i].lots
             N(n) == NewAfter(l, s, n)
             A(n) == OpenedAfter(l, s, n)
             C(n) == ClosedAfter(l, s, n)
  <1>1. l[i] \in Trades
    OBVIOUS
  <1>2. s \in Sides /\ lots \in Nat /\ l[i].side \in Sides
    BY <1>1, TradeTyped
  <1>3. NewPart(s, l[i]) = -lots /\ OpenPart(s, l[i]) = 0
    BY DEF NewPart, OpenPart
  <1> HIDE DEF s
  <1>4. i - 1 \in Nat /\ (i - 1) + 1 = i /\ i <= Len(l) /\ i - 1 \in 0..Len(l) /\ i \in 0..Len(l)
    OBVIOUS
  <1>5. N(i) = N(i - 1) + NewPart(s, l[i]) /\ A(i) = A(i - 1) + OpenPart(s, l[i])
    <2>1. /\ N((i - 1) + 1) = N(i - 1) + NewPart(s, l[(i - 1) + 1])
          /\ A((i - 1) + 1) = A(i - 1) + OpenPart(s, l[(i - 1) + 1])
      BY <1>2, <1>4, AfterNext
    <2> QED
      BY <1>4, <2>1
  <1>6. /\ C(i - 1) \in Nat /\ N(i - 1) \in Nat /\ A(i - 1) = N(i - 1) + C(i - 1)
        /\ C(i) \in Nat /\ N(i) \in Nat /\ A(i) = N(i) + C(i)
    BY <1>2, <1>4, ClosedOf
  <1>8. k \in 1..lots
    OBVIOUS
  <1> HIDE DEF N, A, C, lots
  <1>7. lots <= N(i - 1) /\ k + C(i - 1) \in 1..A(i - 1) /\ C(i) = C(i - 1) + lots
    <2>1. N(i) = N(i - 1) - lots /\ A(i) = A(i - 1)
      <3>1. A(i - 1) + 0 = A(i - 1) /\ N(i - 1) + (-lots) = N(i - 1) - lots
        BY <1>2, <1>6
      <3> QED
        BY <1>3, <1>5, <3>1
    <2>2. N(i - 1) + C(i - 1) = N(i) + C(i) /\ A(i - 1) = N(i - 1) + C(i - 1)
      BY <1>6, <2>1
    <2>3. PICK x \in Nat, y \in Nat, n \in Nat, c \in Nat, d \in Nat :
             x = N(i - 1) /\ y = N(i) /\ n = lots /\ c = C(i - 1) /\ d = C(i)
      BY <1>2, <1>6
    <2>4. k \in 1..n /\ y = x - n /\ x + c = y + d /\ A(i - 1) = x + c
      BY <1>8, <2>1, <2>2, <2>3
    <2>5. n <= x /\ k + c \in 1..(x + c) /\ d = c + n
      BY ONLY x \in Nat, y \in Nat, n \in Nat, c \in Nat, d \in Nat, <2>4
    <2> QED
      BY <2>3, <2>4, <2>5
  <1> QED
    BY <1>2, <1>4, <1>7 DEF s, N, A, C, lots

(* What a trade of the exchange earns is a number.                          *)
LEMMA EarnedInt ==
    ASSUME NEW l \in Seq(Trades), Sane(l), NEW i \in 1..Len(l)
    PROVE  EarnedBy(l, i) \in Int
  <1>1. l[i] \in Trades
    OBVIOUS
  <1>2. /\ l[i].effect \in Effects /\ l[i].lots \in Nat /\ l[i].price \in Nat
        /\ HeldSide(l[i]) \in Sides /\ PreSettlement \in Nat
    BY <1>1, TradeTyped, ConstAssumption
  <1>3. CASE l[i].effect = "OPEN"
    BY <1>3 DEF EarnedBy
  <1>4. CASE l[i].effect = "CLOSE"
    <2>1. EarnedBy(l, i) = l[i].lots * Earned(HeldSide(l[i]), PreSettlement, l[i].price)
      BY <1>4 DEF EarnedBy
    <2>2. Earned(HeldSide(l[i]), PreSettlement, l[i].price) \in Int
      BY <1>2 DEF Earned
    <2> QED
      BY <1>2, <2>1, <2>2
  <1>5. CASE l[i].effect = "CLOSE_TODAY"
    <2> DEFINE s == HeldSide(l[i])
               c == ClosedAfter(l, s, i - 1)
               f == [k \in 1..l[i].lots |-> EarnedAt(l, s, c, k, l[i].price)]
    <2>1. EarnedBy(l, i) = SumFunctionOnSet(f, 1..l[i].lots)
      BY <1>5 DEF EarnedBy, TodayEarned
    <2>2. ASSUME NEW k \in 1..l[i].lots PROVE f[k] \in Int
      <3>1. PriceAt(l, s, k + c) \in Nat
        BY <1>5, ClosedLotsOpened, PriceNat
      <3> QED
        BY <1>2, <3>1 DEF EarnedAt, Earned
    <2>3. IsFiniteSet(1..l[i].lots)
      BY <1>1, TradeTyped
    <2> HIDE DEF f
    <2> QED
      BY <2>1, <2>2, <2>3, SumIsInt
  <1> QED
    BY <1>2, <1>3, <1>4, <1>5 DEF Effects

(* What a trade has earned stays when the log grows.                        *)
LEMMA EarnedKept ==
    ASSUME NEW l \in Seq(Trades), Sane(l), NEW k \in Seq(Trades), Longer(k, l),
           NEW i \in 1..Len(l)
    PROVE  EarnedBy(k, i) = EarnedBy(l, i)
  <1>1. k[i] = l[i] /\ l[i] \in Trades
    BY DEF Longer
  <1>2. l[i].effect \in Effects /\ l[i].lots \in Nat /\ HeldSide(l[i]) \in Sides
    BY <1>1, TradeTyped
  <1>3. CASE l[i].effect # "CLOSE_TODAY"
    BY <1>1, <1>2, <1>3 DEF EarnedBy, Effects
  <1>4. CASE l[i].effect = "CLOSE_TODAY"
    <2> DEFINE s == HeldSide(l[i])
               c == ClosedAfter(l, s, i - 1)
               n == l[i].lots
               f == [j \in 1..n |-> EarnedAt(l, s, c, j, l[i].price)]
               g == [j \in 1..n |-> EarnedAt(k, s, c, j, l[i].price)]
    <2>1. ClosedAfter(k, s, i - 1) = c
      BY <1>2, LongerAfter
    <2>2. EarnedBy(l, i) = SumFunctionOnSet(f, 1..n) /\ EarnedBy(k, i) = SumFunctionOnSet(g, 1..n)
      BY <1>1, <1>4, <2>1 DEF EarnedBy, TodayEarned
    <2>3. ASSUME NEW j \in 1..n PROVE f[j] = g[j]
      <3>1. PriceAt(k, s, j + c) = PriceAt(l, s, j + c)
        BY <1>4, ClosedLotsOpened, PriceKept
      <3> QED
        BY <3>1 DEF EarnedAt
    <2>4. IsFiniteSet(1..n)
      BY <1>1, TradeTyped
    <2> HIDE DEF f, g
    <2> QED
      BY <2>2, <2>3, <2>4, SameSum
  <1> QED
    BY <1>3, <1>4

(* What n trades and one more have earned.                                 *)
LEMMA EarnedNext ==
    ASSUME NEW l \in Seq(Trades), Sane(l), NEW n \in Nat, n + 1 <= Len(l)
    PROVE  EarnedAfter(l, n + 1) = EarnedAfter(l, n) + EarnedBy(l, n + 1)
  <1> DEFINE f == [i \in 1..(n + 1) |-> EarnedBy(l, i)]
             g == [i \in 1..n |-> EarnedBy(l, i)]
  <1>1. \A i \in 1..(n + 1) : f[i] \in Int
    <2> TAKE i \in 1..(n + 1)
    <2>1. i \in 1..Len(l)
      OBVIOUS
    <2> QED
      BY <2>1, EarnedInt
  <1>2. IsFiniteSet(1..n)
    <2>1. 1 \in Int /\ n \in Int
      OBVIOUS
    <2> QED
      BY <2>1, FS_Interval
  <1>3. \A i \in 1..n : f[i] = g[i]
    OBVIOUS
  <1>4. f[n + 1] = EarnedBy(l, n + 1)
    OBVIOUS
  <1> HIDE DEF f, g
  <1>5. SumFunctionOnSet(f, 1..(n + 1)) = SumFunctionOnSet(f, 1..n) + f[n + 1]
    BY <1>1, SumOfNext
  <1>6. SumFunctionOnSet(f, 1..n) = SumFunctionOnSet(g, 1..n)
    BY <1>2, <1>3, SameSum
  <1> QED
    BY <1>4, <1>5, <1>6 DEF EarnedAfter, f, g

(* The earnings of the first n trades stay when the log grows.              *)
LEMMA EarnedAfterKept ==
    ASSUME NEW l \in Seq(Trades), Sane(l), NEW k \in Seq(Trades), Longer(k, l),
           NEW n \in 0..Len(l)
    PROVE  EarnedAfter(k, n) = EarnedAfter(l, n) /\ EarnedAfter(l, n) \in Int
  <1> DEFINE f == [i \in 1..n |-> EarnedBy(l, i)]
             g == [i \in 1..n |-> EarnedBy(k, i)]
  <1>1. \A i \in 1..n : f[i] = g[i] /\ f[i] \in Int
    <2> TAKE i \in 1..n
    <2>1. i \in 1..Len(l)
      OBVIOUS
    <2> QED
      BY <2>1, EarnedKept, EarnedInt
  <1>2. IsFiniteSet(1..n)
    <2>1. 1 \in Int /\ n \in Int
      OBVIOUS
    <2> QED
      BY <2>1, FS_Interval
  <1> HIDE DEF f, g
  <1>3. SumFunctionOnSet(f, 1..n) = SumFunctionOnSet(g, 1..n) /\ SumFunctionOnSet(f, 1..n) \in Int
    BY <1>1, <1>2, SameSum, SumIsInt
  <1> QED
    BY <1>3 DEF EarnedAfter, f, g

(* The log of the exchange is sane.                                        *)
LEMMA LogSane == ASSUME LogRight PROVE Sane(log)
  BY DEF LogRight, Sane

(* The lots of a side opened this day that a trade closes.                 *)
ClosedPart(s, m) == IF m.effect = "CLOSE_TODAY" /\ HeldSide(m) = s THEN m.lots ELSE 0

(* The trades after n and one more.                                        *)
LEMMA ClosedNext ==
    ASSUME NEW l \in Seq(Trades), NEW s \in Sides, NEW n \in Nat, n + 1 <= Len(l)
    PROVE  /\ ClosedAfter(l, s, n + 1) = ClosedAfter(l, s, n) + ClosedPart(s, l[n + 1])
           /\ ClosedPart(s, l[n + 1]) \in Nat /\ ClosedAfter(l, s, n) \in Int
  <1>1. n \in 0..Len(l) /\ n + 1 \in 1..Len(l) /\ l[n + 1] \in Trades
    BY ElementOfSeq
  <1>2. /\ NewAfter(l, s, n + 1) = NewAfter(l, s, n) + NewPart(s, l[n + 1])
        /\ OpenedAfter(l, s, n + 1) = OpenedAfter(l, s, n) + OpenPart(s, l[n + 1])
    BY AfterNext
  <1>3. NewAfter(l, s, n) \in Int /\ OpenedAfter(l, s, n) \in Int
    BY <1>1, AfterInt
  <1>4. /\ NewPart(s, l[n + 1]) \in Int /\ OpenPart(s, l[n + 1]) \in Int
        /\ l[n + 1].lots \in Nat
    BY <1>1, PartsTyped
  <1>5. ClosedPart(s, l[n + 1]) = OpenPart(s, l[n + 1]) - NewPart(s, l[n + 1])
    <2>1. CASE l[n + 1].effect = "CLOSE_TODAY"
      BY <1>4, <2>1 DEF ClosedPart, NewPart, OpenPart
    <2>2. CASE l[n + 1].effect # "CLOSE_TODAY"
      BY <1>4, <2>2 DEF ClosedPart, NewPart
    <2> QED
      BY <2>1, <2>2
  <1>6. ClosedPart(s, l[n + 1]) \in Nat
    BY <1>4 DEF ClosedPart
  <1> QED
    BY <1>2, <1>3, <1>4, <1>5, <1>6 DEF ClosedAfter

(* A lot an opening trade adds costs what the trade says.                  *)
LEMMA NewLotPrice ==
    ASSUME NEW l \in Seq(Trades), NEW s \in Sides, NEW n \in Nat, n + 1 <= Len(l),
           l[n + 1].effect = "OPEN", l[n + 1].side = s, NEW q \in Int,
           OpenedAfter(l, s, n) < q, q <= OpenedAfter(l, s, n) + l[n + 1].lots
    PROVE  PriceAt(l, s, q) = l[n + 1].price
  <1>1. n + 1 \in 1..Len(l) /\ (n + 1) - 1 = n
    OBVIOUS
  <1>2. OpenedAfter(l, s, n + 1) = OpenedAfter(l, s, n) + OpenPart(s, l[n + 1])
    BY AfterNext
  <1>3. OpenPart(s, l[n + 1]) = l[n + 1].lots
    BY DEF OpenPart
  <1>4. FromTrade(l, s, q, n + 1)
    BY <1>1, <1>2, <1>3 DEF FromTrade
  <1> QED
    BY <1>1, <1>4, PriceIs

(* The lots of an entry are lots of the list.                              *)
LEMMA LotOfList ==
    ASSUME NEW list \in Seq(Entries), NEW i \in DOMAIN list,
           NEW k \in (Behind(list, i) + 1)..Behind(list, i - 1)
    PROVE  i \in 1..Len(list) /\ k \in 1..Lots(list) /\ k \in Int /\ Lots(list) \in Nat
  <1>1. /\ i \in 1..Len(list) /\ i - 1 \in 0..Len(list) /\ i \in 0..Len(list) /\ 0 \in 0..Len(list)
        /\ i - 1 \in 0..Len(list)
    OBVIOUS
  <1>2. Behind(list, i) \in Nat /\ Behind(list, i - 1) \in Nat /\ Behind(list, 0) = Lots(list)
    BY <1>1, BehindStep
  <1>3. Behind(list, i - 1) <= Behind(list, 0) /\ Lots(list) \in Nat
    BY <1>1, BehindFalls, LotsNat
  <1>4. k \in 1..Lots(list)
    BY <1>2, <1>3
  <1> QED
    BY <1>1, <1>3, <1>4

(* Taking the oldest lots of a list.                                       *)
LEMMA RestFrom ==
    ASSUME NEW list \in Seq(Entries), NEW l, NEW s, NEW c \in Nat, ListFrom(list, l, s, c),
           NEW left \in 0..Lots(list)
    PROVE  ListFrom(Rest(list, left), l, s, c + left)
  <1> DEFINE r == Rest(list, left)
  <1>0. left \in Nat
    BY LotsNat
  <1>1. PICK n \in 0..Len(list) :
              /\ DOMAIN r = 1..n /\ \A i \in 1..n : r[i].price = list[i].price
              /\ \A i \in 0..(n - 1) : Behind(r, i) = Behind(list, i) - left
              /\ Behind(r, n) = 0 /\ Behind(list, n) <= left
    BY RestBehind
  <1> HIDE DEF r
  <1>2. ASSUME NEW i \in DOMAIN r, NEW k \in (Behind(r, i) + 1)..Behind(r, i - 1)
        PROVE  r[i].price = PriceAt(l, s, k + (c + left))
    <2>1. /\ i \in 1..n /\ i \in 1..Len(list) /\ i - 1 \in 0..(n - 1) /\ i \in DOMAIN list
          /\ i \in 0..Len(list) /\ i - 1 \in 0..Len(list)
      BY <1>1
    <2>2. Behind(list, i) \in Nat /\ Behind(list, i - 1) \in Nat
      BY <2>1, BehindStep
    <2>3. Behind(r, i - 1) = Behind(list, i - 1) - left
      BY <1>1, <2>1
    <2>4. Behind(r, i) >= Behind(list, i) - left /\ Behind(r, i) \in Int
      <3>1. CASE i = n
        BY <1>0, <1>1, <2>2, <3>1
      <3>2. CASE i # n
        BY <1>0, <1>1, <2>1, <2>2, <3>2
      <3> QED
        BY <3>1, <3>2
    <2>5. k + left \in (Behind(list, i) + 1)..Behind(list, i - 1) /\ k \in Int
      BY <1>0, <2>2, <2>3, <2>4
    <2>6. list[i].price = PriceAt(l, s, (k + left) + c)
      BY <2>1, <2>5 DEF ListFrom
    <2>7. (k + left) + c = k + (c + left)
      BY <1>0, <2>5
    <2> QED
      BY <1>1, <2>1, <2>6, <2>7
  <1> QED
    BY <1>2 DEF ListFrom, r

(* Adding the lots of an opening trade to a list of all that were open.    *)
LEMMA ConsFrom ==
    ASSUME NEW list \in Seq(Entries), NEW l \in Seq(Trades), NEW s \in Sides, NEW c \in Nat,
           ListFrom(list, l, s, c), NEW n \in Nat, n + 1 <= Len(l),
           l[n + 1].effect = "OPEN", l[n + 1].side = s,
           Lots(list) + c = OpenedAfter(l, s, n),
           NEW e \in Entries, e.price = l[n + 1].price, e.lots = l[n + 1].lots
    PROVE  ListFrom(<<e>> \o list, l, s, c)
  <1> DEFINE more == <<e>> \o list
  <1>1. /\ more \in Seq(Entries) /\ Len(more) = Len(list) + 1 /\ more[1] = e
        /\ \A i \in 1..Len(list) : more[i + 1] = list[i]
        /\ Behind(more, 0) = e.lots + Lots(list)
        /\ \A i \in 0..Len(list) : Behind(more, i + 1) = Behind(list, i)
    BY ConsLots, ConsBehind
  <1> HIDE DEF more
  <1>2. Lots(list) \in Nat /\ e.lots \in Nat /\ Len(list) \in Nat
    BY LotsNat DEF Entries
  <1>3. ASSUME NEW i \in DOMAIN more, NEW k \in (Behind(more, i) + 1)..Behind(more, i - 1)
        PROVE  more[i].price = PriceAt(l, s, k + c)
    <2>1. i \in 1..Len(more)
      BY <1>1
    <2>2. CASE i = 1
      <3>1. Behind(more, 1) = Lots(list)
        <4>1. 0 \in 0..Len(list) /\ 0 + 1 = 1 /\ Behind(list, 0) = Lots(list)
          BY <1>2, BehindStep
        <4> QED
          BY <1>1, <4>1
      <3>2. k \in (Lots(list) + 1)..(e.lots + Lots(list))
        BY <1>1, <2>2, <3>1
      <3>3. k + c \in Int /\ OpenedAfter(l, s, n) < k + c /\ k + c <= OpenedAfter(l, s, n) + l[n + 1].lots
        BY <1>2, <3>2
      <3> QED
        BY <1>1, <2>2, <3>3, NewLotPrice
    <2>3. CASE i # 1
      <3>1. PICK j \in 1..Len(list) : j = i - 1
        BY <1>1, <1>2, <2>1, <2>3
      <3>2. j \in 0..Len(list) /\ j - 1 \in 0..Len(list) /\ (j - 1) + 1 = j /\ i = j + 1 /\ i - 1 = j
        BY <2>1, <3>1
      <3>3. Behind(more, i) = Behind(list, j) /\ Behind(more, i - 1) = Behind(list, j - 1)
        BY <1>1, <3>2
      <3>4. j \in DOMAIN list /\ k \in (Behind(list, j) + 1)..Behind(list, j - 1)
        BY <3>3
      <3>5. list[j].price = PriceAt(l, s, k + c)
        BY <3>4 DEF ListFrom
      <3> QED
        BY <1>1, <3>2, <3>5
    <2> QED
      BY <2>2, <2>3
  <1> QED
    BY <1>3 DEF ListFrom, more

(* A list is right in a longer log too.                                    *)
LEMMA ListKept ==
    ASSUME NEW list \in Seq(Entries), NEW l \in Seq(Trades), NEW k \in Seq(Trades), Longer(k, l),
           NEW s \in Sides, NEW c \in Nat, NEW n \in 0..Len(l),
           Lots(list) + c <= OpenedAfter(l, s, n), ListFrom(list, l, s, c)
    PROVE  ListFrom(list, k, s, c)
  <1>1. ASSUME NEW i \in DOMAIN list, NEW q \in (Behind(list, i) + 1)..Behind(list, i - 1)
        PROVE  list[i].price = PriceAt(k, s, q + c)
    <2>1. q \in 1..Lots(list) /\ q \in Int /\ Lots(list) \in Nat
      BY LotOfList
    <2>2. OpenedAfter(l, s, n) \in Int
      BY AfterInt
    <2>3. q + c \in 1..OpenedAfter(l, s, n)
      BY <2>1, <2>2
    <2>4. PriceAt(k, s, q + c) = PriceAt(l, s, q + c)
      BY <2>3, PriceKept
    <2> QED
      BY <2>4 DEF ListFrom
  <1> QED
    BY <1>1 DEF ListFrom

(* What a trade does to the lots of a side: nothing, or it adds some at    *)
(* the end, or takes some at the front.                                    *)
Grown(now, then, m, s) ==
    \/ ClosedPart(s, m) = 0 /\ then = now
    \/ /\ m.effect = "OPEN" /\ m.side = s /\ Len(then) = Len(now) + m.lots
       /\ \A q \in 1..Len(then) : then[q] = IF q <= Len(now) THEN now[q] ELSE m.price
    \/ /\ m.effect = "CLOSE_TODAY" /\ HeldSide(m) = s
       /\ m.lots <= Len(now) /\ Len(then) = Len(now) - m.lots
       /\ \A q \in 1..Len(then) : then[q] = now[q + m.lots]

(* Two lists of prices, one after the other; a list without its front.     *)
LEMMA Joined ==
    ASSUME NEW a \in Seq(Nat), NEW b \in Seq(Nat)
    PROVE  /\ Len(a \o b) = Len(a) + Len(b)
           /\ \A q \in 1..(Len(a) + Len(b)) :
                (a \o b)[q] = IF q <= Len(a) THEN a[q] ELSE b[q - Len(a)]
  OBVIOUS

(* A list without its first k elements.                                     *)
LEMMA FrontCut ==
    ASSUME NEW a \in Seq(Nat), NEW k \in 0..Len(a)
    PROVE  /\ Len(SubSeq(a, k + 1, Len(a))) = Len(a) - k
           /\ \A q \in 1..(Len(a) - k) : SubSeq(a, k + 1, Len(a))[q] = a[q + k]
  <1>1. k \in Nat /\ Len(a) \in Nat /\ k <= Len(a)
    OBVIOUS
  <1>2. Len(SubSeq(a, k + 1, Len(a))) = Len(a) - k
    BY <1>1
  <1>3. ASSUME NEW q \in 1..(Len(a) - k) PROVE SubSeq(a, k + 1, Len(a))[q] = a[q + k]
    <2>1. (k + 1) + q - 1 = q + k
      BY <1>1
    <2> QED
      BY <1>1, <2>1
  <1> QED
    BY <1>2, <1>3

(* The prices are those of the lots opened last.                           *)
PricesAre(now, l, s) ==
    \A q \in 1..Len(now) : now[q] = PriceAt(l, s, q + ClosedAfter(l, s, Len(l)))

(* One trade more, and the prices of the lots of a side are still those of *)
(* the last opened ones.                                                   *)
LEMMA PricesGrow ==
    ASSUME NEW l \in Seq(Trades), Sane(l), NEW k \in Seq(Trades), Longer(k, l),
           NEW s \in Sides, NEW now \in Seq(Nat), NEW then \in Seq(Nat),
           Len(k) = Len(l) + 1, Len(now) = NewAfter(l, s, Len(l)),
           PricesAre(now, l, s), Grown(now, then, k[Len(k)], s)
    PROVE  PricesAre(then, k, s)
  <1>0. PICK n \in Nat : n = Len(l)
    OBVIOUS
  <1> DEFINE c == ClosedAfter(l, s, n)
             m == k[n + 1]
  <1>7. /\ Len(l) = n /\ Len(k) = n + 1 /\ Len(now) = NewAfter(l, s, n) /\ Grown(now, then, m, s)
        /\ \A q \in 1..Len(now) : now[q] = PriceAt(l, s, q + c)
    BY <1>0 DEF PricesAre
  <1>1. /\ n \in 0..Len(l) /\ n + 1 \in 1..Len(k) /\ m \in Trades /\ m.lots \in Nat
        /\ Len(now) \in Nat /\ Len(then) \in Nat /\ n \in 0..Len(k) /\ n + 1 <= Len(k)
    <2>1. n + 1 \in 1..Len(k)
      BY <1>7
    <2>2. m \in Trades
      BY <2>1, ElementOfSeq
    <2>3. m.lots \in Nat
      BY <2>2, TradeTyped
    <2> QED
      BY <1>7, <2>1, <2>2, <2>3
  <1>2. /\ c \in Nat /\ OpenedAfter(l, s, n) = Len(now) + c
        /\ ClosedAfter(k, s, n) = c /\ OpenedAfter(k, s, n) = OpenedAfter(l, s, n)
        /\ ClosedAfter(k, s, n + 1) = c + ClosedPart(s, m)
    <2>1. c \in Nat /\ OpenedAfter(l, s, n) = Len(now) + c
      BY <1>1, <1>7, ClosedOf
    <2>2. ClosedAfter(k, s, n) = c /\ OpenedAfter(k, s, n) = OpenedAfter(l, s, n)
      BY <1>1, LongerAfter
    <2>3. ClosedAfter(k, s, n + 1) = ClosedAfter(k, s, n) + ClosedPart(s, k[n + 1])
      BY <1>1, ClosedNext
    <2> QED
      BY <2>1, <2>2, <2>3
  <1>3. ASSUME NEW q \in 1..Len(now)
        PROVE  now[q] = PriceAt(k, s, q + c)
    <2>1. q + c \in 1..OpenedAfter(l, s, n)
      BY <1>1, <1>2
    <2>2. PriceAt(k, s, q + c) = PriceAt(l, s, q + c)
      BY <1>1, <2>1, PriceKept
    <2> QED
      BY <1>7, <2>2
  <1> HIDE DEF c, m
  <1>8. SUFFICES \A q \in 1..Len(then) : then[q] = PriceAt(k, s, q + ClosedAfter(k, s, n + 1))
    BY <1>7 DEF PricesAre
  <1>4. CASE ClosedPart(s, m) = 0 /\ then = now
    <2>1. ClosedAfter(k, s, n + 1) = c
      BY <1>2, <1>4
    <2> QED
      BY <1>3, <1>4, <2>1
  <1>5. CASE /\ m.effect = "OPEN" /\ m.side = s /\ Len(then) = Len(now) + m.lots
             /\ \A q \in 1..Len(then) : then[q] = IF q <= Len(now) THEN now[q] ELSE m.price
    <2>1. ClosedAfter(k, s, n + 1) = c
      BY <1>2, <1>5 DEF ClosedPart
    <2>2. ASSUME NEW q \in 1..Len(then) PROVE then[q] = PriceAt(k, s, q + c)
      <3>1. CASE q <= Len(now)
        <4>1. q \in 1..Len(now) /\ then[q] = now[q]
          BY <1>1, <1>5, <3>1
        <4> QED
          BY <1>3, <4>1
      <3>2. CASE ~ (q <= Len(now))
        <4>1. then[q] = m.price
          BY <1>5, <3>2
        <4>2. /\ q + c \in Int /\ OpenedAfter(k, s, n) < q + c
              /\ q + c <= OpenedAfter(k, s, n) + m.lots
          BY <1>1, <1>2, <1>5, <3>2
        <4>3. PriceAt(k, s, q + c) = m.price
          BY <1>1, <1>5, <4>2, NewLotPrice DEF m
        <4> QED
          BY <4>1, <4>3
      <3> QED
        BY <3>1, <3>2
    <2> QED
      BY <2>1, <2>2
  <1>6. CASE /\ m.effect = "CLOSE_TODAY" /\ HeldSide(m) = s
             /\ m.lots <= Len(now) /\ Len(then) = Len(now) - m.lots
             /\ \A q \in 1..Len(then) : then[q] = now[q + m.lots]
    <2>1. ClosedAfter(k, s, n + 1) = c + m.lots
      BY <1>2, <1>6 DEF ClosedPart
    <2>2. ASSUME NEW q \in 1..Len(then) PROVE then[q] = PriceAt(k, s, q + (c + m.lots))
      <3>1. q + m.lots \in 1..Len(now) /\ (q + m.lots) + c = q + (c + m.lots)
        <4>1. PICK x \in Nat, y \in Nat : x = m.lots /\ y = Len(now)
          BY <1>1
        <4>2. q \in 1..(y - x) /\ x \in Nat /\ y \in Nat /\ c \in Nat
          BY <1>2, <1>6, <4>1
        <4>3. q + x \in 1..y /\ (q + x) + c = q + (c + x)
          BY ONLY <4>2
        <4> QED
          BY <4>1, <4>3
      <3>2. now[q + m.lots] = PriceAt(k, s, (q + m.lots) + c)
        BY <1>3, <3>1
      <3> QED
        BY <1>6, <3>1, <3>2
    <2> QED
      BY <2>1, <2>2
  <1> QED
    BY <1>4, <1>5, <1>6, <1>7 DEF Grown

(* A trade of the exchange keeps what is said of its lots' prices and of   *)
(* its earnings.                                                           *)
LEMMA PricesStep ==
    ASSUME ExchangeShape, LogRight, PricesRight, NEW side \in Sides, NEW effect \in Effects,
           NEW lots \in 1..MaxLots, ExchangeTrade(side, effect, lots)
    PROVE  PricesRight' /\ Longer(log', log) /\ Sane(log)'
  <1>0. PICK n \in Nat : n = Len(log)
    BY DEF ExchangeShape
  <1> DEFINE price == PriceOf[n + 1]
             m == [id |-> n + 1, side |-> side, effect |-> effect, lots |-> lots, price |-> price]
             s == HeldSide(m)
             c == ClosedAfter(log, s, n)
  <1>1. /\ log \in Seq(Trades) /\ exToday \in [Sides -> Seq(Nat)] /\ exRealized \in Int
        /\ log' \in Seq(Trades) /\ exToday' \in [Sides -> Seq(Nat)]
        /\ Len(log') = n + 1 /\ \A i \in 1..n : log'[i] = log[i]
        /\ Sane(log) /\ Sane(log)' /\ lots \in Nat
    <2>1. /\ ExchangeShape' /\ LogRight' /\ Len(log') = Len(log) + 1
          /\ \A i \in 1..Len(log) : log'[i] = log[i]
      BY TradeStep
    <2>2. Sane(log) /\ Sane(log)'
      BY <2>1, LogSane, PTL DEF LogRight, Sane
    <2>3. lots \in Nat
      BY ConstAssumption
    <2> QED
      BY <1>0, <2>1, <2>2, <2>3 DEF ExchangeShape
  <1>2. Sane(log')
    BY <1>1 DEF Sane
  <1>3. Longer(log', log)
    BY <1>0, <1>1 DEF Longer
  <1>4. log' = Append(log, m)
    BY <1>0 DEF ExchangeTrade
  <1>5. m = log'[n + 1]
    BY <1>0, <1>1, <1>4
  <1>6. /\ m.effect = effect /\ m.lots = lots /\ m.side = side /\ m.price = price
        /\ m \in Trades /\ s \in Sides
    <2>1. m.effect = effect /\ m.lots = lots /\ m.side = side /\ m.price = price
      OBVIOUS
    <2> HIDE DEF m
    <2>2. n + 1 \in 1..Len(log')
      BY <1>1
    <2>3. m \in Trades
      BY <1>1, <1>5, <2>2, ElementOfSeq
    <2> QED
      BY <2>1, <2>3, TradeTyped
  <1>7. \/ /\ effect = "OPEN"
           /\ exToday' = [exToday EXCEPT ![s] = @ \o [i \in 1..lots |-> price]]
           /\ exRealized' = exRealized
        \/ /\ effect = "CLOSE"
           /\ exRealized' = exRealized + lots * Earned(s, PreSettlement, price)
           /\ exToday' = exToday
        \/ /\ effect = "CLOSE_TODAY" /\ Len(exToday[s]) >= lots
           /\ exToday' = [exToday EXCEPT ![s] = SubSeq(@, lots + 1, Len(@))]
           /\ exRealized' = exRealized +
                SumFunction([i \in 1..lots |-> Earned(s, exToday[s][i], price)])
    BY <1>0 DEF ExchangeTrade
  <1>8. HeldSide(m) = s /\ (effect = "OPEN" => m.side = s)
    BY <1>6 DEF HeldSide
  <1>9. \A t \in Sides : /\ exToday[t] \in Seq(Nat) /\ Len(exToday[t]) = NewAfter(log, t, n)
                         /\ \A q \in 1..Len(exToday[t]) :
                               exToday[t][q] = PriceAt(log, t, q + ClosedAfter(log, t, n))
    BY <1>0, <1>1 DEF PricesRight, LogRight
  <1> HIDE DEF m, s, price, c
  <1>10. ASSUME NEW t \in Sides
         PROVE  Grown(exToday[t], exToday'[t], m, t)
    <2>1. exToday[t] \in Seq(Nat) /\ Len(exToday[t]) \in Nat
      BY <1>9
    <2>2. CASE effect = "CLOSE"
      BY <1>6, <1>7, <2>2 DEF ClosedPart, Grown
    <2>3. CASE t # s /\ effect # "CLOSE"
      <3>1. exToday'[t] = exToday[t]
        BY <1>1, <1>7, <2>3
      <3>2. ClosedPart(t, m) = 0
        BY <1>8, <2>3 DEF ClosedPart
      <3> QED
        BY <3>1, <3>2 DEF Grown
    <2>4. CASE t = s /\ effect = "OPEN"
      <3> DEFINE more == [i \in 1..lots |-> price]
      <3>1. exToday'[t] = exToday[t] \o more
        BY <1>1, <1>7, <2>4
      <3>2. Len(more) = lots /\ \A i \in 1..lots : more[i] = price
        BY <1>1
      <3>3. price \in Nat /\ more \in Seq(Nat)
        <4>1. price \in Nat
          BY <1>6, TradeTyped
        <4> QED
          BY <1>1, <4>1
      <3> HIDE DEF more
      <3>4. /\ Len(exToday'[t]) = Len(exToday[t]) + lots
            /\ \A q \in 1..Len(exToday'[t]) :
                 exToday'[t][q] = IF q <= Len(exToday[t]) THEN exToday[t][q] ELSE more[q - Len(exToday[t])]
        <4>1. PICK a : a = exToday[t]
          OBVIOUS
        <4>2. a \in Seq(Nat) /\ Len(a) \in Nat /\ exToday'[t] = a \o more
          BY <2>1, <3>1, <4>1
        <4>3. /\ Len(a \o more) = Len(a) + Len(more)
              /\ \A q \in 1..(Len(a) + Len(more)) :
                    (a \o more)[q] = IF q <= Len(a) THEN a[q] ELSE more[q - Len(a)]
          BY ONLY <3>3, <4>2, Joined
        <4>4. Len(more) = lots
          BY <3>2
        <4> QED
          BY ONLY <4>1, <4>2, <4>3, <4>4
      <3>5. \A q \in 1..Len(exToday'[t]) :
                 exToday'[t][q] = IF q <= Len(exToday[t]) THEN exToday[t][q] ELSE price
        <4> TAKE q \in 1..Len(exToday'[t])
        <4>1. CASE q <= Len(exToday[t])
          BY <3>4, <4>1
        <4>2. CASE ~ (q <= Len(exToday[t]))
          <5>1. q - Len(exToday[t]) \in 1..lots
            BY <1>1, <2>1, <3>4, <4>2
          <5> QED
            BY <3>2, <3>4, <4>2, <5>1
        <4> QED
          BY <4>1, <4>2
      <3> QED
        BY <1>6, <1>8, <2>4, <3>4, <3>5 DEF Grown
    <2>5. CASE t = s /\ effect = "CLOSE_TODAY"
      <3>1. lots <= Len(exToday[t]) /\ exToday'[t] = SubSeq(exToday[t], lots + 1, Len(exToday[t]))
        BY <1>1, <1>7, <2>1, <2>5
      <3>2. /\ Len(exToday'[t]) = Len(exToday[t]) - lots
            /\ \A q \in 1..Len(exToday'[t]) : exToday'[t][q] = exToday[t][q + lots]
        <4>1. lots \in 0..Len(exToday[t])
          BY <1>1, <2>1, <3>1
        <4> QED
          BY <2>1, <3>1, <4>1, FrontCut
      <3> QED
        BY <1>6, <1>8, <2>5, <3>1, <3>2 DEF Grown
    <2> QED
      BY <2>2, <2>3, <2>4, <2>5 DEF Effects
  <1>11. ASSUME NEW t \in Sides
         PROVE  \A q \in 1..Len(exToday'[t]) :
                   exToday'[t][q] = PriceAt(log', t, q + ClosedAfter(log', t, n + 1))
    <2>1. /\ exToday[t] \in Seq(Nat) /\ exToday'[t] \in Seq(Nat)
          /\ Len(log') = Len(log) + 1 /\ Len(exToday[t]) = NewAfter(log, t, Len(log))
          /\ PricesAre(exToday[t], log, t) /\ log'[Len(log')] = m
      BY <1>0, <1>1, <1>5, <1>9 DEF PricesAre
    <2>2. Grown(exToday[t], exToday'[t], log'[Len(log')], t)
      BY <1>10, <2>1
    <2>3. PricesAre(exToday'[t], log', t)
      BY <1>1, <1>3, <2>1, <2>2, PricesGrow
    <2> QED
      BY <1>1, <2>3 DEF PricesAre
  <1>12. exRealized' = exRealized + EarnedBy(log', n + 1)
    <2>1. CASE effect = "OPEN"
      BY <1>1, <1>5, <1>6, <1>7, <2>1 DEF EarnedBy
    <2>2. CASE effect = "CLOSE"
      BY <1>5, <1>6, <1>7, <1>8, <2>2 DEF EarnedBy
    <2>3. CASE effect = "CLOSE_TODAY"
      <3> DEFINE f == [i \in 1..lots |-> Earned(s, exToday[s][i], price)]
                 g == [i \in 1..lots |-> EarnedAt(log', s, c, i, price)]
      <3>1. exRealized' = exRealized + SumFunction(f) /\ Len(exToday[s]) >= lots
        BY <1>7, <2>3
      <3>2. SumFunction(f) = SumFunctionOnSet(f, 1..lots)
        BY DEF SumFunction
      <3>3. n \in 0..Len(log) /\ ClosedAfter(log', s, n) = c /\ (n + 1) - 1 = n
        <4>1. n \in 0..Len(log) /\ (n + 1) - 1 = n
          BY <1>0
        <4> QED
          BY <1>1, <1>3, <1>6, <4>1, LongerAfter DEF c
      <3>4. EarnedBy(log', n + 1) = SumFunctionOnSet(g, 1..lots)
        BY <1>5, <1>6, <1>8, <2>3, <3>3 DEF EarnedBy, TodayEarned
      <3>5. ASSUME NEW i \in 1..lots PROVE f[i] = g[i]
        <4>1. i \in 1..Len(exToday[s]) /\ exToday[s][i] = PriceAt(log, s, i + c)
          <5>1. exToday[s] \in Seq(Nat) /\ Len(exToday[s]) \in Nat
            BY <1>6, <1>9
          <5>2. i \in 1..Len(exToday[s])
            BY <1>1, <3>1, <5>1
          <5> QED
            BY <1>6, <1>9, <5>2 DEF c
        <4>2. i + c \in 1..OpenedAfter(log, s, n)
          <5>1. c \in Nat /\ OpenedAfter(log, s, n) = NewAfter(log, s, n) + c /\ NewAfter(log, s, n) \in Nat
            BY <1>1, <1>6, <3>3, ClosedOf DEF c
          <5>2. i \in 1..NewAfter(log, s, n)
            BY <1>6, <1>9, <4>1
          <5> QED
            BY <5>1, <5>2
        <4>3. PriceAt(log', s, i + c) = PriceAt(log, s, i + c)
          BY <1>1, <1>3, <1>6, <3>3, <4>2, PriceKept
        <4> QED
          BY <4>1, <4>3 DEF EarnedAt
      <3>6. IsFiniteSet(1..lots)
        BY <1>6, TradeTyped
      <3> HIDE DEF f, g
      <3>7. SumFunctionOnSet(f, 1..lots) = SumFunctionOnSet(g, 1..lots)
        BY <3>5, <3>6, SameSum
      <3> QED
        BY <3>1, <3>2, <3>4, <3>7
    <2> QED
      BY <2>1, <2>2, <2>3 DEF Effects
  <1>13. exRealized' = EarnedAfter(log', n + 1)
    <2>1. exRealized = EarnedAfter(log, n)
      BY <1>0 DEF PricesRight
    <2>2. EarnedAfter(log', n) = EarnedAfter(log, n)
      <3>1. n \in 0..Len(log)
        BY <1>0
      <3> QED
        BY <1>1, <1>3, <3>1, EarnedAfterKept
    <2>3. EarnedAfter(log', n + 1) = EarnedAfter(log', n) + EarnedBy(log', n + 1)
      <3>1. n + 1 <= Len(log')
        BY <1>1
      <3> QED
        BY <1>1, <1>2, <3>1, EarnedNext
    <2> QED
      BY <1>12, <2>1, <2>2, <2>3
  <1>14. PricesRight'
    BY <1>1, <1>11, <1>13 DEF PricesRight
  <1> QED
    BY <1>1, <1>3, <1>14

(* The trades that came are trades of the log.                             *)
LEMMA CameTyped ==
    ASSUME ExchangeShape, StartShape
    PROVE  /\ Came \in Seq(Trades) /\ DOMAIN Came = 1..Len(Came)
           /\ \A i \in 1..Len(Came) : Came[i].id \in 1..Len(log) /\ Came[i] = log[Came[i].id]
           /\ \A i \in DOMAIN cached : i \in DOMAIN Came /\ Came[i] = cached[i]
           /\ entering = <<>> => Came = cached
  <1>1. /\ cached \in Seq(Trades) /\ log \in Seq(Trades) /\ \A i \in 1..Len(log) : log[i].id = i
        /\ \A i \in 1..Len(cached) : cached[i].id \in 1..Len(log) /\ cached[i] = log[cached[i].id]
    BY DEF ExchangeShape, StartShape
  <1>2. CASE entering = <<>>
    <2>1. Came = cached
      BY <1>1, <1>2 DEF Came
    <2> QED
      BY <1>1, <2>1
  <1>3. CASE entering # <<>>
    <2>1. PICK k \in 1..Len(log) : entering = <<log[k]>>
      BY <1>3 DEF StartShape
    <2>2. log[k] \in Trades /\ log[k].id = k
      BY <1>1
    <2>3. PICK m \in Trades : m = log[k]
      BY <2>2
    <2>4. Came = cached \o <<m>>
      BY <2>1, <2>3 DEF Came
    <2>5. /\ Came \in Seq(Trades) /\ Len(Came) = Len(cached) + 1 /\ Len(cached) \in Nat
          /\ \A i \in 1..Len(cached) : Came[i] = cached[i]
          /\ Came[Len(cached) + 1] = m
      BY <1>1, <2>4
    <2>6. ASSUME NEW i \in 1..Len(Came) PROVE Came[i].id \in 1..Len(log) /\ Came[i] = log[Came[i].id]
      <3>1. CASE i = Len(cached) + 1
        BY <2>2, <2>3, <2>5, <3>1
      <3>2. CASE i # Len(cached) + 1
        <4>1. i \in 1..Len(cached)
          BY <2>5, <3>2
        <4> QED
          BY <1>1, <2>5, <4>1
      <3> QED
        BY <3>1, <3>2
    <2> QED
      BY <1>1, <1>3, <2>5, <2>6
  <1> QED
    BY <1>2, <1>3

(* One trade more of those that came.                                      *)
LEMMA OneMoreCame ==
    ASSUME NEW came \in Seq(Trades), NEW m \in Trades
    PROVE  /\ Len(came \o <<m>>) = Len(came) + 1 /\ (came \o <<m>>)[Len(came) + 1] = m
           /\ \A i \in 1..Len(came) : (came \o <<m>>)[i] = came[i]
           /\ ~ IsInjective(came) => ~ IsInjective(came \o <<m>>)
           /\ (\E i \in DOMAIN came : came[i] = m) => ~ IsInjective(came \o <<m>>)
  <1> DEFINE more == came \o <<m>>
  <1>1. /\ more \in Seq(Trades) /\ Len(more) = Len(came) + 1 /\ more[Len(came) + 1] = m
        /\ \A i \in 1..Len(came) : more[i] = came[i]
        /\ Len(came) \in Nat /\ DOMAIN came = 1..Len(came)
    OBVIOUS
  <1> HIDE DEF more
  <1>2. DOMAIN more = 1..(Len(came) + 1)
    BY <1>1
  <1>3. ASSUME NEW i \in DOMAIN came, NEW j \in DOMAIN came, came[i] = came[j], i # j
        PROVE  ~ IsInjective(more)
    <2>1. i \in DOMAIN more /\ j \in DOMAIN more /\ more[i] = more[j]
      BY <1>1, <1>2, <1>3
    <2> QED
      BY <1>3, <2>1 DEF IsInjective
  <1>4. ASSUME NEW i \in DOMAIN came, came[i] = m PROVE ~ IsInjective(more)
    <2> DEFINE j == Len(came) + 1
    <2>1. i \in DOMAIN more /\ j \in DOMAIN more /\ more[i] = more[j] /\ i # j
      BY <1>1, <1>2, <1>4
    <2> QED
      BY <2>1 DEF IsInjective
  <1>5. ~ IsInjective(came) => ~ IsInjective(more)
    BY <1>3 DEF IsInjective
  <1> QED
    BY <1>1, <1>4, <1>5 DEF more

(* What the invariant says of the lots once the portfolio is there.        *)
LEMMA ListsTotal ==
    ASSUME IInv, sync = "ready", Regular, dead = "no", Plain, NEW s \in Sides
    PROVE  /\ Applied \in 0..Len(log) /\ Applied \in Nat
           /\ holding[s].old \in Seq(Entries) /\ holding[s].today \in Seq(Entries)
           /\ Lots(holding[s].old) = OldAfter(log, s, Applied)
           /\ Lots(holding[s].today) = NewAfter(log, s, Applied)
           /\ ClosedAfter(log, s, Applied) \in Nat
           /\ Lots(holding[s].today) + ClosedAfter(log, s, Applied) = OpenedAfter(log, s, Applied)
  <1>1. /\ ExchangeShape /\ StartShape /\ AccountShape /\ LogRight
        /\ log \in Seq(Trades) /\ Sane(log)
    BY LogSane DEF IInv, Shape, ExchangeShape
  <1>2. Applied \in Nat /\ Applied \in 0..Len(log)
    <2>1. Cardinality(backward) \in Nat
      BY <1>1, BackwardCount
    <2>2. reported \in Nat
      BY <1>1 DEF StartShape
    <2>3. Applied \in Nat
      BY <2>1, <2>2 DEF Applied
    <2>4. Applied <= Len(log)
      BY DEF IInv, HeldRight
    <2> QED
      BY <1>1, <2>3, <2>4
  <1>3. /\ Held(s) = OldAfter(log, s, Applied) + NewAfter(log, s, Applied)
        /\ Lots(holding[s].old) = OldAfter(log, s, Applied)
    BY DEF IInv, HeldRight
  <1>4. /\ holding[s].old \in Seq(Entries) /\ holding[s].today \in Seq(Entries)
        /\ Lots(holding[s].old) \in Nat /\ Lots(holding[s].today) \in Nat
        /\ Held(s) = Lots(holding[s].old) + Lots(holding[s].today)
    BY <1>1, HoldingTyped
  <1>5. /\ ClosedAfter(log, s, Applied) \in Nat /\ NewAfter(log, s, Applied) \in Nat
        /\ OpenedAfter(log, s, Applied) = NewAfter(log, s, Applied) + ClosedAfter(log, s, Applied)
    BY <1>1, <1>2, ClosedOf
  <1>6. Lots(holding[s].today) = NewAfter(log, s, Applied)
    BY <1>3, <1>4, <1>5
  <1> QED
    BY <1>2, <1>3, <1>4, <1>5, <1>6

(* Steps that leave the exchange, the caches or the lists alone.           *)
LEMMA PricesSame == ASSUME PricesRight, UNCHANGED exchange PROVE PricesRight'
  BY DEF PricesRight, exchange

(* A step that leaves the exchange and the start alone keeps the report right. *)
LEMMA ReportSame ==
    ASSUME ReportRight, UNCHANGED exchange, UNCHANGED start PROVE ReportRight'
  BY DEF ReportRight, exchange, start

(* A step that takes no trade from the stream and leaves trades_ alone.     *)
LEMMA CacheSame ==
    ASSUME CacheRight, UNCHANGED exchange, UNCHANGED start, UNCHANGED caching, got' = got
    PROVE  CacheRight'
  <1>1. Came' = Came /\ log' = log /\ sync' = sync /\ noted' = noted
    BY DEF Came, exchange, start, caching
  <1> QED
    BY <1>1 DEF CacheRight, InOrder

(* Once the account is loaded, nothing is said of trades_ any more.         *)
LEMMA CacheReady == ASSUME sync' = "ready" PROVE CacheRight'
  BY DEF CacheRight

(* A step that leaves exchange, start and account alone keeps the lists right. *)
LEMMA ListsSame ==
    ASSUME ListsRight, UNCHANGED exchange, UNCHANGED start, UNCHANGED account,
           Regular' => Regular, dead' = dead, IsInjective(cached)' => IsInjective(cached)
    PROVE  ListsRight'
  <1>1. /\ log' = log /\ sync' = sync /\ reported' = reported /\ realized' = realized
        /\ holding' = holding /\ backward' = backward
    BY DEF exchange, start, account
  <1>2. Applied' = Applied /\ (Plain' => Plain)
    BY <1>1 DEF Applied, Plain
  <1> QED
    BY <1>1, <1>2 DEF ListsRight

(* Of an account that is not ready, or a process that died, nothing is said. *)
LEMMA ListsNone == ASSUME sync' # "ready" \/ dead' # "no" PROVE ListsRight'
  BY DEF ListsRight
-----------------------------------------------------------------------------
(* The steps of the exchange, of the stream and of connect up to the       *)
(* portfolio.                                                              *)

(* A trade of the exchange.                                                *)
LEMMA ExchangeLists ==
    ASSUME IInv, LInv, dead = "no", NEW side \in Sides, NEW effect \in Effects,
           NEW lots \in 1..MaxLots, ExchangeTrade(side, effect, lots)
    PROVE  LInv'
  <1>1. /\ ExchangeShape /\ LogRight /\ StartShape /\ PricesRight
        /\ log \in Seq(Trades) /\ Sane(log)
    BY LogSane DEF IInv, LInv, Shape, ExchangeShape
  <1>2. PricesRight' /\ Longer(log', log) /\ log' \in Seq(Trades)
    <2>1. PricesRight' /\ Longer(log', log)
      BY <1>1, PricesStep
    <2>2. ExchangeShape'
      BY <1>1, TradeStep
    <2> QED
      BY <2>1, <2>2 DEF ExchangeShape
  <1>3. /\ sync' = sync /\ report' = report /\ reported' = reported /\ noted' = noted /\ late' = late
        /\ got' = got /\ again' = again /\ entering' = entering /\ cached' = cached
        /\ holding' = holding /\ realized' = realized /\ backward' = backward /\ dead' = dead
    BY DEF ExchangeTrade, start, stream, caching, account
  <1>4. Came' = Came /\ Regular' = Regular /\ Applied' = Applied
    BY <1>3 DEF Came, Regular, Applied
  <1>5. \A i \in 1..Len(log) : log'[i] = log[i]
    BY <1>2 DEF Longer
  <1>6. ReportRight'
    <2>1. reported \in 0..Len(log)
      BY <1>1 DEF StartShape
    <2>2. EarnedAfter(log', reported) = EarnedAfter(log, reported)
      BY <1>1, <1>2, <2>1, EarnedAfterKept
    <2> QED
      BY <1>3, <2>2 DEF ReportRight, LInv
  <1>7. CacheRight'
    <2>1. got \in 0..Len(log) /\ noted \in 0..Len(log) /\ Len(log) \in Nat
      BY <1>1 DEF ExchangeShape, StartShape
    <2>2. ASSUME NEW n \in 0..Len(log), InOrder(n)
          PROVE  Len(Came) = n /\ \A i \in 1..n : Came[i] = log'[i]
      <3>1. \A i \in 1..n : i \in 1..Len(log)
        BY <2>1
      <3> QED
        BY <1>5, <2>2, <3>1 DEF InOrder
    <2>3. ASSUME NEW i \in DOMAIN Came, Came[i] = log[1] PROVE Came[i] = log'[1]
      <3>1. Came[i].id \in 1..Len(log)
        BY <1>1, CameTyped
      <3>2. 1 \in 1..Len(log)
        BY <2>1, <3>1
      <3> QED
        BY <1>5, <2>3, <3>2
    <2> QED
      BY <1>3, <1>4, <2>1, <2>2, <2>3 DEF CacheRight, InOrder, LInv
  <1>8. ListsRight'
    <2> SUFFICES ASSUME sync = "ready", Regular, dead = "no", Plain', IsInjective(cached)
                 PROVE  /\ realized = EarnedAfter(log', Applied)
                        /\ \A s \in Sides :
                           /\ \A i \in DOMAIN holding[s].old : holding[s].old[i].price = PreSettlement
                           /\ ListFrom(holding[s].today, log', s, ClosedAfter(log', s, Applied))
      BY <1>3, <1>4 DEF ListsRight
    <2>1. Plain
      <3>1. \A i \in 1..Len(log) : i \in 1..Len(log') /\ log'[i] = log[i]
        BY <1>1, <1>2, <1>5 DEF Longer
      <3>2. DOMAIN log = 1..Len(log) /\ DOMAIN log' = 1..Len(log')
        BY <1>1, <1>2
      <3> QED
        BY <3>1, <3>2 DEF Plain
    <2>2. /\ realized = EarnedAfter(log, Applied)
          /\ \A s \in Sides :
             /\ \A i \in DOMAIN holding[s].old : holding[s].old[i].price = PreSettlement
             /\ ListFrom(holding[s].today, log, s, ClosedAfter(log, s, Applied))
      BY <2>1 DEF LInv, ListsRight
    <2>3. Applied \in 0..Len(log)
      <3>1. "BUY" \in Sides
        BY DEF Sides
      <3> QED
        BY <2>1, <3>1, ListsTotal
    <2>4. EarnedAfter(log', Applied) = EarnedAfter(log, Applied)
      BY <1>1, <1>2, <2>3, EarnedAfterKept
    <2>5. ASSUME NEW s \in Sides
          PROVE  ListFrom(holding[s].today, log', s, ClosedAfter(log', s, Applied))
      <3>1. /\ holding[s].today \in Seq(Entries) /\ ClosedAfter(log, s, Applied) \in Nat
            /\ Lots(holding[s].today) + ClosedAfter(log, s, Applied) = OpenedAfter(log, s, Applied)
        BY <2>1, ListsTotal
      <3>2. ClosedAfter(log', s, Applied) = ClosedAfter(log, s, Applied)
        BY <1>1, <1>2, <2>3, LongerAfter
      <3>3. Lots(holding[s].today) + ClosedAfter(log, s, Applied) <= OpenedAfter(log, s, Applied)
        <4>1. OpenedAfter(log, s, Applied) \in Int
          BY <1>1, <2>3, AfterInt
        <4> QED
          BY <3>1, <4>1
      <3>4. ListFrom(holding[s].today, log, s, ClosedAfter(log, s, Applied))
        BY <2>2
      <3>5. ListFrom(holding[s].today, log', s, ClosedAfter(log, s, Applied))
        BY <1>1, <1>2, <2>3, <3>1, <3>3, <3>4, ListKept
      <3> QED
        BY <3>2, <3>5
    <2> QED
      BY <2>2, <2>4, <2>5
  <1> QED
    BY <1>2, <1>6, <1>7, <1>8 DEF LInv

(* The stream begins anew: either the trades that came were the first ones *)
(* of it, and the first of them will come again, or one came twice.        *)
LEMMA ReloginLists == ASSUME IInv, LInv, dead = "no", Relogin PROVE LInv'
  <1>1. /\ got > 0 /\ got' = 0 /\ again' = (sync \in {"dated", "ready"})
        /\ UNCHANGED exchange /\ UNCHANGED start /\ UNCHANGED caching /\ UNCHANGED account
        /\ dead' = dead
    BY DEF Relogin
  <1>2. /\ log' = log /\ sync' = sync /\ noted' = noted /\ reported' = reported /\ late' = late
        /\ cached' = cached /\ Came' = Came
    BY <1>1 DEF exchange, start, caching, Came
  <1>3. PricesRight' /\ ReportRight'
    BY <1>1, PricesSame, ReportSame DEF LInv
  <1>4. CacheRight'
    <2>1. CASE sync \in {"logged_in", "queried"}
      <3>1. got \in Nat
        BY DEF IInv, Shape, ExchangeShape
      <3>2. InOrder(got) => \E i \in DOMAIN Came : Came[i] = log[1]
        <4>1. DOMAIN Came = 1..Len(Came)
          BY CameTyped DEF IInv, Shape
        <4>2. 1 \in 1..got
          BY <1>1, <3>1
        <4> QED
          BY <4>1, <4>2 DEF InOrder
      <3>3. InOrder(got) \/ ~ IsInjective(Came)
        BY <1>1, <2>1 DEF LInv, CacheRight
      <3> QED
        BY <1>1, <1>2, <2>1, <3>2, <3>3 DEF CacheRight
    <2>2. CASE sync \notin {"logged_in", "queried"}
      BY <1>2, <2>2 DEF CacheRight, InOrder, LInv
    <2> QED
      BY <2>1, <2>2
  <1>5. ListsRight'
    <2>1. CASE sync = "ready"
      <3>1. Regular' => Regular
        BY <1>1, <1>2, <2>1 DEF Regular
      <3> QED
        BY <1>1, <1>2, <3>1, ListsSame DEF LInv
    <2>2. CASE sync # "ready"
      BY <1>2, <2>2, ListsNone
    <2> QED
      BY <2>1, <2>2
  <1> QED
    BY <1>3, <1>4, <1>5 DEF LInv

(* The report says what closing has earned.                                *)
LEMMA QryLists == ASSUME IInv, LInv, dead = "no", QryPosition PROVE LInv'
  <1>1. /\ sync = "logged_in" /\ sync' = "queried" /\ UNCHANGED exchange /\ got' = got
        /\ UNCHANGED caching /\ reported' = Len(log) /\ report'.realized = exRealized
    BY DEF QryPosition, stream
  <1>2. PricesRight'
    BY <1>1, PricesSame DEF LInv
  <1>3. log' = log /\ Came' = Came
    BY <1>1 DEF exchange, caching, Came
  <1>4. ReportRight'
    BY <1>1, <1>3 DEF LInv, PricesRight, ReportRight
  <1>5. CacheRight'
    BY <1>1, <1>3 DEF LInv, CacheRight, InOrder
  <1>6. ListsRight'
    BY <1>1, ListsNone
  <1> QED
    BY <1>2, <1>4, <1>5, <1>6 DEF LInv

(* The date is noted.                                                      *)
LEMMA NoteLists == ASSUME IInv, LInv, dead = "no", NoteDate PROVE LInv'
  <1>1. /\ sync = "queried" /\ sync' = "dated" /\ UNCHANGED exchange /\ noted' = got
        /\ UNCHANGED caching /\ reported' = reported /\ report' = report
    BY DEF NoteDate
  <1>2. PricesRight'
    BY <1>1, PricesSame DEF LInv
  <1>3. log' = log /\ Came' = Came
    BY <1>1 DEF exchange, caching, Came
  <1>4. ReportRight'
    BY <1>1, <1>3 DEF LInv, ReportRight
  <1>5. CacheRight'
    BY <1>1, <1>3 DEF LInv, CacheRight, InOrder
  <1>6. ListsRight'
    BY <1>1, ListsNone
  <1> QED
    BY <1>2, <1>4, <1>5, <1>6 DEF LInv

(* One trade more comes before the date is noted.                          *)
LEMMA OldDateLists == ASSUME IInv, LInv, dead = "no", SeeOldDate PROVE LInv'
  <1>1. /\ Take /\ sync \in {"logged_in", "queried"} /\ entering = <<>> /\ entering' = <<Msg>>
        /\ cached' = cached /\ got' = got + 1
        /\ UNCHANGED exchange /\ UNCHANGED start /\ UNCHANGED account /\ again' = again /\ dead' = dead
    BY DEF SeeOldDate, Take
  <1>2. /\ log' = log /\ sync' = sync
    BY <1>1 DEF exchange, start
  <1>3. PricesRight' /\ ReportRight'
    BY <1>1, PricesSame, ReportSame DEF LInv
  <1>4. /\ Msg \in Trades /\ Msg = log[got + 1] /\ got \in Nat
    BY <1>1, NextTrade
  <1>5. /\ Came \in Seq(Trades) /\ DOMAIN Came = 1..Len(Came) /\ Came = cached
    BY <1>1, CameTyped DEF IInv, Shape
  <1>6. Came' = Came \o <<Msg>>
    BY <1>1, <1>5 DEF Came
  <1> DEFINE m == Msg
             came == Came
             more == came \o <<m>>
  <1>7. /\ Len(more) = Len(came) + 1 /\ more[Len(came) + 1] = m
        /\ \A i \in 1..Len(came) : more[i] = came[i]
        /\ ~ IsInjective(came) => ~ IsInjective(more)
        /\ (\E i \in DOMAIN came : came[i] = m) => ~ IsInjective(more)
    BY <1>4, <1>5, OneMoreCame
  <1>8. InOrder(got) \/ ~ IsInjective(came) \/ (got = 0 /\ \E i \in DOMAIN came : came[i] = log[1])
    BY <1>1 DEF LInv, CacheRight
  <1> HIDE DEF more
  <1>9. CacheRight'
    <2>1. CASE InOrder(got)
      <3>1. Len(came) = got /\ \A i \in 1..got : came[i] = log[i]
        BY <2>1 DEF InOrder
      <3>2. Len(more) = got + 1 /\ \A i \in 1..(got + 1) : more[i] = log[i]
        BY <1>4, <1>7, <3>1
      <3>3. InOrder(got)'
        BY <1>1, <1>2, <1>6, <3>2 DEF InOrder, more
      <3> QED
        BY <1>1, <1>2, <3>3 DEF CacheRight
    <2>2. CASE ~ IsInjective(came)
      <3>1. ~ IsInjective(Came')
        BY <1>6, <1>7, <2>2 DEF more
      <3> QED
        BY <1>1, <1>2, <3>1 DEF CacheRight
    <2>3. CASE got = 0 /\ \E i \in DOMAIN came : came[i] = log[1]
      <3>1. \E i \in DOMAIN came : came[i] = m
        BY <1>4, <2>3
      <3>2. ~ IsInjective(Came')
        BY <1>6, <1>7, <3>1 DEF more
      <3> QED
        BY <1>1, <1>2, <3>2 DEF CacheRight
    <2> QED
      BY <1>8, <2>1, <2>2, <2>3
  <1>10. ListsRight'
    BY <1>1, <1>2, ListsNone
  <1> QED
    BY <1>3, <1>9, <1>10 DEF LInv

(* It enters the cache.                                                    *)
LEMMA CacheLists == ASSUME IInv, LInv, dead = "no", CacheTrade PROVE LInv'
  <1>1. /\ cached' = cached \o entering /\ entering' = <<>> /\ got' = got /\ again' = again
        /\ UNCHANGED exchange /\ UNCHANGED start /\ UNCHANGED account /\ dead' = dead
    BY DEF CacheTrade, stream
  <1>2. log' = log /\ sync' = sync /\ noted' = noted /\ reported' = reported /\ late' = late
    BY <1>1 DEF exchange, start
  <1>3. PricesRight' /\ ReportRight'
    BY <1>1, PricesSame, ReportSame DEF LInv
  <1>4. /\ Came \in Seq(Trades) /\ DOMAIN Came = 1..Len(Came)
        /\ \A i \in DOMAIN cached : i \in DOMAIN Came /\ Came[i] = cached[i]
    BY CameTyped DEF IInv, Shape
  <1>5. Came' = Came /\ cached' = Came
    <2>1. cached' = Came
      BY <1>1 DEF Came
    <2>2. Came' = Came \o <<>>
      BY <1>1, <2>1 DEF Came
    <2> QED
      BY <1>4, <2>1, <2>2
  <1>6. CacheRight'
    BY <1>1, <1>2, <1>5 DEF LInv, CacheRight, InOrder
  <1>7. IsInjective(cached)' => IsInjective(cached)
    BY <1>4, <1>5 DEF IsInjective
  <1>8. ListsRight'
    <2>1. Regular' => Regular
      BY <1>1, <1>2 DEF Regular
    <2> QED
      BY <1>1, <1>7, <2>1, ListsSame DEF LInv
  <1> QED
    BY <1>3, <1>6, <1>8 DEF LInv

(* A trade that finds no portfolio, one that was there before, an order.   *)
LEMMA NoPortfolioLists == ASSUME IInv, LInv, dead = "no", NoPortfolio PROVE LInv'
  <1>1. /\ sync = "dated" /\ dead' = "null" /\ UNCHANGED exchange /\ UNCHANGED start
        /\ UNCHANGED caching
    BY DEF NoPortfolio
  <1>2. Came' = Came /\ log' = log /\ sync' = sync /\ noted' = noted
    BY <1>1 DEF exchange, start, caching, Came
  <1>3. PricesRight' /\ ReportRight'
    BY <1>1, PricesSame, ReportSame DEF LInv
  <1>4. CacheRight'
    BY <1>1, <1>2 DEF LInv, CacheRight, InOrder
  <1>5. ListsRight'
    BY <1>1, ListsNone
  <1> QED
    BY <1>3, <1>4, <1>5 DEF LInv

(* A trade that ids_ already holds changes no list.                         *)
LEMMA SkipLists == ASSUME IInv, LInv, dead = "no", SkipTrade PROVE LInv'
  <1>1. /\ sync = "ready" /\ UNCHANGED exchange /\ UNCHANGED start /\ UNCHANGED caching
        /\ UNCHANGED account /\ again' = again /\ dead' = dead
    BY DEF SkipTrade
  <1>2. sync' = "ready" /\ cached' = cached /\ Regular' = Regular
    BY <1>1 DEF start, caching, Regular
  <1>3. PricesRight' /\ ReportRight' /\ CacheRight' /\ ListsRight'
    BY <1>1, <1>2, PricesSame, ReportSame, CacheReady, ListsSame DEF LInv
  <1> QED
    BY <1>3 DEF LInv

(* The steps of the strategy's orders touch neither exchange, start nor account. *)
LEMMA StrategyLists ==
    ASSUME IInv, LInv, UNCHANGED exchange, UNCHANGED stream, UNCHANGED start, UNCHANGED caching,
           UNCHANGED account, dead' = dead
    PROVE  LInv'
  <1>1. got' = got /\ cached' = cached /\ Regular' = Regular
    BY DEF stream, start, caching, Regular
  <1>2. PricesRight' /\ ReportRight' /\ CacheRight' /\ ListsRight'
    BY <1>1, PricesSame, ReportSame, CacheSame, ListsSame DEF LInv
  <1> QED
    BY <1>2 DEF LInv
-----------------------------------------------------------------------------
(* The portfolio.                                                          *)

(* If the first n trades are those in the cache, the list of the opening   *)
(* trades has all that they opened, the first lots at the back.            *)
LEMMA OpenedBehind ==
    ASSUME ExchangeShape, StartShape, NEW s \in Sides, NEW n \in 0..Len(log), Len(cached) = n,
           \A i \in 1..n : cached[i] = log[i]
    PROVE  /\ Opened(s) \in Seq(Entries)
           /\ Lots(Opened(s)) = OpenedAfter(log, s, n)
           /\ \A k \in 1..Len(Opened(s)) : \E j \in 1..n :
                 /\ Opened(s)[k].price = log[j].price
                 /\ Behind(Opened(s), k - 1) = OpenedAfter(log, s, j)
                 /\ Behind(Opened(s), k) = OpenedAfter(log, s, j - 1)
  <1> DEFINE S == Opens(s)
             O == Opened(s)
             N == Cardinality(S)
             D(k) == Behind(O, k)
             A(i) == OpenedAfter(log, s, i)
  <1>1. /\ log \in Seq(Trades) /\ cached \in Seq(Trades) /\ n \in Nat /\ n <= Len(log)
        /\ \A i \in 1..n : /\ i \in 1..Len(log) /\ log[i].id = i /\ cached[i].id = i
                           /\ cached[i] = log[i] /\ log[i] \in Trades
    <2>1. /\ log \in Seq(Trades) /\ cached \in Seq(Trades)
          /\ \A i \in 1..Len(log) : log[i].id = i
      BY DEF ExchangeShape, StartShape
    <2>2. \A i \in 1..n : i \in 1..Len(log)
      OBVIOUS
    <2> QED
      BY <2>1, <2>2
  <1>2. /\ N \in Nat /\ O \in Seq(Entries) /\ Len(O) = N /\ IsFiniteSet(S)
    BY <1>1, OpenedNth
  <1>3. PICK r \in Bijection(S, 1..N) :
          /\ \A i \in S : O[r[i]].lots = cached[i].lots /\ O[r[i]].price = cached[i].price
          /\ \A i, j \in S : cached[j].id > cached[i].id => r[j] < r[i]
    BY <1>1, OpenedNth
  <1>4. /\ S \subseteq 1..n
        /\ \A i \in 1..n : i \in S <=> log[i].effect = "OPEN" /\ log[i].side = s
    BY <1>1 DEF Opens
  <1>5. /\ \A i \in S : r[i] \in 1..N
        /\ \A k \in 1..N : \E i \in S : r[i] = k
        /\ \A i, j \in S : i < j => r[j] < r[i]
        /\ \A i \in S : O[r[i]].lots = log[i].lots /\ O[r[i]].price = log[i].price
    <2>1. \A i \in S : cached[i].id = i /\ cached[i] = log[i]
      BY <1>1, <1>4
    <2>2. \A i, j \in S : i < j => r[j] < r[i]
      <3> TAKE i, j \in S
      <3> HAVE i < j
      <3>1. cached[j].id > cached[i].id
        <4>1. cached[i].id = i /\ cached[j].id = j /\ i \in Int /\ j \in Int
          BY <1>4, <2>1
        <4> QED
          BY <4>1
      <3> QED
        BY <1>3, <3>1
    <2>3. /\ \A i \in S : r[i] \in 1..N
          /\ \A k \in 1..N : \E i \in S : r[i] = k
      BY <1>3 DEF Bijection, Injection, Surjection
    <2> QED
      BY <1>3, <2>1, <2>2, <2>3
  <1>6. \A i \in 0..(n - 1) : /\ i + 1 \in S => A(i + 1) = A(i) + log[i + 1].lots
                              /\ i + 1 \notin S => A(i + 1) = A(i)
    <2> TAKE i \in 0..(n - 1)
    <2>1. i \in Nat /\ i + 1 <= Len(log) /\ i + 1 \in 1..n /\ i \in 0..Len(log)
      BY <1>1
    <2>2. A(i + 1) = A(i) + OpenPart(s, log[i + 1])
      BY <1>1, <2>1, AfterNext
    <2>3. A(i) \in Int
      BY <1>1, <2>1, AfterInt
    <2> QED
      BY <1>4, <2>1, <2>2, <2>3 DEF OpenPart
  <1>7. /\ D(N) = 0 /\ D(0) = Lots(O)
        /\ \A k \in 0..(N - 1) : D(k) = O[k + 1].lots + D(k + 1)
        /\ \A k \in 0..N : D(k) \in Nat
    <2>1. /\ Behind(O, 0) = Lots(O) /\ Behind(O, Len(O)) = 0
          /\ \A i \in 0..Len(O) : Behind(O, i) \in Nat
          /\ \A i \in 1..Len(O) : Behind(O, i - 1) = O[i].lots + Behind(O, i)
      BY <1>2, BehindStep
    <2>2. ASSUME NEW k \in 0..(N - 1) PROVE D(k) = O[k + 1].lots + D(k + 1)
      <3>1. k + 1 \in 1..Len(O) /\ (k + 1) - 1 = k
        BY <1>2
      <3> QED
        BY <2>1, <3>1
    <2> QED
      BY <1>2, <2>1, <2>2
  <1>8. A(0) = 0
    BY AfterNone
  <1> HIDE DEF S, O, N, D, A
  <1> DEFINE Split(i, k) == \A j \in S : j <= i <=> r[j] > k
             P == {i \in Nat : i <= n => \A k \in 0..N : Split(i, k) => D(k) = A(i)}
  <1>9. 0 \in P
    <2> SUFFICES ASSUME NEW k \in 0..N, Split(0, k) PROVE D(k) = A(0)
      OBVIOUS
    <2>1. CASE k = N
      BY <1>7, <1>8, <2>1
    <2>2. CASE k # N
      <3>1. PICK j \in S : r[j] = k + 1
        <4>1. k + 1 \in 1..N
          BY <1>2, <2>2
        <4> QED
          BY <1>5, <4>1
      <3>2. j <= 0 /\ j \in 1..n
        BY <1>4, <3>1
      <3> QED
        BY <3>2
    <2> QED
      BY <2>1, <2>2
  <1>10. ASSUME NEW i \in 0..(n - 1), i \in P PROVE i + 1 \in P
    <2> SUFFICES ASSUME NEW k \in 0..N, Split(i + 1, k) PROVE D(k) = A(i + 1)
      OBVIOUS
    <2>0. i \in Nat /\ i <= n /\ \A q \in 0..N : Split(i, q) => D(q) = A(i)
      BY <1>1, <1>10
    <2>1. CASE i + 1 \in S
      <3>1. r[i + 1] > k /\ r[i + 1] \in 1..N
        BY <1>5, <2>0, <2>1
      <3>2. PICK j \in S : r[j] = k + 1
        <4>1. k + 1 \in 1..N
          BY <1>2, <3>1
        <4> QED
          BY <1>5, <4>1
      <3>3. j = i + 1
        <4>1. j <= i + 1 /\ j \in 1..n
          BY <1>4, <3>2
        <4>2. ~ (j < i + 1)
          <5> SUFFICES ASSUME j < i + 1 PROVE FALSE
            OBVIOUS
          <5>1. r[i + 1] < r[j]
            BY <1>5, <2>1, <3>2
          <5> QED
            BY <3>1, <3>2, <5>1
        <4> QED
          BY <2>0, <4>1, <4>2
      <3>4. r[i + 1] = k + 1 /\ k \in 0..(N - 1) /\ k + 1 \in 0..N
        BY <1>2, <3>1, <3>2, <3>3
      <3>5. Split(i, k + 1)
        <4> TAKE q \in S
        <4>1. q \in Int /\ r[q] \in Int /\ (q <= i + 1 <=> r[q] > k)
          <5>1. q \in 1..n /\ r[q] \in 1..N
            BY <1>4, <1>5
          <5> QED
            BY <5>1
        <4>2. CASE q = i + 1
          BY <2>0, <3>4, <4>2
        <4>3. CASE q < i + 1
          <5>1. r[i + 1] < r[q]
            BY <1>5, <2>1, <4>3
          <5> QED
            BY <2>0, <3>4, <4>1, <4>3, <5>1
        <4>4. CASE i + 1 < q
          <5>1. r[q] < r[i + 1]
            BY <1>5, <2>1, <4>4
          <5> QED
            BY <2>0, <3>4, <4>1, <4>4, <5>1
        <4> QED
          BY <2>0, <4>1, <4>2, <4>3, <4>4
      <3>6. D(k + 1) = A(i)
        BY <2>0, <3>4, <3>5
      <3>7. D(k) = O[k + 1].lots + D(k + 1) /\ O[k + 1].lots = log[i + 1].lots
        BY <1>5, <1>7, <2>1, <3>4
      <3>8. log[i + 1].lots \in Nat /\ D(k + 1) \in Nat
        <4>1. i + 1 \in 1..n
          OBVIOUS
        <4>2. log[i + 1] \in Trades
          BY <1>1, <4>1
        <4> QED
          BY <1>7, <3>4, <4>2, TradeTyped
      <3> QED
        BY <1>6, <2>1, <3>6, <3>7, <3>8
    <2>2. CASE i + 1 \notin S
      <3>1. Split(i, k)
        <4> TAKE q \in S
        <4>1. q \in Int /\ q # i + 1
          BY <1>4, <2>2
        <4>2. q <= i <=> q <= i + 1
          BY <2>0, <4>1
        <4> QED
          BY <4>2
      <3>2. D(k) = A(i)
        BY <2>0, <3>1
      <3> QED
        BY <1>6, <2>2, <3>2
    <2> QED
      BY <2>1, <2>2
  <1> HIDE DEF P
  <1>11. \A i \in 0..n : i \in P
    BY <1>1, <1>9, <1>10, CountUp
  <1>12. ASSUME NEW i \in 0..n, NEW k \in 0..N, Split(i, k) PROVE D(k) = A(i)
    BY <1>11, <1>12 DEF P
  <1>13. Lots(O) = A(n)
    <2>1. Split(n, 0)
      <3> TAKE j \in S
      <3>1. j \in 1..n /\ r[j] \in 1..N
        BY <1>4, <1>5
      <3> QED
        BY <1>1, <1>2, <3>1
    <2>2. n \in 0..n /\ 0 \in 0..N
      BY <1>1, <1>2
    <2> QED
      BY <1>7, <1>12, <2>1, <2>2
  <1>14. ASSUME NEW k \in 1..Len(O)
         PROVE  \E j \in 1..n : /\ O[k].price = log[j].price
                                /\ D(k - 1) = A(j) /\ D(k) = A(j - 1)
    <2>1. PICK j \in S : r[j] = k
      BY <1>2, <1>5
    <2>2. j \in 1..n /\ j \in 0..n /\ j - 1 \in 0..n /\ k \in 0..N /\ k - 1 \in 0..N
      BY <1>1, <1>2, <1>4
    <2>3. Split(j, k - 1) /\ Split(j - 1, k)
      <3> SUFFICES ASSUME NEW q \in S
                   PROVE (q <= j <=> r[q] > k - 1) /\ (q <= j - 1 <=> r[q] > k)
        OBVIOUS
      <3>1. q \in Int /\ r[q] \in Int /\ j \in Int /\ k \in Int
        <4>1. q \in 1..n /\ r[q] \in 1..N
          BY <1>4, <1>5
        <4> QED
          BY <2>2, <4>1
      <3>2. CASE q = j
        BY <2>1, <3>1, <3>2
      <3>3. CASE q < j
        <4>1. r[j] < r[q]
          BY <1>5, <3>3
        <4> QED
          BY <2>1, <3>1, <3>3, <4>1
      <3>4. CASE j < q
        <4>1. r[q] < r[j]
          BY <1>5, <3>4
        <4> QED
          BY <2>1, <3>1, <3>4, <4>1
      <3> QED
        BY <3>1, <3>2, <3>3, <3>4
    <2>4. D(k - 1) = A(j) /\ D(k) = A(j - 1)
      BY <1>12, <2>2, <2>3
    <2>5. O[k].price = log[j].price
      BY <1>5, <2>1
    <2> QED
      BY <2>2, <2>4, <2>5
  <1> QED
    BY <1>2, <1>13, <1>14 DEF O, D, A

(* So its lots are those that were opened, in their order.                 *)
LEMMA OpenedFrom ==
    ASSUME ExchangeShape, StartShape, NEW s \in Sides, NEW n \in 0..Len(log), Len(cached) = n,
           \A i \in 1..n : cached[i] = log[i]
    PROVE  ListFrom(Opened(s), log, s, 0)
  <1>1. ASSUME NEW i \in DOMAIN Opened(s),
               NEW k \in (Behind(Opened(s), i) + 1)..Behind(Opened(s), i - 1)
        PROVE  Opened(s)[i].price = PriceAt(log, s, k + 0)
    <2>1. i \in 1..Len(Opened(s)) /\ k \in Int
      BY OpenedBehind, LotOfList
    <2>2. PICK j \in 1..n : /\ Opened(s)[i].price = log[j].price
                            /\ Behind(Opened(s), i - 1) = OpenedAfter(log, s, j)
                            /\ Behind(Opened(s), i) = OpenedAfter(log, s, j - 1)
      BY <2>1, OpenedBehind
    <2>3. /\ log \in Seq(Trades) /\ j \in 1..Len(log) /\ j \in 0..Len(log) /\ j - 1 \in 0..Len(log)
      BY DEF ExchangeShape
    <2>4. OpenedAfter(log, s, j) \in Int /\ OpenedAfter(log, s, j - 1) \in Int
      BY <2>3, AfterInt
    <2>5. FromTrade(log, s, k, j)
      BY <2>1, <2>2, <2>4 DEF FromTrade
    <2>6. PriceAt(log, s, k) = log[j].price /\ k + 0 = k
      BY <2>1, <2>3, <2>5, PriceIs
    <2> QED
      BY <2>2, <2>6
  <1> QED
    BY <1>1 DEF ListFrom

(* A list without lots is right.                                           *)
LEMMA NoneFrom ==
    ASSUME NEW list \in Seq(Entries), Lots(list) = 0, NEW l, NEW s, NEW c
    PROVE  ListFrom(list, l, s, c)
  <1>1. ASSUME NEW i \in DOMAIN list, NEW k \in (Behind(list, i) + 1)..Behind(list, i - 1)
        PROVE  FALSE
    BY LotOfList
  <1> QED
    BY <1>1 DEF ListFrom

(* When the portfolio is built, today's lists have the lots the report     *)
(* says, and they are those opened last.                                   *)
LEMMA BuildLists == ASSUME IInv, LInv, dead = "no", BuildPortfolio PROVE LInv'
  <1>1. /\ sync = "dated" /\ sync' = "ready" /\ UNCHANGED exchange /\ UNCHANGED caching
        /\ reported' = reported /\ report' = report /\ noted' = noted /\ again' = again
        /\ backward' = {} /\ realized' = report.realized /\ late' = (entering # <<>>)
        /\ \A s \in Sides : /\ holding'[s].old = <<[price |-> PreSettlement, lots |-> report.old[s]]>>
                            /\ holding'[s].today = TodayList(s)
    BY DEF BuildPortfolio, stream
  <1>2. log' = log /\ cached' = cached
    BY <1>1 DEF exchange, caching
  <1>3. PricesRight' /\ CacheRight'
    BY <1>1, PricesSame, CacheReady DEF LInv
  <1>4. ReportRight'
    BY <1>1, <1>2 DEF LInv, ReportRight
  <1>5. /\ ExchangeShape /\ StartShape /\ LogRight /\ log \in Seq(Trades) /\ Sane(log)
        /\ reported \in 0..Len(log) /\ reported \in Nat
    <2>1. ExchangeShape /\ StartShape /\ LogRight
      BY DEF IInv, Shape
    <2> QED
      BY <2>1, LogSane DEF ExchangeShape, StartShape
  <1>6. Applied' = reported
    BY <1>1, <1>5, FS_EmptySet DEF Applied
  <1>7. ASSUME Regular', IsInjective(cached), NEW s \in Sides
        PROVE  ListFrom(TodayList(s), log, s, ClosedAfter(log, s, reported))
    <2> DEFINE n == reported
               a == OpenedAfter(log, s, n)
               c == ClosedAfter(log, s, n)
    <2>1. noted = n /\ entering = <<>>
      BY <1>1, <1>7 DEF Regular
    <2>2. report.today[s] = NewAfter(log, s, n)
      BY <1>1 DEF IInv, StartRight
    <2>3. c \in Nat /\ NewAfter(log, s, n) \in Nat /\ a = NewAfter(log, s, n) + c
      BY <1>5, ClosedOf
    <2>4. CASE n = 0
      <3>1. report.today[s] = 0
        BY <2>2, <2>4, AfterNone
      <3>2. Lots(Opened(s)) \in Nat
        <4>1. Opened(s) \in Seq(Entries)
          BY <1>5, OpenedLots DEF StartShape
        <4> QED
          BY <4>1, LotsNat
      <3>3. TodayList(s) \in Seq(Entries) /\ Lots(TodayList(s)) = 0
        BY <1>5, <3>1, <3>2, TodayLots
      <3> QED
        BY <3>3, NoneFrom
    <2>5. CASE n # 0
      <3>1. Came = cached
        BY <1>5, <2>1, CameTyped
      <3>2. Len(cached) = n /\ \A i \in 1..n : cached[i] = log[i]
        BY <1>1, <1>7, <2>1, <2>5, <3>1 DEF LInv, CacheRight, InOrder
      <3>3. /\ Opened(s) \in Seq(Entries) /\ Lots(Opened(s)) = a
            /\ ListFrom(Opened(s), log, s, 0)
        BY <1>5, <3>2, OpenedBehind, OpenedFrom
      <3>4. TodayList(s) = Rest(Opened(s), c)
        <4>1. Lots(Opened(s)) - report.today[s] = c
          BY <2>2, <2>3, <3>3
        <4> QED
          BY <4>1 DEF TodayList
      <3>5. c \in 0..Lots(Opened(s)) /\ 0 + c = c /\ 0 \in Nat
        BY <2>3, <3>3
      <3> HIDE DEF c
      <3>6. ListFrom(Rest(Opened(s), c), log, s, 0 + c)
        BY <3>3, <3>5, RestFrom
      <3> QED
        BY <3>4, <3>5, <3>6 DEF c
    <2> QED
      BY <2>4, <2>5
  <1>8. ListsRight'
    <2> SUFFICES ASSUME Regular', IsInjective(cached)
                 PROVE  /\ realized' = EarnedAfter(log, reported)
                        /\ \A s \in Sides :
                           /\ \A i \in DOMAIN holding'[s].old : holding'[s].old[i].price = PreSettlement
                           /\ ListFrom(holding'[s].today, log, s, ClosedAfter(log, s, reported))
      BY <1>2, <1>6 DEF ListsRight
    <2>1. realized' = EarnedAfter(log, reported)
      BY <1>1 DEF LInv, ReportRight
    <2>2. ASSUME NEW s \in Sides, NEW i \in DOMAIN holding'[s].old
          PROVE  holding'[s].old[i].price = PreSettlement
      <3>1. PICK e, list : /\ e = [price |-> PreSettlement, lots |-> report.old[s]] /\ list = <<e>>
                           /\ list = holding'[s].old
        BY <1>1
      <3>2. e.price = PreSettlement
        BY <3>1
      <3>3. DOMAIN list = {1} /\ list[1] = e
        BY <3>1
      <3>4. i = 1
        BY <3>1, <3>3
      <3> QED
        BY <3>1, <3>2, <3>3, <3>4
    <2> QED
      BY <1>1, <1>7, <2>1, <2>2
  <1> QED
    BY <1>3, <1>4, <1>8 DEF LInv
-----------------------------------------------------------------------------
(* Trades that are applied.                                                *)

(* What closing no lots earns.                                             *)
LEMMA NoEarning ==
    ASSUME NEW s \in Sides, NEW list \in Seq(Entries), NEW price \in Int
    PROVE  Earning(s, list, 0, price) = 0
  <1>1. PICK v : v = [k \in {} |-> 0]
    OBVIOUS
  <1>2. 0 \in 0..Lots(list) /\ 1..0 = {}
    BY LotsNat
  <1>3. ASSUME NEW i \in 1..Len(list), NEW k \in (Behind(list, i) + 1)..Behind(list, i - 1)
        PROVE  k > 0
    <2>1. i \in DOMAIN list
      OBVIOUS
    <2>2. k \in 1..Lots(list) /\ Lots(list) \in Nat
      BY <2>1, LotOfList
    <2> QED
      BY <2>2
  <1>4. \A i \in 1..Len(list) : \A k \in (Behind(list, i) + 1)..Behind(list, i - 1) :
           k <= 0 => v[k] = Earned(s, list[i].price, price)
    <2> TAKE i \in 1..Len(list)
    <2> TAKE k \in (Behind(list, i) + 1)..Behind(list, i - 1)
    <2>1. k > 0 /\ k \in Int
      <3>1. i \in DOMAIN list
        OBVIOUS
      <3>2. k \in Int
        BY <3>1, LotOfList
      <3> QED
        BY <1>3, <3>2
    <2> QED
      BY <2>1
  <1>5. Earning(s, list, 0, price) = SumFunctionOnSet(v, 1..0)
    BY <1>2, <1>4, EarningIs
  <1> QED
    BY <1>2, <1>5, SumOfNone

(* What closing lots of one price earns.                                   *)
LEMMA OneEarning ==
    ASSUME NEW s \in Sides, NEW list \in Seq(Entries), NEW left \in 0..Lots(list),
           NEW price \in Int, NEW from \in Int, \A i \in DOMAIN list : list[i].price = from
    PROVE  Earning(s, list, left, price) = left * Earned(s, from, price)
  <1>1. PICK v : v = [k \in 1..left |-> Earned(s, from, price)]
    OBVIOUS
  <1>2. Earned(s, from, price) \in Int /\ left \in Nat
    BY LotsNat DEF Earned
  <1>3. \A k \in 1..left : v[k] = Earned(s, from, price) /\ v[k] \in Int
    BY <1>1, <1>2
  <1>4. \A i \in 1..Len(list) : \A k \in (Behind(list, i) + 1)..Behind(list, i - 1) :
           k <= left => v[k] = Earned(s, list[i].price, price)
    <2> TAKE i \in 1..Len(list)
    <2> TAKE k \in (Behind(list, i) + 1)..Behind(list, i - 1)
    <2> HAVE k <= left
    <2>1. i \in DOMAIN list
      OBVIOUS
    <2>2. k \in 1..Lots(list)
      BY <2>1, LotOfList
    <2>3. k \in 1..left
      BY <1>2, <2>2
    <2> QED
      BY <1>3, <2>1, <2>3
  <1>5. Earning(s, list, left, price) = SumFunctionOnSet(v, 1..left)
    <2>1. \A k \in 1..left : v[k] \in Int
      BY <1>3
    <2>2. s \in Sides /\ list \in Seq(Entries) /\ left \in 0..Lots(list) /\ price \in Int
      OBVIOUS
    <2> QED
      BY ONLY <1>4, <2>1, <2>2, EarningIs
  <1>6. SumFunctionOnSet(v, 1..left) = left * Earned(s, from, price)
    BY <1>2, <1>3, SumOfConstant
  <1> QED
    BY <1>5, <1>6

(* What closing the first lots of a list right by the log earns.           *)
LEMMA ListEarning ==
    ASSUME NEW l, NEW s \in Sides, NEW c, NEW list \in Seq(Entries), ListFrom(list, l, s, c),
           NEW left \in 0..Lots(list), NEW price \in Int,
           \A k \in 1..left : EarnedAt(l, s, c, k, price) \in Int
    PROVE  Earning(s, list, left, price)
             = SumFunctionOnSet([k \in 1..left |-> EarnedAt(l, s, c, k, price)], 1..left)
  <1>1. PICK v : v = [k \in 1..left |-> EarnedAt(l, s, c, k, price)]
    OBVIOUS
  <1>2. left \in Nat
    BY LotsNat
  <1>3. \A k \in 1..left : v[k] \in Int
    BY <1>1
  <1>4. \A i \in 1..Len(list) : \A k \in (Behind(list, i) + 1)..Behind(list, i - 1) :
           k <= left => v[k] = Earned(s, list[i].price, price)
    <2> TAKE i \in 1..Len(list)
    <2> TAKE k \in (Behind(list, i) + 1)..Behind(list, i - 1)
    <2> HAVE k <= left
    <2>1. i \in DOMAIN list
      OBVIOUS
    <2>2. k \in 1..Lots(list)
      BY <2>1, LotOfList
    <2>3. k \in 1..left
      BY <1>2, <2>2
    <2>4. list[i].price = PriceAt(l, s, k + c)
      BY <2>1 DEF ListFrom
    <2> QED
      BY <1>1, <2>3, <2>4 DEF EarnedAt
  <1>5. Earning(s, list, left, price) = SumFunctionOnSet(v, 1..left)
    BY <1>3, <1>4, EarningIs
  <1> QED
    BY <1>1, <1>5

(* For today's lots it is what it earned at the exchange.                  *)
LEMMA TodayEarning ==
    ASSUME NEW l \in Seq(Trades), Sane(l), NEW i \in 1..Len(l), l[i].effect = "CLOSE_TODAY",
           NEW list \in Seq(Entries),
           ListFrom(list, l, HeldSide(l[i]), ClosedAfter(l, HeldSide(l[i]), i - 1)),
           l[i].lots \in 0..Lots(list)
    PROVE  Earning(HeldSide(l[i]), list, l[i].lots, l[i].price) = EarnedBy(l, i)
  <1> DEFINE s == HeldSide(l[i])
             c == ClosedAfter(l, s, i - 1)
             n == l[i].lots
             price == l[i].price
  <1>1. l[i] \in Trades
    BY ElementOfSeq
  <1>2. s \in Sides /\ price \in Nat /\ price \in Int /\ n \in 0..Lots(list)
    BY <1>1, TradeTyped
  <1>3. \A k \in 1..n : PriceAt(l, s, k + c) \in Nat
    <2> TAKE k \in 1..n
    <2>1. i - 1 \in 0..Len(l) /\ k + c \in 1..OpenedAfter(l, s, i - 1)
      BY ClosedLotsOpened
    <2> QED
      BY <1>2, <2>1, PriceNat
  <1>4. EarnedBy(l, i) = SumFunctionOnSet([k \in 1..n |-> EarnedAt(l, s, c, k, price)], 1..n)
    BY DEF EarnedBy, TodayEarned
  <1>5. ListFrom(list, l, s, c)
    OBVIOUS
  <1> HIDE DEF s, c, n, price
  <1>6. \A k \in 1..n : EarnedAt(l, s, c, k, price) \in Int
    BY <1>2, <1>3 DEF EarnedAt, Earned
  <1>7. Earning(s, list, n, price)
          = SumFunctionOnSet([k \in 1..n |-> EarnedAt(l, s, c, k, price)], 1..n)
    BY <1>2, <1>5, <1>6, ListEarning
  <1> QED
    BY <1>4, <1>7 DEF s, n, price

(* The next trade, and what is said of the lists once it is applied.       *)
LEMMA AppliedLists ==
    ASSUME IInv, LInv, dead = "no", Take, sync = "ready", Msg.id \notin backward, Regular, Plain
    PROVE  LET n == Applied IN
              /\ n \in Nat /\ n + 1 \in 1..Len(log) /\ log[n + 1] = Msg /\ (n + 1) - 1 = n
              /\ n \in 0..Len(log) /\ n + 1 <= Len(log)
              /\ log \in Seq(Trades) /\ Sane(log)
              /\ EarnedAfter(log, n + 1) = EarnedAfter(log, n) + EarnedBy(log, n + 1)
              /\ EarnedAfter(log, n) \in Int
              /\ \A s \in Sides :
                    ClosedAfter(log, s, n + 1) = ClosedAfter(log, s, n) + ClosedPart(s, Msg)
  <1> DEFINE n == Applied
  <1>1. /\ n \in Nat /\ n + 1 <= Len(log) /\ got = n /\ Msg = log[got + 1]
    BY NextApplied, NextTrade
  <1>2. log \in Seq(Trades) /\ Sane(log)
    BY LogSane DEF IInv, Shape, ExchangeShape
  <1> HIDE DEF n
  <1>3. n + 1 \in 1..Len(log) /\ log[n + 1] = Msg /\ (n + 1) - 1 = n /\ n \in 0..Len(log)
    BY <1>1, <1>2
  <1>4. EarnedAfter(log, n + 1) = EarnedAfter(log, n) + EarnedBy(log, n + 1)
    BY <1>1, <1>2, EarnedNext
  <1>5. Longer(log, log)
    BY <1>2 DEF Longer
  <1>6. EarnedAfter(log, n) \in Int
    BY <1>2, <1>3, <1>5, EarnedAfterKept
  <1>7. \A s \in Sides :
           ClosedAfter(log, s, n + 1) = ClosedAfter(log, s, n) + ClosedPart(s, Msg)
    BY <1>1, <1>2, <1>3, ClosedNext
  <1> QED
    BY <1>1, <1>2, <1>3, <1>4, <1>6, <1>7 DEF n

(* What an opening trade adds is the lots opened last.                     *)
LEMMA OpenLists == ASSUME IInv, LInv, dead = "no", ApplyOpen PROVE LInv'
  <1> DEFINE t == Msg.side
             e == [price |-> Msg.price, lots |-> Msg.lots]
             n == Applied
  <1>1. /\ Take /\ sync = "ready" /\ Msg.id \notin backward /\ Msg.effect = "OPEN"
        /\ holding' = [holding EXCEPT ![t].today = <<e>> \o @] /\ realized' = realized + 0
        /\ backward' = backward \cup {Msg.id}
        /\ UNCHANGED <<exchange, start, caching, strategy, again, dead>>
    BY DEF ApplyOpen, Apply
  <1>2. /\ log' = log /\ cached' = cached /\ sync' = "ready" /\ UNCHANGED exchange /\ UNCHANGED start
    BY <1>1 DEF exchange, start, caching
  <1>3. PricesRight' /\ ReportRight' /\ CacheRight'
    BY <1>2, PricesSame, ReportSame, CacheReady DEF LInv
  <1>4. ListsRight'
    <2> SUFFICES ASSUME Regular', Plain', IsInjective(cached)
                 PROVE  /\ realized' = EarnedAfter(log, Applied')
                        /\ \A s \in Sides :
                           /\ \A i \in DOMAIN holding'[s].old : holding'[s].old[i].price = PreSettlement
                           /\ ListFrom(holding'[s].today, log, s, ClosedAfter(log, s, Applied'))
      BY <1>2 DEF ListsRight
    <2>1. Regular /\ Plain /\ Applied' = n + 1
      <3>1. Regular /\ Applied' = n + 1
        BY <1>1, AppliedKeeps
      <3> QED
        BY <1>2, <3>1 DEF Plain
    <2>2. /\ n \in Nat /\ n + 1 \in 1..Len(log) /\ log[n + 1] = Msg /\ n + 1 <= Len(log)
          /\ log \in Seq(Trades)
          /\ EarnedAfter(log, n + 1) = EarnedAfter(log, n) + EarnedBy(log, n + 1)
          /\ EarnedAfter(log, n) \in Int
          /\ \A s \in Sides :
                ClosedAfter(log, s, n + 1) = ClosedAfter(log, s, n) + ClosedPart(s, Msg)
      BY <1>1, <2>1, AppliedLists
    <2>3. /\ realized = EarnedAfter(log, n)
          /\ \A s \in Sides :
             /\ \A i \in DOMAIN holding[s].old : holding[s].old[i].price = PreSettlement
             /\ ListFrom(holding[s].today, log, s, ClosedAfter(log, s, n))
      BY <1>1, <2>1 DEF LInv, ListsRight
    <2>4. /\ Msg \in Trades /\ t \in Sides /\ e \in Entries /\ e.price = Msg.price /\ e.lots = Msg.lots
      <3>1. Msg \in Trades /\ t \in Sides /\ Msg.lots \in Nat /\ Msg.price \in Nat
        BY <1>1, NextTrade
      <3> QED
        BY <3>1 DEF Entries
    <2>5. \A s \in Sides : /\ holding'[s].old = holding[s].old
                           /\ holding'[s].today = IF s = t THEN <<e>> \o holding[s].today
                                                           ELSE holding[s].today
      <3>1. holding \in [Sides -> [old : Seq(Entries), today : Seq(Entries)]]
        BY DEF IInv, Shape, AccountShape
      <3> HIDE DEF e, t
      <3> QED
        BY <1>1, <2>4, <3>1
    <2>6. /\ EarnedBy(log, n + 1) = 0
          /\ \A s \in Sides : ClosedPart(s, Msg) = 0 /\ ClosedAfter(log, s, n) \in Nat
                              /\ holding[s].today \in Seq(Entries)
                              /\ Lots(holding[s].today) + ClosedAfter(log, s, n) = OpenedAfter(log, s, n)
      <3>1. \A s \in Sides : /\ ClosedAfter(log, s, n) \in Nat /\ holding[s].today \in Seq(Entries)
                             /\ Lots(holding[s].today) + ClosedAfter(log, s, n) = OpenedAfter(log, s, n)
        BY <1>1, <2>1, ListsTotal
      <3> QED
        BY <1>1, <2>2, <3>1 DEF EarnedBy, ClosedPart
    <2> HIDE DEF n, e, t
    <2>7. realized' = EarnedAfter(log, n + 1)
      BY <1>1, <2>2, <2>3, <2>6
    <2>8. \A s \in Sides : ClosedAfter(log, s, n + 1) = ClosedAfter(log, s, n)
      BY <2>2, <2>6
    <2>9. ASSUME NEW s \in Sides
          PROVE  ListFrom(holding'[s].today, log, s, ClosedAfter(log, s, n))
      <3>1. CASE s = t
        <4>1. log[n + 1].effect = "OPEN" /\ log[n + 1].side = s
          BY <1>1, <2>2, <3>1 DEF t
        <4>2. e.price = log[n + 1].price /\ e.lots = log[n + 1].lots
          BY <2>2, <2>4
        <4>3. ListFrom(<<e>> \o holding[s].today, log, s, ClosedAfter(log, s, n))
          BY <2>2, <2>3, <2>4, <2>6, <4>1, <4>2, ConsFrom
        <4> QED
          BY <2>5, <3>1, <4>3
      <3>2. CASE s # t
        BY <2>3, <2>5, <3>2
      <3> QED
        BY <3>1, <3>2
    <2> QED
      BY <2>1, <2>3, <2>5, <2>7, <2>8, <2>9
  <1> QED
    BY <1>3, <1>4 DEF LInv

(* A closing trade takes lots of the kind it says: of yesterday's, or of   *)
(* today's if there are none of yesterday's.                               *)
LEMMA CloseTakes ==
    ASSUME IInv, dead = "no", Take, sync = "ready", Msg.id \notin backward, Msg.effect # "OPEN",
           Regular, Plain
    PROVE  LET t    == HeldSide(Msg)
               old  == FromOld(holding[t], Msg.lots)
               left == Msg.lots - old
           IN  /\ t \in Sides /\ Msg.lots \in Nat
               /\ old \in 0..Lots(holding[t].old) /\ left \in 0..Lots(holding[t].today)
               /\ \/ Msg.effect = "CLOSE" /\ old = Msg.lots /\ left = 0
                  \/ Msg.effect = "CLOSE_TODAY" /\ old = 0 /\ left = Msg.lots
  <1> DEFINE t    == HeldSide(Msg)
             old  == FromOld(holding[t], Msg.lots)
             left == Msg.lots - old
             O    == OldAfter(log, t, Applied)
             N    == NewAfter(log, t, Applied)
  <1>1. /\ Msg \in Trades /\ t \in Sides /\ Msg.lots \in Nat /\ Msg.effect \in Effects
        /\ Msg = log[got + 1] /\ got + 1 \in DOMAIN log
    <2>1. /\ Msg \in Trades /\ t \in Sides /\ Msg.lots \in Nat /\ Msg.effect \in Effects
          /\ Msg = log[got + 1] /\ got + 1 \in 1..Len(log)
      BY NextTrade
    <2> QED
      BY <2>1 DEF IInv, Shape, ExchangeShape
  <1>2. /\ Lots(holding[t].old) = O /\ Lots(holding[t].today) = N
    BY <1>1, ListsTotal
  <1>3. /\ O \in Nat /\ N \in Nat /\ O <= OldLots[t]
        /\ O + OldPart(t, Msg) >= 0 /\ N + NewPart(t, Msg) >= 0
    <2>1. /\ O \in Nat /\ N \in Nat /\ O <= OldLots[t]
          /\ OldAfter(log, t, Applied + 1) = O + OldPart(t, Msg)
          /\ NewAfter(log, t, Applied + 1) = N + NewPart(t, Msg)
          /\ OldAfter(log, t, Applied + 1) >= 0 /\ NewAfter(log, t, Applied + 1) >= 0
      BY <1>1, NextApplied
    <2> QED
      BY <2>1
  <1>4. old = IF Msg.lots < O THEN Msg.lots ELSE O
    BY <1>2 DEF FromOld
  <1>5. Msg.effect = "CLOSE" => OldPart(t, Msg) = -Msg.lots
    BY DEF OldPart
  <1>6. Msg.effect = "CLOSE_TODAY" => NewPart(t, Msg) = -Msg.lots /\ OldLots[t] = 0
    BY <1>1 DEF NewPart, Plain
  <1> HIDE DEF O, N, t, old
  <1>7. CASE Msg.effect = "CLOSE"
    <2>1. Msg.lots <= O
      BY <1>1, <1>3, <1>5, <1>7
    <2>2. old = Msg.lots /\ left = 0
      BY <1>1, <1>3, <1>4, <2>1
    <2> QED
      BY <1>1, <1>2, <1>3, <1>7, <2>1, <2>2 DEF t, old
  <1>8. CASE Msg.effect = "CLOSE_TODAY"
    <2>1. Msg.lots <= N /\ O = 0
      BY <1>1, <1>3, <1>6, <1>8
    <2>2. old = 0 /\ left = Msg.lots
      BY <1>1, <1>3, <1>4, <2>1
    <2> QED
      BY <1>1, <1>2, <1>3, <1>8, <2>1, <2>2 DEF t, old
  <1> QED
    BY <1>1, <1>7, <1>8 DEF Effects

(* What a closing trade takes is the lots opened first of those that are   *)
(* left, and it earns what it earned at the exchange.                      *)
LEMMA CloseLists == ASSUME IInv, LInv, dead = "no", ApplyClose PROVE LInv'
  <1> DEFINE t    == HeldSide(Msg)
             h    == holding[t]
             old  == FromOld(h, Msg.lots)
             left == Msg.lots - old
             rest == [holding EXCEPT ![t] = [old |-> Rest(h.old, old), today |-> Rest(h.today, left)]]
             pnl  == Earning(t, h.old, old, Msg.price) + Earning(t, h.today, left, Msg.price)
             n    == Applied
  <1>1. /\ Take /\ sync = "ready" /\ Msg.id \notin backward /\ Msg.effect # "OPEN"
        /\ UNCHANGED exchange /\ again' = again
        /\ UNCHANGED start /\ UNCHANGED caching /\ UNCHANGED strategy
    BY DEF ApplyClose
  <1>2. \/ dead' = "back"
        \/ /\ holding' = rest /\ realized' = realized + pnl
           /\ backward' = backward \cup {Msg.id} /\ dead' = dead
    BY DEF ApplyClose, Apply
  <1>3. log' = log /\ cached' = cached /\ sync' = "ready"
    BY <1>1 DEF exchange, start, caching
  <1>4. PricesRight' /\ ReportRight' /\ CacheRight'
    BY <1>1, <1>3, PricesSame, ReportSame, CacheReady DEF LInv
  <1>5. CASE dead' = "back"
    BY <1>4, <1>5, ListsNone DEF LInv
  <1>6. CASE /\ holding' = rest /\ realized' = realized + pnl
             /\ backward' = backward \cup {Msg.id} /\ dead' = dead
    <2> SUFFICES ASSUME Regular', Plain', IsInjective(cached)
                 PROVE  /\ realized' = EarnedAfter(log, Applied')
                        /\ \A s \in Sides :
                           /\ \A i \in DOMAIN holding'[s].old : holding'[s].old[i].price = PreSettlement
                           /\ ListFrom(holding'[s].today, log, s, ClosedAfter(log, s, Applied'))
      BY <1>3, <1>4 DEF ListsRight, LInv
    <2>1. Regular /\ Plain /\ Applied' = n + 1
      <3>1. UNCHANGED <<exchange, start, caching, strategy, again, dead>>
        BY <1>1, <1>6
      <3>2. Regular /\ Applied' = n + 1
        BY <1>1, <1>6, <3>1, AppliedKeeps
      <3> QED
        BY <1>3, <3>2 DEF Plain
    <2>2. /\ n \in Nat /\ n + 1 \in 1..Len(log) /\ log[n + 1] = Msg /\ (n + 1) - 1 = n
          /\ log \in Seq(Trades) /\ Sane(log)
          /\ EarnedAfter(log, n + 1) = EarnedAfter(log, n) + EarnedBy(log, n + 1)
          /\ EarnedAfter(log, n) \in Int
          /\ \A s \in Sides :
                ClosedAfter(log, s, n + 1) = ClosedAfter(log, s, n) + ClosedPart(s, Msg)
      BY <1>1, <2>1, AppliedLists
    <2>3. /\ realized = EarnedAfter(log, n)
          /\ \A s \in Sides :
             /\ \A i \in DOMAIN holding[s].old : holding[s].old[i].price = PreSettlement
             /\ ListFrom(holding[s].today, log, s, ClosedAfter(log, s, n))
      BY <1>1, <2>1 DEF LInv, ListsRight
    <2>4. /\ t \in Sides /\ Msg.lots \in Nat /\ old \in 0..Lots(h.old) /\ left \in 0..Lots(h.today)
          /\ \/ Msg.effect = "CLOSE" /\ old = Msg.lots /\ left = 0
             \/ Msg.effect = "CLOSE_TODAY" /\ old = 0 /\ left = Msg.lots
      BY <1>1, <2>1, CloseTakes
    <2>5. /\ holding \in [Sides -> [old : Seq(Entries), today : Seq(Entries)]]
          /\ \A s \in Sides : /\ holding[s].old \in Seq(Entries) /\ holding[s].today \in Seq(Entries)
                              /\ ClosedAfter(log, s, n) \in Nat
      <3>1. holding \in [Sides -> [old : Seq(Entries), today : Seq(Entries)]]
        BY DEF IInv, Shape, AccountShape
      <3> QED
        BY <1>1, <2>1, <3>1, ListsTotal
    <2>6. Msg.price \in Int /\ PreSettlement \in Int
      <3>1. Msg.price \in Nat
        BY <1>1, NextTrade
      <3> QED
        BY <3>1, ConstAssumption
    <2> HIDE DEF n, left, old
    <2>7. /\ holding'[t].old = Rest(h.old, old) /\ holding'[t].today = Rest(h.today, left)
          /\ \A s \in Sides : s # t => holding'[s] = holding[s]
      <3> HIDE DEF h, t
      <3> QED
        BY <1>6, <2>4, <2>5
    <2>8. \A s \in Sides : ClosedPart(s, Msg) = IF s = t THEN left ELSE 0
      <3>1. CASE Msg.effect = "CLOSE"
        BY <2>4, <3>1 DEF ClosedPart
      <3>2. CASE Msg.effect = "CLOSE_TODAY"
        BY <2>4, <3>2 DEF ClosedPart
      <3> QED
        BY <2>4, <3>1, <3>2
    <2>9. pnl = EarnedBy(log, n + 1)
      <3>1. CASE Msg.effect = "CLOSE"
        <4>1. old = Msg.lots /\ left = 0
          BY <2>4, <3>1
        <4>2. Earning(t, h.old, old, Msg.price) = old * Earned(t, PreSettlement, Msg.price)
          BY <2>3, <2>4, <2>5, <2>6, OneEarning
        <4>3. Earning(t, h.today, left, Msg.price) = 0
          BY <2>4, <2>5, <2>6, <4>1, NoEarning
        <4>4. EarnedBy(log, n + 1) = Msg.lots * Earned(t, PreSettlement, Msg.price)
          BY <2>2, <3>1 DEF EarnedBy
        <4>5. Msg.lots * Earned(t, PreSettlement, Msg.price) \in Int
          <5>1. Earned(t, PreSettlement, Msg.price) \in Int
            BY <2>6 DEF Earned
          <5> QED
            BY <2>4, <5>1
        <4> QED
          BY <4>1, <4>2, <4>3, <4>4, <4>5
      <3>2. CASE Msg.effect = "CLOSE_TODAY"
        <4>1. old = 0 /\ left = Msg.lots
          BY <2>4, <3>2
        <4>2. Earning(t, h.old, old, Msg.price) = 0
          BY <2>4, <2>5, <2>6, <4>1, NoEarning
        <4>3. Earning(t, h.today, left, Msg.price) = EarnedBy(log, n + 1)
          <5>1. /\ log[n + 1].effect = "CLOSE_TODAY" /\ HeldSide(log[n + 1]) = t
                /\ log[n + 1].lots = left /\ log[n + 1].price = Msg.price
            BY <2>2, <3>2, <4>1
          <5>2. ListFrom(h.today, log, t, ClosedAfter(log, t, (n + 1) - 1))
            BY <2>2, <2>3, <2>4
          <5>3. left \in 0..Lots(h.today) /\ h.today \in Seq(Entries)
            BY <2>4, <2>5
          <5> HIDE DEF t, h
          <5> QED
            BY <2>2, <5>1, <5>2, <5>3, TodayEarning
        <4>4. EarnedBy(log, n + 1) \in Int
          BY <2>2, EarnedInt
        <4> QED
          BY <4>2, <4>3, <4>4
      <3> QED
        BY <2>4, <3>1, <3>2
    <2>10. realized' = EarnedAfter(log, n + 1)
      BY <1>6, <2>2, <2>3, <2>9
    <2>11. ASSUME NEW s \in Sides
           PROVE  /\ \A i \in DOMAIN holding'[s].old : holding'[s].old[i].price = PreSettlement
                  /\ ListFrom(holding'[s].today, log, s, ClosedAfter(log, s, n + 1))
      <3>1. CASE s # t
        <4>1. ClosedAfter(log, s, n + 1) = ClosedAfter(log, s, n)
          BY <2>2, <2>5, <2>8, <3>1
        <4> QED
          BY <2>3, <2>7, <3>1, <4>1
      <3>2. CASE s = t
        <4>1. ClosedAfter(log, s, n + 1) = ClosedAfter(log, s, n) + left
          BY <2>2, <2>8, <3>2
        <4>2. ListFrom(Rest(h.today, left), log, t, ClosedAfter(log, t, n) + left)
          BY <2>3, <2>4, <2>5, RestFrom
        <4>3. \A i \in DOMAIN Rest(h.old, old) : Rest(h.old, old)[i].price = PreSettlement
          <5>1. PICK m \in 0..Len(h.old) :
                   /\ DOMAIN Rest(h.old, old) = 1..m
                   /\ \A i \in 1..m : Rest(h.old, old)[i].price = h.old[i].price
            BY <2>4, <2>5, RestBehind
          <5>2. \A i \in 1..m : i \in DOMAIN h.old
            BY <2>4, <2>5
          <5> QED
            BY <2>3, <2>4, <5>1, <5>2
        <4> QED
          BY <2>7, <3>2, <4>1, <4>2, <4>3
      <3> QED
        BY <3>1, <3>2
    <2> QED
      BY <2>1, <2>10, <2>11
  <1> QED
    BY <1>2, <1>5, <1>6
-----------------------------------------------------------------------------
(* The lots of the lists are the exchange's.                               *)

(* It is so at first.                                                      *)
LEMMA InitLists == Init => LInv
  <1> SUFFICES ASSUME Init PROVE LInv
    OBVIOUS
  <1>1. /\ \A s \in Sides : exToday[s] = <<>>
        /\ exRealized = 0 /\ log = <<>> /\ got = 0 /\ sync = "logged_in" /\ cached = <<>>
        /\ entering = <<>>
    BY DEF Init
  <1>2. EarnedAfter(log, 0) = 0 /\ Len(log) = 0
    <2>1. 1..0 = {}
      OBVIOUS
    <2> QED
      BY <1>1, <2>1, SumOfNone DEF EarnedAfter
  <1>3. PricesRight
    BY <1>1, <1>2 DEF PricesRight
  <1>4. Came = <<>>
    BY <1>1 DEF Came
  <1>5. CacheRight
    BY <1>1, <1>4 DEF CacheRight, InOrder
  <1> QED
    BY <1>1, <1>3, <1>5 DEF LInv, ReportRight, ListsRight

(* Every step keeps what is said of prices, cache, report and lists.        *)
LEMMA NextLists == IInv /\ LInv /\ [Next]_vars => LInv'
  <1> SUFFICES ASSUME IInv, LInv, [Next]_vars PROVE LInv'
    OBVIOUS
  <1>1. CASE UNCHANGED vars
    <2>1. /\ UNCHANGED exchange /\ UNCHANGED stream /\ UNCHANGED start /\ UNCHANGED caching
          /\ UNCHANGED account /\ dead' = dead
      BY <1>1 DEF vars, exchange, stream, start, caching, account
    <2> QED
      BY <2>1, StrategyLists
  <1>2. CASE Next
    <2>1. dead = "no"
      BY <1>2 DEF Next
    <2>2. ASSUME NEW side \in Sides, NEW effect \in Effects, NEW lots \in 1..MaxLots,
                 ExchangeTrade(side, effect, lots)
          PROVE  LInv'
      BY <2>1, <2>2, ExchangeLists
    <2>3. ASSUME NEW side \in Sides, NEW effect \in Effects, NEW amount \in Amounts,
                 ReadFirst(side, effect, amount)
          PROVE  LInv'
      BY <2>3, StrategyLists DEF ReadFirst
    <2>4. CASE Relogin
      BY <2>1, <2>4, ReloginLists
    <2>5. CASE QryPosition
      BY <2>1, <2>5, QryLists
    <2>6. CASE NoteDate
      BY <2>1, <2>6, NoteLists
    <2>7. CASE BuildPortfolio
      BY <2>1, <2>7, BuildLists
    <2>8. CASE SeeOldDate
      BY <2>1, <2>8, OldDateLists
    <2>9. CASE CacheTrade
      BY <2>1, <2>9, CacheLists
    <2>10. CASE NoPortfolio
      BY <2>1, <2>10, NoPortfolioLists
    <2>11. CASE SkipTrade
      BY <2>1, <2>11, SkipLists
    <2>12. CASE ApplyOpen
      BY <2>1, <2>12, OpenLists
    <2>13. CASE ApplyClose
      BY <2>1, <2>13, CloseLists
    <2>14. CASE SplitOrder \/ Submit
      BY <2>14, StrategyLists DEF SplitOrder, Submit
    <2> QED
      BY <1>2, <2>2, <2>3, <2>4, <2>5, <2>6, <2>7, <2>8, <2>9, <2>10, <2>11, <2>12, <2>13, <2>14
         DEF Next
  <1> QED
    BY <1>1, <1>2

(* Unless a CLOSE_TODAY found lots of yesterday, or the stream brought a   *)
(* trade twice before the start, a program that has caught up after a      *)
(* regular start holds the exchange's lots, at the same prices in the same *)
(* order, and has booked what closing has earned (positions, apply_trade). *)
THEOREM PricesAgree == Spec => []LotsRight
  <1>1. IInv /\ LInv => LotsRight
    <2> SUFFICES ASSUME IInv, LInv, CaughtUp, Regular, Plain, IsInjective(cached)
                 PROVE  /\ realized = exRealized
                        /\ \A s \in Sides :
                              /\ Lots(holding[s].old) = exOld[s]
                              /\ HasPrices(holding[s].today, exToday[s])
      BY DEF LotsRight
    <2>1. sync = "ready" /\ dead = "no" /\ got = Len(log)
      BY DEF CaughtUp
    <2>2. ASSUME NEW s \in Sides
          PROVE  /\ Applied = Len(log) /\ exToday[s] \in Seq(Nat)
                 /\ Len(exToday[s]) = NewAfter(log, s, Len(log))
                 /\ holding[s].today \in Seq(Entries)
                 /\ Lots(holding[s].today) = NewAfter(log, s, Applied)
      <3>1. Applied \in 0..Len(log) /\ Len(log) \in Nat
        BY <2>1, ListsTotal DEF IInv, Shape, ExchangeShape
      <3>2. got <= Applied
        BY <2>1 DEF IInv, HeldRight
      <3>3. Applied = Len(log)
        BY <2>1, <3>1, <3>2
      <3> QED
        BY <2>1, <3>3, ListsTotal DEF IInv, Shape, ExchangeShape, LogRight
    <2>3. "BUY" \in Sides
      BY DEF Sides
    <2>4. realized = exRealized
      BY <2>1, <2>2, <2>3 DEF LInv, ListsRight, PricesRight
    <2>5. ASSUME NEW s \in Sides PROVE HasPrices(holding[s].today, exToday[s])
      <3> DEFINE list == holding[s].today
                 c == ClosedAfter(log, s, Len(log))
      <3>1. list \in Seq(Entries) /\ Lots(list) = Len(exToday[s])
        BY <2>2
      <3>2. ListFrom(list, log, s, c)
        BY <2>1, <2>2 DEF LInv, ListsRight
      <3>3. ASSUME NEW i \in DOMAIN list, NEW k \in (Behind(list, i) + 1)..Behind(list, i - 1)
            PROVE  list[i].price = exToday[s][k]
        <4>1. list[i].price = PriceAt(log, s, k + c)
          BY <3>2 DEF ListFrom
        <4>2. k \in 1..Len(exToday[s])
          <5> HIDE DEF list
          <5> QED
            BY <3>1, LotOfList
        <4>3. exToday[s][k] = PriceAt(log, s, k + c)
          BY <4>2 DEF LInv, PricesRight
        <4> QED
          BY <4>1, <4>3
      <3> QED
        BY <3>1, <3>3 DEF HasPrices
    <2> QED
      BY <2>4, <2>5, CaughtUpLots
  <1>2. Spec => []LInv
    <2>1. IInv /\ IInv' /\ LInv /\ [Next]_vars => LInv'
      BY NextLists
    <2> QED
      BY InitLists, <2>1, Invariance, PTL DEF Spec
  <1> QED
    BY <1>1, <1>2, Invariance, PTL
=============================================================================
