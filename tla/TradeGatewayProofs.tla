------------------------- MODULE TradeGatewayProofs -------------------------
(***************************************************************************)
(* Proofs about the trade gateway, for any orders of any size, either way  *)
(* of resuming CTP's stream and any number of reconnections.               *)
(*                                                                         *)
(* PInv, the ledger: CTP's log adds up, and backward_trade_set_ and the    *)
(* positions say what its trades taken so far say (FillsOnce).             *)
(* OInv, the objects: which objects can stand for an order in orders_,     *)
(* sys_orders_ and the two threads' hands, and which announcements fit the *)
(* order (ObjectsInvariance, FinalKeeps).                                  *)
(* ToldRight, LotsTold, OwnFound, EndTold: what a strategy has been told   *)
(* (EndsOnce, AllIsTold).                                                  *)
(* TradesFit, NamesRight, OpenRight: the orders left in open_orders_       *)
(* (OpenCounts).                                                           *)
(* CashTypes, EndRight, StatusRight, CashRight: what is frozen, as a sum   *)
(* of what each order's share of it is (CashExact).                        *)
(***************************************************************************)
EXTENDS TradeGateway, SequenceTheorems, SumTheorems, TLAPS

Msgs == [kind : {"order", "trade"}, order : Orders, status : Status \cup {""},
         lots : Int, last : Int]

(* As much of the types as the proofs need.                                *)
Shape ==
    /\ ex \in [Orders -> [state : {"none", "live", "filled", "cancelled", "rejected"},
                          filled : Int]]
    /\ log \in Seq(Msgs)
    /\ got \in Nat /\ peak \in Nat /\ got <= peak /\ peak <= Len(log)
    /\ sub \in [Orders -> {"idle", "adding", "published", "sent", "done"}]
    /\ position \in [Orders -> Int]
    /\ backward \subseteq Orders \X Int

-----------------------------------------------------------------------------
(* What CTP's log says of the fills, for a log L and the lots f[o] filled. *)

TradeOf(L, i, o) == i \in 1..Len(L) /\ L[i].kind = "trade" /\ L[i].order = o

(* Every trade adds lots to those of the trades before it, and the last    *)
(* one accounts for all that is filled.                                    *)
Ledger(L, f) ==
    /\ \A o \in Orders, i \in 1..Len(L) :
          TradeOf(L, i, o) => L[i].last >= 1 /\ L[i].lots >= L[i].last
    /\ \A o \in Orders, i, j \in 1..Len(L) :
          TradeOf(L, i, o) /\ TradeOf(L, j, o) /\ i < j
             => L[i].lots <= L[j].lots - L[j].last
    /\ \A o \in Orders, j \in 1..Len(L) :
          TradeOf(L, j, o) =>
             \/ L[j].lots = L[j].last
             \/ \E i \in 1..(j - 1) :
                   TradeOf(L, i, o) /\ L[i].lots = L[j].lots - L[j].last
    /\ \A o \in Orders :
          /\ \A i \in 1..Len(L) : TradeOf(L, i, o) => L[i].lots <= f[o]
          /\ \/ f[o] = 0
             \/ \E i \in 1..Len(L) : TradeOf(L, i, o) /\ L[i].lots = f[o]

Filled == [o \in Orders |-> ex[o].filled]

(* The trades taken from the log so far are those in backward_trade_set_,  *)
(* and the position of an order is what the latest of them says.           *)
Booked ==
    dead = "no" =>
        \A o \in Orders, l \in Int :
            <<o, l>> \in backward <=> \E i \in 1..peak : TradeOf(log, i, o) /\ log[i].lots = l

Applied ==
    dead = "no" =>
        \A o \in Orders :
            /\ \A i \in 1..peak : TradeOf(log, i, o) => log[i].lots <= position[o]
            /\ \/ position[o] = 0
               \/ \E i \in 1..peak : TradeOf(log, i, o) /\ log[i].lots = position[o]

(* An order the exchange still has can be filled, one it has not seen is   *)
(* not filled at all.                                                      *)
Room ==
    \A o \in Orders :
        /\ ex[o].state = "live" => ex[o].filled < Quantity
        /\ sub[o] \in {"idle", "adding", "published"} =>
              ex[o].state = "none" /\ ex[o].filled = 0

PInv == Shape /\ Room /\ Ledger(log, Filled) /\ Booked /\ Applied

(* A log with one more message.                                            *)
LEMMA AppendProps ==
    ASSUME NEW L \in Seq(Msgs), NEW m \in Msgs
    PROVE  /\ Append(L, m) \in Seq(Msgs)
           /\ Len(Append(L, m)) = Len(L) + 1
           /\ \A i \in 1..Len(L) : Append(L, m)[i] = L[i]
           /\ Append(L, m)[Len(L) + 1] = m
  OBVIOUS

(* An announcement that is no trade leaves the ledger as it is.            *)
LEMMA LedgerOrder ==
    ASSUME NEW L \in Seq(Msgs), NEW f \in [Orders -> Int], Ledger(L, f),
           NEW m \in Msgs, m.kind = "order"
    PROVE  Ledger(Append(L, m), f)
  <1> DEFINE K == Append(L, m)
  <1>1. /\ K \in Seq(Msgs) /\ Len(K) = Len(L) + 1 /\ Len(L) \in Nat
        /\ \A i \in 1..Len(L) : K[i] = L[i]
        /\ K[Len(L) + 1] = m
    BY AppendProps
  <1> HIDE DEF K
  <1>2. \A o, i : TradeOf(K, i, o) <=> TradeOf(L, i, o)
    BY <1>1 DEF TradeOf
  <1>3. \A o, i : TradeOf(L, i, o) => i \in 1..Len(L) /\ K[i] = L[i]
    BY <1>1 DEF TradeOf
  <1>4. \A o \in Orders, i \in 1..Len(K) :
          TradeOf(K, i, o) => K[i].last >= 1 /\ K[i].lots >= K[i].last
    BY <1>2, <1>3 DEF Ledger
  <1>5. \A o \in Orders, i, j \in 1..Len(K) :
          TradeOf(K, i, o) /\ TradeOf(K, j, o) /\ i < j => K[i].lots <= K[j].lots - K[j].last
    BY <1>2, <1>3 DEF Ledger
  <1>6. \A o \in Orders, j \in 1..Len(K) :
          TradeOf(K, j, o) =>
             \/ K[j].lots = K[j].last
             \/ \E i \in 1..(j - 1) : TradeOf(K, i, o) /\ K[i].lots = K[j].lots - K[j].last
    BY <1>2, <1>3 DEF Ledger
  <1>7. \A o \in Orders :
          /\ \A i \in 1..Len(K) : TradeOf(K, i, o) => K[i].lots <= f[o]
          /\ f[o] = 0 \/ \E i \in 1..Len(K) : TradeOf(K, i, o) /\ K[i].lots = f[o]
    BY <1>1, <1>2, <1>3 DEF Ledger
  <1>8. Ledger(K, f)
    BY <1>4, <1>5, <1>6, <1>7 DEF Ledger
  <1> QED
    BY <1>8 DEF K

(* A trade of the next lots of its order extends it.                       *)
LEMMA LedgerTrade ==
    ASSUME NEW L \in Seq(Msgs), NEW f \in [Orders -> Int], Ledger(L, f),
           NEW m \in Msgs, m.kind = "trade", m.last >= 1, m.lots = f[m.order] + m.last
    PROVE  Ledger(Append(L, m), [f EXCEPT ![m.order] = m.lots])
  <1> DEFINE K == Append(L, m)
             g == [f EXCEPT ![m.order] = m.lots]
             n == Len(L) + 1
  <1>1. /\ K \in Seq(Msgs) /\ Len(K) = n /\ Len(L) \in Nat
        /\ \A i \in 1..Len(L) : K[i] = L[i]
        /\ K[n] = m
    BY AppendProps
  <1>2. /\ m.order \in Orders /\ m.last \in Int /\ m.lots \in Int
        /\ g[m.order] = m.lots
        /\ \A o \in Orders : o # m.order => g[o] = f[o]
        /\ \A o \in Orders : f[o] \in Int
    BY DEF Msgs
  <1>3. \A i \in 1..Len(L) : L[i].lots \in Int /\ L[i].last \in Int
    <2> SUFFICES ASSUME NEW i \in 1..Len(L) PROVE L[i].lots \in Int /\ L[i].last \in Int
      OBVIOUS
    <2>1. L[i] \in Msgs
      BY ElementOfSeq
    <2> QED
      BY <2>1 DEF Msgs
  <1> HIDE DEF K, g
  <1>4. \A o, i : i # n => (TradeOf(K, i, o) <=> TradeOf(L, i, o))
    BY <1>1 DEF TradeOf
  <1>5. \A o : TradeOf(K, n, o) <=> o = m.order
    BY <1>1 DEF TradeOf
  <1>6. \A o, i : TradeOf(L, i, o) => i \in 1..Len(L) /\ K[i] = L[i] /\ i # n
    BY <1>1 DEF TradeOf
  <1>7. f[m.order] >= 0
    <2>1. CASE f[m.order] # 0
      <3>1. PICK i \in 1..Len(L) : TradeOf(L, i, m.order) /\ L[i].lots = f[m.order]
        BY <2>1, <1>2 DEF Ledger
      <3>2. L[i].last >= 1 /\ L[i].lots >= L[i].last
        BY <3>1, <1>2 DEF Ledger
      <3> QED
        BY <3>1, <3>2, <1>3
    <2> QED
      BY <2>1
  <1>8. \A o \in Orders, i \in 1..Len(K) :
          TradeOf(K, i, o) => K[i].last >= 1 /\ K[i].lots >= K[i].last
    BY <1>1, <1>2, <1>4, <1>6, <1>7 DEF Ledger
  <1>9. \A o \in Orders, i, j \in 1..Len(K) :
          TradeOf(K, i, o) /\ TradeOf(K, j, o) /\ i < j => K[i].lots <= K[j].lots - K[j].last
    <2> SUFFICES ASSUME NEW o \in Orders, NEW i \in 1..Len(K), NEW j \in 1..Len(K),
                        TradeOf(K, i, o), TradeOf(K, j, o), i < j
                 PROVE  K[i].lots <= K[j].lots - K[j].last
      OBVIOUS
    <2>1. i # n /\ TradeOf(L, i, o) /\ K[i] = L[i] /\ i \in 1..Len(L)
      BY <1>1, <1>4, <1>6
    <2>2. CASE j # n
      BY <2>1, <2>2, <1>4, <1>6 DEF Ledger
    <2>3. CASE j = n
      <3>1. o = m.order /\ K[j] = m
        BY <2>3, <1>1, <1>5
      <3>2. L[i].lots <= f[o]
        BY <2>1 DEF Ledger
      <3> QED
        BY <3>1, <3>2, <2>1, <1>2, <1>3
    <2> QED
      BY <2>2, <2>3
  <1>10. \A o \in Orders, j \in 1..Len(K) :
          TradeOf(K, j, o) =>
             \/ K[j].lots = K[j].last
             \/ \E i \in 1..(j - 1) : TradeOf(K, i, o) /\ K[i].lots = K[j].lots - K[j].last
    <2> SUFFICES ASSUME NEW o \in Orders, NEW j \in 1..Len(K), TradeOf(K, j, o),
                        K[j].lots # K[j].last
                 PROVE  \E i \in 1..(j - 1) : TradeOf(K, i, o) /\ K[i].lots = K[j].lots - K[j].last
      OBVIOUS
    <2>1. CASE j # n
      <3>1. TradeOf(L, j, o) /\ K[j] = L[j] /\ j \in 1..Len(L)
        BY <2>1, <1>4, <1>6
      <3>2. PICK i \in 1..(j - 1) : TradeOf(L, i, o) /\ L[i].lots = L[j].lots - L[j].last
        BY <3>1 DEF Ledger
      <3> QED
        BY <3>1, <3>2, <1>4, <1>6
    <2>2. CASE j = n
      <3>1. o = m.order /\ K[j] = m
        BY <2>2, <1>1, <1>5
      <3>2. f[o] # 0
        BY <3>1, <1>2
      <3>3. PICK i \in 1..Len(L) : TradeOf(L, i, o) /\ L[i].lots = f[o]
        BY <3>2 DEF Ledger
      <3>4. i \in 1..(j - 1) /\ TradeOf(K, i, o) /\ K[i].lots = m.lots - m.last
        BY <3>1, <3>3, <2>2, <1>1, <1>2, <1>4, <1>6
      <3> QED
        BY <3>1, <3>4
    <2> QED
      BY <2>1, <2>2
  <1>11. \A o \in Orders :
          /\ \A i \in 1..Len(K) : TradeOf(K, i, o) => K[i].lots <= g[o]
          /\ g[o] = 0 \/ \E i \in 1..Len(K) : TradeOf(K, i, o) /\ K[i].lots = g[o]
    <2> SUFFICES ASSUME NEW o \in Orders
                 PROVE  /\ \A i \in 1..Len(K) : TradeOf(K, i, o) => K[i].lots <= g[o]
                        /\ g[o] = 0 \/ \E i \in 1..Len(K) : TradeOf(K, i, o) /\ K[i].lots = g[o]
      OBVIOUS
    <2>1. CASE o = m.order
      <3>1. \A i \in 1..Len(K) : TradeOf(K, i, o) => K[i].lots <= g[o]
        <4> SUFFICES ASSUME NEW i \in 1..Len(K), TradeOf(K, i, o) PROVE K[i].lots <= g[o]
          OBVIOUS
        <4>1. CASE i = n
          BY <4>1, <2>1, <1>1, <1>2
        <4>2. CASE i # n
          <5>1. TradeOf(L, i, o) /\ K[i] = L[i] /\ i \in 1..Len(L)
            BY <4>2, <1>4, <1>6
          <5>2. L[i].lots <= f[o]
            BY <5>1 DEF Ledger
          <5> QED
            BY <5>1, <5>2, <2>1, <1>2, <1>3
        <4> QED
          BY <4>1, <4>2
      <3>2. n \in 1..Len(K) /\ TradeOf(K, n, o) /\ K[n].lots = g[o]
        BY <2>1, <1>1, <1>2, <1>5
      <3> QED
        BY <3>1, <3>2
    <2>2. CASE o # m.order
      <3>1. \A i : TradeOf(K, i, o) <=> TradeOf(L, i, o)
        BY <2>2, <1>4, <1>5, <1>6
      <3> QED
        BY <3>1, <2>2, <1>1, <1>2, <1>6 DEF Ledger
    <2> QED
      BY <2>1, <2>2
  <1>12. Ledger(K, g)
    BY <1>8, <1>9, <1>10, <1>11 DEF Ledger
  <1> QED
    BY <1>12 DEF K, g

-----------------------------------------------------------------------------
(* The invariant holds when the program starts.                            *)
LEMMA InitPInv == Init => PInv
  <1> SUFFICES ASSUME Init PROVE PInv
    OBVIOUS
  <1> USE ConstAssumption DEF Init
  <1>1. Shape
    BY EmptySeq DEF Shape
  <1>2. Room
    BY DEF Room
  <1>3. Ledger(log, Filled)
    BY DEF Ledger, Filled
  <1>4. Booked /\ Applied
    BY DEF Booked, Applied
  <1> QED
    BY <1>1, <1>2, <1>3, <1>4 DEF PInv

(* An announcement leaves what the callback thread has taken alone.        *)
LEMMA LogGrows ==
    ASSUME Shape, Booked, Applied, log' \in Seq(Msgs), Len(log') >= Len(log),
           \A i \in 1..Len(log) : log'[i] = log[i],
           UNCHANGED <<got, peak, position, backward, dead>>
    PROVE  Booked' /\ Applied'
  <1>1. /\ Len(log) \in Nat /\ Len(log') \in Nat
        /\ peak \in Nat /\ peak <= Len(log)
    BY LenProperties DEF Shape
  <1>2. \A i \in 1..peak, o \in Orders :
          (TradeOf(log', i, o) <=> TradeOf(log, i, o)) /\ log'[i] = log[i]
    BY <1>1 DEF TradeOf
  <1>3. Booked'
    <2> SUFFICES ASSUME dead = "no", NEW o \in Orders, NEW l \in Int
                 PROVE  <<o, l>> \in backward <=>
                          \E i \in 1..peak : TradeOf(log', i, o) /\ log'[i].lots = l
      BY DEF Booked
    <2>1. <<o, l>> \in backward <=> \E i \in 1..peak : TradeOf(log, i, o) /\ log[i].lots = l
      BY DEF Booked
    <2> QED
      BY <2>1, <1>2
  <1>4. Applied'
    BY <1>2 DEF Applied
  <1> QED
    BY <1>3, <1>4

(* An order's lots filled are a number.                                    *)
LEMMA FilledType == Shape => Filled \in [Orders -> Int]
  BY DEF Shape, Filled

(* One step for all announcements: the new log is a longer ledger of the   *)
(* new fills.                                                              *)
LEMMA Announced ==
    ASSUME PInv, NEW o \in Orders, NEW lots \in Int,
           NEW s \in {"live", "filled", "cancelled", "rejected"}, NEW msgs,
           s = "live" => lots < Quantity, ex[o].state = "live",
           Announce(o, s, lots, msgs),
           log \o msgs \in Seq(Msgs), Len(log \o msgs) >= Len(log),
           \A i \in 1..Len(log) : (log \o msgs)[i] = log[i],
           Ledger(log \o msgs, [Filled EXCEPT ![o] = lots])
    PROVE  PInv'
  <1> USE ConstAssumption
  <1>1. /\ log' = log \o msgs
        /\ ex' = [ex EXCEPT ![o] = [state |-> s, filled |-> lots]]
        /\ UNCHANGED <<got, peak, position, backward, dead, sub>>
    BY DEF Announce, stream, account, submit
  <1>2. Booked' /\ Applied'
    BY <1>1, LogGrows DEF PInv
  <1>3. Len(log) \in Nat /\ Len(log') \in Nat
    BY <1>1, LenProperties DEF PInv, Shape
  <1>4. Shape'
    BY <1>1, <1>3 DEF PInv, Shape
  <1>5. Filled' = [Filled EXCEPT ![o] = lots]
    BY <1>1 DEF PInv, Shape, Filled
  <1>6. Ledger(log, Filled)'
    BY <1>1, <1>5
  <1>7. Room'
    BY <1>1 DEF PInv, Shape, Room
  <1> QED
    BY <1>2, <1>4, <1>6, <1>7 DEF PInv

(* One announcement is an Append, two are two of them.                     *)
LEMMA OneMore ==
    ASSUME NEW L \in Seq(Msgs), NEW m \in Msgs
    PROVE  /\ L \o <<m>> = Append(L, m)
           /\ L \o <<m>> \in Seq(Msgs)
           /\ Len(L \o <<m>>) >= Len(L)
           /\ \A i \in 1..Len(L) : (L \o <<m>>)[i] = L[i]
  OBVIOUS

(* A log with two more messages.                                           *)
LEMMA TwoMore ==
    ASSUME NEW L \in Seq(Msgs), NEW m \in Msgs, NEW n \in Msgs
    PROVE  /\ L \o <<m, n>> = Append(Append(L, m), n)
           /\ L \o <<m, n>> \in Seq(Msgs)
           /\ Len(L \o <<m, n>>) >= Len(L)
           /\ \A i \in 1..Len(L) : (L \o <<m, n>>)[i] = L[i]
  OBVIOUS

(* The messages about an order.                                            *)
LEMMA OrderMsgs ==
    ASSUME NEW o \in Orders, NEW s \in Status, NEW lots \in Int
    PROVE  OrderMsg(o, s, lots) \in Msgs /\ OrderMsg(o, s, lots).kind = "order"
  <1>1. 0 \in Int
    OBVIOUS
  <1>2. s \in Status \cup {""}
    BY Zenon
  <1> QED
    BY <1>1, <1>2, Zenon DEF OrderMsg, Msgs

(* The messages about a trade.                                             *)
LEMMA TradeMsgs ==
    ASSUME NEW o \in Orders, NEW last \in Int, NEW lots \in Int
    PROVE  /\ TradeMsg(o, last, lots) \in Msgs
           /\ TradeMsg(o, last, lots).kind = "trade"
           /\ TradeMsg(o, last, lots).order = o
           /\ TradeMsg(o, last, lots).last = last
           /\ TradeMsg(o, last, lots).lots = lots
  BY DEF TradeMsg, Msgs

(* Park, ExchangeCancel and Reject announce no trade.                      *)
LEMMA ReportStep ==
    ASSUME PInv, NEW o \in Orders, NEW t \in Status,
           NEW s \in {"live", "cancelled", "rejected"}, ex[o].state = "live",
           Announce(o, s, ex[o].filled, <<OrderMsg(o, t, ex[o].filled)>>)
    PROVE  PInv'
  <1> DEFINE lots == ex[o].filled
             m    == OrderMsg(o, t, lots)
  <1>1. lots \in Int /\ log \in Seq(Msgs) /\ Filled \in [Orders -> Int]
    BY FilledType DEF PInv, Shape
  <1>2. m \in Msgs /\ m.kind = "order"
    BY <1>1, OrderMsgs
  <1>3. s = "live" => lots < Quantity
    BY DEF PInv, Room
  <1>4. [Filled EXCEPT ![o] = lots] = Filled
    BY DEF Filled
  <1> HIDE DEF m
  <1>5. Ledger(log \o <<m>>, [Filled EXCEPT ![o] = lots])
    <2>1. Ledger(Append(log, m), Filled)
      BY <1>1, <1>2, LedgerOrder DEF PInv
    <2> QED
      BY <2>1, <1>1, <1>2, <1>4, OneMore
  <1>6. Announce(o, s, lots, <<m>>)
    BY DEF m
  <1> HIDE DEF lots
  <1>7. /\ log \o <<m>> \in Seq(Msgs) /\ Len(log \o <<m>>) >= Len(log)
        /\ \A i \in 1..Len(log) : (log \o <<m>>)[i] = log[i]
    BY <1>1, <1>2, OneMore
  <1>8. s \in {"live", "filled", "cancelled", "rejected"}
    OBVIOUS
  <1> QED
    BY <1>1, <1>3, <1>5, <1>6, <1>7, <1>8, Announced

(* An order no message is about is not filled.                             *)
LEMMA RejectedUnfilled ==
    ASSUME PInv, NEW o \in Orders, \A i \in DOMAIN log : log[i].order # o
    PROVE  ex[o].filled = 0
  <1>1. DOMAIN log = 1..Len(log)
    BY LenProperties DEF PInv, Shape
  <1>2. Filled[o] = 0
    BY <1>1 DEF PInv, Ledger, TradeOf
  <1> QED
    BY <1>2 DEF Filled

(* The exchange fills part of an order.                                    *)
LEMMA FillPartStep ==
    ASSUME PInv, NEW o \in Orders, NEW last \in 1..Quantity, FillPart(o, last)
    PROVE  PInv'
  <1> USE ConstAssumption
  <1> DEFINE lots == ex[o].filled + last
             m    == TradeMsg(o, last, lots)
  <1>1. /\ ex[o].filled \in Int /\ last \in Int /\ last >= 1 /\ lots \in Int
        /\ log \in Seq(Msgs) /\ Filled \in [Orders -> Int] /\ Filled[o] = ex[o].filled
    BY FilledType DEF PInv, Shape, Filled
  <1>2. /\ ex[o].state = "live" /\ lots < Quantity
        /\ Announce(o, "live", lots, <<m>>)
    BY DEF FillPart
  <1>3. m \in Msgs /\ m.kind = "trade" /\ m.order = o /\ m.last = last /\ m.lots = lots
    BY <1>1, TradeMsgs
  <1>4. m.lots = Filled[m.order] + m.last /\ m.last >= 1
    BY <1>1, <1>3
  <1> HIDE DEF m, lots
  <1>5. Ledger(log \o <<m>>, [Filled EXCEPT ![o] = lots])
    <2>1. Ledger(Append(log, m), [Filled EXCEPT ![m.order] = m.lots])
      BY <1>1, <1>3, <1>4, LedgerTrade DEF PInv
    <2> QED
      BY <2>1, <1>1, <1>3, OneMore
  <1> QED
    BY <1>1, <1>2, <1>3, <1>5, OneMore, Announced

(* The exchange fills all of an order.                                     *)
LEMMA FillAllStep ==
    ASSUME PInv, NEW o \in Orders, FillAll(o)
    PROVE  PInv'
  <1> USE ConstAssumption
  <1> DEFINE last  == Quantity - ex[o].filled
             news  == OrderMsg(o, "FILLED", Quantity)
             trade == TradeMsg(o, last, Quantity)
  <1>1. ex[o].state = "live"
    BY DEF FillAll
  <1>2. /\ ex[o].filled \in Int /\ last \in Int /\ last >= 1
        /\ log \in Seq(Msgs) /\ Filled \in [Orders -> Int] /\ Filled[o] = ex[o].filled
    BY <1>1, FilledType DEF PInv, Shape, Filled, Room
  <1>3. /\ trade \in Msgs /\ trade.kind = "trade" /\ trade.order = o
        /\ trade.last = last /\ trade.lots = Quantity
    BY <1>2, TradeMsgs
  <1>4. news \in Msgs /\ news.kind = "order"
    BY OrderMsgs DEF Status
  <1>5. trade.lots = Filled[trade.order] + trade.last /\ trade.last >= 1
    BY <1>2, <1>3
  <1>6. \/ Announce(o, "filled", Quantity, <<news, trade>>)
        \/ Announce(o, "filled", Quantity, <<trade, news>>)
    BY DEF FillAll
  <1> DEFINE full == [Filled EXCEPT ![o] = Quantity]
  <1>7. full \in [Orders -> Int]
    BY <1>2
  <1> HIDE DEF last, news, trade
  <1>8. Ledger(log \o <<news, trade>>, full)
    <2>1. Ledger(Append(log, news), Filled) /\ Append(log, news) \in Seq(Msgs)
      BY <1>2, <1>4, LedgerOrder, AppendProps DEF PInv
    <2>2. Ledger(Append(Append(log, news), trade), [Filled EXCEPT ![trade.order] = trade.lots])
      BY <2>1, <1>2, <1>3, <1>5, LedgerTrade
    <2> QED
      BY <2>2, <1>2, <1>3, <1>4, TwoMore
  <1>9. Ledger(log \o <<trade, news>>, full)
    <2>1. Ledger(Append(log, trade), [Filled EXCEPT ![trade.order] = trade.lots])
      BY <1>2, <1>3, <1>5, LedgerTrade DEF PInv
    <2>2. Ledger(Append(log, trade), full) /\ Append(log, trade) \in Seq(Msgs)
      BY <2>1, <1>2, <1>3, AppendProps
    <2> HIDE DEF full
    <2>3. Ledger(Append(Append(log, trade), news), full)
      BY <2>2, <1>4, <1>7, LedgerOrder
    <2> QED
      BY <2>3, <1>2, <1>3, <1>4, TwoMore
  <1>10. ASSUME NEW msgs \in {<<news, trade>>, <<trade, news>>},
                Announce(o, "filled", Quantity, msgs)
         PROVE  PInv'
    <2>1. /\ log \o msgs \in Seq(Msgs) /\ Len(log \o msgs) >= Len(log)
          /\ \A i \in 1..Len(log) : (log \o msgs)[i] = log[i]
      <3>1. CASE msgs = <<news, trade>>
        BY <3>1, <1>2, <1>3, <1>4, TwoMore
      <3>2. CASE msgs = <<trade, news>>
        BY <3>2, <1>2, <1>3, <1>4, TwoMore
      <3> QED
        BY <3>1, <3>2
    <2>2. Ledger(log \o msgs, [Filled EXCEPT ![o] = Quantity])
      BY <1>8, <1>9
    <2> QED
      BY <2>1, <2>2, <1>1, <1>10, Announced
  <1> QED
    BY <1>6, <1>10

-----------------------------------------------------------------------------
(* The callback thread takes an announcement.                              *)

(* The larger of two numbers.                                              *)
LEMMA MaxOfTwo ==
    ASSUME NEW a \in Int, NEW b \in Int
    PROVE  Max({a, b}) = IF a >= b THEN a ELSE b
  BY DEF Max

(* The gateway takes the next message, one it has taken before the         *)
(* restart or not.                                                         *)
LEMMA TakeEffect ==
    ASSUME PInv, Take
    PROVE  /\ got + 1 \in 1..Len(log) /\ got' = got + 1
           /\ peak' = IF got < peak THEN peak ELSE peak + 1
           /\ got = peak \/ got + 1 \in 1..peak
           /\ got' \in Nat /\ peak' \in Nat /\ got' <= peak' /\ peak' <= Len(log)
           /\ log[got + 1] \in Msgs
  <1>1. got \in Nat /\ peak \in Nat /\ got <= peak /\ peak <= Len(log) /\ Len(log) \in Nat
    BY LenProperties DEF PInv, Shape
  <1>2. got < Len(log) /\ got' = got + 1 /\ peak' = Max({peak, got + 1})
    BY DEF Take
  <1>3. peak' = IF got < peak THEN peak ELSE peak + 1
    BY <1>1, <1>2, MaxOfTwo
  <1>4. got + 1 \in 1..Len(log)
    BY <1>1, <1>2
  <1>5. log[got + 1] \in Msgs
    BY <1>4, ElementOfSeq DEF PInv, Shape
  <1> QED
    BY <1>1, <1>2, <1>3, <1>4, <1>5

(* A step that leaves the exchange, the stream and the positions alone.    *)
LEMMA OtherStep ==
    ASSUME PInv, UNCHANGED <<log, got, peak, position, backward>>,
           dead' = "no" => dead = "no",
           Room', Shape', Filled' = Filled
    PROVE  PInv'
  <1>1. Ledger(log, Filled)'
    BY DEF PInv
  <1>2. Booked'
    BY DEF PInv, Booked
  <1>3. Applied'
    BY DEF PInv, Applied
  <1> QED
    BY <1>1, <1>2, <1>3 DEF PInv

(* The handler of an order's message.                                      *)
LEMMA OnOrderStep == ASSUME PInv, OnOrder PROVE PInv'
  <1>1. Take /\ log[got + 1].kind = "order"
    BY DEF OnOrder
  <1>2. UNCHANGED <<ex, log, sub, position, backward, dead>>
    BY DEF OnOrder, exchange, submit, account
  <1>3. /\ got + 1 \in 1..Len(log)
        /\ got' \in Nat /\ peak' \in Nat /\ got' <= peak' /\ peak' <= Len(log)
        /\ peak' = IF got < peak THEN peak ELSE peak + 1
        /\ got = peak \/ got + 1 \in 1..peak
    BY <1>1, TakeEffect
  <1>4. \A o \in Orders : \A i : i \in 1..peak' /\ TradeOf(log, i, o) <=> i \in 1..peak /\ TradeOf(log, i, o)
    BY <1>1, <1>3 DEF TradeOf, PInv, Shape
  <1>5. Shape' /\ Room'
    BY <1>2, <1>3 DEF PInv, Shape, Room
  <1>6. Ledger(log, Filled)'
    BY <1>2 DEF PInv, Filled
  <1>7. Booked'
    BY <1>2, <1>4 DEF PInv, Booked
  <1>8. Applied'
    BY <1>2, <1>4 DEF PInv, Applied
  <1> QED
    BY <1>5, <1>6, <1>7, <1>8 DEF PInv

(* A trade is in backward_trade_set_ exactly when it was taken before.     *)
LEMMA SeenBefore ==
    ASSUME PInv, dead = "no", Take, log[got + 1].kind = "trade"
    PROVE  TradeId(log[got + 1]) \in backward <=> got < peak
  <1> DEFINE j == got + 1
             m == log[j]
  <1>1. /\ j \in 1..Len(log) /\ (got = peak \/ j \in 1..peak) /\ m \in Msgs
        /\ got \in Nat /\ peak \in Nat /\ got <= peak /\ peak <= Len(log) /\ Len(log) \in Nat
    BY TakeEffect, LenProperties DEF PInv, Shape
  <1>2. m.order \in Orders /\ m.lots \in Int /\ m.last \in Int /\ TradeOf(log, j, m.order)
    BY <1>1 DEF Msgs, TradeOf
  <1>3. TradeId(m) \in backward <=>
          \E i \in 1..peak : TradeOf(log, i, m.order) /\ log[i].lots = m.lots
    BY <1>2 DEF PInv, Booked, TradeId
  <1>4. ASSUME NEW i \in 1..peak, TradeOf(log, i, m.order), log[i].lots = m.lots, got = peak
        PROVE  FALSE
    <2>1. i < j /\ i \in 1..Len(log)
      BY <1>1, <1>4
    <2>2. log[i].lots <= m.lots - m.last /\ m.last >= 1
      BY <2>1, <1>1, <1>2, <1>4 DEF PInv, Ledger
    <2> QED
      BY <2>2, <1>2, <1>4
  <1> HIDE DEF m
  <1>5. CASE got < peak
    BY <1>5, <1>1, <1>2, <1>3 DEF m
  <1>6. CASE got = peak
    BY <1>6, <1>1, <1>3, <1>4 DEF m
  <1> QED
    BY <1>1, <1>5, <1>6 DEF m

(* The position is where the next trade starts from.                       *)
LEMMA NextTrade ==
    ASSUME PInv, dead = "no", Take, log[got + 1].kind = "trade", got = peak
    PROVE  position[log[got + 1].order] + log[got + 1].last = log[got + 1].lots
  <1> DEFINE j == got + 1
             o == log[j].order
  <1>1. /\ j \in 1..Len(log) /\ log[j] \in Msgs /\ peak \in Nat /\ Len(log) \in Nat
        /\ peak <= Len(log)
    BY TakeEffect, LenProperties DEF PInv, Shape
  <1>2. o \in Orders /\ log[j].lots \in Int /\ log[j].last \in Int /\ TradeOf(log, j, o)
        /\ position[o] \in Int
    BY <1>1 DEF Msgs, TradeOf, PInv, Shape
  <1>3. \A i \in 1..peak : TradeOf(log, i, o) =>
          /\ log[i].lots <= log[j].lots - log[j].last
          /\ log[i].lots >= log[i].last /\ log[i].last >= 1
          /\ log[i].lots <= position[o]
          /\ log[i].lots \in Int /\ log[i].last \in Int
    <2> SUFFICES ASSUME NEW i \in 1..peak, TradeOf(log, i, o)
                 PROVE  /\ log[i].lots <= log[j].lots - log[j].last
                        /\ log[i].lots >= log[i].last /\ log[i].last >= 1
                        /\ log[i].lots <= position[o]
                        /\ log[i].lots \in Int /\ log[i].last \in Int
      OBVIOUS
    <2>1. i < j /\ i \in 1..Len(log)
      BY <1>1
    <2>2. log[i] \in Msgs
      BY <2>1, ElementOfSeq DEF PInv, Shape
    <2>3. log[i].lots \in Int /\ log[i].last \in Int
      BY <2>2 DEF Msgs
    <2>4. log[i].lots <= log[j].lots - log[j].last
      BY <2>1, <1>1, <1>2 DEF PInv, Ledger
    <2>5. log[i].lots >= log[i].last /\ log[i].last >= 1
      BY <2>1, <1>2 DEF PInv, Ledger
    <2>6. log[i].lots <= position[o]
      BY <1>2 DEF PInv, Applied
    <2> QED
      BY <2>3, <2>4, <2>5, <2>6
  <1>4. position[o] = 0 \/ \E i \in 1..peak : TradeOf(log, i, o) /\ log[i].lots = position[o]
    BY <1>2 DEF PInv, Applied
  <1>5. \/ log[j].lots = log[j].last
        \/ \E i \in 1..peak : TradeOf(log, i, o) /\ log[i].lots = log[j].lots - log[j].last
    <2>1. peak = j - 1
      BY <1>1
    <2> QED
      BY <2>1, <1>1, <1>2 DEF PInv, Ledger
  <1> HIDE DEF j, o
  <1>6. position[o] = log[j].lots - log[j].last
    BY <1>2, <1>3, <1>4, <1>5
  <1> QED
    BY <1>2, <1>6 DEF j, o

(* The handler of a trade.                                                 *)
LEMMA OnTradeStep == ASSUME PInv, dead = "no", OnTrade PROVE PInv'
  <1> DEFINE j == got + 1
             m == log[j]
  <1>1. Take /\ m.kind = "trade" /\ UNCHANGED <<ex, log, sub>>
    BY DEF OnTrade, exchange, submit
  <1>2. \/ TradeId(m) \in backward /\ UNCHANGED <<position, backward>>
        \/ dead' = "assert" /\ UNCHANGED <<position, backward>>
        \/ /\ TradeId(m) \notin backward /\ dead' = dead
           /\ position' = [position EXCEPT ![m.order] = @ + m.last]
           /\ backward' = backward \cup {TradeId(m)}
    BY DEF OnTrade
  <1>3. /\ j \in 1..Len(log) /\ m \in Msgs
        /\ got' \in Nat /\ peak' \in Nat /\ got' <= peak' /\ peak' <= Len(log)
        /\ peak' = IF got < peak THEN peak ELSE peak + 1
        /\ got = peak \/ j \in 1..peak
    BY <1>1, TakeEffect
  <1>4. got \in Nat /\ peak \in Nat /\ got <= peak
    BY DEF PInv, Shape
  <1>5. m.order \in Orders /\ m.lots \in Int /\ m.last \in Int /\ TradeOf(log, j, m.order)
    BY <1>1, <1>3 DEF Msgs, TradeOf
  <1>6. TradeId(m) \in backward <=> got < peak
    BY <1>1, SeenBefore
  <1>7. Ledger(log, Filled)'
    BY <1>1 DEF PInv, Filled
  <1>8. Room'
    BY <1>1 DEF PInv, Room
  <1>9. Shape'
    <2>1. position' \in [Orders -> Int] /\ backward' \subseteq Orders \X Int
      BY <1>2, <1>5 DEF PInv, Shape, TradeId
    <2> QED
      BY <2>1, <1>1, <1>3 DEF PInv, Shape
  <1> HIDE DEF m
  <1>10. CASE TradeId(m) \in backward /\ UNCHANGED <<position, backward>>
    <2>1. peak' = peak
      BY <1>10, <1>3, <1>6
    <2>2. Booked' /\ Applied'
      BY <2>1, <1>1, <1>10 DEF PInv, Booked, Applied
    <2> QED
      BY <2>2, <1>7, <1>8, <1>9 DEF PInv
  <1>11. CASE dead' = "assert" /\ UNCHANGED <<position, backward>>
    <2>1. Booked' /\ Applied'
      BY <1>11 DEF Booked, Applied
    <2> QED
      BY <2>1, <1>7, <1>8, <1>9 DEF PInv
  <1>12. CASE /\ TradeId(m) \notin backward
              /\ position' = [position EXCEPT ![m.order] = @ + m.last]
              /\ backward' = backward \cup {TradeId(m)}
    <2>1. got = peak /\ peak' = j /\ j = peak + 1
      BY <1>12, <1>3, <1>4, <1>6
    <2>2. position[m.order] + m.last = m.lots
      BY <2>1, <1>1, NextTrade DEF m
    <2>3. /\ position'[m.order] = m.lots
          /\ \A o \in Orders : o # m.order => position'[o] = position[o]
      BY <2>2, <1>5, <1>12 DEF PInv, Shape
    <2>4. \A i : i \in 1..peak' <=> i \in 1..peak \/ i = j
      BY <2>1, <1>4
    <2>5. \A o : TradeOf(log, j, o) <=> o = m.order
      BY <1>5 DEF TradeOf, m
    <2>6. Booked'
      <3> SUFFICES ASSUME NEW o \in Orders, NEW l \in Int
                   PROVE  <<o, l>> \in backward' <=>
                            \E i \in 1..peak' : TradeOf(log, i, o) /\ log[i].lots = l
        BY <1>1 DEF Booked
      <3>1. <<o, l>> \in backward <=> \E i \in 1..peak : TradeOf(log, i, o) /\ log[i].lots = l
        BY DEF PInv, Booked
      <3>2. <<o, l>> \in backward' <=> <<o, l>> \in backward \/ (o = m.order /\ l = m.lots)
        BY <1>12 DEF TradeId
      <3> QED
        BY <3>1, <3>2, <2>4, <2>5 DEF m
    <2>7. Applied'
      <3> SUFFICES ASSUME NEW o \in Orders
                   PROVE  /\ \A i \in 1..peak' : TradeOf(log, i, o) => log[i].lots <= position'[o]
                          /\ \/ position'[o] = 0
                             \/ \E i \in 1..peak' : TradeOf(log, i, o) /\ log[i].lots = position'[o]
        BY <1>1 DEF Applied
      <3>1. /\ \A i \in 1..peak : TradeOf(log, i, o) => log[i].lots <= position[o]
            /\ \/ position[o] = 0
               \/ \E i \in 1..peak : TradeOf(log, i, o) /\ log[i].lots = position[o]
        BY DEF PInv, Applied
      <3>2. CASE o # m.order
        BY <3>1, <3>2, <2>3, <2>4, <2>5
      <3>3. CASE o = m.order
        <4>1. \A i \in 1..peak : TradeOf(log, i, o) => log[i].lots <= m.lots
          <5> SUFFICES ASSUME NEW i \in 1..peak, TradeOf(log, i, o) PROVE log[i].lots <= m.lots
            OBVIOUS
          <5>1. i < j /\ i \in 1..Len(log) /\ TradeOf(log, j, o)
            <6>1. i \in 1..Len(log)
              BY DEF TradeOf
            <6>2. i < j
              BY <2>1, <1>4
            <6> QED
              BY <6>1, <6>2, <2>5, <3>3
          <5>2. log[i].lots <= m.lots - m.last /\ m.last >= 1
            BY <5>1, <1>3 DEF PInv, Ledger, m
          <5>3. log[i] \in Msgs
            BY <5>1, ElementOfSeq DEF PInv, Shape
          <5>4. log[i].lots \in Int
            BY <5>3 DEF Msgs
          <5> QED
            BY <5>2, <5>4, <1>5
        <4> QED
          BY <4>1, <3>3, <2>3, <2>4, <2>5, <1>5 DEF m
      <3> QED
        BY <3>2, <3>3
    <2> QED
      BY <2>6, <2>7, <1>7, <1>8, <1>9 DEF PInv
  <1> QED
    BY <1>2, <1>10, <1>11, <1>12 DEF m

(* Every step keeps the invariant.                                         *)
LEMMA NextPInv == PInv /\ [Next]_vars => PInv'
  <1> SUFFICES ASSUME PInv, [Next]_vars PROVE PInv'
    OBVIOUS
  <1> USE DEF exchange, stream, submit, cache, account, told
  <1>1. ASSUME NEW o \in Orders, dead = "no", ExchangeStep(o)
        PROVE  PInv'
    <2>1. CASE Park(o)
      BY <2>1, ReportStep DEF Park, Status
    <2>2. CASE FillAll(o)
      BY <2>2, FillAllStep
    <2>3. CASE ExchangeCancel(o)
      BY <2>3, ReportStep DEF ExchangeCancel, Status
    <2>4. CASE Reject(o)
      BY <2>4, ReportStep, RejectedUnfilled DEF Reject, Status
    <2>5. ASSUME NEW last \in 1..Quantity, FillPart(o, last)
          PROVE  PInv'
      BY <2>5, FillPartStep
    <2> QED
      BY <1>1, <2>1, <2>2, <2>3, <2>4, <2>5 DEF ExchangeStep
  <1>2. ASSUME NEW o \in Orders, dead = "no", StrategyStep(o)
        PROVE  PInv'
    <2>1. ASSUME NEW accepted \in BOOLEAN, SendOrder(o, accepted)
          PROVE  PInv'
      <3>1. /\ UNCHANGED <<log, got, peak, position, backward, dead>>
            /\ sub[o] = "published" /\ sub' = [sub EXCEPT ![o] = "sent"]
            /\ ex' = IF accepted THEN [ex EXCEPT ![o].state = "live"] ELSE ex
        BY <2>1 DEF SendOrder
      <3>2. Shape' /\ Filled' = Filled
        BY <3>1 DEF PInv, Shape, Filled
      <3>3. Room'
        BY <3>1, ConstAssumption DEF PInv, Shape, Room
      <3> QED
        BY <3>1, <3>2, <3>3, OtherStep
    <2>2. ASSUME UNCHANGED <<ex, log, got, peak, position, backward>>,
                 dead' = "no" => dead = "no",
                 \/ UNCHANGED sub
                 \/ sub[o] = "idle" /\ sub' = [sub EXCEPT ![o] = "adding"]
                 \/ sub[o] = "adding" /\ sub' = [sub EXCEPT ![o] = "published"]
                 \/ sub' = [sub EXCEPT ![o] = "done"]
          PROVE  PInv'
      <3>1. Shape' /\ Filled' = Filled
        BY <2>2 DEF PInv, Shape, Filled
      <3>2. Room'
        BY <2>2 DEF PInv, Shape, Room
      <3> QED
        BY <2>2, <3>1, <3>2, OtherStep
    <2>3. CASE Publish(o)
      BY <2>2, <2>3 DEF Publish
    <2>4. CASE Freeze(o)
      BY <2>2, <2>4 DEF Freeze
    <2>5. CASE CacheOrder(o)
      BY <2>2, <2>5 DEF CacheOrder
    <2>6. CASE TearMap(o)
      BY <2>2, <2>6 DEF TearMap
    <2>7. CASE CancelOrder(o)
      BY <2>2, <2>7 DEF CancelOrder
    <2>8. CASE SetPendingCancel(o)
      BY <2>2, <2>8 DEF SetPendingCancel
    <2> QED
      BY <1>2, <2>1, <2>3, <2>4, <2>5, <2>6, <2>7, <2>8 DEF StrategyStep
  <1>3. CASE OnOrder
    BY <1>3, OnOrderStep
  <1>4. CASE dead = "no" /\ OnTrade
    BY <1>4, OnTradeStep
  <1>5. ASSUME UNCHANGED <<ex, log, sub, peak, position, backward, dead>>,
               got' \in Nat, got' <= peak
        PROVE  PInv'
    <2>1. Shape' /\ Room' /\ Ledger(log, Filled)' /\ Booked' /\ Applied'
      BY <1>5 DEF PInv, Shape, Room, Filled, Booked, Applied
    <2> QED
      BY <2>1 DEF PInv
  <1>6. got \in Nat /\ peak \in Nat /\ got <= peak
    BY DEF PInv, Shape
  <1>7. CASE ProcessOrder
    BY <1>5, <1>6, <1>7 DEF ProcessOrder
  <1>8. CASE Unfreeze
    BY <1>5, <1>6, <1>8 DEF Unfreeze
  <1>9. CASE Relogin
    BY <1>5, <1>6, <1>9 DEF Relogin
  <1>10. CASE UNCHANGED vars
    BY <1>5, <1>6, <1>10 DEF vars
  <1> QED
    BY <1>1, <1>2, <1>3, <1>4, <1>7, <1>8, <1>9, <1>10 DEF Next, CallbackStep

-----------------------------------------------------------------------------
(* The last trade taken and the last trade there is are the same one.      *)
LEMMA PInvExact == PInv => PositionExact
  <1> SUFFICES ASSUME PInv, CaughtUp, NEW o \in Orders
               PROVE  position[o] = ex[o].filled
    BY DEF PositionExact
  <1> DEFINE T == {i \in 1..Len(log) : TradeOf(log, i, o)}
  <1>1. peak = Len(log) /\ dead = "no"
    BY DEF CaughtUp
  <1>2. position[o] \in Int /\ ex[o].filled \in Int /\ Filled[o] = ex[o].filled
    BY DEF PInv, Shape, Filled
  <1>3. /\ \A i \in T : log[i].lots <= ex[o].filled
        /\ ex[o].filled = 0 \/ \E i \in T : log[i].lots = ex[o].filled
    BY <1>2 DEF PInv, Ledger
  <1>4. /\ \A i \in T : log[i].lots <= position[o]
        /\ position[o] = 0 \/ \E i \in T : log[i].lots = position[o]
    BY <1>1 DEF PInv, Applied
  <1>5. \A i \in T : log[i].lots \in Int /\ log[i].lots >= 1
    <2> SUFFICES ASSUME NEW i \in T PROVE log[i].lots \in Int /\ log[i].lots >= 1
      OBVIOUS
    <2>1. log[i].last >= 1 /\ log[i].lots >= log[i].last
      BY DEF PInv, Ledger
    <2>2. log[i] \in Msgs
      BY ElementOfSeq DEF PInv, Shape
    <2>3. log[i].lots \in Int /\ log[i].last \in Int
      BY <2>2 DEF Msgs
    <2> QED
      BY <2>1, <2>3
  <1> HIDE DEF T
  <1> QED
    BY <1>2, <1>3, <1>4, <1>5

(* When all of CTP's announcements have been handled, the positions hold   *)
(* every fill once, for any orders, however often the stream began anew    *)
(* and whatever the strategy threads did meanwhile: backward_trade_set_    *)
(* drops what was applied and nothing else (trade_gateway.cpp, on_trade).  *)
THEOREM FillsOnce == Spec => []PositionExact
  <1>1. Spec => []PInv
    BY InitPInv, NextPInv, PTL DEF Spec
  <1> QED
    BY <1>1, PInvExact, PTL
-----------------------------------------------------------------------------
(* The second invariant: which object stands for which order.              *)
ObjRecs == [status : Status, filled : Int, tradeFilled : Int, quantity : Int]

SentKey(o) == <<sentIn[o], o>>
Sent(o)    == sub[o] \in {"sent", "done"}
Found      == cb.at = "found"

(* An order is in orders_, sys_orders_ and open_orders_ by objects of its  *)
(* own only, and in none of them before it is sent.                        *)
ObjectsRight ==
    /\ session \in Sessions /\ sentIn \in [Orders -> Sessions] /\ early \subseteq Orders
    /\ objs \in [Objects -> ObjRecs]
    /\ orders \in [Keys -> Objects \cup {NoObject}]
    /\ \A k \in Keys : orders[k] \in {NoObject, Own(k[2]), Reported(k)}
    /\ \A s \in Sessions, o \in Orders : orders[<<s, o>>] # NoObject => Sent(o)
    /\ sysOrders \in [Orders -> Objects \cup {NoObject}]
    /\ \A o \in Orders :
          /\ sysOrders[o] \in {NoObject, Own(o), Traded(o), Reported(SentKey(o))}
          /\ sysOrders[o] # NoObject => Sent(o)
          /\ sysOrders[o] = Reported(SentKey(o)) => orders[SentKey(o)] # NoObject
    /\ \A o \in Orders : sub[o] = "done" => orders[SentKey(o)] # NoObject

CancelRight ==
    /\ cancel \in [Orders -> Objects \cup {NoObject, Asked}]
    /\ \A o \in Orders :
          /\ cancel[o] \in {NoObject, Asked, Own(o), Reported(SentKey(o))}
          /\ cancel[o] # NoObject => sub[o] = "done"

CallbackRight ==
    /\ cb.at \in {"idle", "found", "freeing"}
    /\ Found => /\ got \in 1..Len(log) /\ Msg.kind = "order"
                /\ cb.object \in {NoObject, Own(Msg.order), Reported(KeyOf(Msg))}
                /\ cb.object = NoObject => objs[Reported(KeyOf(Msg))].status \notin Final
                /\ cb.object # NoObject => orders[KeyOf(Msg)] # NoObject

(* What CTP has announced of an order fits its state at the exchange.      *)
MsgFits(m, state) ==
    /\ m.kind = "order" => m.status \in {"ACTIVE", "FILLED", "CANCELLED", "REJECTED"}
    /\ m.kind = "trade" => m.status = ""
    /\ m.status = "FILLED" => state = "filled" /\ m.lots = Quantity
    /\ m.status = "CANCELLED" => state = "cancelled"
    /\ m.status = "REJECTED" <=> state = "rejected"

LogRight ==
    /\ \A i \in 1..Len(log) :
          sub[log[i].order] \in {"sent", "done"} /\ MsgFits(log[i], ex[log[i].order].state)
    /\ \A i, j \in 1..Len(log) :
          log[i].order = log[j].order /\ log[i].status \in Final /\ i < j
             => log[j].kind = "trade"
    /\ \A o \in Orders :
          ex[o].filled <= Quantity /\ (ex[o].filled = Quantity => ex[o].state = "filled")

(* An object that on_order made is final only once orders_ has an entry.   *)
MadeOnce == \A k \in Keys : objs[Reported(k)].status \in Final => orders[k] # NoObject

OInv == ObjectsRight /\ CancelRight /\ CallbackRight /\ LogRight /\ MadeOnce

(* Objects of different orders, or made by different hands, are different. *)
LEMMA ObjectNames ==
    /\ \A o \in Orders : /\ Own(o) \in Objects /\ Traded(o) \in Objects
                         /\ Own(o)[3] = o /\ Own(o) # NoObject /\ Own(o) # Asked
                         /\ Traded(o) # NoObject
    /\ \A k \in Keys : /\ Reported(k) \in Objects
                       /\ Reported(k)[3] = k[2] /\ Reported(k) # NoObject /\ Reported(k) # Asked
    /\ \A o, p \in Orders : (Own(o) = Own(p) => o = p) /\ Own(o) # Traded(p)
    /\ \A o \in Orders, k \in Keys : Own(o) # Reported(k) /\ Traded(o) # Reported(k)
    /\ \A k, l \in Keys : Reported(k) = Reported(l) => k = l
    /\ \A s \in Sessions, o \in Orders :
          <<s, o>> \in Keys /\ <<s, o>>[1] = s /\ <<s, o>>[2] = o
    /\ \A k \in Keys : k[1] \in Sessions /\ k[2] \in Orders /\ k = <<k[1], k[2]>>
    /\ \A s, t \in Sessions, o, p \in Orders : <<s, o>> = <<t, p>> => s = t /\ o = p
    /\ NoObject \notin Objects /\ Asked \notin Objects /\ NoObject # Asked
  <1>1. \A o \in Orders : Own(o) \in Objects /\ Traded(o) \in Objects
    BY DEF Objects
  <1>2. \A k \in Keys : Reported(k) \in Objects
    BY DEF Objects
  <1>3. \A k \in Keys : k[1] \in Sessions /\ k[2] \in Orders /\ k = <<k[1], k[2]>>
    BY DEF Keys
  <1>4. \A s \in Sessions, o \in Orders : <<s, o>> \in Keys
    BY DEF Keys
  <1>5. NoObject \notin Objects /\ Asked \notin Objects /\ NoObject # Asked
    BY DEF Objects, NoObject, Asked, Own, Traded, Reported
  <1>6. /\ \A o \in Orders : Own(o) # NoObject /\ Own(o) # Asked /\ Traded(o) # NoObject
        /\ \A k \in Keys : Reported(k) # NoObject /\ Reported(k) # Asked
    BY <1>1, <1>2, <1>5
  <1>7. \A k, l \in Keys : Reported(k) = Reported(l) => k = l
    BY <1>3 DEF Reported
  <1>8. \A o, p \in Orders : (Own(o) = Own(p) => o = p) /\ Own(o) # Traded(p)
    BY DEF Own, Traded
  <1>9. \A o \in Orders, k \in Keys : Own(o) # Reported(k) /\ Traded(o) # Reported(k)
    BY DEF Own, Traded, Reported
  <1>10. /\ \A o \in Orders : Own(o)[3] = o
         /\ \A k \in Keys : Reported(k)[3] = k[2]
    BY DEF Own, Reported
  <1>11. \A s \in Sessions, o \in Orders : <<s, o>>[1] = s /\ <<s, o>>[2] = o
    OBVIOUS
  <1>12. \A s, t \in Sessions, o, p \in Orders : <<s, o>> = <<t, p>> => s = t /\ o = p
    OBVIOUS
  <1> QED
    BY <1>1, <1>2, <1>3, <1>4, <1>5, <1>6, <1>7, <1>8, <1>9, <1>10, <1>11, <1>12

(* Fields of an object, set one by one.                                    *)
LEMMA Noted ==
    ASSUME NEW r \in ObjRecs, NEW n \in Int, NEW s \in Status
    PROVE  /\ LET f == [r EXCEPT !.filled = n] IN
                /\ f \in ObjRecs /\ f.status = r.status /\ f.filled = n
                /\ f.tradeFilled = r.tradeFilled /\ f.quantity = r.quantity
           /\ LET t == [r EXCEPT !.tradeFilled = n] IN
                /\ t \in ObjRecs /\ t.status = r.status /\ t.tradeFilled = n
                /\ t.filled = r.filled /\ t.quantity = r.quantity
           /\ LET u == [r EXCEPT !.status = s] IN
                /\ u \in ObjRecs /\ u.status = s /\ u.tradeFilled = r.tradeFilled
                /\ u.filled = r.filled /\ u.quantity = r.quantity
  BY DEF ObjRecs

(* An object as it is made.                                                *)
LEMMA NewRecs ==
    ASSUME NEW q \in Int
    PROVE  /\ NewObject(q) \in ObjRecs /\ NewObject(q).status = "PENDING_NEW"
           /\ NewObject(q).tradeFilled = 0 /\ NewObject(q).quantity = q
  BY DEF NewObject, ObjRecs, Status

(* on_order and on_trade go on to free cash.                               *)
LEMMA FreeingAt ==
    ASSUME NEW c, NEW lots
    PROVE  [IdleCallback EXCEPT !.at = "freeing", !.load = c, !.release = lots].at = "freeing"
  <1> DEFINE a == [IdleCallback EXCEPT !.at = "freeing"]
             b == [a EXCEPT !.load = c]
  <1>1. [IdleCallback EXCEPT !.at = "freeing", !.load = c, !.release = lots] = [b EXCEPT !.release = lots]
    BY Zenon
  <1>2. a = [at |-> "freeing", object |-> NoObject, load |-> 0, release |-> 0]
    BY DEF IdleCallback
  <1> HIDE DEF a
  <1>3. b = [at |-> "freeing", object |-> NoObject, load |-> c, release |-> 0]
    BY <1>2
  <1> HIDE DEF b
  <1>4. [b EXCEPT !.release = lots].at = "freeing"
    BY <1>3
  <1> QED
    BY <1>1, <1>4, Zenon
-----------------------------------------------------------------------------
(* Nothing is sent or announced at first.                                  *)
LEMMA InitOInv == Init => OInv
  <1> SUFFICES ASSUME Init PROVE OInv
    OBVIOUS
  <1>1. /\ session = 0 /\ early = {} /\ sentIn = [o \in Orders |-> 0]
        /\ sub = [o \in Orders |-> "idle"]
        /\ ex = [o \in Orders |-> [state |-> "none", filled |-> 0]]
        /\ log = <<>> /\ Len(log) = 0
        /\ cancel = [o \in Orders |-> NoObject]
        /\ objs = [x \in Objects |-> NewObject(Quantity)]
        /\ orders = [k \in Keys |-> NoObject]
        /\ sysOrders = [o \in Orders |-> NoObject]
        /\ cb.at = "idle"
    BY DEF Init, IdleCallback
  <1>2. 0 \in Sessions /\ Quantity \in Int /\ Quantity > 0
    BY ConstAssumption DEF Sessions
  <1>3. ObjectsRight
    <2>1. objs \in [Objects -> ObjRecs] /\ sentIn \in [Orders -> Sessions]
      BY <1>1, <1>2, NewRecs
    <2>2. /\ orders \in [Keys -> Objects \cup {NoObject}] /\ \A k \in Keys : orders[k] = NoObject
          /\ \A s \in Sessions, o \in Orders : orders[<<s, o>>] = NoObject
      BY <1>1, ObjectNames
    <2>3. /\ sysOrders \in [Orders -> Objects \cup {NoObject}]
          /\ \A o \in Orders : sysOrders[o] = NoObject /\ sub[o] # "done"
      BY <1>1
    <2>4. \A o \in Orders : Reported(SentKey(o)) # NoObject
      BY <2>1, ObjectNames DEF SentKey
    <2> QED
      BY <1>1, <1>2, <2>1, <2>2, <2>3, <2>4 DEF ObjectsRight
  <1>4. CancelRight /\ CallbackRight
    BY <1>1 DEF CancelRight, CallbackRight, Found
  <1>5. LogRight
    BY <1>1, <1>2 DEF LogRight
  <1>6. MadeOnce
    BY <1>1, <1>2, NewRecs, ObjectNames DEF MadeOnce, Final
  <1> QED
    BY <1>3, <1>4, <1>5, <1>6 DEF OInv

(* What an exchange step does: the log grows by messages of an order that  *)
(* was live.                                                               *)
Grows(o) ==
    /\ ex[o].state = "live" /\ Len(log') >= Len(log)
    /\ \A i \in 1..Len(log) : log'[i] = log[i]
    /\ \A p \in Orders \ {o} : ex'[p] = ex[p]
    /\ UNCHANGED <<stream, submit, cancel, cache, cb, account, told, raced, dead>>

(* New messages that fit the state the order is in now.                    *)
LEMMA LogRightGrows ==
    ASSUME PInv, PInv', LogRight, NEW o \in Orders, Grows(o),
           \A i \in 1..Len(log') : i > Len(log) => log'[i].order = o /\ MsgFits(log'[i], ex'[o].state),
           \A i, j \in 1..Len(log') :
              i > Len(log) /\ i < j /\ log'[i].status \in Final => log'[j].kind = "trade",
           Sent(o), ex'[o].state = "rejected" => \A i \in 1..Len(log) : log[i].order # o,
           ex'[o].filled <= Quantity /\ (ex'[o].filled = Quantity => ex'[o].state = "filled")
    PROVE  LogRight'
  <1>1. /\ Len(log) \in Nat /\ Len(log') \in Nat
        /\ \A i \in 1..Len(log) : log'[i] = log[i] /\ log[i] \in Msgs /\ log[i].order \in Orders
    <2>1. log \in Seq(Msgs) /\ log' \in Seq(Msgs)
      BY DEF PInv, Shape
    <2>2. \A i \in 1..Len(log) : log[i] \in Msgs
      BY <2>1, ElementOfSeq
    <2> QED
      BY <2>1, <2>2, LenProperties DEF Grows, Msgs
  <1>2. UNCHANGED sub /\ ex[o].state = "live" /\ \A p \in Orders \ {o} : ex'[p] = ex[p]
    BY DEF Grows, submit
  <1>3. \A i \in 1..Len(log) : log[i].order = o => log[i].status \notin Final
    BY <1>1, <1>2 DEF LogRight, MsgFits, Final
  <1>4. ASSUME NEW i \in 1..Len(log)
        PROVE  sub'[log'[i].order] \in {"sent", "done"} /\ MsgFits(log'[i], ex'[log'[i].order].state)
    <2>1. /\ sub[log[i].order] \in {"sent", "done"} /\ MsgFits(log[i], ex[log[i].order].state)
          /\ log'[i] = log[i] /\ log[i].order \in Orders
      BY <1>1 DEF LogRight
    <2>2. CASE log[i].order # o
      BY <2>1, <2>2, <1>2 DEF Sent
    <2>3. CASE log[i].order = o
      <3>1. log[i].status \notin Final /\ ex'[o].state # "rejected"
        BY <2>3, <1>3
      <3> QED
        BY <2>1, <2>3, <3>1, <1>2 DEF MsgFits, Sent, Final
    <2> QED
      BY <2>2, <2>3
  <1>5. \A i \in 1..Len(log') : i > Len(log) \/ i \in 1..Len(log)
    BY <1>1
  <1>6. \A i \in 1..Len(log') : sub'[log'[i].order] \in {"sent", "done"} /\ MsgFits(log'[i], ex'[log'[i].order].state)
    BY <1>2, <1>4, <1>5 DEF Sent
  <1>7. ASSUME NEW i \in 1..Len(log'), NEW j \in 1..Len(log'),
               log'[i].order = log'[j].order, log'[i].status \in Final, i < j
        PROVE  log'[j].kind = "trade"
    <2>1. CASE i > Len(log)
      BY <2>1, <1>7
    <2>2. CASE i \in 1..Len(log) /\ j \in 1..Len(log)
      BY <2>2, <1>1, <1>7 DEF LogRight
    <2>3. CASE i \in 1..Len(log) /\ j > Len(log)
      BY <2>3, <1>1, <1>3, <1>7
    <2> QED
      BY <2>1, <2>2, <2>3, <1>5
  <1>8. ASSUME NEW p \in Orders
        PROVE  ex'[p].filled <= Quantity /\ (ex'[p].filled = Quantity => ex'[p].state = "filled")
    BY <1>2 DEF LogRight
  <1> QED
    BY <1>6, <1>7, <1>8 DEF LogRight

(* The five steps of the exchange.                                         *)
LEMMA ExchangeLog ==
    ASSUME PInv, PInv', LogRight, ObjectsRight, NEW o \in Orders, ExchangeStep(o)
    PROVE  /\ Grows(o) /\ LogRight'
           /\ \E t \in {"live", "filled", "cancelled", "rejected"} : ex'[o].state = t
  <1> DEFINE n == Len(log) + 1
  <1>1. log \in Seq(Msgs) /\ Len(log) \in Nat /\ ex[o].filled \in Int /\ Quantity \in Int
    BY LenProperties, ConstAssumption DEF PInv, Shape
  <1>2. ASSUME ex[o].state = "live" PROVE Sent(o) /\ ex[o].filled < Quantity
    BY <1>2 DEF PInv, Shape, Room, Sent
  <1>3. ASSUME NEW s \in {"live", "filled", "cancelled", "rejected"}, NEW lots \in Int,
               NEW m \in Msgs, ex[o].state = "live", Announce(o, s, lots, <<m>>),
               m.order = o, MsgFits(m, s), lots <= Quantity, lots = Quantity => s = "filled",
               s = "rejected" => \A i \in 1..Len(log) : log[i].order # o
        PROVE  Grows(o) /\ LogRight' /\ ex'[o].state = s
    <2>1. /\ log' = log \o <<m>> /\ ex' = [ex EXCEPT ![o] = [state |-> s, filled |-> lots]]
          /\ UNCHANGED <<stream, submit, cancel, cache, cb, account, told, raced, dead>>
      BY <1>3 DEF Announce
    <2>2. /\ Len(log') = n /\ log'[n] = m /\ \A i \in 1..Len(log) : log'[i] = log[i]
      BY <2>1, <1>1, OneMore, AppendProps
    <2>3. Grows(o) /\ ex'[o].state = s /\ ex'[o].filled = lots
      BY <2>1, <2>2, <1>1, <1>3 DEF Grows, PInv, Shape
    <2>4. \A i \in 1..Len(log') : i > Len(log) => i = n
      BY <2>2, <1>1
    <2>5. \A i, j \in 1..Len(log') : i > Len(log) => ~(i < j)
      BY <2>2, <1>1
    <2> QED
      BY <2>2, <2>3, <2>4, <2>5, <1>2, <1>3, LogRightGrows
  <1>4. CASE Park(o)
    <2> DEFINE m == OrderMsg(o, "ACTIVE", ex[o].filled)
    <2>1. ex[o].state = "live" /\ Announce(o, "live", ex[o].filled, <<m>>)
      BY <1>4 DEF Park
    <2>2. m \in Msgs /\ m.kind = "order" /\ m.order = o /\ m.status = "ACTIVE"
      BY <1>1, OrderMsgs DEF OrderMsg, Status
    <2> HIDE DEF m
    <2>4. MsgFits(m, "live")
      BY <2>2 DEF MsgFits
    <2> QED
      BY <2>1, <2>2, <2>4, <1>1, <1>2, <1>3
  <1>5. CASE ExchangeCancel(o)
    <2> DEFINE m == OrderMsg(o, "CANCELLED", ex[o].filled)
    <2>1. ex[o].state = "live" /\ Announce(o, "cancelled", ex[o].filled, <<m>>)
      BY <1>5 DEF ExchangeCancel
    <2>2. m \in Msgs /\ m.kind = "order" /\ m.order = o /\ m.status = "CANCELLED"
      BY <1>1, OrderMsgs DEF OrderMsg, Status
    <2> HIDE DEF m
    <2>4. MsgFits(m, "cancelled")
      BY <2>2 DEF MsgFits
    <2> QED
      BY <2>1, <2>2, <2>4, <1>1, <1>2, <1>3
  <1>6. CASE Reject(o)
    <2> DEFINE m == OrderMsg(o, "REJECTED", 0)
    <2>1. /\ ex[o].state = "live" /\ Announce(o, "rejected", 0, <<m>>)
          /\ \A i \in 1..Len(log) : log[i].order # o
      BY <1>6, <1>1 DEF Reject
    <2>2. m \in Msgs /\ m.kind = "order" /\ m.order = o /\ m.status = "REJECTED"
      BY <1>1, OrderMsgs DEF OrderMsg, Status
    <2>4. 0 < Quantity
      BY ConstAssumption
    <2> HIDE DEF m
    <2>5. MsgFits(m, "rejected")
      BY <2>2 DEF MsgFits
    <2>6. 0 \in Int /\ 0 <= Quantity /\ 0 # Quantity
      BY <2>4, <1>1
    <2>7. Grows(o) /\ LogRight' /\ ex'[o].state = "rejected"
      BY <2>1, <2>2, <2>5, <2>6, <1>3
    <2> QED
      BY <2>7
  <1>7. ASSUME NEW last \in 1..Quantity, FillPart(o, last)
        PROVE  Grows(o) /\ LogRight' /\ ex'[o].state = "live"
    <2> DEFINE lots == ex[o].filled + last
               m == TradeMsg(o, last, lots)
    <2>1. ex[o].state = "live" /\ lots < Quantity /\ Announce(o, "live", lots, <<m>>) /\ lots \in Int
      BY <1>1, <1>7 DEF FillPart
    <2>2. m \in Msgs /\ m.kind = "trade" /\ m.order = o /\ m.status = ""
      <3>1. last \in Int
        BY <1>1
      <3>2. m.status = ""
        BY DEF TradeMsg
      <3>3. m \in Msgs /\ m.kind = "trade" /\ m.order = o
        BY <2>1, <3>1, TradeMsgs
      <3> QED
        BY <2>1, <3>1, <3>2, <3>3
    <2> HIDE DEF m, lots
    <2>3. lots <= Quantity /\ lots # Quantity
      BY <2>1, <1>1
    <2>4. MsgFits(m, "live")
      BY <2>2 DEF MsgFits
    <2> QED
      BY <2>1, <2>2, <2>3, <2>4, <1>3
  <1>8. CASE FillAll(o)
    <2> DEFINE news  == OrderMsg(o, "FILLED", Quantity)
               trade == TradeMsg(o, Quantity - ex[o].filled, Quantity)
    <2>1. /\ ex[o].state = "live"
          /\ \/ Announce(o, "filled", Quantity, <<news, trade>>)
             \/ Announce(o, "filled", Quantity, <<trade, news>>)
      BY <1>8 DEF FillAll
    <2>2. /\ news \in Msgs /\ news.kind = "order" /\ news.order = o /\ news.status = "FILLED"
          /\ news.lots = Quantity
      BY <1>1, OrderMsgs DEF OrderMsg, Status
    <2>3. trade \in Msgs /\ trade.kind = "trade" /\ trade.order = o /\ trade.status = ""
      <3>1. Quantity - ex[o].filled \in Int
        BY <1>1
      <3>2. trade.status = ""
        BY DEF TradeMsg
      <3>3. trade \in Msgs /\ trade.kind = "trade" /\ trade.order = o
        BY <1>1, <3>1, TradeMsgs
      <3> QED
        BY <1>1, <3>1, <3>2, <3>3
    <2> HIDE DEF news, trade
    <2>4. ASSUME NEW a \in {news, trade}, NEW b \in {news, trade}, a.status \in Final => b = trade,
                 Announce(o, "filled", Quantity, <<a, b>>)
          PROVE  Grows(o) /\ LogRight' /\ ex'[o].state = "filled"
      <3>1. /\ log' = log \o <<a, b>> /\ ex' = [ex EXCEPT ![o] = [state |-> "filled", filled |-> Quantity]]
            /\ UNCHANGED <<stream, submit, cancel, cache, cb, account, told, raced, dead>>
        BY <2>4 DEF Announce
      <3>2. a \in Msgs /\ b \in Msgs /\ Append(log, a) \in Seq(Msgs) /\ log' = Append(Append(log, a), b)
        <4>1. a \in Msgs /\ b \in Msgs
          BY <2>2, <2>3
        <4>2. log \o <<a, b>> = Append(Append(log, a), b) /\ Append(log, a) \in Seq(Msgs)
          BY <4>1, <1>1, TwoMore, AppendProps
        <4> QED
          BY <3>1, <4>1, <4>2
      <3>3. /\ Len(log') = n + 1 /\ log'[n] = a /\ log'[n + 1] = b
            /\ \A i \in 1..Len(log) : log'[i] = log[i]
        <4>1. /\ Len(Append(log, a)) = n /\ Append(log, a)[n] = a
              /\ \A i \in 1..Len(log) : Append(log, a)[i] = log[i]
          BY <3>2, <1>1, AppendProps
        <4>2. /\ Len(log') = n + 1 /\ log'[n + 1] = b
              /\ \A i \in 1..n : log'[i] = Append(log, a)[i]
          BY <3>2, <4>1, AppendProps
        <4> QED
          BY <4>1, <4>2, <1>1
      <3>4. Grows(o) /\ ex'[o].state = "filled" /\ ex'[o].filled = Quantity
        BY <2>1, <3>1, <3>3, <1>1 DEF Grows, PInv, Shape
      <3>5. a.order = o /\ b.order = o
        BY <2>2, <2>3
      <3>6. MsgFits(a, "filled") /\ MsgFits(b, "filled")
        BY <2>2, <2>3 DEF MsgFits
      <3>7. \A i \in 1..Len(log') : i > Len(log) => i = n \/ i = n + 1
        BY <3>3, <1>1
      <3>8. \A i, j \in 1..Len(log') : i > Len(log) /\ i < j => i = n /\ j = n + 1
        BY <3>3, <1>1
      <3>9. \A i \in 1..Len(log') : i > Len(log) => log'[i].order = o /\ MsgFits(log'[i], ex'[o].state)
        BY <3>3, <3>4, <3>5, <3>6, <3>7
      <3>10. \A i, j \in 1..Len(log') :
                i > Len(log) /\ i < j /\ log'[i].status \in Final => log'[j].kind = "trade"
        BY <3>3, <3>8, <2>3, <2>4
      <3>11. Quantity <= Quantity
        BY <1>1
      <3> HIDE DEF n
      <3> QED
        BY <3>4, <3>9, <3>10, <3>11, <1>2, <2>1, LogRightGrows
    <2>5. trade.status \notin Final
      BY <2>3 DEF Final
    <2> QED
      BY <2>1, <2>4, <2>5
  <1> QED
    BY <1>4, <1>5, <1>6, <1>7, <1>8 DEF ExchangeStep
-----------------------------------------------------------------------------
(* The message under way is a message about an order of the account.       *)
LEMMA MsgOfOrder ==
    ASSUME PInv, OInv, Found
    PROVE  /\ got \in 1..Len(log) /\ Msg \in Msgs /\ Msg.kind = "order" /\ Msg.order \in Orders
           /\ Msg.status \in {"ACTIVE", "FILLED", "CANCELLED", "REJECTED"} /\ Msg.lots \in Int
           /\ MsgFits(Msg, ex[Msg.order].state) /\ Sent(Msg.order)
           /\ KeyOf(Msg) \in Keys /\ KeyOf(Msg)[2] = Msg.order
           /\ Msg.status # "REJECTED" => KeyOf(Msg) = SentKey(Msg.order)
  <1>1. got \in 1..Len(log) /\ Msg.kind = "order"
    BY DEF OInv, CallbackRight
  <1>2. Msg \in Msgs
    BY <1>1, ElementOfSeq DEF PInv, Shape, Msg
  <1>3. Msg.order \in Orders /\ Msg.lots \in Int
    BY <1>2 DEF Msgs
  <1>4. sub[Msg.order] \in {"sent", "done"} /\ MsgFits(Msg, ex[Msg.order].state)
    BY <1>1 DEF OInv, LogRight, Msg
  <1>5. Msg.status \in {"ACTIVE", "FILLED", "CANCELLED", "REJECTED"}
    BY <1>1, <1>4 DEF MsgFits
  <1>6. session \in Sessions /\ sentIn[Msg.order] \in Sessions
    BY <1>3 DEF OInv, ObjectsRight
  <1>7. KeyOf(Msg) \in Keys /\ KeyOf(Msg)[2] = Msg.order
    BY <1>3, <1>6, ObjectNames DEF KeyOf
  <1>8. Msg.status # "REJECTED" => KeyOf(Msg) = SentKey(Msg.order)
    BY DEF KeyOf, SentKey
  <1> QED
    BY <1>1, <1>2, <1>3, <1>4, <1>5, <1>7, <1>8 DEF Sent

(* A step of the exchange changes no object and no message under way.      *)
LEMMA MsgKept ==
    ASSUME PInv, OInv, Found, \A i \in 1..Len(log) : log'[i] = log[i],
           UNCHANGED <<got, session>>, sentIn'[Msg.order] = sentIn[Msg.order]
    PROVE  Msg' = Msg /\ KeyOf(Msg)' = KeyOf(Msg)
  <1>1. log'[got] = log[got]
    BY DEF OInv, CallbackRight
  <1> QED
    BY <1>1 DEF Msg, KeyOf

(* Nothing but the exchange has changed.                                   *)
LEMMA ExchangeObjects ==
    ASSUME PInv, PInv', OInv, NEW o \in Orders, ExchangeStep(o)
    PROVE  OInv'
  <1>1. Grows(o) /\ LogRight'
    BY ExchangeLog DEF OInv
  <1>2. /\ UNCHANGED <<got, session, early, sub, sentIn, cancel, objs, orders, sysOrders, cb>>
        /\ \A i \in 1..Len(log) : log'[i] = log[i]
        /\ Len(log) \in Nat /\ Len(log') \in Nat /\ Len(log') >= Len(log)
    BY <1>1, LenProperties DEF Grows, stream, submit, cache, PInv, Shape
  <1>3. ObjectsRight' /\ CancelRight' /\ MadeOnce'
    BY <1>2 DEF OInv, ObjectsRight, CancelRight, MadeOnce, Sent, SentKey
  <1>4. CallbackRight'
    <2>1. CASE ~Found
      BY <2>1, <1>2 DEF OInv, CallbackRight, Found
    <2>2. CASE Found
      <3>1. Msg' = Msg /\ KeyOf(Msg)' = KeyOf(Msg)
        BY <2>2, <1>2, MsgKept
      <3>2. got \in 1..Len(log')
        BY <2>2, <1>2 DEF OInv, CallbackRight
      <3> QED
        BY <2>2, <3>1, <3>2, <1>2 DEF OInv, CallbackRight, Found
    <2> QED
      BY <2>1, <2>2
  <1> QED
    BY <1>1, <1>3, <1>4 DEF OInv

(* Steps that change neither objects nor messages.                         *)
LEMMA OtherObjects ==
    ASSUME PInv, OInv,
           UNCHANGED <<ex, log, session, sentIn, objs, orders, sysOrders>>,
           early' \subseteq Orders,
           \A o \in Orders : /\ Sent(o)' = Sent(o)
                             /\ sub'[o] = "done" <=> sub[o] = "done",
           \/ UNCHANGED <<got, cb>>
           \/ cb'.at \in {"idle", "freeing"},
           CancelRight'
    PROVE  OInv'
  <1>1. ObjectsRight' /\ MadeOnce'
    BY DEF OInv, ObjectsRight, MadeOnce, SentKey
  <1>2. LogRight'
    <2>1. \A i \in 1..Len(log) : log[i].order \in Orders
      <3>1. \A i \in 1..Len(log) : log[i] \in Msgs
        BY ElementOfSeq DEF PInv, Shape
      <3> QED
        BY <3>1 DEF Msgs
    <2>2. \A i \in 1..Len(log) : sub'[log[i].order] \in {"sent", "done"}
      BY <2>1 DEF OInv, LogRight, Sent
    <2> QED
      BY <2>2 DEF OInv, LogRight
  <1>3. CallbackRight'
    BY DEF OInv, CallbackRight, Found, Msg, KeyOf
  <1> QED
    BY <1>1, <1>2, <1>3 DEF OInv

(* The order is sent, and sent once; nothing refers to it before.          *)
LEMMA SendObjects ==
    ASSUME PInv, OInv, NEW o \in Orders, NEW accepted \in BOOLEAN, SendOrder(o, accepted)
    PROVE  OInv'
  <1>1. /\ sub[o] = "published" /\ sub' = [sub EXCEPT ![o] = "sent"]
        /\ sentIn' = [sentIn EXCEPT ![o] = session]
        /\ ex' = IF accepted THEN [ex EXCEPT ![o].state = "live"] ELSE ex
        /\ UNCHANGED <<log, got, session, early, cancel, objs, orders, sysOrders, cb>>
    BY DEF SendOrder, stream, cache
  <1>2. /\ sub \in [Orders -> {"idle", "adding", "published", "sent", "done"}]
        /\ ex[o].state = "none" /\ ex[o].filled = 0 /\ ~Sent(o)
        /\ session \in Sessions /\ sentIn \in [Orders -> Sessions]
    BY <1>1 DEF PInv, Shape, Room, OInv, ObjectsRight, Sent
  <1>3. /\ sub'[o] = "sent" /\ sentIn'[o] = session /\ ex'[o].filled = 0
        /\ \A p \in Orders \ {o} : sub'[p] = sub[p] /\ sentIn'[p] = sentIn[p] /\ ex'[p] = ex[p]
        /\ sentIn' \in [Orders -> Sessions]
    BY <1>1, <1>2 DEF PInv, Shape
  <1>4. \A i \in 1..Len(log) : log[i] \in Msgs /\ log[i].order \in Orders \ {o}
    <2>1. \A i \in 1..Len(log) : log[i] \in Msgs /\ sub[log[i].order] \in {"sent", "done"}
      BY ElementOfSeq DEF PInv, Shape, OInv, LogRight
    <2> QED
      BY <2>1, <1>1 DEF Msgs
  <1>5. LogRight'
    <2>1. 0 <= Quantity /\ 0 # Quantity
      BY ConstAssumption
    <2>2. \A p \in Orders : /\ ex'[p].filled <= Quantity
                            /\ ex'[p].filled = Quantity => ex'[p].state = "filled"
      <3>1. ex'[o].filled <= Quantity /\ ex'[o].filled # Quantity
        BY <1>3, <2>1
      <3> QED
        BY <1>3, <3>1 DEF OInv, LogRight
    <2> QED
      BY <1>1, <1>3, <1>4, <2>2 DEF OInv, LogRight
  <1>6. /\ \A p \in Orders \ {o} : SentKey(p)' = SentKey(p) /\ Sent(p)' = Sent(p)
        /\ Sent(o)' /\ sysOrders[o] = NoObject /\ cancel[o] = NoObject
    BY <1>1, <1>2, <1>3 DEF OInv, ObjectsRight, CancelRight, SentKey, Sent
  <1>7. Reported(SentKey(o))' # NoObject
    BY <1>2, <1>3, ObjectNames DEF SentKey
  <1>8. ObjectsRight'
    <2>1. /\ session' \in Sessions /\ early' \subseteq Orders
          /\ objs' \in [Objects -> ObjRecs] /\ orders' \in [Keys -> Objects \cup {NoObject}]
          /\ sysOrders' \in [Orders -> Objects \cup {NoObject}]
          /\ \A k \in Keys : orders'[k] \in {NoObject, Own(k[2]), Reported(k)}
      BY <1>1 DEF OInv, ObjectsRight
    <2>2. \A s \in Sessions, p \in Orders : orders'[<<s, p>>] # NoObject => Sent(p)'
      BY <1>1, <1>6 DEF OInv, ObjectsRight
    <2>3. ASSUME NEW p \in Orders
          PROVE  /\ sysOrders'[p] \in {NoObject, Own(p), Traded(p), Reported(SentKey(p)')}
                 /\ sysOrders'[p] # NoObject => Sent(p)'
                 /\ sysOrders'[p] = Reported(SentKey(p)') => orders'[SentKey(p)'] # NoObject
                 /\ sub'[p] = "done" => orders'[SentKey(p)'] # NoObject
      <3>1. CASE p = o
        BY <3>1, <1>1, <1>3, <1>6, <1>7 DEF Sent
      <3>2. CASE p # o
        BY <3>2, <1>1, <1>3, <1>6 DEF OInv, ObjectsRight
      <3> QED
        BY <3>1, <3>2
    <2> QED
      BY <2>1, <2>2, <2>3, <1>3 DEF ObjectsRight
  <1>9. CancelRight'
    <2>1. ASSUME NEW p \in Orders
          PROVE  /\ cancel'[p] \in {NoObject, Asked, Own(p), Reported(SentKey(p)')}
                 /\ cancel'[p] # NoObject => sub'[p] = "done"
      <3>1. CASE p = o
        BY <3>1, <1>1, <1>6
      <3>2. CASE p # o
        BY <3>2, <1>1, <1>3, <1>6 DEF OInv, CancelRight
      <3> QED
        BY <3>1, <3>2
    <2> QED
      BY <2>1, <1>1 DEF OInv, CancelRight
  <1>10. CallbackRight'
    <2>1. CASE ~Found
      BY <2>1, <1>1 DEF OInv, CallbackRight, Found
    <2>2. CASE Found
      <3>1. Msg.order \in Orders \ {o} /\ got \in 1..Len(log)
        BY <2>2, <1>4 DEF OInv, CallbackRight, Msg
      <3>2. Msg' = Msg /\ KeyOf(Msg)' = KeyOf(Msg)
        BY <2>2, <3>1, <1>1, <1>3, MsgKept
      <3> QED
        BY <2>2, <3>1, <3>2, <1>1 DEF OInv, CallbackRight, Found
    <2> QED
      BY <2>1, <2>2
  <1>11. MadeOnce'
    BY <1>1 DEF OInv, MadeOnce
  <1> QED
    BY <1>5, <1>8, <1>9, <1>10, <1>11 DEF OInv

(* The order is entered in orders_, its own object in the key it was sent  *)
(* with.                                                                   *)
LEMMA CacheObjects ==
    ASSUME PInv, OInv, NEW o \in Orders, CacheOrder(o)
    PROVE  OInv'
  <1>1. /\ sub[o] = "sent" /\ sub' = [sub EXCEPT ![o] = "done"]
        /\ orders' = [orders EXCEPT ![SentKey(o)] = Own(o)]
        /\ UNCHANGED <<ex, log, got, session, early, sentIn, cancel, objs, sysOrders, cb>>
    BY DEF CacheOrder, exchange, stream, SentKey
  <1>2. /\ sub' \in [Orders -> {"idle", "adding", "published", "sent", "done"}] /\ sub'[o] = "done"
        /\ \A p \in Orders \ {o} : sub'[p] = sub[p]
    BY <1>1 DEF PInv, Shape
  <1>3. \A p \in Orders : SentKey(p)' = SentKey(p) /\ Sent(p)' = Sent(p)
    BY <1>1, <1>2 DEF SentKey, Sent
  <1>4. \A p \in Orders : SentKey(p) \in Keys /\ SentKey(p)[2] = p /\ SentKey(p)[1] = sentIn[p]
    BY ObjectNames DEF OInv, ObjectsRight, SentKey
  <1>5. /\ orders' \in [Keys -> Objects \cup {NoObject}]
        /\ orders'[SentKey(o)] = Own(o)
        /\ \A k \in Keys : k # SentKey(o) => orders'[k] = orders[k]
        /\ \A k \in Keys : orders[k] # NoObject => orders'[k] # NoObject
    <2>1. Own(o) \in Objects /\ Own(o) # NoObject
      BY ObjectNames
    <2> QED
      BY <2>1, <1>1, <1>4 DEF OInv, ObjectsRight
  <1>6. ObjectsRight'
    <2>1. \A k \in Keys : orders'[k] \in {NoObject, Own(k[2]), Reported(k)}
      BY <1>4, <1>5 DEF OInv, ObjectsRight
    <2>2. ASSUME NEW s \in Sessions, NEW p \in Orders, orders'[<<s, p>>] # NoObject
          PROVE  Sent(p)'
      <3>1. CASE <<s, p>> = SentKey(o)
        <4>1. p = o
          BY <3>1, <1>4, ObjectNames
        <4> QED
          BY <4>1, <1>2 DEF Sent
      <3>2. CASE <<s, p>> # SentKey(o)
        <4>1. <<s, p>> \in Keys
          BY ObjectNames
        <4> QED
          BY <3>2, <4>1, <2>2, <1>3, <1>5 DEF OInv, ObjectsRight
      <3> QED
        BY <3>1, <3>2
    <2>3. \A p \in Orders : /\ sysOrders[p] = Reported(SentKey(p)) => orders'[SentKey(p)] # NoObject
                            /\ sub'[p] = "done" => orders'[SentKey(p)] # NoObject
      <3>1. Own(o) # NoObject
        BY ObjectNames
      <3> QED
        BY <3>1, <1>2, <1>4, <1>5 DEF OInv, ObjectsRight
    <2> QED
      BY <2>1, <2>2, <2>3, <1>1, <1>3, <1>5 DEF OInv, ObjectsRight
  <1>7. CancelRight'
    BY <1>1, <1>2, <1>3 DEF OInv, CancelRight
  <1>8. CallbackRight'
    <2>1. CASE ~Found
      BY <2>1, <1>1 DEF OInv, CallbackRight, Found
    <2>2. CASE Found
      <3>1. Msg' = Msg /\ KeyOf(Msg)' = KeyOf(Msg)
        BY <2>2, <1>1, MsgKept DEF OInv
      <3>2. KeyOf(Msg) \in Keys
        BY <2>2, MsgOfOrder
      <3> QED
        BY <2>2, <3>1, <3>2, <1>1, <1>5 DEF OInv, CallbackRight, Found
    <2> QED
      BY <2>1, <2>2
  <1>9. LogRight' /\ MadeOnce'
    <2>1. \A i \in 1..Len(log) : sub'[log[i].order] \in {"sent", "done"}
      <3>1. \A i \in 1..Len(log) : log[i] \in Msgs
        BY ElementOfSeq DEF PInv, Shape
      <3>2. \A i \in 1..Len(log) : log[i].order \in Orders
        BY <3>1 DEF Msgs
      <3> QED
        BY <3>2, <1>2 DEF OInv, LogRight
    <2> QED
      BY <2>1, <1>1, <1>5 DEF OInv, LogRight, MadeOnce
  <1> QED
    BY <1>6, <1>7, <1>8, <1>9 DEF OInv

(* cancel_order looks up the object that orders_ has.                      *)
LEMMA CancelObjects ==
    ASSUME PInv, OInv, NEW o \in Orders, CancelOrder(o)
    PROVE  OInv'
  <1>1. /\ sub[o] = "done" /\ cancel[o] = NoObject
        /\ \/ cancel' = [cancel EXCEPT ![o] = Asked]
           \/ cancel' = [cancel EXCEPT ![o] = orders[SentKey(o)]]
        /\ UNCHANGED <<ex, log, got, session, early, sentIn, objs, orders, sysOrders, cb, sub>>
    BY DEF CancelOrder, exchange, stream, submit, cache, SentKey
  <1>2. SentKey(o) \in Keys /\ SentKey(o)[2] = o
    BY ObjectNames DEF OInv, ObjectsRight, SentKey
  <1>3. orders[SentKey(o)] \in Objects /\ orders[SentKey(o)] \in {Own(o), Reported(SentKey(o))}
    BY <1>1, <1>2 DEF OInv, ObjectsRight
  <1>4. cancel' \in [Orders -> Objects \cup {NoObject, Asked}]
    BY <1>1, <1>3 DEF OInv, CancelRight
  <1>5. CancelRight'
    BY <1>1, <1>3, <1>4 DEF OInv, CancelRight, SentKey
  <1> QED
    BY <1>1, <1>5, OtherObjects DEF Sent, OInv, ObjectsRight

(* set_pending_cancel writes to the object it looked up.                   *)
LEMMA PendingObjects ==
    ASSUME PInv, OInv, NEW o \in Orders, SetPendingCancel(o)
    PROVE  /\ OInv' /\ cancel[o] \in {Own(o), Reported(SentKey(o))}
           /\ objs'[cancel[o]] \in ObjRecs /\ objs'[cancel[o]].status = "PENDING_CANCEL"
           /\ objs'[cancel[o]].filled = objs[cancel[o]].filled
           /\ objs'[cancel[o]].tradeFilled = objs[cancel[o]].tradeFilled
           /\ objs'[cancel[o]].quantity = objs[cancel[o]].quantity
           /\ \A x \in Objects : x # cancel[o] => objs'[x] = objs[x]
           /\ \A p \in Orders : cancel[p] # NoObject <=> cancel'[p] # NoObject
  <1>1. /\ cancel[o] \notin {NoObject, Asked}
        /\ objs' = [objs EXCEPT ![cancel[o]].status = "PENDING_CANCEL"]
        /\ cancel' = [cancel EXCEPT ![o] = Asked]
        /\ UNCHANGED <<ex, log, got, session, early, sentIn, orders, sysOrders, cb, sub>>
    BY DEF SetPendingCancel, exchange, stream, submit
  <1>2. cancel[o] \in Objects /\ cancel[o] \in {Own(o), Reported(SentKey(o))} /\ sub[o] = "done"
    BY <1>1 DEF OInv, CancelRight
  <1>3. /\ objs'[cancel[o]] \in ObjRecs /\ objs'[cancel[o]].status = "PENDING_CANCEL"
        /\ objs'[cancel[o]].filled = objs[cancel[o]].filled
        /\ objs'[cancel[o]].tradeFilled = objs[cancel[o]].tradeFilled
        /\ objs'[cancel[o]].quantity = objs[cancel[o]].quantity
        /\ \A x \in Objects : x # cancel[o] => objs'[x] = objs[x]
        /\ objs' \in [Objects -> ObjRecs]
    BY <1>1, <1>2 DEF OInv, ObjectsRight, ObjRecs, Status
  <1>4. \A p \in Orders : cancel[p] # NoObject <=> cancel'[p] # NoObject
    <2>1. Asked # NoObject
      BY ObjectNames
    <2> QED
      BY <2>1, <1>1 DEF OInv, CancelRight
  <1>5. CancelRight'
    <2>1. cancel' \in [Orders -> Objects \cup {NoObject, Asked}]
      BY <1>1 DEF OInv, CancelRight
    <2> QED
      BY <2>1, <1>1, <1>2 DEF OInv, CancelRight, SentKey
  <1>6. \A x \in Objects : objs'[x].status \in Final => objs[x].status \in Final
    BY <1>3 DEF Final
  <1>7. ObjectsRight' /\ LogRight'
    BY <1>1, <1>3 DEF OInv, ObjectsRight, LogRight, SentKey, Sent
  <1>8. MadeOnce'
    BY <1>1, <1>6, ObjectNames DEF OInv, MadeOnce
  <1>9. CallbackRight'
    <2>1. CASE ~Found
      BY <2>1, <1>1 DEF OInv, CallbackRight, Found
    <2>2. CASE Found
      <3>1. Msg' = Msg /\ KeyOf(Msg)' = KeyOf(Msg)
        BY <2>2, <1>1, MsgKept
      <3>2. Reported(KeyOf(Msg)) \in Objects
        BY <2>2, MsgOfOrder, ObjectNames
      <3> QED
        BY <2>2, <3>1, <3>2, <1>1, <1>6 DEF OInv, CallbackRight, Found
    <2> QED
      BY <2>1, <2>2
  <1> QED
    BY <1>2, <1>3, <1>4, <1>5, <1>7, <1>8, <1>9 DEF OInv

(* on_order finds what orders_ has for the key.                            *)
LEMMA OnOrderObjects ==
    ASSUME PInv, PInv', OInv, OnOrder
    PROVE  /\ OInv' /\ Found' /\ Msg' = log[got + 1] /\ got + 1 \in 1..Len(log)
           /\ Msg' \in Msgs /\ Msg'.order \in Orders
           /\ KeyOf(Msg)' \in Keys /\ KeyOf(Msg)'[2] = Msg'.order
           /\ Msg'.status # "REJECTED" => KeyOf(Msg)' = SentKey(Msg'.order)
           /\ cb'.object = orders[KeyOf(Msg)']
           /\ UNCHANGED <<ex, log, session, sub, sentIn, cancel, cache, account, told, dead>>
  <1>1. /\ Take /\ log[got + 1].kind = "order"
        /\ UNCHANGED <<ex, log, session, sub, sentIn, cancel, cache, account, told, dead>>
        /\ cb' = [IdleCallback EXCEPT !.at = "found", !.object = orders[KeyOf(log[got + 1])]]
    BY DEF OnOrder, exchange, submit
  <1>2. /\ cb.at = "idle" /\ got' = got + 1 /\ got + 1 \in 1..Len(log) /\ log[got + 1] \in Msgs
    BY <1>1, TakeEffect DEF Take
  <1>3. Msg' = log[got + 1]
    BY <1>1, <1>2 DEF Msg
  <1>4. cb'.at = "found" /\ cb'.object = orders[KeyOf(log[got + 1])]
    <2> DEFINE a == [IdleCallback EXCEPT !.at = "found"]
               x == orders[KeyOf(log[got + 1])]
    <2>1. [IdleCallback EXCEPT !.at = "found", !.object = x] = [a EXCEPT !.object = x]
      BY Zenon
    <2>2. a = [at |-> "found", object |-> NoObject, load |-> 0, release |-> 0]
      BY DEF IdleCallback
    <2> HIDE DEF a, x
    <2>3. [a EXCEPT !.object = x].at = "found" /\ [a EXCEPT !.object = x].object = x
      BY <2>2
    <2>4. cb' = [a EXCEPT !.object = x]
      BY <1>1, <2>1 DEF x
    <2> QED
      BY <2>3, <2>4 DEF x
  <1>5. KeyOf(Msg)' = KeyOf(log[got + 1])
    BY <1>1, <1>3 DEF KeyOf
  <1>6. Msg'.order \in Orders /\ Msg'.kind = "order"
    BY <1>1, <1>2, <1>3 DEF Msgs
  <1>7. /\ KeyOf(Msg)' \in Keys /\ KeyOf(Msg)'[2] = Msg'.order
        /\ Msg'.status # "REJECTED" => KeyOf(Msg)' = SentKey(Msg'.order)
    <2>1. session \in Sessions /\ sentIn[Msg'.order] \in Sessions
      BY <1>6 DEF OInv, ObjectsRight
    <2> QED
      BY <2>1, <1>1, <1>3, <1>5, <1>6, ObjectNames DEF KeyOf, SentKey
  <1>8. UNCHANGED <<objs, orders, sysOrders, openOrders>>
    BY <1>1 DEF cache
  <1>9. CallbackRight'
    <2>1. cb'.object = orders[KeyOf(Msg)']
      BY <1>4, <1>5
    <2>2. orders[KeyOf(Msg)'] \in {NoObject, Own(Msg'.order), Reported(KeyOf(Msg)')}
      BY <1>7 DEF OInv, ObjectsRight
    <2>3. orders[KeyOf(Msg)'] = NoObject => objs[Reported(KeyOf(Msg)')].status \notin Final
      BY <1>7 DEF OInv, MadeOnce
    <2>4. got' \in 1..Len(log')
      BY <1>1, <1>2
    <2> QED
      BY <2>1, <2>2, <2>3, <2>4, <1>4, <1>6, <1>8 DEF CallbackRight, Found
  <1>10. early' \subseteq Orders
    <2>1. log[got + 1].order \in Orders
      BY <1>2 DEF Msgs
    <2> QED
      BY <2>1, <1>1 DEF Take, OInv, ObjectsRight
  <1>11. ObjectsRight' /\ CancelRight' /\ LogRight' /\ MadeOnce'
    BY <1>1, <1>8, <1>10 DEF OInv, ObjectsRight, CancelRight, LogRight, MadeOnce, SentKey, Sent
  <1> QED
    BY <1>1, <1>2, <1>3, <1>4, <1>5, <1>6, <1>7, <1>9, <1>11 DEF OInv, Found

(* The object on_order works on, and what it finds there.                  *)
It  == IF cb.object = NoObject THEN Reported(KeyOf(Msg)) ELSE cb.object
Was == IF cb.object = NoObject THEN NewObject(Quantity) ELSE objs[It]

(* What on_order does with them.                                           *)
LEMMA ProcessEffect ==
    ASSUME PInv, OInv, ProcessOrder
    PROVE  /\ Found /\ It \in Objects /\ It \in {Own(Msg.order), Reported(KeyOf(Msg))}
           /\ Was \in ObjRecs
           /\ cb.object = NoObject => It = Reported(KeyOf(Msg)) /\ Was = NewObject(Quantity)
           /\ cb.object # NoObject => It = cb.object /\ Was = objs[It]
           /\ objs' \in [Objects -> ObjRecs]
           /\ objs'[It].status = NextStatus(Was.status, Msg.status)
           /\ objs'[It].filled = Msg.lots /\ objs'[It].tradeFilled = Was.tradeFilled
           /\ objs'[It].quantity = Was.quantity
           /\ \A x \in Objects : x # It => objs'[x] = objs[x]
           /\ orders' \in [Keys -> Objects \cup {NoObject}]
           /\ orders'[KeyOf(Msg)] # NoObject
           /\ orders'[KeyOf(Msg)] = IF cb.object = NoObject THEN It ELSE orders[KeyOf(Msg)]
           /\ \A k \in Keys : k # KeyOf(Msg) => orders'[k] = orders[k]
           /\ sysOrders' \in [Orders -> Objects \cup {NoObject}]
           /\ \/ sysOrders' = sysOrders
              \/ /\ Msg.status # "REJECTED" /\ sysOrders'[Msg.order] = It
                 /\ cb.object = NoObject \/ sysOrders[Msg.order] = NoObject
           /\ Msg.status # "REJECTED" => sysOrders'[Msg.order] # NoObject
           /\ cb.object = NoObject /\ Msg.status # "REJECTED" => sysOrders'[Msg.order] = It
           /\ \A o \in Orders : o # Msg.order => sysOrders'[o] = sysOrders[o]
           /\ openOrders' = IF Event(Was.status, Msg.status) # "none" THEN Removed(It)
                            ELSE IF Was.status = "PENDING_NEW" THEN Added(It) ELSE openOrders
           /\ toldEnd' = IF Event(Was.status, Msg.status) = "ORDER_UNSOLICITED_UPDATE" /\ It = Own(Msg.order)
                         THEN [toldEnd EXCEPT ![Msg.order] = @ + 1] ELSE toldEnd
           /\ cb'.at \in {"idle", "freeing"}
           /\ UNCHANGED <<ex, log, got, peak, early, session, sub, sentIn, cancel, frozen, position,
                          backward, toldLots, dead>>
  <1> DEFINE s == NextStatus(Was.status, Msg.status)
  <1>1. Found /\ cb.object \in {NoObject, Own(Msg.order), Reported(KeyOf(Msg))}
    BY DEF ProcessOrder, Found, OInv, CallbackRight
  <1>2. /\ Msg.order \in Orders /\ Msg.lots \in Int /\ KeyOf(Msg) \in Keys
        /\ Msg.status \in {"ACTIVE", "FILLED", "CANCELLED", "REJECTED"}
    BY <1>1, MsgOfOrder
  <1>3. /\ It \in Objects /\ It \in {Own(Msg.order), Reported(KeyOf(Msg))} /\ It # NoObject
        /\ cb.object = NoObject => It = Reported(KeyOf(Msg)) /\ Was = NewObject(Quantity)
        /\ cb.object # NoObject => It = cb.object /\ Was = objs[It]
    BY <1>1, <1>2, ObjectNames DEF It, Was
  <1>4. Was \in ObjRecs
    <2>1. objs[It] \in ObjRecs
      BY <1>3 DEF OInv, ObjectsRight
    <2> QED
      BY <2>1, <1>3, NewRecs, ConstAssumption
  <1>5. s \in Status
    BY <1>2, <1>4 DEF NextStatus, ObjRecs, Status
  <1>6. /\ objs' = [objs EXCEPT ![It] = [Was EXCEPT !.filled = Msg.lots, !.status = s]]
        /\ orders' = IF cb.object = NoObject THEN [orders EXCEPT ![KeyOf(Msg)] = It] ELSE orders
        /\ sysOrders' = IF Msg.status # "REJECTED" /\ (cb.object = NoObject \/ sysOrders[Msg.order] = NoObject)
                        THEN [sysOrders EXCEPT ![Msg.order] = It] ELSE sysOrders
        /\ openOrders' = IF Event(Was.status, Msg.status) # "none" THEN Removed(It)
                         ELSE IF Was.status = "PENDING_NEW" THEN Added(It) ELSE openOrders
        /\ toldEnd' = IF Event(Was.status, Msg.status) = "ORDER_UNSOLICITED_UPDATE" /\ It = Own(Msg.order)
                      THEN [toldEnd EXCEPT ![Msg.order] = @ + 1] ELSE toldEnd
        /\ IF Event(Was.status, Msg.status) = "none" THEN cb' = IdleCallback
                                                     ELSE Release(Was.quantity - Msg.lots)
        /\ UNCHANGED <<ex, log, got, peak, early, session, sub, sentIn, cancel, frozen, position,
                       backward, toldLots, dead>>
    BY DEF ProcessOrder, It, Was, exchange, stream, submit, account
  <1> DEFINE r == [Was EXCEPT !.filled = Msg.lots, !.status = s]
  <1> HIDE DEF s
  <1>7. /\ r \in ObjRecs /\ r.status = s /\ r.filled = Msg.lots
        /\ r.tradeFilled = Was.tradeFilled /\ r.quantity = Was.quantity
    <2> DEFINE f == [Was EXCEPT !.filled = Msg.lots]
    <2>1. r = [f EXCEPT !.status = s]
      BY Zenon
    <2>2. Was \in ObjRecs /\ Msg.lots \in Int /\ s \in Status
      BY <1>2, <1>4, <1>5
    <2> HIDE DEF r
    <2>3. /\ f \in ObjRecs /\ f.filled = Msg.lots
          /\ f.tradeFilled = Was.tradeFilled /\ f.quantity = Was.quantity
      BY <2>2, Noted
    <2> HIDE DEF f
    <2> QED
      BY <2>1, <2>2, <2>3, Noted
  <1>8. /\ objs' = [objs EXCEPT ![It] = r] /\ objs \in [Objects -> ObjRecs]
        /\ orders \in [Keys -> Objects \cup {NoObject}]
        /\ sysOrders \in [Orders -> Objects \cup {NoObject}]
    BY <1>6 DEF OInv, ObjectsRight
  <1> HIDE DEF r
  <1>9. /\ objs' \in [Objects -> ObjRecs] /\ objs'[It] = r
        /\ \A x \in Objects : x # It => objs'[x] = objs[x]
    BY <1>3, <1>7, <1>8
  <1>10. /\ orders' \in [Keys -> Objects \cup {NoObject}]
         /\ orders'[KeyOf(Msg)] = IF cb.object = NoObject THEN It ELSE orders[KeyOf(Msg)]
         /\ \A k \in Keys : k # KeyOf(Msg) => orders'[k] = orders[k]
    BY <1>2, <1>3, <1>6, <1>8
  <1>11. orders'[KeyOf(Msg)] # NoObject
    BY <1>1, <1>3, <1>10 DEF OInv, CallbackRight
  <1>12. /\ sysOrders' \in [Orders -> Objects \cup {NoObject}]
         /\ \/ sysOrders' = sysOrders
            \/ /\ Msg.status # "REJECTED" /\ sysOrders'[Msg.order] = It
               /\ cb.object = NoObject \/ sysOrders[Msg.order] = NoObject
         /\ Msg.status # "REJECTED" => sysOrders'[Msg.order] # NoObject
         /\ cb.object = NoObject /\ Msg.status # "REJECTED" => sysOrders'[Msg.order] = It
         /\ \A o \in Orders : o # Msg.order => sysOrders'[o] = sysOrders[o]
    BY <1>2, <1>3, <1>6, <1>8
  <1>13. cb'.at \in {"idle", "freeing"}
    <2>1. IdleCallback.at = "idle"
      BY DEF IdleCallback
    <2>2. Release(Was.quantity - Msg.lots) => cb'.at = "freeing"
      BY FreeingAt DEF Release
    <2> QED
      BY <2>1, <2>2, <1>6
  <1> QED
    BY <1>1, <1>3, <1>4, <1>6, <1>7, <1>9, <1>10, <1>11, <1>12, <1>13 DEF s

(* It keeps every object where it belongs.                                 *)
LEMMA ProcessObjects ==
    ASSUME PInv, OInv, ProcessOrder
    PROVE  OInv'
  <1> USE ProcessEffect
  <1>1. /\ Msg.order \in Orders /\ KeyOf(Msg) \in Keys /\ KeyOf(Msg)[2] = Msg.order
        /\ Msg.status # "REJECTED" => KeyOf(Msg) = SentKey(Msg.order)
        /\ Sent(Msg.order)
    BY MsgOfOrder
  <1>2. \A k \in Keys : orders'[k] \in {NoObject, Own(k[2]), Reported(k)}
    BY <1>1 DEF OInv, ObjectsRight
  <1>3. \A s \in Sessions, o \in Orders : orders'[<<s, o>>] # NoObject => Sent(o)
    <2> SUFFICES ASSUME NEW s \in Sessions, NEW o \in Orders, orders'[<<s, o>>] # NoObject
                 PROVE  Sent(o)
      OBVIOUS
    <2>1. <<s, o>> \in Keys /\ <<s, o>>[2] = o
      BY ObjectNames
    <2>2. CASE <<s, o>> = KeyOf(Msg)
      BY <2>1, <2>2, <1>1
    <2>3. CASE <<s, o>> # KeyOf(Msg)
      BY <2>1, <2>3 DEF OInv, ObjectsRight
    <2> QED
      BY <2>2, <2>3
  <1>4. \A o \in Orders :
          /\ sysOrders'[o] \in {NoObject, Own(o), Traded(o), Reported(SentKey(o))}
          /\ sysOrders'[o] # NoObject => Sent(o)
          /\ sysOrders'[o] = Reported(SentKey(o)) => orders'[SentKey(o)] # NoObject
    <2> SUFFICES ASSUME NEW o \in Orders
                 PROVE  /\ sysOrders'[o] \in {NoObject, Own(o), Traded(o), Reported(SentKey(o))}
                        /\ sysOrders'[o] # NoObject => Sent(o)
                        /\ sysOrders'[o] = Reported(SentKey(o)) => orders'[SentKey(o)] # NoObject
      OBVIOUS
    <2>1. SentKey(o) \in Keys
      BY ObjectNames DEF OInv, ObjectsRight, SentKey
    <2>2. CASE sysOrders'[o] = sysOrders[o]
      BY <2>1, <2>2 DEF OInv, ObjectsRight
    <2>3. CASE o = Msg.order /\ sysOrders'[o] = It /\ Msg.status # "REJECTED"
      BY <2>3, <1>1
    <2> QED
      BY <2>2, <2>3
  <1>5. \A o \in Orders : sub[o] = "done" => orders'[SentKey(o)] # NoObject
    <2>1. \A o \in Orders : SentKey(o) \in Keys
      BY ObjectNames DEF OInv, ObjectsRight, SentKey
    <2> QED
      BY <2>1 DEF OInv, ObjectsRight
  <1>6. ObjectsRight'
    BY <1>2, <1>3, <1>4, <1>5 DEF OInv, ObjectsRight, SentKey, Sent
  <1>7. MadeOnce'
    <2> SUFFICES ASSUME NEW k \in Keys, objs'[Reported(k)].status \in Final
                 PROVE  orders'[k] # NoObject
      BY DEF MadeOnce
    <2>1. CASE k = KeyOf(Msg)
      BY <2>1
    <2>2. CASE k # KeyOf(Msg)
      <3>1. Reported(k) # It /\ Reported(k) \in Objects
        BY <2>2, <1>1, ObjectNames
      <3> QED
        BY <3>1, <2>2 DEF OInv, MadeOnce
    <2> QED
      BY <2>1, <2>2
  <1>8. CancelRight' /\ LogRight' /\ CallbackRight'
    BY DEF OInv, CancelRight, LogRight, CallbackRight, SentKey, Found
  <1> QED
    BY <1>6, <1>7, <1>8 DEF OInv

(* The trade that comes next, and the object on_trade works on.            *)
Trade == log[got + 1]
That  == IF sysOrders[Trade.order] = NoObject THEN Traded(Trade.order) ELSE sysOrders[Trade.order]
Then  == IF sysOrders[Trade.order] = NoObject THEN NewObject(Trade.last) ELSE objs[That]

(* What on_trade does with it, if it does anything.                        *)
Fills ==
    /\ TradeId(Trade) \notin backward
    /\ Then.tradeFilled + Trade.last <= Then.quantity
    /\ objs' \in [Objects -> ObjRecs]
    /\ objs'[That].status = IF Then.tradeFilled + Trade.last = Then.quantity THEN "FILLED" ELSE Then.status
    /\ objs'[That].tradeFilled = Then.tradeFilled + Trade.last
    /\ objs'[That].filled = Then.filled /\ objs'[That].quantity = Then.quantity
    /\ \A x \in Objects : x # That => objs'[x] = objs[x]
    /\ sysOrders' \in [Orders -> Objects \cup {NoObject}]
    /\ sysOrders'[Trade.order] = That
    /\ \A o \in Orders : o # Trade.order => sysOrders'[o] = sysOrders[o]
    /\ position' = [position EXCEPT ![Trade.order] = @ + Trade.last]
    /\ toldLots' = IF That = Own(Trade.order) THEN [toldLots EXCEPT ![Trade.order] = @ + Trade.last]
                                              ELSE toldLots
    /\ cb'.at = "freeing"
    /\ dead' = dead

(* The handler of a trade drops it, dies of it, or applies it.             *)
LEMMA TradeEffect ==
    ASSUME PInv, OInv, OnTrade
    PROVE  /\ cb.at = "idle" /\ got + 1 \in 1..Len(log) /\ got' = got + 1
           /\ peak' = IF got < peak THEN peak ELSE peak + 1
           /\ Trade \in Msgs /\ Trade.order \in Orders /\ Trade.kind = "trade" /\ Trade.status = ""
           /\ Sent(Trade.order) /\ early' \subseteq Orders
           /\ That \in Objects /\ Then \in ObjRecs
           /\ That \in {Own(Trade.order), Traded(Trade.order), Reported(SentKey(Trade.order))}
           /\ That = Reported(SentKey(Trade.order)) => orders[SentKey(Trade.order)] # NoObject
           /\ UNCHANGED <<ex, log, session, sub, sentIn, cancel, orders, openOrders, toldEnd, frozen>>
           /\ \/ UNCHANGED <<cache, cb, position, backward, toldLots, dead>>
              \/ dead' = "assert" /\ UNCHANGED <<cache, cb, position, backward, toldLots>>
              \/ Fills
  <1>1. /\ Take /\ Trade.kind = "trade"
        /\ UNCHANGED <<ex, log, session, sub, sentIn, cancel, frozen>>
        /\ \/ UNCHANGED <<cache, cb, position, backward, told, dead>>
           \/ dead' = "assert" /\ UNCHANGED <<cache, cb, position, backward, told>>
           \/ /\ TradeId(Trade) \notin backward /\ ~(Then.tradeFilled + Trade.last > Then.quantity)
              /\ objs' = [objs EXCEPT ![That] = [Then EXCEPT !.tradeFilled = Then.tradeFilled + Trade.last,
                    !.status = IF Then.tradeFilled + Trade.last = Then.quantity THEN "FILLED" ELSE @]]
              /\ sysOrders' = [sysOrders EXCEPT ![Trade.order] = That]
              /\ position' = [position EXCEPT ![Trade.order] = @ + Trade.last]
              /\ toldLots' = IF That = Own(Trade.order)
                             THEN [toldLots EXCEPT ![Trade.order] = @ + Trade.last] ELSE toldLots
              /\ Release(Trade.last)
              /\ UNCHANGED <<orders, openOrders, toldEnd, dead>>
    BY DEF OnTrade, Trade, That, Then, exchange, submit
  <1>2. /\ cb.at = "idle" /\ got + 1 \in 1..Len(log) /\ got' = got + 1 /\ Trade \in Msgs
        /\ peak' = IF got < peak THEN peak ELSE peak + 1
    BY <1>1, TakeEffect DEF Take, Trade
  <1>3. Trade.order \in Orders /\ Trade.last \in Int
    BY <1>2 DEF Msgs
  <1>4. Sent(Trade.order) /\ Trade.status = ""
    <2>1. sub[Trade.order] \in {"sent", "done"} /\ MsgFits(Trade, ex[Trade.order].state)
      BY <1>2 DEF OInv, LogRight, Trade
    <2> QED
      BY <2>1, <1>1 DEF MsgFits, Sent
  <1>5. early' \subseteq Orders
    BY <1>1, <1>3 DEF Take, OInv, ObjectsRight, Trade
  <1>6. /\ That \in Objects
        /\ That \in {Own(Trade.order), Traded(Trade.order), Reported(SentKey(Trade.order))}
        /\ That = Reported(SentKey(Trade.order)) => orders[SentKey(Trade.order)] # NoObject
        /\ sysOrders[Trade.order] = NoObject => Then = NewObject(Trade.last)
        /\ sysOrders[Trade.order] # NoObject => Then = objs[That]
    <2>1. SentKey(Trade.order) \in Keys
      BY <1>3, ObjectNames DEF OInv, ObjectsRight, SentKey
    <2> QED
      BY <2>1, <1>3, ObjectNames DEF OInv, ObjectsRight, That, Then
  <1>7. Then \in ObjRecs
    <2>1. objs[That] \in ObjRecs
      BY <1>6 DEF OInv, ObjectsRight
    <2> QED
      BY <2>1, <1>3, <1>6, NewRecs
  <1>8. ASSUME TradeId(Trade) \notin backward, ~(Then.tradeFilled + Trade.last > Then.quantity),
               objs' = [objs EXCEPT ![That] = [Then EXCEPT !.tradeFilled = Then.tradeFilled + Trade.last,
                    !.status = IF Then.tradeFilled + Trade.last = Then.quantity THEN "FILLED" ELSE @]],
               sysOrders' = [sysOrders EXCEPT ![Trade.order] = That],
               position' = [position EXCEPT ![Trade.order] = @ + Trade.last],
               toldLots' = IF That = Own(Trade.order)
                           THEN [toldLots EXCEPT ![Trade.order] = @ + Trade.last] ELSE toldLots,
               Release(Trade.last),
               UNCHANGED <<orders, openOrders, toldEnd, dead>>
        PROVE  Fills
    <2> DEFINE n == Then.tradeFilled + Trade.last
               s == IF n = Then.quantity THEN "FILLED" ELSE Then.status
               f == [Then EXCEPT !.tradeFilled = n]
               r == [Then EXCEPT !.tradeFilled = n, !.status = IF n = Then.quantity THEN "FILLED" ELSE @]
    <2>1. r = [f EXCEPT !.status = s]
      BY Zenon
    <2>2. objs' = [objs EXCEPT ![That] = r]
      BY <1>8, Zenon
    <2> HIDE DEF r
    <2>3. ~(Then.tradeFilled + Trade.last > Then.quantity)
      BY <1>8, Zenon
    <2>4. Then.tradeFilled \in Int /\ Then.quantity \in Int
      BY <1>7 DEF ObjRecs
    <2>5. Then.status \in Status
      BY <1>7 DEF ObjRecs
    <2>6. Trade.last \in Int
      BY <1>3
    <2>7. n \in Int /\ s \in Status /\ n <= Then.quantity
      <3>1. n \in Int
        BY <2>4, <2>6
      <3>2. n <= Then.quantity
        BY <2>3, <2>4, <2>6
      <3>3. "FILLED" \in Status
        BY DEF Status
      <3>4. s \in Status
        BY <3>3, <2>5
      <3> QED
        BY <3>1, <3>4, <3>2
    <2>8. cb'.at = "freeing"
      BY <1>8, FreeingAt DEF Release
    <2> HIDE DEF n, s
    <2>9. /\ f \in ObjRecs /\ f.tradeFilled = n
          /\ f.filled = Then.filled /\ f.quantity = Then.quantity
      BY <2>7, <1>7, Noted
    <2> HIDE DEF f
    <2>10. /\ r \in ObjRecs /\ r.status = s /\ r.tradeFilled = n
          /\ r.filled = Then.filled /\ r.quantity = Then.quantity
      BY <2>1, <2>7, <2>9, Noted
    <2>11. /\ objs' \in [Objects -> ObjRecs] /\ objs'[That] = r
          /\ \A x \in Objects : x # That => objs'[x] = objs[x]
      BY <2>2, <2>10, <1>6 DEF OInv, ObjectsRight
    <2>12. /\ sysOrders' \in [Orders -> Objects \cup {NoObject}]
          /\ sysOrders'[Trade.order] = That
          /\ \A o \in Orders : o # Trade.order => sysOrders'[o] = sysOrders[o]
      BY <1>3, <1>6, <1>8 DEF OInv, ObjectsRight
    <2> QED
      BY <2>7, <2>8, <2>10, <2>11, <2>12, <1>8 DEF Fills, n, s
  <1> QED
    BY <1>1, <1>2, <1>3, <1>4, <1>5, <1>6, <1>7, <1>8 DEF cache, told

(* It keeps every object where it belongs.                                 *)
LEMMA TradeObjects ==
    ASSUME PInv, OInv, OnTrade
    PROVE  OInv'
  <1>1. /\ Trade.order \in Orders /\ Sent(Trade.order) /\ That \in Objects
        /\ That \in {Own(Trade.order), Traded(Trade.order), Reported(SentKey(Trade.order))}
        /\ That = Reported(SentKey(Trade.order)) => orders[SentKey(Trade.order)] # NoObject
        /\ UNCHANGED <<ex, log, session, sub, sentIn, cancel, orders>>
        /\ early' \subseteq Orders /\ cb.at = "idle"
    BY TradeEffect
  <1>2. UNCHANGED <<objs, sysOrders, cb>> \/ Fills
    BY TradeEffect DEF cache
  <1>3. CASE UNCHANGED <<objs, sysOrders, cb>>
    <2>1. CancelRight'
      BY <1>1 DEF OInv, CancelRight, SentKey
    <2> QED
      BY <1>3, <1>1, <2>1, OtherObjects DEF OInv, CallbackRight, Sent
  <1>4. CASE Fills
    <2>1. /\ objs' \in [Objects -> ObjRecs] /\ sysOrders' \in [Orders -> Objects \cup {NoObject}]
          /\ \A x \in Objects : x # That => objs'[x] = objs[x]
          /\ sysOrders'[Trade.order] = That
          /\ \A o \in Orders : o # Trade.order => sysOrders'[o] = sysOrders[o]
          /\ cb'.at = "freeing"
      BY <1>4 DEF Fills
    <2>2. ObjectsRight'
      <3>1. \A o \in Orders :
              /\ sysOrders'[o] \in {NoObject, Own(o), Traded(o), Reported(SentKey(o))}
              /\ sysOrders'[o] # NoObject => Sent(o)
              /\ sysOrders'[o] = Reported(SentKey(o)) => orders[SentKey(o)] # NoObject
        BY <1>1, <2>1 DEF OInv, ObjectsRight
      <3> QED
        BY <1>1, <2>1, <3>1 DEF OInv, ObjectsRight, SentKey, Sent
    <2>3. MadeOnce'
      <3> SUFFICES ASSUME NEW k \in Keys, objs'[Reported(k)].status \in Final
                   PROVE  orders[k] # NoObject
        BY <1>1 DEF MadeOnce
      <3>1. Reported(k) \in Objects /\ SentKey(Trade.order) \in Keys
        BY <1>1, ObjectNames DEF OInv, ObjectsRight, SentKey
      <3>2. CASE Reported(k) # That
        BY <2>1, <3>1, <3>2 DEF OInv, MadeOnce
      <3>3. CASE Reported(k) = That
        <4>1. k = SentKey(Trade.order)
          BY <1>1, <3>1, <3>3, ObjectNames
        <4> QED
          BY <1>1, <4>1, <3>3
      <3> QED
        BY <3>2, <3>3
    <2>4. CancelRight' /\ LogRight' /\ CallbackRight'
      BY <1>1, <2>1 DEF OInv, CancelRight, LogRight, CallbackRight, SentKey, Found
    <2> QED
      BY <2>2, <2>3, <2>4 DEF OInv
  <1> QED
    BY <1>2, <1>3, <1>4

(* Every step keeps the second invariant.                                  *)
LEMMA NextOInv == PInv /\ PInv' /\ OInv /\ [Next]_vars => OInv'
  <1> SUFFICES ASSUME PInv, PInv', OInv, [Next]_vars PROVE OInv'
    OBVIOUS
  <1>1. ASSUME UNCHANGED <<ex, log, session, sentIn, objs, orders, sysOrders, early, cancel>>,
               \A o \in Orders : /\ Sent(o)' = Sent(o)
                                 /\ sub'[o] = "done" <=> sub[o] = "done",
               UNCHANGED <<got, cb>> \/ cb'.at \in {"idle", "freeing"}
        PROVE  OInv'
    <2>1. CancelRight'
      BY <1>1 DEF OInv, CancelRight, SentKey
    <2>2. early' \subseteq Orders
      BY <1>1 DEF OInv, ObjectsRight
    <2> QED
      BY <1>1, <2>1, <2>2, OtherObjects
  <1>2. ASSUME NEW o \in Orders, ExchangeStep(o)
        PROVE  OInv'
    BY <1>2, ExchangeObjects
  <1>3. ASSUME NEW o \in Orders, StrategyStep(o)
        PROVE  OInv'
    <2>1. sub \in [Orders -> {"idle", "adding", "published", "sent", "done"}]
      BY DEF PInv, Shape
    <2>2. CASE Publish(o)
      <3>1. /\ sub[o] = "idle" /\ sub' = [sub EXCEPT ![o] = "adding"]
            /\ UNCHANGED <<ex, log, got, session, early, sentIn, objs, orders, sysOrders, cancel, cb>>
        BY <2>2 DEF Publish, exchange, stream, cache
      <3>2. \A p \in Orders : Sent(p)' = Sent(p) /\ (sub'[p] = "done" <=> sub[p] = "done")
        BY <3>1, <2>1 DEF Sent
      <3> QED
        BY <3>1, <3>2, <1>1
    <2>3. CASE Freeze(o)
      <3>1. /\ sub[o] = "adding" /\ sub' = [sub EXCEPT ![o] = "published"]
            /\ UNCHANGED <<ex, log, got, session, early, sentIn, objs, orders, sysOrders, cancel, cb>>
        BY <2>3 DEF Freeze, exchange, stream, cache
      <3>2. \A p \in Orders : Sent(p)' = Sent(p) /\ (sub'[p] = "done" <=> sub[p] = "done")
        BY <3>1, <2>1 DEF Sent
      <3> QED
        BY <3>1, <3>2, <1>1
    <2>4. CASE CacheOrder(o)
      BY <2>4, CacheObjects
    <2>5. CASE TearMap(o)
      BY <2>5, <1>1 DEF TearMap, exchange, stream, submit, cache, Sent
    <2>6. ASSUME NEW accepted \in BOOLEAN, SendOrder(o, accepted)
          PROVE  OInv'
      BY <2>6, SendObjects
    <2>7. CASE CancelOrder(o)
      BY <2>7, CancelObjects
    <2>8. CASE SetPendingCancel(o)
      BY <2>8, PendingObjects
    <2> QED
      BY <1>3, <2>2, <2>3, <2>4, <2>5, <2>6, <2>7, <2>8 DEF StrategyStep
  <1>4. CASE OnOrder
    BY <1>4, OnOrderObjects
  <1>5. CASE ProcessOrder
    BY <1>5, ProcessObjects
  <1>6. CASE OnTrade
    BY <1>6, TradeObjects
  <1>7. CASE Unfreeze
    <2>1. cb'.at = "idle"
      BY <1>7 DEF Unfreeze, IdleCallback
    <2> QED
      BY <1>7, <2>1, <1>1 DEF Unfreeze, exchange, stream, submit, cache, Sent
  <1>8. CASE Relogin
    <2>1. /\ session < MaxRelogin /\ session' = session + 1 /\ cb.at = "idle"
          /\ UNCHANGED <<ex, log, early, sub, sentIn, cancel, objs, orders, sysOrders, cb>>
      BY <1>8 DEF Relogin, exchange, submit, cache
    <2>2. session' \in Sessions
      BY <2>1, ConstAssumption DEF OInv, ObjectsRight, Sessions
    <2> QED
      BY <2>1, <2>2 DEF OInv, ObjectsRight, CancelRight, CallbackRight, LogRight, MadeOnce,
                        SentKey, Sent, Found
  <1>9. CASE UNCHANGED vars
    BY <1>9, <1>1 DEF vars, Sent
  <1> QED
    BY <1>2, <1>3, <1>4, <1>5, <1>6, <1>7, <1>8, <1>9 DEF Next, CallbackStep

(* Both invariants hold in every state.                                    *)
THEOREM ObjectsInvariance == Spec => [](PInv /\ OInv)
  <1>1. Init => PInv /\ OInv
    BY InitPInv, InitOInv
  <1>2. PInv /\ OInv /\ [Next]_vars => PInv' /\ OInv'
    BY NextPInv, NextOInv
  <1> QED
    BY <1>1, <1>2, PTL DEF Spec

(* Which steps write to an object, and what they leave of its status.      *)
LEMMA FinalKept ==
    ASSUME PInv, OInv, [Next]_vars, NEW x \in Objects, objs[x].status \in Final
    PROVE  objs'[x].status \in Final \/ \E o \in Orders : cancel[o] = x
  <1>1. CASE UNCHANGED objs
    BY <1>1
  <1>2. ASSUME NEW o \in Orders, SetPendingCancel(o)
        PROVE  objs'[x].status \in Final \/ \E p \in Orders : cancel[p] = x
    BY <1>2, PendingObjects
  <1>3. CASE ProcessOrder
    <2>1. CASE x # It
      BY <1>3, <2>1, ProcessEffect
    <2>2. CASE x = It
      <3>1. Was = objs[It] /\ objs'[It].status = NextStatus(Was.status, Msg.status)
        BY <1>3, <2>2, ProcessEffect DEF OInv, CallbackRight
      <3> QED
        BY <2>2, <3>1 DEF NextStatus, Final
    <2> QED
      BY <2>1, <2>2
  <1>4. CASE OnTrade
    <2>1. CASE UNCHANGED cache
      BY <2>1 DEF cache
    <2>2. CASE Fills
      <3>1. CASE x # That
        BY <2>2, <3>1 DEF Fills
      <3>2. CASE x = That
        <4>1. Then = objs[That] \/ Then = NewObject(Trade.last)
          BY DEF Then
        <4>2. objs'[That].status \in {"FILLED", Then.status}
          BY <2>2 DEF Fills
        <4>3. Trade.last \in Int
          BY <1>4, TradeEffect DEF Msgs
        <4>4. Then = NewObject(Trade.last) => objs'[That].status = "FILLED"
          BY <2>2, <4>3, NewRecs DEF Fills
        <4> QED
          BY <3>2, <4>1, <4>2, <4>4 DEF Final
      <3> QED
        BY <3>1, <3>2
    <2> QED
      BY <1>4, <2>1, <2>2, TradeEffect
  <1>5. ASSUME NEW o \in Orders, ExchangeStep(o) \/ StrategyStep(o), ~SetPendingCancel(o)
        PROVE  UNCHANGED objs
    BY <1>5 DEF ExchangeStep, Park, FillAll, FillPart, ExchangeCancel, Reject, Announce, StrategyStep,
                Publish, Freeze, CacheOrder, TearMap, SendOrder, CancelOrder, cache
  <1>6. OnOrder \/ Unfreeze \/ Relogin \/ UNCHANGED vars => UNCHANGED objs
    BY DEF OnOrder, Unfreeze, Relogin, vars, cache
  <1> QED
    BY <1>1, <1>2, <1>3, <1>4, <1>5, <1>6 DEF Next, CallbackStep

(* No handler takes an order's final status back, whatever CTP announces   *)
(* after it, twice, or in a new session (order.h, trade_gateway.cpp); only *)
(* cancel_order, whose look at the status may be old, can.                 *)
THEOREM FinalKeeps == Spec => FinalStays
  <1>1. PInv /\ OInv /\ [Next]_vars =>
          [\A x \in Objects : objs[x].status \in Final =>
              objs'[x].status \in Final \/ \E o \in Orders : cancel[o] = x]_vars
    BY FinalKept
  <1>2. Spec => [](PInv /\ OInv)
    BY ObjectsInvariance
  <1> QED
    BY <1>1, <1>2, PTL DEF Spec, FinalStays

(* The messages that have been handled to their end.                       *)
Handled == IF Found THEN got - 1 ELSE got

EndHandled(o) == \E i \in 1..Handled : log[i].order = o /\ log[i].status \in Final

(* When an end was told, the strategy's object is final until cancel_order *)
(* writes over it; without a new stream its announcement is in the past.   *)
ToldRight ==
    /\ toldEnd \in [Orders -> Nat]
    /\ \A o \in Orders :
          /\ toldEnd[o] >= 1 => objs[Own(o)].status \in Final \/ cancel[o] # NoObject
          /\ toldEnd[o] > 1 => cancel[o] # NoObject
          /\ ~Restart => toldEnd[o] <= 1
          /\ ~Restart /\ toldEnd[o] = 1 => EndHandled(o)

(* CTP takes back no announcement, and cancel_order is not undone.         *)
LEMMA OnlyMore ==
    ASSUME PInv, PInv', OInv, [Next]_vars
    PROVE  /\ \A i \in 1..Len(log) : log'[i] = log[i]
           /\ Len(log) \in Nat /\ Len(log') \in Nat /\ Len(log') >= Len(log)
           /\ peak \in Nat /\ peak' \in Nat /\ peak' >= peak
           /\ \A o \in Orders : cancel[o] # NoObject => cancel'[o] # NoObject
  <1>1. Len(log) \in Nat /\ Len(log') \in Nat /\ peak \in Nat /\ peak' \in Nat
    BY LenProperties DEF PInv, Shape
  <1>2. ASSUME NEW o \in Orders, ExchangeStep(o)
        PROVE  /\ \A i \in 1..Len(log) : log'[i] = log[i]
               /\ Len(log') >= Len(log) /\ UNCHANGED <<peak, cancel>>
    BY <1>2, ExchangeLog DEF OInv, Grows, stream
  <1>3. ASSUME NEW o \in Orders, StrategyStep(o)
        PROVE  /\ UNCHANGED <<log, peak>>
               /\ \A p \in Orders : cancel[p] # NoObject => cancel'[p] # NoObject
    <2>1. CASE CancelOrder(o)
      BY <2>1 DEF CancelOrder, OInv, CancelRight, exchange, stream
    <2>2. CASE SetPendingCancel(o)
      BY <2>2, PendingObjects DEF SetPendingCancel, exchange, stream
    <2> QED
      BY <1>3, <2>1, <2>2 DEF StrategyStep, Publish, Freeze, CacheOrder, TearMap, SendOrder, exchange, stream
  <1>4. OnOrder \/ OnTrade => UNCHANGED <<log, cancel>> /\ peak' >= peak
    <2>1. Take => peak' >= peak
      BY <1>1, TakeEffect
    <2> QED
      BY <2>1 DEF OnOrder, OnTrade, exchange
  <1>5. ProcessOrder \/ Unfreeze \/ Relogin \/ UNCHANGED vars => UNCHANGED <<log, peak, cancel>>
    BY DEF ProcessOrder, Unfreeze, Relogin, vars, exchange, stream
  <1>6. /\ \A i \in 1..Len(log) : log'[i] = log[i]
        /\ Len(log') >= Len(log) /\ peak' >= peak
    BY <1>1, <1>2, <1>3, <1>4, <1>5 DEF Next, CallbackStep
  <1>7. \A o \in Orders : cancel[o] # NoObject => cancel'[o] # NoObject
    BY <1>2, <1>3, <1>4, <1>5 DEF Next, CallbackStep
  <1> QED
    BY <1>1, <1>6, <1>7

(* Without a new stream no message is handled again.                       *)
LEMMA HandledMore ==
    ASSUME PInv, PInv', OInv, OInv', [Next]_vars, ~Restart
    PROVE  \A i \in 1..Handled : i \in 1..Len(log) /\ i \in 1..Handled' /\ log'[i] = log[i]
  <1>1. /\ \A i \in 1..Len(log) : log'[i] = log[i]
        /\ got \in Nat /\ got' \in Nat /\ got <= Len(log)
        /\ Len(log) \in Nat
    <2>1. got \in Nat /\ got' \in Nat /\ got <= peak /\ peak <= Len(log) /\ peak \in Nat
      BY DEF PInv, Shape
    <2> QED
      BY <2>1, OnlyMore
  <1>2. Handled \in Int /\ Handled <= Len(log) /\ Handled' \in Int
    BY <1>1 DEF Handled
  <1>3. Handled' >= Handled
    <2>1. CASE OnOrder
      BY <2>1, <1>1, OnOrderObjects DEF Handled, Found, OnOrder, Take
    <2>2. CASE OnTrade
      <3>1. cb.at = "idle" /\ got' = got + 1 /\ ~Found'
        BY <2>2, TradeEffect DEF Fills, Found
      <3> QED
        BY <3>1, <1>1 DEF Handled, Found
    <2>3. CASE ProcessOrder
      BY <2>3, <1>1, ProcessEffect DEF Handled, Found
    <2>4. CASE Unfreeze
      <3>1. got' = got /\ cb.at = "freeing" /\ cb'.at = "idle"
        BY <2>4 DEF Unfreeze, stream, IdleCallback
      <3> QED
        BY <3>1, <1>1 DEF Handled, Found
    <2>5. CASE Relogin
      BY <2>5, <1>1 DEF Relogin, Handled, Found
    <2>6. CASE UNCHANGED <<got, cb>>
      BY <2>6, <1>1 DEF Handled, Found
    <2>7. ASSUME NEW o \in Orders, ExchangeStep(o) \/ StrategyStep(o)
          PROVE  UNCHANGED <<got, cb>>
      BY <2>7 DEF ExchangeStep, Park, FillAll, FillPart, ExchangeCancel, Reject, Announce, StrategyStep,
                  Publish, Freeze, CacheOrder, TearMap, SendOrder, CancelOrder, SetPendingCancel, stream
    <2>8. UNCHANGED vars => UNCHANGED <<got, cb>>
      BY DEF vars
    <2> QED
      BY <2>1, <2>2, <2>3, <2>4, <2>5, <2>6, <2>7, <2>8 DEF Next, CallbackStep
  <1> QED
    BY <1>1, <1>2, <1>3

(* A message of an order's end that was handled stays handled.             *)
LEMMA HandledGrows ==
    ASSUME PInv, PInv', OInv, OInv', [Next]_vars, ~Restart
    PROVE  \A o \in Orders : EndHandled(o) => EndHandled(o)'
  BY HandledMore DEF EndHandled

(* A strategy is told of an end for an object of its own that was not      *)
(* final, by the message of that end, which CTP announces once.            *)
LEMMA EndTelling ==
    ASSUME PInv, OInv, ProcessOrder, toldEnd' # toldEnd
    PROVE  \E o \in Orders :
             /\ Msg.order = o /\ It = Own(o) /\ toldEnd' = [toldEnd EXCEPT ![o] = @ + 1]
             /\ cb.object = It /\ objs[It].status \notin Final /\ objs'[It].status \in Final
             /\ Msg.status \in Final /\ EndHandled(o)' /\ ~EndHandled(o)
  <1>1. /\ Event(Was.status, Msg.status) = "ORDER_UNSOLICITED_UPDATE" /\ It = Own(Msg.order)
        /\ toldEnd' = [toldEnd EXCEPT ![Msg.order] = @ + 1]
    BY ProcessEffect
  <1>2. Was.status \notin Final /\ NextStatus(Was.status, Msg.status) \in Final
    BY <1>1 DEF Event
  <1>3. cb.object = It /\ Was = objs[It]
    <2>1. Found /\ (cb.object = NoObject => It = Reported(KeyOf(Msg)))
      BY ProcessEffect
    <2>2. Msg.order \in Orders /\ KeyOf(Msg) \in Keys
      BY <2>1, MsgOfOrder
    <2> QED
      BY <1>1, <2>1, <2>2, ObjectNames, ProcessEffect
  <1>4. Msg.status \in Final
    BY <1>2 DEF NextStatus
  <1>5. Found /\ Msg.kind = "order" /\ Msg.order \in Orders /\ got \in 1..Len(log) /\ got \in Int
    BY ProcessEffect, MsgOfOrder
  <1>6. \A o \in Orders : o = Msg.order => EndHandled(o)'
    <2>1. Handled' = got /\ log' = log
      BY ProcessEffect DEF Handled, Found
    <2> QED
      BY <2>1, <1>4, <1>5 DEF EndHandled, Msg
  <1>7. ~EndHandled(Msg.order)
    <2>1. ASSUME NEW i \in 1..Handled, log[i].order = Msg.order, log[i].status \in Final
          PROVE  FALSE
      <3>1. i \in 1..Len(log) /\ i < got
        BY <1>5 DEF Handled
      <3> QED
        BY <2>1, <3>1, <1>5 DEF OInv, LogRight, Msg
    <2> QED
      BY <2>1 DEF EndHandled
  <1>8. objs[It].status \notin Final /\ objs'[It].status \in Final
    BY <1>2, <1>3, ProcessEffect
  <1>9. PICK o \in Orders : o = Msg.order
    BY <1>5
  <1>10. EndHandled(o)' /\ ~EndHandled(o)
    BY <1>6, <1>7, <1>9
  <1> QED
    BY <1>1, <1>3, <1>4, <1>8, <1>9, <1>10

(* Every step keeps it.                                                    *)
LEMMA NextToldRight ==
    PInv /\ PInv' /\ OInv /\ OInv' /\ ToldRight /\ [Next]_vars => ToldRight'
  <1> SUFFICES ASSUME PInv, PInv', OInv, OInv', ToldRight, [Next]_vars PROVE ToldRight'
    OBVIOUS
  <1>1. \A o \in Orders : Own(o) \in Objects
    BY ObjectNames
  <1>2. ASSUME NEW o \in Orders, objs[Own(o)].status \in Final \/ cancel[o] # NoObject
        PROVE  objs'[Own(o)].status \in Final \/ cancel'[o] # NoObject
    <2>1. CASE cancel[o] # NoObject
      BY <2>1, OnlyMore
    <2>2. CASE objs[Own(o)].status \in Final
      <3>1. objs'[Own(o)].status \in Final \/ \E p \in Orders : cancel[p] = Own(o)
        BY <2>2, <1>1, FinalKept
      <3>2. ASSUME NEW p \in Orders, cancel[p] = Own(o)
            PROVE  cancel[o] # NoObject
        <4>1. SentKey(p) \in Keys
          BY ObjectNames DEF OInv, ObjectsRight, SentKey
        <4>2. p = o
          BY <3>2, <4>1, ObjectNames DEF OInv, CancelRight
        <4> QED
          BY <3>2, <4>2, ObjectNames
      <3> QED
        BY <3>1, <3>2, <2>1
    <2> QED
      BY <1>2, <2>1, <2>2
  <1>3. \A o \in Orders : cancel[o] # NoObject => cancel'[o] # NoObject
    BY OnlyMore
  <1>4. ~Restart => \A o \in Orders : EndHandled(o) => EndHandled(o)'
    BY HandledGrows
  <1>5. CASE toldEnd' = toldEnd
    BY <1>2, <1>3, <1>4, <1>5 DEF ToldRight
  <1>6. CASE ProcessOrder /\ toldEnd' # toldEnd
    <2>1. PICK p \in Orders :
            /\ It = Own(p) /\ toldEnd' = [toldEnd EXCEPT ![p] = @ + 1]
            /\ objs[It].status \notin Final /\ objs'[It].status \in Final
            /\ EndHandled(p)' /\ ~EndHandled(p)
      BY <1>6, EndTelling
    <2>2. objs[Own(p)].status \notin Final /\ objs'[Own(p)].status \in Final
      BY <2>1
    <2>3. toldEnd[p] \in Nat /\ (~Restart => toldEnd[p] = 0) /\ (toldEnd[p] >= 1 => cancel[p] # NoObject)
      BY <2>1, <2>2 DEF ToldRight
    <2>4. /\ toldEnd' \in [Orders -> Nat] /\ toldEnd'[p] = toldEnd[p] + 1
          /\ \A o \in Orders \ {p} : toldEnd'[o] = toldEnd[o]
      BY <2>1, <2>2, <2>3 DEF ToldRight
    <2>5. ASSUME NEW o \in Orders
          PROVE  /\ toldEnd'[o] >= 1 => objs'[Own(o)].status \in Final \/ cancel'[o] # NoObject
                 /\ toldEnd'[o] > 1 => cancel'[o] # NoObject
                 /\ ~Restart => toldEnd'[o] <= 1
                 /\ ~Restart /\ toldEnd'[o] = 1 => EndHandled(o)'
      <3>1. CASE o = p
        BY <3>1, <2>1, <2>2, <2>3, <2>4, <1>3
      <3>2. CASE o # p
        BY <3>2, <2>4, <1>2, <1>3, <1>4 DEF ToldRight
      <3> QED
        BY <3>1, <3>2
    <2> QED
      BY <2>4, <2>5 DEF ToldRight
  <1>7. ASSUME NEW o \in Orders, ExchangeStep(o) \/ StrategyStep(o)
        PROVE  toldEnd' = toldEnd
    BY <1>7 DEF ExchangeStep, Park, FillAll, FillPart, ExchangeCancel, Reject, Announce, StrategyStep,
                Publish, Freeze, CacheOrder, TearMap, SendOrder, CancelOrder, SetPendingCancel, told
  <1>8. OnOrder \/ OnTrade \/ Unfreeze \/ Relogin \/ UNCHANGED vars => toldEnd' = toldEnd
    BY TradeEffect DEF OnOrder, Unfreeze, Relogin, vars, told
  <1> QED
    BY <1>5, <1>6, <1>7, <1>8 DEF Next, CallbackStep

(* A strategy is told once of the end of an order, although CTP announces  *)
(* it again after a new login and on_order has several objects for one     *)
(* order; only set_pending_cancel on a dead order makes it twice           *)
(* (trade_gateway.cpp, on_order).                                          *)
THEOREM EndsOnce == Spec => []ToldOnce
  <1>1. Init => PInv /\ OInv /\ ToldRight
    BY InitPInv, InitOInv DEF Init, ToldRight
  <1>2. PInv /\ OInv /\ ToldRight /\ [Next]_vars => PInv' /\ OInv' /\ ToldRight'
    BY NextPInv, NextOInv, NextToldRight
  <1>3. ToldRight => ToldOnce
    BY ConstAssumption DEF ToldRight, ToldOnce
  <1> QED
    BY <1>1, <1>2, <1>3, PTL DEF Spec
-----------------------------------------------------------------------------
(* The third invariant: what a strategy has been told of an order that has *)
(* one object.                                                             *)
Plain(o) ==
    /\ Single(o) /\ ~Parked(o) /\ cancel[o] = NoObject
    /\ ex[o].state = "rejected" => session = sentIn[o]

Pending(o) == Found /\ Msg.order = o /\ Msg.status \in Final

(* The lots it was told are those in the positions.                        *)
LotsTold ==
    /\ toldLots \in [Orders -> Int]
    /\ \A o \in Orders :
          /\ sysOrders[o] = NoObject => toldLots[o] = 0 /\ (dead = "no" => position[o] = 0)
          /\ sysOrders[o] = Own(o) /\ dead = "no" => toldLots[o] = position[o]

(* on_order finds the strategy's own object for an order that was in       *)
(* orders_ before its first announcement came.                             *)
OwnFound ==
    /\ \A o \in Orders : sub[o] = "done" /\ o \notin early => orders[SentKey(o)] = Own(o)
    /\ Found /\ cb.object = NoObject /\ KeyOf(Msg) = SentKey(Msg.order) => Msg.order \in early
    /\ \A o \in Orders : sentIn[o] <= session

(* A plain order goes from PENDING_NEW to its final status in one step,    *)
(* which tells the strategy.                                               *)
EndTold ==
    \A o \in Orders : Plain(o) =>
        /\ objs[Own(o)].status \in {"PENDING_NEW"} \cup Final
        /\ toldEnd[o] = IF objs[Own(o)].status \in Final THEN 1 ELSE 0
        /\ sysOrders[o] = Own(o) => objs[Own(o)].status \in Final
        /\ Over(o) /\ ~Pending(o) => objs[Own(o)].status \in Final
        /\ Found /\ Msg.order = o => cb.object = Own(o)

(* Nothing is told at first.                                               *)
LEMMA InitTold == Init => LotsTold /\ OwnFound /\ EndTold
  <1> SUFFICES ASSUME Init PROVE LotsTold /\ OwnFound /\ EndTold
    OBVIOUS
  <1>1. /\ session = 0 /\ sentIn = [o \in Orders |-> 0]
        /\ sub = [o \in Orders |-> "idle"] /\ peak = 0
        /\ objs = [x \in Objects |-> NewObject(Quantity)]
        /\ sysOrders = [o \in Orders |-> NoObject]
        /\ toldLots = [o \in Orders |-> 0] /\ toldEnd = [o \in Orders |-> 0]
        /\ position = [o \in Orders |-> 0]
        /\ cb.at = "idle"
    BY DEF Init, IdleCallback
  <1>2. LotsTold
    BY <1>1, ObjectNames DEF LotsTold
  <1>3. OwnFound
    BY <1>1 DEF OwnFound, Found
  <1>4. ASSUME NEW o \in Orders
        PROVE  /\ objs[Own(o)].status = "PENDING_NEW" /\ toldEnd[o] = 0
               /\ sysOrders[o] # Own(o) /\ ~Over(o) /\ ~Found
    <2>1. objs[Own(o)] = NewObject(Quantity) /\ sysOrders[o] # Own(o)
      BY <1>1, ObjectNames
    <2>2. ~Over(o)
      BY <1>1 DEF Over, Known
    <2> QED
      BY <2>1, <2>2, <1>1, NewRecs, ConstAssumption DEF Found
  <1> QED
    BY <1>2, <1>3, <1>4 DEF EndTold, Final

(* The steps that leave all of this alone.                                 *)
Quiet == UNCHANGED <<objs, orders, sysOrders, cb, toldLots, toldEnd, position, got, early>>

(* Most steps of the exchange and of submit_order touch nothing of that.   *)
LEMMA QuietSteps ==
    /\ \A o \in Orders : ExchangeStep(o) => Quiet /\ UNCHANGED <<session, sentIn, sub, peak, cancel>>
    /\ \A o \in Orders : Publish(o) \/ Freeze(o) \/ TearMap(o) \/ CancelOrder(o)
                            => Quiet /\ UNCHANGED <<ex, log, session, sentIn, peak>>
    /\ UNCHANGED vars => Quiet /\ UNCHANGED <<ex, log, session, sentIn, sub, peak, cancel>>
  <1>1. ASSUME NEW o \in Orders, ExchangeStep(o)
        PROVE  Quiet /\ UNCHANGED <<session, sentIn, sub, peak, cancel>>
    BY <1>1 DEF ExchangeStep, Park, FillAll, FillPart, ExchangeCancel, Reject, Announce,
                Quiet, stream, submit, cache, account, told
  <1>2. ASSUME NEW o \in Orders, Publish(o) \/ Freeze(o) \/ TearMap(o) \/ CancelOrder(o)
        PROVE  Quiet /\ UNCHANGED <<ex, log, session, sentIn, peak>>
    BY <1>2 DEF Publish, Freeze, TearMap, CancelOrder, Quiet, exchange, stream, submit, cache, account, told
  <1>3. UNCHANGED vars => Quiet /\ UNCHANGED <<ex, log, session, sentIn, sub, peak, cancel>>
    BY DEF vars, Quiet
  <1> QED
    BY <1>1, <1>2, <1>3

(* Every fill is told to the strategy when it is applied.                  *)
LEMMA NextLotsTold ==
    ASSUME PInv, OInv, LotsTold, [Next]_vars
    PROVE  LotsTold'
  <1>1. dead' = "no" => dead = "no"
    BY DEF Next, vars
  <1>2. CASE UNCHANGED <<sysOrders, toldLots, position>>
    BY <1>1, <1>2 DEF LotsTold
  <1>3. CASE dead = "no" /\ ProcessOrder
    <2>1. /\ Msg.order \in Orders /\ KeyOf(Msg) \in Keys
          /\ UNCHANGED <<toldLots, position, dead>>
          /\ \A o \in Orders : o # Msg.order => sysOrders'[o] = sysOrders[o]
          /\ \/ sysOrders' = sysOrders
             \/ /\ sysOrders'[Msg.order] = It
                /\ cb.object = NoObject \/ sysOrders[Msg.order] = NoObject
          /\ It \in Objects /\ (cb.object = NoObject => It = Reported(KeyOf(Msg)))
      BY <1>3, ProcessEffect, MsgOfOrder
    <2>2. It # NoObject /\ (cb.object = NoObject => It # Own(Msg.order))
      BY <2>1, ObjectNames
    <2> QED
      BY <1>3, <2>1, <2>2 DEF LotsTold
  <1>4. CASE dead = "no" /\ OnTrade
    <2>1. CASE UNCHANGED <<cache, position, toldLots>>
      BY <1>2, <2>1 DEF cache
    <2>2. CASE Fills
      <3> DEFINE p == Trade.order
                 n == Trade.last
      <3>1. /\ p \in Orders /\ n \in Int /\ That # NoObject
            /\ sysOrders[p] = NoObject => That = Traded(p)
            /\ sysOrders[p] # NoObject => That = sysOrders[p]
        BY <1>4, TradeEffect, ObjectNames DEF Msgs, That
      <3>2. /\ position' = [position EXCEPT ![p] = @ + n]
            /\ toldLots' = IF That = Own(p) THEN [toldLots EXCEPT ![p] = @ + n] ELSE toldLots
            /\ sysOrders'[p] = That
            /\ \A o \in Orders : o # p => sysOrders'[o] = sysOrders[o]
        BY <2>2 DEF Fills
      <3>3. position \in [Orders -> Int] /\ toldLots \in [Orders -> Int] /\ Own(p) # Traded(p)
        BY <3>1, ObjectNames DEF PInv, Shape, LotsTold
      <3> HIDE DEF p, n
      <3>4. /\ toldLots' \in [Orders -> Int]
            /\ \A o \in Orders : o # p => toldLots'[o] = toldLots[o] /\ position'[o] = position[o]
            /\ That = Own(p) => toldLots'[p] = toldLots[p] + n /\ position'[p] = position[p] + n
        BY <3>1, <3>2, <3>3
      <3> QED
        BY <1>4, <3>1, <3>2, <3>3, <3>4 DEF LotsTold
    <2>3. UNCHANGED <<cache, position, toldLots>> \/ Fills
      BY <1>4, TradeEffect
    <2> QED
      BY <2>1, <2>2, <2>3
  <1>5. ASSUME NEW o \in Orders, StrategyStep(o)
        PROVE  UNCHANGED <<sysOrders, toldLots, position>>
    BY <1>5 DEF StrategyStep, Publish, Freeze, CacheOrder, TearMap, SendOrder, CancelOrder,
                SetPendingCancel, cache, account, told
  <1>6. OnOrder \/ Unfreeze \/ Relogin => UNCHANGED <<sysOrders, toldLots, position>>
    BY DEF OnOrder, Unfreeze, Relogin, cache, account, told
  <1> QED
    BY <1>2, <1>3, <1>4, <1>5, <1>6, QuietSteps DEF Next, CallbackStep, Quiet

(* The strategy's object is in orders_ before anything is announced, or    *)
(* the order is an early one.                                              *)
LEMMA NextOwnFound ==
    ASSUME PInv, PInv', OInv, OwnFound, [Next]_vars
    PROVE  OwnFound'
  <1>1. /\ session \in Int /\ sentIn \in [Orders -> Int] /\ sentIn \in [Orders -> Sessions]
        /\ \A o \in Orders : SentKey(o) \in Keys /\ SentKey(o)[2] = o
    BY ObjectNames, ConstAssumption DEF OInv, ObjectsRight, Sessions, SentKey
  <1>2. ASSUME UNCHANGED <<orders, session, sentIn, sub, early>>,
               (UNCHANGED cb /\ (Found => Msg' = Msg)) \/ cb'.at # "found"
        PROVE  OwnFound'
    BY <1>2 DEF OwnFound, SentKey, Found, KeyOf
  <1>3. CASE UNCHANGED vars
    BY <1>2, <1>3 DEF vars, Msg
  <1>4. ASSUME NEW o \in Orders, ExchangeStep(o)
        PROVE  OwnFound'
    <2>1. Found => Msg' = Msg
      BY <1>4, OnlyMore, QuietSteps DEF Msg, Quiet, OInv, CallbackRight
    <2> QED
      BY <1>2, <1>4, <2>1, QuietSteps DEF Quiet
  <1>5. ASSUME NEW o \in Orders, StrategyStep(o)
        PROVE  OwnFound'
    <2>1. CASE CacheOrder(o)
      <3>1. /\ orders' = [orders EXCEPT ![SentKey(o)] = Own(o)]
            /\ UNCHANGED <<log, got, session, sentIn, early, cb>>
            /\ sub' = [sub EXCEPT ![o] = "done"]
        BY <2>1 DEF CacheOrder, SentKey, exchange, stream
      <3>2. ASSUME NEW p \in Orders, sub'[p] = "done", p \notin early
            PROVE  orders'[SentKey(p)] = Own(p)
        <4>1. CASE p = o
          BY <4>1, <3>1, <1>1 DEF OInv, ObjectsRight
        <4>2. CASE p # o
          BY <4>2, <3>1, <3>2, <1>1 DEF OInv, ObjectsRight, OwnFound
        <4> QED
          BY <4>1, <4>2
      <3> QED
        BY <3>1, <3>2 DEF OwnFound, SentKey, KeyOf, Msg, Found
    <2>2. ASSUME NEW accepted \in BOOLEAN, SendOrder(o, accepted)
          PROVE  OwnFound'
      <3>1. /\ sub[o] = "published" /\ sub' = [sub EXCEPT ![o] = "sent"]
            /\ sentIn' = [sentIn EXCEPT ![o] = session]
            /\ UNCHANGED <<log, got, session, orders, early, cb>>
        BY <2>2 DEF SendOrder, exchange, stream, cache
      <3>2. Found => Msg.order # o /\ Msg.order \in Orders
        BY <3>1, MsgOfOrder DEF Sent
      <3>3. \A p \in Orders : p # o => sentIn'[p] = sentIn[p] /\ sub'[p] = sub[p]
        BY <3>1
      <3>4. sub'[o] # "done" /\ sentIn'[o] = session
        BY <3>1, <1>1 DEF PInv, Shape
      <3> QED
        BY <3>1, <3>2, <3>3, <3>4, <1>1 DEF OwnFound, SentKey, KeyOf, Msg, Found
    <2>3. ASSUME UNCHANGED <<orders, session, sentIn, early, cb, log, got>>,
                 \A p \in Orders : sub'[p] = "done" => sub[p] = "done"
          PROVE  OwnFound'
      BY <2>3 DEF OwnFound, SentKey, Found, KeyOf, Msg
    <2>4. CASE Publish(o) \/ Freeze(o) \/ TearMap(o) \/ CancelOrder(o)
      <3>1. \A p \in Orders : sub'[p] = "done" => sub[p] = "done"
        BY <2>4 DEF Publish, Freeze, TearMap, CancelOrder, submit, PInv, Shape
      <3> QED
        BY <3>1, <2>3, <2>4, QuietSteps DEF Quiet
    <2>5. CASE SetPendingCancel(o)
      BY <2>3, <2>5 DEF SetPendingCancel, exchange, stream, submit
    <2> QED
      BY <1>5, <2>1, <2>2, <2>4, <2>5 DEF StrategyStep
  <1>6. CASE OnOrder
    <2>1. /\ cb'.object = orders[KeyOf(Msg)'] /\ Msg' = log[got + 1] /\ Msg'.order \in Orders
          /\ UNCHANGED <<session, sub, sentIn, cache>>
          /\ early' = IF sub[Msg'.order] # "done" THEN early \cup {Msg'.order} ELSE early
      BY <1>6, OnOrderObjects DEF OnOrder, Take
    <2>2. cb'.object = NoObject /\ KeyOf(Msg)' = SentKey(Msg'.order) => sub[Msg'.order] # "done"
      BY <2>1 DEF OInv, ObjectsRight
    <2>3. SentKey(Msg.order)' = SentKey(Msg'.order)
      BY <2>1 DEF SentKey
    <2> QED
      BY <2>1, <2>2, <2>3 DEF OwnFound, SentKey, cache
  <1>7. CASE ProcessOrder
    <2>1. /\ Found /\ cb'.at # "found"
          /\ orders'[KeyOf(Msg)] = IF cb.object = NoObject THEN It ELSE orders[KeyOf(Msg)]
          /\ \A k \in Keys : k # KeyOf(Msg) => orders'[k] = orders[k]
          /\ UNCHANGED <<early, session, sub, sentIn>>
      BY <1>7, ProcessEffect
    <2>2. ASSUME NEW o \in Orders, sub[o] = "done", o \notin early
          PROVE  orders'[SentKey(o)] = Own(o)
      <3>1. CASE SentKey(o) # KeyOf(Msg)
        BY <2>1, <2>2, <3>1, <1>1 DEF OwnFound
      <3>2. CASE SentKey(o) = KeyOf(Msg)
        <4>1. o = Msg.order
          BY <2>1, <3>2, <1>1, MsgOfOrder
        <4>2. cb.object # NoObject
          BY <4>1, <3>2, <2>1, <2>2 DEF OwnFound
        <4> QED
          BY <4>2, <3>2, <2>1, <2>2 DEF OwnFound
      <3> QED
        BY <3>1, <3>2
    <2> QED
      BY <2>1, <2>2 DEF OwnFound, SentKey, Found
  <1>8. CASE OnTrade
    <2>1. /\ cb'.at # "found" /\ early \subseteq early'
          /\ UNCHANGED <<orders, session, sentIn, sub>>
      BY <1>8, TradeEffect DEF Fills, OnTrade, Take
    <2> QED
      BY <2>1 DEF OwnFound, SentKey, Found
  <1>9. CASE Unfreeze
    BY <1>2, <1>9 DEF Unfreeze, IdleCallback, cache, stream, submit
  <1>10. CASE Relogin
    BY <1>10, <1>1 DEF Relogin, OwnFound, SentKey, Found, cache, submit
  <1> QED
    BY <1>3, <1>4, <1>5, <1>6, <1>7, <1>8, <1>9, <1>10 DEF Next, CallbackStep

(* The state of an order at the exchange, when it is one of the last.      *)
LEMMA RejectedStays ==
    ASSUME PInv, PInv', OInv, [Next]_vars, NEW o \in Orders, ex[o].state = "rejected"
    PROVE  ex'[o].state = "rejected" /\ sentIn'[o] = sentIn[o] /\ Sent(o)
  <1>1. Sent(o)
    BY DEF PInv, Shape, Room, Sent
  <1>2. ASSUME NEW p \in Orders, ExchangeStep(p)
        PROVE  ex'[o].state = "rejected" /\ sentIn'[o] = sentIn[o]
    <2>1. Grows(p)
      BY <1>2, ExchangeLog DEF OInv
    <2> QED
      BY <2>1 DEF Grows, submit
  <1>3. ASSUME NEW p \in Orders, NEW accepted \in BOOLEAN, SendOrder(p, accepted)
        PROVE  ex'[o].state = "rejected" /\ sentIn'[o] = sentIn[o]
    BY <1>1, <1>3 DEF SendOrder, Sent, PInv, Shape, OInv, ObjectsRight
  <1>4. CASE UNCHANGED <<ex, sentIn>>
    BY <1>1, <1>4
  <1>5. ASSUME NEW p \in Orders, StrategyStep(p)
        PROVE  UNCHANGED <<ex, sentIn>> \/ \E accepted \in BOOLEAN : SendOrder(p, accepted)
    BY <1>5 DEF StrategyStep, Publish, Freeze, CacheOrder, TearMap, CancelOrder, SetPendingCancel,
                exchange, submit
  <1>6. CallbackStep \/ Relogin \/ UNCHANGED vars => UNCHANGED <<ex, sentIn>>
    BY DEF CallbackStep, OnOrder, ProcessOrder, OnTrade, Unfreeze, Relogin, vars, exchange, submit
  <1> QED
    BY <1>1, <1>2, <1>3, <1>4, <1>5, <1>6 DEF Next

(* What is known of an order only grows.                                   *)
LEMMA KnownGrows ==
    ASSUME PInv, PInv', OInv, [Next]_vars, NEW o \in Orders
    PROVE  Known(o) \subseteq Known(o)'
  <1>1. \A i \in 1..peak : i \in 1..peak' /\ i \in 1..Len(log) /\ log'[i] = log[i]
    <2>1. peak \in Nat /\ peak <= Len(log)
      BY DEF PInv, Shape
    <2>2. peak' \in Nat /\ peak' >= peak /\ Len(log) \in Nat /\ \A i \in 1..Len(log) : log'[i] = log[i]
      BY OnlyMore
    <2> QED
      BY <2>1, <2>2
  <1> QED
    BY <1>1 DEF Known

(* An order that is not plain will not become plain again.                 *)
LEMMA PlainShrinks ==
    ASSUME PInv, PInv', OInv, OwnFound, [Next]_vars, NEW o \in Orders, Plain(o)'
    PROVE  Plain(o)
  <1>1. cancel[o] = NoObject
    BY OnlyMore DEF Plain
  <1>2. ~Parked(o)
    BY KnownGrows DEF Plain, Parked
  <1>3. ex[o].state = "rejected" => session = sentIn[o]
    <2> SUFFICES ASSUME ex[o].state = "rejected" PROVE session = sentIn[o]
      OBVIOUS
    <2>1. session' = sentIn[o]
      BY RejectedStays DEF Plain
    <2>2. session \in Int /\ sentIn[o] \in Int /\ sentIn[o] <= session
      BY ConstAssumption DEF OInv, ObjectsRight, Sessions, OwnFound
    <2>3. session' = session \/ session' = session + 1
      BY QuietSteps, ProcessEffect, TradeEffect DEF Next, vars, CallbackStep, OnOrder, Unfreeze, Relogin,
          StrategyStep, Publish, Freeze, CacheOrder, TearMap, SendOrder, CancelOrder, SetPendingCancel,
          stream
    <2> QED
      BY <2>1, <2>2, <2>3
  <1>4. Single(o)
    <2>1. early \subseteq early'
      BY QuietSteps DEF Next, vars, CallbackStep, OnOrder, ProcessOrder, OnTrade, Take, Unfreeze, Relogin,
          StrategyStep, CacheOrder, SendOrder, SetPendingCancel, stream, Quiet
    <2>2. CASE sysOrders'[o] = sysOrders[o]
      BY <2>1, <2>2 DEF Plain, Single
    <2>3. CASE sysOrders' # sysOrders /\ ProcessOrder
      <3>1. sysOrders'[Msg.order] = It /\ (cb.object = NoObject \/ sysOrders[Msg.order] = NoObject)
        BY <2>3, ProcessEffect
      <3>2. \A p \in Orders : p # Msg.order => sysOrders'[p] = sysOrders[p]
        BY <2>3, ProcessEffect
      <3>3. cb.object = NoObject => It # Own(Msg.order) /\ It # NoObject
        BY <2>3, ProcessEffect, MsgOfOrder, ObjectNames
      <3> QED
        BY <3>1, <3>2, <3>3, <2>1 DEF Plain, Single
    <2>4. CASE Fills /\ OnTrade
      <3>1. sysOrders'[Trade.order] = That /\ \A p \in Orders : p # Trade.order => sysOrders'[p] = sysOrders[p]
        BY <2>4 DEF Fills
      <3> QED
        BY <3>1, <2>1 DEF Plain, Single, That
    <2>5. ASSUME NEW p \in Orders, ExchangeStep(p) \/ StrategyStep(p)
          PROVE  sysOrders' = sysOrders
      BY <2>5, QuietSteps DEF Quiet, StrategyStep, CacheOrder, SendOrder, SetPendingCancel, cache
    <2>6. OnOrder \/ Unfreeze \/ Relogin \/ UNCHANGED vars => sysOrders' = sysOrders
      BY DEF OnOrder, Unfreeze, Relogin, vars, cache
    <2>7. OnTrade => Fills \/ sysOrders' = sysOrders
      BY TradeEffect DEF cache
    <2> QED
      BY <2>2, <2>3, <2>4, <2>5, <2>6, <2>7 DEF Next, CallbackStep
  <1> QED
    BY <1>1, <1>2, <1>3, <1>4 DEF Plain

(* Steps that leave alone what EndTold is about.                           *)
LEMMA EndToldKept ==
    ASSUME PInv, PInv', OInv, OwnFound, EndTold, [Next]_vars,
           UNCHANGED <<sysOrders, toldEnd, peak>>,
           \A o \in Orders : Plain(o) => objs'[Own(o)] = objs[Own(o)],
           Found' <=> Found, Found => UNCHANGED <<got, cb>>
    PROVE  EndTold'
  <1>1. Found => Msg' = Msg
    BY OnlyMore DEF Msg, OInv, CallbackRight
  <1>2. ASSUME NEW o \in Orders PROVE (Over(o)' <=> Over(o)) /\ (Pending(o)' <=> Pending(o))
    <2>1. \A i \in 1..peak : log'[i] = log[i]
      <3>1. peak \in Nat /\ peak <= Len(log)
        BY DEF PInv, Shape
      <3> QED
        BY <3>1, OnlyMore
    <2>2. Known(o)' = Known(o)
      BY <2>1 DEF Known
    <2> QED
      BY <2>2, <1>1 DEF Over, Pending
  <1>3. \A o \in Orders : Plain(o)' => Plain(o)
    BY PlainShrinks
  <1> QED
    BY <1>1, <1>2, <1>3 DEF EndTold

(* A message that on_order has just looked up.                             *)
LEMMA OnOrderEnd ==
    ASSUME PInv, PInv', OInv, OwnFound, EndTold, [Next]_vars, OnOrder
    PROVE  EndTold'
  <1>1. /\ Found' /\ Msg' = log[got + 1] /\ got + 1 \in 1..Len(log) /\ Msg'.order \in Orders
        /\ Msg'.status # "REJECTED" => KeyOf(Msg)' = SentKey(Msg'.order)
        /\ cb'.object = orders[KeyOf(Msg)']
        /\ UNCHANGED <<ex, log, session, sub, sentIn, cancel, objs, orders, sysOrders, toldEnd>>
    BY OnOrderObjects DEF cache, told
  <1>2. /\ cb.at = "idle" /\ ~Found /\ got' = got + 1
        /\ peak' = IF got < peak THEN peak ELSE peak + 1
        /\ early' = IF sub[Msg'.order] # "done" THEN early \cup {Msg'.order} ELSE early
        /\ got \in Nat /\ peak \in Nat /\ got <= peak
    BY <1>1, TakeEffect DEF OnOrder, Take, Found, PInv, Shape
  <1> SUFFICES ASSUME NEW o \in Orders, Plain(o)'
               PROVE  /\ Over(o)' /\ ~Pending(o)' => objs[Own(o)].status \in Final
                      /\ Msg'.order = o => cb'.object = Own(o)
    <2>1. \A o \in Orders : Plain(o)' => Plain(o)
      BY PlainShrinks
    <2> QED
      BY <2>1, <1>1 DEF EndTold
  <1>3. Plain(o)
    BY PlainShrinks
  <1>4. ASSUME Over(o)', ~Pending(o)'
        PROVE  objs[Own(o)].status \in Final
    <2>1. PICK i \in 1..peak' : log[i].order = o /\ log[i].status \in Final
      BY <1>1, <1>4 DEF Over, Known
    <2>2. i # got + 1
      BY <2>1, <1>1, <1>4 DEF Pending
    <2>3. i \in 1..peak
      BY <2>2, <1>2
    <2>4. Over(o) /\ ~Pending(o)
      BY <2>1, <2>3, <1>2 DEF Over, Known, Pending
    <2> QED
      BY <2>4, <1>3 DEF EndTold
  <1>5. ASSUME Msg'.order = o
        PROVE  cb'.object = Own(o)
    <2>1. sub[o] = "done" /\ o \notin early
      BY <1>2, <1>5 DEF Plain, Single
    <2>2. orders[SentKey(o)] = Own(o)
      BY <2>1 DEF OwnFound
    <2>3. KeyOf(Msg)' = SentKey(o)
      <3>1. CASE Msg'.status = "REJECTED"
        <4>1. MsgFits(log[got + 1], ex[log[got + 1].order].state)
          BY <1>1 DEF OInv, LogRight
        <4>2. ex[o].state = "rejected"
          BY <4>1, <3>1, <1>1, <1>5 DEF MsgFits
        <4>3. session = sentIn[o]
          BY <4>2, <1>3 DEF Plain
        <4>4. KeyOf(Msg)' = <<session, o>>
          BY <3>1, <1>1, <1>5 DEF KeyOf
        <4> QED
          BY <4>3, <4>4 DEF SentKey
      <3> QED
        BY <3>1, <1>1, <1>5
    <2> QED
      BY <2>2, <2>3, <1>1
  <1> QED
    BY <1>4, <1>5

(* The object of a plain order, when on_order moves it on.                 *)
LEMMA ProcessEnd ==
    ASSUME PInv, PInv', OInv, OwnFound, ToldRight, EndTold, [Next]_vars, ProcessOrder
    PROVE  EndTold'
  <1>1. /\ Found /\ ~Found' /\ Msg.order \in Orders /\ KeyOf(Msg) \in Keys
        /\ UNCHANGED <<log, got, peak>>
        /\ got \in 1..Len(log) /\ got <= peak /\ got \in Nat /\ peak \in Nat
        /\ Msg.status \in {"ACTIVE"} \cup Final
    <2>1. got \in Nat /\ peak \in Nat /\ got <= peak
      BY DEF PInv, Shape
    <2> QED
      BY <2>1, ProcessEffect, MsgOfOrder DEF Found, Final
  <1>2. /\ \A x \in Objects : x # It => objs'[x] = objs[x]
        /\ It \in {Own(Msg.order), Reported(KeyOf(Msg))}
        /\ \A o \in Orders : o # Msg.order => sysOrders'[o] = sysOrders[o]
        /\ \A o \in Orders : o # Msg.order => toldEnd'[o] = toldEnd[o]
    <2>1. toldEnd' = toldEnd \/ toldEnd' = [toldEnd EXCEPT ![Msg.order] = @ + 1]
      BY ProcessEffect
    <2>2. \A o \in Orders : o # Msg.order => toldEnd'[o] = toldEnd[o]
      BY <2>1, <1>1 DEF ToldRight
    <2> QED
      BY <2>2, ProcessEffect
  <1> SUFFICES ASSUME NEW o \in Orders, Plain(o)'
               PROVE  /\ objs'[Own(o)].status \in {"PENDING_NEW"} \cup Final
                      /\ toldEnd'[o] = IF objs'[Own(o)].status \in Final THEN 1 ELSE 0
                      /\ sysOrders'[o] = Own(o) => objs'[Own(o)].status \in Final
                      /\ Over(o)' => objs'[Own(o)].status \in Final
    BY <1>1 DEF EndTold
  <1>3. Plain(o) /\ (Over(o)' <=> Over(o))
    BY <1>1, PlainShrinks DEF Over, Known
  <1>4. CASE Msg.order # o
    <2>1. Own(o) \in Objects /\ Own(o) # It
      BY <1>1, <1>2, <1>4, ObjectNames
    <2>2. ~Pending(o)
      BY <1>4 DEF Pending
    <2> QED
      BY <2>1, <2>2, <1>2, <1>3, <1>4 DEF EndTold
  <1>5. CASE Msg.order = o
    <2>1. cb.object = Own(o) /\ Own(o) # NoObject
      BY <1>1, <1>3, <1>5, ObjectNames DEF EndTold
    <2>2. It = Own(o) /\ Was = objs[Own(o)] /\ objs'[Own(o)].status = NextStatus(Was.status, Msg.status)
      BY <2>1, ProcessEffect
    <2>3. Msg.status \in Final
      <3>1. Msg \in Known(o)
        BY <1>1, <1>5 DEF Known, Msg
      <3>2. Msg.status # "ACTIVE"
        BY <3>1, <1>3 DEF Plain, Parked
      <3> QED
        BY <3>2, <1>1
    <2>4. /\ objs[Own(o)].status \in {"PENDING_NEW"} \cup Final
          /\ toldEnd[o] = IF objs[Own(o)].status \in Final THEN 1 ELSE 0
      BY <1>3 DEF EndTold
    <2>5. CASE objs[Own(o)].status = "PENDING_NEW"
      <3>1. Event("PENDING_NEW", Msg.status) = "ORDER_UNSOLICITED_UPDATE" /\ objs'[Own(o)].status = Msg.status
        BY <2>2, <2>3, <2>5 DEF Event, NextStatus, Final
      <3>2. toldEnd' = [toldEnd EXCEPT ![o] = @ + 1]
        BY <3>1, <2>2, <2>5, <1>5, ProcessEffect
      <3>3. toldEnd[o] = 0 /\ toldEnd'[o] = 1
        <4>1. toldEnd[o] = 0
          BY <2>4, <2>5 DEF Final
        <4>2. DOMAIN toldEnd = Orders
          BY DEF ToldRight
        <4> QED
          BY <4>1, <4>2, <3>2
      <3> QED
        BY <3>1, <3>3, <2>3
    <2>6. CASE objs[Own(o)].status \in Final
      <3>1. Event(Was.status, Msg.status) = "none" /\ objs'[Own(o)].status \in Final
        BY <2>2, <2>6 DEF Event, NextStatus, Final
      <3>2. toldEnd' = toldEnd
        BY <3>1, ProcessEffect
      <3> QED
        BY <3>1, <3>2, <2>4, <2>6
    <2> QED
      BY <2>4, <2>5, <2>6
  <1> QED
    BY <1>4, <1>5

(* A trade of a plain order that has an object ends nothing new.           *)
LEMMA TradeEnd ==
    ASSUME PInv, PInv', OInv, OwnFound, EndTold, [Next]_vars, OnTrade
    PROVE  EndTold'
  <1>1. /\ cb.at = "idle" /\ ~Found /\ got + 1 \in 1..Len(log) /\ got' = got + 1 /\ log' = log
        /\ peak' = IF got < peak THEN peak ELSE peak + 1
        /\ Trade.order \in Orders /\ Trade.status = "" /\ toldEnd' = toldEnd
        /\ got \in Nat /\ peak \in Nat /\ got <= peak
    <2>1. got \in Nat /\ peak \in Nat /\ got <= peak
      BY DEF PInv, Shape
    <2> QED
      BY <2>1, TradeEffect DEF Found
  <1>2. UNCHANGED <<cache, cb>> \/ Fills
    BY TradeEffect
  <1>3. That \in {Own(Trade.order), Traded(Trade.order), Reported(SentKey(Trade.order))}
    BY TradeEffect
  <1>4. Trade.order \in Orders
    BY TradeEffect
  <1>5. ~Found'
    BY <1>1, <1>2 DEF Fills, Found
  <1>6. ASSUME NEW o \in Orders
        PROVE  (Over(o)' => Over(o)) /\ ~Pending(o)
    <2>1. ASSUME Over(o)' PROVE Over(o)
      <3>1. PICK i \in 1..peak' : log[i].order = o /\ log[i].status \in Final
        BY <1>1, <2>1 DEF Over, Known
      <3>2. i # got + 1
        BY <3>1, <1>1 DEF Trade, Final
      <3>3. i \in 1..peak
        <4>1. /\ peak' = IF got < peak THEN peak ELSE peak + 1
              /\ got \in Nat /\ peak \in Nat /\ got <= peak
          BY <1>1
        <4> QED
          BY <3>2, <4>1
      <3> QED
        BY <3>1, <3>3 DEF Over, Known
    <2> QED
      BY <2>1, <1>1 DEF Pending
  <1>7. ASSUME NEW o \in Orders, Plain(o)'
        PROVE  /\ objs'[Own(o)].status \in {"PENDING_NEW"} \cup Final
               /\ objs'[Own(o)].status \in Final <=> objs[Own(o)].status \in Final
               /\ sysOrders'[o] = Own(o) => sysOrders[o] = Own(o)
    <2>1. Plain(o)
      BY <1>7, PlainShrinks
    <2>2. objs[Own(o)].status \in {"PENDING_NEW"} \cup Final /\ (sysOrders[o] = Own(o) => objs[Own(o)].status \in Final)
      BY <2>1 DEF EndTold
    <2>3. CASE UNCHANGED cache
      BY <2>2, <2>3 DEF cache
    <2>4. CASE Fills /\ o # Trade.order
      <3>1. SentKey(Trade.order) \in Keys
        BY <1>4, ObjectNames DEF OInv, ObjectsRight, SentKey
      <3>2. Own(o) \in Objects /\ Own(o) # That
        BY <3>1, <2>4, <1>3, <1>4, ObjectNames
      <3> QED
        BY <3>2, <2>2, <2>4 DEF Fills
    <2>5. CASE Fills /\ o = Trade.order
      <3>1. SentKey(o) \in Keys
        BY ObjectNames DEF OInv, ObjectsRight, SentKey
      <3>2. sysOrders'[o] = That /\ sysOrders'[o] \in {NoObject, Own(o)}
        BY <2>5, <1>7 DEF Fills, Plain, Single
      <3>3. That = Own(o)
        BY <3>1, <3>2, <2>5, <1>3, ObjectNames
      <3>4. sysOrders[o] = Own(o) /\ Then = objs[Own(o)]
        BY <3>3, <2>5, ObjectNames DEF That, Then
      <3>5. objs'[Own(o)].status \in {"FILLED", objs[Own(o)].status}
        BY <3>3, <3>4, <2>5 DEF Fills
      <3> QED
        BY <3>2, <3>4, <3>5, <2>2 DEF Final
    <2> QED
      BY <2>3, <2>4, <2>5, <1>2
  <1>8. \A o \in Orders : Plain(o)' => Plain(o)
    BY PlainShrinks
  <1> QED
    BY <1>1, <1>5, <1>6, <1>7, <1>8 DEF EndTold

(* Every step keeps it.                                                    *)
LEMMA NextEndTold ==
    ASSUME PInv, PInv', OInv, ToldRight, OwnFound, EndTold, [Next]_vars
    PROVE  EndTold'
  <1>1. CASE OnOrder \/ ProcessOrder \/ OnTrade
    BY <1>1, OnOrderEnd, ProcessEnd, TradeEnd
  <1>2. ASSUME NEW o \in Orders, SetPendingCancel(o)
        PROVE  EndTold'
    <2>1. /\ \A x \in Objects : x # cancel[o] => objs'[x] = objs[x]
          /\ cancel[o] \in {Own(o), Reported(SentKey(o))} /\ cancel[o] # NoObject
          /\ SentKey(o) \in Keys
      BY <1>2, PendingObjects, ObjectNames DEF SetPendingCancel, OInv, ObjectsRight, SentKey
    <2>2. \A p \in Orders : Plain(p) => objs'[Own(p)] = objs[Own(p)]
      BY <2>1, ObjectNames DEF Plain
    <2>3. UNCHANGED <<sysOrders, toldEnd, peak, got, cb>>
      BY <1>2 DEF SetPendingCancel, stream, told
    <2> QED
      BY <2>2, <2>3, EndToldKept DEF Found
  <1>3. ASSUME NEW o \in Orders, ExchangeStep(o) \/ StrategyStep(o), ~SetPendingCancel(o)
        PROVE  UNCHANGED <<objs, sysOrders, toldEnd, peak, got, cb>>
    BY <1>3, QuietSteps DEF Quiet, StrategyStep, CacheOrder, SendOrder, stream, cache, told
  <1>4. UNCHANGED vars => UNCHANGED <<objs, sysOrders, toldEnd, peak, got, cb>>
    BY DEF vars
  <1>5. CASE UNCHANGED <<objs, sysOrders, toldEnd, peak, got, cb>>
    BY <1>5, EndToldKept DEF Found
  <1>6. CASE Unfreeze \/ Relogin
    <2>1. UNCHANGED <<objs, sysOrders, toldEnd, peak>> /\ ~Found /\ ~Found'
      BY <1>6 DEF Unfreeze, Relogin, IdleCallback, Found, stream, cache, told
    <2> QED
      BY <2>1, EndToldKept
  <1> QED
    BY <1>1, <1>2, <1>3, <1>4, <1>5, <1>6 DEF Next, CallbackStep

SInv == PInv /\ OInv /\ ToldRight /\ LotsTold /\ OwnFound /\ EndTold

(* When every announcement has been handled, they say it all.              *)
LEMMA SInvTold == SInv => ToldAll
  <1> SUFFICES ASSUME SInv, CaughtUp, NEW o \in Orders, Single(o)
               PROVE  /\ toldLots[o] = ex[o].filled
                      /\ Over(o) /\ ~Parked(o) /\ cancel[o] = NoObject
                           /\ (ex[o].state = "rejected" => session = sentIn[o])
                           => toldEnd[o] = 1
    BY DEF ToldAll
  <1>1. dead = "no" /\ ~Pending(o)
    BY DEF CaughtUp, Pending, Found
  <1>2. position[o] = ex[o].filled
    BY PInvExact DEF SInv, PositionExact
  <1>3. toldLots[o] = position[o]
    BY <1>1 DEF SInv, LotsTold, Single
  <1>4. Over(o) /\ ~Parked(o) /\ cancel[o] = NoObject
          /\ (ex[o].state = "rejected" => session = sentIn[o]) => toldEnd[o] = 1
    BY <1>1 DEF SInv, EndTold, Plain
  <1> QED
    BY <1>2, <1>3, <1>4

(* A strategy is told of every lot of an order with one object, and of its *)
(* end, unless it was parked, marked or rejected in another session: no    *)
(* interleaving of submit_order with the callbacks, and no new stream,     *)
(* makes it miss one (trade_gateway.cpp, on_order and on_trade).           *)
THEOREM AllIsTold == Spec => []ToldAll
  <1>1. Init => SInv
    BY InitPInv, InitOInv, InitTold DEF Init, ToldRight, SInv
  <1>2. SInv /\ [Next]_vars => SInv'
    BY NextPInv, NextOInv, NextToldRight, NextLotsTold, NextOwnFound, NextEndTold DEF SInv
  <1> QED
    BY <1>1, <1>2, SInvTold, PTL DEF Spec
-----------------------------------------------------------------------------
(* The fourth invariant: the orders in open_orders_.                       *)
Names(o) == {Own(o), Reported(SentKey(o))}

(* Of the trades of its order an object has noted no more than there were. *)
TradesFit ==
    \A o \in Orders : \A s \in Sessions : \A x \in {Own(o), Reported(<<s, o>>)} :
        /\ objs[x].quantity = Quantity
        /\ dead = "no" => objs[x].tradeFilled <= position[o]

(* An object made by the strategy is nowhere before orders_ has it, and    *)
(* one made by on_order is in orders_ only after it was moved on.          *)
NamesRight ==
    /\ \A o \in Orders : sub[o] # "done" =>
          /\ objs[Own(o)].status = "PENDING_NEW"
          /\ \A s \in Sessions : orders[<<s, o>>] # Own(o)
          /\ sysOrders[o] # Own(o)
          /\ Found => cb.object # Own(o)
    /\ \A k \in Keys :
          /\ orders[k] = Reported(k) => objs[Reported(k)].status # "PENDING_NEW"
          /\ orders[k] = Own(k[2]) => k[1] = sentIn[k[2]]
    /\ Found =>
          /\ cb.object = Reported(KeyOf(Msg)) => objs[cb.object].status # "PENDING_NEW"
          /\ cb.object = Own(Msg.order) => orders[KeyOf(Msg)] = Own(Msg.order)
    /\ \A o \in Orders : Reported(SentKey(o)) \in openOrders => sysOrders[o] = Reported(SentKey(o))

(* The objects on_order has found for an order, or is going to find.       *)
Looked(o) == {orders[SentKey(o)]} \cup {x \in {cb.object} : Found /\ Msg.order = o}

(* An order gets into open_orders_ by an ACTIVE message; if it stays there *)
(* after it was over, its object has the final number of lots, because no  *)
(* other object of the order can be the one that learns of the end.        *)
Listed(o, x) ==
    /\ \E m \in Known(o) : m.status = "ACTIVE"
    /\ objs[x].status \in {"ACTIVE", "PENDING_CANCEL", "FILLED"}
    /\ objs[x].status = "FILLED" => ex[o].state = "filled"
    /\ \A y \in Looked(o) \ {x} : y = Own(o) /\ objs[y].status \notin Final
    /\ EndHandled(o) => objs[x].filled = Quantity

OpenRight ==
    /\ \A x \in openOrders : \E o \in Orders : x \in Names(o)
    /\ \A o \in Orders : \A x \in openOrders \cap Names(o) : Listed(o, x)

(* The names of different orders are different.                            *)
LEMMA NamesApart ==
    ASSUME OInv, NEW o \in Orders, NEW p \in Orders, NEW x \in Names(o)
    PROVE  /\ SentKey(o) \in Keys /\ x \in Objects /\ x # NoObject /\ x[3] = o /\ x # Traded(p)
           /\ x \in Names(p) => o = p
           /\ \A k \in Keys : x \in {Own(p), Reported(k)} /\ k[2] = p => o = p
  <1>1. SentKey(o) \in Keys /\ SentKey(p) \in Keys /\ SentKey(o)[2] = o /\ SentKey(p)[2] = p
    BY ObjectNames DEF OInv, ObjectsRight, SentKey
  <1>2. x = Own(o) \/ x = Reported(SentKey(o))
    BY DEF Names
  <1>3. /\ x \in Objects /\ x # NoObject /\ x[3] = o /\ x # Traded(p)
        /\ \A k \in Keys : x \in {Own(p), Reported(k)} /\ k[2] = p => o = p
    BY <1>1, <1>2, ObjectNames
  <1>4. x \in Names(p) => o = p
    BY <1>1, <1>3 DEF Names
  <1> QED
    BY <1>1, <1>3, <1>4

(* No position is negative.                                                *)
LEMMA PositionNat ==
    ASSUME PInv, dead = "no", NEW o \in Orders
    PROVE  position[o] \in Int /\ position[o] >= 0
  <1>1. position[o] \in Int
    BY DEF PInv, Shape
  <1>2. ASSUME NEW i \in 1..peak, TradeOf(log, i, o)
        PROVE  log[i].lots \in Int /\ log[i].lots >= 1
    <2>1. i \in 1..Len(log)
      BY <1>2 DEF TradeOf
    <2>2. log[i].last >= 1 /\ log[i].lots >= log[i].last
      BY <2>1, <1>2 DEF PInv, Ledger
    <2>3. log[i] \in Msgs
      BY <2>1, ElementOfSeq DEF PInv, Shape
    <2>4. log[i].lots \in Int /\ log[i].last \in Int
      BY <2>3 DEF Msgs
    <2> QED
      BY <2>2, <2>4
  <1>3. position[o] = 0 \/ \E i \in 1..peak : TradeOf(log, i, o) /\ log[i].lots = position[o]
    BY DEF PInv, Applied
  <1> QED
    BY <1>1, <1>2, <1>3

(* A trade that is applied is the next one of its order and fits.          *)
LEMMA FillsFit ==
    ASSUME PInv, OInv, dead = "no", OnTrade, Fills
    PROVE  /\ Trade.last \in Int /\ Trade.last >= 1
           /\ position[Trade.order] \in Int /\ position[Trade.order] + Trade.last <= ex[Trade.order].filled
           /\ ex[Trade.order].filled \in Int
           /\ position'[Trade.order] = position[Trade.order] + Trade.last
           /\ \A o \in Orders : o # Trade.order => position'[o] = position[o]
           /\ UNCHANGED dead
  <1>1. /\ got + 1 \in 1..Len(log) /\ Trade \in Msgs /\ Trade.kind = "trade"
        /\ TradeId(Trade) \notin backward
        /\ position' = [position EXCEPT ![Trade.order] = @ + Trade.last]
        /\ UNCHANGED dead
    BY TradeEffect DEF Fills
  <1>2. Trade.order \in Orders /\ Trade.last \in Int /\ Trade.lots \in Int
    BY <1>1 DEF Msgs
  <1>3. TradeOf(log, got + 1, Trade.order)
    BY <1>1 DEF TradeOf, Trade
  <1>4. Take
    BY DEF OnTrade
  <1>5. ~(got < peak)
    BY <1>1, <1>4, SeenBefore DEF Trade
  <1>6. got = peak
    BY <1>5 DEF PInv, Shape
  <1>7. position[Trade.order] + Trade.last = Trade.lots
    BY <1>1, <1>4, <1>6, NextTrade DEF Trade
  <1>8. Trade.lots <= ex[Trade.order].filled /\ Trade.last >= 1
    <2>1. Trade.lots <= Filled[Trade.order] /\ Trade.last >= 1
      BY <1>1, <1>2, <1>3 DEF PInv, Ledger, Trade
    <2> QED
      BY <2>1, <1>2 DEF Filled
  <1>9. ex[Trade.order].filled \in Int /\ position \in [Orders -> Int]
    BY <1>2 DEF PInv, Shape
  <1> QED
    BY <1>1, <1>2, <1>7, <1>8, <1>9

(* Only the two handlers change what an object has noted.                  *)
LEMMA NextTradesFit ==
    ASSUME PInv, PInv', OInv, TradesFit, [Next]_vars
    PROVE  TradesFit'
  <1>1. dead' = "no" => dead = "no"
    BY DEF Next, vars
  <1>2. \A o \in Orders : \A s \in Sessions : \A x \in {Own(o), Reported(<<s, o>>)} :
           x \in Objects /\ objs[x] \in ObjRecs
    BY ObjectNames DEF OInv, ObjectsRight
  <1>3. CASE UNCHANGED <<objs, position>>
    BY <1>1, <1>3 DEF TradesFit
  <1>4. ASSUME NEW p \in Orders, SetPendingCancel(p)
        PROVE  TradesFit'
    <2>1. UNCHANGED <<position, dead>>
      BY <1>4 DEF SetPendingCancel, account
    <2>2. \A x \in Objects : objs'[x].quantity = objs[x].quantity /\ objs'[x].tradeFilled = objs[x].tradeFilled
      BY <1>4, PendingObjects
    <2> QED
      BY <1>2, <2>1, <2>2 DEF TradesFit
  <1>5. CASE dead = "no" /\ ProcessOrder
    <2>1. UNCHANGED <<position, dead>> /\ It \in {Own(Msg.order), Reported(KeyOf(Msg))}
      BY <1>5, ProcessEffect
    <2>2. \A x \in Objects : x # It => objs'[x] = objs[x]
      BY <1>5, ProcessEffect
    <2>3. objs'[It].quantity = Was.quantity /\ objs'[It].tradeFilled = Was.tradeFilled
      BY <1>5, ProcessEffect
    <2>4. (Was.quantity = Quantity /\ Was.tradeFilled = 0) \/ Was = objs[It]
      BY <1>5, ProcessEffect, NewRecs, ConstAssumption
    <2>5. \A o \in Orders : position[o] >= 0
      BY <1>5, PositionNat
    <2> QED
      BY <1>2, <1>5, <2>1, <2>2, <2>3, <2>4, <2>5 DEF TradesFit
  <1>6. CASE dead = "no" /\ OnTrade
    <2>1. CASE UNCHANGED <<cache, position>>
      BY <2>1, <1>3 DEF cache
    <2>2. CASE Fills
      <3>1. /\ Trade.last \in Int /\ Trade.last >= 1 /\ UNCHANGED dead
            /\ position'[Trade.order] = position[Trade.order] + Trade.last
            /\ \A o \in Orders : o # Trade.order => position'[o] = position[o]
        BY <1>6, <2>2, FillsFit
      <3>2. /\ objs'[That].quantity = Then.quantity
            /\ objs'[That].tradeFilled = Then.tradeFilled + Trade.last
            /\ \A x \in Objects : x # That => objs'[x] = objs[x]
        BY <2>2 DEF Fills
      <3>3. /\ Trade.order \in Orders
            /\ That \in {Own(Trade.order), Traded(Trade.order), Reported(SentKey(Trade.order))}
        BY <1>6, TradeEffect
      <3>4. SentKey(Trade.order) \in Keys /\ SentKey(Trade.order)[2] = Trade.order
        BY <3>3, ObjectNames DEF OInv, ObjectsRight, SentKey
      <3>5. ASSUME NEW o \in Orders, NEW s \in Sessions, NEW x \in {Own(o), Reported(<<s, o>>)}
            PROVE  /\ objs'[x].quantity = Quantity
                   /\ objs'[x].tradeFilled <= position'[o]
        <4>1. /\ x \in Objects /\ objs[x] \in ObjRecs
              /\ objs[x].quantity = Quantity /\ objs[x].tradeFilled <= position[o]
          BY <1>2, <1>6 DEF TradesFit
        <4>2. objs[x].tradeFilled \in Int /\ position[o] \in Int /\ position[o] <= position'[o]
          <5>1. objs[x].tradeFilled \in Int /\ position[o] \in Int
            BY <4>1 DEF ObjRecs, PInv, Shape
          <5> QED
            BY <5>1, <3>1
        <4>3. CASE x # That
          <5>1. position'[o] \in Int
            BY DEF PInv, Shape
          <5> QED
            BY <5>1, <4>1, <4>2, <4>3, <3>2
        <4>4. CASE x = That
          <5>1. <<s, o>> \in Keys /\ <<s, o>>[2] = o
            BY ObjectNames
          <5>2. o = Trade.order
            BY <5>1, <4>4, <3>3, <3>4, ObjectNames
          <5>3. That # Traded(Trade.order)
            BY <5>1, <4>4, <3>3, ObjectNames
          <5>4. Then = objs[x]
            BY <5>3, <4>4 DEF Then, That
          <5> QED
            BY <5>2, <5>4, <4>1, <4>2, <4>4, <3>1, <3>2
        <4> QED
          BY <4>3, <4>4
      <3> QED
        BY <3>5 DEF TradesFit
    <2>3. UNCHANGED <<cache, position>> \/ Fills
      BY <1>6, TradeEffect
    <2> QED
      BY <2>1, <2>2, <2>3
  <1>7. ASSUME NEW p \in Orders, ExchangeStep(p) \/ StrategyStep(p), ~SetPendingCancel(p)
        PROVE  UNCHANGED <<objs, position>>
    BY <1>7, QuietSteps DEF Quiet, StrategyStep, CacheOrder, SendOrder, cache, account
  <1>8. OnOrder \/ Unfreeze \/ Relogin \/ UNCHANGED vars => UNCHANGED <<objs, position>>
    BY DEF OnOrder, Unfreeze, Relogin, vars, cache, account
  <1> QED
    BY <1>3, <1>4, <1>5, <1>6, <1>7, <1>8 DEF Next, CallbackStep

(* What on_order reports nothing of leaves the status as it is, but for    *)
(* the first one.                                                          *)
LEMMA EventNone ==
    ASSUME NEW s, NEW r \in {"ACTIVE", "FILLED", "CANCELLED", "REJECTED"}, Event(s, r) = "none"
    PROVE  /\ s = "PENDING_NEW" => r = "ACTIVE"
           /\ s \in {"ACTIVE", "PENDING_CANCEL"} => r \in {"ACTIVE", "REJECTED"}
           /\ NextStatus(s, r) = IF s = "PENDING_NEW" THEN "ACTIVE" ELSE s
  BY DEF Event, NextStatus, Final

(* An order with an ACTIVE message is not rejected.                        *)
LEMMA ActiveNotRejected ==
    ASSUME PInv, OInv, NEW o \in Orders, NEW m \in Known(o), m.status = "ACTIVE"
    PROVE  ex[o].state # "rejected" /\ Sent(o)
  <1>1. PICK i \in 1..peak : log[i] = m /\ m.order = o
    BY DEF Known
  <1>2. i \in 1..Len(log)
    BY <1>1 DEF PInv, Shape
  <1> QED
    BY <1>1, <1>2 DEF OInv, LogRight, MsgFits, Sent

(* The steps of the callback thread that work on objects.                  *)
LEMMA ProcessNames ==
    ASSUME PInv, OInv, NamesRight, ProcessOrder
    PROVE  NamesRight'
  <1>1. /\ Found /\ ~Found' /\ Msg.order \in Orders /\ KeyOf(Msg) \in Keys /\ KeyOf(Msg)[2] = Msg.order
        /\ Msg.status \in {"ACTIVE", "FILLED", "CANCELLED", "REJECTED"}
        /\ Msg.status # "REJECTED" => KeyOf(Msg) = SentKey(Msg.order)
        /\ cb.object \in {NoObject, Own(Msg.order), Reported(KeyOf(Msg))}
        /\ UNCHANGED <<sub, sentIn, session>>
    BY ProcessEffect, MsgOfOrder DEF Found, OInv, CallbackRight
  <1>2. /\ It \in Objects /\ (cb.object = NoObject => It = Reported(KeyOf(Msg)))
        /\ cb.object # NoObject => It = cb.object
        /\ \A x \in Objects : x # It => objs'[x] = objs[x]
        /\ \A k \in Keys : k # KeyOf(Msg) => orders'[k] = orders[k]
        /\ orders'[KeyOf(Msg)] = IF cb.object = NoObject THEN It ELSE orders[KeyOf(Msg)]
        /\ \A o \in Orders : o # Msg.order => sysOrders'[o] = sysOrders[o]
        /\ \/ sysOrders' = sysOrders
           \/ /\ Msg.status # "REJECTED" /\ sysOrders'[Msg.order] = It
              /\ cb.object = NoObject \/ sysOrders[Msg.order] = NoObject
        /\ cb.object = NoObject /\ Msg.status # "REJECTED" => sysOrders'[Msg.order] = It
    BY ProcessEffect
  <1>3. \A o \in Orders : sub[o] # "done" => It # Own(o)
    BY <1>1, <1>2, ObjectNames DEF NamesRight
  <1>4. objs'[It].status # "PENDING_NEW"
    <2>1. objs'[It].status = NextStatus(Was.status, Msg.status)
      BY ProcessEffect
    <2> QED
      BY <2>1, <1>1 DEF NextStatus
  <1>5. ASSUME NEW o \in Orders, sub[o] # "done"
        PROVE  /\ objs'[Own(o)].status = "PENDING_NEW"
               /\ \A s \in Sessions : orders'[<<s, o>>] # Own(o)
               /\ sysOrders'[o] # Own(o)
    <2>1. It # Own(o) /\ Own(o) \in Objects
      BY <1>3, <1>5, ObjectNames
    <2>2. objs'[Own(o)].status = "PENDING_NEW" /\ sysOrders'[o] # Own(o)
      BY <2>1, <1>2, <1>5 DEF NamesRight
    <2>3. ASSUME NEW s \in Sessions PROVE orders'[<<s, o>>] # Own(o)
      <3>1. <<s, o>> \in Keys
        BY ObjectNames
      <3> QED
        BY <3>1, <2>1, <1>2, <1>5 DEF NamesRight
    <2> QED
      BY <2>2, <2>3
  <1>6. ASSUME NEW k \in Keys
        PROVE  /\ orders'[k] = Reported(k) => objs'[Reported(k)].status # "PENDING_NEW"
               /\ orders'[k] = Own(k[2]) => k[1] = sentIn[k[2]]
    <2>1. Reported(k) \in Objects /\ Reported(k) # Own(k[2])
      BY ObjectNames
    <2>2. CASE orders'[k] = orders[k]
      <3>1. CASE Reported(k) = It
        BY <3>1, <2>2, <1>4 DEF NamesRight
      <3>2. CASE Reported(k) # It
        BY <3>2, <2>1, <2>2, <1>2 DEF NamesRight
      <3> QED
        BY <3>1, <3>2
    <2>3. CASE orders'[k] # orders[k]
      <3>1. orders'[k] = Reported(k) /\ It = Reported(k)
        BY <2>3, <1>2
      <3> QED
        BY <3>1, <2>1, <1>4
    <2> QED
      BY <2>2, <2>3
  <1>7. ASSUME NEW o \in Orders, Reported(SentKey(o)) \in openOrders'
        PROVE  sysOrders'[o] = Reported(SentKey(o))
    <2>1. SentKey(o) \in Keys /\ SentKey(o)[2] = o
      BY ObjectNames DEF OInv, ObjectsRight, SentKey
    <2>2. CASE Reported(SentKey(o)) \in openOrders
      <3>1. sysOrders[o] = Reported(SentKey(o)) /\ sysOrders[o] # NoObject
        BY <2>1, <2>2, ObjectNames DEF NamesRight
      <3>2. CASE sysOrders'[o] # sysOrders[o]
        BY <3>1, <3>2, <1>1, <1>2
      <3> QED
        BY <3>1, <3>2
    <2>3. CASE Reported(SentKey(o)) \notin openOrders
      <3>1. openOrders' = Added(It) /\ Event(Was.status, Msg.status) = "none" /\ Was.status = "PENDING_NEW"
        BY <1>7, <2>3, ProcessEffect DEF Removed
      <3>2. It = Reported(SentKey(o)) /\ Msg.status = "ACTIVE"
        BY <3>1, <1>1, <1>7, <2>3, EventNone DEF Added
      <3>3. KeyOf(Msg) = SentKey(o)
        BY <3>2, <2>1, <1>1, <1>2, ObjectNames
      <3>4. cb.object = NoObject
        <4>1. CASE cb.object # NoObject
          <5>1. Was = objs[It] /\ cb.object = It
            BY <4>1, ProcessEffect
          <5> QED
            BY <5>1, <3>1, <3>2, <3>3, <1>1 DEF NamesRight
        <4> QED
          BY <4>1
      <3>5. o = Msg.order
        BY <3>3, <2>1, <1>1
      <3> QED
        BY <3>2, <3>4, <3>5, <1>2
    <2> QED
      BY <2>2, <2>3
  <1> QED
    BY <1>1, <1>5, <1>6, <1>7 DEF NamesRight, SentKey

(* on_trade takes the object of sys_orders_, or one nothing else knows.    *)
LEMMA TradeNames ==
    ASSUME PInv, OInv, NamesRight, OnTrade
    PROVE  NamesRight'
  <1>1. /\ Trade.order \in Orders /\ ~Found
        /\ That \in {Own(Trade.order), Traded(Trade.order), Reported(SentKey(Trade.order))}
        /\ UNCHANGED <<session, sub, sentIn, orders, openOrders>>
    BY TradeEffect DEF Found
  <1>2. UNCHANGED <<objs, sysOrders, cb>> \/ Fills
    BY TradeEffect DEF cache
  <1>3. CASE UNCHANGED <<objs, sysOrders, cb>>
    BY <1>1, <1>3 DEF NamesRight, SentKey, Found
  <1>4. CASE Fills
    <2>1. /\ \A x \in Objects : x # That => objs'[x] = objs[x]
          /\ objs'[That].status \in {"FILLED", Then.status}
          /\ sysOrders'[Trade.order] = That
          /\ \A o \in Orders : o # Trade.order => sysOrders'[o] = sysOrders[o]
          /\ ~Found'
      BY <1>4 DEF Fills, Found
    <2>2. SentKey(Trade.order) \in Keys
      BY <1>1, ObjectNames DEF OInv, ObjectsRight, SentKey
    <2>3. \A o \in Orders : sub[o] # "done" => That # Own(o)
      <3>1. That = Traded(Trade.order) \/ That = sysOrders[Trade.order]
        BY DEF That
      <3> QED
        BY <3>1, <2>2, <1>1, ObjectNames DEF NamesRight
    <2>4. ASSUME NEW k \in Keys, objs[Reported(k)].status # "PENDING_NEW"
          PROVE  objs'[Reported(k)].status # "PENDING_NEW"
      <3>1. Reported(k) \in Objects /\ Reported(k) # Traded(Trade.order)
        BY <1>1, ObjectNames
      <3>2. CASE Reported(k) # That
        BY <3>1, <3>2, <2>1, <2>4
      <3>3. CASE Reported(k) = That
        <4>1. Then = objs[That]
          BY <3>1, <3>3 DEF That, Then
        <4> QED
          BY <4>1, <3>3, <2>1, <2>4
      <3> QED
        BY <3>2, <3>3
    <2>5. ASSUME NEW o \in Orders, sub[o] # "done"
          PROVE  objs'[Own(o)].status = "PENDING_NEW" /\ sysOrders'[o] # Own(o)
      BY <2>1, <2>3, <2>5, <1>1, ObjectNames DEF NamesRight
    <2>6. ASSUME NEW o \in Orders, Reported(SentKey(o)) \in openOrders
          PROVE  sysOrders'[o] = Reported(SentKey(o))
      <3>1. sysOrders[o] = Reported(SentKey(o)) /\ sysOrders[o] # NoObject
        <4>1. SentKey(o) \in Keys
          BY ObjectNames DEF OInv, ObjectsRight, SentKey
        <4> QED
          BY <4>1, <2>6, ObjectNames DEF NamesRight
      <3> QED
        BY <3>1, <2>1 DEF That
    <2> QED
      BY <2>1, <2>4, <2>5, <2>6, <1>1 DEF NamesRight, SentKey
  <1> QED
    BY <1>2, <1>3, <1>4

(* Every step keeps it.                                                    *)
LEMMA NextNamesRight ==
    ASSUME PInv, PInv', OInv, NamesRight, OpenRight, [Next]_vars
    PROVE  NamesRight'
  <1>1. ASSUME UNCHANGED <<objs, orders, sysOrders, openOrders, sentIn, session>>,
               \A o \in Orders : sub'[o] # "done" => sub[o] # "done",
               (UNCHANGED cb /\ (Found => Msg' = Msg)) \/ ~Found'
        PROVE  NamesRight'
    BY <1>1 DEF NamesRight, SentKey, Found, KeyOf
  <1>2. ASSUME NEW o \in Orders, ExchangeStep(o)
        PROVE  NamesRight'
    <2>1. Found => Msg' = Msg
      BY <1>2, OnlyMore, QuietSteps DEF Msg, Quiet, OInv, CallbackRight
    <2>2. UNCHANGED <<objs, orders, sysOrders, openOrders, sentIn, session, sub, cb>>
      BY <1>2, ExchangeLog DEF OInv, Grows, stream, submit, cache
    <2> QED
      BY <1>1, <2>1, <2>2
  <1>3. ASSUME NEW o \in Orders, StrategyStep(o)
        PROVE  NamesRight'
    <2>1. sub \in [Orders -> {"idle", "adding", "published", "sent", "done"}]
      BY DEF PInv, Shape
    <2>2. CASE Publish(o) \/ Freeze(o) \/ TearMap(o) \/ CancelOrder(o)
      <3>1. \A p \in Orders : sub'[p] # "done" => sub[p] # "done"
        BY <2>1, <2>2 DEF Publish, Freeze, TearMap, CancelOrder, submit
      <3>2. UNCHANGED openOrders
        BY <2>2 DEF Publish, Freeze, TearMap, CancelOrder, cache
      <3> QED
        BY <3>1, <3>2, <2>2, <1>1, QuietSteps DEF Quiet, Msg
    <2>3. CASE CacheOrder(o)
      <3>1. /\ orders' = [orders EXCEPT ![SentKey(o)] = Own(o)] /\ sub' = [sub EXCEPT ![o] = "done"]
            /\ sub[o] = "sent"
            /\ UNCHANGED <<log, got, session, sentIn, objs, sysOrders, openOrders, cb>>
        BY <2>3 DEF CacheOrder, SentKey, exchange, stream
      <3>2. SentKey(o) \in Keys /\ SentKey(o)[1] = sentIn[o] /\ SentKey(o)[2] = o /\ Own(o) # Reported(SentKey(o))
        BY ObjectNames DEF OInv, ObjectsRight, SentKey
      <3>3. /\ orders'[SentKey(o)] = Own(o)
            /\ \A k \in Keys : k # SentKey(o) => orders'[k] = orders[k]
            /\ \A p \in Orders : sub'[p] # "done" => p # o /\ sub[p] # "done"
        BY <3>1, <3>2, <2>1 DEF OInv, ObjectsRight
      <3>4. ASSUME NEW p \in Orders, sub'[p] # "done"
            PROVE  \A s \in Sessions : orders'[<<s, p>>] # Own(p)
        <4>1. \A s \in Sessions : <<s, p>> \in Keys /\ <<s, p>> # SentKey(o)
          BY <3>2, <3>3, <3>4, ObjectNames
        <4> QED
          BY <4>1, <3>3, <3>4 DEF NamesRight
      <3>5. \A k \in Keys :
               /\ orders'[k] = Reported(k) => objs[Reported(k)].status # "PENDING_NEW"
               /\ orders'[k] = Own(k[2]) => k[1] = sentIn[k[2]]
        BY <3>2, <3>3 DEF NamesRight
      <3>6. Found /\ cb.object = Own(Msg.order) => orders'[KeyOf(Msg)] = Own(Msg.order)
        <4>1. Found => KeyOf(Msg) \in Keys /\ KeyOf(Msg)[2] = Msg.order
          BY MsgOfOrder
        <4> QED
          BY <4>1, <3>2, <3>3 DEF NamesRight
      <3> QED
        BY <3>1, <3>3, <3>4, <3>5, <3>6 DEF NamesRight, SentKey, Found, KeyOf, Msg
    <2>4. ASSUME NEW accepted \in BOOLEAN, SendOrder(o, accepted)
          PROVE  NamesRight'
      <3>1. /\ sub[o] = "published" /\ sub' = [sub EXCEPT ![o] = "sent"]
            /\ sentIn' = [sentIn EXCEPT ![o] = session]
            /\ UNCHANGED <<log, got, session, objs, orders, sysOrders, openOrders, cb>>
        BY <2>4 DEF SendOrder, exchange, stream, cache
      <3>2. /\ \A p \in Orders : sub'[p] # "done" => sub[p] # "done"
            /\ \A p \in Orders : p # o => sentIn'[p] = sentIn[p]
        BY <3>1, <2>1
      <3>3. ASSUME NEW k \in Keys, orders[k] = Own(k[2])
            PROVE  k[2] # o /\ k[1] = sentIn'[k[2]]
        <4>1. k[1] \in Sessions /\ k[2] \in Orders /\ k = <<k[1], k[2]>>
          BY ObjectNames
        <4>2. k[2] # o
          BY <4>1, <3>1, <3>3 DEF NamesRight
        <4> QED
          BY <4>1, <4>2, <3>2, <3>3 DEF NamesRight
      <3>4. ASSUME NEW p \in Orders, Reported(SentKey(p)') \in openOrders
            PROVE  p # o
        <4>1. SentKey(p)' \in Keys /\ SentKey(p)'[2] = p
          BY <3>1, ObjectNames DEF OInv, ObjectsRight, SentKey
        <4>2. PICK q \in Orders : Reported(SentKey(p)') \in Names(q)
          BY <3>4 DEF OpenRight
        <4>3. q = p
          BY <4>1, <4>2, NamesApart
        <4>4. Sent(p)
          BY <4>2, <4>3, <3>4, ActiveNotRejected DEF OpenRight, Listed
        <4> QED
          BY <4>4, <3>1 DEF Sent
      <3>5. Found => Msg.order # o /\ Msg.order \in Orders
        BY <3>1, MsgOfOrder DEF Sent
      <3>6. Found => Msg' = Msg /\ KeyOf(Msg)' = KeyOf(Msg)
        BY <3>1, <3>2, <3>5 DEF Msg, KeyOf
      <3>7. ASSUME NEW p \in Orders, Reported(SentKey(p)') \in openOrders
            PROVE  sysOrders[p] = Reported(SentKey(p)')
        BY <3>2, <3>4, <3>7 DEF NamesRight, SentKey
      <3> QED
        BY <3>1, <3>2, <3>3, <3>6, <3>7 DEF NamesRight, Found
    <2>5. CASE SetPendingCancel(o)
      <3>1. /\ sub[o] = "done" /\ cancel[o] \in {Own(o), Reported(SentKey(o))}
            /\ \A x \in Objects : x # cancel[o] => objs'[x] = objs[x]
            /\ objs'[cancel[o]].status = "PENDING_CANCEL"
            /\ UNCHANGED <<log, got, session, sub, sentIn, orders, sysOrders, openOrders, cb>>
        BY <2>5, PendingObjects, ObjectNames DEF SetPendingCancel, OInv, CancelRight, exchange, stream, submit
      <3>2. SentKey(o) \in Keys
        BY ObjectNames DEF OInv, ObjectsRight, SentKey
      <3>3. \A x \in Objects : objs[x].status # "PENDING_NEW" => objs'[x].status # "PENDING_NEW"
        BY <3>1
      <3>4. \A p \in Orders : sub[p] # "done" => objs'[Own(p)] = objs[Own(p)]
        BY <3>1, <3>2, ObjectNames
      <3>5. \A k \in Keys : Reported(k) \in Objects
        BY ObjectNames
      <3>6. Found => KeyOf(Msg) \in Keys
        BY MsgOfOrder
      <3>7. \A p \in Orders : sub[p] # "done" => objs'[Own(p)].status = "PENDING_NEW"
        BY <3>4 DEF NamesRight
      <3>8. \A k \in Keys : orders[k] = Reported(k) => objs'[Reported(k)].status # "PENDING_NEW"
        BY <3>3, <3>5 DEF NamesRight
      <3>9. Found /\ cb.object = Reported(KeyOf(Msg)) => objs'[cb.object].status # "PENDING_NEW"
        BY <3>3, <3>5, <3>6 DEF NamesRight
      <3> QED
        BY <3>1, <3>7, <3>8, <3>9 DEF NamesRight, SentKey, Found, KeyOf, Msg
    <2> QED
      BY <1>3, <2>2, <2>3, <2>4, <2>5 DEF StrategyStep
  <1>4. CASE OnOrder
    <2>1. /\ cb'.object = orders[KeyOf(Msg)'] /\ Msg'.order \in Orders
          /\ KeyOf(Msg)' \in Keys /\ KeyOf(Msg)'[2] = Msg'.order
          /\ UNCHANGED <<session, sub, sentIn, objs, orders, sysOrders, openOrders>>
      BY <1>4, OnOrderObjects DEF cache
    <2>2. ASSUME NEW o \in Orders, sub[o] # "done" PROVE cb'.object # Own(o)
      <3>1. orders[KeyOf(Msg)'] \in {NoObject, Own(Msg'.order), Reported(KeyOf(Msg)')}
        BY <2>1 DEF OInv, ObjectsRight
      <3>2. CASE Msg'.order = o
        <4>1. KeyOf(Msg)'[1] \in Sessions /\ KeyOf(Msg)' = <<KeyOf(Msg)'[1], o>>
          BY <3>2, <2>1, ObjectNames
        <4> QED
          BY <4>1, <2>1, <2>2 DEF NamesRight
      <3>3. CASE Msg'.order # o
        BY <3>1, <3>3, <2>1, ObjectNames
      <3> QED
        BY <3>2, <3>3
    <2>3. cb'.object = Reported(KeyOf(Msg)') => objs[cb'.object].status # "PENDING_NEW"
      BY <2>1 DEF NamesRight
    <2> QED
      BY <2>1, <2>2, <2>3 DEF NamesRight, SentKey
  <1>5. CASE ProcessOrder
    BY <1>5, ProcessNames
  <1>6. CASE OnTrade
    BY <1>6, TradeNames
  <1>7. CASE Unfreeze
    <2>1. ~Found' /\ UNCHANGED <<objs, orders, sysOrders, openOrders, sentIn, session, sub>>
      BY <1>7 DEF Unfreeze, IdleCallback, Found, stream, submit, cache
    <2> QED
      BY <1>1, <2>1
  <1>8. CASE Relogin
    <2>1. ~Found' /\ ~Found /\ UNCHANGED <<objs, orders, sysOrders, openOrders, sentIn, sub>>
      BY <1>8 DEF Relogin, Found, submit, cache
    <2>2. \A o \in Orders : sub[o] # "done" => \A s \in Sessions : orders'[<<s, o>>] # Own(o)
      BY <2>1 DEF NamesRight
    <2> QED
      BY <2>1 DEF NamesRight, SentKey
  <1>9. CASE UNCHANGED vars
    BY <1>1, <1>9 DEF vars, Msg
  <1> QED
    BY <1>2, <1>3, <1>4, <1>5, <1>6, <1>7, <1>8, <1>9 DEF Next, CallbackStep
-----------------------------------------------------------------------------
(* An order that is over stays as it is.                                   *)
LEMMA OverStays ==
    ASSUME PInv, PInv', OInv, [Next]_vars, NEW o \in Orders,
           ex[o].state \in {"filled", "cancelled", "rejected"}
    PROVE  ex'[o] = ex[o]
  <1>1. ASSUME NEW p \in Orders, ExchangeStep(p)
        PROVE  ex'[o] = ex[o]
    <2>1. ex[p].state = "live"
      BY <1>1 DEF ExchangeStep, Park, FillAll, FillPart, ExchangeCancel, Reject
    <2>2. \A q \in Orders : q # p => ex'[q] = ex[q]
      BY <1>1 DEF ExchangeStep, Park, FillAll, FillPart, ExchangeCancel, Reject, Announce, PInv, Shape
    <2> QED
      BY <2>1, <2>2
  <1>2. ASSUME NEW p \in Orders, NEW accepted \in BOOLEAN, SendOrder(p, accepted)
        PROVE  ex'[o] = ex[o]
    <2>1. ex' = (IF accepted THEN [ex EXCEPT ![p].state = "live"] ELSE ex) /\ sub[p] = "published"
      BY <1>2 DEF SendOrder
    <2>2. ex[p].state = "none"
      BY <2>1 DEF PInv, Room
    <2> QED
      BY <2>1, <2>2 DEF PInv, Shape
  <1>3. ASSUME NEW p \in Orders, StrategyStep(p), ~ \E accepted \in BOOLEAN : SendOrder(p, accepted)
        PROVE  ex' = ex
    BY <1>3, QuietSteps DEF StrategyStep, CacheOrder, SetPendingCancel, exchange
  <1>4. CallbackStep \/ Relogin \/ UNCHANGED vars => ex' = ex
    BY DEF CallbackStep, OnOrder, ProcessOrder, OnTrade, Unfreeze, Relogin, exchange, vars
  <1> QED
    BY <1>1, <1>2, <1>3, <1>4 DEF Next

(* An order is filled for good.                                            *)
LEMMA FilledStays ==
    ASSUME PInv, PInv', OInv, [Next]_vars, NEW o \in Orders, ex[o].state = "filled"
    PROVE  ex'[o].state = "filled"
  BY OverStays

(* No more ends have been handled than before.                             *)
LEMMA NoNewEnd ==
    ASSUME PInv, PInv', OInv, [Next]_vars, NEW o \in Orders, NEW h \in Int,
           h <= Handled, \A i \in 1..Handled' : i <= h \/ log'[i].order # o \/ log'[i].status \notin Final
    PROVE  EndHandled(o)' => EndHandled(o)
  <1>1. got \in Int /\ peak \in Int /\ got <= peak /\ peak <= Len(log) /\ Len(log) \in Int
    BY LenProperties DEF PInv, Shape
  <1>2. Handled \in Int /\ Handled <= Len(log)
    BY <1>1 DEF Handled
  <1>3. got' \in Int /\ Handled' \in Int
    BY DEF PInv, Shape, Handled
  <1>4. ASSUME NEW i \in 1..Handled', log'[i].order = o, log'[i].status \in Final
        PROVE  i \in 1..Handled /\ log[i].order = o /\ log[i].status \in Final
    <2>1. i <= h
      BY <1>4
    <2>2. i \in 1..Handled /\ i \in 1..Len(log)
      BY <1>2, <1>3, <2>1
    <2> QED
      BY <1>4, <2>2, OnlyMore
  <1> QED
    BY <1>4 DEF EndHandled

(* What an order in the list needs from a step to stay right.              *)
LEMMA ListedStays ==
    ASSUME NEW o \in Orders, NEW x \in Names(o), Listed(o, x), Known(o) \subseteq Known(o)',
           ex[o].state = "filled" => ex'[o].state = "filled",
           objs'[x].status \in {objs[x].status, "PENDING_CANCEL"}, objs'[x].filled = objs[x].filled,
           \A y \in Looked(o)' \ {x} : y = Own(o) /\ objs'[y].status \notin Final,
           EndHandled(o)' => EndHandled(o)
    PROVE  Listed(o, x)'
  BY DEF Listed

(* The list stays, and what the objects on it stand for.                   *)
LEMMA ListStays ==
    ASSUME OpenRight, UNCHANGED openOrders,
           \A o \in Orders : openOrders \cap Names(o) = openOrders \cap Names(o)',
           \A o \in Orders : \A x \in openOrders \cap Names(o) : Listed(o, x)'
    PROVE  OpenRight'
  BY DEF OpenRight

(* A step that leaves objects, orders_ and the message under way alone.    *)
LEMMA ListAlone ==
    ASSUME PInv, PInv', OInv, OpenRight, [Next]_vars,
           UNCHANGED <<objs, orders, openOrders, sentIn>>,
           UNCHANGED <<got, cb>> \/ (~Found /\ ~Found' /\ got' \in Int /\ got' <= got)
    PROVE  OpenRight'
  <1>1. Found' => Found /\ UNCHANGED <<got, cb>> /\ Msg' = Msg
    BY OnlyMore DEF Found, Msg, OInv, CallbackRight
  <1>2. Handled \in Int /\ Handled' \in Int /\ Handled' <= Handled
    <2>1. got \in Int /\ got' \in Int
      BY DEF PInv, Shape
    <2>2. CASE UNCHANGED <<got, cb>>
      BY <2>1, <2>2 DEF Handled, Found
    <2>3. CASE ~Found /\ ~Found' /\ got' \in Int /\ got' <= got
      BY <2>1, <2>3 DEF Handled
    <2> QED
      BY <2>2, <2>3
  <1>3. ASSUME NEW o \in Orders, NEW x \in openOrders \cap Names(o)
        PROVE  Listed(o, x)'
    <2>1. Looked(o)' \subseteq Looked(o)
      BY <1>1 DEF Looked, SentKey
    <2>2. EndHandled(o)' => EndHandled(o)
      BY <1>2, NoNewEnd
    <2>3. Listed(o, x)
      BY <1>3 DEF OpenRight
    <2>4. \A y \in Looked(o)' \ {x} : y = Own(o) /\ objs'[y].status \notin Final
      BY <2>1, <2>3 DEF Listed
    <2> QED
      BY <2>2, <2>3, <2>4, KnownGrows, FilledStays, ListedStays
  <1>4. \A o \in Orders : Names(o) = Names(o)'
    BY DEF Names, SentKey
  <1> QED
    BY <1>3, <1>4, ListStays

(* submit_order enters its object, which is not final, or sets up the      *)
(* session of an order that no message is known of.                        *)
LEMMA SubmitListed ==
    ASSUME PInv, PInv', OInv, OInv', NamesRight, OpenRight, [Next]_vars, NEW p \in Orders,
           CacheOrder(p) \/ \E accepted \in BOOLEAN : SendOrder(p, accepted)
    PROVE  OpenRight'
  <1>1. UNCHANGED <<got, cb, objs, openOrders>>
    BY DEF CacheOrder, SendOrder, stream, cache
  <1>2. Handled \in Int /\ Handled' \in Int /\ Handled' <= Handled
    <2>1. got \in Int /\ got' \in Int
      BY DEF PInv, Shape
    <2> QED
      BY <2>1, <1>1 DEF Handled, Found
  <1>3. \A o \in Orders : EndHandled(o)' => EndHandled(o)
    BY <1>2, NoNewEnd
  <1>4. Found => Msg' = Msg
    BY <1>1, OnlyMore DEF Msg, OInv, CallbackRight
  <1>5. CASE CacheOrder(p)
    <2>1. /\ sub[p] = "sent" /\ orders' = [orders EXCEPT ![SentKey(p)] = Own(p)]
          /\ UNCHANGED sentIn
      BY <1>5 DEF CacheOrder, SentKey
    <2>2. ASSUME NEW o \in Orders, NEW x \in openOrders \cap Names(o)
          PROVE  Listed(o, x)'
      <3>1. Listed(o, x)
        BY <2>2 DEF OpenRight
      <3>2. SentKey(p) \in Keys /\ SentKey(o) \in Keys /\ (SentKey(o) = SentKey(p) => o = p)
        BY ObjectNames DEF OInv, ObjectsRight, SentKey
      <3>3. SentKey(o)' = SentKey(o)
        BY <2>1 DEF SentKey
      <3>4. objs[Own(p)].status = "PENDING_NEW"
        BY <2>1 DEF NamesRight
      <3>5. orders'[SentKey(o)] = IF o = p THEN Own(p) ELSE orders[SentKey(o)]
        BY <2>1, <3>2 DEF OInv, ObjectsRight
      <3>6. Looked(o)' \subseteq Looked(o) \cup {Own(p)} /\ (o # p => Looked(o)' \subseteq Looked(o))
        BY <1>1, <1>4, <3>3, <3>5 DEF Looked, Found
      <3>7. \A y \in Looked(o)' \ {x} : y = Own(o) /\ objs[y].status \notin Final
        BY <3>1, <3>4, <3>6 DEF Listed, Final
      <3> QED
        BY <1>1, <1>3, <3>1, <3>7, KnownGrows, FilledStays, ListedStays
    <2>3. \A o \in Orders : Names(o) = Names(o)'
      BY <2>1 DEF Names, SentKey
    <2> QED
      BY <1>1, <2>2, <2>3, ListStays
  <1>6. ASSUME NEW accepted \in BOOLEAN, SendOrder(p, accepted)
        PROVE  OpenRight'
    <2>1. /\ sub[p] = "published" /\ sentIn' = [sentIn EXCEPT ![p] = session]
          /\ UNCHANGED orders
      BY <1>6 DEF SendOrder, cache
    <2>2. \A o \in Orders : o # p => SentKey(o)' = SentKey(o) /\ Names(o)' = Names(o)
      BY <2>1 DEF SentKey, Names, OInv, ObjectsRight
    <2>3. ASSUME NEW x \in openOrders \cap Names(p) PROVE FALSE
      <3>1. Listed(p, x)
        BY <2>3 DEF OpenRight
      <3> QED
        BY <3>1, <2>1, ActiveNotRejected DEF Listed, Sent
    <2>4. ASSUME NEW x \in openOrders \cap Names(p)' PROVE FALSE
      <3>1. PICK q \in Orders : x \in Names(q)
        BY <2>4 DEF OpenRight
      <3>2. SentKey(p)' \in Keys /\ SentKey(p)'[2] = p
        BY <2>1, ObjectNames DEF OInv, ObjectsRight, SentKey
      <3>3. x \in {Own(p), Reported(SentKey(p)')}
        BY <2>4 DEF Names
      <3>4. q = p
        BY <3>1, <3>2, <3>3, NamesApart
      <3> QED
        BY <3>1, <3>4, <2>3, <2>4
    <2>5. ASSUME NEW o \in Orders, NEW x \in openOrders \cap Names(o)
          PROVE  Listed(o, x)'
      <3>1. Listed(o, x)
        BY <2>5 DEF OpenRight
      <3>2. o # p /\ SentKey(o)' = SentKey(o)
        BY <2>2, <2>3, <2>5
      <3>3. Looked(o)' = Looked(o)
        BY <1>1, <1>4, <2>1, <3>2 DEF Looked, Found
      <3>4. \A y \in Looked(o)' \ {x} : y = Own(o) /\ objs[y].status \notin Final
        BY <3>1, <3>3 DEF Listed
      <3> QED
        BY <1>1, <1>3, <3>1, <3>4, KnownGrows, FilledStays, ListedStays
    <2>6. \A o \in Orders : openOrders \cap Names(o) = openOrders \cap Names(o)'
      BY <2>2, <2>3, <2>4
    <2> QED
      BY <1>1, <2>5, <2>6, ListStays
  <1> QED
    BY <1>5, <1>6

(* set_pending_cancel makes nothing final.                                 *)
LEMMA PendingListed ==
    ASSUME PInv, PInv', OInv, OpenRight, [Next]_vars, NEW p \in Orders, SetPendingCancel(p)
    PROVE  OpenRight'
  <1>1. UNCHANGED <<got, cb, orders, openOrders, sentIn>>
    BY DEF SetPendingCancel, stream, submit
  <1>2. Handled \in Int /\ Handled' \in Int /\ Handled' <= Handled
    <2>1. got \in Int /\ got' \in Int
      BY DEF PInv, Shape
    <2> QED
      BY <2>1, <1>1 DEF Handled, Found
  <1>3. \A o \in Orders : EndHandled(o)' => EndHandled(o)
    BY <1>2, NoNewEnd
  <1>4. Found => Msg' = Msg
    BY <1>1, OnlyMore DEF Msg, OInv, CallbackRight
  <1>5. \A x \in Objects : /\ objs'[x].status \in {objs[x].status, "PENDING_CANCEL"}
                           /\ objs'[x].filled = objs[x].filled
    BY PendingObjects
  <1>6. ASSUME NEW o \in Orders, NEW x \in openOrders \cap Names(o)
        PROVE  Listed(o, x)'
    <2>1. Listed(o, x) /\ x \in Objects /\ Own(o) \in Objects
      BY <1>6, NamesApart, ObjectNames DEF OpenRight
    <2>2. Looked(o)' = Looked(o)
      BY <1>1, <1>4 DEF Looked, Found, SentKey
    <2>3. \A y \in Looked(o)' \ {x} : y = Own(o) /\ objs'[y].status \notin Final
      BY <1>5, <2>1, <2>2 DEF Listed, Final
    <2> QED
      BY <1>3, <1>5, <2>1, <2>3, KnownGrows, FilledStays, ListedStays
  <1>7. \A o \in Orders : Names(o) = Names(o)'
    BY <1>1 DEF Names, SentKey
  <1> QED
    BY <1>1, <1>6, <1>7, ListStays

(* on_order finds for an order in the list what it has looked for before.  *)
LEMMA OnOrderListed ==
    ASSUME PInv, PInv', OInv, OpenRight, [Next]_vars, OnOrder
    PROVE  OpenRight'
  <1>1. /\ Found' /\ ~Found /\ got' = got + 1 /\ got + 1 \in 1..Len(log) /\ Msg' = log[got + 1]
        /\ Msg'.order \in Orders /\ cb'.object = orders[KeyOf(Msg)']
        /\ Msg'.status # "REJECTED" => KeyOf(Msg)' = SentKey(Msg'.order)
        /\ UNCHANGED <<objs, orders, openOrders, sentIn>>
    BY OnOrderObjects DEF cache, OnOrder, Take, Found
  <1>2. Handled \in Int /\ Handled' \in Int /\ Handled' <= Handled
    <2>1. got \in Int /\ got' \in Int
      BY DEF PInv, Shape
    <2> QED
      BY <2>1, <1>1 DEF Handled
  <1>3. \A o \in Orders : EndHandled(o)' => EndHandled(o)
    BY <1>2, NoNewEnd
  <1>4. ASSUME NEW o \in Orders, NEW x \in openOrders \cap Names(o)
        PROVE  Listed(o, x)'
    <2>1. Listed(o, x)
      BY <1>4 DEF OpenRight
    <2>2. Msg'.order = o => Msg'.status # "REJECTED"
      <3>1. ex[o].state # "rejected"
        BY <2>1, ActiveNotRejected DEF Listed
      <3> QED
        BY <3>1, <1>1 DEF OInv, LogRight, MsgFits
    <2>3. SentKey(o)' = SentKey(o)
      BY <1>1 DEF SentKey
    <2>4. Looked(o)' \subseteq Looked(o)
      BY <1>1, <2>2, <2>3 DEF Looked
    <2>5. \A y \in Looked(o)' \ {x} : y = Own(o) /\ objs'[y].status \notin Final
      BY <2>1, <2>4, <1>1 DEF Listed
    <2> QED
      BY <1>1, <1>3, <2>1, <2>5, KnownGrows, FilledStays, ListedStays
  <1>5. \A o \in Orders : Names(o) = Names(o)'
    BY <1>1 DEF Names, SentKey
  <1> QED
    BY <1>1, <1>4, <1>5, ListStays

(* A trade that fills an object on the list fills the order, and the other *)
(* object on_order may look at stays as it is.                             *)
LEMMA OnTradeListed ==
    ASSUME PInv, PInv', OInv, TradesFit, NamesRight, OpenRight, [Next]_vars, dead = "no", OnTrade
    PROVE  OpenRight'
  <1>1. /\ ~Found /\ got' = got + 1 /\ got + 1 \in 1..Len(log)
        /\ Trade.order \in Orders /\ Trade.status = "" /\ That \in Objects
        /\ UNCHANGED <<ex, log, sentIn, orders, openOrders>>
    BY TradeEffect DEF Found
  <1>2. /\ Trade.order \in Orders
        /\ That \in {Own(Trade.order), Traded(Trade.order), Reported(SentKey(Trade.order))}
    BY TradeEffect
  <1>3. SentKey(Trade.order) \in Keys /\ SentKey(Trade.order)[2] = Trade.order
    BY <1>1, ObjectNames DEF OInv, ObjectsRight, SentKey
  <1>4. UNCHANGED <<objs, cb>> \/ Fills
    BY TradeEffect DEF cache
  <1>5. ~Found'
    BY <1>1, <1>4 DEF Fills, Found
  <1>6. ASSUME NEW o \in Orders
        PROVE  EndHandled(o)' => EndHandled(o)
    <2>1. got \in Int
      BY DEF PInv, Shape
    <2>2. Handled = got /\ Handled' = got + 1
      BY <1>1, <1>5 DEF Handled
    <2>3. log'[got + 1].status \notin Final
      BY <1>1 DEF Trade, Final
    <2>4. \A i \in 1..Handled' : i <= got \/ i = got + 1
      BY <2>1, <2>2
    <2> QED
      BY <2>1, <2>2, <2>3, <2>4, NoNewEnd
  <1>7. \A o \in Orders : Names(o) = Names(o)' /\ SentKey(o)' = SentKey(o)
    BY <1>1 DEF Names, SentKey
  <1>8. ASSUME NEW o \in Orders
        PROVE  Looked(o)' = {orders[SentKey(o)]}
    BY <1>1, <1>5, <1>7 DEF Looked
  <1>9. CASE UNCHANGED <<objs, cb>>
    <2>1. ASSUME NEW o \in Orders, NEW x \in openOrders \cap Names(o)
          PROVE  Listed(o, x)'
      <3>1. Listed(o, x)
        BY <2>1 DEF OpenRight
      <3>2. Looked(o)' \subseteq Looked(o)
        BY <1>8 DEF Looked
      <3>3. \A y \in Looked(o)' \ {x} : y = Own(o) /\ objs'[y].status \notin Final
        BY <3>1, <3>2, <1>9 DEF Listed
      <3> QED
        BY <1>6, <1>9, <3>1, <3>3, KnownGrows, FilledStays, ListedStays
    <2> QED
      BY <1>1, <1>7, <2>1, ListStays
  <1>10. CASE Fills
    <2>1. ASSUME NEW o \in Orders, NEW x \in openOrders \cap Names(o)
          PROVE  Listed(o, x)'
      <3>1. Listed(o, x) /\ x \in Objects /\ x # NoObject /\ Own(o) \in Objects
        BY <2>1, NamesApart, ObjectNames DEF OpenRight
      <3>2. \A y \in Looked(o)' \ {x} : y = Own(o) /\ objs'[y].status \notin Final
        <4>1. ASSUME NEW y \in Looked(o)', y # x
              PROVE  y = Own(o) /\ objs'[y].status \notin Final
          <5>1. y \in Looked(o)
            BY <1>8, <4>1 DEF Looked
          <5>2. y = Own(o) /\ objs[y].status \notin Final
            BY <3>1, <4>1, <5>1 DEF Listed
          <5>3. x = Reported(SentKey(o)) /\ sysOrders[o] = x
            BY <2>1, <4>1, <5>2 DEF Names, NamesRight
          <5>4. y # That
            <6>1. CASE o = Trade.order
              BY <6>1, <5>3, <4>1, <3>1 DEF That
            <6>2. CASE o # Trade.order
              BY <6>2, <5>2, <1>2, <1>3, ObjectNames
            <6> QED
              BY <6>1, <6>2
          <5> QED
            BY <5>2, <5>4, <3>1, <1>10 DEF Fills
        <4> QED
          BY <4>1
      <3>3. CASE x # That
        <4>1. objs'[x] = objs[x]
          BY <3>1, <3>3, <1>10 DEF Fills
        <4> QED
          BY <1>6, <3>1, <3>2, <4>1, KnownGrows, FilledStays, ListedStays
      <3>4. CASE x = That
        <4>1. x # Traded(Trade.order)
          <5>1. x \in Names(o)
            BY <2>1
          <5> QED
            BY <5>1, <1>2, NamesApart
        <4>2. x \in {Own(Trade.order), Reported(SentKey(Trade.order))}
          BY <4>1, <3>4, <1>2
        <4>3. o = Trade.order
          <5>1. x \in Names(o)
            BY <2>1
          <5> QED
            BY <5>1, <4>2, <1>2, <1>3, NamesApart
        <4>4. Then = objs[x]
          BY <4>1, <3>4 DEF Then, That
        <4>5. /\ objs'[x].filled = objs[x].filled
              /\ objs'[x].status \in {"FILLED", objs[x].status}
              /\ objs'[x].status # objs[x].status => objs[x].tradeFilled + Trade.last = objs[x].quantity
          BY <1>10, <3>4, <4>4 DEF Fills
        <4>6. objs'[x].status # objs[x].status => ex[o].state = "filled"
          <5>1. SUFFICES ASSUME objs[x].tradeFilled + Trade.last = objs[x].quantity
                         PROVE  ex[o].state = "filled"
            BY <4>5
          <5>2. objs[x].quantity = Quantity /\ objs[x].tradeFilled <= position[o]
            BY <2>1 DEF Names, TradesFit, SentKey, OInv, ObjectsRight
          <5>3. /\ Trade.last \in Int /\ position[o] \in Int /\ ex[o].filled \in Int
                /\ position[o] + Trade.last <= ex[o].filled
            BY <1>10, <4>3, FillsFit
          <5>4. ex[o].filled <= Quantity /\ (ex[o].filled = Quantity => ex[o].state = "filled")
            BY DEF OInv, LogRight
          <5>5. objs[x].tradeFilled \in Int /\ Quantity \in Int
            <6>1. objs[x] \in ObjRecs
              BY <3>1 DEF OInv, ObjectsRight
            <6>2. objs[x].tradeFilled \in Int
              BY <6>1 DEF ObjRecs
            <6> QED
              BY <6>2, ConstAssumption
          <5>6. ex[o].filled = Quantity
            <6> HIDE <4>5
            <6> QED
              BY <5>1, <5>2, <5>3, <5>4, <5>5
          <5> QED
            BY <5>4, <5>6
        <4>7. /\ \E m \in Known(o)' : m.status = "ACTIVE"
              /\ EndHandled(o)' => objs'[x].filled = Quantity
          BY <3>1, <1>6, <4>5, KnownGrows DEF Listed
        <4>8. /\ objs'[x].status \in {"ACTIVE", "PENDING_CANCEL", "FILLED"}
              /\ objs'[x].status = "FILLED" => ex'[o].state = "filled"
          BY <3>1, <4>5, <4>6, <1>1 DEF Listed
        <4> QED
          BY <3>2, <4>7, <4>8 DEF Listed
      <3> QED
        BY <3>3, <3>4
    <2> QED
      BY <1>1, <1>7, <2>1, ListStays
  <1> QED
    BY <1>4, <1>9, <1>10

(* What on_order does to the other orders in the list: nothing.            *)
LEMMA ProcessOthers ==
    ASSUME PInv, PInv', OInv, OpenRight, [Next]_vars, ProcessOrder,
           NEW o \in Orders, NEW x \in openOrders \cap Names(o), o # Msg.order
    PROVE  Listed(o, x)'
  <1>1. /\ Found /\ ~Found' /\ UNCHANGED <<got, log, sentIn>>
        /\ \A y \in Objects : y # It => objs'[y] = objs[y]
        /\ \A k \in Keys : k # KeyOf(Msg) => orders'[k] = orders[k]
    BY ProcessEffect DEF Found
  <1>2. /\ Msg.order \in Orders /\ KeyOf(Msg) \in Keys /\ KeyOf(Msg)[2] = Msg.order
        /\ It \in {Own(Msg.order), Reported(KeyOf(Msg))}
    BY ProcessEffect, MsgOfOrder
  <1>3. x \in Names(o) /\ x \in Objects /\ x # It
    <2>1. x \in Names(o) /\ x \in openOrders
      OBVIOUS
    <2> QED
      BY <2>1, <1>2, NamesApart
  <1>4. Own(o) \in Objects /\ Own(o) # It /\ SentKey(o) \in Keys /\ SentKey(o) # KeyOf(Msg)
    <2>1. SentKey(o) \in Keys /\ SentKey(o)[2] = o
      BY ObjectNames DEF OInv, ObjectsRight, SentKey
    <2> QED
      BY <2>1, <1>2, ObjectNames
  <1>5. Listed(o, x)
    BY <1>3 DEF OpenRight
  <1>6. Looked(o)' \subseteq Looked(o)
    BY <1>1, <1>4 DEF Looked, SentKey
  <1>7. \A y \in Looked(o)' \ {x} : y = Own(o) /\ objs'[y].status \notin Final
    BY <1>1, <1>4, <1>5, <1>6 DEF Listed
  <1>8. EndHandled(o)' => EndHandled(o)
    <2>1. got \in Int
      BY DEF PInv, Shape
    <2>2. Handled = got - 1 /\ Handled' = got
      BY <1>1 DEF Handled
    <2>3. log'[got].order # o
      BY <1>1 DEF Msg
    <2>4. got - 1 \in Int /\ got - 1 <= Handled /\ \A i \in 1..Handled' : i <= got - 1 \/ i = got
      BY <2>1, <2>2
    <2> QED
      BY <2>3, <2>4, NoNewEnd
  <1> QED
    BY <1>1, <1>3, <1>5, <1>7, <1>8, KnownGrows, FilledStays, ListedStays

(* Of an order of which another message comes no end was handled.          *)
LEMMA NoEndYet ==
    ASSUME PInv, OInv, Found, ~Found', UNCHANGED <<got, log>>, NEW o \in Orders, o = Msg.order,
           Msg.status \notin Final
    PROVE  ~EndHandled(o)'
  <1>1. ASSUME NEW i \in 1..Handled', log'[i].order = o, log'[i].status \in Final
        PROVE  FALSE
    <2>1. got \in 1..Len(log) /\ Msg.kind = "order"
      BY DEF OInv, CallbackRight
    <2>2. got \in Int /\ Handled' = got
      BY DEF Handled, PInv, Shape
    <2>3. log[i].order = o /\ log[i].status \in Final /\ i # got
      BY <1>1 DEF Msg
    <2>4. i \in 1..Len(log) /\ i < got
      BY <2>1, <2>2, <2>3
    <2> QED
      BY <2>1, <2>3, <2>4 DEF OInv, LogRight, Msg
  <1> QED
    BY <1>1 DEF EndHandled

(* What an order's message does to an object of it that stays in the list. *)
LEMMA ProcessThis ==
    ASSUME PInv, PInv', OInv, NamesRight, OpenRight, [Next]_vars, ProcessOrder,
           NEW o \in Orders, NEW x \in openOrders \cap Names(o), o = Msg.order, x \in openOrders'
    PROVE  Listed(o, x)'
  <1>1. /\ Found /\ ~Found' /\ UNCHANGED <<ex, got, log, sentIn>>
        /\ \A y \in Objects : y # It => objs'[y] = objs[y]
        /\ \A k \in Keys : k # KeyOf(Msg) => orders'[k] = orders[k]
        /\ orders'[KeyOf(Msg)] = IF cb.object = NoObject THEN It ELSE orders[KeyOf(Msg)]
    BY ProcessEffect DEF Found
  <1>2. Listed(o, x) /\ x \in Names(o) /\ x \in openOrders
    BY DEF OpenRight
  <1>3. x \in Objects /\ x # NoObject /\ SentKey(o) \in Keys
    BY <1>2, NamesApart
  <1>4. ex[o].state # "rejected" /\ MsgFits(Msg, ex[o].state)
    BY <1>1, <1>2, ActiveNotRejected, MsgOfOrder DEF Listed
  <1>5. Msg.kind = "order" /\ got \in 1..Len(log) /\ Msg.status # "REJECTED" /\ KeyOf(Msg) = SentKey(o)
    BY <1>1, <1>4, MsgOfOrder DEF MsgFits
  <1>6. Msg.status \in {"ACTIVE", "FILLED", "CANCELLED"}
    BY <1>4, <1>5 DEF MsgFits
  <1>7. cb.object \in Looked(o) /\ cb.object # NoObject
    <2>1. cb.object \in Looked(o)
      BY <1>1 DEF Looked
    <2> QED
      BY <2>1, <1>2, <1>3, ObjectNames DEF Listed
  <1>8. It = cb.object /\ Was = objs[It] /\ It \in Objects
    BY <1>7, ProcessEffect
  <1>9. Looked(o)' \subseteq Looked(o) /\ \A y \in Looked(o)' : y # x => y = Own(o) /\ objs[y].status \notin Final
    <2>1. Looked(o)' = {orders'[SentKey(o)]}
      BY <1>1 DEF Looked, SentKey
    <2>2. Looked(o)' \subseteq Looked(o)
      BY <2>1, <1>1, <1>5, <1>7 DEF Looked
    <2> QED
      BY <2>2, <1>2 DEF Listed
  <1>10. OrderKey(x) = OrderKey(It)
    <2>1. It = Own(o) \/ It = x
      BY <1>2, <1>7, <1>8 DEF Listed
    <2>2. \A y \in Names(o) : OrderKey(y) = SentKey(o)
      BY DEF Names, OrderKey, Own, Reported, SentKey
    <2> QED
      BY <2>1, <2>2, <1>2 DEF Names
  <1>11. Event(Was.status, Msg.status) = "none"
    <2>1. openOrders' = IF Event(Was.status, Msg.status) # "none" THEN Removed(It)
                        ELSE IF Was.status = "PENDING_NEW" THEN Added(It) ELSE openOrders
      BY ProcessEffect
    <2> QED
      BY <2>1, <1>10 DEF Removed
  <1>12. Msg.status \notin Final => ~EndHandled(o)'
    BY <1>1, NoEndYet
  <1>13. /\ objs'[It].status = NextStatus(Was.status, Msg.status)
         /\ objs'[It].filled = Msg.lots
    BY ProcessEffect
  <1>14. \E m \in Known(o)' : m.status = "ACTIVE"
    BY <1>2, KnownGrows DEF Listed
  <1>15. CASE It = x
    <2>1. objs[x].status \in {"ACTIVE", "PENDING_CANCEL", "FILLED"}
      BY <1>2 DEF Listed
    <2>2. objs'[x].status = objs[x].status
      BY <2>1, <1>8, <1>11, <1>13, <1>15, EventNone, <1>6
    <2>3. Msg.status \in {"ACTIVE", "FILLED"}
      <3>1. CASE objs[x].status = "FILLED"
        BY <3>1, <1>2, <1>4, <1>6 DEF Listed, MsgFits
      <3>2. CASE objs[x].status \in {"ACTIVE", "PENDING_CANCEL"}
        BY <3>2, <1>6, <1>8, <1>11, <1>15, EventNone
      <3> QED
        BY <2>1, <3>1, <3>2
    <2>4. EndHandled(o)' => objs'[x].filled = Quantity
      BY <2>3, <1>4, <1>12, <1>13, <1>15 DEF MsgFits, Final
    <2>5. \A y \in Looked(o)' \ {x} : y = Own(o) /\ objs'[y].status \notin Final
      <3>1. Own(o) \in Objects
        BY ObjectNames
      <3> QED
        BY <3>1, <1>1, <1>9, <1>15
    <2>6. objs'[x].status = "FILLED" => ex'[o].state = "filled"
      BY <2>2, <1>1, <1>2 DEF Listed
    <2> QED
      BY <2>1, <2>2, <2>4, <2>5, <2>6, <1>14 DEF Listed
  <1>16. CASE It # x
    <2>1. It = Own(o) /\ objs[It].status \notin Final /\ objs[It].status \in Status
      <3>1. It = Own(o) /\ objs[It].status \notin Final
        BY <1>2, <1>7, <1>8, <1>16 DEF Listed
      <3>2. objs[It] \in ObjRecs
        BY <1>8 DEF OInv, ObjectsRight
      <3> QED
        BY <3>1, <3>2 DEF ObjRecs
    <2>2. objs[It].status \in {"PENDING_NEW", "ACTIVE", "PENDING_CANCEL"}
      BY <2>1 DEF Status, Final
    <2>3. /\ Msg.status = "ACTIVE"
          /\ objs'[It].status = IF objs[It].status = "PENDING_NEW" THEN "ACTIVE" ELSE objs[It].status
      BY <2>2, <1>6, <1>8, <1>11, <1>13, EventNone
    <2>4. ~EndHandled(o)' /\ objs'[It].status \notin Final
      BY <2>1, <2>3, <1>12 DEF Final
    <2>5. objs'[x] = objs[x]
      BY <1>1, <1>3, <1>16
    <2>6. \A y \in Looked(o)' \ {x} : y = Own(o) /\ objs'[y].status \notin Final
      BY <1>9, <2>1, <2>4
    <2> QED
      BY <2>4, <2>5, <2>6, <1>1, <1>2, <1>14 DEF Listed
  <1> QED
    BY <1>15, <1>16

(* The object that gets into the list is the only one to be found.         *)
LEMMA ProcessAdds ==
    ASSUME PInv, PInv', OInv, NamesRight, [Next]_vars, ProcessOrder,
           NEW x \in openOrders', x \notin openOrders
    PROVE  \E o \in Orders : o = Msg.order /\ x \in Names(o) /\ Listed(o, x)'
  <1>1. /\ Found /\ ~Found' /\ UNCHANGED <<got, log, sentIn, peak>>
        /\ orders'[KeyOf(Msg)] = IF cb.object = NoObject THEN It ELSE orders[KeyOf(Msg)]
        /\ It \in {Own(Msg.order), Reported(KeyOf(Msg))}
        /\ cb.object # NoObject => It = cb.object /\ Was = objs[It]
        /\ objs'[It].status = NextStatus(Was.status, Msg.status)
    BY ProcessEffect DEF Found
  <1>2. x = It /\ Event(Was.status, Msg.status) = "none" /\ Was.status = "PENDING_NEW"
    <2>1. openOrders' = IF Event(Was.status, Msg.status) # "none" THEN Removed(It)
                        ELSE IF Was.status = "PENDING_NEW" THEN Added(It) ELSE openOrders
      BY ProcessEffect
    <2> QED
      BY <2>1 DEF Removed, Added
  <1>3. /\ Msg.order \in Orders /\ Msg.status \in {"ACTIVE", "FILLED", "CANCELLED", "REJECTED"}
        /\ Msg.status # "REJECTED" => KeyOf(Msg) = SentKey(Msg.order)
        /\ got \in 1..Len(log)
    BY <1>1, MsgOfOrder
  <1>4. Msg.status = "ACTIVE" /\ objs'[It].status = "ACTIVE"
    BY <1>1, <1>2, <1>3, EventNone
  <1>5. KeyOf(Msg) = SentKey(Msg.order)
    BY <1>3, <1>4
  <1>6. PICK o \in Orders : o = Msg.order
    BY <1>3
  <1>7. x \in Names(o)
    BY <1>1, <1>2, <1>5, <1>6 DEF Names
  <1>8. orders'[KeyOf(Msg)] = It
    <2>1. CASE cb.object # NoObject
      <3>1. cb.object = It /\ objs[cb.object].status = "PENDING_NEW"
        BY <2>1, <1>1, <1>2
      <3>2. It # Reported(KeyOf(Msg))
        BY <3>1, <1>1 DEF NamesRight
      <3> QED
        BY <2>1, <3>1, <3>2, <1>1 DEF NamesRight
    <2> QED
      BY <2>1, <1>1
  <1>9. Looked(o)' = {It}
    BY <1>1, <1>5, <1>6, <1>8 DEF Looked, SentKey
  <1>10. ~EndHandled(o)'
    BY <1>1, <1>4, <1>6, NoEndYet DEF Final
  <1>11. Msg \in Known(o)'
    <2>1. got \in 1..peak
      BY <1>3 DEF PInv, Shape
    <2> QED
      BY <2>1, <1>1, <1>6 DEF Known, Msg
  <1>12. Listed(o, x)'
    <2>1. \E m \in Known(o)' : m.status = "ACTIVE"
      BY <1>4, <1>11
    <2> QED
      BY <2>1, <1>2, <1>4, <1>9, <1>10 DEF Listed
  <1> QED
    BY <1>6, <1>7, <1>12

(* The handler of an order's message keeps the list right.                 *)
LEMMA ProcessListed ==
    ASSUME PInv, PInv', OInv, NamesRight, OpenRight, [Next]_vars, ProcessOrder
    PROVE  OpenRight'
  <1>1. \A o \in Orders : Names(o)' = Names(o)
    BY ProcessEffect DEF Names, SentKey
  <1>2. ASSUME NEW x \in openOrders', x \notin openOrders
        PROVE  \E o \in Orders : x \in Names(o)
    BY <1>2, ProcessAdds
  <1>3. ASSUME NEW o \in Orders, NEW x \in openOrders' \cap Names(o)
        PROVE  Listed(o, x)'
    <2>1. CASE x \notin openOrders
      <3>1. PICK p \in Orders : x \in Names(p) /\ Listed(p, x)'
        BY <2>1, <1>3, ProcessAdds
      <3>2. p = o
        BY <3>1, <1>3, NamesApart
      <3> QED
        BY <3>1, <3>2
    <2>2. CASE x \in openOrders /\ o = Msg.order
      BY <2>2, <1>3, ProcessThis
    <2>3. CASE x \in openOrders /\ o # Msg.order
      BY <2>3, <1>3, ProcessOthers
    <2> QED
      BY <2>1, <2>2, <2>3
  <1> QED
    BY <1>1, <1>2, <1>3 DEF OpenRight

(* Every step keeps the list right.                                        *)
LEMMA NextOpenRight ==
    ASSUME PInv, PInv', OInv, OInv', TradesFit, NamesRight, OpenRight, [Next]_vars
    PROVE  OpenRight'
  <1>1. got \in Int /\ got' \in Int /\ (got = 0 \/ got > 0)
    BY DEF PInv, Shape
  <1>2. ASSUME NEW o \in Orders, ExchangeStep(o)
        PROVE  OpenRight'
    BY <1>2, ListAlone, QuietSteps, ExchangeLog DEF Quiet, OInv, Grows, cache
  <1>3. ASSUME NEW o \in Orders, Publish(o) \/ Freeze(o) \/ TearMap(o) \/ CancelOrder(o)
        PROVE  OpenRight'
    <2>1. UNCHANGED openOrders
      BY <1>3 DEF Publish, Freeze, TearMap, CancelOrder, cache
    <2> QED
      BY <2>1, <1>3, ListAlone, QuietSteps DEF Quiet
  <1>4. CASE OnTrade
    <2>1. dead = "no" \/ UNCHANGED vars
      BY DEF Next
    <2>2. CASE UNCHANGED vars
      BY <2>2, ListAlone DEF vars
    <2> QED
      BY <2>1, <2>2, <1>4, OnTradeListed
  <1>5. CASE Unfreeze
    <2>1. ~Found /\ ~Found' /\ UNCHANGED <<got, objs, orders, openOrders, sentIn>>
      BY <1>5 DEF Unfreeze, IdleCallback, Found, stream, submit, cache
    <2> QED
      BY <2>1, <1>1, ListAlone
  <1>6. CASE Relogin
    <2>1. ~Found /\ ~Found' /\ got' \in {0, got} /\ UNCHANGED <<objs, orders, openOrders, sentIn>>
      BY <1>6 DEF Relogin, Found, submit, cache
    <2>2. got \in Nat
      BY DEF PInv, Shape
    <2> QED
      BY <2>1, <2>2, <1>1, ListAlone
  <1>7. CASE UNCHANGED vars
    BY <1>7, ListAlone DEF vars
  <1> QED
    BY <1>2, <1>3, <1>4, <1>5, <1>6, <1>7, SubmitListed, PendingListed, OnOrderListed, ProcessListed
       DEF Next, StrategyStep, CallbackStep

(* The list is empty at first.                                             *)
LEMMA InitList == Init => TradesFit /\ NamesRight /\ OpenRight
  <1> SUFFICES ASSUME Init PROVE TradesFit /\ NamesRight /\ OpenRight
    OBVIOUS
  <1>1. /\ sub = [o \in Orders |-> "idle"] /\ openOrders = {}
        /\ objs = [x \in Objects |-> NewObject(Quantity)]
        /\ orders = [k \in Keys |-> NoObject] /\ sysOrders = [o \in Orders |-> NoObject]
        /\ position = [o \in Orders |-> 0] /\ cb.at = "idle"
    BY DEF Init, IdleCallback
  <1>2. \A x \in Objects : objs[x].status = "PENDING_NEW" /\ objs[x].tradeFilled = 0 /\ objs[x].quantity = Quantity
    BY <1>1, NewRecs, ConstAssumption
  <1>3. TradesFit
    BY <1>1, <1>2, ObjectNames DEF TradesFit
  <1>4. NamesRight
    BY <1>1, <1>2, ObjectNames DEF NamesRight, Found
  <1>5. OpenRight
    BY <1>1 DEF OpenRight
  <1> QED
    BY <1>3, <1>4, <1>5

FInv == PInv /\ OInv /\ TradesFit /\ NamesRight /\ OpenRight

(* When every announcement has been handled, an end that came was handled. *)
LEMMA FInvCounts == FInv => OpenOrdersCountRight
  <1> SUFFICES ASSUME FInv, CaughtUp, NEW x \in openOrders, Over(x[3])
               PROVE  objs[x].filled = objs[x].quantity
    BY DEF OpenOrdersCountRight
  <1>1. PICK o \in Orders : x \in Names(o)
    BY DEF FInv, OpenRight
  <1>2. x[3] = o
    BY <1>1, NamesApart DEF FInv
  <1>3. Listed(o, x)
    BY <1>1 DEF FInv, OpenRight
  <1>4. EndHandled(o)
    <2>1. Handled = peak
      BY DEF CaughtUp, Handled, Found
    <2> QED
      BY <2>1, <1>2 DEF Over, Known, EndHandled
  <1>5. objs[x].quantity = Quantity
    BY <1>1 DEF FInv, TradesFit, Names, SentKey, OInv, ObjectsRight
  <1> QED
    BY <1>3, <1>4, <1>5 DEF Listed

(* What is left in open_orders_ of orders that are over counts for nothing *)
(* where the position sums up the open orders, although remove_open_order  *)
(* is called for one object of an order and cache_open_order for another   *)
(* (trade_gateway.cpp, on_order; future_position.h:96-133).                *)
THEOREM OpenCounts == Spec => []OpenOrdersCountRight
  <1>1. Init => FInv
    BY InitPInv, InitOInv, InitList DEF FInv
  <1>2. FInv /\ [Next]_vars => FInv'
    BY NextPInv, NextOInv, NextTradesFit, NextNamesRight, NextOpenRight DEF FInv
  <1> QED
    BY <1>1, <1>2, FInvCounts, PTL DEF Spec
-----------------------------------------------------------------------------
(* The objects that may stand for o, its end, and what is still frozen for *)
(* it: the lots neither traded nor, once its end is handled, given up.  If *)
(* the stream begins anew the end is handled when the object has it.       *)
Made(o) == {Own(o)} \cup {Reported(<<s, o>>) : s \in Sessions}

Ended(o) == IF Restart THEN objs[Own(o)].status \in Final ELSE EndHandled(o)

Share(o) == IF sub[o] \in {"idle", "adding"} THEN 0
            ELSE Quantity - position[o] - (IF Ended(o) THEN Quantity - ex[o].filled ELSE 0)
Shares   == [o \in Orders |-> Share(o)]
Total    == SumFunctionOnSet(Shares, Orders)

(* What the callback thread is about to take off frozen_cash_.             *)
Debt == IF cb.at = "freeing" THEN cb.release ELSE 0

CashTypes ==
    frozen \in Int /\ loaded \in [Orders -> Int] /\ cb.load \in Int /\ cb.release \in Int

(* The end of an order and its message agree on what was filled.           *)
EndRight ==
    /\ \A o \in Orders : ex[o].state = "filled" => ex[o].filled = Quantity
    /\ \A i \in 1..Len(log) :
          log[i].status \in {"CANCELLED", "REJECTED"} => log[i].lots = ex[log[i].order].filled
    /\ \A o \in Orders : ex[o].state = "cancelled" =>
          \E i \in 1..Len(log) : log[i].order = o /\ log[i].status = "CANCELLED"

Heard(o) == \E i \in 1..Handled : log[i].order = o

(* An object that is over has the end the exchange gave the order; if the  *)
(* stream goes on, from a message that was handled.                        *)
StatusFits(o, x) ==
    /\ objs[x].status = "FILLED" => ex[o].state = "filled"
    /\ objs[x].status = "CANCELLED" => ex[o].state = "cancelled"
    /\ objs[x].status = "REJECTED" => ex[o].state = "rejected"
    /\ ~Restart /\ objs[x].status \in {"CANCELLED", "REJECTED"} => EndHandled(o)
    /\ ~Restart /\ objs[x].status # "PENDING_NEW" => cancel[o] # NoObject \/ Heard(o)
StatusRight == \A o \in Orders : \A x \in Made(o) : StatusFits(o, x)

(* on_order works on the strategy's own object, unless the order is early. *)
OwnWorked ==
    Found /\ Msg.order \notin early /\ Msg.status # "REJECTED" => cb.object = Own(Msg.order)

(* If the stream begins anew, an end that is handled is noted.             *)
EndNoted ==
    Restart => \A o \in Orders : Regular(o) /\ EndHandled(o) => objs[Own(o)].status \in Final

(* Where the cash is right.                                                *)
Fair == ~raced /\ dead = "no" /\ \A o \in Orders : Regular(o)

(* One thread at a time updates frozen_cash_, from what it is.             *)
Alone ==
    /\ \A o \in Orders : sub[o] = "adding" =>
          /\ loaded[o] = frozen /\ cb.at # "freeing"
          /\ \A p \in Orders : sub[p] = "adding" => p = o
    /\ cb.at = "freeing" => cb.load = frozen

CashRight == Fair => Alone /\ frozen - Debt = Total

-----------------------------------------------------------------------------
(* What submit_order and on_trade release or load.                         *)
LEMMA CallbackAt ==
    /\ IdleCallback.at = "idle" /\ IdleCallback.load = 0 /\ IdleCallback.release = 0
    /\ \A c, lots : LET r == [IdleCallback EXCEPT !.at = "freeing", !.load = c, !.release = lots]
                   IN  r.at = "freeing" /\ r.load = c /\ r.release = lots
    /\ \A x : LET r == [IdleCallback EXCEPT !.at = "found", !.object = x]
              IN  r.at = "found" /\ r.load = 0 /\ r.release = 0
  <1>1. IdleCallback = [at |-> "idle", object |-> NoObject, load |-> 0, release |-> 0]
    BY DEF IdleCallback
  <1>2. ASSUME NEW c, NEW lots
        PROVE  LET r == [IdleCallback EXCEPT !.at = "freeing", !.load = c, !.release = lots]
               IN  r.at = "freeing" /\ r.load = c /\ r.release = lots
    <2> DEFINE a == [IdleCallback EXCEPT !.at = "freeing"]
               b == [a EXCEPT !.load = c]
               r == [IdleCallback EXCEPT !.at = "freeing", !.load = c, !.release = lots]
    <2>1. r = [b EXCEPT !.release = lots]
      BY Zenon
    <2>2. a = [at |-> "freeing", object |-> NoObject, load |-> 0, release |-> 0]
      BY <1>1
    <2> HIDE DEF a
    <2>3. b = [at |-> "freeing", object |-> NoObject, load |-> c, release |-> 0]
      BY <2>2
    <2> HIDE DEF b, r
    <2>4. r = [at |-> "freeing", object |-> NoObject, load |-> c, release |-> lots]
      BY <2>1, <2>3
    <2> QED
      BY <2>4 DEF r
  <1>3. ASSUME NEW x
        PROVE  LET r == [IdleCallback EXCEPT !.at = "found", !.object = x]
               IN  r.at = "found" /\ r.load = 0 /\ r.release = 0
    <2> DEFINE a == [IdleCallback EXCEPT !.at = "found"]
               r == [IdleCallback EXCEPT !.at = "found", !.object = x]
    <2>1. r = [a EXCEPT !.object = x]
      BY Zenon
    <2>2. a = [at |-> "found", object |-> NoObject, load |-> 0, release |-> 0]
      BY <1>1
    <2> HIDE DEF a, r
    <2>3. r = [at |-> "found", object |-> x, load |-> 0, release |-> 0]
      BY <2>1, <2>2
    <2> QED
      BY <2>3 DEF r
  <1> QED
    BY <1>1, <1>2, <1>3

(* The sum of Outstanding is one of SumFunctionOnSet.                      *)
LEMMA OutstandingSum ==
    MapThenSumSet(Outstanding, Orders)
        = SumFunctionOnSet([o \in Orders |-> Outstanding(o)], Orders)
  <1> DEFINE f == [o \in Orders |-> Outstanding(o)]
             D(g) == [s \in SUBSET Orders |-> IF s = {} THEN 0
                        ELSE LET x == CHOOSE x \in s : TRUE IN Outstanding(x) + g[s \ {x}]]
             Z == CHOOSE g : g = D(g)
  <1>1. MapThenSumSet(Outstanding, Orders) = Z[Orders]
    BY DEF MapThenSumSet, MapThenFoldSet
  <1>2. \A g : D(g) = [s \in SUBSET Orders |-> SumStep(g, f, s)]
    <2> TAKE g
    <2>1. ASSUME NEW s \in SUBSET Orders
          PROVE  (IF s = {} THEN 0
                    ELSE LET x == CHOOSE x \in s : TRUE IN Outstanding(x) + g[s \ {x}]) = SumStep(g, f, s)
      <3> DEFINE x == CHOOSE x \in s : TRUE
      <3>1. CASE s = {}
        BY <3>1 DEF SumStep
      <3>2. CASE s # {}
        <4>1. x \in s
          BY <3>2
        <4> HIDE DEF x
        <4>2. x \in Orders
          BY <4>1
        <4>3. f[x] = Outstanding(x)
          BY <4>2
        <4> HIDE DEF f
        <4> QED
          BY <3>2, <4>3 DEF SumStep, x
      <3> QED
        BY <3>1, <3>2
    <2> HIDE DEF f
    <2> QED
      BY <2>1
  <1> HIDE DEF D, f
  <1>3. Z = D(Z)
    <2>1. PICK it : SolvesSum(it, f, Orders)
      BY HasSolution, ConstAssumption
    <2>2. it = D(it)
      BY <1>2, <2>1 DEF SolvesSum
    <2> QED
      BY <2>2
  <1> HIDE DEF Z
  <1>4. SolvesSum(Z, f, Orders)
    BY <1>2, <1>3 DEF SolvesSum
  <1>5. SumFunctionOnSet(f, Orders) = Z[Orders]
    BY <1>4, SumSolves, ConstAssumption
  <1> QED
    BY <1>1, <1>5 DEF f

-----------------------------------------------------------------------------
(* What the log has at a place is a message of some order.                 *)
LEMMA MsgTyped ==
    ASSUME PInv, NEW i \in 1..Len(log)
    PROVE  log[i] \in Msgs /\ log[i].order \in Orders
  <1>1. log[i] \in Msgs
    BY ElementOfSeq DEF PInv, Shape
  <1> QED
    BY <1>1 DEF Msgs

(* What went wrong stays wrong.                                            *)
LEMMA RegularBack ==
    ASSUME PInv, PInv', OInv, [Next]_vars
    PROVE  /\ \A o \in Orders : Regular(o)' => Regular(o)
           /\ early \subseteq early'
           /\ Fair' => Fair
  <1>1. \A o \in Orders : /\ ex[o].state = "rejected" => ex'[o].state = "rejected"
                          /\ cancel[o] # NoObject => cancel'[o] # NoObject
    BY RejectedStays, OnlyMore
  <1>2. early \subseteq early' /\ (~raced' => ~raced) /\ (dead' = "no" => dead = "no")
    <2>1. ASSUME NEW p \in Orders, ExchangeStep(p) \/ StrategyStep(p)
          PROVE  early' = early /\ (~raced' => ~raced)
      <3>1. CASE ExchangeStep(p)
        <4>1. raced' = raced
          BY <3>1 DEF ExchangeStep, Park, FillAll, FillPart, ExchangeCancel, Reject, Announce
        <4>2. early' = early
          BY <3>1, QuietSteps DEF Quiet
        <4> QED
          BY <4>1, <4>2
      <3>2. CASE Publish(p)
        <4>1. raced' = (raced \/ Updating)
          BY <3>2, Zenon DEF Publish
        <4>2. early' = early
          BY <3>2 DEF Publish, stream
        <4> QED
          BY <4>1, <4>2
      <3>3. CASE Freeze(p) \/ CacheOrder(p) \/ TearMap(p) \/ \E accepted \in BOOLEAN : SendOrder(p, accepted)
        BY <3>3 DEF Freeze, CacheOrder, TearMap, SendOrder, stream
      <3>4. CASE CancelOrder(p) \/ SetPendingCancel(p)
        <4>1. UNCHANGED stream /\ raced' = raced
          <5>1. ASSUME CancelOrder(p) PROVE UNCHANGED stream /\ raced' = raced
            BY <5>1, Zenon DEF CancelOrder
          <5>2. ASSUME SetPendingCancel(p) PROVE UNCHANGED stream /\ raced' = raced
            BY <5>2, Zenon DEF SetPendingCancel
          <5> QED
            BY <3>4, <5>1, <5>2
        <4> QED
          BY <4>1 DEF stream
      <3> QED
        BY <2>1, <3>1, <3>2, <3>3, <3>4 DEF StrategyStep
    <2>2. OnOrder => early \subseteq early' /\ raced' = raced
      BY DEF OnOrder, Take
    <2>3. OnTrade => early \subseteq early' /\ (~raced' => ~raced)
      <3>1. OnTrade => Take /\ (raced' = raced \/ raced' = (raced \/ Updating))
        BY Zenon DEF OnTrade, Release
      <3> QED
        BY <3>1 DEF Take
    <2>4. ProcessOrder => early' = early /\ (~raced' => ~raced)
      BY DEF ProcessOrder, Release, stream
    <2>5. Unfreeze \/ Relogin \/ UNCHANGED vars => early' = early /\ raced' = raced
      BY DEF Unfreeze, Relogin, stream, vars
    <2>6. dead' = "no" => dead = "no"
      BY DEF Next, vars
    <2> QED
      BY <2>1, <2>2, <2>3, <2>4, <2>5, <2>6 DEF Next, CallbackStep
  <1>3. \A o \in Orders : Regular(o)' => Regular(o)
    BY <1>1, <1>2 DEF Regular
  <1> QED
    BY <1>2, <1>3 DEF Fair

-----------------------------------------------------------------------------
(* What a step of the exchange announces of an end.                        *)
LEMMA ExchangeEnd ==
    ASSUME PInv, NEW o \in Orders, ExchangeStep(o)
    PROVE  /\ ex'[o].state = "filled" => ex'[o].filled = Quantity
           /\ \A i \in 1..Len(log') : i > Len(log) => log'[i].order = o
           /\ \A i \in 1..Len(log') :
                 i > Len(log) /\ log'[i].status \in {"CANCELLED", "REJECTED"} => log'[i].lots = ex'[o].filled
           /\ ex'[o].state = "cancelled" =>
                 \E i \in 1..Len(log') : log'[i].order = o /\ log'[i].status = "CANCELLED"
  <1> DEFINE n == Len(log) + 1
  <1>1. log \in Seq(Msgs) /\ Len(log) \in Nat /\ ex[o].filled \in Int /\ Quantity \in Int
    BY LenProperties, ConstAssumption DEF PInv, Shape
  <1>3. ASSUME NEW s, NEW lots, NEW m \in Msgs, Announce(o, s, lots, <<m>>), m.order = o,
               m.status \in {"CANCELLED", "REJECTED"} => m.lots = lots,
               s = "cancelled" => m.status = "CANCELLED", s # "filled"
        PROVE  /\ ex'[o].state # "filled"
               /\ \A i \in 1..Len(log') : i > Len(log) => log'[i].order = o
               /\ \A i \in 1..Len(log') : i > Len(log) /\ log'[i].status \in {"CANCELLED", "REJECTED"}
                                             => log'[i].lots = ex'[o].filled
               /\ ex'[o].state = "cancelled" =>
                     \E i \in 1..Len(log') : log'[i].order = o /\ log'[i].status = "CANCELLED"
    <2>1. log' = log \o <<m>> /\ ex'[o].state = s /\ ex'[o].filled = lots
      BY <1>3 DEF Announce, PInv, Shape
    <2>2. Len(log') = n /\ log'[n] = m
      BY <2>1, <1>1, OneMore, AppendProps
    <2>3. \A i \in 1..Len(log') : i > Len(log) => i = n
      BY <2>2, <1>1
    <2>4. n \in 1..Len(log')
      BY <2>2, <1>1
    <2> QED
      BY <2>1, <2>2, <2>3, <2>4, <1>3
  <1>4. CASE Park(o)
    <2> DEFINE m == OrderMsg(o, "ACTIVE", ex[o].filled)
    <2>1. Announce(o, "live", ex[o].filled, <<m>>)
      BY <1>4 DEF Park
    <2>2. m \in Msgs /\ m.order = o /\ m.status = "ACTIVE"
      BY <1>1, OrderMsgs DEF OrderMsg, Status
    <2> HIDE DEF m
    <2> QED
      BY <2>1, <2>2, <1>3
  <1>5. CASE ExchangeCancel(o)
    <2> DEFINE m == OrderMsg(o, "CANCELLED", ex[o].filled)
    <2>1. Announce(o, "cancelled", ex[o].filled, <<m>>)
      BY <1>5 DEF ExchangeCancel
    <2>2. m \in Msgs /\ m.order = o /\ m.status = "CANCELLED" /\ m.lots = ex[o].filled
      BY <1>1, OrderMsgs DEF OrderMsg, Status
    <2> HIDE DEF m
    <2> QED
      BY <2>1, <2>2, <1>3
  <1>6. CASE Reject(o)
    <2> DEFINE m == OrderMsg(o, "REJECTED", 0)
    <2>1. Announce(o, "rejected", 0, <<m>>)
      BY <1>6 DEF Reject
    <2>2. m \in Msgs /\ m.order = o /\ m.status = "REJECTED" /\ m.lots = 0
      BY <1>1, OrderMsgs DEF OrderMsg, Status
    <2> HIDE DEF m
    <2> QED
      BY <2>1, <2>2, <1>3
  <1>7. ASSUME NEW last \in 1..Quantity, FillPart(o, last)
        PROVE  \E lots : \E m \in Msgs : /\ m.order = o /\ m.status = ""
                                         /\ Announce(o, "live", lots, <<m>>)
    <2> DEFINE lots == ex[o].filled + last
               m == TradeMsg(o, last, lots)
    <2>1. Announce(o, "live", lots, <<m>>) /\ lots \in Int /\ last \in Int
      BY <1>1, <1>7 DEF FillPart
    <2>2. m.status = ""
      BY DEF TradeMsg
    <2>3. m \in Msgs /\ m.order = o
      BY <2>1, TradeMsgs
    <2> HIDE DEF m, lots
    <2> QED
      BY <2>1, <2>2, <2>3
  <1>8. CASE FillAll(o)
    <2> DEFINE news  == OrderMsg(o, "FILLED", Quantity)
               trade == TradeMsg(o, Quantity - ex[o].filled, Quantity)
    <2>1. \/ Announce(o, "filled", Quantity, <<news, trade>>)
          \/ Announce(o, "filled", Quantity, <<trade, news>>)
      BY <1>8 DEF FillAll
    <2>2. news \in Msgs /\ news.order = o /\ news.status = "FILLED"
      BY <1>1, OrderMsgs DEF OrderMsg, Status
    <2>3. trade \in Msgs /\ trade.order = o /\ trade.status = ""
      <3>1. Quantity - ex[o].filled \in Int
        BY <1>1
      <3>2. trade.status = ""
        BY DEF TradeMsg
      <3>3. trade \in Msgs /\ trade.order = o
        BY <1>1, <3>1, TradeMsgs
      <3> QED
        BY <3>2, <3>3
    <2> HIDE DEF news, trade
    <2>4. ASSUME NEW a \in {news, trade}, NEW b \in {news, trade},
                 Announce(o, "filled", Quantity, <<a, b>>)
          PROVE  /\ ex'[o].state = "filled" /\ ex'[o].filled = Quantity
                 /\ \A i \in 1..Len(log') : i > Len(log) =>
                       log'[i].order = o /\ log'[i].status \notin {"CANCELLED", "REJECTED"}
      <3>1. log' = log \o <<a, b>> /\ ex'[o].state = "filled" /\ ex'[o].filled = Quantity
        BY <2>4 DEF Announce, PInv, Shape
      <3>2. a \in Msgs /\ b \in Msgs
        BY <2>2, <2>3
      <3>3. log' = Append(Append(log, a), b) /\ Append(log, a) \in Seq(Msgs)
        BY <3>1, <3>2, <1>1, TwoMore, AppendProps
      <3>4. Len(Append(log, a)) = n /\ Append(log, a)[n] = a
        BY <3>2, <1>1, AppendProps
      <3>5. /\ Len(log') = n + 1 /\ log'[n + 1] = b
            /\ \A i \in 1..n : log'[i] = Append(log, a)[i]
        BY <3>2, <3>3, <3>4, AppendProps
      <3>6. log'[n] = a
        BY <3>4, <3>5, <1>1
      <3>7. \A i \in 1..Len(log') : i > Len(log) => i = n \/ i = n + 1
        BY <3>5, <1>1
      <3> QED
        BY <3>1, <3>5, <3>6, <3>7, <2>2, <2>3
    <2> QED
      BY <2>1, <2>4
  <1> HIDE DEF n
  <1>9. ASSUME NEW last \in 1..Quantity, FillPart(o, last)
        PROVE  /\ ex'[o].state # "filled"
               /\ \A i \in 1..Len(log') : i > Len(log) => log'[i].order = o
               /\ \A i \in 1..Len(log') : i > Len(log) /\ log'[i].status \in {"CANCELLED", "REJECTED"}
                                             => log'[i].lots = ex'[o].filled
               /\ ex'[o].state = "cancelled" =>
                     \E i \in 1..Len(log') : log'[i].order = o /\ log'[i].status = "CANCELLED"
    BY <1>3, <1>7, <1>9
  <1> QED
    BY <1>4, <1>5, <1>6, <1>8, <1>9 DEF ExchangeStep

(* Every step keeps EndRight.                                              *)
LEMMA NextEndRight ==
    ASSUME PInv, PInv', OInv, EndRight, [Next]_vars
    PROVE  EndRight'
  <1>1. CASE UNCHANGED log /\ \A o \in Orders : ex'[o].filled = ex[o].filled /\
                                 (ex'[o].state = ex[o].state \/ ex'[o].state = "live")
    <2>1. \A i \in 1..Len(log) : log[i].order \in Orders
      BY MsgTyped
    <2> QED
      BY <1>1, <2>1 DEF EndRight
  <1>2. ASSUME NEW o \in Orders, ExchangeStep(o)
        PROVE  EndRight'
    <2>1. /\ ex[o].state = "live" /\ Len(log') >= Len(log)
          /\ \A i \in 1..Len(log) : log'[i] = log[i]
          /\ \A p \in Orders \ {o} : ex'[p] = ex[p]
          /\ Len(log) \in Nat /\ Len(log') \in Nat
      BY <1>2, ExchangeLog, OnlyMore DEF OInv, Grows
    <2>2. /\ ex'[o].state = "filled" => ex'[o].filled = Quantity
          /\ \A i \in 1..Len(log') : i > Len(log) => log'[i].order = o
          /\ \A i \in 1..Len(log') :
                i > Len(log) /\ log'[i].status \in {"CANCELLED", "REJECTED"} => log'[i].lots = ex'[o].filled
          /\ ex'[o].state = "cancelled" =>
                \E i \in 1..Len(log') : log'[i].order = o /\ log'[i].status = "CANCELLED"
      BY <1>2, ExchangeEnd
    <2>3. ASSUME NEW i \in 1..Len(log'), log'[i].status \in {"CANCELLED", "REJECTED"}
          PROVE  log'[i].lots = ex'[log'[i].order].filled
      <3>1. CASE i > Len(log)
        BY <2>2, <2>3, <3>1
      <3>2. CASE i \in 1..Len(log)
        <4>1. log[i] = log'[i] /\ log[i].order \in Orders
          BY <2>1, <3>2, MsgTyped
        <4>2. ex[log[i].order].state \in {"cancelled", "rejected"}
          BY <2>3, <3>2, <4>1 DEF OInv, LogRight, MsgFits
        <4>3. ex'[log[i].order] = ex[log[i].order]
          BY <4>1, <4>2, <2>1
        <4> QED
          BY <2>3, <3>2, <4>1, <4>3 DEF EndRight
      <3> QED
        BY <3>1, <3>2, <2>1
    <2>4. ASSUME NEW p \in Orders, ex'[p].state = "cancelled"
          PROVE  \E i \in 1..Len(log') : log'[i].order = p /\ log'[i].status = "CANCELLED"
      <3>1. CASE p # o
        <4>1. PICK i \in 1..Len(log) : log[i].order = p /\ log[i].status = "CANCELLED"
          BY <2>1, <2>4, <3>1 DEF EndRight
        <4>2. i \in 1..Len(log') /\ log'[i] = log[i]
          BY <2>1
        <4> QED
          BY <4>1, <4>2
      <3> QED
        BY <2>2, <2>4, <3>1
    <2>5. \A p \in Orders : ex'[p].state = "filled" => ex'[p].filled = Quantity
      BY <2>1, <2>2 DEF EndRight
    <2> QED
      BY <2>3, <2>4, <2>5 DEF EndRight
  <1>3. ASSUME NEW p \in Orders, NEW accepted \in BOOLEAN, SendOrder(p, accepted)
        PROVE  EndRight'
    <2>1. ex' = (IF accepted THEN [ex EXCEPT ![p].state = "live"] ELSE ex) /\ log' = log
      BY <1>3 DEF SendOrder
    <2>2. \A o \in Orders : ex'[o].filled = ex[o].filled /\
                                 (ex'[o].state = ex[o].state \/ ex'[o].state = "live")
      BY <2>1 DEF PInv, Shape
    <2> QED
      BY <1>1, <2>1, <2>2
  <1>4. ASSUME NEW p \in Orders, StrategyStep(p), ~ \E accepted \in BOOLEAN : SendOrder(p, accepted)
        PROVE  UNCHANGED <<ex, log>>
    BY <1>4, QuietSteps DEF StrategyStep, CacheOrder, SetPendingCancel, exchange
  <1>5. CallbackStep \/ Relogin \/ UNCHANGED vars => UNCHANGED <<ex, log>>
    BY DEF CallbackStep, OnOrder, ProcessOrder, OnTrade, Unfreeze, Relogin, exchange, vars
  <1> QED
    BY <1>1, <1>2, <1>3, <1>4, <1>5 DEF Next

-----------------------------------------------------------------------------
(* What on_order and on_trade are about to take off frozen_cash_.          *)
LEMMA ProcessCash ==
    ASSUME PInv, OInv, ProcessOrder
    PROVE  /\ Event(Was.status, Msg.status) = "none" => cb'.at = "idle" /\ cb'.load = 0 /\ cb'.release = 0
           /\ Event(Was.status, Msg.status) # "none" =>
                 /\ cb'.at = "freeing" /\ cb'.load = frozen /\ cb'.release = Was.quantity - Msg.lots
                 /\ raced' = (raced \/ Updating)
  <1>1. IF Event(Was.status, Msg.status) = "none" THEN cb' = IdleCallback
                                                  ELSE Release(Was.quantity - Msg.lots)
    BY DEF ProcessOrder, It, Was
  <1>2. CASE Event(Was.status, Msg.status) = "none"
    BY <1>1, <1>2, CallbackAt
  <1>3. CASE Event(Was.status, Msg.status) # "none"
    <2>1. /\ cb' = [IdleCallback EXCEPT !.at = "freeing", !.load = frozen, !.release = Was.quantity - Msg.lots]
          /\ raced' = (raced \/ Updating)
      BY <1>1, <1>3, Zenon DEF Release
    <2> QED
      BY <1>3, <2>1, CallbackAt
  <1> QED
    BY <1>2, <1>3

(* What _on_trade is about to release is what was frozen when it looked,   *)
(* and the lots of the trade.                                              *)
LEMMA TradeCash ==
    ASSUME OnTrade, cb'.at = "freeing"
    PROVE  cb'.load = frozen /\ cb'.release = Trade.last /\ raced' = (raced \/ Updating)
  <1>1. cb.at = "idle"
    BY DEF OnTrade, Take
  <1>2. cb' = cb \/ Release(Trade.last)
    BY Zenon DEF OnTrade, Trade
  <1>3. Release(Trade.last)
    BY <1>1, <1>2
  <1>4. /\ cb' = [IdleCallback EXCEPT !.at = "freeing", !.load = frozen, !.release = Trade.last]
        /\ raced' = (raced \/ Updating)
    BY <1>3, Zenon DEF Release
  <1> QED
    BY <1>4, CallbackAt

(* Every step keeps the types of what the cash is worked out from.         *)
LEMMA NextCashTypes ==
    ASSUME PInv, OInv, CashTypes, [Next]_vars
    PROVE  CashTypes'
  <1>1. Quantity \in Int
    BY ConstAssumption
  <1>2. ASSUME NEW o \in Orders, Publish(o) \/ Freeze(o)
        PROVE  CashTypes'
    BY <1>1, <1>2 DEF Publish, Freeze, CashTypes, account
  <1>3. ASSUME NEW o \in Orders, ExchangeStep(o) \/ StrategyStep(o), ~Publish(o), ~Freeze(o)
        PROVE  UNCHANGED <<frozen, loaded, cb>>
    BY <1>3 DEF ExchangeStep, Park, FillAll, FillPart, ExchangeCancel, Reject, Announce, StrategyStep,
                CacheOrder, TearMap, SendOrder, CancelOrder, SetPendingCancel, account, submit
  <1>4. CASE OnOrder
    <2>1. /\ cb' = [IdleCallback EXCEPT !.at = "found", !.object = orders[KeyOf(log[got + 1])]]
          /\ UNCHANGED <<frozen, loaded>>
      BY <1>4 DEF OnOrder, account, submit
    <2>2. cb'.load = 0 /\ cb'.release = 0
      BY <2>1, CallbackAt
    <2> QED
      BY <2>1, <2>2 DEF CashTypes
  <1>5. CASE ProcessOrder
    <2>1. Was.quantity \in Int /\ Msg.lots \in Int
      BY <1>5, ProcessEffect, MsgOfOrder DEF ObjRecs
    <2>2. UNCHANGED <<frozen, loaded>>
      BY <1>5 DEF ProcessOrder, account, submit
    <2> QED
      BY <1>5, <2>1, <2>2, ProcessCash DEF CashTypes
  <1>6. CASE OnTrade
    <2>1. UNCHANGED <<frozen, loaded>> /\ Trade.last \in Int
      <3>1. UNCHANGED <<frozen, loaded>>
        BY <1>6 DEF OnTrade, submit
      <3> QED
        BY <1>6, <3>1, TradeEffect DEF Msgs
    <2>2. cb' = cb \/ cb'.at = "freeing"
      BY <1>6, TradeEffect DEF Fills
    <2> QED
      BY <1>6, <2>1, <2>2, TradeCash DEF CashTypes
  <1>7. CASE Unfreeze
    <2>1. frozen' = cb.load - cb.release /\ cb' = IdleCallback /\ UNCHANGED loaded
      BY <1>7 DEF Unfreeze, submit
    <2> QED
      BY <2>1, CallbackAt DEF CashTypes
  <1>8. UNCHANGED <<frozen, loaded, cb>> => CashTypes'
    BY DEF CashTypes
  <1>9. Relogin \/ UNCHANGED vars => UNCHANGED <<frozen, loaded, cb>>
    BY DEF Relogin, vars, account, submit
  <1> QED
    BY <1>2, <1>3, <1>4, <1>5, <1>6, <1>7, <1>8, <1>9 DEF Next, CallbackStep

-----------------------------------------------------------------------------
(* What on_order works on is found once and kept.                          *)
LEMMA FoundKept ==
    ASSUME PInv, PInv', OInv, [Next]_vars, Found', ~OnOrder
    PROVE  Found /\ cb' = cb /\ Msg' = Msg /\ early' = early
  <1>1. ASSUME cb' = cb, got' = got, early' = early
        PROVE  Found /\ cb' = cb /\ Msg' = Msg /\ early' = early
    BY <1>1, OnlyMore DEF Found, Msg, OInv, CallbackRight
  <1>2. ASSUME NEW o \in Orders, ExchangeStep(o) \/ StrategyStep(o)
        PROVE  cb' = cb /\ got' = got /\ early' = early
    <2>1. CASE ExchangeStep(o)
      BY <2>1, QuietSteps DEF Quiet
    <2>2. CASE StrategyStep(o)
      BY <2>2, QuietSteps DEF Quiet, StrategyStep, CacheOrder, SendOrder, SetPendingCancel, stream
    <2> QED
      BY <1>2, <2>1, <2>2
  <1>3. ~ ProcessOrder
    BY ProcessEffect DEF Found
  <1>4. ~ OnTrade
    BY TradeEffect DEF Found, Fills
  <1>5. ~ Unfreeze
    BY CallbackAt DEF Unfreeze, Found
  <1>6. Relogin => cb.at = "idle" /\ cb' = cb
    BY DEF Relogin
  <1>7. UNCHANGED vars => cb' = cb /\ got' = got /\ early' = early
    BY DEF vars
  <1> QED
    BY <1>1, <1>2, <1>3, <1>4, <1>5, <1>6, <1>7 DEF Next, CallbackStep, Found

(* Every step keeps that the strategy's own objects are worked on.         *)
LEMMA NextOwnWorked ==
    ASSUME PInv, PInv', OInv, OwnFound, OwnWorked, [Next]_vars
    PROVE  OwnWorked'
  <1>1. CASE OnOrder
    <2> DEFINE o == Msg'.order
    <2>1. /\ Msg' = log[got + 1] /\ o \in Orders /\ Take
          /\ Msg'.status # "REJECTED" => KeyOf(Msg)' = SentKey(o)
          /\ cb'.object = orders[KeyOf(Msg)']
      BY <1>1, OnOrderObjects DEF OnOrder
    <2>2. o \notin early' => sub[o] = "done" /\ o \notin early
      BY <2>1 DEF Take
    <2>3. o \notin early' /\ Msg'.status # "REJECTED" => cb'.object = Own(o)
      BY <2>1, <2>2 DEF OwnFound
    <2> QED
      BY <2>3 DEF OwnWorked
  <1>2. CASE ~OnOrder /\ Found'
    <2>1. Found /\ cb' = cb /\ Msg' = Msg /\ early' = early
      BY <1>2, FoundKept
    <2> QED
      BY <2>1 DEF OwnWorked
  <1>3. CASE ~Found'
    BY <1>3 DEF OwnWorked
  <1> QED
    BY <1>1, <1>2, <1>3

-----------------------------------------------------------------------------
(* The objects that on_order works on for an order are no other order's,   *)
(* and no trade's.                                                         *)
LEMMA MadeApart ==
    ASSUME OInv, NEW o \in Orders, NEW x \in Made(o)
    PROVE  /\ x \in Objects /\ x # NoObject
           /\ \A p \in Orders : x # Traded(p) /\ (x = Own(p) => o = p)
           /\ \A k \in Keys : x = Reported(k) => k[2] = o
  <1>1. CASE x = Own(o)
    BY <1>1, ObjectNames
  <1>2. ASSUME NEW s \in Sessions, x = Reported(<<s, o>>)
        PROVE  /\ x \in Objects /\ x # NoObject
               /\ \A p \in Orders : x # Traded(p) /\ (x = Own(p) => o = p)
               /\ \A k \in Keys : x = Reported(k) => k[2] = o
    <2> DEFINE k == <<s, o>>
    <2>1. k \in Keys /\ k[2] = o /\ x = Reported(k)
      BY <1>2, ObjectNames
    <2> HIDE DEF k
    <2> QED
      BY <2>1, ObjectNames
  <1>3. x = Own(o) \/ \E s \in Sessions : x = Reported(<<s, o>>)
    BY DEF Made
  <1> QED
    BY <1>1, <1>2, <1>3

(* An object whose status is the same fits as before.                      *)
LEMMA StatusKept ==
    ASSUME PInv, PInv', OInv, OInv', [Next]_vars, NEW o \in Orders, NEW x \in Made(o),
           StatusFits(o, x), objs'[x].status = objs[x].status
    PROVE  StatusFits(o, x)'
  <1>1. /\ ex[o].state \in {"filled", "cancelled", "rejected"} => ex'[o] = ex[o]
        /\ cancel[o] # NoObject => cancel'[o] # NoObject
    BY OverStays, OnlyMore
  <1>2. ~Restart /\ EndHandled(o) => EndHandled(o)'
    BY HandledGrows
  <1>3. ~Restart /\ Heard(o) => Heard(o)'
    BY HandledMore DEF Heard
  <1> QED
    BY <1>1, <1>2, <1>3 DEF StatusFits

(* on_order leaves each object with a status that fits its order.          *)
LEMMA ProcessStatus ==
    ASSUME PInv, PInv', OInv, OInv', [Next]_vars, StatusRight, ProcessOrder,
           NEW o \in Orders, NEW x \in Made(o)
    PROVE  StatusFits(o, x)'
  <1>1. /\ It \in {Own(Msg.order), Reported(KeyOf(Msg))}
        /\ cb.object = NoObject => Was = NewObject(Quantity)
        /\ cb.object # NoObject => Was = objs[It]
        /\ objs'[It].status = NextStatus(Was.status, Msg.status)
        /\ \A y \in Objects : y # It => objs'[y] = objs[y]
        /\ UNCHANGED <<ex, log, got>> /\ Found /\ ~Found'
    BY ProcessEffect DEF Found
  <1>2. /\ Msg.order \in Orders /\ KeyOf(Msg) \in Keys /\ KeyOf(Msg)[2] = Msg.order
        /\ got \in 1..Len(log) /\ MsgFits(Msg, ex[Msg.order].state)
        /\ Msg.status \in {"ACTIVE", "FILLED", "CANCELLED", "REJECTED"}
    BY <1>1, MsgOfOrder
  <1>3. StatusFits(o, x) /\ x \in Objects
    BY MadeApart DEF StatusRight
  <1>4. CASE objs'[x].status = objs[x].status
    BY <1>3, <1>4, StatusKept
  <1>5. CASE objs'[x].status # objs[x].status
    <2>1. x = It
      BY <1>1, <1>3, <1>5
    <2>2. o = Msg.order
      BY <1>1, <1>2, <2>1, MadeApart
    <2>3. objs'[x].status = Msg.status
      <3>1. CASE cb.object = NoObject
        <4>1. Was.status = "PENDING_NEW"
          BY <1>1, <3>1, NewRecs, ConstAssumption
        <4> QED
          BY <1>1, <2>1, <4>1 DEF NextStatus
      <3>2. CASE cb.object # NoObject
        BY <1>1, <1>5, <2>1, <3>2 DEF NextStatus
      <3> QED
        BY <3>1, <3>2
    <2>4. /\ got \in 1..Handled' /\ log'[got].order = o /\ log'[got].status = Msg.status
      <3>1. Handled' = got
        BY <1>1 DEF Handled
      <3>2. got \in Nat /\ got >= 1
        BY <1>2 DEF PInv, Shape
      <3> QED
        BY <1>1, <2>2, <3>1, <3>2 DEF Msg
    <2>5. Heard(o)' /\ (Msg.status \in {"CANCELLED", "REJECTED"} => EndHandled(o)')
      BY <2>4 DEF Heard, EndHandled, Final
    <2>6. /\ Msg.status = "FILLED" => ex'[o].state = "filled"
          /\ Msg.status = "CANCELLED" => ex'[o].state = "cancelled"
          /\ Msg.status = "REJECTED" => ex'[o].state = "rejected"
      BY <1>1, <1>2, <2>2 DEF MsgFits
    <2> QED
      BY <2>3, <2>5, <2>6 DEF StatusFits
  <1> QED
    BY <1>4, <1>5

(* A trade that fills an object fills the order.                           *)
LEMMA FilledUp ==
    ASSUME PInv, OInv, TradesFit, dead = "no", OnTrade, Fills, NEW o \in Orders, NEW x \in Made(o),
           That = x, objs'[x].status # objs[x].status
    PROVE  /\ Trade.order = o /\ objs'[x].status = "FILLED"
           /\ ex[o].filled = Quantity /\ ex[o].state = "filled"
  <1>1. /\ Trade.order \in Orders
        /\ That \in {Own(Trade.order), Traded(Trade.order), Reported(SentKey(Trade.order))}
        /\ SentKey(Trade.order) \in Keys /\ SentKey(Trade.order)[2] = Trade.order
    <2>1. /\ Trade.order \in Orders
          /\ That \in {Own(Trade.order), Traded(Trade.order), Reported(SentKey(Trade.order))}
      BY TradeEffect
    <2> QED
      BY <2>1, ObjectNames DEF OInv, ObjectsRight, SentKey
  <1>2. Trade.order = o /\ That # Traded(o)
    BY <1>1, MadeApart
  <1>3. Then = objs[x]
    BY <1>2 DEF That, Then
  <1>4. /\ objs'[x].status = "FILLED" /\ objs[x].tradeFilled + Trade.last = objs[x].quantity
    BY <1>3 DEF Fills
  <1>5. objs[x].quantity = Quantity /\ objs[x].tradeFilled <= position[o] /\ objs[x].tradeFilled \in Int
    <2>1. objs[x] \in ObjRecs
      BY MadeApart DEF OInv, ObjectsRight
    <2>2. objs[x].quantity = Quantity /\ objs[x].tradeFilled <= position[o]
      <3>1. PICK s \in Sessions : x \in {Own(o), Reported(<<s, o>>)}
        BY ConstAssumption DEF Made, Sessions
      <3> QED
        BY <3>1 DEF TradesFit
    <2> QED
      BY <2>1, <2>2 DEF ObjRecs
  <1>6. /\ Trade.last \in Int /\ position[o] \in Int /\ position[o] + Trade.last <= ex[o].filled
        /\ ex[o].filled \in Int
    BY <1>2, FillsFit
  <1>7. ex[o].filled <= Quantity /\ (ex[o].filled = Quantity => ex[o].state = "filled")
    BY DEF OInv, LogRight
  <1>8. ex[o].filled = Quantity
    <2>1. Quantity \in Int
      BY ConstAssumption
    <2>2. objs[x].tradeFilled + Trade.last = Quantity
      BY <1>4, <1>5
    <2> QED
      BY <2>1, <2>2, <1>5, <1>6, <1>7
  <1> QED
    BY <1>2, <1>4, <1>7, <1>8

(* So does on_trade.                                                       *)
LEMMA TradeStatus ==
    ASSUME PInv, PInv', OInv, OInv', [Next]_vars, TradesFit, StatusRight, dead = "no", OnTrade,
           NEW o \in Orders, NEW x \in Made(o)
    PROVE  StatusFits(o, x)'
  <1>1. StatusFits(o, x) /\ x \in Objects
    BY MadeApart DEF StatusRight
  <1>2. CASE objs'[x].status = objs[x].status
    BY <1>1, <1>2, StatusKept
  <1>3. CASE objs'[x].status # objs[x].status
    <2>1. /\ Fills /\ got + 1 \in 1..Len(log) /\ got' = got + 1 /\ UNCHANGED <<ex, log>>
          /\ cb'.at = "freeing"
      BY <1>3, TradeEffect DEF Fills, cache
    <2>2. That = x
      BY <1>1, <1>3, <2>1 DEF Fills
    <2>3. /\ Trade.order = o /\ objs'[x].status = "FILLED" /\ ex[o].state = "filled"
      BY <1>3, <2>1, <2>2, FilledUp
    <2>4. Heard(o)'
      <3>1. Handled' = got + 1 /\ got \in Nat
        BY <2>1 DEF Handled, Found, PInv, Shape
      <3>2. got + 1 \in 1..Handled' /\ log'[got + 1].order = o
        BY <3>1, <2>1, <2>3 DEF Trade
      <3> QED
        BY <3>2 DEF Heard
    <2> QED
      BY <2>1, <2>3, <2>4 DEF StatusFits
  <1> QED
    BY <1>2, <1>3

(* Every step keeps the statuses fitting.                                  *)
LEMMA NextStatusRight ==
    ASSUME PInv, PInv', OInv, OInv', TradesFit, StatusRight, [Next]_vars
    PROVE  StatusRight'
  <1> SUFFICES ASSUME NEW o \in Orders, NEW x \in Made(o)
               PROVE  StatusFits(o, x)'
    BY DEF StatusRight, Made
  <1>1. StatusFits(o, x) /\ x \in Objects
    BY MadeApart DEF StatusRight
  <1>2. CASE UNCHANGED objs
    BY <1>1, <1>2, StatusKept
  <1>3. ASSUME NEW p \in Orders, SetPendingCancel(p)
        PROVE  StatusFits(o, x)'
    <2>1. /\ cancel[p] \in {Own(p), Reported(SentKey(p))} /\ objs'[cancel[p]].status = "PENDING_CANCEL"
          /\ \A y \in Objects : y # cancel[p] => objs'[y] = objs[y]
          /\ cancel[p] # NoObject
      BY <1>3, PendingObjects DEF SetPendingCancel
    <2>2. CASE x # cancel[p]
      BY <1>1, <2>1, <2>2, StatusKept
    <2>3. CASE x = cancel[p]
      <3>1. SentKey(p) \in Keys /\ SentKey(p)[2] = p
        BY ObjectNames DEF OInv, ObjectsRight, SentKey
      <3>2. o = p
        BY <2>1, <2>3, <3>1, MadeApart
      <3>3. cancel'[o] # NoObject
        BY <2>1, <3>2, OnlyMore
      <3> QED
        BY <2>1, <2>3, <3>3 DEF StatusFits
    <2> QED
      BY <2>2, <2>3
  <1>4. CASE ProcessOrder
    BY <1>4, ProcessStatus
  <1>5. CASE OnTrade /\ dead = "no"
    BY <1>5, TradeStatus
  <1>6. ASSUME NEW p \in Orders, StrategyStep(p), ~SetPendingCancel(p)
        PROVE  UNCHANGED objs
    BY <1>6, QuietSteps DEF Quiet, StrategyStep, CacheOrder, SendOrder, cache
  <1>7. OnOrder \/ Unfreeze \/ Relogin \/ UNCHANGED vars => UNCHANGED objs
    BY DEF OnOrder, Unfreeze, Relogin, vars, cache
  <1>8. \A p \in Orders : ExchangeStep(p) => UNCHANGED objs
    BY QuietSteps DEF Quiet
  <1> QED
    BY <1>2, <1>3, <1>4, <1>5, <1>6, <1>7, <1>8 DEF Next, CallbackStep

-----------------------------------------------------------------------------
(* Only on_order handles an end.                                           *)
LEMMA EndHandledBy ==
    ASSUME PInv, PInv', OInv, [Next]_vars, NEW o \in Orders, EndHandled(o)', ~EndHandled(o)
    PROVE  ProcessOrder /\ Msg.order = o /\ Msg.status \in Final
  <1> SUFFICES ASSUME ~(ProcessOrder /\ Msg.order = o /\ Msg.status \in Final)
               PROVE  FALSE
    OBVIOUS
  <1>1. /\ got \in Nat /\ got' \in Nat /\ got <= Len(log) /\ Len(log) \in Nat
        /\ \A i \in 1..Len(log) : log'[i] = log[i]
    <2>1. got \in Nat /\ got' \in Nat /\ got <= peak /\ peak <= Len(log) /\ peak \in Nat
      BY DEF PInv, Shape
    <2> QED
      BY <2>1, OnlyMore
  <1>2. Handled \in Int /\ Handled' \in Int
    BY <1>1 DEF Handled
  <1>3. ASSUME \A i \in 1..Handled' : i <= Handled \/ log'[i].order # o \/ log'[i].status \notin Final
        PROVE  FALSE
    <2>1. Handled <= Handled
      BY <1>2
    <2> QED
      BY <1>2, <1>3, <2>1, NoNewEnd
  <1>4. CASE Handled' <= Handled
    BY <1>2, <1>3, <1>4
  <1>5. CASE OnOrder
    <2>1. Found' /\ got' = got + 1 /\ ~Found
      BY <1>5, OnOrderObjects DEF OnOrder, Take, Found
    <2> QED
      BY <1>1, <1>4, <2>1 DEF Handled
  <1>6. CASE OnTrade
    <2>1. /\ cb.at = "idle" /\ got' = got + 1 /\ got + 1 \in 1..Len(log) /\ Trade.status = ""
          /\ ~Found' /\ ~Found
      BY <1>6, TradeEffect DEF Fills, Found
    <2>2. \A i \in 1..Handled' : i <= Handled \/ i = got + 1
      <3>1. Handled = got /\ Handled' = got + 1
        BY <2>1 DEF Handled
      <3> QED
        BY <1>1, <3>1
    <2>3. log'[got + 1].status \notin Final
      BY <1>1, <2>1 DEF Trade, Final
    <2> QED
      BY <1>3, <2>2, <2>3
  <1>7. CASE ProcessOrder
    <2>1. Found /\ ~Found' /\ got' = got /\ log' = log /\ got \in 1..Len(log)
      BY <1>7, ProcessEffect, MsgOfOrder DEF Found
    <2>2. \A i \in 1..Handled' : i <= Handled \/ i = got
      <3>1. Handled = got - 1 /\ Handled' = got
        BY <2>1 DEF Handled
      <3> QED
        BY <1>1, <3>1
    <2>3. log'[got].order # o \/ log'[got].status \notin Final
      BY <1>7, <2>1 DEF Msg
    <2> QED
      BY <1>3, <2>2, <2>3
  <1>8. CASE Unfreeze
    <2>1. got' = got /\ ~Found /\ ~Found'
      BY <1>8, CallbackAt DEF Unfreeze, stream, Found
    <2> QED
      BY <1>1, <1>4, <2>1 DEF Handled
  <1>9. CASE Relogin
    <2>1. ~Found /\ ~Found' /\ (got' = got \/ got' = 0)
      BY <1>9 DEF Relogin, Found
    <2> QED
      BY <1>1, <1>4, <2>1 DEF Handled
  <1>10. CASE UNCHANGED <<got, cb>>
    BY <1>2, <1>4, <1>10 DEF Handled, Found
  <1>11. ASSUME NEW p \in Orders, ExchangeStep(p) \/ StrategyStep(p)
         PROVE  UNCHANGED <<got, cb>>
    <2>1. CASE ExchangeStep(p)
      BY <2>1, QuietSteps DEF Quiet
    <2>2. CASE StrategyStep(p)
      BY <2>2, QuietSteps DEF Quiet, StrategyStep, CacheOrder, SendOrder, SetPendingCancel, stream
    <2> QED
      BY <1>11, <2>1, <2>2
  <1>12. UNCHANGED vars => UNCHANGED <<got, cb>>
    BY DEF vars
  <1> QED
    BY <1>5, <1>6, <1>7, <1>8, <1>9, <1>10, <1>11, <1>12 DEF Next, CallbackStep

(* The strategy's object is one of those made for its order.               *)
LEMMA OwnMade == \A o \in Orders : Own(o) \in Made(o) /\ Own(o) \in Objects
  BY ObjectNames DEF Made

(* Where cash is right, on_order finds the strategy's object.              *)
LEMMA OwnIt ==
    ASSUME PInv, OInv, OwnWorked, ProcessOrder, Restart, Regular(Msg.order)
    PROVE  /\ It = Own(Msg.order) /\ cb.object = It /\ Was = objs[It] /\ Was.status \in Status
           /\ Msg.status # "REJECTED"
  <1>1. /\ Found /\ Was \in ObjRecs /\ (cb.object # NoObject => It = cb.object /\ Was = objs[It])
        /\ Msg.order \in Orders /\ MsgFits(Msg, ex[Msg.order].state)
    BY ProcessEffect, MsgOfOrder
  <1>2. Msg.status # "REJECTED" /\ Msg.order \notin early
    BY <1>1 DEF Regular, MsgFits
  <1>3. cb.object = Own(Msg.order) /\ cb.object # NoObject
    BY <1>1, <1>2, ObjectNames DEF OwnWorked
  <1> QED
    BY <1>1, <1>2, <1>3 DEF ObjRecs

(* Every step keeps that, if the stream begins anew, handled ends are noted. *)
LEMMA NextEndNoted ==
    ASSUME PInv, PInv', OInv, OInv', OwnWorked, EndNoted, [Next]_vars
    PROVE  EndNoted'
  <1> SUFFICES ASSUME Restart, NEW o \in Orders, Regular(o)', EndHandled(o)'
               PROVE  objs'[Own(o)].status \in Final
    BY DEF EndNoted
  <1>1. Regular(o) /\ Own(o) \in Objects
    BY RegularBack, OwnMade
  <1>2. CASE EndHandled(o)
    <2>1. objs[Own(o)].status \in Final
      BY <1>1, <1>2 DEF EndNoted
    <2>2. ASSUME NEW p \in Orders, cancel[p] = Own(o)
          PROVE  FALSE
      <3>1. cancel[p] \in {NoObject, Asked, Own(p), Reported(SentKey(p))} /\ SentKey(p) \in Keys
        BY ObjectNames DEF OInv, CancelRight, ObjectsRight, SentKey
      <3>2. p = o /\ cancel[o] # NoObject
        BY <2>2, <3>1, ObjectNames
      <3> QED
        BY <1>1, <3>2 DEF Regular
    <2> QED
      BY <1>1, <2>1, <2>2, FinalKept
  <1>3. CASE ~EndHandled(o)
    <2>1. ProcessOrder /\ Msg.order = o /\ Msg.status \in Final
      BY <1>3, EndHandledBy
    <2>2. It = Own(o) /\ Was.status \in Status /\ Msg.status # "REJECTED"
      BY <1>1, <2>1, OwnIt
    <2>3. objs'[It].status = NextStatus(Was.status, Msg.status)
      BY <2>1, ProcessEffect
    <2> QED
      BY <2>1, <2>2, <2>3 DEF NextStatus, Final, Status
  <1> QED
    BY <1>2, <1>3

-----------------------------------------------------------------------------
(* The sum of the shares changes as they do.                               *)
LEMMA ShareInt == PInv => \A o \in Orders : Share(o) \in Int
  BY ConstAssumption DEF PInv, Shape, Share

(* If no order's share changes, the total does not.                        *)
LEMMA SameShares ==
    ASSUME \A o \in Orders : Share(o)' = Share(o)
    PROVE  Total' = Total
  <1>1. Shares' = Shares
    BY DEF Shares
  <1> QED
    BY <1>1 DEF Total

(* If one order's share changes, the total changes by as much.             *)
LEMMA OneShare ==
    ASSUME PInv, PInv', NEW p \in Orders, \A o \in Orders : o # p => Share(o)' = Share(o)
    PROVE  Total' = Total + (Share(p)' - Share(p)) /\ Total \in Int /\ Total' \in Int
  <1>1. \A o \in Orders : Share(o) \in Int /\ Share(o)' \in Int
    <2>1. PInv' => \A o \in Orders : Share(o)' \in Int
      BY ConstAssumption DEF PInv, Shape, Share
    <2> QED
      BY <2>1, ShareInt
  <1>2. /\ \A o \in Orders : Shares[o] \in Int /\ Shares'[o] \in Int
        /\ \A o \in Orders : o # p => Shares'[o] = Shares[o]
        /\ Shares[p] = Share(p) /\ Shares'[p] = Share(p)'
    BY <1>1 DEF Shares
  <1>3. Total = SumFunctionOnSet(Shares, Orders) /\ Total' = SumFunctionOnSet(Shares', Orders)
    BY DEF Total
  <1>4. IsFiniteSet(Orders)
    BY ConstAssumption
  <1> DEFINE f == Shares
             g == Shares'
  <1> HIDE DEF f, g
  <1>5. /\ SumFunctionOnSet(f, Orders) \in Int /\ SumFunctionOnSet(g, Orders) \in Int
        /\ SumFunctionOnSet(g, Orders) = SumFunctionOnSet(f, Orders) + (g[p] - f[p])
    <2>1. \A o \in Orders : f[o] \in Int /\ g[o] \in Int
      BY <1>2 DEF f, g
    <2>2. \A o \in Orders : o # p => g[o] = f[o]
      BY <1>2 DEF f, g
    <2>3. SumFunctionOnSet(f, Orders) \in Int /\ SumFunctionOnSet(g, Orders) \in Int
      BY <1>4, <2>1, SumIsInt
    <2>4. SumFunctionOnSet(g, Orders) = SumFunctionOnSet(f, Orders) + (g[p] - f[p])
      BY <1>4, <2>1, <2>2, SumChange
    <2> QED
      BY <2>3, <2>4
  <1> QED
    BY <1>2, <1>3, <1>5 DEF f, g

-----------------------------------------------------------------------------
XInv == PInv /\ OInv /\ OwnWorked /\ EndRight /\ StatusRight /\ CashTypes /\ CashRight

(* An end that is handled, or noted, is one at the exchange.               *)
LEMMA EndedOver ==
    ASSUME PInv, OInv, StatusRight, NEW o \in Orders, Ended(o)
    PROVE  ex[o].state \in {"filled", "cancelled", "rejected"}
  <1>1. CASE Restart
    <2>1. objs[Own(o)].status \in Final /\ StatusFits(o, Own(o))
      BY <1>1, OwnMade DEF Ended, StatusRight
    <2> QED
      BY <2>1 DEF StatusFits, Final
  <1>2. CASE ~Restart
    <2>1. PICK i \in 1..Handled : log[i].order = o /\ log[i].status \in Final
      BY <1>2 DEF Ended, EndHandled
    <2>2. i \in 1..Len(log)
      <3>1. got \in Nat /\ peak \in Nat /\ got <= peak /\ peak <= Len(log) /\ Len(log) \in Nat
        BY LenProperties DEF PInv, Shape
      <3> QED
        BY <3>1 DEF Handled
    <2>3. MsgFits(log[i], ex[o].state)
      BY <2>1, <2>2 DEF OInv, LogRight
    <2> QED
      BY <2>1, <2>3 DEF MsgFits, Final
  <1> QED
    BY <1>1, <1>2

(* Only on_order for a message of the order itself ends it.                *)
LEMMA EndedSame ==
    ASSUME PInv, PInv', OInv, OInv', [Next]_vars, NEW o \in Orders, ~ProcessOrder \/ Msg.order # o,
           Restart => (objs'[Own(o)].status \in Final <=> objs[Own(o)].status \in Final)
    PROVE  Ended(o)' <=> Ended(o)
  <1>1. CASE Restart
    BY <1>1 DEF Ended
  <1>2. CASE ~Restart
    BY <1>2, EndHandledBy, HandledGrows DEF Ended
  <1> QED
    BY <1>1, <1>2

(* A share changes only with the order's end, its position or its start.   *)
LEMMA ShareSame ==
    ASSUME PInv, PInv', OInv, StatusRight, [Next]_vars, NEW o \in Orders,
           Ended(o)' <=> Ended(o), position'[o] = position[o],
           sub'[o] \in {"idle", "adding"} <=> sub[o] \in {"idle", "adding"}
    PROVE  Share(o)' = Share(o)
  <1>1. Ended(o) => ex'[o] = ex[o]
    BY EndedOver, OverStays
  <1>2. CASE Ended(o)
    BY <1>1, <1>2 DEF Share
  <1>3. CASE ~Ended(o)
    BY <1>3 DEF Share
  <1> QED
    BY <1>2, <1>3

(* A step that does not update frozen_cash_.                               *)
LEMMA CashStays ==
    ASSUME PInv, PInv', OInv, StatusRight, CashRight, [Next]_vars,
           UNCHANGED <<frozen, loaded, position>>,
           cb' = cb \/ (cb.at # "freeing" /\ cb'.at # "freeing"),
           \A o \in Orders : /\ sub'[o] = "adding" => sub[o] = "adding"
                             /\ sub'[o] \in {"idle", "adding"} <=> sub[o] \in {"idle", "adding"},
           Fair' => \A o \in Orders : Ended(o)' <=> Ended(o)
    PROVE  CashRight'
  <1> SUFFICES ASSUME Fair'
               PROVE  Alone' /\ frozen' - Debt' = Total'
    BY DEF CashRight
  <1>1. Alone /\ frozen - Debt = Total
    BY RegularBack DEF CashRight
  <1>2. \A o \in Orders : Share(o)' = Share(o)
    BY ShareSame
  <1>3. Total' = Total
    BY <1>2, SameShares
  <1>4. Debt' = Debt
    BY DEF Debt
  <1>5. Alone'
    BY <1>1 DEF Alone
  <1> QED
    BY <1>1, <1>3, <1>4, <1>5

-----------------------------------------------------------------------------
(* Publishing an order changes no share.                                   *)
LEMMA PublishCash ==
    ASSUME XInv, PInv', OInv', [Next]_vars, NEW o \in Orders, Publish(o)
    PROVE  CashRight'
  <1> SUFFICES ASSUME Fair'
               PROVE  Alone' /\ frozen' - Debt' = Total'
    BY DEF CashRight
  <1>1. Alone /\ frozen - Debt = Total
    BY RegularBack DEF CashRight, XInv
  <1>2. /\ sub[o] = "idle" /\ sub' = [sub EXCEPT ![o] = "adding"]
        /\ loaded' = [loaded EXCEPT ![o] = frozen]
        /\ UNCHANGED <<frozen, cb, position, objs>>
    BY DEF Publish, account, cache
  <1>3. ~Updating
    <2>1. raced' = (raced \/ Updating)
      BY Zenon DEF Publish
    <2> QED
      BY <2>1 DEF Fair
  <1>4. sub \in [Orders -> {"idle", "adding", "published", "sent", "done"}] /\ loaded \in [Orders -> Int]
    BY DEF XInv, PInv, Shape, CashTypes
  <1>5. \A p \in Orders : sub'[p] = "adding" <=> p = o
    BY <1>2, <1>3, <1>4 DEF Updating
  <1>6. cb'.at # "freeing" /\ loaded'[o] = frozen'
    BY <1>2, <1>3, <1>4 DEF Updating
  <1>7. Alone'
    BY <1>5, <1>6 DEF Alone
  <1>8. \A p \in Orders : Ended(p)' <=> Ended(p)
    <2>1. ~ProcessOrder
      BY <1>2, <1>4 DEF ProcessOrder, submit
    <2> QED
      BY <1>2, <2>1, EndedSame DEF XInv
  <1>9. \A p \in Orders : Share(p)' = Share(p)
    <2>1. \A p \in Orders : sub'[p] \in {"idle", "adding"} <=> sub[p] \in {"idle", "adding"}
      BY <1>2, <1>4
    <2> QED
      BY <1>2, <1>8, <2>1, ShareSame DEF XInv
  <1>10. Total' = Total
    BY <1>9, SameShares
  <1>11. Debt' = Debt
    BY <1>2 DEF Debt
  <1> QED
    BY <1>1, <1>2, <1>7, <1>10, <1>11

(* Nothing of an order that was not sent is traded.                        *)
LEMMA UnsentNone ==
    ASSUME PInv, OInv, dead = "no", NEW o \in Orders, ~Sent(o)
    PROVE  position[o] = 0 /\ ex[o].state = "none"
  <1>1. \A i \in 1..Len(log) : log[i].order # o
    BY DEF OInv, LogRight, Sent
  <1>2. position[o] = 0
    <2>1. peak \in Nat /\ peak <= Len(log) /\ Len(log) \in Nat
      BY LenProperties DEF PInv, Shape
    <2>2. \A i \in 1..peak : ~ TradeOf(log, i, o)
      BY <1>1, <2>1 DEF TradeOf
    <2> QED
      BY <2>2 DEF PInv, Applied
  <1>3. sub[o] \in {"idle", "adding", "published"}
    BY DEF PInv, Shape, Sent
  <1> QED
    BY <1>2, <1>3 DEF PInv, Room

(* Freezing adds what the order's share is from then on.                   *)
LEMMA FreezeCash ==
    ASSUME XInv, PInv', OInv', [Next]_vars, NEW o \in Orders, Freeze(o)
    PROVE  CashRight'
  <1> SUFFICES ASSUME Fair'
               PROVE  Alone' /\ frozen' - Debt' = Total'
    BY DEF CashRight
  <1>1. Fair /\ Alone /\ frozen - Debt = Total /\ dead = "no"
    BY RegularBack DEF CashRight, XInv, Fair
  <1>2. /\ sub[o] = "adding" /\ sub' = [sub EXCEPT ![o] = "published"]
        /\ frozen' = loaded[o] + Quantity
        /\ UNCHANGED <<ex, loaded, cb, position, objs>>
    BY DEF Freeze, exchange, cache
  <1>3. /\ loaded[o] = frozen /\ cb.at # "freeing"
        /\ \A p \in Orders : sub[p] = "adding" => p = o
    BY <1>1, <1>2 DEF Alone
  <1>4. sub \in [Orders -> {"idle", "adding", "published", "sent", "done"}] /\ frozen \in Int /\ Quantity \in Int
    BY ConstAssumption DEF XInv, PInv, Shape, CashTypes
  <1>5. Alone'
    BY <1>2, <1>3, <1>4 DEF Alone
  <1>6. ~ProcessOrder
    BY <1>2, <1>4 DEF ProcessOrder, submit
  <1>7. \A p \in Orders : Ended(p)' <=> Ended(p)
    BY <1>2, <1>6, EndedSame DEF XInv
  <1>8. \A p \in Orders : p # o => Share(p)' = Share(p)
    <2>1. \A p \in Orders : p # o => sub'[p] = sub[p]
      BY <1>2, <1>4
    <2> QED
      BY <1>2, <1>7, <2>1, ShareSame DEF XInv
  <1>9. Share(o) = 0 /\ Share(o)' = Quantity
    <2>1. position[o] = 0 /\ ex[o].state = "none"
      BY <1>1, <1>2, UnsentNone DEF XInv, Sent
    <2>2. ~Ended(o)
      BY <2>1, EndedOver DEF XInv
    <2>3. sub'[o] = "published"
      BY <1>2, <1>4
    <2> QED
      BY <1>2, <1>4, <1>7, <2>1, <2>2, <2>3 DEF Share
  <1>10. Total' = Total + (Share(o)' - Share(o)) /\ Total \in Int
    BY <1>8, OneShare DEF XInv
  <1>11. Debt = 0 /\ Debt' = 0
    BY <1>2, <1>3 DEF Debt
  <1> QED
    BY <1>1, <1>2, <1>3, <1>4, <1>5, <1>9, <1>10, <1>11

(* The other steps of submit_order and cancel_order, and the exchange's.   *)
LEMMA OutsideCash ==
    ASSUME XInv, PInv', OInv', [Next]_vars, NEW o \in Orders,
           ExchangeStep(o) \/ StrategyStep(o), ~Publish(o), ~Freeze(o)
    PROVE  CashRight'
  <1>1. UNCHANGED <<frozen, loaded, cb, position>> /\ ~ProcessOrder
    <2>1. UNCHANGED <<frozen, loaded, position>>
      BY DEF ExchangeStep, Park, FillAll, FillPart, ExchangeCancel, Reject, Announce, StrategyStep,
             CacheOrder, TearMap, SendOrder, CancelOrder, SetPendingCancel, account, submit
    <2>2. cb' = cb
      BY DEF ExchangeStep, Park, FillAll, FillPart, ExchangeCancel, Reject, Announce, StrategyStep,
             CacheOrder, TearMap, SendOrder, CancelOrder, SetPendingCancel
    <2>3. ProcessOrder => cb'.at # cb.at
      BY ProcessEffect DEF Found, XInv
    <2> QED
      BY <2>1, <2>2, <2>3
  <1>2. \A p \in Orders : /\ sub'[p] = "adding" => sub[p] = "adding"
                          /\ sub'[p] \in {"idle", "adding"} <=> sub[p] \in {"idle", "adding"}
    <2>1. sub \in [Orders -> {"idle", "adding", "published", "sent", "done"}]
      BY DEF XInv, PInv, Shape
    <2>2. CASE sub' = sub
      BY <2>2
    <2>3. CASE sub[o] = "published" /\ sub' = [sub EXCEPT ![o] = "sent"]
      BY <2>1, <2>3
    <2>4. CASE sub[o] = "sent" /\ sub' = [sub EXCEPT ![o] = "done"]
      BY <2>1, <2>4
    <2>5. ExchangeStep(o) \/ TearMap(o) \/ CancelOrder(o) \/ SetPendingCancel(o) => sub' = sub
      BY QuietSteps DEF TearMap, CancelOrder, SetPendingCancel, submit
    <2>6. CacheOrder(o) => sub[o] = "sent" /\ sub' = [sub EXCEPT ![o] = "done"]
      BY DEF CacheOrder
    <2>7. \A accepted \in BOOLEAN : SendOrder(o, accepted) =>
                                      sub[o] = "published" /\ sub' = [sub EXCEPT ![o] = "sent"]
      BY DEF SendOrder
    <2> QED
      BY <2>2, <2>3, <2>4, <2>5, <2>6, <2>7 DEF StrategyStep
  <1>3. ASSUME Fair', NEW p \in Orders
        PROVE  Ended(p)' <=> Ended(p)
    <2>1. CASE UNCHANGED objs
      BY <1>1, <2>1, EndedSame DEF XInv
    <2>2. CASE SetPendingCancel(o)
      <3>1. cancel[o] # NoObject
        BY <2>2 DEF SetPendingCancel
      <3>2. ~Restart
        BY <1>3, <3>1, RegularBack DEF Fair, Regular, XInv
      <3> QED
        BY <1>1, <3>2, EndedSame DEF XInv
    <2>3. ~SetPendingCancel(o) => UNCHANGED objs
      BY QuietSteps DEF Quiet, StrategyStep, CacheOrder, SendOrder, cache
    <2> QED
      BY <2>1, <2>2, <2>3
  <1> QED
    BY <1>1, <1>2, <1>3, CashStays DEF XInv

(* Finding the object, a new login and no step change no share.            *)
LEMMA CallbackCash ==
    ASSUME XInv, PInv', OInv', [Next]_vars, OnOrder \/ Relogin \/ UNCHANGED vars
    PROVE  CashRight'
  <1>1. /\ UNCHANGED <<frozen, loaded, position, sub, objs>>
        /\ cb' = cb \/ (cb.at # "freeing" /\ cb'.at # "freeing")
        /\ ~ProcessOrder
    <2>1. CASE OnOrder
      <3>1. UNCHANGED <<frozen, loaded, position, sub, objs>>
        BY <2>1 DEF OnOrder, account, submit, cache
      <3>2. cb.at = "idle" /\ cb'.at = "found"
        BY <2>1, OnOrderObjects DEF OnOrder, Take, Found, XInv
      <3> QED
        BY <3>1, <3>2 DEF ProcessOrder
    <2>2. CASE Relogin
      <3>1. UNCHANGED <<frozen, loaded, position, sub, objs, cb>> /\ cb.at = "idle"
        BY <2>2 DEF Relogin, account, submit, cache
      <3> QED
        BY <3>1 DEF ProcessOrder
    <2>3. CASE UNCHANGED vars
      <3>1. UNCHANGED <<frozen, loaded, position, sub, objs, cb>>
        BY <2>3 DEF vars
      <3>2. ProcessOrder => cb'.at # cb.at
        BY ProcessEffect DEF Found, XInv
      <3> QED
        BY <3>1, <3>2
    <2> QED
      BY <2>1, <2>2, <2>3
  <1>2. \A o \in Orders : Ended(o)' <=> Ended(o)
    BY <1>1, EndedSame DEF XInv
  <1> QED
    BY <1>1, <1>2, CashStays DEF XInv

(* The second half of a release takes off what was owed.                   *)
LEMMA UnfreezeCash ==
    ASSUME XInv, PInv', OInv', [Next]_vars, Unfreeze
    PROVE  CashRight'
  <1> SUFFICES ASSUME Fair'
               PROVE  Alone' /\ frozen' - Debt' = Total'
    BY DEF CashRight
  <1>1. Alone /\ frozen - Debt = Total
    BY RegularBack DEF CashRight, XInv
  <1>2. /\ cb.at = "freeing" /\ frozen' = cb.load - cb.release /\ cb' = IdleCallback
        /\ UNCHANGED <<loaded, position, sub, objs>>
    BY DEF Unfreeze, submit, cache
  <1>3. cb'.at = "idle"
    BY <1>2, CallbackAt
  <1>4. cb.load = frozen /\ \A o \in Orders : sub[o] # "adding"
    BY <1>1, <1>2 DEF Alone
  <1>5. Alone'
    BY <1>2, <1>3, <1>4 DEF Alone
  <1>6. Debt = cb.release /\ Debt' = 0 /\ frozen' \in Int
    BY <1>2, <1>3 DEF Debt, XInv, CashTypes
  <1>7. \A o \in Orders : Share(o)' = Share(o)
    <2>1. \A o \in Orders : Ended(o)' <=> Ended(o)
      BY <1>2, EndedSame DEF XInv, ProcessOrder
    <2> QED
      BY <1>2, <2>1, ShareSame DEF XInv
  <1>8. Total' = Total
    BY <1>7, SameShares
  <1> QED
    BY <1>1, <1>2, <1>4, <1>5, <1>6, <1>8 DEF XInv, CashTypes

(* A trade's lots leave the order's share and are owed for release.        *)
LEMMA TradeRight ==
    ASSUME XInv, PInv', OInv', TradesFit, [Next]_vars, dead = "no", OnTrade
    PROVE  CashRight'
  <1>1. /\ cb.at = "idle" /\ Trade \in Msgs /\ Trade.order \in Orders
        /\ UNCHANGED <<ex, sub, frozen>>
        /\ \/ UNCHANGED <<cache, cb, position, backward, toldLots, dead>>
           \/ dead' = "assert" /\ UNCHANGED <<cache, cb, position, backward, toldLots>>
           \/ Fills
    BY TradeEffect DEF XInv
  <1>2. UNCHANGED loaded /\ ~ProcessOrder
    BY <1>1 DEF OnTrade, submit, ProcessOrder
  <1>3. CASE UNCHANGED <<cache, cb, position>>
    <2>1. UNCHANGED <<objs, cb, position>>
      BY <1>3 DEF cache
    <2>2. \A o \in Orders : Ended(o)' <=> Ended(o)
      BY <1>2, <2>1, EndedSame DEF XInv
    <2> QED
      BY <1>1, <1>2, <2>1, <2>2, CashStays DEF XInv
  <1>4. CASE Fills
    <2> SUFFICES ASSUME Fair'
                 PROVE  Alone' /\ frozen' - Debt' = Total'
      BY DEF CashRight
    <2>13. PICK o \in Orders : o = Trade.order
      BY <1>1
    <2>14. PICK n : n = Trade.last
      OBVIOUS
    <2>1. Alone /\ frozen - Debt = Total
      BY RegularBack DEF CashRight, XInv
    <2>2. /\ o \in Orders /\ n \in Int /\ position[o] \in Int /\ position'[o] = position[o] + n
          /\ \A p \in Orders : p # o => position'[p] = position[p]
          /\ cb'.at = "freeing" /\ cb'.load = frozen /\ cb'.release = n
          /\ raced' = (raced \/ Updating)
      BY <1>1, <1>4, <2>13, <2>14, FillsFit, TradeCash DEF Fills, XInv
    <2>3. \A p \in Orders : sub[p] # "adding"
      BY <2>2 DEF Fair, Updating
    <2>4. Alone'
      BY <1>1, <2>2, <2>3 DEF Alone
    <2>5. Debt = 0 /\ Debt' = n
      BY <1>1, <2>2 DEF Debt
    <2>6. ASSUME NEW p \in Orders, ~(objs'[Own(p)].status # objs[Own(p)].status)
          PROVE  Ended(p)' <=> Ended(p)
      BY <1>2, <2>6, EndedSame DEF XInv
    <2>7. ASSUME NEW p \in Orders, objs'[Own(p)].status # objs[Own(p)].status
          PROVE  p = o /\ ex[p].filled = Quantity
      <3>1. That = Own(p) /\ Own(p) \in Made(p)
        BY <1>4, <2>7, OwnMade DEF Fills
      <3> QED
        BY <1>4, <2>7, <2>13, <3>1, FilledUp DEF XInv
    <2>8. ASSUME NEW p \in Orders, p # o
          PROVE  Share(p)' = Share(p)
      BY <1>1, <2>2, <2>6, <2>7, <2>8, ShareSame DEF XInv
    <2>9. Share(o)' = Share(o) - n
      <3>1. Sent(o)
        BY <2>13, TradeEffect DEF XInv
      <3>2. /\ sub[o] \notin {"idle", "adding"} /\ sub'[o] \notin {"idle", "adding"}
            /\ Quantity \in Int /\ ex[o].filled \in Int /\ ex' = ex
        BY <1>1, <2>2, <3>1, ConstAssumption DEF Sent, XInv, PInv, Shape
      <3>3. CASE Ended(o)' <=> Ended(o)
        BY <2>2, <3>2, <3>3 DEF Share
      <3>4. CASE ex[o].filled = Quantity
        BY <2>2, <3>2, <3>4 DEF Share
      <3> QED
        BY <2>2, <2>6, <2>7, <3>3, <3>4
    <2>10. Total' = Total + (Share(o)' - Share(o)) /\ Total \in Int
      BY <2>2, <2>8, OneShare DEF XInv
    <2>11. Share(o) \in Int
      BY <2>2, ShareInt DEF XInv
    <2>12. Total' = Total - n
      BY <2>2, <2>9, <2>10, <2>11
    <2> QED
      BY <1>1, <2>1, <2>2, <2>4, <2>5, <2>10, <2>12 DEF XInv, CashTypes
  <1>5. CASE dead' = "assert"
    BY <1>5 DEF CashRight, Fair
  <1> QED
    BY <1>1, <1>3, <1>4, <1>5

-----------------------------------------------------------------------------
(* An event is published when the object comes to its end.                 *)
LEMMA EventEnds ==
    ASSUME NEW s \in Status, NEW r \in {"ACTIVE", "FILLED", "CANCELLED", "REJECTED"}
    PROVE  /\ Event(s, r) # "none" <=> s \notin Final /\ NextStatus(s, r) \in Final
           /\ s \in Final => NextStatus(s, r) \in Final
           /\ s \notin Final /\ NextStatus(s, r) \in Final => NextStatus(s, r) = r
           /\ s \notin Final /\ r \in {"FILLED", "CANCELLED"} => NextStatus(s, r) = r
           /\ s = "PENDING_NEW" => NextStatus(s, r) = r
  BY DEF Event, NextStatus, Final, Status

(* What the message of an end says was filled, was.                        *)
LEMMA EndLots ==
    ASSUME PInv, OInv, EndRight, Found, Msg.status \in Final
    PROVE  /\ Msg.lots = ex[Msg.order].filled
           /\ Msg.status = "FILLED" => ex[Msg.order].filled = Quantity
  <1>1. /\ got \in 1..Len(log) /\ Msg.order \in Orders /\ MsgFits(Msg, ex[Msg.order].state)
        /\ Msg.status \in {"FILLED", "CANCELLED", "REJECTED"}
    BY MsgOfOrder DEF Final
  <1>2. CASE Msg.status = "FILLED"
    BY <1>1, <1>2 DEF EndRight, MsgFits
  <1>3. CASE Msg.status \in {"CANCELLED", "REJECTED"}
    BY <1>1, <1>3 DEF EndRight, Msg
  <1> QED
    BY <1>1, <1>2, <1>3

(* An end is announced once, and after it nothing but trades.              *)
LEMMA FirstEnd ==
    ASSUME PInv, OInv, Found, Msg.status \in Final
    PROVE  /\ ~EndHandled(Msg.order)
           /\ Msg.status = "REJECTED" => ~Heard(Msg.order)
  <1>1. /\ got \in 1..Len(log) /\ Msg.order \in Orders /\ Msg.kind = "order"
        /\ MsgFits(Msg, ex[Msg.order].state)
    BY MsgOfOrder
  <1>2. got \in Nat /\ Len(log) \in Nat /\ Handled = got - 1
    BY LenProperties DEF PInv, Shape, Handled
  <1>3. ASSUME NEW i \in 1..Handled, log[i].order = Msg.order, log[i].status \in Final
        PROVE  FALSE
    <2>1. i \in 1..Len(log) /\ i < got
      BY <1>1, <1>2
    <2> QED
      BY <1>1, <1>3, <2>1 DEF OInv, LogRight, Msg
  <1>4. ASSUME NEW i \in 1..Handled, log[i].order = Msg.order, Msg.status = "REJECTED"
        PROVE  FALSE
    <2>1. i \in 1..Len(log)
      BY <1>1, <1>2
    <2>2. ex[Msg.order].state = "rejected"
      BY <1>1, <1>4 DEF MsgFits
    <2>3. MsgFits(log[i], "rejected")
      BY <1>4, <2>1, <2>2 DEF OInv, LogRight
    <2> QED
      BY <1>3, <1>4, <2>3 DEF MsgFits, Final
  <1> QED
    BY <1>3, <1>4 DEF EndHandled, Heard

(* A message releases what its order's share loses.                        *)
LEMMA ProcessShare ==
    ASSUME XInv, PInv', OInv', TradesFit, [Next]_vars, ProcessOrder, Fair',
           NEW o \in Orders, o = Msg.order
    PROVE  Share(o)' = Share(o) - (IF Event(Was.status, Msg.status) # "none"
                                   THEN Was.quantity - Msg.lots ELSE 0)
  <1>1. /\ Found /\ Was \in ObjRecs /\ It \in {Own(o), Reported(KeyOf(Msg))}
        /\ cb.object = NoObject => Was = NewObject(Quantity)
        /\ cb.object # NoObject => Was = objs[It]
        /\ objs'[It].status = NextStatus(Was.status, Msg.status)
        /\ UNCHANGED <<ex, log, got, sub, position>> /\ ~Found'
    BY ProcessEffect DEF XInv, Found
  <1>2. /\ Msg.status \in {"ACTIVE", "FILLED", "CANCELLED", "REJECTED"} /\ Msg.lots \in Int
        /\ MsgFits(Msg, ex[o].state) /\ Sent(o) /\ KeyOf(Msg) \in Keys /\ KeyOf(Msg)[2] = o
        /\ got \in 1..Len(log)
    BY <1>1, MsgOfOrder DEF XInv
  <1>3. It \in Made(o)
    <2>1. KeyOf(Msg) = <<KeyOf(Msg)[1], o>> /\ KeyOf(Msg)[1] \in Sessions
      BY <1>2, ObjectNames
    <2> HIDE DEF KeyOf
    <2> QED
      BY <1>1, <2>1 DEF Made
  <1>4. Was.quantity = Quantity
    <2>1. CASE cb.object = NoObject
      BY <1>1, <2>1, NewRecs, ConstAssumption
    <2>2. CASE cb.object # NoObject
      <3>1. PICK s \in Sessions : It \in {Own(o), Reported(<<s, o>>)}
        BY <1>3, ConstAssumption DEF Made, Sessions
      <3> QED
        BY <1>1, <2>2, <3>1 DEF TradesFit
    <2> QED
      BY <2>1, <2>2
  <1>5. Was.status \in Status
    BY <1>1 DEF ObjRecs
  <1>6. Regular(o) /\ Regular(o)'
    BY RegularBack DEF Fair, XInv
  <1>7. /\ Share(o) = Quantity - position[o] - (IF Ended(o) THEN Quantity - ex[o].filled ELSE 0)
        /\ Share(o)' = Quantity - position[o] - (IF Ended(o)' THEN Quantity - ex[o].filled ELSE 0)
        /\ Quantity \in Int /\ position[o] \in Int /\ ex[o].filled \in Int
    BY <1>1, <1>2, ConstAssumption DEF Share, Sent, XInv, PInv, Shape
  <1>8. Msg.status \in Final => /\ Msg.lots = ex[o].filled
                                /\ Msg.status = "FILLED" => ex[o].filled = Quantity
    BY <1>1, EndLots DEF XInv
  <1>9. CASE Restart
    <2>1. It = Own(o) /\ Was = objs[It]
      BY <1>6, <1>9, OwnIt DEF XInv
    <2>2. /\ Ended(o) <=> Was.status \in Final
          /\ Ended(o)' <=> NextStatus(Was.status, Msg.status) \in Final
      BY <1>1, <1>9, <2>1 DEF Ended
    <2>3. CASE Event(Was.status, Msg.status) # "none"
      <3>1. ~Ended(o) /\ Ended(o)' /\ Msg.status \in Final
        BY <1>2, <1>5, <2>2, <2>3, EventEnds
      <3> QED
        BY <1>4, <1>7, <1>8, <2>3, <3>1
    <2>4. CASE Event(Was.status, Msg.status) = "none"
      <3>1. Ended(o) <=> Ended(o)'
        BY <1>2, <1>5, <2>2, <2>4, EventEnds
      <3> QED
        BY <1>7, <2>4, <3>1
    <2> QED
      BY <2>3, <2>4
  <1>10. CASE ~Restart
    <2>1. CASE Msg.status \notin Final
      <3>1. Ended(o) <=> Ended(o)'
        BY <1>10, <2>1, EndHandledBy, HandledGrows DEF Ended, XInv
      <3>2. Event(Was.status, Msg.status) = "none"
        BY <1>2, <1>5, <2>1, EventEnds
      <3> QED
        BY <1>7, <3>1, <3>2
    <2>2. CASE Msg.status \in Final
      <3>1. ~Ended(o) /\ (Msg.status = "REJECTED" => ~Heard(o))
        BY <1>1, <1>10, <2>2, FirstEnd DEF Ended, XInv
      <3>2. Ended(o)'
        <4>1. Handled' = got /\ got \in Nat
          BY <1>1 DEF Handled, XInv, PInv, Shape
        <4>2. got \in 1..Handled' /\ log'[got].order = o /\ log'[got].status \in Final
          BY <1>1, <1>2, <2>2, <4>1 DEF Msg
        <4> QED
          BY <1>10, <4>2 DEF Ended, EndHandled
      <3>3. CASE Msg.status = "FILLED"
        BY <1>4, <1>7, <1>8, <2>2, <3>1, <3>2, <3>3
      <3>4. CASE Msg.status \in {"CANCELLED", "REJECTED"}
        <4>1. StatusFits(o, It)
          BY <1>3 DEF XInv, StatusRight
        <4>2. Msg.status = "CANCELLED" => Was.status \notin Final
          <5>1. CASE cb.object = NoObject
            BY <1>1, <5>1, NewRecs, ConstAssumption DEF Final
          <5>2. CASE cb.object # NoObject
            BY <1>1, <1>2, <1>10, <3>1, <4>1, <5>2 DEF StatusFits, Final, Ended, MsgFits
          <5> QED
            BY <5>1, <5>2
        <4>3. Msg.status = "REJECTED" => Was.status = "PENDING_NEW"
          <5>1. CASE cb.object = NoObject
            BY <1>1, <5>1, NewRecs, ConstAssumption
          <5>2. CASE cb.object # NoObject /\ Msg.status = "REJECTED"
            <6>1. cancel[o] = NoObject
              BY <1>2, <1>6, <5>2 DEF Regular, MsgFits
            <6> QED
              BY <1>1, <1>10, <3>1, <4>1, <5>2, <6>1 DEF StatusFits
          <5> QED
            BY <5>1, <5>2
        <4>4. Event(Was.status, Msg.status) # "none"
          <5>1. CASE Msg.status = "CANCELLED"
            <6>1. NextStatus(Was.status, Msg.status) = Msg.status
              BY <1>2, <1>5, <4>2, <5>1, EventEnds
            <6> QED
              BY <1>2, <1>5, <2>2, <4>2, <5>1, <6>1, EventEnds
          <5>2. CASE Msg.status = "REJECTED"
            <6>1. NextStatus(Was.status, Msg.status) = Msg.status /\ Was.status \notin Final
              BY <1>2, <1>5, <4>3, <5>2, EventEnds DEF Final
            <6> QED
              BY <1>2, <1>5, <2>2, <6>1, EventEnds
          <5> QED
            BY <3>4, <5>1, <5>2
        <4> QED
          BY <1>4, <1>7, <1>8, <2>2, <3>1, <3>2, <4>4
      <3> QED
        BY <1>2, <2>2, <3>3, <3>4 DEF Final
    <2> QED
      BY <2>1, <2>2
  <1> QED
    BY <1>9, <1>10

(* The end of an order takes its share to nothing, and releases as much.   *)
LEMMA ProcessRight ==
    ASSUME XInv, PInv', OInv', TradesFit, [Next]_vars, ProcessOrder
    PROVE  CashRight'
  <1> SUFFICES ASSUME Fair'
               PROVE  Alone' /\ frozen' - Debt' = Total'
    BY DEF CashRight
  <1>1. Alone /\ frozen - Debt = Total
    BY RegularBack DEF CashRight, XInv
  <1>2. /\ Found /\ Msg.order \in Orders /\ It \in {Own(Msg.order), Reported(KeyOf(Msg))}
        /\ KeyOf(Msg) \in Keys
        /\ \A x \in Objects : x # It => objs'[x] = objs[x]
        /\ UNCHANGED <<ex, sub, frozen, position>> /\ cb'.at \in {"idle", "freeing"}
    BY ProcessEffect, MsgOfOrder DEF XInv
  <1>3. UNCHANGED loaded
    BY DEF ProcessOrder, submit
  <1>4. PICK o \in Orders : o = Msg.order
    BY <1>2
  <1>5. PICK n : n = IF Event(Was.status, Msg.status) # "none" THEN Was.quantity - Msg.lots ELSE 0
    OBVIOUS
  <1>6. Share(o)' = Share(o) - n
    BY <1>4, <1>5, ProcessShare
  <1>7. ASSUME NEW p \in Orders, p # o
        PROVE  Share(p)' = Share(p)
    <2>1. Own(p) # It /\ Own(p) \in Objects
      BY <1>2, <1>4, <1>7, ObjectNames
    <2>2. Ended(p)' <=> Ended(p)
      BY <1>2, <1>4, <1>7, <2>1, EndedSame DEF XInv
    <2> QED
      BY <1>2, <2>2, ShareSame DEF XInv
  <1>8. n \in Int
    <2>1. Was.quantity \in Int /\ Msg.lots \in Int
      BY <1>2, ProcessEffect, MsgOfOrder DEF XInv, ObjRecs
    <2> QED
      BY <1>5, <2>1
  <1>9. Debt = 0 /\ Debt' = n
    <2>1. Debt = 0
      BY <1>2 DEF Debt, Found
    <2>2. CASE Event(Was.status, Msg.status) = "none"
      BY <1>5, <2>1, <2>2, ProcessCash DEF Debt, XInv
    <2>3. CASE Event(Was.status, Msg.status) # "none"
      BY <1>5, <2>1, <2>3, ProcessCash DEF Debt, XInv
    <2> QED
      BY <2>2, <2>3
  <1>10. Alone'
    <2>1. CASE cb'.at = "idle"
      BY <1>1, <1>2, <1>3, <2>1 DEF Alone
    <2>2. CASE cb'.at = "freeing"
      <3>1. Event(Was.status, Msg.status) # "none"
        BY <2>2, ProcessCash DEF XInv
      <3>2. cb'.load = frozen /\ raced' = (raced \/ Updating)
        BY <3>1, ProcessCash DEF XInv
      <3>3. \A p \in Orders : sub[p] # "adding"
        BY <3>2 DEF Fair, Updating
      <3> QED
        BY <1>2, <3>2, <3>3 DEF Alone
    <2> QED
      BY <1>2, <2>1, <2>2
  <1>11. Total' = Total + (Share(o)' - Share(o)) /\ Total \in Int
    BY <1>7, OneShare DEF XInv
  <1>12. Share(o) \in Int
    BY ShareInt DEF XInv
  <1> QED
    BY <1>1, <1>2, <1>6, <1>8, <1>9, <1>10, <1>11, <1>12 DEF XInv, CashTypes

(* Every step keeps CashRight.                                             *)
LEMMA NextCashRight ==
    ASSUME XInv, PInv', OInv', TradesFit, [Next]_vars
    PROVE  CashRight'
  <1>1. dead = "no" /\ OnTrade => CashRight'
    BY TradeRight
  <1> QED
    BY <1>1, PublishCash, FreezeCash, OutsideCash, CallbackCash, UnfreezeCash, ProcessRight
       DEF Next, CallbackStep
-----------------------------------------------------------------------------
MInv == XInv /\ FInv /\ OwnFound /\ EndNoted

(* Nothing is frozen at first, and no order has a share.                   *)
LEMMA InitCash == Init => XInv /\ EndNoted
  <1> SUFFICES ASSUME Init PROVE XInv /\ EndNoted
    OBVIOUS
  <1>1. PInv /\ OInv
    BY InitPInv, InitOInv
  <1>2. /\ got = 0 /\ log = <<>> /\ Len(log) = 0 /\ frozen = 0 /\ cb = IdleCallback
        /\ objs = [x \in Objects |-> NewObject(Quantity)] /\ sub = [o \in Orders |-> "idle"]
        /\ ex = [o \in Orders |-> [state |-> "none", filled |-> 0]]
        /\ loaded = [o \in Orders |-> 0]
    BY DEF Init
  <1>3. cb.at = "idle" /\ cb.load = 0 /\ cb.release = 0 /\ ~Found
    BY <1>2, CallbackAt DEF Found
  <1>4. OwnWorked /\ EndRight
    BY <1>2, <1>3 DEF OwnWorked, EndRight
  <1>5. \A o \in Orders : \A x \in Made(o) : objs[x].status = "PENDING_NEW"
    BY <1>1, <1>2, MadeApart, NewRecs, ConstAssumption
  <1>6. StatusRight
    BY <1>5 DEF StatusRight, StatusFits
  <1>7. CashTypes
    BY <1>2, <1>3 DEF CashTypes
  <1>8. CashRight
    <2>1. \A o \in Orders : Shares[o] = 0
      BY <1>2 DEF Shares, Share
    <2>2. Total = 0
      <3> HIDE DEF Shares
      <3>1. IsFiniteSet(Orders)
        BY ConstAssumption
      <3> QED
        BY <2>1, <3>1, SumOfZeros DEF Total
    <2>3. Debt = 0
      BY <1>3 DEF Debt
    <2> QED
      BY <1>2, <1>3, <2>2, <2>3 DEF CashRight, Alone
  <1>9. EndNoted
    <2>1. Handled = 0
      BY <1>2, <1>3 DEF Handled
    <2> QED
      BY <2>1 DEF EndNoted, EndHandled
  <1> QED
    BY <1>1, <1>4, <1>6, <1>7, <1>8, <1>9 DEF XInv

(* Every step keeps all of what the cash needs.                            *)
LEMMA NextMInv == MInv /\ [Next]_vars => MInv'
  <1> SUFFICES ASSUME MInv, [Next]_vars PROVE MInv'
    OBVIOUS
  <1>1. XInv /\ FInv /\ OwnFound /\ EndNoted
    BY DEF MInv
  <1>2. /\ PInv /\ OInv /\ TradesFit /\ NamesRight /\ OpenRight
        /\ OwnWorked /\ EndRight /\ StatusRight /\ CashTypes /\ CashRight
    BY <1>1 DEF XInv, FInv
  <1>3. PInv' /\ OInv'
    BY <1>2, NextPInv, NextOInv
  <1>4. TradesFit' /\ NamesRight' /\ OpenRight' /\ OwnFound'
    BY <1>1, <1>2, <1>3, NextTradesFit, NextNamesRight, NextOpenRight, NextOwnFound
  <1>5. OwnWorked' /\ EndRight' /\ CashTypes' /\ EndNoted'
    BY <1>1, <1>2, <1>3, NextOwnWorked, NextEndRight, NextCashTypes, NextEndNoted
  <1>6. StatusRight' /\ CashRight'
    BY <1>1, <1>2, <1>3, NextStatusRight, NextCashRight
  <1> QED
    BY <1>3, <1>4, <1>5, <1>6 DEF MInv, XInv, FInv

(* When everything is handled the shares are what is outstanding.          *)
LEMMA MInvExact == MInv => FrozenExact
  <1> SUFFICES ASSUME MInv, CaughtUp, ~raced, \A o \in Orders : Regular(o)
               PROVE  frozen = MapThenSumSet(Outstanding, Orders)
    BY DEF FrozenExact
  <1>1. PInv /\ OInv /\ EndRight /\ StatusRight /\ CashRight /\ CashTypes /\ EndNoted
    BY DEF MInv, XInv
  <1>2. cb.at = "idle" /\ got = Len(log) /\ peak = got /\ dead = "no" /\ Handled = got
    BY DEF CaughtUp, Handled, Found
  <1>3. frozen = Total
    <2>1. frozen - Debt = Total /\ Debt = 0 /\ frozen \in Int
      BY <1>1, <1>2 DEF CashRight, Fair, Debt, CashTypes
    <2> QED
      BY <2>1
  <1>4. ASSUME NEW o \in Orders
        PROVE  Share(o) = Outstanding(o)
    <2>1. position[o] = ex[o].filled /\ position[o] \in Int /\ Quantity \in Int
      BY <1>1, PInvExact, ConstAssumption DEF PositionExact, PInv, Shape
    <2>2. Over(o) <=> EndHandled(o)
      BY <1>2 DEF Over, Known, EndHandled
    <2>3. CASE sub[o] \in {"idle", "adding"}
      BY <2>3 DEF Share, Outstanding
    <2>4. CASE sub[o] \notin {"idle", "adding"} /\ (Ended(o) <=> Over(o))
      BY <2>1, <2>4 DEF Share, Outstanding
    <2>5. CASE sub[o] \notin {"idle", "adding"} /\ ex[o].filled = Quantity
      <3>3. position[o] = Quantity /\ Quantity - Quantity = 0 /\ 0 - 0 = 0
        BY <2>1, <2>5
      <3>4. (IF Ended(o) THEN Quantity - ex[o].filled ELSE 0) = 0
        BY <2>5, <3>3, Zenon
      <3>1. Share(o) = 0
        BY <2>5, <3>3, <3>4, Zenon DEF Share
      <3>2. Outstanding(o) = 0
        <4>1. CASE Over(o)
          BY <4>1 DEF Outstanding
        <4>2. CASE ~Over(o)
          BY <2>1, <2>5, <4>2 DEF Outstanding
        <4> QED
          BY <4>1, <4>2
      <3> QED
        BY <3>1, <3>2
    <2>6. CASE Restart
      <3>1. EndHandled(o) => Ended(o)
        BY <1>1, <2>6 DEF EndNoted, Ended
      <3>2. Ended(o) => ex[o].state \in {"filled", "cancelled", "rejected"}
        BY <1>1, EndedOver
      <3>3. ex[o].state = "cancelled" => EndHandled(o)
        BY <1>1, <1>2 DEF EndRight, EndHandled, Final
      <3>4. ex[o].state = "filled" => ex[o].filled = Quantity
        BY <1>1 DEF EndRight
      <3>5. ex[o].state # "rejected"
        BY <2>6 DEF Regular
      <3> QED
        BY <2>2, <2>3, <2>4, <2>5, <3>1, <3>2, <3>3, <3>4, <3>5
    <2>7. CASE ~Restart
      BY <2>2, <2>3, <2>4, <2>7 DEF Ended
    <2> QED
      BY <2>6, <2>7
  <1>5. Shares = [o \in Orders |-> Outstanding(o)]
    BY <1>4 DEF Shares
  <1> QED
    BY <1>3, <1>5, OutstandingSum DEF Total

(* The frozen cash is exact: whatever the threads interleave, unless they  *)
(* race, the release of every message and trade is the share its order     *)
(* loses.                                                                  *)
THEOREM CashExact == Spec => []FrozenExact
  <1>1. Init => MInv
    BY InitCash, InitList, InitTold, InitPInv, InitOInv DEF MInv, FInv
  <1>2. MInv /\ [Next]_vars => MInv'
    BY NextMInv
  <1>3. MInv => FrozenExact
    BY MInvExact
  <1> QED
    BY <1>1, <1>2, <1>3, PTL DEF Spec
=============================================================================
