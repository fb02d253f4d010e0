------------------------- MODULE StartAndFeedProofs -------------------------
(***************************************************************************)
(* What a start and its sessions promise, and what becomes of the ticks of *)
(* the instruments that were subscribed to: the two parts of the way from  *)
(* the market data front to a strategy.  Each has an invariant of its own  *)
(* (IInv of Startup, FeedInv of TickFeed).                                 *)
(***************************************************************************)
EXTENDS Startup, TickFeed, FiniteSetTheorems, SequenceTheorems, TLAPS

-----------------------------------------------------------------------------
(* What a start and its sessions promise, for any instruments and trades,  *)
(* any size of a batch and any number of retries, disconnections and       *)
(* faults: the market data front sends ticks of the whole universe, and    *)
(* each trade of the day is in the positions once, but for the exceptions  *)
(* the property names.                                                     *)
(*                                                                         *)
(* The argument for the subscriptions: what is in the universe and not     *)
(* subscribed to is in the batch one of two threads is just adding, or the *)
(* callback will subscribe to it (Subscribed).  For the trades: from the   *)
(* positions' answer on, each trade of the day is in the positions, booked *)
(* or in the stream of the session (Accounted), a log-in puts all of them  *)
(* in the stream again, and a position counts a trade as often as it was   *)
(* fetched with it and booked (Counted, BookedOnce).                       *)

Places == {"connect", "wait", "asleep", "woken", "sync", "date", "build", "built", "universe",
           "ready", "dead"}
AllIns == StgyUniverse \cup {TradedIn[t] : t \in Trades}
Work   == [todo : SUBSET AllIns, cur : SUBSET AllIns]

Types ==
    /\ main \in [at : Places, front : Fronts, step : 1..(Len(Steps) + 1), tries : Nat]
    /\ session \in [Fronts -> BOOLEAN] /\ callback \in BOOLEAN
    /\ adding \in [Adders -> Work] /\ known \subseteq AllIns
    /\ done \in 0..Len(TradedIn) /\ stream \in Seq(Trades)
    /\ date \in {"none", "today", "past"} /\ portfolio \in BOOLEAN
    /\ pos \subseteq Trades /\ backward \subseteq Trades
    /\ count \in [Trades -> Nat]

(* What is in the universe and not subscribed to is in the batch a thread  *)
(* is just adding, or will be when the callback subscribes again.          *)
Subscribed ==
    session["md"] /\ ~callback
        => universe \subseteq subs \cup adding["main"].cur \cup adding["td"].cur

(* How far the Python thread is.                                           *)
Flow ==
    /\ main.at \in {"connect", "wait", "asleep", "woken"} => main.step = 1
    /\ main.at = "sync" => main.step <= Len(Steps)
    /\ main.at \in {"date", "build", "built", "universe", "ready"} => main.step > 4
    /\ portfolio => main.step > 4 /\ main.at \in {"universe", "ready", "dead"}
    /\ main.at \in {"universe", "ready"} => portfolio
    /\ date = "past" => portfolio
    /\ ~portfolio => backward = {}

(* A position holds the trades it was fetched with and those booked.       *)
Counted ==
    main.at = "built" \/ portfolio => \A t \in Trades :
        count[t] = (IF t \in pos THEN 1 ELSE 0) + (IF t \in backward THEN 1 ELSE 0)

BookedOnce == "fetched_before" \notin odd => pos \cap backward = {}

(* Once the positions are reported (the fourth step), a trade of the day   *)
(* is in them, is booked, or is on its way.                                *)
Accounted ==
    session["td"] /\ main.step > 4 /\ (main.at # "dead" \/ portfolio)
    /\ odd \cap {"while_fetching", "midnight"} = {}
        => 1..done \subseteq pos \cup backward \cup ToSet(stream)

IInv == Types /\ Subscribed /\ Flow /\ Counted /\ BookedOnce /\ Accounted

-----------------------------------------------------------------------------
(* The queries of connect, by their place; the fourth step is CTP's report *)
(* of the positions, the fifth its answer.                                 *)
LEMMA StepsInOrder ==
    /\ Len(Steps) = 7
    /\ \A n \in 1..7 : /\ Steps[n] = "report" <=> n = 4
                       /\ Steps[n] = "position" <=> n = 5
  BY DEF Steps

(* The trades of the day are numbered in the order they are made.          *)
LEMMA TradesAreNumbers ==
    /\ Len(TradedIn) \in Nat
    /\ \A n \in 0..Len(TradedIn) : /\ [t \in 1..n |-> t] \in Seq(Trades)
                                   /\ ToSet([t \in 1..n |-> t]) = 1..n
  <1>1. Len(TradedIn) \in Nat
    BY StartupAssumption
  <1>2. ASSUME NEW n \in 0..Len(TradedIn)
        PROVE  /\ [t \in 1..n |-> t] \in Seq(Trades)
               /\ ToSet([t \in 1..n |-> t]) = 1..n
    BY <1>1 DEF Trades, ToSet
  <1> QED
    BY <1>1, <1>2

(* The first element of a sequence and the rest hold all its elements.     *)
LEMMA HeadAndTail ==
    ASSUME NEW S, NEW s \in Seq(S), s # <<>>
    PROVE  /\ Head(s) \in S /\ Tail(s) \in Seq(S)
           /\ ToSet(s) \subseteq ToSet(Tail(s)) \cup {Head(s)}
  <1>1. Len(s) \in Nat \ {0} /\ Head(s) = s[1] /\ Tail(s) \in Seq(S)
    OBVIOUS
  <1>2. Len(Tail(s)) = Len(s) - 1 /\ \A i \in 1..(Len(s) - 1) : Tail(s)[i] = s[i + 1]
    OBVIOUS
  <1>3. ASSUME NEW i \in 1..Len(s) PROVE s[i] \in ToSet(Tail(s)) \cup {Head(s)}
    <2>1. CASE i = 1
      BY <1>1, <2>1
    <2>2. CASE i # 1
      <3>1. i - 1 \in 1..(Len(s) - 1) /\ Tail(s)[i - 1] = s[i]
        BY <1>1, <1>2, <2>2
      <3>2. i - 1 \in DOMAIN Tail(s)
        BY <1>1, <1>2, <3>1
      <3> QED
        BY <3>1, <3>2 DEF ToSet
    <2> QED
      BY <2>1, <2>2
  <1> QED
    BY <1>1, <1>3 DEF ToSet

(* A sequence keeps its elements when one is appended.                     *)
LEMMA AppendedSet ==
    ASSUME NEW S, NEW s \in Seq(S), NEW x \in S
    PROVE  Append(s, x) \in Seq(S) /\ ToSet(s) \cup {x} \subseteq ToSet(Append(s, x))
  <1>1. /\ Append(s, x) \in Seq(S) /\ Len(s) \in Nat /\ Len(Append(s, x)) = Len(s) + 1
        /\ \A i \in 1..Len(s) : Append(s, x)[i] = s[i]
        /\ Append(s, x)[Len(s) + 1] = x
    OBVIOUS
  <1>2. DOMAIN s = 1..Len(s) /\ DOMAIN Append(s, x) = 1..(Len(s) + 1)
    BY <1>1
  <1> QED
    BY <1>1, <1>2 DEF ToSet

(* What the main thread keeps, the step any number.                         *)
MainRecs == [at : Places, front : Fronts, step : Nat, tries : Nat]

(* What a change of one field of main leaves.                              *)
LEMMA OneField ==
    \A m \in MainRecs :
        /\ \A a \in Places :
              /\ [m EXCEPT !.at = a]
                     = [at |-> a, front |-> m.front, step |-> m.step, tries |-> m.tries]
              /\ [m EXCEPT !.at = a] \in MainRecs
        /\ \A f \in Fronts :
              /\ [m EXCEPT !.front = f]
                     = [at |-> m.at, front |-> f, step |-> m.step, tries |-> m.tries]
              /\ [m EXCEPT !.front = f] \in MainRecs
        /\ \A n \in Nat :
              /\ [m EXCEPT !.step = n]
                     = [at |-> m.at, front |-> m.front, step |-> n, tries |-> m.tries]
              /\ [m EXCEPT !.step = n] \in MainRecs
        /\ \A r \in Nat :
              [m EXCEPT !.tries = r]
                  = [at |-> m.at, front |-> m.front, step |-> m.step, tries |-> r]
  BY DEF MainRecs

(* A move that also changes the tries.                                     *)
LEMMA AtAndTries ==
    ASSUME NEW m \in MainRecs, NEW a \in Places, NEW r \in Nat
    PROVE  [m EXCEPT !.at = a, !.tries = r]
              = [at |-> a, front |-> m.front, step |-> m.step, tries |-> r]
  <1> DEFINE ma == [m EXCEPT !.at = a]
             mb == ma
  <1>1. /\ ma = [at |-> a, front |-> m.front, step |-> m.step, tries |-> m.tries]
        /\ ma \in MainRecs
    BY OneField
  <1>2. /\ mb = [at |-> ma.at, front |-> ma.front, step |-> ma.step, tries |-> ma.tries]
        /\ mb \in MainRecs
    BY <1>1, OneField
  <1>3. [mb EXCEPT !.tries = r]
            = [at |-> mb.at, front |-> mb.front, step |-> mb.step, tries |-> r]
    BY <1>2, OneField
  <1>4. [m EXCEPT !.at = a, !.tries = r] = [mb EXCEPT !.tries = r]
    BY Zenon
  <1>5. /\ ma.at = a /\ ma.front = m.front /\ ma.step = m.step
        /\ mb.at = ma.at /\ mb.front = ma.front /\ mb.step = ma.step
    <2> HIDE DEF mb
    <2>1. mb.at = ma.at /\ mb.front = ma.front /\ mb.step = ma.step
      BY <1>2
    <2> HIDE DEF ma
    <2>2. ma.at = a /\ ma.front = m.front /\ ma.step = m.step
      BY <1>1
    <2> QED
      BY <2>1, <2>2
  <1> HIDE DEF ma, mb
  <1> QED
    BY <1>3, <1>4, <1>5

(* A move to the other front.                                              *)
LEMMA AtFrontAndTries ==
    ASSUME NEW m \in MainRecs, NEW a \in Places, NEW f \in Fronts, NEW r \in Nat
    PROVE  [m EXCEPT !.at = a, !.front = f, !.tries = r]
              = [at |-> a, front |-> f, step |-> m.step, tries |-> r]
  <1> DEFINE ma == [m EXCEPT !.at = a]
             mb == [ma EXCEPT !.front = f]
  <1>1. /\ ma = [at |-> a, front |-> m.front, step |-> m.step, tries |-> m.tries]
        /\ ma \in MainRecs
    BY OneField
  <1>2. /\ mb = [at |-> ma.at, front |-> f, step |-> ma.step, tries |-> ma.tries]
        /\ mb \in MainRecs
    BY <1>1, OneField
  <1>3. [mb EXCEPT !.tries = r]
            = [at |-> mb.at, front |-> mb.front, step |-> mb.step, tries |-> r]
    BY <1>2, OneField
  <1>4. [m EXCEPT !.at = a, !.front = f, !.tries = r] = [mb EXCEPT !.tries = r]
    BY Zenon
  <1>5. /\ ma.at = a /\ ma.front = m.front /\ ma.step = m.step
        /\ mb.at = ma.at /\ mb.front = f /\ mb.step = ma.step
    <2> HIDE DEF mb
    <2>1. mb.at = ma.at /\ mb.front = f /\ mb.step = ma.step
      BY <1>2
    <2> HIDE DEF ma
    <2>2. ma.at = a /\ ma.front = m.front /\ ma.step = m.step
      BY <1>1
    <2> QED
      BY <2>1, <2>2
  <1> HIDE DEF ma, mb
  <1> QED
    BY <1>3, <1>4, <1>5

(* A move to another query.                                                *)
LEMMA AtStepAndTries ==
    ASSUME NEW m \in MainRecs, NEW a \in Places, NEW n \in Nat, NEW r \in Nat
    PROVE  [m EXCEPT !.at = a, !.step = n, !.tries = r]
              = [at |-> a, front |-> m.front, step |-> n, tries |-> r]
  <1> DEFINE ma == [m EXCEPT !.at = a]
             mb == [ma EXCEPT !.step = n]
  <1>1. /\ ma = [at |-> a, front |-> m.front, step |-> m.step, tries |-> m.tries]
        /\ ma \in MainRecs
    BY OneField
  <1>2. /\ mb = [at |-> ma.at, front |-> ma.front, step |-> n, tries |-> ma.tries]
        /\ mb \in MainRecs
    BY <1>1, OneField
  <1>3. [mb EXCEPT !.tries = r]
            = [at |-> mb.at, front |-> mb.front, step |-> mb.step, tries |-> r]
    BY <1>2, OneField
  <1>4. [m EXCEPT !.at = a, !.step = n, !.tries = r] = [mb EXCEPT !.tries = r]
    BY Zenon
  <1>5. /\ ma.at = a /\ ma.front = m.front /\ ma.step = m.step
        /\ mb.at = ma.at /\ mb.front = ma.front /\ mb.step = n
    <2> HIDE DEF mb
    <2>1. mb.at = ma.at /\ mb.front = ma.front /\ mb.step = n
      BY <1>2
    <2> HIDE DEF ma
    <2>2. ma.at = a /\ ma.front = m.front /\ ma.step = m.step
      BY <1>1
    <2> QED
      BY <2>1, <2>2
  <1> HIDE DEF ma, mb
  <1> QED
    BY <1>3, <1>4, <1>5

(* The invariant holds when the program starts.                            *)
LEMMA Initially == Init => IInv
  <1> SUFFICES ASSUME Init PROVE IInv
    OBVIOUS
  <1> USE DEF Init
  <1>1. Types
    <2>1. main \in [at : Places, front : Fronts, step : 1..(Len(Steps) + 1), tries : Nat]
      BY StepsInOrder DEF Places, Fronts
    <2>2. adding \in [Adders -> Work] /\ session \in [Fronts -> BOOLEAN]
      BY DEF NoWork, Work
    <2>3. done \in 0..Len(TradedIn) /\ count \in [Trades -> Nat] /\ stream \in Seq(Trades)
      BY TradesAreNumbers
    <2> QED
      BY <2>1, <2>2, <2>3 DEF Types
  <1>2. Subscribed /\ Flow /\ Counted /\ BookedOnce /\ Accounted
    BY StepsInOrder DEF Subscribed, Flow, Counted, BookedOnce, Accounted, Fronts
  <1> QED
    BY <1>1, <1>2 DEF IInv

(* Steps that touch neither the universe nor the subscriptions.            *)
LEMMA SubscribedFrame ==
    ASSUME Subscribed, UNCHANGED <<universe, subs>>, session'["md"] => session["md"],
           callback => callback',
           \A t \in Adders : adding'[t].cur = adding[t].cur
    PROVE  Subscribed'
  BY DEF Subscribed, Adders

(* Steps that touch no trade.                                              *)
LEMMA TradesFrame ==
    ASSUME IInv, UNCHANGED <<done, stream, pos, portfolio, count, backward>>,
           odd \subseteq odd', session'["td"] => session["td"],
           main'.step > 4 => main.step > 4, main.at = "dead" => main'.at = "dead",
           main'.at = "built" => main.at = "built"
    PROVE  Counted' /\ BookedOnce' /\ Accounted'
  <1>1. Counted'
    BY DEF IInv, Counted
  <1>2. BookedOnce'
    BY DEF IInv, BookedOnce
  <1>3. Accounted'
    BY DEF IInv, Accounted
  <1> QED
    BY <1>1, <1>2, <1>3

(* A log-in on its way: the callback at most has something to do.          *)
LEMMA LoginEffect ==
    ASSUME NEW f \in Fronts, NEW up, Login(f, up)
    PROVE  callback' \in {callback, TRUE} /\ odd \subseteq odd'
  BY DEF Login, MdLogin, TdLogin, SendLogin, Fronts

(* The Python thread waits for a log-in.                                   *)
LEMMA ConnectKeeps ==
    ASSUME IInv, Connect PROVE IInv'
  <1> DEFINE f == main.front
  <1>1. /\ f \in Fronts /\ main.at = "connect" /\ main' = [main EXCEPT !.at = "wait"]
        /\ UNCHANGED <<universe, adding>> /\ UNCHANGED tradeVars
    BY DEF Connect, IInv, Types
  <1>2. \/ /\ callback' \in {callback, TRUE} /\ odd \subseteq odd'
           /\ UNCHANGED <<session, subs>>
        \/ /\ session' = [session EXCEPT ![f] = FALSE] /\ UNCHANGED <<callback, odd>>
           /\ subs' = IF f = "md" THEN {} ELSE subs
    BY <1>1, LoginEffect DEF Connect
  <1> HIDE DEF f
  <1>3. Types'
    BY <1>1, <1>2 DEF IInv, Types, Places, tradeVars
  <1>4. Subscribed'
    BY <1>1, <1>2 DEF IInv, Types, Subscribed, Fronts
  <1>5. Flow'
    BY <1>1 DEF IInv, Types, Flow, tradeVars
  <1>6. Counted' /\ BookedOnce' /\ Accounted'
    <2>1. session'["td"] => session["td"]
      BY <1>2 DEF IInv, Types, Fronts
    <2>2. odd \subseteq odd' /\ main'.at = "wait" /\ main'.step = main.step
      BY <1>1, <1>2 DEF IInv, Types
    <2> QED
      BY <1>1, <2>1, <2>2, TradesFrame DEF tradeVars
  <1> QED
    BY <1>3, <1>4, <1>5, <1>6 DEF IInv

(* The Python thread waits, wakes and tries again.                         *)
LEMMA WaitKeeps ==
    ASSUME IInv, WaitFor \/ SpuriousWake \/ Woken PROVE IInv'
  <1>1. /\ UNCHANGED <<sessVars, subVars, tradeVars, odd>>
        /\ main.at \in {"wait", "asleep", "woken"}
        /\ main' \in [at : Places, front : Fronts, step : {main.step}, tries : Nat]
        /\ main'.at \in {"asleep", "woken", "connect", "sync", "dead"}
    <2>1. main \in [at : Places, front : Fronts, step : 1..(Len(Steps) + 1), tries : Nat]
      BY DEF IInv, Types
    <2>2. CASE WaitFor \/ SpuriousWake
      BY <2>1, <2>2 DEF WaitFor, SpuriousWake, bounds, Places
    <2>3. CASE Woken
      <3>1. UNCHANGED <<sessVars, subVars, tradeVars, odd>> /\ main.at = "woken"
        BY <2>3 DEF Woken, bounds
      <3>2. \/ main' = [main EXCEPT !.at = "connect", !.front = "td", !.tries = 0]
            \/ main' = [main EXCEPT !.at = "sync", !.tries = 0]
            \/ main' = [main EXCEPT !.at = "connect", !.tries = main.tries + 1]
            \/ main' = [main EXCEPT !.at = "dead"]
        BY <2>3 DEF Woken, Dies
      <3>3. main.tries + 1 \in Nat /\ "td" \in Fronts
        BY <2>1 DEF Fronts
      <3>4. main \in MainRecs /\ {"connect", "sync", "dead"} \subseteq Places /\ 0 \in Nat
        BY <2>1 DEF MainRecs, Places
      <3>5. \/ main' = [at |-> "connect", front |-> "td", step |-> main.step, tries |-> 0]
            \/ main' = [at |-> "sync", front |-> main.front, step |-> main.step, tries |-> 0]
            \/ main' = [at |-> "connect", front |-> main.front, step |-> main.step,
                         tries |-> main.tries + 1]
            \/ main' = [main EXCEPT !.at = "dead"]
        <4>1. /\ main \in MainRecs /\ "connect" \in Places /\ "sync" \in Places
              /\ "td" \in Fronts /\ main.front \in Fronts /\ 0 \in Nat /\ main.tries + 1 \in Nat
          BY <3>3, <3>4 DEF MainRecs
        <4>2. [main EXCEPT !.at = "connect", !.front = "td", !.tries = 0]
                 = [at |-> "connect", front |-> "td", step |-> main.step, tries |-> 0]
          BY <4>1, AtFrontAndTries, Zenon
        <4>3. [main EXCEPT !.at = "sync", !.tries = 0]
                 = [at |-> "sync", front |-> main.front, step |-> main.step, tries |-> 0]
          BY <4>1, AtAndTries, Zenon
        <4>4. [main EXCEPT !.at = "connect", !.tries = main.tries + 1]
                 = [at |-> "connect", front |-> main.front, step |-> main.step,
                    tries |-> main.tries + 1]
          BY <4>1, AtAndTries, Zenon
        <4> QED
          BY <3>2, <4>2, <4>3, <4>4, Zenon
      <3>6. /\ main' \in [at : Places, front : Fronts, step : {main.step}, tries : Nat]
            /\ main'.at \in {"connect", "sync", "dead"}
        BY <2>1, <3>3, <3>4, <3>5
      <3> QED
        BY <3>1, <3>6
    <2> QED
      BY <2>2, <2>3
  <1>2. Types'
    BY <1>1 DEF IInv, Types, sessVars, subVars, tradeVars
  <1>3. Subscribed'
    BY <1>1, SubscribedFrame DEF IInv, sessVars, subVars
  <1>4. Flow'
    BY <1>1, StepsInOrder DEF IInv, Types, Flow, tradeVars
  <1>5. Counted' /\ BookedOnce' /\ Accounted'
    BY <1>1, TradesFrame DEF IInv, sessVars, tradeVars
  <1> QED
    BY <1>2, <1>3, <1>4, <1>5 DEF IInv

(* The callbacks of the sessions.                                          *)
LEMMA SessionKeeps ==
    ASSUME IInv, NEW f \in Fronts,
           \/ \E k \in 1..Len(net[f]) : OnFrontConnected(f, k)
           \/ LoginRefused(f)
    PROVE  IInv'
  <1>1. /\ UNCHANGED <<session, subVars, tradeVars>>
        /\ callback' \in {callback, TRUE} /\ odd \subseteq odd'
        /\ main' = main \/ main' = [main EXCEPT !.at = "dead"]
    <2>1. CASE \E k \in 1..Len(net[f]) : OnFrontConnected(f, k)
      BY <2>1, LoginEffect DEF OnFrontConnected, Connected
    <2>2. CASE LoginRefused(f)
      BY <2>2 DEF LoginRefused, Dies
    <2> QED
      BY <2>1, <2>2
  <1>2. Types'
    BY <1>1 DEF IInv, Types, subVars, tradeVars, Places
  <1>3. Subscribed'
    <2>1. callback => callback'
      BY <1>1, Zenon
    <2>2. UNCHANGED <<session, universe, subs, adding>>
      BY <1>1 DEF subVars
    <2> QED
      BY <2>1, <2>2, SubscribedFrame DEF IInv
  <1>4. /\ main'.step = main.step /\ (main'.at = main.at \/ main'.at = "dead")
    BY <1>1 DEF IInv, Types
  <1>5. Flow'
    BY <1>1, <1>4 DEF IInv, Flow, tradeVars
  <1>6. Counted' /\ BookedOnce' /\ Accounted'
    BY <1>1, <1>4, TradesFrame DEF tradeVars
  <1> QED
    BY <1>2, <1>3, <1>5, <1>6 DEF IInv

(* A disconnection empties the stream of trades and the subscriptions.     *)
LEMMA DisconnectKeeps ==
    ASSUME IInv, NEW f \in Fronts, NEW k, OnFrontDisconnected(f, k) PROVE IInv'
  <1>1. /\ UNCHANGED <<main, callback, universe, adding, done, date, account, pos, portfolio>>
        /\ UNCHANGED <<known, count, backward, odd>>
        /\ \/ /\ session' = [session EXCEPT ![f] = FALSE]
              /\ subs' = IF f = "md" THEN {} ELSE subs
              /\ stream' = IF f = "td" THEN <<>> ELSE stream
           \/ UNCHANGED <<session, subs, stream>>
    BY DEF OnFrontDisconnected
  <1>2. CASE UNCHANGED <<session, subs, stream>>
    <2>1. Types'
      BY <1>1, <1>2 DEF IInv, Types
    <2>2. Subscribed' /\ Flow'
      BY <1>1, <1>2 DEF IInv, Subscribed, Flow
    <2>3. Counted' /\ BookedOnce' /\ Accounted'
      BY <1>1, <1>2, TradesFrame
    <2> QED
      BY <2>1, <2>2, <2>3 DEF IInv
  <1>3. CASE /\ session' = [session EXCEPT ![f] = FALSE]
             /\ subs' = IF f = "md" THEN {} ELSE subs
             /\ stream' = IF f = "td" THEN <<>> ELSE stream
    <2>1. Types'
      BY <1>1, <1>3 DEF IInv, Types
    <2>2. Subscribed' /\ Flow'
      BY <1>1, <1>3 DEF IInv, Types, Subscribed, Flow, Fronts
    <2>3. Counted' /\ BookedOnce'
      BY <1>1 DEF IInv, Counted, BookedOnce
    <2>4. Accounted'
      <3>1. ~session'["td"] \/ (session'["td"] = session["td"] /\ stream' = stream)
        BY <1>3 DEF IInv, Types, Fronts
      <3> QED
        BY <1>1, <3>1 DEF IInv, Accounted
    <2> QED
      BY <2>1, <2>2, <2>3, <2>4 DEF IInv
  <1> QED
    BY <1>1, <1>2, <1>3

(* A log-in at the trade front puts all the trades of the day in the       *)
(* stream; one at the market data front makes the callback subscribe.      *)
LEMMA LoginKeeps ==
    ASSUME IInv, NEW f \in Fronts, OnRspUserLogin(f) PROVE IInv'
  <1>1. /\ session' = [session EXCEPT ![f] = TRUE]
        /\ callback' = (callback \/ f = "md")
        /\ stream' = IF f = "td" THEN [t \in 1..done |-> t] ELSE stream
        /\ UNCHANGED <<subVars, done, date, account, pos, portfolio, known, count, backward>>
        /\ odd \subseteq odd'
        /\ main' = [main EXCEPT !.at = IF main.front = f /\ @ = "asleep" THEN "woken" ELSE @]
    BY DEF OnRspUserLogin, Notify
  <1>2. /\ main'.step = main.step
        /\ main'.at = main.at \/ (main.at = "asleep" /\ main'.at = "woken")
    BY <1>1 DEF IInv, Types
  <1>3. Types'
    <2>1. main' \in [at : Places, front : Fronts, step : 1..(Len(Steps) + 1), tries : Nat]
      BY <1>1 DEF IInv, Types, Places
    <2>2. stream' \in Seq(Trades)
      BY <1>1, TradesAreNumbers DEF IInv, Types
    <2>3. callback' \in BOOLEAN /\ session' \in [Fronts -> BOOLEAN]
      BY <1>1 DEF IInv, Types
    <2> QED
      BY <1>1, <2>1, <2>2, <2>3 DEF IInv, Types, subVars
  <1>4. Subscribed'
    BY <1>1 DEF IInv, Types, Subscribed, subVars, Fronts
  <1>5. Flow'
    BY <1>1, <1>2 DEF IInv, Flow
  <1>6. Counted' /\ BookedOnce' /\ Accounted'
    <2>1. CASE f = "md"
      BY <1>1, <1>2, <2>1, TradesFrame DEF IInv, Types, Fronts
    <2>2. CASE f = "td"
      <3>1. ToSet(stream') = 1..done
        BY <1>1, <2>2, TradesAreNumbers DEF IInv, Types
      <3>2. Counted' /\ BookedOnce'
        BY <1>1, <1>2 DEF IInv, Counted, BookedOnce
      <3>3. Accounted'
        BY <1>1, <3>1 DEF Accounted
      <3> QED
        BY <3>2, <3>3
    <2> QED
      BY <2>1, <2>2 DEF Fronts
  <1> QED
    BY <1>3, <1>4, <1>5, <1>6 DEF IInv

(* The two ways to subscribe.                                              *)
LEMMA SubscribeKeeps ==
    ASSUME IInv, Resubscribe \/ \E t \in Adders : AddBatch(t) PROVE IInv'
  <1>1. UNCHANGED <<main, session, tradeVars, odd>>
    BY DEF Resubscribe, AddBatch, sessVars, bounds
  <1>2. Counted' /\ BookedOnce' /\ Accounted'
    BY <1>1, TradesFrame DEF tradeVars
  <1>3. Flow'
    BY <1>1 DEF IInv, Flow, tradeVars
  <1>4. Types' /\ Subscribed'
    <2>1. CASE Resubscribe
      <3>1. callback' = FALSE /\ UNCHANGED <<universe, adding>>
            /\ subs' = IF session["md"] THEN subs \cup universe ELSE subs
        BY <2>1 DEF Resubscribe, Subscribe
      <3> QED
        BY <1>1, <3>1 DEF IInv, Types, Subscribed, tradeVars
    <2>2. ASSUME NEW t \in Adders, AddBatch(t) PROVE Types' /\ Subscribed'
      <3>1. callback' = callback
        BY <2>2 DEF AddBatch, sessVars
      <3>2. \/ \E b \in SUBSET adding[t].todo :
                  /\ universe' = universe \cup b /\ adding[t].cur = {} /\ subs' = subs
                  /\ adding' = [adding EXCEPT ![t] = [todo |-> @.todo \ b, cur |-> b]]
            \/ /\ subs' = IF session["md"] THEN subs \cup adding[t].cur ELSE subs
               /\ adding' = [adding EXCEPT ![t].cur = {}] /\ universe' = universe
        BY <2>2 DEF AddBatch, Batches, Subscribe
      <3>3. adding \in [Adders -> Work] /\ adding[t] \in Work
        BY DEF IInv, Types
      <3>4. adding' \in [Adders -> Work]
        BY <3>2, <3>3 DEF Work
      <3>5. Types'
        BY <1>1, <3>1, <3>4 DEF IInv, Types, tradeVars
      <3>6. Subscribed'
        <4>1. /\ \A a \in Adders : a # t => adding'[a] = adding[a]
              /\ t \in Adders /\ t \in {"main", "td"} /\ "main" \in Adders /\ "td" \in Adders
          BY <3>2, <3>3 DEF Adders
        <4>2. ASSUME session["md"], ~callback
              PROVE  universe \subseteq subs \cup adding["main"].cur \cup adding["td"].cur
          BY <4>2 DEF IInv, Subscribed
        <4>3. ASSUME NEW b, universe' = universe \cup b, adding[t].cur = {}, subs' = subs,
                     adding' = [adding EXCEPT ![t] = [todo |-> @.todo \ b, cur |-> b]]
              PROVE  Subscribed'
          <5>1. adding'[t].cur = b
            BY <3>3, <4>3
          <5> QED
            BY <1>1, <3>1, <4>1, <4>2, <4>3, <5>1 DEF Subscribed
        <4>4. ASSUME subs' = IF session["md"] THEN subs \cup adding[t].cur ELSE subs,
                     universe' = universe
              PROVE  Subscribed'
          BY <1>1, <3>1, <4>1, <4>2, <4>4 DEF Subscribed
        <4> QED
          BY <3>2, <4>3, <4>4
      <3> QED
        BY <3>5, <3>6
    <2> QED
      BY <2>1, <2>2
  <1> QED
    BY <1>2, <1>3, <1>4 DEF IInv

(* A query of the Python thread: none but the report touches the trades.   *)
LEMMA FetchKeeps ==
    ASSUME IInv, NEW answer \in {"rows", "empty", "none"}, Query(answer) PROVE IInv'
  <1>1. /\ main.at = "sync" /\ main.step \in 1..7
        /\ UNCHANGED <<sessVars, subVars, done, stream, date, portfolio, known, count, backward, odd>>
    BY StepsInOrder DEF Query, ConfirmSettlementInfo, QryInstrument, QryAccount, QryPosition,
       QryOrder, QryCommission, Answered, IInv, Types, Flow
  <1>2. /\ UNCHANGED pos
        /\ \/ main'.at = "dead" /\ main'.step = main.step
           \/ /\ main'.step = main.step + 1 /\ main'.at = IF main.step = 7 THEN "date" ELSE "sync"
              /\ main.step # 4
    <2>1. /\ UNCHANGED pos
          /\ \/ main' = [main EXCEPT !.at = "dead"]
             \/ main' = NextStep /\ Steps[main.step] # "report"
      BY DEF Query, ConfirmSettlementInfo, QryInstrument, QryAccount, QryPosition,
             QryOrder, QryCommission, Answered, Dies
    <2> QED
      BY <1>1, <2>1, StepsInOrder DEF NextStep, IInv, Types
  <1>3. ~portfolio /\ backward = {}
    BY <1>1 DEF IInv, Flow
  <1>4. Types'
    <2>1. main' \in [at : Places, front : Fronts, step : 1..(Len(Steps) + 1), tries : Nat]
      <3>1. main' \in {[main EXCEPT !.at = "dead"], NextStep}
        BY DEF Query, ConfirmSettlementInfo, QryInstrument, QryAccount, QryPosition,
               QryOrder, QryCommission, Answered, Dies
      <3>2. main \in [at : Places, front : Fronts, step : 1..8, tries : Nat]
        BY StepsInOrder DEF IInv, Types
      <3>3. \E a \in Places, n \in 1..8 :
               NextStep = [main EXCEPT !.at = a, !.step = n, !.tries = 0]
        <4> DEFINE a == IF main.at = "sync" /\ main.step = Len(Steps) THEN "date" ELSE main.at
        <4>1. NextStep = [main EXCEPT !.at = a, !.step = main.step + 1, !.tries = 0]
          BY DEF NextStep
        <4>2. a \in Places /\ main.step + 1 \in 1..8
          BY <1>1, <3>2 DEF Places
        <4> QED
          BY <4>1, <4>2
      <3>4. NextStep \in [at : Places, front : Fronts, step : 1..8, tries : Nat]
        <4>1. PICK a \in Places, n \in 1..8 :
                 NextStep = [main EXCEPT !.at = a, !.step = n, !.tries = 0]
          BY <3>3
        <4>2. main \in MainRecs /\ n \in Nat /\ 0 \in Nat /\ main.front \in Fronts
          BY <3>2, StepsInOrder DEF MainRecs
        <4>3. NextStep = [at |-> a, front |-> main.front, step |-> n, tries |-> 0]
          BY <4>1, <4>2, AtStepAndTries, Zenon
        <4> QED
          BY <4>2, <4>3
      <3>5. [main EXCEPT !.at = "dead"] \in [at : Places, front : Fronts, step : 1..8, tries : Nat]
        BY <3>2 DEF Places
      <3> QED
        BY <3>1, <3>4, <3>5, StepsInOrder
    <2> QED
      BY <1>1, <1>2, <2>1 DEF IInv, Types, sessVars, subVars
  <1>5. Subscribed'
    BY <1>1, SubscribedFrame DEF IInv, sessVars, subVars
  <1>6. Flow'
    BY <1>1, <1>2, <1>3, StepsInOrder DEF IInv, Flow
  <1>7. Counted' /\ BookedOnce'
    BY <1>1, <1>2, <1>3 DEF IInv, Counted, BookedOnce
  <1>8. Accounted'
    BY <1>1, <1>2, <1>3 DEF IInv, Accounted, sessVars
  <1> QED
    BY <1>4, <1>5, <1>6, <1>7, <1>8 DEF IInv

(* The report holds the trades of the day so far.                          *)
LEMMA ReportKeeps ==
    ASSUME IInv, Report PROVE IInv'
  <1>1. /\ main.at = "sync" /\ main.step = 4 /\ pos' = 1..done
        /\ main' = [main EXCEPT !.step = main.step + 1]
        /\ UNCHANGED <<sessVars, subVars, done, stream, date, portfolio, known, count, backward, odd>>
    BY StepsInOrder DEF Report, IInv, Types, Flow, bounds
  <1>2. main \in [at : Places, front : Fronts, step : 1..8, tries : Nat]
    BY StepsInOrder DEF IInv, Types
  <1>3. /\ main' \in [at : Places, front : Fronts, step : 1..8, tries : Nat]
        /\ main'.at = "sync" /\ main'.step = 5
    BY <1>1, <1>2
  <1>4. ~portfolio /\ backward = {}
    BY <1>1 DEF IInv, Flow
  <1>5. Types'
    <2>1. 1..done \subseteq Trades
      BY TradesAreNumbers DEF IInv, Types, Trades
    <2> QED
      BY <1>1, <1>3, <2>1, StepsInOrder DEF IInv, Types, sessVars, subVars
  <1>6. Subscribed'
    BY <1>1, SubscribedFrame DEF IInv, sessVars, subVars
  <1>7. Flow'
    BY <1>1, <1>3, <1>4, StepsInOrder DEF IInv, Flow
  <1>8. Counted' /\ BookedOnce'
    BY <1>1, <1>3, <1>4 DEF Counted, BookedOnce
  <1>9. Accounted'
    BY <1>1 DEF Accounted
  <1> QED
    BY <1>5, <1>6, <1>7, <1>8, <1>9 DEF IInv

(* The steps of the Python thread that change only where it is.            *)
LEMMA MainKeeps ==
    ASSUME IInv, QueryFails \/ SetDate \/ BuildFails \/ Ready PROVE IInv'
  <1>1. /\ UNCHANGED <<sessVars, subVars, done, stream, account, pos, portfolio, known>>
        /\ UNCHANGED <<count, backward, odd>>
        /\ date' \in {date, "today"}
        /\ \/ main'.step = main.step
           \/ main.at = "sync" /\ main'.at = "sync" /\ main'.step <= main.step
        /\ main' \in [at : Places, front : Fronts, step : 1..(Len(Steps) + 1), tries : Nat]
        /\ \/ main'.at = main.at \/ main'.at = "dead"
           \/ main.at = "date" /\ main'.at = "build"
           \/ main.at = "universe" /\ main'.at = "ready"
    <2>1. main \in [at : Places, front : Fronts, step : 1..8, tries : Nat]
      BY StepsInOrder DEF IInv, Types
    <2>2. CASE SetDate \/ BuildFails \/ Ready
      BY <2>1, <2>2, StepsInOrder DEF SetDate, BuildFails, Ready, Dies, bounds, tradeVars, Places
    <2>3. CASE QueryFails
      <3> DEFINE n == IF Steps[main.step] = "position" THEN main.step - 1 ELSE main.step
      <3>1. /\ UNCHANGED <<sessVars, subVars, tradeVars, odd>> /\ main.at = "sync"
            /\ \/ main' = [main EXCEPT !.step = n, !.tries = main.tries + 1]
               \/ main' = [main EXCEPT !.at = "dead"]
        BY <2>3 DEF QueryFails, Dies
      <3>2. main.step \in 1..7 /\ n \in 1..7 /\ n <= main.step
        BY <2>1, <3>1, StepsInOrder DEF IInv, Flow
      <3> HIDE DEF n
      <3>3. main' \in [at : Places, front : Fronts, step : 1..8, tries : Nat]
        <4>1. main.tries + 1 \in Nat /\ n \in 1..8 /\ "dead" \in Places
          BY <2>1, <3>2 DEF Places
        <4> QED
          BY <2>1, <3>1, <4>1
      <3>4. \/ main'.at = "dead" /\ main'.step = main.step
            \/ main'.at = "sync" /\ main'.step = n
        BY <2>1, <3>1, <3>2
      <3> QED
        BY <3>1, <3>2, <3>3, <3>4, StepsInOrder DEF tradeVars
    <2> QED
      BY <2>2, <2>3
  <1>2. Types'
    BY <1>1 DEF IInv, Types, sessVars, subVars
  <1>3. Subscribed'
    BY <1>1, SubscribedFrame DEF IInv, sessVars, subVars
  <1>4. Flow'
    <2>1. main.step \in 1..8 /\ main'.step \in 1..8
      BY <1>1, StepsInOrder DEF IInv, Types
    <2> QED
      BY <1>1, <2>1, StepsInOrder DEF IInv, Flow
  <1>5. Counted' /\ BookedOnce' /\ Accounted'
    <2>1. main.step \in 1..8 /\ main'.step \in 1..8
      BY <1>1, StepsInOrder DEF IInv, Types
    <2>2. main'.step > 4 => main.step > 4
      BY <1>1, <2>1
    <2>3. main.at = "dead" => main'.at = "dead"
      BY <1>1
    <2>4. main'.at = "built" => main.at = "built"
      BY <1>1
    <2> QED
      BY <1>1, <2>2, <2>3, <2>4, TradesFrame DEF sessVars
  <1> QED
    BY <1>2, <1>3, <1>4, <1>5 DEF IInv

(* The positions are built, and each of the two lists of instruments is    *)
(* taken up.                                                               *)
LEMMA BuildKeeps ==
    ASSUME IInv, Build \/ InitStrategies PROVE IInv'
  <1>1. /\ UNCHANGED <<sessVars, universe, subs, done, stream, date, account, pos, backward, odd>>
        /\ main.at \in {"build", "built"} /\ main.step > 4
    BY DEF Build, InitStrategies, bounds, IInv, Flow
  <1>2. main \in [at : Places, front : Fronts, step : 1..(Len(Steps) + 1), tries : Nat]
    BY DEF IInv, Types
  <1>3. ~portfolio /\ backward = {}
    BY <1>1 DEF IInv, Flow
  <1>4. CASE Build
    <2>1. /\ main' = [main EXCEPT !.at = "built"] /\ UNCHANGED portfolio
          /\ known' = {TradedIn[t] : t \in pos}
          /\ count' = [t \in Trades |-> IF t \in pos THEN 1 ELSE 0]
          /\ adding' = [adding EXCEPT !["main"].todo = New(known')]
      BY <1>4 DEF Build
    <2>2. known' \subseteq AllIns /\ New(known') \subseteq AllIns
      BY <2>1 DEF IInv, Types, New, AllIns
    <2>3. adding' \in [Adders -> Work] /\ \A t \in Adders : adding'[t].cur = adding[t].cur
      BY <2>1, <2>2 DEF IInv, Types, Work
    <2>4. Types'
      BY <1>1, <1>2, <2>1, <2>2, <2>3 DEF IInv, Types, sessVars, Places
    <2>5. Subscribed'
      BY <1>1, <2>3, SubscribedFrame DEF IInv, sessVars
    <2>6. main'.at = "built" /\ main'.step = main.step
      BY <1>2, <2>1
    <2>7. Flow'
      BY <1>1, <1>3, <2>1, <2>6 DEF IInv, Flow
    <2>8. Counted'
      BY <1>1, <1>3, <2>1 DEF Counted
    <2>9. BookedOnce' /\ Accounted'
      BY <1>1, <1>4, <2>1, <2>6 DEF IInv, BookedOnce, Accounted, sessVars, Build
    <2> QED
      BY <2>4, <2>5, <2>7, <2>8, <2>9 DEF IInv
  <1>5. CASE InitStrategies
    <2>1. /\ main.at = "built" /\ main' = [main EXCEPT !.at = "universe"] /\ portfolio' = TRUE
          /\ UNCHANGED <<known, count>>
          /\ adding' = [adding EXCEPT !["main"].todo = New(StgyUniverse)]
      BY <1>5 DEF InitStrategies
    <2>2. New(StgyUniverse) \subseteq AllIns
      BY DEF New, AllIns
    <2>3. adding' \in [Adders -> Work] /\ \A t \in Adders : adding'[t].cur = adding[t].cur
      BY <2>1, <2>2 DEF IInv, Types, Work
    <2>4. Types'
      <3>1. main' \in [at : Places, front : Fronts, step : 1..(Len(Steps) + 1), tries : Nat]
        BY <2>1 DEF IInv, Types, Places
      <3> QED
        BY <1>1, <2>1, <2>3, <3>1 DEF IInv, Types, sessVars
    <2>5. Subscribed'
      BY <1>1, <2>3, SubscribedFrame DEF IInv, sessVars
    <2>6. main'.at = "universe" /\ main'.step = main.step
      BY <1>2, <2>1
    <2>7. Flow'
      BY <1>1, <1>3, <2>1, <2>6 DEF IInv, Flow
    <2>8. Counted'
      BY <1>1, <2>1 DEF IInv, Counted
    <2>9. BookedOnce' /\ Accounted'
      BY <1>1, <2>1, <2>6 DEF IInv, BookedOnce, Accounted, sessVars
    <2> QED
      BY <2>4, <2>5, <2>7, <2>8, <2>9 DEF IInv
  <1> QED
    BY <1>4, <1>5

(* A trade made at the exchange is sent to a session.                      *)
LEMMA TradeKeeps ==
    ASSUME IInv, Trade PROVE IInv'
  <1>1. /\ done < Len(TradedIn) /\ done' = done + 1
        /\ stream' = IF session["td"] THEN Append(stream, done') ELSE stream
        /\ UNCHANGED <<main, sessVars, subVars, date, account, pos, portfolio, known, count>>
        /\ UNCHANGED <<backward, odd>>
    BY DEF Trade, bounds
  <1>2. done' \in Trades /\ done' \in 0..Len(TradedIn) /\ 1..done' = 1..done \cup {done'}
    BY <1>1, TradesAreNumbers DEF IInv, Types, Trades
  <1>3. stream' \in Seq(Trades) /\ (session["td"] => ToSet(stream) \cup {done'} \subseteq ToSet(stream'))
    BY <1>1, <1>2, AppendedSet DEF IInv, Types
  <1>4. Types'
    BY <1>1, <1>2, <1>3 DEF IInv, Types, sessVars, subVars
  <1>5. Subscribed' /\ Flow'
    BY <1>1 DEF IInv, Subscribed, Flow, sessVars, subVars
  <1>6. Counted' /\ BookedOnce'
    BY <1>1 DEF IInv, Counted, BookedOnce
  <1>7. Accounted'
    BY <1>1, <1>2, <1>3 DEF IInv, Accounted, sessVars
  <1> QED
    BY <1>4, <1>5, <1>6, <1>7 DEF IInv

(* A trade is booked the first time it is announced to a portfolio.        *)
LEMMA OnTradeKeeps ==
    ASSUME IInv, OnTrade PROVE IInv'
  <1> DEFINE t   == Head(stream)
             ins == TradedIn[t]
  <1>1. /\ stream # <<>> /\ stream' = Tail(stream)
        /\ UNCHANGED <<sessVars, universe, subs, done, date, account, pos, portfolio>>
    BY DEF OnTrade
  <1>2. /\ t \in Trades /\ stream' \in Seq(Trades)
        /\ ToSet(stream) \subseteq ToSet(stream') \cup {t}
    BY <1>1, HeadAndTail DEF IInv, Types
  <1>3. ins \in AllIns
    BY <1>2 DEF AllIns
  <1>4. \/ /\ date # "today"
           /\ odd' = IF date = "past" /\ count[t] = 0 THEN odd \cup {"midnight"}
                     ELSE IF main.step > 4 /\ t \notin pos
                          THEN odd \cup {"while_fetching"} ELSE odd
           /\ UNCHANGED <<main, adding, known, count, backward>>
        \/ /\ date = "today" /\ ~portfolio /\ main' = [main EXCEPT !.at = "dead"]
           /\ UNCHANGED <<adding, known, count, backward, odd>>
        \/ /\ date = "today" /\ portfolio /\ t \notin backward
           /\ count' = [count EXCEPT ![t] = @ + 1]
           /\ backward' = backward \cup {t}
           /\ known' = known \cup {ins}
           /\ adding' = [adding EXCEPT !["td"].todo = IF ins \in known THEN {} ELSE New({ins})]
           /\ odd' = IF t \in pos THEN odd \cup {"fetched_before"} ELSE odd
           /\ UNCHANGED main
        \/ /\ date = "today" /\ portfolio /\ t \in backward
           /\ UNCHANGED <<main, adding, known, count, backward, odd>>
    BY DEF OnTrade, Seen, Dies
  <1> HIDE DEF t, ins
  <1>5. adding' \in [Adders -> Work] /\ \A a \in Adders : adding'[a].cur = adding[a].cur
    <2> DEFINE new == IF ins \in known THEN {} ELSE New({ins})
    <2>1. new \subseteq AllIns
      BY <1>3 DEF New
    <2>2. adding' = adding \/ adding' = [adding EXCEPT !["td"].todo = new]
      BY <1>4
    <2>3. adding \in [Adders -> Work]
      BY DEF IInv, Types
    <2> HIDE DEF new
    <2> QED
      BY <2>1, <2>2, <2>3 DEF Work
  <1>6. /\ main' \in [at : Places, front : Fronts, step : 1..(Len(Steps) + 1), tries : Nat]
        /\ main'.step = main.step
        /\ main'.at = main.at \/ (main'.at = "dead" /\ ~portfolio)
    BY <1>4 DEF IInv, Types, Places
  <1>7. /\ backward \subseteq backward' /\ backward' \subseteq Trades
        /\ known' \subseteq AllIns /\ count' \in [Trades -> Nat]
        /\ ~portfolio => backward' = backward
        /\ odd \subseteq odd'
    BY <1>2, <1>3, <1>4 DEF IInv, Types
  <1>8. Types'
    BY <1>1, <1>2, <1>5, <1>6, <1>7 DEF IInv, Types, sessVars
  <1>9. Subscribed'
    BY <1>1, <1>5, SubscribedFrame DEF IInv, sessVars
  <1>10. Flow'
    BY <1>1, <1>6, <1>7 DEF IInv, Flow
  <1>11. Counted'
    <2>1. CASE UNCHANGED <<count, backward>>
      BY <1>1, <1>6, <2>1 DEF IInv, Counted
    <2>2. CASE portfolio /\ t \notin backward /\ count' = [count EXCEPT ![t] = @ + 1]
               /\ backward' = backward \cup {t}
      <3>1. portfolio /\ pos' = pos /\ count \in [Trades -> Nat]
        BY <1>1, <2>2 DEF IInv, Types
      <3>2. \A u \in Trades :
               count[u] = (IF u \in pos THEN 1 ELSE 0) + (IF u \in backward THEN 1 ELSE 0)
        BY <3>1 DEF IInv, Counted
      <3>3. \A u \in Trades : /\ count'[u] = IF u = t THEN count[u] + 1 ELSE count[u]
                             /\ u \in backward' <=> u = t \/ u \in backward
        BY <1>2, <2>2, <3>1
      <3>4. \A u \in Trades :
               count'[u] = (IF u \in pos THEN 1 ELSE 0) + (IF u \in backward' THEN 1 ELSE 0)
        BY <2>2, <3>1, <3>2, <3>3
      <3> QED
        BY <3>1, <3>4 DEF Counted
    <2> QED
      BY <1>4, <2>1, <2>2
  <1>12. BookedOnce'
    BY <1>1, <1>4 DEF IInv, BookedOnce
  <1>13. Accounted'
    <2> SUFFICES ASSUME session["td"], main.step > 4, main'.at # "dead" \/ portfolio,
                        odd' \cap {"while_fetching", "midnight"} = {}
                 PROVE  t \in pos \cup backward'
      BY <1>1, <1>2, <1>6, <1>7 DEF IInv, Accounted, sessVars
    <2>1. CASE date # "today"
      <3>1. ~(date = "past" /\ count[t] = 0)
        BY <1>4, <2>1
      <3>2. ~(main.step > 4 /\ t \notin pos)
        BY <1>4, <2>1, <3>1
      <3> QED
        BY <3>2
    <2>2. CASE date = "today"
      BY <1>4, <1>6, <2>2 DEF IInv, Types
    <2> QED
      BY <2>1, <2>2
  <1> QED
    BY <1>8, <1>9, <1>10, <1>11, <1>12, <1>13 DEF IInv

(* Every step keeps the invariant.                                         *)
LEMMA NextKeeps == IInv /\ [Next]_vars => IInv'
  <1> SUFFICES ASSUME IInv, [Next]_vars PROVE IInv'
    OBVIOUS
  <1>1. CASE Main
    BY <1>1, ConnectKeeps, WaitKeeps, ReportKeeps, FetchKeeps, MainKeeps, BuildKeeps DEF Main
  <1>2. CASE Faults
    BY <1>2, WaitKeeps, MainKeeps, FetchKeeps, SessionKeeps, DisconnectKeeps DEF Faults
  <1>3. CASE Trade \/ OnTrade
    BY <1>3, TradeKeeps, OnTradeKeeps
  <1>4. CASE Resubscribe \/ \E t \in Adders : AddBatch(t)
    BY <1>4, SubscribeKeeps
  <1>5. ASSUME NEW f \in Fronts, Session(f) PROVE IInv'
    BY <1>5, SessionKeeps, LoginKeeps DEF Session
  <1>6. CASE Midnight
    <2>1. /\ main.at = "ready" /\ date' = "past"
          /\ UNCHANGED <<main, session, callback, universe, adding, subs, done, stream, pos>>
          /\ UNCHANGED <<portfolio, known, count, backward, odd>>
      BY <1>6 DEF Midnight, sessVars, subVars, bounds
    <2> QED
      BY <2>1 DEF IInv, Types, Subscribed, Flow, Counted, BookedOnce, Accounted
  <1>7. CASE UNCHANGED vars
    BY <1>7 DEF vars, IInv, Types, Subscribed, Flow, Counted, BookedOnce, Accounted
  <1> QED
    BY <1>1, <1>2, <1>3, <1>4, <1>5, <1>6, <1>7 DEF Next

(* The invariant holds in every reachable state.                           *)
THEOREM Invariance == Spec => []IInv
  BY Initially, NextKeeps, PTL DEF Spec

(* The front sends ticks of all instruments of the universe, whatever      *)
(* disconnections and additions by two threads came in between             *)
(* (lambda_universe, CtpMdGateway::subscribe).                             *)
THEOREM UniverseSubscribed == Spec => []AllSubscribed
  <1>1. IInv => AllSubscribed
    BY DEF IInv, AllSubscribed, Subscribed, Adders
  <1> QED
    BY <1>1, Invariance, PTL

(* Each trade of the day is in the positions once, however often it is     *)
(* announced and whatever sessions end in between, but for the exceptions  *)
(* named (CtpTradeGateway::on_trade, connect).                             *)
THEOREM TradesCountedOnce == Spec => []TradesCounted
  <1>1. IInv => TradesCounted
    <2> SUFFICES ASSUME IInv, portfolio, stream = <<>>, session["td"],
                        odd \cap {"while_fetching", "midnight", "fetched_before"} = {},
                        NEW t \in 1..done
                 PROVE  count[t] = 1
      BY DEF TradesCounted
    <2>1. ToSet(stream) = {}
      BY DEF ToSet
    <2>2. t \in pos \cup backward
      BY <2>1 DEF IInv, Flow, Accounted
    <2>3. ~(t \in pos /\ t \in backward)
      BY DEF IInv, BookedOnce
    <2>4. t \in Trades
      BY TradesAreNumbers DEF IInv, Types, Trades
    <2> QED
      BY <2>2, <2>3, <2>4 DEF IInv, Counted
  <1> QED
    BY <1>1, Invariance, PTL

-----------------------------------------------------------------------------
(* Proofs about the tick feed, for any executors with any strategies and   *)
(* instruments, with and without drop_tick, and any number of restarts.    *)
(*                                                                         *)
(* The ticks of an instrument that an executor has to do with stand in one *)
(* line: the one a strategy has seen, those fetched, those waiting, and    *)
(* the one the market data thread is notifying.  Each is newer than those  *)
(* before it, or the same one if the observer is attached twice.           *)

TickRecs == [ins : Instruments, n : Int]

(* As much of the types as the proofs need.                                *)
FeedTypes ==
    /\ group \in [Executors -> SUBSET AllStgys]
    /\ thread \in [Executors -> {"new", "ready", "wait", "check", "handle", "ended"}]
    /\ waiting \in [Executors -> Seq(TickRecs)] /\ batch \in [Executors -> Seq(TickRecs)]
    /\ observers \in [Instruments -> Seq(Executors)]
    /\ latest \in [Instruments -> Int]
    /\ seen \in [AllStgys -> [Instruments -> Int]]

(* A strategy stays in the group it was appended to, and a list that was   *)
(* fetched has a tick.                                                     *)
Threads ==
    \A e \in Executors :
        /\ group[e] \subseteq ToSet(Stgys[e])
        /\ thread[e] \in {"check", "handle"} => batch[e] # <<>>

(* The observer of e is attached to i twice.                               *)
Twice(e, i) ==
    \E k, l \in DOMAIN observers[i] : k # l /\ observers[i][k] = e /\ observers[i][l] = e

(* The observers still to be told of a tick are next to each other in the  *)
(* list of its instrument, which may have become longer.                   *)
Notifying ==
    \/ md = NoTick
    \/ /\ md \in [ins : Instruments, n : Int, left : Seq(Executors)]
       /\ md.left # <<>> /\ md.n = latest[md.ins]
       /\ \E m \in Nat : \A k \in DOMAIN md.left :
             m + k \in DOMAIN observers[md.ins] /\ observers[md.ins][m + k] = md.left[k]

(* Tick n of instrument i, then tick m, for executor e.                    *)
Follows(e, i, n, m) == n <= m /\ (n = m => Twice(e, i))

(* A list of ticks is in order.                                            *)
InLine(e, list) ==
    \A j, k \in DOMAIN list :
        j < k /\ list[j].ins = list[k].ins => Follows(e, list[j].ins, list[j].n, list[k].n)

(* The lists are in order, and one comes before the other.                 *)
ListsRight(e) ==
    /\ InLine(e, batch[e]) /\ InLine(e, waiting[e])
    /\ \A j \in DOMAIN batch[e], k \in DOMAIN waiting[e] :
          batch[e][j].ins = waiting[e][k].ins
             => Follows(e, batch[e][j].ins, batch[e][j].n, waiting[e][k].n)

(* What a strategy has seen comes before both.                             *)
SeenRight(e) ==
    \A s \in ToSet(Stgys[e]) :
        /\ \A k \in DOMAIN batch[e] :
              Follows(e, batch[e][k].ins, seen[s][batch[e][k].ins], batch[e][k].n)
        /\ \A k \in DOMAIN waiting[e] :
              Follows(e, waiting[e][k].ins, seen[s][waiting[e][k].ins], waiting[e][k].n)

(* No tick is newer than the latest, and an executor that is still to be   *)
(* told of that has it already only if it is attached twice.               *)
Told(e, i) == md # NoTick /\ md.ins = i /\ e \in ToSet(md.left)

UpTo(e, i, n) == n <= latest[i] /\ (Told(e, i) => Follows(e, i, n, md.n))

LatestRight(e) ==
    /\ \A k \in DOMAIN batch[e] : UpTo(e, batch[e][k].ins, batch[e][k].n)
    /\ \A k \in DOMAIN waiting[e] : UpTo(e, waiting[e][k].ins, waiting[e][k].n)
    /\ \A s \in ToSet(Stgys[e]), i \in Instruments : UpTo(e, i, seen[s][i])

(* With drop_tick no two ticks of an instrument wait.                      *)
OneEach(e) ==
    e \in DropTick => \A j, k \in DOMAIN waiting[e] :
                          waiting[e][j].ins = waiting[e][k].ins => j = k

Lines(e) == ListsRight(e) /\ SeenRight(e) /\ LatestRight(e) /\ OneEach(e)

FeedInv == FeedTypes /\ Threads /\ Notifying /\ \A e \in Executors : Lines(e)

-----------------------------------------------------------------------------
(* A tick in a list.                                                       *)
LEMMA TickOf ==
    ASSUME NEW list \in Seq(TickRecs)
    PROVE  /\ DOMAIN list = 1..Len(list) /\ Len(list) \in Nat
           /\ \A k \in DOMAIN list : /\ list[k] \in TickRecs
                                    /\ list[k].ins \in Instruments /\ list[k].n \in Int
  <1>1. DOMAIN list = 1..Len(list) /\ Len(list) \in Nat /\ \A k \in 1..Len(list) : list[k] \in TickRecs
    OBVIOUS
  <1>2. \A r \in TickRecs : r.ins \in Instruments /\ r.n \in Int
    BY DEF TickRecs
  <1> QED
    BY <1>1, <1>2

(* The ticks of an executor, what its strategies have seen.                *)
LEMMA Ticks ==
    ASSUME FeedTypes, NEW e \in Executors
    PROVE  /\ \A k \in DOMAIN batch[e] : batch[e][k].ins \in Instruments /\ batch[e][k].n \in Int
           /\ \A k \in DOMAIN waiting[e] : waiting[e][k].ins \in Instruments /\ waiting[e][k].n \in Int
           /\ \A s \in ToSet(Stgys[e]) : s \in AllStgys /\ \A i \in Instruments : seen[s][i] \in Int
           /\ \A i \in Instruments : latest[i] \in Int
  <1>1. batch[e] \in Seq(TickRecs) /\ waiting[e] \in Seq(TickRecs)
    BY DEF FeedTypes
  <1>2. \A s \in ToSet(Stgys[e]) : s \in AllStgys
    BY DEF AllStgys
  <1> QED
    BY <1>1, <1>2, TickOf DEF FeedTypes

(* An observer attached twice stays so when others are attached after it.  *)
LEMMA TwiceStays ==
    ASSUME NEW e \in Executors, NEW i \in Instruments,
           \A k \in DOMAIN observers[i] : k \in DOMAIN observers'[i] /\ observers'[i][k] = observers[i][k],
           Twice(e, i)
    PROVE  Twice(e, i)'
  BY DEF Twice

(* Nothing changes for an executor but that others are attached, or that   *)
(* it has been told of the tick.                                           *)
LEMMA LinesStay ==
    ASSUME FeedTypes, NEW e \in Executors, Lines(e), UNCHANGED latest,
           batch'[e] = batch[e], waiting'[e] = waiting[e],
           \A s \in ToSet(Stgys[e]) : seen'[s] = seen[s],
           \A i \in Instruments : Twice(e, i) => Twice(e, i)',
           \A i \in Instruments : Told(e, i)' => Told(e, i) /\ md'.n = md.n
    PROVE  Lines(e)'
  <1>1. \A i \in Instruments : \A n, m : Follows(e, i, n, m) => Follows(e, i, n, m)'
    BY DEF Follows
  <1>2. \A i \in Instruments : \A n : UpTo(e, i, n) => UpTo(e, i, n)'
    BY DEF UpTo, Follows
  <1>3. ListsRight(e)'
    BY <1>1, Ticks DEF Lines, ListsRight, InLine
  <1>4. SeenRight(e)'
    BY <1>1, Ticks DEF Lines, SeenRight
  <1>5. LatestRight(e)'
    BY <1>2, Ticks DEF Lines, LatestRight
  <1> QED
    BY <1>3, <1>4, <1>5 DEF Lines, OneEach

-----------------------------------------------------------------------------
(* Nothing has been seen at first, and nobody waits for anything.          *)
LEMMA InitIInv == FeedInit => FeedInv
  <1> SUFFICES ASSUME FeedInit PROVE FeedInv
    OBVIOUS
  <1>1. /\ group = [e \in Executors |-> ToSet(Stgys[e])]
        /\ thread = [e \in Executors |-> "new"] /\ md = NoTick
        /\ waiting = [e \in Executors |-> <<>>] /\ batch = [e \in Executors |-> <<>>]
        /\ observers = [i \in Instruments |-> <<>>]
        /\ latest = [i \in Instruments |-> 0]
        /\ seen = [s \in AllStgys |-> [i \in Instruments |-> 0]]
    BY DEF FeedInit
  <1>2. \A e \in Executors : ToSet(Stgys[e]) \subseteq AllStgys
    BY DEF AllStgys
  <1>3. FeedTypes
    BY <1>1, <1>2 DEF FeedTypes
  <1>4. Threads /\ Notifying
    BY <1>1 DEF Threads, Notifying
  <1>5. ASSUME NEW e \in Executors PROVE Lines(e)
    <2>1. DOMAIN batch[e] = {} /\ DOMAIN waiting[e] = {}
      BY <1>1
    <2>2. \A s \in ToSet(Stgys[e]), i \in Instruments : seen[s][i] = 0 /\ latest[i] = 0 /\ ~Told(e, i)
      BY <1>1, <1>2 DEF Told
    <2>3. ListsRight(e) /\ SeenRight(e) /\ OneEach(e)
      BY <2>1 DEF ListsRight, InLine, SeenRight, OneEach
    <2>4. LatestRight(e)
      BY <2>1, <2>2 DEF LatestRight, UpTo
    <2> QED
      BY <2>3, <2>4 DEF Lines
  <1> QED
    BY <1>3, <1>4, <1>5 DEF FeedInv

(* What init attaches is a list of the executor's own observer.            *)
LEMMA AttachedSeq ==
    ASSUME NEW e \in Executors, NEW kept \in SUBSET ToSet(Stgys[e]), NEW i \in Instruments
    PROVE  Attached(e, kept, i) \in Seq(Executors)
  <1>1. Stgys[e] \in Seq(AllStgys)
    BY FeedAssumption
  <1> DEFINE n == Len(Stgys[e])
  <1>2. n \in Nat /\ DOMAIN Stgys[e] = 1..n
    BY <1>1
  <1>3. IsFiniteSet(ToSet(Stgys[e]))
    <2>1. Stgys[e] \in [1..n -> AllStgys]
      BY <1>1
    <2>2. ToSet(Stgys[e]) = {Stgys[e][k] : k \in 1..n}
      BY <1>2 DEF ToSet
    <2>3. Stgys[e] \in Surjection(1..n, ToSet(Stgys[e]))
      BY <2>1, <2>2, Zenon DEF Surjection
    <2>4. IsFiniteSet(1..n)
      BY <1>2, FS_Interval
    <2> QED
      BY <2>3, <2>4, FS_Surjection
  <1>4. IsFiniteSet({s \in kept : i \in Universe[s]})
    BY <1>3, FS_Subset
  <1>5. Cardinality({s \in kept : i \in Universe[s]}) \in Nat
    BY <1>4, FS_CardinalityType
  <1> QED
    BY <1>5 DEF Attached

(* A list of observers with others after it.                               *)
LEMMA Longer ==
    ASSUME NEW a \in Seq(Executors), NEW b \in Seq(Executors)
    PROVE  /\ a \o b \in Seq(Executors)
           /\ \A k \in DOMAIN a : k \in DOMAIN (a \o b) /\ (a \o b)[k] = a[k]
  OBVIOUS

(* Attaching observers changes nothing for those that are attached.        *)
LEMMA InitExecutorKeeps ==
    ASSUME FeedInv, NEW e \in Executors, InitExecutor(e)
    PROVE  FeedInv'
  <1>1. PICK failed \in SUBSET (Failing \cap ToSet(Stgys[e])) :
           /\ group' = [group EXCEPT ![e] = ToSet(Stgys[e]) \ failed]
           /\ observers' = [i \in Instruments |-> observers[i] \o Attached(e, ToSet(Stgys[e]) \ failed, i)]
    BY DEF InitExecutor
  <1>2. /\ thread' = [thread EXCEPT ![e] = "ready"]
        /\ UNCHANGED <<waiting, batch, md, latest, seen>>
    BY DEF InitExecutor
  <1> DEFINE kept == ToSet(Stgys[e]) \ failed
  <1>3. kept \subseteq ToSet(Stgys[e]) /\ kept \subseteq AllStgys
    BY DEF AllStgys
  <1>4. \A i \in Instruments :
           /\ observers'[i] \in Seq(Executors)
           /\ \A k \in DOMAIN observers[i] : k \in DOMAIN observers'[i] /\ observers'[i][k] = observers[i][k]
    <2>1. ASSUME NEW i \in Instruments
          PROVE  /\ observers'[i] \in Seq(Executors)
                 /\ \A k \in DOMAIN observers[i] :
                       k \in DOMAIN observers'[i] /\ observers'[i][k] = observers[i][k]
      <3>1. observers[i] \in Seq(Executors) /\ Attached(e, kept, i) \in Seq(Executors)
        BY <1>3, AttachedSeq DEF FeedInv, FeedTypes
      <3>2. observers'[i] = observers[i] \o Attached(e, kept, i)
        BY <1>1
      <3> HIDE DEF kept
      <3> QED
        BY <3>1, <3>2, Longer
    <2> QED
      BY <2>1
  <1>5. FeedTypes'
    <2>1. group' \in [Executors -> SUBSET AllStgys]
      BY <1>1, <1>3 DEF FeedInv, FeedTypes
    <2>2. observers' \in [Instruments -> Seq(Executors)]
      BY <1>1, <1>4
    <2> QED
      BY <2>1, <2>2, <1>2 DEF FeedInv, FeedTypes
  <1>6. Threads'
    BY <1>1, <1>2, <1>3 DEF FeedInv, Threads, FeedTypes
  <1>7. Notifying'
    <2>1. CASE md = NoTick
      BY <2>1, <1>2 DEF Notifying
    <2>2. CASE md # NoTick
      <3>1. md.ins \in Instruments
        BY <2>2 DEF FeedInv, Notifying
      <3> QED
        <4>1. /\ md \in [ins : Instruments, n : Int, left : Seq(Executors)]
              /\ md.left # <<>> /\ md.n = latest[md.ins]
          BY <2>2 DEF FeedInv, Notifying
        <4>2. PICK m \in Nat : \A k \in DOMAIN md.left :
                 m + k \in DOMAIN observers[md.ins] /\ observers[md.ins][m + k] = md.left[k]
          BY <2>2 DEF FeedInv, Notifying
        <4>3. \A k \in DOMAIN md.left :
                 m + k \in DOMAIN observers'[md.ins] /\ observers'[md.ins][m + k] = md.left[k]
          BY <4>2, <3>1, <1>4
        <4>4. md' = md /\ latest' = latest
          BY <1>2
        <4> QED
          BY <4>1, <4>3, <4>4 DEF Notifying
    <2> QED
      BY <2>1, <2>2
  <1>8. ASSUME NEW f \in Executors PROVE Lines(f)'
    <2>1. \A i \in Instruments : Twice(f, i) => Twice(f, i)'
      BY <1>4, TwiceStays
    <2>2. \A i \in Instruments : Told(f, i)' => Told(f, i)
      BY <1>2 DEF Told
    <2> QED
      BY <1>2, <2>1, <2>2, LinesStay DEF FeedInv
  <1> QED
    BY <1>5, <1>6, <1>7, <1>8 DEF FeedInv

(* Steps that change no list.                                              *)
LEMMA OtherKeeps ==
    ASSUME FeedInv, UNCHANGED <<waiting, batch, md, latest, seen, observers>>, FeedTypes', Threads'
    PROVE  FeedInv'
  <1>1. Notifying'
    BY DEF FeedInv, Notifying
  <1>2. ASSUME NEW f \in Executors PROVE Lines(f)'
    <2>1. \A i \in Instruments : (Told(f, i)' => Told(f, i)) /\ (Twice(f, i) => Twice(f, i)')
      BY DEF Told, Twice
    <2> QED
      BY <2>1, LinesStay DEF FeedInv
  <1> QED
    BY <1>1, <1>2 DEF FeedInv

(* start, restart and the thread's look at pause_flag_.                    *)
LEMMA ThreadKeeps ==
    ASSUME FeedInv, NEW e \in Executors,
           Start(e) \/ StopThread(e) \/ Restart(e) \/ (Check(e) /\ ~pause[e])
    PROVE  FeedInv'
  <1>1. /\ UNCHANGED <<waiting, batch, md, latest, seen, observers, group>>
        /\ \/ thread' = thread
           \/ thread' = [thread EXCEPT ![e] = "wait"]
           \/ thread[e] = "check" /\ thread' = [thread EXCEPT ![e] = "handle"]
    BY DEF Start, StopThread, Restart, Check
  <1>2. FeedTypes' /\ Threads'
    BY <1>1 DEF FeedInv, FeedTypes, Threads
  <1> QED
    BY <1>1, <1>2, OtherKeeps

-----------------------------------------------------------------------------
(* A thread that is being paused drops the list it has fetched.            *)
LEMMA DropKeeps ==
    ASSUME FeedInv, NEW e \in Executors, Check(e), pause[e]
    PROVE  FeedInv'
  <1>1. /\ UNCHANGED <<waiting, md, latest, seen, observers, group>>
        /\ batch' = [batch EXCEPT ![e] = <<>>]
        /\ \/ thread' = [thread EXCEPT ![e] = "wait"]
           \/ thread' = [thread EXCEPT ![e] = "ended"]
    BY DEF Check
  <1>2. FeedTypes'
    <2>1. <<>> \in Seq(TickRecs) /\ FeedTypes
      BY DEF FeedInv
    <2> QED
      BY <1>1, <2>1 DEF FeedTypes
  <1>3. Threads'
    BY <1>1 DEF FeedInv, Threads, FeedTypes
  <1>4. Notifying'
    BY <1>1 DEF FeedInv, Notifying
  <1>5. \A f \in Executors, i \in Instruments :
           (Told(f, i)' => Told(f, i)) /\ (Twice(f, i) => Twice(f, i)')
    BY <1>1 DEF Told, Twice
  <1>6. ASSUME NEW f \in Executors PROVE Lines(f)'
    <2>1. CASE f # e
      <3>1. batch'[f] = batch[f]
        BY <1>1, <2>1 DEF FeedInv, FeedTypes
      <3> QED
        BY <1>1, <1>5, <3>1, LinesStay DEF FeedInv
    <2>2. CASE f = e
      <3>1. Lines(e) /\ batch'[e] = <<>>
        BY <1>1 DEF FeedInv, FeedTypes
      <3>2. DOMAIN batch'[e] = {}
        BY <3>1
      <3>3. /\ \A i, n, m : Follows(e, i, n, m)' <=> Follows(e, i, n, m)
            /\ \A i, n : UpTo(e, i, n)' <=> UpTo(e, i, n)
        BY <1>1 DEF Follows, Twice, UpTo, Told
      <3>4. ListsRight(e)' /\ OneEach(e)'
        BY <1>1, <3>1, <3>2, <3>3 DEF Lines, ListsRight, InLine, OneEach
      <3>5. SeenRight(e)'
        BY <1>1, <3>1, <3>2, <3>3 DEF Lines, SeenRight
      <3>6. LatestRight(e)'
        BY <1>1, <3>1, <3>2, <3>3 DEF Lines, LatestRight
      <3> QED
        BY <2>2, <3>4, <3>5, <3>6 DEF Lines
    <2> QED
      BY <2>1, <2>2
  <1> QED
    BY <1>2, <1>3, <1>4, <1>6 DEF FeedInv

(* The thread fetches all that waits; it has handled what it had.          *)
LEMMA WaitStepKeeps ==
    ASSUME FeedInv, NEW e \in Executors, Wait(e)
    PROVE  FeedInv'
  <1>1. /\ UNCHANGED <<md, latest, seen, observers, group>>
        /\ waiting[e] # <<>>
        /\ batch' = [batch EXCEPT ![e] = waiting[e]]
        /\ waiting' = [waiting EXCEPT ![e] = <<>>]
        /\ thread' = [thread EXCEPT ![e] = "check"]
    BY DEF Wait
  <1>2. FeedTypes'
    <2>1. <<>> \in Seq(TickRecs) /\ FeedTypes
      BY DEF FeedInv
    <2> QED
      BY <1>1, <2>1 DEF FeedTypes
  <1>3. Threads'
    BY <1>1 DEF FeedInv, Threads, FeedTypes
  <1>4. Notifying'
    BY <1>1 DEF FeedInv, Notifying
  <1>5. \A f \in Executors, i \in Instruments :
           (Told(f, i)' => Told(f, i)) /\ (Twice(f, i) => Twice(f, i)')
    BY <1>1 DEF Told, Twice
  <1>6. ASSUME NEW f \in Executors PROVE Lines(f)'
    <2>1. CASE f # e
      <3>1. batch'[f] = batch[f] /\ waiting'[f] = waiting[f]
        BY <1>1, <2>1 DEF FeedInv, FeedTypes
      <3> QED
        BY <1>1, <1>5, <3>1, LinesStay DEF FeedInv
    <2>2. CASE f = e
      <3>1. Lines(e) /\ batch'[e] = waiting[e] /\ waiting'[e] = <<>>
        BY <1>1 DEF FeedInv, FeedTypes
      <3>2. DOMAIN waiting'[e] = {}
        BY <3>1
      <3>3. /\ \A i, n, m : Follows(e, i, n, m)' <=> Follows(e, i, n, m)
            /\ \A i, n : UpTo(e, i, n)' <=> UpTo(e, i, n)
        BY <1>1 DEF Follows, Twice, UpTo, Told
      <3>4. ListsRight(e)' /\ OneEach(e)'
        BY <1>1, <3>1, <3>2, <3>3 DEF Lines, ListsRight, InLine, OneEach
      <3>5. SeenRight(e)'
        BY <1>1, <3>1, <3>2, <3>3 DEF Lines, SeenRight
      <3>6. LatestRight(e)'
        BY <1>1, <3>1, <3>2, <3>3 DEF Lines, LatestRight
      <3> QED
        BY <2>2, <3>4, <3>5, <3>6 DEF Lines
    <2> QED
      BY <2>1, <2>2
  <1> QED
    BY <1>2, <1>3, <1>4, <1>6 DEF FeedInv

(* A tick is newer than all there were of its instrument.                  *)
LEMMA TickKeeps ==
    ASSUME FeedInv, NEW i \in Instruments, Tick(i)
    PROVE  FeedInv'
  <1>1. /\ UNCHANGED <<waiting, batch, seen, observers, group, thread>>
        /\ md = NoTick
        /\ latest' = [latest EXCEPT ![i] = @ + 1]
        /\ md' = IF observers[i] = <<>> THEN NoTick
                 ELSE [ins |-> i, n |-> latest[i] + 1, left |-> observers[i]]
    BY DEF Tick
  <1>2. /\ latest[i] \in Int /\ latest'[i] = latest[i] + 1
        /\ \A j \in Instruments :
              latest[j] \in Int /\ latest'[j] \in Int /\ latest[j] <= latest'[j]
    BY <1>1 DEF FeedInv, FeedTypes
  <1>3. FeedTypes'
    BY <1>1, <1>2 DEF FeedInv, FeedTypes
  <1>4. Threads'
    BY <1>1 DEF FeedInv, Threads
  <1>5. observers[i] \in Seq(Executors)
    BY DEF FeedInv, FeedTypes
  <1>6. Notifying'
    <2>1. CASE observers[i] = <<>>
      BY <1>1, <2>1 DEF Notifying
    <2>2. CASE observers[i] # <<>>
      <3>1. md' = [ins |-> i, n |-> latest[i] + 1, left |-> observers[i]]
        BY <1>1, <2>2
      <3>2. md' \in [ins : Instruments, n : Int, left : Seq(Executors)]
        BY <3>1, <1>2, <1>5
      <3>3. md'.ins = i /\ md'.n = latest'[i] /\ md'.left = observers'[i] /\ md'.left # <<>>
        BY <3>1, <1>1, <1>2, <2>2
      <3>4. \A k \in DOMAIN md'.left :
               0 + k \in DOMAIN observers'[md'.ins] /\ observers'[md'.ins][0 + k] = md'.left[k]
        <4>1. DOMAIN md'.left = 1..Len(observers[i])
          BY <3>3, <1>1, <1>5
        <4>2. \A k \in 1..Len(observers[i]) : 0 + k = k
          BY <1>5
        <4> QED
          BY <3>3, <4>1, <4>2
      <3> QED
        BY <3>2, <3>3, <3>4 DEF Notifying
    <2> QED
      BY <2>1, <2>2
  <1>7. ASSUME NEW f \in Executors PROVE Lines(f)'
    <2>1. Lines(f)
      BY DEF FeedInv
    <2>2. \A j, n, m : Follows(f, j, n, m)' <=> Follows(f, j, n, m)
      BY <1>1 DEF Follows, Twice
    <2>3. ListsRight(f)' /\ OneEach(f)'
      BY <1>1, <2>1, <2>2 DEF Lines, ListsRight, InLine, OneEach
    <2>4. SeenRight(f)'
      BY <1>1, <2>1, <2>2 DEF Lines, SeenRight
    <2>5. ASSUME NEW j \in Instruments, NEW n \in Int, UpTo(f, j, n) PROVE UpTo(f, j, n)'
      <3>0. n <= latest[j]
        BY <2>5 DEF UpTo
      <3>1. n <= latest[j] /\ n <= latest'[j]
        <4>1. latest[j] \in Int /\ latest'[j] \in Int /\ latest[j] <= latest'[j]
          BY <1>2
        <4> QED
          BY <3>0, <4>1
      <3>2. ASSUME Told(f, j)' PROVE Follows(f, j, n, md.n)'
        <4>1. md' # NoTick /\ md'.ins = j
          BY <3>2 DEF Told
        <4>2. j = i /\ md'.n = latest[i] + 1
          BY <1>1, <4>1
        <4>3. n < md'.n
          BY <3>1, <4>2, <1>2
        <4> QED
          BY <4>3, <4>2, <1>2 DEF Follows
      <3> QED
        BY <3>1, <3>2 DEF UpTo
    <2>6. LatestRight(f)'
      <3>1. /\ \A k \in DOMAIN batch[f] : UpTo(f, batch[f][k].ins, batch[f][k].n)'
            /\ \A k \in DOMAIN waiting[f] : UpTo(f, waiting[f][k].ins, waiting[f][k].n)'
        <4>1. /\ \A k \in DOMAIN batch[f] : UpTo(f, batch[f][k].ins, batch[f][k].n)
              /\ \A k \in DOMAIN waiting[f] : UpTo(f, waiting[f][k].ins, waiting[f][k].n)
          BY <2>1 DEF Lines, LatestRight
        <4>2. /\ \A k \in DOMAIN batch[f] :
                    batch[f][k].ins \in Instruments /\ batch[f][k].n \in Int
              /\ \A k \in DOMAIN waiting[f] :
                    waiting[f][k].ins \in Instruments /\ waiting[f][k].n \in Int
          BY Ticks DEF FeedInv
        <4> QED
          BY <4>1, <4>2, <2>5, <1>1
      <3>2. \A s \in ToSet(Stgys[f]), j \in Instruments : UpTo(f, j, seen[s][j])'
        <4>1. \A s \in ToSet(Stgys[f]), j \in Instruments : UpTo(f, j, seen[s][j])
          BY <2>1 DEF Lines, LatestRight
        <4>2. \A s \in ToSet(Stgys[f]), j \in Instruments : seen[s][j] \in Int
          BY Ticks DEF FeedInv
        <4> QED
          BY <4>1, <4>2, <2>5, <1>1
      <3> QED
        BY <1>1, <3>1, <3>2 DEF LatestRight
    <2> QED
      BY <2>3, <2>4, <2>6 DEF Lines
  <1> QED
    BY <1>3, <1>4, <1>6, <1>7 DEF FeedInv

-----------------------------------------------------------------------------
(* Put appends the tick, or the tick takes the place of those of its       *)
(* instrument.                                                             *)
IsPut(put, list, t, e) ==
    /\ put \in Seq(TickRecs)
    /\ \/ /\ e \in DropTick => \A k \in DOMAIN list : list[k].ins # t.ins
          /\ DOMAIN put = 1..(Len(list) + 1)
          /\ put[Len(list) + 1] = t
          /\ \A k \in DOMAIN list : put[k] = list[k]
       \/ /\ e \in DropTick /\ DOMAIN put = DOMAIN list
          /\ \A k \in DOMAIN list : put[k] = IF list[k].ins = t.ins THEN t ELSE list[k]

(* StgyObserver::notify gives a list of one of these two forms.            *)
LEMMA PutIs ==
    ASSUME NEW list \in Seq(TickRecs), NEW t \in TickRecs, NEW e, NEW put,
           put = Put(list, t, e \in DropTick)
    PROVE  IsPut(put, list, t, e)
  <1>1. CASE e \in DropTick /\ \E k \in DOMAIN list : list[k].ins = t.ins
    <2>1. put = [k \in 1..Len(list) |-> IF list[k].ins = t.ins THEN t ELSE list[k]]
      <3>1. put = [k \in DOMAIN list |-> IF list[k].ins = t.ins THEN t ELSE list[k]]
        BY <1>1 DEF Put
      <3>2. DOMAIN list = 1..Len(list)
        OBVIOUS
      <3> QED
        BY <3>1, <3>2
    <2>2. \A k \in 1..Len(list) : list[k] \in TickRecs
      OBVIOUS
    <2>3. put \in [1..Len(list) -> TickRecs]
      BY <2>1, <2>2
    <2>4. put \in Seq(TickRecs)
      BY <2>3, IsASeq
    <2>5. DOMAIN put = DOMAIN list /\ DOMAIN list = 1..Len(list)
      BY <2>1
    <2>6. \A k \in DOMAIN list :
             put[k] = IF list[k].ins = t.ins THEN t ELSE list[k]
      BY <2>1, <2>5
    <2> QED
      BY <1>1, <2>4, <2>5, <2>6 DEF IsPut
  <1>2. CASE ~(e \in DropTick /\ \E k \in DOMAIN list : list[k].ins = t.ins)
    <2>1. put = Append(list, t)
      BY <1>2 DEF Put
    <2> QED
      BY <1>2, <2>1, AppendProperties DEF IsPut
  <1> QED
    BY <1>1, <1>2

(* One observer is told.                                                   *)
LEMMA NotifyStep ==
    ASSUME FeedInv, NotifyNext, NEW e, e = Head(md.left), NEW i, i = md.ins,
           NEW t, t = [ins |-> md.ins, n |-> md.n],
           NEW list, list = Put(waiting[e], t, e \in DropTick)
    PROVE  FeedInv'
  <1>1. /\ UNCHANGED <<batch, latest, seen, observers, group, thread>>
        /\ md # NoTick
        /\ waiting' = [waiting EXCEPT ![e] = list]
    BY DEF NotifyNext
  <1>2. md' = IF Len(md.left) = 1 THEN NoTick ELSE [md EXCEPT !.left = Tail(@)]
    BY DEF NotifyNext
  <1>3. /\ md \in [ins : Instruments, n : Int, left : Seq(Executors)]
        /\ md.left # <<>> /\ md.n = latest[i]
    BY <1>1 DEF FeedInv, Notifying
  <1>4. i \in Instruments /\ md.n \in Int /\ md.left \in Seq(Executors)
    BY <1>3
  <1>5. e \in Executors /\ md.left[1] = e /\ 1 \in DOMAIN md.left
    BY <1>3, <1>4
  <1>6. t \in TickRecs /\ t.ins = i /\ t.n = md.n
    BY <1>4 DEF TickRecs
  <1>7. waiting[e] \in Seq(TickRecs) /\ batch[e] \in Seq(TickRecs)
    BY <1>5 DEF FeedInv, FeedTypes
  <1>8. \/ md' = NoTick
        \/ /\ md'.ins = i /\ md'.n = md.n /\ md'.left = Tail(md.left) /\ Len(md.left) # 1
           /\ md' \in [ins : Instruments, n : Int, left : Seq(Executors)]
    <2>1. CASE Len(md.left) = 1
      BY <1>2, <2>1
    <2>2. CASE Len(md.left) # 1
      <3>1. md' = [md EXCEPT !.left = Tail(@)]
        BY <1>2, <2>2
      <3>2. Tail(md.left) \in Seq(Executors)
        BY <1>3, <1>4
      <3> QED
        BY <3>1, <3>2, <1>3, <2>2
    <2> QED
      BY <2>1, <2>2
  <1>9. DOMAIN Tail(md.left) = 1..(Len(md.left) - 1) /\ Len(md.left) \in Nat \ {0}
    BY <1>3, <1>4
  <1>10. \A k \in DOMAIN Tail(md.left) : k + 1 \in DOMAIN md.left /\ Tail(md.left)[k] = md.left[k + 1]
    BY <1>3, <1>4, <1>9
  <1>11. PICK m \in Nat : \A k \in DOMAIN md.left :
            m + k \in DOMAIN observers[i] /\ observers[i][m + k] = md.left[k]
    BY <1>1 DEF FeedInv, Notifying
  <1>12. \A f \in Executors, j \in Instruments : Told(f, j)' => Told(f, j) /\ md'.n = md.n
    <2>1. ASSUME NEW f \in Executors, NEW j \in Instruments, Told(f, j)'
          PROVE  Told(f, j) /\ md'.n = md.n
      <3>1. md'.ins = i /\ md'.n = md.n /\ md'.left = Tail(md.left)
        BY <1>8, <2>1 DEF Told
      <3>2. j = i /\ f \in ToSet(Tail(md.left))
        BY <3>1, <2>1 DEF Told
      <3>3. PICK k \in DOMAIN Tail(md.left) : Tail(md.left)[k] = f
        BY <3>2 DEF ToSet
      <3>4. f \in ToSet(md.left)
        BY <3>3, <1>10 DEF ToSet
      <3> QED
        BY <3>1, <3>2, <3>4, <1>1 DEF Told
    <2> QED
      BY <2>1
  <1>13. \A j \in Instruments : Told(e, j)' => j = i /\ Twice(e, i)
    <2>1. ASSUME NEW j \in Instruments, Told(e, j)' PROVE j = i /\ Twice(e, i)
      <3>1. md'.ins = i /\ md'.left = Tail(md.left)
        BY <1>8, <2>1 DEF Told
      <3>2. j = i /\ e \in ToSet(Tail(md.left))
        BY <3>1, <2>1 DEF Told
      <3>3. PICK k \in DOMAIN Tail(md.left) : Tail(md.left)[k] = e
        BY <3>2 DEF ToSet
      <3>4. k \in Nat /\ k >= 1 /\ k + 1 \in DOMAIN md.left /\ md.left[k + 1] = e
        BY <3>3, <1>9, <1>10
      <3>5. m + 1 \in DOMAIN observers[i] /\ observers[i][m + 1] = e
        BY <1>5, <1>11
      <3>6. m + (k + 1) \in DOMAIN observers[i] /\ observers[i][m + (k + 1)] = e
        BY <3>4, <1>11
      <3>7. m + 1 # m + (k + 1)
        BY <3>4
      <3> QED
        BY <3>2, <3>5, <3>6, <3>7 DEF Twice
    <2> QED
      BY <2>1
  <1>14. Told(e, i) /\ e \in ToSet(md.left)
    BY <1>1, <1>5 DEF Told, ToSet
  <1>15. /\ list \in Seq(TickRecs)
         /\ \/ /\ e \in DropTick => \A k \in DOMAIN waiting[e] : waiting[e][k].ins # t.ins
               /\ DOMAIN list = 1..(Len(waiting[e]) + 1)
               /\ list[Len(waiting[e]) + 1] = t
               /\ \A k \in DOMAIN waiting[e] : list[k] = waiting[e][k]
            \/ /\ e \in DropTick /\ DOMAIN list = DOMAIN waiting[e]
               /\ \A k \in DOMAIN waiting[e] :
                     list[k] = IF waiting[e][k].ins = t.ins THEN t ELSE waiting[e][k]
    <2>1. IsPut(list, waiting[e], t, e)
      BY <1>6, <1>7, PutIs
    <2> QED
      BY <2>1 DEF IsPut
  <1>16. waiting'[e] = list /\ \A f \in Executors : f # e => waiting'[f] = waiting[f]
    BY <1>1, <1>5 DEF FeedInv, FeedTypes
  <1>17. FeedTypes'
    <2>1. waiting' \in [Executors -> Seq(TickRecs)]
      BY <1>1, <1>15 DEF FeedInv, FeedTypes
    <2> QED
      BY <1>1, <2>1 DEF FeedInv, FeedTypes
  <1>18. Threads'
    BY <1>1 DEF FeedInv, Threads
  <1>19. Notifying'
    <2>1. CASE md' = NoTick
      BY <2>1 DEF Notifying
    <2>2. CASE md' # NoTick
      <3>1. /\ md'.ins = i /\ md'.n = md.n /\ md'.left = Tail(md.left) /\ Len(md.left) # 1
            /\ md' \in [ins : Instruments, n : Int, left : Seq(Executors)]
        BY <1>8, <2>2
      <3>2. md'.left # <<>> /\ md'.n = latest'[md'.ins]
        <4>1. Len(Tail(md.left)) = Len(md.left) - 1 /\ Len(md.left) - 1 # 0
          BY <3>1, <1>3, <1>4
        <4>2. Tail(md.left) # <<>>
          BY <4>1
        <4>3. md'.n = latest'[md'.ins]
          BY <3>1, <1>1, <1>3
        <4> QED
          BY <3>1, <4>2, <4>3
      <3>3. \A k \in DOMAIN Tail(md.left) :
               (m + 1) + k \in DOMAIN observers[i] /\ observers[i][(m + 1) + k] = Tail(md.left)[k]
        <4>1. ASSUME NEW k \in DOMAIN Tail(md.left)
              PROVE  (m + 1) + k \in DOMAIN observers[i] /\ observers[i][(m + 1) + k] = Tail(md.left)[k]
          <5>1. k \in Nat /\ (m + 1) + k = m + (k + 1)
            BY <1>9
          <5>2. k + 1 \in DOMAIN md.left /\ Tail(md.left)[k] = md.left[k + 1]
            BY <1>10
          <5>3. m + (k + 1) \in DOMAIN observers[i] /\ observers[i][m + (k + 1)] = md.left[k + 1]
            BY <5>2, <1>11
          <5> QED
            BY <5>1, <5>2, <5>3
        <4> QED
          BY <4>1
      <3>4. \A k \in DOMAIN md'.left :
               (m + 1) + k \in DOMAIN observers'[md'.ins] /\ observers'[md'.ins][(m + 1) + k] = md'.left[k]
        BY <3>1, <3>3, <1>1
      <3>5. m + 1 \in Nat
        OBVIOUS
      <3> QED
        BY <3>1, <3>2, <3>4, <3>5 DEF Notifying
    <2> QED
      BY <2>1, <2>2
  <1>20. \A f \in Executors, j \in Instruments : Twice(f, j) => Twice(f, j)'
    BY <1>1 DEF Twice
  <1>21. ASSUME NEW f \in Executors, f # e PROVE Lines(f)'
    <2>1. waiting'[f] = waiting[f] /\ batch'[f] = batch[f] /\ latest' = latest /\ seen' = seen
      BY <1>1, <1>16, <1>21
    <2>2. FeedTypes /\ Lines(f)
      BY DEF FeedInv
    <2> QED
      BY <2>1, <2>2, <1>12, <1>20, LinesStay
  <1>22. Lines(e)'
    <2>1. Lines(e)
      BY <1>5 DEF FeedInv
    <2>2. \A j, n, p : Follows(e, j, n, p)' <=> Follows(e, j, n, p)
      BY <1>1 DEF Follows, Twice
    <2>3. \A j \in Instruments : \A n : UpTo(e, j, n) => UpTo(e, j, n)'
      BY <1>1, <1>12, <1>5, <2>2 DEF UpTo, Follows
    <2>4. /\ \A k \in DOMAIN batch[e] : batch[e][k].ins = i => Follows(e, i, batch[e][k].n, t.n)
          /\ \A k \in DOMAIN waiting[e] : waiting[e][k].ins = i => Follows(e, i, waiting[e][k].n, t.n)
          /\ \A s \in ToSet(Stgys[e]) : Follows(e, i, seen[s][i], t.n)
      BY <2>1, <1>4, <1>6, <1>14 DEF Lines, LatestRight, UpTo
    <2>5. UpTo(e, i, t.n)'
      <3>1. t.n <= latest'[i]
        BY <1>1, <1>3, <1>4, <1>6
      <3>2. ASSUME Told(e, i)' PROVE Follows(e, i, t.n, md.n)'
        <4>1. md'.n = t.n /\ Twice(e, i) /\ t.n \in Int
          BY <3>2, <1>4, <1>5, <1>6, <1>12, <1>13
        <4>2. Twice(e, i)'
          BY <4>1, <1>4, <1>5, <1>20
        <4> QED
          BY <4>1, <4>2 DEF Follows
      <3> QED
        BY <3>1, <3>2 DEF UpTo
    <2>6. DOMAIN waiting[e] = 1..Len(waiting[e]) /\ Len(waiting[e]) \in Nat
      BY <1>7
    <2>7. \A k \in DOMAIN list : list[k] = t \/ (k \in DOMAIN waiting[e] /\ list[k] = waiting[e][k])
      <3>1. CASE /\ DOMAIN list = 1..(Len(waiting[e]) + 1)
                 /\ list[Len(waiting[e]) + 1] = t
                 /\ \A k \in DOMAIN waiting[e] : list[k] = waiting[e][k]
        <4>1. \A k \in DOMAIN list : k = Len(waiting[e]) + 1 \/ k \in DOMAIN waiting[e]
          <5>1. DOMAIN list = 1..(Len(waiting[e]) + 1)
            BY <3>1
          <5> QED
            BY <5>1, <2>6
        <4> QED
          BY <3>1, <4>1
      <3>2. CASE /\ DOMAIN list = DOMAIN waiting[e]
                 /\ \A k \in DOMAIN waiting[e] :
                       list[k] = IF waiting[e][k].ins = t.ins THEN t ELSE waiting[e][k]
        BY <3>2
      <3> QED
        BY <3>1, <3>2, <1>15
    <2>8. InLine(e, list)
      <3>1. ASSUME NEW j \in DOMAIN list, NEW k \in DOMAIN list, j < k, list[j].ins = list[k].ins
            PROVE  Follows(e, list[j].ins, list[j].n, list[k].n)
        <4>1. CASE /\ DOMAIN list = 1..(Len(waiting[e]) + 1)
                   /\ list[Len(waiting[e]) + 1] = t
                   /\ \A x \in DOMAIN waiting[e] : list[x] = waiting[e][x]
          <5>1. j \in DOMAIN waiting[e] /\ list[j] = waiting[e][j]
            BY <4>1, <3>1, <2>6
          <5>2. CASE k = Len(waiting[e]) + 1
            <6>1. list[k] = t /\ list[j].ins = i
              BY <4>1, <5>2, <3>1, <1>6
            <6>2. Follows(e, i, waiting[e][j].n, t.n)
              BY <6>1, <5>1, <2>4
            <6> QED
              BY <6>1, <6>2, <5>1
          <5>3. CASE k # Len(waiting[e]) + 1
            <6>1. k \in DOMAIN waiting[e] /\ list[k] = waiting[e][k]
              BY <4>1, <5>3, <2>6
            <6> QED
              BY <5>1, <6>1, <3>1, <2>1 DEF Lines, ListsRight, InLine
          <5> QED
            BY <5>2, <5>3
        <4>2. CASE /\ e \in DropTick /\ DOMAIN list = DOMAIN waiting[e]
                   /\ \A x \in DOMAIN waiting[e] :
                         list[x] = IF waiting[e][x].ins = t.ins THEN t ELSE waiting[e][x]
          <5>1. list[j].ins = waiting[e][j].ins /\ list[k].ins = waiting[e][k].ins
            BY <4>2
          <5>2. j = k
            BY <5>1, <4>2, <3>1, <2>1 DEF Lines, OneEach
          <5>3. j \in Int /\ k \in Int
            BY <4>2, <2>6
          <5> QED
            BY <5>2, <5>3, <3>1
        <4> QED
          BY <4>1, <4>2, <1>15
      <3> QED
        BY <3>1 DEF InLine
    <2>9. \A j \in DOMAIN batch[e], k \in DOMAIN list :
             batch[e][j].ins = list[k].ins => Follows(e, batch[e][j].ins, batch[e][j].n, list[k].n)
      <3>1. ASSUME NEW j \in DOMAIN batch[e], NEW k \in DOMAIN list, batch[e][j].ins = list[k].ins
            PROVE  Follows(e, batch[e][j].ins, batch[e][j].n, list[k].n)
        <4>1. CASE list[k] = t
          BY <4>1, <3>1, <2>4, <1>6
        <4>2. CASE k \in DOMAIN waiting[e] /\ list[k] = waiting[e][k]
          BY <4>2, <3>1, <2>1 DEF Lines, ListsRight
        <4> QED
          BY <4>1, <4>2, <2>7
      <3> QED
        BY <3>1
    <2>10. ListsRight(e)'
      <3>1. InLine(e, batch[e])
        BY <2>1 DEF Lines, ListsRight
      <3>2. \A l : InLine(e, l) => \A j, k \in DOMAIN l :
               j < k /\ l[j].ins = l[k].ins => Follows(e, l[j].ins, l[j].n, l[k].n)
        BY DEF InLine
      <3>3. batch'[e] = batch[e] /\ waiting'[e] = list
        BY <1>1, <1>16
      <3>4. InLine(e, batch[e])' /\ InLine(e, waiting[e])'
        <4>2. \A j, k \in DOMAIN batch'[e] :
                 j < k /\ batch'[e][j].ins = batch'[e][k].ins
                    => Follows(e, batch[e][j].ins, batch[e][j].n, batch[e][k].n)'
          BY <3>1, <3>2, <3>3, <2>2
        <4>3. \A j, k \in DOMAIN waiting'[e] :
                 j < k /\ waiting'[e][j].ins = waiting'[e][k].ins
                    => Follows(e, waiting[e][j].ins, waiting[e][j].n, waiting[e][k].n)'
          BY <3>2, <3>3, <2>2, <2>8
        <4> QED
          BY <4>2, <4>3 DEF InLine
      <3>5. \A j \in DOMAIN batch'[e], k \in DOMAIN waiting'[e] :
               batch'[e][j].ins = waiting'[e][k].ins
                  => Follows(e, batch[e][j].ins, batch[e][j].n, waiting[e][k].n)'
        <4>1. \A j \in DOMAIN batch'[e], k \in DOMAIN waiting'[e] :
                 batch'[e][j].ins = waiting'[e][k].ins
                    => Follows(e, batch'[e][j].ins, batch'[e][j].n, waiting'[e][k].n)
          BY <3>3, <2>9
        <4> QED
          BY <4>1, <2>2
      <3> QED
        BY <3>4, <3>5 DEF ListsRight
    <2>11. SeenRight(e)'
      <3>1. \A s \in ToSet(Stgys[e]), k \in DOMAIN list :
               Follows(e, list[k].ins, seen[s][list[k].ins], list[k].n)
        <4>1. ASSUME NEW s \in ToSet(Stgys[e]), NEW k \in DOMAIN list
              PROVE  Follows(e, list[k].ins, seen[s][list[k].ins], list[k].n)
          <5>1. CASE list[k] = t
            BY <5>1, <2>4, <1>6
          <5>2. CASE k \in DOMAIN waiting[e] /\ list[k] = waiting[e][k]
            BY <5>2, <2>1 DEF Lines, SeenRight
          <5> QED
            BY <5>1, <5>2, <2>7
        <4> QED
          BY <4>1
      <3> QED
        BY <3>1, <2>1, <2>2, <1>1, <1>16 DEF Lines, SeenRight
    <2>12. LatestRight(e)'
      <3>1. \A k \in DOMAIN waiting[e] : waiting[e][k].ins \in Instruments
        BY <1>5, Ticks DEF FeedInv
      <3>2. \A k \in DOMAIN batch[e] : batch[e][k].ins \in Instruments
        BY <1>5, Ticks DEF FeedInv
      <3>3. \A k \in DOMAIN batch'[e] : UpTo(e, batch[e][k].ins, batch[e][k].n)'
        BY <1>1, <2>1, <2>3, <3>2 DEF Lines, LatestRight
      <3>4. \A k \in DOMAIN waiting'[e] : UpTo(e, waiting[e][k].ins, waiting[e][k].n)'
        <4>1. ASSUME NEW k \in DOMAIN list PROVE UpTo(e, list[k].ins, list[k].n)'
          BY <1>6, <1>16, <2>1, <2>3, <2>5, <2>7, <3>1 DEF Lines, LatestRight
        <4> QED
          BY <4>1, <1>16
      <3>5. \A s \in ToSet(Stgys[e]), j \in Instruments : UpTo(e, j, seen[s][j])'
        BY <1>1, <2>1, <2>3 DEF Lines, LatestRight
      <3> QED
        BY <3>3, <3>4, <3>5 DEF LatestRight
    <2>13. OneEach(e)'
      <3>1. ASSUME e \in DropTick, NEW j \in DOMAIN list, NEW k \in DOMAIN list,
                   list[j].ins = list[k].ins
            PROVE  j = k
        <4>1. \A x, y \in DOMAIN waiting[e] : waiting[e][x].ins = waiting[e][y].ins => x = y
          BY <2>1, <3>1 DEF Lines, OneEach
        <4>2. CASE /\ \A x \in DOMAIN waiting[e] : waiting[e][x].ins # t.ins
                   /\ DOMAIN list = 1..(Len(waiting[e]) + 1)
                   /\ list[Len(waiting[e]) + 1] = t
                   /\ \A x \in DOMAIN waiting[e] : list[x] = waiting[e][x]
          <5>1. \A x \in DOMAIN list : x = Len(waiting[e]) + 1 \/ x \in DOMAIN waiting[e]
            <6>1. DOMAIN list = 1..(Len(waiting[e]) + 1)
              BY <4>2
            <6> QED
              BY <6>1, <2>6
          <5>2. CASE j = Len(waiting[e]) + 1 /\ k \in DOMAIN waiting[e]
            BY <5>2, <4>2, <3>1
          <5>3. CASE k = Len(waiting[e]) + 1 /\ j \in DOMAIN waiting[e]
            BY <5>3, <4>2, <3>1
          <5>4. CASE j \in DOMAIN waiting[e] /\ k \in DOMAIN waiting[e]
            <6>1. list[j] = waiting[e][j] /\ list[k] = waiting[e][k]
              BY <5>4, <4>2
            <6> QED
              BY <5>4, <6>1, <4>1, <3>1
          <5> QED
            BY <5>1, <5>2, <5>3, <5>4
        <4>3. CASE /\ DOMAIN list = DOMAIN waiting[e]
                   /\ \A x \in DOMAIN waiting[e] :
                         list[x] = IF waiting[e][x].ins = t.ins THEN t ELSE waiting[e][x]
          BY <4>1, <4>3, <3>1
        <4> QED
          BY <4>2, <4>3, <3>1, <1>15
      <3> QED
        BY <3>1, <1>16 DEF OneEach
    <2> QED
      BY <2>10, <2>11, <2>12, <2>13 DEF Lines
  <1> QED
    BY <1>17, <1>18, <1>19, <1>21, <1>22 DEF FeedInv

(* The same of NotifyNext.                                                     *)
LEMMA NotifyKeeps == ASSUME FeedInv, NotifyNext PROVE FeedInv'
  BY NotifyStep

-----------------------------------------------------------------------------
(* The strategies that are given a tick are strategies of the executor.    *)
LEMMA ReceiversAre ==
    ASSUME FeedInv, NEW e \in Executors, NEW i
    PROVE  Receivers(e, i) \subseteq ToSet(Stgys[e])
  <1>1. group[e] \subseteq ToSet(Stgys[e])
    BY DEF FeedInv, Threads
  <1>2. CASE Cardinality(group[e]) = 1
    <2>1. group[e] # {}
      BY <1>2, FS_EmptySet
    <2>2. Stgys[e] \in Seq(AllStgys) /\ DOMAIN Stgys[e] # {}
      BY <2>1, <1>1, FeedAssumption DEF ToSet
    <2>3. 1 \in DOMAIN Stgys[e]
      BY <2>2
    <2> QED
      BY <1>2, <2>3 DEF Receivers, ToSet
  <1>3. CASE Cardinality(group[e]) # 1
    BY <1>1, <1>3 DEF Receivers
  <1> QED
    BY <1>2, <1>3

(* A tick the thread gives to its strategies comes after what they have    *)
(* seen, and before the other ticks the executor has.                      *)
LEMMA HandleStep ==
    ASSUME FeedInv, NEW e \in Executors, HandleTick(e),
           NEW t, t = Head(batch[e]), NEW R, R = Receivers(e, t.ins)
    PROVE  FeedInv'
  <1>1. /\ UNCHANGED <<waiting, md, latest, observers, group>>
        /\ thread[e] = "handle"
        /\ batch' = [batch EXCEPT ![e] = Tail(@)]
        /\ thread' = [thread EXCEPT ![e] = IF Len(batch[e]) = 1 THEN "wait" ELSE "handle"]
    BY DEF HandleTick
  <1>2. seen' = [s \in AllStgys |-> IF s \in R THEN [seen[s] EXCEPT ![t.ins] = t.n] ELSE seen[s]]
    BY DEF HandleTick
  <1>3. batch[e] \in Seq(TickRecs) /\ batch[e] # <<>>
    BY <1>1 DEF FeedInv, FeedTypes, Threads
  <1>4. 1 \in DOMAIN batch[e] /\ t = batch[e][1] /\ t.ins \in Instruments /\ t.n \in Int
    <2>1. 1 \in DOMAIN batch[e] /\ t = batch[e][1]
      BY <1>3
    <2> QED
      BY <1>3, <2>1, TickOf
  <1>5. /\ DOMAIN batch[e] = 1..Len(batch[e]) /\ Len(batch[e]) \in Nat \ {0}
        /\ Tail(batch[e]) \in Seq(TickRecs)
        /\ DOMAIN Tail(batch[e]) = 1..(Len(batch[e]) - 1)
        /\ \A k \in 1..(Len(batch[e]) - 1) : Tail(batch[e])[k] = batch[e][k + 1]
    BY <1>3
  <1>6. batch'[e] = Tail(batch[e]) /\ \A f \in Executors : f # e => batch'[f] = batch[f]
    BY <1>1 DEF FeedInv, FeedTypes
  <1>7. \A k \in DOMAIN batch'[e] :
           k \in Int /\ 1 < k + 1 /\ k + 1 \in DOMAIN batch[e] /\ batch'[e][k] = batch[e][k + 1]
    BY <1>5, <1>6
  <1>8. R \subseteq ToSet(Stgys[e]) /\ R \subseteq AllStgys
    BY ReceiversAre DEF AllStgys
  <1>9. \A s \in AllStgys : seen[s] \in [Instruments -> Int]
    BY DEF FeedInv, FeedTypes
  <1>10. \A s \in AllStgys, i \in Instruments :
            seen'[s][i] = IF s \in R /\ i = t.ins THEN t.n ELSE seen[s][i]
    BY <1>2, <1>4, <1>9
  <1>11. FeedTypes'
    <2>1. batch' \in [Executors -> Seq(TickRecs)]
      BY <1>1, <1>5 DEF FeedInv, FeedTypes
    <2>2. seen' \in [AllStgys -> [Instruments -> Int]]
      BY <1>2, <1>4, <1>9
    <2>3. thread' \in [Executors -> {"new", "ready", "wait", "check", "handle", "ended"}]
      BY <1>1 DEF FeedInv, FeedTypes
    <2> QED
      BY <1>1, <2>1, <2>2, <2>3 DEF FeedInv, FeedTypes
  <1>12. Threads'
    <2>1. ASSUME NEW f \in Executors, thread'[f] \in {"check", "handle"} PROVE batch'[f] # <<>>
      <3>1. CASE f = e
        <4>1. Len(batch[e]) # 1
          BY <1>1, <2>1, <3>1 DEF FeedInv, FeedTypes
        <4>2. Len(batch[e]) \in Nat /\ Len(batch[e]) # 0
          BY <1>3
        <4>3. Tail(batch[e]) \in Seq(TickRecs) /\ Len(Tail(batch[e])) = Len(batch[e]) - 1
          BY <1>3
        <4>4. Len(batch[e]) - 1 # 0
          BY <4>1, <4>2
        <4>5. Tail(batch[e]) # <<>>
          <5>1. Len(Tail(batch[e])) # 0
            BY <4>3, <4>4
          <5>2. Len(<<>>) = 0
            OBVIOUS
          <5> QED
            BY <5>1, <5>2, Zenon
        <4> QED
          BY <3>1, <4>5, <1>6
      <3>2. CASE f # e
        <4>1. thread[f] \in {"check", "handle"}
          BY <1>1, <2>1, <3>2 DEF FeedInv, FeedTypes
        <4> QED
          BY <3>2, <4>1, <1>6 DEF FeedInv, Threads
      <3> QED
        BY <3>1, <3>2
    <2> QED
      BY <1>1, <2>1 DEF FeedInv, Threads
  <1>13. Notifying'
    BY <1>1 DEF FeedInv, Notifying
  <1>14. ASSUME NEW f \in Executors, f # e PROVE Lines(f)'
    <2>1. \A s \in ToSet(Stgys[f]) : s \notin R /\ s \in AllStgys
      BY <1>8, <1>14, FeedAssumption DEF AllStgys
    <2>2. \A s \in ToSet(Stgys[f]) : seen'[s] = seen[s]
      BY <1>2, <2>1
    <2>3. \A i \in Instruments : (Twice(f, i) => Twice(f, i)') /\ (Told(f, i)' => Told(f, i))
      BY <1>1 DEF Twice, Told
    <2>4. FeedTypes /\ Lines(f)
      BY DEF FeedInv
    <2>5. /\ latest' = latest /\ batch'[f] = batch[f] /\ waiting'[f] = waiting[f]
          /\ md'.n = md.n
      BY <1>1, <1>6, <1>14
    <2> QED
      BY <2>2, <2>3, <2>4, <2>5, LinesStay
  <1>15. Lines(e)'
    <2>1. Lines(e)
      BY DEF FeedInv
    <2>2. /\ \A i, n, m : Follows(e, i, n, m)' <=> Follows(e, i, n, m)
          /\ \A i, n : UpTo(e, i, n)' <=> UpTo(e, i, n)
      BY <1>1 DEF Follows, Twice, UpTo, Told
    <2>3. \A j, k \in DOMAIN batch[e] :
             j < k /\ batch[e][j].ins = batch[e][k].ins
                => Follows(e, batch[e][j].ins, batch[e][j].n, batch[e][k].n)
      BY <2>1 DEF Lines, ListsRight, InLine
    <2>4. \A j \in DOMAIN batch[e], k \in DOMAIN waiting[e] :
             batch[e][j].ins = waiting[e][k].ins
                => Follows(e, batch[e][j].ins, batch[e][j].n, waiting[e][k].n)
      BY <2>1 DEF Lines, ListsRight
    <2>5. \A s \in ToSet(Stgys[e]), i \in Instruments :
             s \in AllStgys /\ (seen'[s][i] = seen[s][i] \/ (i = t.ins /\ seen'[s][i] = t.n))
      BY <1>10 DEF AllStgys
    <2>6. ListsRight(e)'
      <3>1. \A j, k \in DOMAIN batch'[e] :
               j < k /\ batch'[e][j].ins = batch'[e][k].ins
                  => Follows(e, batch[e][j].ins, batch[e][j].n, batch[e][k].n)'
        <4>1. ASSUME NEW j \in DOMAIN batch'[e], NEW k \in DOMAIN batch'[e],
                     j < k, batch'[e][j].ins = batch'[e][k].ins
              PROVE  Follows(e, batch'[e][j].ins, batch'[e][j].n, batch'[e][k].n)
          <5>1. j + 1 < k + 1 /\ j + 1 \in DOMAIN batch[e] /\ k + 1 \in DOMAIN batch[e]
            BY <4>1, <1>7
          <5>2. batch'[e][j] = batch[e][j + 1] /\ batch'[e][k] = batch[e][k + 1]
            BY <1>7
          <5> QED
            BY <4>1, <5>1, <5>2, <2>3
        <4> QED
          BY <4>1, <2>2
      <3>2. \A j \in DOMAIN batch'[e], k \in DOMAIN waiting'[e] :
               batch'[e][j].ins = waiting'[e][k].ins
                  => Follows(e, batch[e][j].ins, batch[e][j].n, waiting[e][k].n)'
        BY <1>1, <1>7, <2>2, <2>4
      <3>3. \A j, k \in DOMAIN waiting'[e] :
               j < k /\ waiting'[e][j].ins = waiting'[e][k].ins
                  => Follows(e, waiting[e][j].ins, waiting[e][j].n, waiting[e][k].n)'
        BY <1>1, <2>1, <2>2 DEF Lines, ListsRight, InLine
      <3> QED
        BY <3>1, <3>2, <3>3 DEF ListsRight, InLine
    <2>7. SeenRight(e)'
      <3>1. ASSUME NEW s \in ToSet(Stgys[e]), NEW k \in DOMAIN batch'[e]
            PROVE  Follows(e, batch[e][k].ins, seen[s][batch[e][k].ins], batch[e][k].n)'
        <4>1. k + 1 \in DOMAIN batch[e] /\ batch'[e][k] = batch[e][k + 1] /\ 1 < k + 1
          BY <1>7
        <4>2. batch[e][k + 1].ins \in Instruments
          BY <4>1, Ticks DEF FeedInv
        <4>3. Follows(e, batch[e][k + 1].ins, seen[s][batch[e][k + 1].ins], batch[e][k + 1].n)
          BY <4>1, <2>1 DEF Lines, SeenRight
        <4>4. t.ins = batch[e][k + 1].ins => Follows(e, t.ins, t.n, batch[e][k + 1].n)
          BY <4>1, <2>3, <1>4
        <4>5. Follows(e, batch'[e][k].ins, seen'[s][batch'[e][k].ins], batch'[e][k].n)
          BY <4>1, <4>2, <4>3, <4>4, <2>5
        <4> QED
          BY <4>5, <2>2
      <3>2. ASSUME NEW s \in ToSet(Stgys[e]), NEW k \in DOMAIN waiting'[e]
            PROVE  Follows(e, waiting[e][k].ins, seen[s][waiting[e][k].ins], waiting[e][k].n)'
        <4>1. k \in DOMAIN waiting[e] /\ waiting'[e][k] = waiting[e][k]
          BY <1>1
        <4>2. waiting[e][k].ins \in Instruments
          BY <4>1, Ticks DEF FeedInv
        <4>3. Follows(e, waiting[e][k].ins, seen[s][waiting[e][k].ins], waiting[e][k].n)
          BY <4>1, <2>1 DEF Lines, SeenRight
        <4>4. t.ins = waiting[e][k].ins => Follows(e, t.ins, t.n, waiting[e][k].n)
          BY <4>1, <2>4, <1>4
        <4>5. Follows(e, waiting'[e][k].ins, seen'[s][waiting'[e][k].ins], waiting'[e][k].n)
          BY <4>1, <4>2, <4>3, <4>4, <2>5
        <4> QED
          BY <4>5, <2>2
      <3> QED
        BY <3>1, <3>2 DEF SeenRight
    <2>8. LatestRight(e)'
      <3>1. \A k \in DOMAIN batch[e] : UpTo(e, batch[e][k].ins, batch[e][k].n)
        BY <2>1 DEF Lines, LatestRight
      <3>2. \A s \in ToSet(Stgys[e]), i \in Instruments : UpTo(e, i, seen[s][i])
        BY <2>1 DEF Lines, LatestRight
      <3>3. \A k \in DOMAIN batch'[e] : UpTo(e, batch[e][k].ins, batch[e][k].n)'
        BY <3>1, <1>7, <2>2
      <3>4. \A k \in DOMAIN waiting'[e] : UpTo(e, waiting[e][k].ins, waiting[e][k].n)'
        BY <1>1, <2>1, <2>2 DEF Lines, LatestRight
      <3>5. \A s \in ToSet(Stgys[e]), i \in Instruments : UpTo(e, i, seen[s][i])'
        BY <3>1, <3>2, <1>4, <2>2, <2>5
      <3> QED
        BY <3>3, <3>4, <3>5 DEF LatestRight
    <2>9. OneEach(e)'
      BY <1>1, <2>1 DEF Lines, OneEach
    <2> QED
      BY <2>6, <2>7, <2>8, <2>9 DEF Lines
  <1> QED
    BY <1>11, <1>12, <1>13, <1>14, <1>15 DEF FeedInv

(* The same of HandleTick.                                                 *)
LEMMA HandleTickKeeps == ASSUME FeedInv, NEW e \in Executors, HandleTick(e) PROVE FeedInv'
  BY HandleStep

-----------------------------------------------------------------------------
(* Every step keeps the ticks in line.                                     *)
LEMMA NextIInv == ASSUME FeedInv, [FeedNext]_feedVars PROVE FeedInv'
  <1>1. CASE UNCHANGED feedVars
    <2>1. UNCHANGED <<waiting, batch, md, latest, seen, observers, group, thread>>
      BY <1>1 DEF feedVars
    <2>2. FeedTypes' /\ Threads'
      BY <2>1 DEF FeedInv, FeedTypes, Threads
    <2> QED
      BY <2>1, <2>2, OtherKeeps
  <1>2. ASSUME NEW e \in Executors,
               \/ InitExecutor(e) \/ Start(e) \/ StopThread(e) \/ Restart(e)
               \/ Wait(e) \/ Check(e) \/ HandleTick(e)
        PROVE  FeedInv'
    BY <1>2, InitExecutorKeeps, ThreadKeeps, WaitStepKeeps, DropKeeps, HandleTickKeeps
  <1>3. ASSUME NEW i \in Instruments, Tick(i) PROVE FeedInv'
    BY <1>3, TickKeeps
  <1>4. CASE NotifyNext
    BY <1>4, NotifyKeeps
  <1> QED
    BY <1>1, <1>2, <1>3, <1>4 DEF FeedNext

(* What a strategy has seen, what is fetched, what waits and what is being *)
(* notified are in one line (MdSubject::notify, StgyObserver::notify and   *)
(* wait, StgyExecutor::run and run_m).                                     *)
THEOREM FeedInvariance == FeedSpec => []FeedInv
  <1>1. FeedInit => FeedInv
    BY InitIInv
  <1>2. FeedInv /\ [FeedNext]_feedVars => FeedInv'
    BY NextIInv
  <1> QED
    BY <1>1, <1>2, PTL DEF FeedSpec

(* An observer attached twice is counted twice.                            *)
LEMMA TwiceShared ==
    ASSUME FeedTypes, NEW e \in Executors, NEW i \in Instruments, Twice(e, i)
    PROVE  Shared(e, i)
  <1> DEFINE S == {k \in DOMAIN observers[i] : observers[i][k] = e}
  <1>1. PICK k, l \in DOMAIN observers[i] : k # l /\ observers[i][k] = e /\ observers[i][l] = e
    BY DEF Twice
  <1>2. observers[i] \in Seq(Executors)
    BY DEF FeedTypes
  <1>3. DOMAIN observers[i] = 1..Len(observers[i]) /\ Len(observers[i]) \in Nat
    BY <1>2
  <1>4. IsFiniteSet(1..Len(observers[i]))
    BY <1>3, FS_Interval
  <1>5. IsFiniteSet(S)
    BY <1>3, <1>4, FS_Subset
  <1>6. {k, l} \subseteq S /\ k # l
    BY <1>1
  <1>7. IsFiniteSet({k}) /\ Cardinality({k}) = 1
    BY FS_Singleton
  <1>8. Cardinality({k} \cup {l}) = 2
    <2>1. Cardinality({k} \cup {l}) = IF l \in {k} THEN Cardinality({k}) ELSE Cardinality({k}) + 1
      BY <1>7, FS_AddElement
    <2>2. l \notin {k}
      BY <1>6
    <2> QED
      BY <2>1, <2>2, <1>7
  <1>9. {k} \cup {l} = {k, l}
    OBVIOUS
  <1>10. Cardinality({k, l}) <= Cardinality(S)
    BY <1>5, <1>6, FS_Subset
  <1>11. Cardinality(S) \in Nat
    BY <1>5, FS_CardinalityType
  <1>12. Cardinality(S) > 1
    BY <1>8, <1>9, <1>10, <1>11
  <1> QED
    BY <1>12 DEF Shared

(* No tick comes after a newer one, and none twice to a strategy whose     *)
(* executor's observer is attached to the instrument once (run, run_m,     *)
(* MdSubject::notify): whatever is dropped, restarted or fetched between   *)
(* two notifications.                                                      *)
THEOREM TicksOrdered == FeedSpec => TicksInOrder
  <1> DEFINE InOrder ==
         \A e \in Executors : HandleTick(e) =>
            LET t == Head(batch[e])
            IN  \A s \in Receivers(e, t.ins) :
                    /\ t.n >= seen[s][t.ins]
                    /\ t.n = seen[s][t.ins] => Shared(e, t.ins)
  <1>1. ASSUME FeedInv, [FeedNext]_feedVars PROVE [InOrder]_feedVars
    <2>1. ASSUME NEW e \in Executors, HandleTick(e),
                 NEW t, t = Head(batch[e]), NEW s \in Receivers(e, t.ins)
          PROVE  t.n >= seen[s][t.ins] /\ (t.n = seen[s][t.ins] => Shared(e, t.ins))
      <3>1. batch[e] \in Seq(TickRecs) /\ batch[e] # <<>>
        BY <1>1, <2>1 DEF FeedInv, FeedTypes, Threads, HandleTick
      <3>2. 1 \in DOMAIN batch[e] /\ t = batch[e][1]
        BY <3>1, <2>1
      <3>3. t.ins \in Instruments /\ t.n \in Int
        BY <3>1, <3>2, TickOf
      <3>4. s \in ToSet(Stgys[e])
        BY <1>1, ReceiversAre
      <3>5. seen[s][t.ins] \in Int
        BY <1>1, <3>3, <3>4, Ticks DEF FeedInv
      <3>6. Follows(e, t.ins, seen[s][t.ins], t.n)
        BY <1>1, <3>2, <3>4 DEF FeedInv, Lines, SeenRight
      <3> QED
        BY <1>1, <3>3, <3>5, <3>6, TwiceShared DEF Follows, FeedInv
    <2> QED
      BY <2>1
  <1>2. FeedSpec => []FeedInv
    BY FeedInvariance
  <1>3. TicksInOrder <=> [][InOrder]_feedVars
    BY DEF TicksInOrder
  <1> QED
    BY <1>1, <1>2, <1>3, PTL DEF FeedSpec
=============================================================================
