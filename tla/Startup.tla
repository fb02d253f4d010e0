------------------------------- MODULE Startup -------------------------------
(***************************************************************************)
(* The start of the program and the two sessions with CTP.                 *)
(*                                                                         *)
(* The Python thread (main.py) connects the market data gateway, then the  *)
(* trade gateway, which also fetches the data of the day, and then         *)
(* initialises the strategies, whose instruments are subscribed to.  The   *)
(* callbacks of the two fronts log in, wake the Python thread, subscribe   *)
(* again after a reconnection and book trades.  Sources:                   *)
(* src/src/ctp/{trade_gateway,md_gateway,trade_api,md_api}.cpp.            *)
(*                                                                         *)
(* The front, its session and the stream of trades are external: as        *)
(* priv_resume_type "restart" asks for (all configurations do), a log-in   *)
(* makes CTP send the trades of the day again.  A query is one step with   *)
(* the outcomes that QryQueue shows: rows, an exception, or neither, after *)
(* its time-out; that for the positions is two, as trades can be announced *)
(* between CTP's report and its answer.  Callbacks of one front run one at *)
(* a time.                                                                 *)
(***************************************************************************)
EXTENDS Integers, Sequences, SequencesExt, FiniteSets

CONSTANTS
    StgyUniverse,   \* instruments of the strategies
    SameId,         \* instruments whose instrument_id is the order book id
    TradedIn,       \* the instruments of the trades of the day, in order
    BatchSize,      \* instruments in one request to subscribe (100)
    RetryTimes,     \* retry_times_ of both gateways (5)
    MaxDowns,       \* bound: disconnections
    MaxErrors,      \* bound: refused, failed or timed-out requests and
                    \* wake-ups without a notification
    Midnights       \* bound: does midnight pass? 0 or 1

Fronts == {"md", "td"}
Trades == 1..Len(TradedIn)
Steps  == <<"confirm", "instrument", "account", "report", "position", "order", "commission">>
Adders == {"main", "td"}

ASSUME StartupAssumption ==
    /\ TradedIn \in Seq(ToSet(TradedIn))
    /\ BatchSize \in Nat \ {0} /\ RetryTimes \in Nat \ {0}
    /\ MaxDowns \in Nat /\ MaxErrors \in Nat /\ Midnights \in {0, 1}

VARIABLES
    main,       \* the Python thread: where it is, front, query, tries
    net,        \* [front -> states of the API instances made so far]
    connected,  \* connected_ of each API
    logged_in,  \* logged_in_ of each API
    asked,      \* log-ins sent and not answered
    session,    \* has the API instance in use a session at its front?
    callback,   \* is the market data thread about to subscribe again?
    universe,   \* Env::universe
    adding,     \* instruments each thread has to add, and the batch it is at
    subs,       \* what the market data API in use is subscribed to
    done,       \* trades made at the exchange
    stream,     \* trades CTP has sent and on_trade not handled
    date,       \* data_update_date_: "none", "today" or "past"
    account,    \* is DataCache::account_ set?
    pos,        \* trades that the reported positions include
    portfolio,  \* is there an Env::portfolio?
    known,      \* instruments with a position object
    count,      \* how often each trade is in the portfolio's positions
    backward,   \* backward_trade_set_
    downs, errors,
    odd         \* what has happened that the properties make exceptions for

sessVars  == <<net, connected, logged_in, asked, session, callback>>
subVars   == <<universe, adding, subs>>
tradeVars == <<done, stream, date, account, pos, portfolio, known, count, backward>>
bounds    == <<downs, errors, odd>>
vars      == <<main, net, connected, logged_in, asked, session, callback,
               universe, adding, subs, done, stream, date, account, pos, portfolio, known,
               count, backward, downs, errors, odd>>

NoWork == [todo |-> {}, cur |-> {}]

Init ==
    /\ main = [at |-> "connect", front |-> "md", step |-> 1, tries |-> 0]
    /\ net = [f \in Fronts |-> <<>>]
    /\ connected = [f \in Fronts |-> FALSE]
    /\ logged_in = [f \in Fronts |-> FALSE]
    /\ asked = [f \in Fronts |-> 0]
    /\ session = [f \in Fronts |-> FALSE]
    /\ callback = FALSE
    /\ universe = {} /\ subs = {}
    /\ adding = [t \in Adders |-> NoWork]
    /\ done = 0 /\ stream = <<>>
    /\ date = "none" /\ account = FALSE /\ pos = {} /\ portfolio = FALSE
    /\ known = {} /\ count = [t \in Trades |-> 0] /\ backward = {}
    /\ downs = 0 /\ errors = 0 /\ odd = {}

Alive == main.at # "dead"
Dies  == main' = [main EXCEPT !.at = "dead"]
Fault == errors < MaxErrors /\ errors' = errors + 1

-----------------------------------------------------------------------------
(* The sessions.  The API member of a gateway is the instance made last;   *)
(* instances made earlier call back too.                                   *)
InUse(f) == net[f] # <<>> /\ Last(net[f]) = "up"

(* notify: only a thread that waits already is woken.                      *)
Notify(f) ==
    /\ main' = [main EXCEPT !.at = IF main.front = f /\ @ = "asleep"
                                   THEN "woken" ELSE @]
    /\ odd' = IF main.front = f /\ main.at \in {"connect", "wait"}
              THEN odd \cup {"lost_notify"} ELSE odd

(* The log-in of instance k; the request may fail to be sent.              *)
SendLogin(f, up) ==
    /\ ~logged_in[f]
    /\ UNCHANGED callback
    /\ \/ /\ asked' = [asked EXCEPT ![f] = IF up THEN @ + 1 ELSE @]
          /\ UNCHANGED <<errors, odd>>
       \/ /\ up /\ Fault /\ odd' = odd \cup {"unsent"}
          /\ UNCHANGED asked

(* When it is logged in, the market data API subscribes.                   *)
MdLogin(up) ==
    \/ SendLogin("md", up)
    \/ /\ logged_in["md"]
       /\ callback' = TRUE
       /\ UNCHANGED <<asked, errors, odd>>

TdLogin(up) ==
    \/ SendLogin("td", up)
    \/ logged_in["td"] /\ UNCHANGED <<asked, callback, errors, odd>>

Login(f, up) == IF f = "md" THEN MdLogin(up) ELSE TdLogin(up)

(* connect of the gateway calls connect of its API: a new instance unless  *)
(* the front is connected.                                                 *)
Connect ==
    LET f == main.front
    IN  /\ main.at = "connect"
        /\ main' = [main EXCEPT !.at = "wait"]
        /\ IF connected[f]
           THEN Login(f, InUse(f)) /\ UNCHANGED <<net, session, subs>>
           ELSE /\ net' = [net EXCEPT ![f] = Append(@, "connecting")]
                /\ asked' = [asked EXCEPT ![f] = 0]
                /\ session' = [session EXCEPT ![f] = FALSE]
                /\ subs' = IF f = "md" THEN {} ELSE subs
                /\ UNCHANGED <<callback, errors, odd>>
        /\ UNCHANGED <<connected, logged_in, universe, adding, tradeVars, downs>>

(* wait_for() without a time limit or a predicate.                         *)
WaitFor ==
    /\ main.at = "wait"
    /\ main' = [main EXCEPT !.at = "asleep"]
    /\ UNCHANGED <<sessVars, subVars, tradeVars, bounds>>

SpuriousWake ==
    /\ main.at = "asleep" /\ Fault
    /\ main' = [main EXCEPT !.at = "woken"]
    /\ UNCHANGED <<sessVars, subVars, tradeVars, downs, odd>>

(* logged_in_ is looked at after the wait; the market data gateway then    *)
(* returns and the trade gateway goes on to fetch the data of the day.     *)
Woken ==
    /\ main.at = "woken"
    /\ \/ /\ logged_in[main.front] /\ main.front = "md"
          /\ main' = [main EXCEPT !.at = "connect", !.front = "td", !.tries = 0]
       \/ /\ logged_in[main.front] /\ main.front = "td"
          /\ main' = [main EXCEPT !.at = "sync", !.tries = 0]
       \/ /\ ~logged_in[main.front] /\ main.tries + 1 < RetryTimes
          /\ main' = [main EXCEPT !.at = "connect", !.tries = @ + 1]
       \/ /\ ~logged_in[main.front] /\ main.tries + 1 >= RetryTimes
          /\ Dies
    /\ UNCHANGED <<sessVars, subVars, tradeVars, bounds>>

(* The mutated form of Connected the project checks StartupEnds against:   *)
(* the log-in is left to connect(), which is called once.                  *)
ConnectedOnly(f, k) ==
    /\ connected' = [connected EXCEPT ![f] = TRUE]
    /\ UNCHANGED <<asked, callback, errors, odd>>

Connected(f, k) ==
    /\ connected' = [connected EXCEPT ![f] = TRUE]
    /\ Login(f, k = Len(net[f]) \/ InUse(f))

(* OnFrontConnected of instance k.                                         *)
OnFrontConnected(f, k) ==
    /\ Alive /\ net[f][k] = "connecting"
    /\ f = "md" => ~callback
    /\ net' = [net EXCEPT ![f][k] = "up"]
    /\ Connected(f, k)
    /\ UNCHANGED <<main, logged_in, session, subVars, tradeVars, downs>>

(* OnFrontDisconnected of instance k; CTP connects again by itself.        *)
OnFrontDisconnected(f, k) ==
    /\ Alive /\ net[f][k] = "up" /\ downs < MaxDowns
    /\ f = "md" => ~callback
    /\ downs' = downs + 1
    /\ net' = [net EXCEPT ![f][k] = "connecting"]
    /\ connected' = [connected EXCEPT ![f] = FALSE]
    /\ logged_in' = [logged_in EXCEPT ![f] = FALSE]
    /\ IF k = Len(net[f])
       THEN /\ asked' = [asked EXCEPT ![f] = 0]
            /\ session' = [session EXCEPT ![f] = FALSE]
            /\ subs' = IF f = "md" THEN {} ELSE subs
            /\ stream' = IF f = "td" THEN <<>> ELSE stream
       ELSE UNCHANGED <<asked, session, subs, stream>>
    /\ UNCHANGED <<main, callback, universe, adding, done, date, account, pos, portfolio,
                   known, count, backward, errors, odd>>

(* OnRspUserLogin: both wake the Python thread; then the market data       *)
(* callback subscribes to the universe, and CTP sends the day's trades.    *)
OnRspUserLogin(f) ==
    /\ Alive /\ asked[f] > 0
    /\ f = "md" => ~callback
    /\ asked' = [asked EXCEPT ![f] = @ - 1]
    /\ logged_in' = [logged_in EXCEPT ![f] = TRUE]
    /\ session' = [session EXCEPT ![f] = TRUE]
    /\ Notify(f)
    /\ callback' = (callback \/ f = "md")
    /\ stream' = IF f = "td" THEN [t \in 1..done |-> t] ELSE stream
    /\ UNCHANGED <<net, connected, subVars, done, date, account, pos, portfolio, known,
                   count, backward, downs, errors>>

(* A refused log-in: the trade API ends the program, the market data API   *)
(* writes a line to the log.                                               *)
LoginRefused(f) ==
    /\ Alive /\ asked[f] > 0 /\ Fault
    /\ asked' = [asked EXCEPT ![f] = @ - 1]
    /\ odd' = odd \cup {"refused"}
    /\ IF f = "td" THEN Dies ELSE UNCHANGED main
    /\ UNCHANGED <<net, connected, logged_in, session, callback, subVars, tradeVars,
                   downs>>

-----------------------------------------------------------------------------
(* The universe.  CTP takes a subscription only in a session.              *)
Subscribe(S) == subs' = IF session["md"] THEN subs \cup S ELSE subs

(* CtpMdGateway::subscribe() on the market data thread.                    *)
Resubscribe ==
    /\ Alive /\ callback
    /\ callback' = FALSE
    /\ Subscribe(universe)
    /\ UNCHANGED <<main, net, connected, logged_in, asked, session, universe,
                   adding, tradeVars, bounds>>

(* lambda_universe, the listener of POST_UNIVERSE_CHANGED: the set holds   *)
(* instrument ids and is asked for order book ids.                         *)
New(S) == {i \in S : i \notin SameId \/ i \notin universe}

Batches(S) ==
    {b \in SUBSET S : Cardinality(b) = IF Cardinality(S) < BatchSize
                                       THEN Cardinality(S) ELSE BatchSize}

(* The mutated form of AddBatch the project checks AllSubscribed against:  *)
(* a batch is subscribed to before it is entered in the universe.          *)
AddBatchSubscribeFirst(t) ==
    /\ Alive
    /\ \/ /\ adding[t].cur = {} /\ adding[t].todo # {}
          /\ \E b \in Batches(adding[t].todo) :
                /\ Subscribe(b)
                /\ adding' = [adding EXCEPT ![t] = [todo |-> @.todo \ b, cur |-> b]]
          /\ UNCHANGED universe
       \/ /\ adding[t].cur # {}
          /\ universe' = universe \cup adding[t].cur
          /\ adding' = [adding EXCEPT ![t].cur = {}]
          /\ UNCHANGED subs
    /\ UNCHANGED <<main, sessVars, tradeVars, bounds>>

(* One batch: entered in the universe, then subscribed to.                 *)
AddBatch(t) ==
    /\ Alive
    /\ \/ /\ adding[t].cur = {} /\ adding[t].todo # {}
          /\ \E b \in Batches(adding[t].todo) :
                /\ universe' = universe \cup b
                /\ adding' = [adding EXCEPT ![t] = [todo |-> @.todo \ b, cur |-> b]]
          /\ UNCHANGED subs
       \/ /\ adding[t].cur # {}
          /\ Subscribe(adding[t].cur)
          /\ adding' = [adding EXCEPT ![t].cur = {}]
          /\ UNCHANGED universe
    /\ UNCHANGED <<main, sessVars, tradeVars, bounds>>

-----------------------------------------------------------------------------
(* The data of the day.                                                    *)
NextStep == [main EXCEPT !.at = IF @ = "sync" /\ main.step = Len(Steps)
                                THEN "date" ELSE @,
                         !.step = @ + 1, !.tries = 0]

(* An answer has rows, none at all, or did not come in time.  Without rows *)
(* the account and the instruments are a null pointer, as for every query  *)
(* after a time-out; the other handlers make their map first.              *)
Answered(q, answer) ==
    /\ main.at = "sync" /\ Steps[main.step] = q
    /\ answer = "empty" => q \in {"instrument", "account"}
    /\ answer # "none" => session["td"]
    /\ IF answer = "rows" THEN UNCHANGED errors ELSE Fault
    /\ UNCHANGED <<sessVars, subVars, done, stream, date, portfolio, known,
                   count, backward, downs, odd>>

ConfirmSettlementInfo(answer) ==
    /\ Answered("confirm", answer)
    /\ main' = NextStep
    /\ UNCHANGED <<account, pos>>

(* cache_ins goes through the instruments at once.                         *)
QryInstrument(answer) ==
    /\ Answered("instrument", answer)
    /\ IF answer = "rows" THEN main' = NextStep ELSE Dies
    /\ UNCHANGED <<account, pos>>

(* cache_account keeps what it gets for later.                             *)
QryAccount(answer) ==
    /\ Answered("account", answer)
    /\ main' = NextStep
    /\ account' = (answer = "rows")
    /\ UNCHANGED pos

(* CTP takes its report of the positions; the rows are on their way.       *)
Report ==
    /\ main.at = "sync" /\ Steps[main.step] = "report" /\ session["td"]
    /\ pos' = 1..done
    /\ main' = [main EXCEPT !.step = @ + 1]
    /\ UNCHANGED <<sessVars, subVars, done, stream, date, account, portfolio, known,
                   count, backward, bounds>>

(* The wait for the rows may also end before the report is taken.          *)
QryPosition(answer) ==
    /\ Answered("position", answer) \/ (answer = "none" /\ Answered("report", answer))
    /\ IF answer = "rows" THEN main' = NextStep ELSE Dies
    /\ UNCHANGED <<account, pos>>

(* qry_order tests for the null pointer.                                   *)
QryOrder(answer) ==
    /\ Answered("order", answer)
    /\ main' = NextStep
    /\ UNCHANGED <<account, pos>>

QryCommission(answer) ==
    /\ Answered("commission", answer)
    /\ IF answer = "rows" THEN main' = NextStep ELSE Dies
    /\ UNCHANGED <<account, pos>>

Query(answer) ==
    \/ ConfirmSettlementInfo(answer) \/ QryInstrument(answer) \/ QryAccount(answer)
    \/ QryPosition(answer) \/ QryOrder(answer) \/ QryCommission(answer)

(* A ReqException or RspException, which a query without a session always  *)
(* ends with: the loop asks again, retry_times_ times.                     *)
QueryFails ==
    /\ main.at = "sync"
    /\ IF session["td"] THEN Fault ELSE UNCHANGED errors
    /\ IF main.tries + 1 < RetryTimes
       THEN main' = [main EXCEPT !.step = IF Steps[@] = "position" THEN @ - 1 ELSE @,
                                 !.tries = @ + 1]
       ELSE Dies
    /\ UNCHANGED <<sessVars, subVars, tradeVars, downs, odd>>

SetDate ==
    /\ main.at = "date"
    /\ date' = "today"
    /\ main' = [main EXCEPT !.at = "build"]
    /\ UNCHANGED <<sessVars, subVars, done, stream, account, pos, portfolio, known,
                   count, backward, bounds>>

(* init_env: positions() makes a position for each row, which publishes    *)
(* its instrument, and only then does the environment have a portfolio.    *)
Build ==
    /\ main.at = "build" /\ account
    /\ main' = [main EXCEPT !.at = "built"]
    /\ known' = {TradedIn[t] : t \in pos}
    /\ count' = [t \in Trades |-> IF t \in pos THEN 1 ELSE 0]
    /\ adding' = [adding EXCEPT !["main"].todo = New(known')]
    /\ UNCHANGED <<sessVars, universe, subs, done, stream, date, account, pos, portfolio,
                   backward, bounds>>

(* DataCache::account() begins with the balance of the account.            *)
BuildFails ==
    /\ main.at = "build" /\ ~account
    /\ Dies
    /\ UNCHANGED <<sessVars, subVars, tradeVars, bounds>>

(* The portfolio is set; then StgyExecutor::init publishes the             *)
(* strategies' instruments.                                                *)
InitStrategies ==
    /\ main.at = "built" /\ adding["main"] = NoWork
    /\ portfolio' = TRUE
    /\ main' = [main EXCEPT !.at = "universe"]
    /\ adding' = [adding EXCEPT !["main"].todo = New(StgyUniverse)]
    /\ UNCHANGED <<sessVars, universe, subs, done, stream, date, account, pos, known,
                   count, backward, bounds>>

Ready ==
    /\ main.at = "universe" /\ adding["main"] = NoWork
    /\ main' = [main EXCEPT !.at = "ready"]
    /\ UNCHANGED <<sessVars, subVars, tradeVars, bounds>>

-----------------------------------------------------------------------------
(* Trades.                                                                 *)
Trade ==
    /\ done < Len(TradedIn)
    /\ done' = done + 1
    /\ stream' = IF session["td"] THEN Append(stream, done') ELSE stream
    /\ UNCHANGED <<main, sessVars, subVars, date, account, pos, portfolio, known, count,
                   backward, bounds>>

(* The mutated form of Seen the project checks TradesCounted against: a    *)
(* trade sent again is booked again.                                       *)
SeenNever(t) == FALSE
Seen(t) == t \in backward

(* on_trade: cached before the data of the day are complete, and applied   *)
(* once after; a position made for it publishes its instrument.            *)
OnTrade ==
    LET t   == Head(stream)
        ins == TradedIn[t]
    IN  /\ Alive /\ stream # <<>> /\ adding["td"] = NoWork
        /\ stream' = Tail(stream)
        /\ \/ /\ date # "today"     \* cache_trade
              /\ odd' = IF date = "past" /\ count[t] = 0 THEN odd \cup {"midnight"}
                        ELSE IF main.step > 4 /\ t \notin pos
                             THEN odd \cup {"while_fetching"} ELSE odd
              /\ UNCHANGED <<main, adding, known, count, backward>>
           \/ /\ date = "today" /\ ~portfolio   \* the account of a null pointer
              /\ Dies
              /\ UNCHANGED <<adding, known, count, backward, odd>>
           \/ /\ date = "today" /\ portfolio /\ ~Seen(t)
              /\ count' = [count EXCEPT ![t] = @ + 1]
              /\ backward' = backward \cup {t}
              /\ known' = known \cup {ins}
              /\ adding' = [adding EXCEPT !["td"].todo =
                               IF ins \in known THEN {} ELSE New({ins})]
              /\ odd' = IF t \in pos THEN odd \cup {"fetched_before"} ELSE odd
              /\ UNCHANGED main
           \/ /\ date = "today" /\ portfolio /\ Seen(t)
              /\ UNCHANGED <<main, adding, known, count, backward, odd>>
        /\ UNCHANGED <<sessVars, universe, subs, done, date, account, pos, portfolio,
                       downs, errors>>

(* data_update_date_ is compared with the date of the clock.               *)
Midnight ==
    /\ Midnights = 1 /\ main.at = "ready" /\ date = "today"
    /\ date' = "past"
    /\ UNCHANGED <<main, sessVars, subVars, done, stream, account, pos, portfolio, known,
                   count, backward, bounds>>

-----------------------------------------------------------------------------
Main == \/ Connect \/ WaitFor \/ Woken \/ Report \/ Query("rows")
        \/ SetDate \/ Build \/ BuildFails \/ InitStrategies \/ Ready
        \/ (~session["td"] /\ QueryFails)

Session(f) == \/ \E k \in 1..Len(net[f]) : OnFrontConnected(f, k)
              \/ OnRspUserLogin(f)

Faults == \/ SpuriousWake \/ QueryFails \/ Query("empty") \/ Query("none")
          \/ \E f \in Fronts : LoginRefused(f)
          \/ \E f \in Fronts, k \in 1..RetryTimes :
                k <= Len(net[f]) /\ OnFrontDisconnected(f, k)

Next == \/ Main \/ Faults \/ Trade \/ OnTrade \/ Midnight \/ Resubscribe
        \/ \E f \in Fronts : Session(f)
        \/ \E t \in Adders : AddBatch(t)

Spec == Init /\ [][Next]_vars

(* Threads run, a front that is not connected connects and a log-in is     *)
(* answered; trades and faults need not happen.                            *)
FairSpec == /\ Spec
            /\ WF_vars(Main) /\ WF_vars(Resubscribe) /\ WF_vars(OnTrade)
            /\ \A f \in Fronts : WF_vars(Session(f))
            /\ \A t \in Adders : WF_vars(AddBatch(t))

-----------------------------------------------------------------------------
(* While it has a session the market data front sends ticks of every       *)
(* instrument of the universe, whatever disconnections and additions by    *)
(* two threads came in between, unless a subscription is just being sent.  *)
AllSubscribed ==
    session["md"] /\ ~callback /\ (\A t \in Adders : adding[t].cur = {})
        => universe \subseteq subs

(* When the data are fetched and no trade is on its way, each trade of the *)
(* day is in the positions exactly once.  Not so for a trade announced     *)
(* between CTP's report of them and the end of the queries, one announced  *)
(* after midnight, and one the fetched positions include that is announced *)
(* (again) later, as backward_trade_set_ starts empty.                     *)
TradesCounted ==
    (portfolio /\ stream = <<>> /\ session["td"]
     /\ odd \cap {"while_fetching", "midnight", "fetched_before"} = {})
        => \A t \in 1..done : count[t] = 1

(* The start comes to an end, unless a log-in was not sent or refused or   *)
(* its notification came before the thread waited.                         *)
StartupEnds ==
    <>(main.at \in {"ready", "dead"} \/ odd \cap {"lost_notify", "unsent", "refused"} # {})
=============================================================================
