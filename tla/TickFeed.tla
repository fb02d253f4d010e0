------------------------------ MODULE TickFeed ------------------------------
(***************************************************************************)
(* How ticks reach the strategies: iqt::stgy::StgyExecutor                 *)
(* (src/src/stgy/stgy_executor.cpp), trade::observer::MdSubject and        *)
(* trade::observer::StgyObserver (src/src/trade/observer).                 *)
(*                                                                         *)
(* The market data thread of CTP notifies, one after the other, the        *)
(* observers attached to the instrument of a tick.  Each executor has one  *)
(* observer, which keeps the ticks not yet fetched, and one thread, which  *)
(* fetches all of them and gives each to its strategies.  Python calls     *)
(* init, start and restart.  attach runs while other executors receive     *)
(* ticks already; it is one step here (the map it changes has no lock).    *)
(***************************************************************************)
EXTENDS Integers, Sequences, SequencesExt, FiniteSets

CONSTANTS
    Executors,      \* the executors of the program
    Instruments,    \* order book ids
    Stgys,          \* [Executors -> Seq(strategy)]: what append_stgy was given
    Universe,       \* [strategy -> SUBSET Instruments]
    Failing,        \* strategies whose init may fail
    DropTick,       \* executors with drop_tick
    MaxTicks,       \* bound: ticks of an instrument
    MaxRestart      \* bound: calls of restart

AllStgys == UNION {ToSet(Stgys[e]) : e \in Executors}

(* StgyLoader makes a strategy for one executor and appends it once.       *)
ASSUME FeedAssumption ==
    /\ Stgys \in [Executors -> Seq(AllStgys)]
    /\ \A e \in Executors : IsInjective(Stgys[e])
    /\ \A e, f \in Executors : ToSet(Stgys[e]) \cap ToSet(Stgys[f]) # {} => e = f
    /\ \A s \in AllStgys : Universe[s] \subseteq Instruments
    /\ Failing \subseteq AllStgys /\ DropTick \subseteq Executors
    /\ MaxTicks \in Nat /\ MaxRestart \in Nat

VARIABLES
    group,      \* the strategies in stgy_group_ of each executor
    thread,     \* where the strategy thread of each executor is
    run,        \* run_flag_
    pause,      \* pause_flag_
    waiting,    \* tick_list_ of each observer
    batch,      \* the list that wait() returned
    caller,     \* where the caller of restart() is
    observers,  \* observer_map_: executors in the order of attach
    md,         \* the tick being notified and the observers still to come
    latest,     \* ticks of each instrument so far
    seen,       \* the last tick of an instrument given to a strategy
    dropped,    \* executors whose thread dropped a list it had fetched
    restarts

feedVars == <<group, thread, run, pause, waiting, batch, caller, observers, md,
              latest, seen, dropped, restarts>>

NoTick == [ins |-> "none", n |-> 0, left |-> <<>>]

FeedInit ==
    /\ group = [e \in Executors |-> ToSet(Stgys[e])]
    /\ thread = [e \in Executors |-> "new"]
    /\ run = [e \in Executors |-> TRUE]
    /\ pause = [e \in Executors |-> FALSE]
    /\ waiting = [e \in Executors |-> <<>>]
    /\ batch = [e \in Executors |-> <<>>]
    /\ caller = [e \in Executors |-> "idle"]
    /\ observers = [i \in Instruments |-> <<>>]
    /\ md = NoTick
    /\ latest = [i \in Instruments |-> 0]
    /\ seen = [s \in AllStgys |-> [i \in Instruments |-> 0]]
    /\ dropped = {}
    /\ restarts = 0

-----------------------------------------------------------------------------
(* init: the strategies whose own init succeeds stay in the group, and the *)
(* executor's observer is attached once for every instrument of each.      *)
Attached(e, kept, i) ==
    [k \in 1..Cardinality({s \in kept : i \in Universe[s]}) |-> e]

InitExecutor(e) ==
    /\ thread[e] = "new"
    /\ \E failed \in SUBSET (Failing \cap ToSet(Stgys[e])) :
        LET kept == ToSet(Stgys[e]) \ failed
        IN  /\ group' = [group EXCEPT ![e] = kept]
            /\ observers' = [i \in Instruments |-> observers[i] \o Attached(e, kept, i)]
    /\ thread' = [thread EXCEPT ![e] = "ready"]
    /\ UNCHANGED <<run, pause, waiting, batch, caller, md, latest, seen, dropped, restarts>>

(* start throws when no strategy is left.                                  *)
Start(e) ==
    /\ thread[e] = "ready" /\ group[e] # {}
    /\ thread' = [thread EXCEPT ![e] = "wait"]
    /\ run' = [run EXCEPT ![e] = TRUE]
    /\ pause' = [pause EXCEPT ![e] = FALSE]
    /\ UNCHANGED <<group, waiting, batch, caller, observers, md, latest, seen, dropped, restarts>>

(* restart: stop the thread, join it, start a new one.                     *)
StopThread(e) ==
    /\ thread[e] \in {"wait", "check", "handle"}
    /\ caller[e] = "idle" /\ restarts < MaxRestart
    /\ restarts' = restarts + 1
    /\ run' = [run EXCEPT ![e] = FALSE]
    /\ pause' = [pause EXCEPT ![e] = TRUE]
    /\ caller' = [caller EXCEPT ![e] = "join"]
    /\ UNCHANGED <<group, thread, waiting, batch, observers, md, latest, seen, dropped>>

Restart(e) ==
    /\ caller[e] = "join" /\ thread[e] = "ended"
    /\ caller' = [caller EXCEPT ![e] = "idle"]
    /\ thread' = [thread EXCEPT ![e] = "wait"]
    /\ run' = [run EXCEPT ![e] = TRUE]
    /\ pause' = [pause EXCEPT ![e] = FALSE]
    /\ UNCHANGED <<group, waiting, batch, observers, md, latest, seen, dropped, restarts>>

-----------------------------------------------------------------------------
(* The market data thread.                                                 *)

Tick(i) ==
    /\ md = NoTick /\ latest[i] < MaxTicks
    /\ latest' = [latest EXCEPT ![i] = @ + 1]
    /\ md' = IF observers[i] = <<>> THEN NoTick
             ELSE [ins |-> i, n |-> latest[i] + 1, left |-> observers[i]]
    /\ UNCHANGED <<group, thread, run, pause, waiting, batch, caller, observers, seen,
                   dropped, restarts>>

(* The mutated forms the project checks its properties against.            *)
PutNew(list, t, drop) == <<t>> \o SelectSeq(list, LAMBDA u : ~drop \/ u.ins # t.ins)
PutOld(list, t, drop) ==
    IF drop /\ \E k \in DOMAIN list : list[k].ins = t.ins THEN list ELSE Append(list, t)

(* StgyObserver::notify: with drop_tick a tick takes the place of the one  *)
(* of its instrument that was not fetched yet.                             *)
Put(list, t, drop) ==
    IF drop /\ \E k \in DOMAIN list : list[k].ins = t.ins
    THEN [k \in DOMAIN list |-> IF list[k].ins = t.ins THEN t ELSE list[k]]
    ELSE Append(list, t)

NotifyNext ==
    /\ md # NoTick
    /\ LET e == Head(md.left)
       IN  waiting' = [waiting EXCEPT ![e] = Put(@, [ins |-> md.ins, n |-> md.n], e \in DropTick)]
    /\ md' = IF Len(md.left) = 1 THEN NoTick ELSE [md EXCEPT !.left = Tail(@)]
    /\ UNCHANGED <<group, thread, run, pause, batch, caller, observers, latest, seen,
                   dropped, restarts>>

-----------------------------------------------------------------------------
(* The strategy thread: run with one strategy, run_m with several.         *)

Wait(e) ==
    /\ thread[e] = "wait" /\ waiting[e] # <<>>
    /\ batch' = [batch EXCEPT ![e] = waiting[e]]
    /\ waiting' = [waiting EXCEPT ![e] = <<>>]
    /\ thread' = [thread EXCEPT ![e] = "check"]
    /\ UNCHANGED <<group, run, pause, caller, observers, md, latest, seen, dropped, restarts>>

(* A list fetched while the thread is being paused is dropped.             *)
Check(e) ==
    /\ thread[e] = "check"
    /\ IF pause[e]
       THEN /\ thread' = [thread EXCEPT ![e] = IF run[e] THEN "wait" ELSE "ended"]
            /\ batch' = [batch EXCEPT ![e] = <<>>]
            /\ dropped' = dropped \cup {e}
       ELSE /\ thread' = [thread EXCEPT ![e] = "handle"]
            /\ UNCHANGED <<batch, dropped>>
    /\ UNCHANGED <<group, run, pause, waiting, caller, observers, md, latest, seen, restarts>>

(* stgy_ is the first strategy that was appended, whether its init         *)
(* succeeded or not, and is not asked for its universe.                    *)
Receivers(e, i) ==
    IF Cardinality(group[e]) = 1 THEN {Stgys[e][1]}
    ELSE {s \in group[e] : i \in Universe[s]}

HandleTick(e) ==
    /\ thread[e] = "handle"
    /\ LET t == Head(batch[e])
       IN  seen' = [s \in AllStgys |-> IF s \in Receivers(e, t.ins)
                                       THEN [seen[s] EXCEPT ![t.ins] = t.n] ELSE seen[s]]
    /\ batch' = [batch EXCEPT ![e] = Tail(@)]
    /\ thread' = [thread EXCEPT ![e] = IF Len(batch[e]) = 1 THEN "wait" ELSE "handle"]
    /\ UNCHANGED <<group, run, pause, waiting, caller, observers, md, latest, dropped, restarts>>

FeedNext ==
    \/ \E e \in Executors :
        \/ InitExecutor(e) \/ Start(e) \/ StopThread(e) \/ Restart(e)
        \/ Wait(e) \/ Check(e) \/ HandleTick(e)
    \/ \E i \in Instruments : Tick(i)
    \/ NotifyNext

FeedSpec == FeedInit /\ [][FeedNext]_feedVars

(* The threads that are there go on with what they can do.                 *)
Fairness ==
    /\ WF_feedVars(NotifyNext)
    /\ \A e \in Executors : WF_feedVars(Wait(e) \/ Check(e) \/ HandleTick(e))

FeedFairSpec == FeedSpec /\ Fairness

-----------------------------------------------------------------------------
(* A strategy is never given a tick older than one it has seen, and none   *)
(* twice unless two strategies of its executor share the instrument: the   *)
(* observer is then attached twice, and its list may be fetched between    *)
(* the two notifications of one tick (MdSubject::notify, run, run_m).      *)
Shared(e, i) == Cardinality({k \in DOMAIN observers[i] : observers[i][k] = e}) > 1

TicksInOrder ==
    [][ \A e \in Executors : HandleTick(e) =>
            LET t == Head(batch[e])
            IN  \A s \in Receivers(e, t.ins) :
                    /\ t.n >= seen[s][t.ins]
                    /\ t.n = seen[s][t.ins] => Shared(e, t.ins) ]_feedVars

(* The newest tick of an instrument reaches every strategy that trades it, *)
(* whatever ticks are dropped for newer ones, unless its executor was      *)
(* restarted: notify, wait and run lose no wakeup.                         *)
TicksArrive ==
    \A e \in Executors, i \in Instruments, n \in 1..MaxTicks : \A s \in ToSet(Stgys[e]) :
        (/\ thread[e] \notin {"new", "ready"}
         /\ md.ins = i /\ md.n = n /\ e \in ToSet(md.left)
         /\ s \in group[e] /\ i \in Universe[s] /\ Stgys[e][1] \in group[e])
        ~> (seen[s][i] >= n \/ e \in dropped)
=============================================================================
