---------------------------- MODULE QryQueueTimed ----------------------------
(***************************************************************************)
(* QryQueue with two history variables that measure how fast queries are   *)
(* sent to CTP, and what the rate limit of consume() does guarantee.  The  *)
(* variables only watch: every step is a step of QryQueue.                 *)
(***************************************************************************)
EXTENDS QryQueue

VARIABLES
    sent1,      \* time since the latest query was sent
    sent2       \* time since the one before it was sent

timedVars == <<vars, sent1, sent2>>

TimedInit ==
    /\ Init
    /\ sent1 = Interval /\ sent2 = Interval

(* Tick of QryQueue, for all three clocks.                                 *)
Elapse ==
    /\ ~crashed
    /\ sinceLast < Interval \/ sent1 < Interval \/ sent2 < Interval
    /\ sinceLast' = Capped(sinceLast)
    /\ sent1' = Capped(sent1)
    /\ sent2' = Capped(sent2)
    /\ UNCHANGED <<items, client, pc, answers, gaveUp, crashed>>

Sends == req' # req

Watched ==
    /\ Next
    /\ sinceLast' \in {sinceLast, 0}
    /\ IF Sends THEN sent1' = 0 /\ sent2' = sent1 ELSE UNCHANGED <<sent1, sent2>>

TimedNext == Watched \/ Elapse

TimedSpec == TimedInit /\ [][TimedNext]_timedVars
-----------------------------------------------------------------------------
(* At most two queries in any Interval (qry_queue.cpp:42-45): the limit    *)
(* runs from the end of a round, so a query may follow the one before it   *)
(* at once, but never the one before that.                                 *)
AtMostTwoPerInterval ==
    [][Sends => sent2 >= Interval]_timedVars

=============================================================================
