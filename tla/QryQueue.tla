------------------------------ MODULE QryQueue ------------------------------
(***************************************************************************)
(* iqt::trade::QryQueue (src/src/trade/qry_queue.{h,cpp}) with the query   *)
(* and response handlers of CtpTradeApi that use it                        *)
(* (src/src/ctp/trade_api.cpp).                                            *)
(*                                                                         *)
(* Client threads call qry(): they push an item and sleep on its condition *)
(* variable.  One detached consumer thread pops the items one at a time,   *)
(* sends the query to CTP and sleeps on the same condition variable until  *)
(* the answer comes or the wait expires.  The CTP callback thread turns    *)
(* the packets of an answer into on_rsp() / on_err() calls, which look at  *)
(* queue_.front() without taking mutex_.                                   *)
(*                                                                         *)
(* rsp_cond.wait_for is called without a predicate, by the client and by   *)
(* the consumer: it returns when notified, when timeout_sec is over, or    *)
(* spuriously.  Both waits may therefore expire at any time here.  Time is *)
(* kept only for the rate limit: the clock stops at Interval.              *)
(* qry_num_per_sec_ is 1 and nothing sets it: a round of consume() is one  *)
(* query.                                                                  *)
(***************************************************************************)
EXTENDS Naturals, Sequences, FiniteSets, SequencesExt

CONSTANTS
    Clients,      \* threads that call qry()
    MaxBuffer,    \* MAX_BUFFER_SIZE
    Interval,     \* sec / qry_num_per_sec_, in clock ticks
    MaxQry,       \* bound: number of queries made in a behaviour
    MaxOther,     \* bound: number of other requests that take a request id
    Kinds         \* "rows": qry_order and qry_position, whose rows are gathered
                  \* packet by packet; "commission", "instruments", "account" and
                  \* "confirm": the queries of those names, with handlers of
                  \* their own

ASSUME ConstAssumption ==
    /\ MaxBuffer \in Nat \ {0}
    /\ Interval \in Nat \ {0}
    /\ MaxQry \in Nat
    /\ MaxOther \in Nat
    /\ IsFiniteSet(Clients)
    /\ Kinds \subseteq {"rows", "commission", "instruments", "account", "confirm"}
    /\ Kinds # {}

VARIABLES
    queue,      \* queue_: the items not popped yet, oldest first
    nItem,      \* number of items pushed so far; items are numbered 1..nItem
    kind,       \* kind[i]: which handler answers item i
    req,        \* QryItem.req_id, 0 until the consumer sends it
    ret,        \* QryItem.ret_id
    err,        \* QryItem.error_id: 0, or the request whose error was stored
    rsp,        \* QryItem.rsp_data: NoRsp, the null pointer, or what the answer
                \* to a request held
    reqId,      \* request_id_
    others,     \* how often another request took an id
    cstate,     \* where client c is in qry()
    citem,      \* qry_item of client c, 0 if none
    pc,         \* where the consumer is in consume()
    cache,      \* order_cache_, commission_cache_, ins_cache_: for each kind,
                \* Null or the requests whose rows it holds
    stream,     \* "none", the kind of a request CTP still has to answer, or
                \* how the answer ended (Ended)
    calls,      \* on_rsp / on_err calls the callback thread has still to make
    cbpc,       \* where the callback thread is in on_rsp / on_err
    cur,        \* cur_qry_item of the callback thread
    gaveUp,     \* requests whose wait in consume() expired
    sinceLast,  \* time since last_
    crashed     \* undefined behaviour has killed the process

items   == <<queue, nItem, kind, req, ret, err, rsp, reqId, others>>
client  == <<cstate, citem>>
answers == <<cache, stream, calls, cbpc, cur>>
vars    == <<queue, nItem, kind, req, ret, err, rsp, reqId, others, cstate, citem, pc,
             cache, stream, calls, cbpc, cur, gaveUp, sinceLast, crashed>>

Items == 1..MaxQry
Ids   == 1..(MaxQry + MaxOther)

(* Null is the null pointer in the place of a map of rows; an item that    *)
(* holds it looks like one nobody answered (NoRsp).                        *)
Null  == {0}
Maps  == (SUBSET Ids) \cup {Null}
NoRsp == [req |-> 0, rows |-> {}]
Rsps  == [req : Ids \cup {0}, rows : SUBSET Ids]
Calls == [op : {"rsp", "err"}, req : Ids, rows : Maps]

(* How an answer ends: with its last row; with a packet that leaves the    *)
(* cache as it is; with a null pointer; with on_rsp(null) and an error.    *)
Nulls == {"null", "refused"}
Ended == {"done", "kept"} \cup Nulls

(* mutex_ is released while the consumer waits for an item, while it waits *)
(* for the rate limit, and between two calls of consume().                 *)
MutexFree == pc \in {"lock", "empty", "rate"}

Capped(t) == IF t < Interval THEN t + 1 ELSE Interval

Init ==
    /\ queue = <<>> /\ nItem = 0 /\ reqId = 0 /\ others = 0
    /\ kind = [i \in Items |-> CHOOSE k \in Kinds : TRUE]
    /\ req = [i \in Items |-> 0]
    /\ ret = [i \in Items |-> 0]
    /\ err = [i \in Items |-> 0]
    /\ rsp = [i \in Items |-> NoRsp]
    /\ cstate = [c \in Clients |-> "idle"]
    /\ citem = [c \in Clients |-> 0]
    /\ pc = "lock"
    /\ cache = [k \in Kinds |-> Null]
    /\ stream = [r \in Ids |-> "none"]
    /\ calls = <<>> /\ cbpc = "idle" /\ cur = 0
    /\ gaveUp = {}
    /\ sinceLast = Interval          \* run(): last_ = now() - sec
    /\ crashed = FALSE

-----------------------------------------------------------------------------
(* Client threads: qry().                                                  *)

Busy == {c \in Clients : cstate[c] \in {"blocked", "ready"}}

(* Queries past the bound are not started.                                 *)
Call(c) ==
    /\ cstate[c] = "idle"
    /\ nItem + Cardinality(Busy) < MaxQry
    /\ cstate' = [cstate EXCEPT ![c] = "ready"]
    /\ UNCHANGED <<items, citem, pc, answers, gaveUp, sinceLast, crashed>>

(* while (queue_.size() == MAX_BUFFER_SIZE) not_full_cond_.wait(lock)      *)
WaitNotFull(c) ==
    /\ cstate[c] = "ready"
    /\ MutexFree
    /\ Len(queue) = MaxBuffer
    /\ cstate' = [cstate EXCEPT ![c] = "blocked"]
    /\ UNCHANGED <<items, citem, pc, answers, gaveUp, sinceLast, crashed>>

(* Mutant of Push: the newest item is served first.                        *)
PushInFront(c, k) ==
    /\ cstate[c] = "ready"
    /\ MutexFree
    /\ Len(queue) # MaxBuffer
    /\ nItem < MaxQry
    /\ nItem' = nItem + 1
    /\ queue' = <<nItem + 1>> \o queue
    /\ kind' = [kind EXCEPT ![nItem + 1] = k]
    /\ citem' = [citem EXCEPT ![c] = nItem + 1]
    /\ cstate' = [cstate EXCEPT ![c] = "waiting"]
    /\ pc' = IF pc = "empty" THEN "lock" ELSE pc
    /\ UNCHANGED <<req, ret, err, rsp, reqId, others, answers, gaveUp, sinceLast,
                   crashed>>

(* Push the item, wake the consumer, wait.  The item's mutex is taken      *)
(* before mutex_ is released, so nobody sees the item before its client    *)
(* waits on it.                                                            *)
Push(c, k) ==
    /\ cstate[c] = "ready"
    /\ MutexFree
    /\ Len(queue) # MaxBuffer
    /\ nItem < MaxQry
    /\ nItem' = nItem + 1
    /\ queue' = Append(queue, nItem + 1)
    /\ kind' = [kind EXCEPT ![nItem + 1] = k]
    /\ citem' = [citem EXCEPT ![c] = nItem + 1]
    /\ cstate' = [cstate EXCEPT ![c] = "waiting"]
    /\ pc' = IF pc = "empty" THEN "lock" ELSE pc
    /\ UNCHANGED <<req, ret, err, rsp, reqId, others, answers, gaveUp, sinceLast,
                   crashed>>

ClientExpire(c) ==
    /\ cstate[c] = "waiting"
    /\ cstate' = [cstate EXCEPT ![c] = "expired"]
    /\ UNCHANGED <<items, citem, pc, answers, gaveUp, sinceLast, crashed>>

(* After the wait qry() looks at ret_id, error_id and rsp_data without any *)
(* lock, in that order; it ends with an exception, with the answer, or     *)
(* with a null pointer.                                                    *)
Outcome(i) ==
    CASE ret[i] # 0     -> "ReqException"
      [] ret[i] = 0 /\ err[i] # 0 -> "RspException"
      [] ret[i] = 0 /\ err[i] = 0 /\ rsp[i] # NoRsp -> "answer"
      [] ret[i] = 0 /\ err[i] = 0 /\ rsp[i] = NoRsp -> "nothing"

Return(c) ==
    /\ cstate[c] \in {"notified", "expired"}
    /\ cstate' = [cstate EXCEPT ![c] = "idle"]
    /\ citem' = [citem EXCEPT ![c] = 0]
    /\ UNCHANGED <<items, pc, answers, gaveUp, sinceLast, crashed>>

(* rsp_cond.notify_all() of item i: its client, if it still waits.         *)
WakeClient(i) ==
    cstate' = [c \in Clients |->
        IF cstate[c] = "waiting" /\ citem[c] = i THEN "notified" ELSE cstate[c]]
-----------------------------------------------------------------------------
(* The consumer thread: consume().                                         *)

ConsumeLock ==
    /\ pc = "lock"
    /\ pc' = IF queue = <<>> THEN "empty" ELSE "front"
    /\ UNCHANGED <<items, client, answers, gaveUp, sinceLast, crashed>>

(* Mutant of Reset: the query function leaves the cache alone.             *)
ResetNothing(i) == cache

(* The query function drops what its cache still holds; that of the        *)
(* commissions does not.                                                   *)
Reset(i) ==
    IF kind[i] \in {"rows", "instruments"} THEN [cache EXCEPT ![kind[i]] = Null] ELSE cache

(* req_id = next_req_id(); ret_id = qry_func(req_id)                       *)
Issue(i) ==
    /\ pc = "front"
    /\ reqId' = reqId + 1
    /\ req' = [req EXCEPT ![i] = reqId + 1]
    /\ cache' = Reset(i)

(* Mutants of Send: the item at the back is taken; the consumer does not   *)
(* wait for the answer.                                                    *)
SendBack ==
    /\ Issue(Last(queue))
    /\ stream' = [stream EXCEPT ![reqId + 1] = kind[Last(queue)]]
    /\ pc' = "await"
    /\ UNCHANGED <<queue, nItem, kind, ret, err, rsp, others, client, calls, cbpc, cur,
                   gaveUp, sinceLast, crashed>>

SendAndPop ==
    /\ Issue(Head(queue))
    /\ stream' = [stream EXCEPT ![reqId + 1] = kind[Head(queue)]]
    /\ pc' = "pop"
    /\ UNCHANGED <<queue, nItem, kind, ret, err, rsp, others, client, calls, cbpc, cur,
                   gaveUp, sinceLast, crashed>>

Send ==
    /\ Issue(Head(queue))
    /\ stream' = [stream EXCEPT ![reqId + 1] = kind[Head(queue)]]
    /\ pc' = "await"
    /\ UNCHANGED <<queue, nItem, kind, ret, err, rsp, others, client, calls, cbpc, cur,
                   gaveUp, sinceLast, crashed>>

SendFails ==
    /\ Issue(Head(queue))
    /\ ret' = [ret EXCEPT ![Head(queue)] = 1]
    /\ WakeClient(Head(queue))
    /\ pc' = "pop"
    /\ UNCHANGED <<queue, nItem, kind, err, rsp, others, citem, stream, calls, cbpc, cur,
                   gaveUp, sinceLast, crashed>>

ConsumerExpire ==
    /\ pc = "await"
    /\ pc' = "pop"
    /\ gaveUp' = gaveUp \cup {req[Head(queue)]}
    /\ UNCHANGED <<items, client, answers, sinceLast, crashed>>

Pop ==
    /\ pc = "pop"
    /\ queue' = Tail(queue)
    /\ pc' = "rate"
    /\ UNCHANGED <<nItem, kind, req, ret, err, rsp, reqId, others, client, answers, gaveUp,
                   sinceLast, crashed>>

(* Mutant of EndRound: the blocked clients stay asleep.                    *)
EndRoundSilent ==
    /\ pc = "rate"
    /\ sinceLast >= Interval
    /\ sinceLast' = 0
    /\ pc' = "lock"
    /\ UNCHANGED <<items, client, answers, gaveUp, crashed>>

(* while (last_ + interval > now()) wait; last_ = now(); then              *)
(* not_full_cond_.notify_all().                                            *)
EndRound ==
    /\ pc = "rate"
    /\ sinceLast >= Interval
    /\ sinceLast' = 0
    /\ pc' = "lock"
    /\ cstate' = [c \in Clients |->
                    IF cstate[c] = "blocked" THEN "ready" ELSE cstate[c]]
    /\ UNCHANGED <<items, citem, answers, gaveUp, crashed>>

(* A login, an order or a cancel request takes its id from the same        *)
(* counter (next_req_id), on a thread of its own.                          *)
TakeId ==
    /\ others < MaxOther
    /\ others' = others + 1
    /\ reqId' = reqId + 1
    /\ UNCHANGED <<queue, nItem, kind, req, ret, err, rsp, client, pc, answers, gaveUp,
                   sinceLast, crashed>>

Tick ==
    /\ sinceLast < Interval
    /\ sinceLast' = Capped(sinceLast)
    /\ UNCHANGED <<items, client, pc, answers, gaveUp, crashed>>

-----------------------------------------------------------------------------
(* The CTP callback thread.  A packet is handled to its end before the     *)
(* next one is looked at.                                                  *)

CallbackIdle == calls = <<>> /\ cbpc = "idle"

OnRsp(r, rows) == [op |-> "rsp", req |-> r, rows |-> rows]
OnErr(r)       == [op |-> "err", req |-> r, rows |-> {}]

(* The map the handlers of the rows and the commissions make where there   *)
(* is none.                                                                *)
Made(m) == IF m = Null THEN {} ELSE m

(* A handler's end: its calls, and what is to be known of the answer.      *)
Answer(r, call, how) ==
    /\ calls' = <<call>>
    /\ stream' = [stream EXCEPT ![r] = how]

(* OnRspQryOrder and its like, pRspInfo without error: a row goes into the *)
(* map of its kind; with the last one on_rsp is called and the map         *)
(* dropped.  OnRspQryInstrument leaves out an instrument that is not       *)
(* traded, and makes no map for it.                                        *)
RowPacket(r, traded, last) ==
    LET k    == stream[r]
        held == IF traded THEN Made(cache[k]) \cup {r} ELSE cache[k]
    IN  /\ CallbackIdle
        /\ k \in {"rows", "commission", "instruments"}
        /\ traded \/ k = "instruments"
        /\ IF last
             THEN /\ Answer(r, OnRsp(r, held), IF held = Null THEN "null" ELSE "done")
                  /\ cache' = [cache EXCEPT ![k] = Null]
             ELSE /\ cache' = [cache EXCEPT ![k] = held]
                  /\ UNCHANGED <<calls, stream>>
        /\ UNCHANGED <<items, client, pc, cbpc, cur, gaveUp, sinceLast, crashed>>

(* OnRspQryTradingAccount: no map, only the last packet counts.            *)
AccountPacket(r) ==
    /\ CallbackIdle
    /\ stream[r] = "account"
    /\ Answer(r, OnRsp(r, {r}), "done")
    /\ UNCHANGED <<items, client, pc, cache, cbpc, cur, gaveUp, sinceLast, crashed>>

(* The result is empty: no row, and the map stays.  The instruments and    *)
(* the account have none then, and pass a null pointer on.  (The client    *)
(* shares the map that stays: rows that a later packet adds to it are left *)
(* out of what the item holds.)                                            *)
EmptyPacket(r) ==
    LET k    == stream[r]
        held == CASE k \in {"rows", "commission"} -> Made(cache[k])
                  [] k = "instruments"            -> cache[k]
                  [] OTHER                        -> Null
    IN  /\ CallbackIdle
        /\ k \in {"rows", "commission", "instruments", "account"}
        /\ Answer(r, OnRsp(r, held), IF held = Null THEN "null" ELSE "kept")
        /\ cache' = IF k = "account" THEN cache ELSE [cache EXCEPT ![k] = held]
        /\ UNCHANGED <<items, client, pc, cbpc, cur, gaveUp, sinceLast, crashed>>

ErrorPacket(r) ==
    /\ CallbackIdle
    /\ stream[r] \in {"rows", "commission", "instruments", "account"}
    /\ Answer(r, OnErr(r), "kept")
    /\ UNCHANGED <<items, client, pc, cache, cbpc, cur, gaveUp, sinceLast, crashed>>

(* OnRspSettlementInfoConfirm: on_rsp(null) first, whatever pRspInfo says, *)
(* and then on_err as well when it holds an error.                         *)
ConfirmPacket(r, refused) ==
    /\ CallbackIdle
    /\ stream[r] = "confirm"
    /\ calls' = IF refused THEN <<OnRsp(r, Null), OnErr(r)>> ELSE <<OnRsp(r, Null)>>
    /\ stream' = [stream EXCEPT ![r] = IF refused THEN "refused" ELSE "null"]
    /\ UNCHANGED <<items, client, pc, cache, cbpc, cur, gaveUp, sinceLast, crashed>>

(* auto &cur_qry_item = queue_.front(): undefined on an empty queue, where *)
(* the slot still holds a popped item or the process dies.                 *)
ReadFront ==
    /\ cbpc = "idle" /\ calls # <<>>
    /\ cbpc' = "front"
    /\ IF queue # <<>>
         THEN cur' = Head(queue) /\ UNCHANGED crashed
         ELSE \/ cur' \in 1..nItem /\ UNCHANGED crashed
              \/ crashed' = TRUE /\ UNCHANGED cur
    /\ UNCHANGED <<items, client, pc, cache, stream, calls, gaveUp, sinceLast>>

(* cur_qry_item refers to the slot of the queue: once the consumer has     *)
(* popped it, using it is undefined as well.                               *)
Dangling == cur \notin ToSet(queue)

UseDangling ==
    /\ cbpc \in {"front", "notify"}
    /\ Dangling
    /\ crashed' = TRUE
    /\ UNCHANGED <<items, client, pc, answers, gaveUp, sinceLast>>

Done == calls' = Tail(calls) /\ cbpc' = "idle" /\ cur' = 0

(* What rsp_data is after on_rsp.                                          *)
Stored(call) ==
    IF call.rows = Null THEN NoRsp ELSE [req |-> call.req, rows |-> call.rows]

(* Mutants of Store: the ids are not compared; the client is woken even if *)
(* the answer is another request's.                                        *)
StoreAny ==
    /\ cbpc = "front"
    /\ LET call == Head(calls) IN
         IF call.op = "rsp"
           THEN /\ rsp' = [rsp EXCEPT ![cur] = Stored(call)]
                /\ UNCHANGED err
           ELSE err' = [err EXCEPT ![cur] = call.req] /\ UNCHANGED rsp
    /\ cbpc' = "notify"
    /\ UNCHANGED <<queue, nItem, kind, req, ret, reqId, others, client, pc, cache, stream,
                   calls, cur, gaveUp, sinceLast, crashed>>

StoreWakeAlways ==
    /\ cbpc = "front"
    /\ LET call == Head(calls) IN
         IF req[cur] # call.req THEN UNCHANGED <<err, rsp>>
         ELSE IF call.op = "rsp"
           THEN /\ rsp' = [rsp EXCEPT ![cur] = Stored(call)]
                /\ UNCHANGED err
           ELSE err' = [err EXCEPT ![cur] = call.req] /\ UNCHANGED rsp
    /\ cbpc' = "notify"
    /\ UNCHANGED <<queue, nItem, kind, req, ret, reqId, others, client, pc, cache, stream,
                   calls, cur, gaveUp, sinceLast, crashed>>

(* Store the answer under the item's mutex if the ids match.               *)
Store ==
    /\ cbpc = "front"
    /\ LET call == Head(calls) IN
         IF req[cur] = call.req
           THEN /\ IF call.op = "rsp"
                     THEN /\ rsp' = [rsp EXCEPT ![cur] = Stored(call)]
                          /\ UNCHANGED err
                     ELSE err' = [err EXCEPT ![cur] = call.req] /\ UNCHANGED rsp
                /\ cbpc' = "notify"
                /\ UNCHANGED <<calls, cur>>
           ELSE Done /\ UNCHANGED <<err, rsp>>
    /\ UNCHANGED <<queue, nItem, kind, req, ret, reqId, others, client, pc, cache, stream, gaveUp,
                   sinceLast, crashed>>

Notify ==
    /\ cbpc = "notify"
    /\ WakeClient(cur)
    /\ pc' = IF pc = "await" /\ cur = Head(queue) THEN "pop" ELSE pc
    /\ Done
    /\ UNCHANGED <<items, citem, cache, stream, gaveUp, sinceLast, crashed>>

-----------------------------------------------------------------------------
ClientStep(c) ==
    \/ Call(c) \/ WaitNotFull(c) \/ ClientExpire(c) \/ Return(c)
    \/ \E k \in Kinds : Push(c, k)

ConsumerStep == ConsumeLock \/ Send \/ SendFails \/ ConsumerExpire \/ Pop \/ EndRound

Packet(r) ==
    \/ \E traded, last \in BOOLEAN : RowPacket(r, traded, last)
    \/ AccountPacket(r)
    \/ EmptyPacket(r)
    \/ ErrorPacket(r)
    \/ \E refused \in BOOLEAN : ConfirmPacket(r, refused)

CallbackStep == ReadFront \/ UseDangling \/ Store \/ Notify

Next ==
    /\ ~crashed
    /\ \/ \E c \in Clients : ClientStep(c)
       \/ ConsumerStep
       \/ \E r \in Ids : Packet(r)
       \/ CallbackStep
       \/ TakeId
       \/ Tick

Spec == Init /\ [][Next]_vars

(* The threads run, the timed waits expire, time passes.  CTP need not     *)
(* answer, and no client has to start a query.                             *)
Fairness ==
    /\ \A c \in Clients :
         /\ WF_vars(~crashed /\ WaitNotFull(c))
         /\ WF_vars(~crashed /\ \E k \in Kinds : Push(c, k))
         /\ WF_vars(~crashed /\ ClientExpire(c))
         /\ WF_vars(~crashed /\ Return(c))
    /\ WF_vars(~crashed /\ ConsumerStep)
    /\ WF_vars(~crashed /\ CallbackStep)
    /\ WF_vars(~crashed /\ Tick)

FairSpec == Spec /\ Fairness
-----------------------------------------------------------------------------
(* What the variables can hold.  The ids end with the number of requests   *)
(* made, so the counter is never advanced without one.                     *)
ItemsOK ==
    /\ queue \in Seq(Items)
    /\ nItem \in 0..MaxQry
    /\ kind \in [Items -> Kinds]
    /\ req \in [Items -> Ids \cup {0}]
    /\ ret \in [Items -> {0, 1}]
    /\ err \in [Items -> Ids \cup {0}]
    /\ rsp \in [Items -> Rsps]
    /\ reqId \in Ids \cup {0}
    /\ others \in 0..MaxOther

ThreadsOK ==
    /\ cstate \in [Clients -> {"idle", "ready", "blocked", "waiting", "notified", "expired"}]
    /\ citem \in [Clients -> 0..MaxQry]
    /\ pc \in {"lock", "empty", "front", "await", "pop", "rate"}
    /\ gaveUp \in SUBSET Ids
    /\ sinceLast \in 0..Interval
    /\ crashed \in BOOLEAN

AnswersOK ==
    /\ cache \in [Kinds -> Maps]
    /\ stream \in [Ids -> Kinds \cup Ended \cup {"none"}]
    /\ calls \in Seq(Calls)
    /\ cbpc \in {"idle", "front", "notify"}
    /\ cur \in 0..MaxQry

(* The types of the queue with its items, of the two threads and of the    *)
(* answers (QryItem and QryQueue, qry_queue.h:23-67).                      *)
TypeOK == ItemsOK /\ ThreadsOK /\ AnswersOK

(* qry() never lets the buffer grow past MAX_BUFFER_SIZE, although one     *)
(* notify_all wakes every blocked client for one free place                *)
(* (qry_queue.h:71-78, qry_queue.cpp:48).                                  *)
QueueBounded == Len(queue) <= MaxBuffer

(* One request at a time: only the front item of the queue can have been   *)
(* sent, so an answer that comes in time always finds its item in front    *)
(* (qry_queue.cpp:23-46).                                                  *)
OneOutstanding ==
    \A k \in 2..Len(queue) : req[queue[k]] = 0

(* Queries are sent in the order of the qry() calls, however the waits of  *)
(* earlier ones ended.                                                     *)
SentInOrder ==
    \A i, j \in 1..nItem :
        i < j /\ req[j] # 0 => req[i] # 0 /\ req[i] < req[j]

(* An item only ever holds the answer or the error of its own request,     *)
(* also when the callback thread works on a slot popped under its feet or  *)
(* a late answer meets the next item (the id test of on_rsp and on_err).   *)
OwnReply ==
    \A i \in Items :
        /\ rsp[i] # NoRsp => rsp[i].req = req[i]
        /\ err[i] # 0 => err[i] = req[i]

(* What qry_commission's map can still hold of requests that ended.        *)
LeftFor(i) == {r \in Ids : kind[i] = "commission" /\ stream[r] = "kept"}

(* The rows of an answer that came in time are its own, or belong to an    *)
(* earlier request the consumer had stopped waiting for: the caches of     *)
(* CtpTradeApi are shared by all requests, ignore the request id of a      *)
(* packet and are reset only when the next request is sent.  That of the   *)
(* commissions is not even then: it still holds what a request gathered    *)
(* that ended with an error or an empty packet.                            *)
OwnRows ==
    \A i \in Items :
        rsp[i] # NoRsp /\ req[i] \notin gaveUp
            => rsp[i].rows \subseteq {req[i]} \cup gaveUp \cup LeftFor(i)

(* front() of an empty queue and the use of a popped slot, both undefined, *)
(* need an answer later than the consumer's wait, or a refused settlement  *)
(* confirmation, for which the handler calls on_rsp and then on_err.       *)
FrontDefined ==
    crashed => gaveUp # {} \/ \E r \in Ids : stream[r] = "refused"

(* qry() tells neither a time-out nor a null answer from success, and its  *)
(* callers use the orders, the positions and the commissions without a     *)
(* test or take them for complete: a client of theirs that was notified    *)
(* finds a map or an exception.  Without either it asked for a             *)
(* confirmation, or for an account or instruments of which CTP reported    *)
(* none; that this is the answer, and not a late or a foreign one, takes   *)
(* the id test.                                                            *)
NullOnlyIfNull ==
    \A c \in Clients :
        cstate[c] = "notified" /\ Outcome(citem[c]) = "nothing"
            => /\ kind[citem[c]] \in {"instruments", "account", "confirm"}
               /\ req[citem[c]] # 0
               /\ stream[req[citem[c]]] \in Nulls

(* Every qry() returns, also one that found the buffer full, whether CTP   *)
(* answers or not.                                                         *)
QryReturns ==
    \A c \in Clients : cstate[c] # "idle" ~> cstate[c] = "idle" \/ crashed
=============================================================================
