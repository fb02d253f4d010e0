---------------------------- MODULE ThreadProofs ----------------------------
(***************************************************************************)
(* Three parts of the program whose threads share what they work on: the   *)
(* query queue with its clients and consumer, the readers-writer lock, and *)
(* the looper of the timer with the Python thread.  They have nothing in   *)
(* common but that; each has an invariant of its own (IInv of QryQueue,    *)
(* LockInv of RWLock, DayInv of TradingDay).                               *)
(***************************************************************************)
EXTENDS QryQueueTimed, RWLock, TradingDay, FiniteSetTheorems, SequenceTheorems, TLAPS

-----------------------------------------------------------------------------
(* Proofs about the query queue, for any clients, buffer size, rate,       *)
(* number of queries and kinds of answers.                                 *)

(* The number of items whose request has been made.                        *)
Sent == nItem - Len(queue) + (IF pc \in {"await", "pop"} THEN 1 ELSE 0)

(* The queue holds the items pushed last, in order.                        *)
QueueInv ==
    /\ Len(queue) <= nItem
    /\ Len(queue) <= MaxBuffer
    /\ \A k \in 1..Len(queue) : queue[k] = nItem - Len(queue) + k
    /\ pc \in {"front", "await", "pop"} => queue # <<>>

(* The items sent are the first ones, with ascending request ids.          *)
IdsInv ==
    /\ reqId = Sent + others
    /\ \A i \in Items : i <= Sent => req[i] \in 1..reqId
    /\ \A i \in Items : i > Sent => req[i] = 0
    /\ \A i, j \in Items : i < j /\ j <= Sent => req[i] < req[j]

(* What is stored in an item, and what the callback thread works on.       *)
AnswerInv ==
    /\ cbpc # "idle" => calls # <<>>
    /\ \A i \in Items : rsp[i] # NoRsp => rsp[i].req # 0
    /\ OwnReply

(* The inductive invariant.                                                *)
IInv == TypeOK /\ QueueInv /\ IdsInv /\ AnswerInv

(* The queue starts empty, and nobody waits for anything.                  *)
LEMMA InitIInv == Init => IInv
  <1> SUFFICES ASSUME Init PROVE IInv
    OBVIOUS
  <1> USE ConstAssumption
  <1>1. kind \in [Items -> Kinds]
    BY DEF Init
  <1>2. NoRsp \in Rsps /\ Null \in Maps /\ 0 \in Ids \cup {0}
    BY DEF NoRsp, Rsps, Maps
  <1>3. TypeOK
    <2>1. <<>> \in Seq(Items) /\ <<>> \in Seq(Calls)
      BY EmptySeq
    <2>2. ItemsOK
      BY <1>1, <1>2, <2>1 DEF Init, ItemsOK
    <2>3. ThreadsOK
      <3>1. Interval \in 0..Interval /\ 0 \in 0..MaxQry
        OBVIOUS
      <3>2. crashed \in BOOLEAN
        BY DEF Init
      <3> QED
        BY <3>1, <3>2 DEF Init, ThreadsOK
    <2>4. AnswersOK
      BY <1>2, <2>1 DEF Init, AnswersOK
    <2> QED
      BY <2>2, <2>3, <2>4 DEF TypeOK
  <1>4. QueueInv /\ IdsInv
    BY EmptySeq DEF Init, QueueInv, IdsInv, Sent, Items
  <1>5. AnswerInv
    BY DEF Init, AnswerInv, OwnReply
  <1> QED
    BY <1>3, <1>4, <1>5 DEF IInv

(* What only moves the consumer between two program points on the same     *)
(* side of the sending keeps the invariants of the queue and the ids.      *)
LEMMA QueueKept ==
    ASSUME QueueInv, IdsInv, queue' = queue, nItem' = nItem,
           req' = req, reqId' = reqId, others' = others,
           pc' \in {"await", "pop"} <=> pc \in {"await", "pop"},
           pc' = "front" => queue # <<>>
    PROVE  QueueInv' /\ IdsInv'
  <1>1. Sent' = Sent
    BY DEF Sent
  <1>2. QueueInv'
    BY DEF QueueInv
  <1>3. IdsInv'
    BY <1>1 DEF IdsInv
  <1> QED
    BY <1>2, <1>3

(* The queue as numbers: its front is the next item to send, or, while the *)
(* consumer waits for the answer, the item sent last.                      *)
LEMMA FrontItem ==
    ASSUME IInv, queue # <<>>
    PROVE  /\ Len(queue) \in Nat \ {0} /\ nItem \in Nat
           /\ Head(queue) \in Items
           /\ Head(queue) = nItem - Len(queue) + 1
           /\ Tail(queue) \in Seq(Items)
           /\ Len(Tail(queue)) = Len(queue) - 1
           /\ \A k \in 1..(Len(queue) - 1) : Tail(queue)[k] = queue[k + 1]
  <1>1. queue \in Seq(Items) /\ nItem \in Nat
    BY ConstAssumption DEF IInv, TypeOK, ItemsOK
  <1>2. Len(queue) \in Nat \ {0}
    BY <1>1, EmptySeq
  <1>3. Head(queue) = queue[1]
    BY <1>1
  <1>4. queue[1] = nItem - Len(queue) + 1
    BY <1>2 DEF IInv, QueueInv
  <1> QED
    BY <1>1, <1>2, <1>3, <1>4, HeadTailProperties

(* While the consumer waits for its answer or pops it, the item sent last  *)
(* is the front of the queue.                                              *)
LEMMA SentHead ==
    ASSUME IInv, pc \in {"await", "pop"}
    PROVE  queue # <<>> /\ Sent = Head(queue) /\ req[Head(queue)] \in Ids
  <1>1. queue # <<>>
    BY DEF IInv, QueueInv
  <1>2. Sent = Head(queue) /\ Head(queue) \in Items
    BY <1>1, FrontItem DEF Sent
  <1>3. req[Head(queue)] \in 1..reqId /\ reqId \in Ids \cup {0}
    BY <1>2, ConstAssumption DEF IInv, IdsInv, TypeOK, ItemsOK, Items
  <1> QED
    BY <1>1, <1>2, <1>3, ConstAssumption DEF Ids

(* The items sent so far are the first Sent ones.                          *)
LEMMA SentBound ==
    ASSUME IInv PROVE Sent \in 0..MaxQry
  <1>1. Len(queue) \in Nat /\ nItem \in 0..MaxQry /\ Len(queue) <= nItem
    BY LenProperties DEF IInv, TypeOK, ItemsOK, QueueInv
  <1>2. CASE pc \in {"await", "pop"}
    BY <1>2, SentHead, FrontItem, ConstAssumption DEF Items
  <1>3. CASE pc \notin {"await", "pop"}
    BY <1>1, <1>3, ConstAssumption DEF Sent
  <1> QED
    BY <1>2, <1>3

(* What a step leaves that touches no answer.                              *)
LEMMA AnswersKept ==
    ASSUME AnswerInv, UNCHANGED <<cbpc, calls, cache, rsp, err, req>>
    PROVE  AnswerInv'
  BY DEF AnswerInv, OwnReply

-----------------------------------------------------------------------------
(* Steps that leave the items and the answers alone: of a client outside   *)
(* Push, and of the consumer between taking an item and sending it.        *)
LEMMA WaitingStep ==
    ASSUME IInv, UNCHANGED <<items, answers>>, ThreadsOK',
           pc' \in {"await", "pop"} <=> pc \in {"await", "pop"},
           pc' = "front" => queue # <<>>
    PROVE  IInv'
  <1>1. /\ queue' = queue /\ nItem' = nItem /\ kind' = kind /\ req' = req /\ ret' = ret
        /\ err' = err /\ rsp' = rsp /\ reqId' = reqId /\ others' = others
        /\ cache' = cache /\ stream' = stream /\ calls' = calls /\ cbpc' = cbpc /\ cur' = cur
    BY DEF items, answers
  <1>2. ItemsOK' /\ AnswersOK'
    BY <1>1 DEF IInv, TypeOK, ItemsOK, AnswersOK
  <1>3. QueueInv' /\ IdsInv'
    BY <1>1, QueueKept DEF IInv
  <1>4. AnswerInv'
    BY <1>1, AnswersKept DEF IInv
  <1> QED
    BY <1>2, <1>3, <1>4 DEF IInv, TypeOK

(* The steps of a client that only change where it is.                     *)
LEMMA ClientWaits ==
    ASSUME IInv, NEW c \in Clients,
           Call(c) \/ WaitNotFull(c) \/ ClientExpire(c) \/ Return(c)
    PROVE  IInv'
  <1>1. /\ UNCHANGED <<items, answers>> /\ pc' = pc /\ gaveUp' = gaveUp
        /\ sinceLast' = sinceLast /\ crashed' = crashed
    BY DEF Call, WaitNotFull, ClientExpire, Return
  <1>2. /\ cstate' \in [Clients -> {"idle", "ready", "blocked", "waiting", "notified", "expired"}]
        /\ citem' \in [Clients -> 0..MaxQry]
    <2>1. cstate \in [Clients -> {"idle", "ready", "blocked", "waiting", "notified", "expired"}]
          /\ citem \in [Clients -> 0..MaxQry] /\ 0 \in 0..MaxQry
      BY ConstAssumption DEF IInv, TypeOK, ThreadsOK
    <2> QED
      BY <2>1 DEF Call, WaitNotFull, ClientExpire, Return
  <1>3. ThreadsOK'
    BY <1>1, <1>2 DEF IInv, TypeOK, ThreadsOK
  <1>4. pc = "front" => queue # <<>>
    BY DEF IInv, QueueInv
  <1> QED
    BY <1>1, <1>3, <1>4, WaitingStep

(* The steps of the consumer between two requests, and the clock.          *)
LEMMA ConsumerWaits ==
    ASSUME IInv, ConsumeLock \/ EndRound \/ Tick PROVE IInv'
  <1>1. /\ UNCHANGED <<items, answers>> /\ citem' = citem
        /\ gaveUp' = gaveUp /\ crashed' = crashed
    BY DEF ConsumeLock, EndRound, Tick, client
  <1>2. cstate' \in [Clients -> {"idle", "ready", "blocked", "waiting", "notified", "expired"}]
    BY DEF ConsumeLock, EndRound, Tick, client, IInv, TypeOK, ThreadsOK
  <1>3. sinceLast' \in 0..Interval
    BY ConstAssumption DEF ConsumeLock, EndRound, Tick, Capped, IInv, TypeOK, ThreadsOK
  <1>4. /\ pc' \in {"lock", "empty", "front", "await", "pop", "rate"}
        /\ pc' \in {"await", "pop"} <=> pc \in {"await", "pop"}
        /\ pc' = "front" => queue # <<>>
    BY DEF ConsumeLock, EndRound, Tick, IInv, TypeOK, ThreadsOK, QueueInv
  <1>5. ThreadsOK'
    BY <1>1, <1>2, <1>3, <1>4 DEF IInv, TypeOK, ThreadsOK
  <1> QED
    BY <1>1, <1>4, <1>5, WaitingStep

(* The request the consumer gives up has an id.                            *)
LEMMA ConsumerGivesUp ==
    ASSUME IInv, ConsumerExpire PROVE IInv'
  <1>1. /\ UNCHANGED <<items, client, answers, sinceLast, crashed>>
        /\ pc = "await" /\ pc' = "pop" /\ gaveUp' = gaveUp \cup {req[Head(queue)]}
    BY DEF ConsumerExpire
  <1>2. req[Head(queue)] \in Ids
    BY <1>1, SentHead
  <1>3. ThreadsOK'
    BY <1>1, <1>2 DEF IInv, TypeOK, ThreadsOK, client
  <1> QED
    BY <1>1, <1>3, WaitingStep

-----------------------------------------------------------------------------
(* Steps that change the queue or the ids.                                 *)

(* A pushed item goes behind the ones pushed before it, and finds room.    *)
LEMMA PushStep ==
    ASSUME IInv, NEW c \in Clients, NEW k \in Kinds, Push(c, k) PROVE IInv'
  <1> USE ConstAssumption
  <1> DEFINE n == Len(queue)
             i == nItem + 1
  <1>1. /\ nItem \in Nat /\ n \in Nat /\ i \in Items /\ queue \in Seq(Items)
        /\ pc \in {"lock", "empty", "rate"} /\ n # MaxBuffer
        /\ n <= nItem /\ n <= MaxBuffer
    BY LenProperties DEF Push, MutexFree, IInv, TypeOK, ItemsOK, Items, QueueInv
  <1>2. /\ nItem' = i /\ queue' = Append(queue, i) /\ kind' = [kind EXCEPT ![i] = k]
        /\ citem' = [citem EXCEPT ![c] = i] /\ cstate' = [cstate EXCEPT ![c] = "waiting"]
        /\ pc' = IF pc = "empty" THEN "lock" ELSE pc
        /\ req' = req /\ ret' = ret /\ err' = err /\ rsp' = rsp /\ reqId' = reqId
        /\ others' = others /\ UNCHANGED <<answers, gaveUp, sinceLast, crashed>>
    BY DEF Push
  <1>3. /\ cache' = cache /\ stream' = stream /\ calls' = calls /\ cbpc' = cbpc /\ cur' = cur
    BY <1>2 DEF answers
  <1>4. /\ queue' \in Seq(Items) /\ Len(queue') = n + 1 /\ queue'[n + 1] = i
        /\ \A j \in 1..n : queue'[j] = queue[j]
    BY <1>1, <1>2, AppendProperties
  <1>5. i \in 0..MaxQry
    BY <1>1 DEF Items
  <1>6. TypeOK'
    <2>1. ItemsOK'
      BY <1>2, <1>4, <1>5 DEF IInv, TypeOK, ItemsOK
    <2>2. ThreadsOK'
      BY <1>1, <1>2, <1>5 DEF IInv, TypeOK, ThreadsOK
    <2>3. AnswersOK'
      BY <1>3 DEF IInv, TypeOK, AnswersOK
    <2> QED
      BY <2>1, <2>2, <2>3 DEF TypeOK
  <1>7. Len(queue') <= nItem' /\ Len(queue') <= MaxBuffer
    BY <1>1, <1>2, <1>4
  <1>8. QueueInv'
    <2>1. \A j \in 1..n : queue[j] = nItem - n + j
      BY DEF IInv, QueueInv
    <2>2. \A j \in 1..(n + 1) : queue'[j] = (nItem + 1) - (n + 1) + j
      BY <1>1, <1>4, <2>1
    <2>3. pc' \notin {"front", "await", "pop"}
      BY <1>1, <1>2
    <2> QED
      BY <1>2, <1>4, <1>7, <2>2, <2>3 DEF QueueInv
  <1>9. IdsInv'
    <2>1. Sent = nItem - n /\ Sent' = nItem' - Len(queue')
      BY <1>1, <1>2 DEF Sent
    <2>2. nItem' - Len(queue') = nItem - n
      BY <1>1, <1>2, <1>4
    <2> QED
      BY <1>2, <2>1, <2>2 DEF IInv, IdsInv
  <1>10. AnswerInv'
    BY <1>2, <1>3, AnswersKept DEF IInv
  <1> QED
    BY <1>6, <1>8, <1>9, <1>10 DEF IInv

(* Another request takes an id: the ones taken so far stay below it.       *)
LEMMA TakeIdStep ==
    ASSUME IInv, TakeId PROVE IInv'
  <1> USE ConstAssumption
  <1>1. /\ others < MaxOther /\ others' = others + 1 /\ reqId' = reqId + 1
        /\ queue' = queue /\ nItem' = nItem /\ kind' = kind /\ req' = req /\ ret' = ret
        /\ err' = err /\ rsp' = rsp /\ pc' = pc
        /\ UNCHANGED <<client, answers, gaveUp, sinceLast, crashed>>
    BY DEF TakeId
  <1>2. /\ cache' = cache /\ stream' = stream /\ calls' = calls /\ cbpc' = cbpc /\ cur' = cur
        /\ cstate' = cstate /\ citem' = citem
    BY <1>1 DEF answers, client
  <1>3. reqId = Sent + others /\ Sent' = Sent
    BY <1>1 DEF IInv, IdsInv, Sent
  <1>4. Sent \in 0..MaxQry /\ others \in Nat
    BY SentBound DEF IInv, TypeOK, ItemsOK
  <1>5. reqId' \in Ids /\ others' \in 0..MaxOther
    BY <1>1, <1>3, <1>4 DEF Ids
  <1>6. TypeOK'
    <2>1. ItemsOK'
      BY <1>1, <1>5 DEF IInv, TypeOK, ItemsOK
    <2>2. ThreadsOK' /\ AnswersOK'
      BY <1>1, <1>2 DEF IInv, TypeOK, ThreadsOK, AnswersOK
    <2> QED
      BY <2>1, <2>2 DEF TypeOK
  <1>7. QueueInv'
    BY <1>1 DEF IInv, QueueInv
  <1>8. IdsInv'
    <2>1. 1..reqId \subseteq 1..(reqId + 1)
      BY <1>3, <1>4
    <2>2. reqId + 1 = Sent + (others + 1)
      BY <1>3, <1>4
    <2> QED
      BY <1>1, <1>3, <2>1, <2>2 DEF IInv, IdsInv
  <1>9. AnswerInv'
    BY <1>1, <1>2, AnswersKept DEF IInv
  <1> QED
    BY <1>6, <1>7, <1>8, <1>9 DEF IInv

(* The item sent gets an id above all the others; it had none and holds no *)
(* answer, since an item only holds the answer to its request.             *)
LEMMA IssueStep ==
    ASSUME IInv, Issue(Head(queue)), pc' \in {"await", "pop"},
           queue' = queue, nItem' = nItem, others' = others
    PROVE  /\ QueueInv' /\ IdsInv'
           /\ reqId' \in Ids
           /\ req' \in [Items -> Ids \cup {0}]
           /\ cache' \in [Kinds -> Maps]
           /\ rsp[Head(queue)] = NoRsp /\ err[Head(queue)] = 0 /\ req[Head(queue)] = 0
           /\ \A i \in Items : i # Head(queue) => req'[i] = req[i]
  <1> USE ConstAssumption
  <1> DEFINE h == Head(queue)
  <1>1. /\ pc = "front" /\ reqId' = reqId + 1 /\ req' = [req EXCEPT ![h] = reqId + 1]
        /\ cache' = Reset(h)
    BY DEF Issue
  <1>2. queue # <<>>
    BY <1>1 DEF IInv, QueueInv
  <1>3. h \in Items /\ h = nItem - Len(queue) + 1 /\ Len(queue) \in Nat /\ nItem \in Nat
    BY <1>2, FrontItem
  <1>4. Sent = h - 1 /\ Sent' = h
    BY <1>1, <1>3 DEF Sent
  <1>5. others \in 0..MaxOther /\ reqId = h - 1 + others
    BY <1>4 DEF IInv, IdsInv, TypeOK, ItemsOK
  <1>6. reqId' \in Ids /\ reqId \in Nat
    <2>1. h \in 1..MaxQry
      BY <1>3 DEF Items
    <2> HIDE DEF h
    <2>2. reqId \in Nat /\ reqId + 1 \in 1..(MaxQry + MaxOther)
      BY <1>5, <2>1
    <2> QED
      BY <1>1, <2>2 DEF Ids
  <1>7. req' \in [Items -> Ids \cup {0}]
    BY <1>1, <1>6 DEF IInv, TypeOK, ItemsOK
  <1>8. /\ req'[h] = reqId + 1
        /\ \A i \in Items : i # h => req'[i] = req[i]
    BY <1>1, <1>3 DEF IInv, TypeOK, ItemsOK
  <1>9. req[h] = 0
    <2> HIDE DEF h
    <2>1. h > Sent
      BY <1>3, <1>4
    <2> QED
      BY <1>3, <2>1 DEF IInv, IdsInv
  <1>10. rsp[h] = NoRsp /\ err[h] = 0
    BY <1>3, <1>9 DEF IInv, AnswerInv, OwnReply
  <1>11. QueueInv'
    BY <1>2 DEF IInv, QueueInv
  <1>12. IdsInv'
    <2>1. reqId' = Sent' + others'
      <3>1. h \in Int /\ others \in Int /\ others' = others
        BY <1>3, <1>5 DEF Items
      <3> HIDE DEF h
      <3> QED
        BY <3>1, <1>1, <1>4, <1>5
    <2>2. ASSUME NEW i \in Items, i <= h PROVE req'[i] \in 1..reqId'
      <3>1. CASE i = h
        BY <3>1, <1>1, <1>6, <1>8
      <3>2. CASE i # h
        <4>1. i <= Sent
          BY <2>2, <3>2, <1>3, <1>4 DEF Items
        <4>2. req[i] \in 1..reqId
          BY <4>1 DEF IInv, IdsInv
        <4> QED
          BY <4>2, <3>2, <1>1, <1>6, <1>8
      <3> QED
        BY <3>1, <3>2
    <2>3. ASSUME NEW i \in Items, i > h PROVE req'[i] = 0
      <3>1. i > Sent /\ i # h
        BY <2>3, <1>3, <1>4 DEF Items
      <3> QED
        BY <3>1, <1>8 DEF IInv, IdsInv
    <2>4. ASSUME NEW i \in Items, NEW j \in Items, i < j, j <= h PROVE req'[i] < req'[j]
      <3>1. i <= Sent /\ i # h
        BY <2>4, <1>3, <1>4 DEF Items
      <3>2. req[i] \in 1..reqId /\ req'[i] = req[i]
        BY <3>1, <1>8 DEF IInv, IdsInv
      <3>3. CASE j = h
        BY <3>2, <3>3, <1>6, <1>8
      <3>4. CASE j # h
        <4>1. j <= Sent
          BY <2>4, <3>4, <1>3, <1>4 DEF Items
        <4> QED
          BY <2>4, <3>2, <3>4, <4>1, <1>8 DEF IInv, IdsInv
      <3> QED
        BY <3>3, <3>4
    <2> QED
      BY <2>1, <2>2, <2>3, <2>4, <1>4 DEF IdsInv
  <1>13. cache' \in [Kinds -> Maps]
    BY <1>1 DEF IInv, TypeOK, AnswersOK, Reset, Maps
  <1> QED
    BY <1>6, <1>7, <1>8, <1>9, <1>10, <1>11, <1>12, <1>13

(* The request for the front of the queue, which may not be sent.          *)
LEMMA SendStep ==
    ASSUME IInv, Send \/ SendFails PROVE IInv'
  <1> USE ConstAssumption
  <1> DEFINE h == Head(queue)
  <1>1. /\ Issue(h) /\ pc' \in {"await", "pop"}
        /\ queue' = queue /\ nItem' = nItem /\ kind' = kind /\ err' = err /\ rsp' = rsp
        /\ others' = others /\ citem' = citem /\ calls' = calls /\ cbpc' = cbpc
        /\ cur' = cur /\ gaveUp' = gaveUp /\ sinceLast' = sinceLast /\ crashed' = crashed
    BY DEF Send, SendFails, client
  <1>2. queue # <<>>
    BY <1>1 DEF Issue, IInv, QueueInv
  <1>3. h \in Items
    BY <1>2, FrontItem
  <1>4. /\ QueueInv' /\ IdsInv'
        /\ reqId' \in Ids
        /\ req' \in [Items -> Ids \cup {0}]
        /\ cache' \in [Kinds -> Maps]
        /\ rsp[h] = NoRsp /\ err[h] = 0
        /\ \A i \in Items : i # h => req'[i] = req[i]
    BY <1>1, IssueStep
  <1>5. ret' \in [Items -> {0, 1}]
    BY <1>3 DEF Send, SendFails, IInv, TypeOK, ItemsOK
  <1>6. stream' \in [Ids -> Kinds \cup Ended \cup {"none"}]
    <2>1. stream \in [Ids -> Kinds \cup Ended \cup {"none"}] /\ kind[h] \in Kinds
      BY <1>3 DEF IInv, TypeOK, ItemsOK, AnswersOK
    <2>2. kind[Head(queue)] = kind[h]
      OBVIOUS
    <2> HIDE DEF h
    <2> QED
      BY <2>1, <2>2 DEF Send, SendFails
  <1>7. cstate' \in [Clients -> {"idle", "ready", "blocked", "waiting", "notified", "expired"}]
    BY DEF Send, SendFails, WakeClient, client, IInv, TypeOK, ThreadsOK
  <1> HIDE DEF h
  <1>8. TypeOK'
    <2>1. ItemsOK'
      BY <1>1, <1>4, <1>5 DEF IInv, TypeOK, ItemsOK
    <2>2. ThreadsOK'
      BY <1>1, <1>7 DEF IInv, TypeOK, ThreadsOK
    <2>3. AnswersOK'
      BY <1>1, <1>4, <1>6 DEF IInv, TypeOK, AnswersOK
    <2> QED
      BY <2>1, <2>2, <2>3 DEF TypeOK
  <1>9. AnswerInv'
    <2>1. OwnReply'
      BY <1>1, <1>3, <1>4 DEF IInv, AnswerInv, OwnReply
    <2> QED
      BY <1>1, <1>4, <2>1 DEF IInv, AnswerInv
  <1> QED
    BY <1>4, <1>8, <1>9 DEF IInv

(* The item is popped, answered or timed out.                              *)
LEMMA PopStep ==
    ASSUME IInv, Pop PROVE IInv'
  <1> USE ConstAssumption
  <1> DEFINE n == Len(queue)
  <1>1. /\ pc = "pop" /\ pc' = "rate" /\ queue' = Tail(queue)
        /\ nItem' = nItem /\ kind' = kind /\ req' = req /\ ret' = ret /\ err' = err
        /\ rsp' = rsp /\ reqId' = reqId /\ others' = others /\ citem' = citem
        /\ cstate' = cstate /\ gaveUp' = gaveUp /\ sinceLast' = sinceLast /\ crashed' = crashed
        /\ cache' = cache /\ stream' = stream /\ calls' = calls /\ cbpc' = cbpc /\ cur' = cur
    BY DEF Pop, client, answers
  <1>2. /\ n \in Nat \ {0} /\ nItem \in Nat
        /\ queue' \in Seq(Items) /\ Len(queue') = n - 1
        /\ \A k \in 1..(n - 1) : queue'[k] = queue[k + 1]
    <2>1. queue # <<>>
      BY <1>1 DEF IInv, QueueInv
    <2> QED
      BY <1>1, <2>1, FrontItem
  <1>3. TypeOK'
    <2>1. ItemsOK'
      BY <1>1, <1>2 DEF IInv, TypeOK, ItemsOK
    <2>2. ThreadsOK' /\ AnswersOK'
      BY <1>1 DEF IInv, TypeOK, ThreadsOK, AnswersOK
    <2> QED
      BY <2>1, <2>2 DEF TypeOK
  <1>4. QueueInv'
    <2>1. \A k \in 1..n : queue[k] = nItem - n + k
      BY DEF IInv, QueueInv
    <2>2. n <= nItem /\ n <= MaxBuffer
      BY DEF IInv, QueueInv
    <2> HIDE DEF n
    <2>3. \A k \in 1..(n - 1) : queue'[k] = nItem - (n - 1) + k
      BY <1>2, <2>1
    <2>4. n - 1 <= nItem /\ n - 1 <= MaxBuffer
      BY <1>2, <2>2
    <2> QED
      BY <1>1, <1>2, <2>3, <2>4 DEF QueueInv
  <1>5. IdsInv'
    <2>1. Sent = nItem - n + 1 /\ Sent' = nItem - (n - 1)
      BY <1>1, <1>2 DEF Sent
    <2> HIDE DEF n
    <2>2. Sent' = Sent
      BY <1>2, <2>1
    <2> QED
      BY <1>1, <2>2 DEF IInv, IdsInv
  <1>6. AnswerInv'
    BY <1>1, AnswersKept DEF IInv
  <1> QED
    BY <1>3, <1>4, <1>5, <1>6 DEF IInv

-----------------------------------------------------------------------------
(* Steps of the callback thread: they leave the queue and the ids alone.   *)
LEMMA CallbackFrame ==
    ASSUME IInv, UNCHANGED <<queue, nItem, kind, req, ret, reqId, others>>,
           err' \in [Items -> Ids \cup {0}], rsp' \in [Items -> Rsps],
           ThreadsOK', AnswersOK', AnswerInv',
           pc' \in {"await", "pop"} <=> pc \in {"await", "pop"},
           pc' = "front" => pc = "front"
    PROVE  IInv'
  <1>1. ItemsOK'
    BY DEF IInv, TypeOK, ItemsOK
  <1>2. QueueInv' /\ IdsInv'
    <2>1. pc' = "front" => queue # <<>>
      BY DEF IInv, QueueInv
    <2> QED
      BY <2>1, QueueKept DEF IInv
  <1> QED
    BY <1>1, <1>2 DEF IInv, TypeOK

(* What a packet does: the rows of its request may be added to the map of  *)
(* its kind, or the map dropped; and it may end the answer.                *)
LEMMA PacketShape ==
    ASSUME IInv, NEW r \in Ids, Packet(r)
    PROVE  LET k == stream[r] IN
           /\ UNCHANGED <<queue, nItem, kind, req, ret, err, rsp, reqId, others>>
           /\ UNCHANGED <<cstate, citem, pc, cbpc, cur, gaveUp, sinceLast, crashed>>
           /\ cbpc = "idle" /\ calls = <<>> /\ k \in Kinds
           /\ cache' = cache \/
                 \E m \in {Null, cache[k], Made(cache[k]), Made(cache[k]) \cup {r}} :
                     cache' = [cache EXCEPT ![k] = m]
           /\ \/ UNCHANGED <<stream, calls>>
              \/ \E how \in Ended : \E m \in Maps :
                   /\ stream' = [stream EXCEPT ![r] = how]
                   /\ m # Null =>
                        m \subseteq (IF k \in {"account", "confirm"} THEN {} ELSE Made(cache[k]))
                                   \cup {r}
                   /\ m = Null => how \in Nulls
                   /\ how = "done" /\ k = "commission" => cache' = [cache EXCEPT ![k] = Null]
                   /\ how \in Nulls => k \in {"instruments", "account", "confirm"}
                   /\ how # "refused" => calls' = <<OnRsp(r, m)>> \/ calls' = <<OnErr(r)>>
                   /\ how = "refused" => m = Null /\ calls' = <<OnRsp(r, Null), OnErr(r)>>
  <1> DEFINE k == stream[r]
             held == Made(cache[k])
  <1>1. /\ UNCHANGED <<queue, nItem, kind, req, ret, err, rsp, reqId, others>>
        /\ UNCHANGED <<cstate, citem, pc, cbpc, cur, gaveUp, sinceLast, crashed>>
        /\ cbpc = "idle" /\ calls = <<>>
    BY DEF Packet, RowPacket, AccountPacket, EmptyPacket, ErrorPacket, ConfirmPacket,
       CallbackIdle, items, client
  <1>2. k \in {"rows", "commission", "instruments", "account", "confirm"}
    BY DEF Packet, RowPacket, AccountPacket, EmptyPacket, ErrorPacket, ConfirmPacket
  <1>3. k \in Kinds
    <2>1. k \in Kinds \cup Ended \cup {"none"}
      BY DEF IInv, TypeOK, AnswersOK
    <2> HIDE DEF k
    <2> QED
      BY <1>2, <2>1 DEF Ended, Nulls
  <1>4. cache \in [Kinds -> Maps] /\ cache[k] \in Maps
    BY <1>3 DEF IInv, TypeOK, AnswersOK
  <1>5. /\ held \in SUBSET Ids /\ held \cup {r} \in SUBSET Ids /\ {r} \in SUBSET Ids
        /\ 0 \notin Ids
        /\ cache[k] # Null => held = cache[k]
    BY <1>4, ConstAssumption DEF Made, Maps, Null, Ids
  <1>6. /\ held \in Maps /\ held \cup {r} \in Maps /\ {r} \in Maps /\ Null \in Maps
        /\ held # Null /\ held \cup {r} # Null /\ {r} # Null
    BY <1>5 DEF Maps, Null
  <1> HIDE DEF k, held
  <1>7. CASE \E traded, last \in BOOLEAN : RowPacket(r, traded, last)
    <2>1. PICK traded \in BOOLEAN, last \in BOOLEAN : RowPacket(r, traded, last)
      BY <1>7
    <2> DEFINE m == IF traded THEN held \cup {r} ELSE cache[k]
    <2>2. /\ traded \/ k = "instruments"
          /\ IF last
               THEN /\ Answer(r, OnRsp(r, m), IF m = Null THEN "null" ELSE "done")
                    /\ cache' = [cache EXCEPT ![k] = Null]
               ELSE /\ cache' = [cache EXCEPT ![k] = m]
                    /\ UNCHANGED <<calls, stream>>
      BY <2>1 DEF RowPacket, k, held
    <2>3. m \in {cache[k], held \cup {r}} /\ m \in Maps /\ (m = Null => k = "instruments")
      BY <1>4, <1>6, <2>2
    <2>4. m # Null => m \subseteq held \cup {r} /\ k \notin {"account", "confirm"}
      BY <1>5, <2>1 DEF RowPacket, k
    <2> HIDE DEF m
    <2>5. CASE last
      <3> DEFINE how == IF m = Null THEN "null" ELSE "done"
      <3>1. /\ stream' = [stream EXCEPT ![r] = how] /\ calls' = <<OnRsp(r, m)>>
            /\ cache' = [cache EXCEPT ![k] = Null]
        BY <2>2, <2>5 DEF Answer
      <3>2. how \in Ended /\ (m = Null => how = "null") /\ (m # Null => how = "done")
        BY DEF Ended, Nulls
      <3> HIDE DEF how
      <3> QED
        BY <1>1, <1>3, <2>3, <2>4, <3>1, <3>2 DEF k, held, Nulls
    <2>6. CASE ~last
      BY <1>1, <1>3, <2>2, <2>3, <2>6 DEF k, held
    <2> QED
      BY <2>5, <2>6
  <1>8. CASE AccountPacket(r)
    <2>1. /\ stream' = [stream EXCEPT ![r] = "done"] /\ calls' = <<OnRsp(r, {r})>>
          /\ cache' = cache
      BY <1>8 DEF AccountPacket, Answer
    <2>2. "done" \in Ended /\ "done" \notin Nulls
      BY DEF Ended, Nulls
    <2> DEFINE m == {r}
    <2>3. /\ m \in Maps /\ m # Null /\ m \subseteq {r} /\ calls' = <<OnRsp(r, m)>>
          /\ k = "account"
      BY <1>6, <1>8, <2>1 DEF AccountPacket, k
    <2> HIDE DEF m
    <2> QED
      BY <1>1, <1>3, <2>1, <2>2, <2>3 DEF k, held, Nulls
  <1>9. CASE EmptyPacket(r)
    <2> DEFINE m == CASE k \in {"rows", "commission"} -> held
                      [] k = "instruments"            -> cache[k]
                      [] OTHER                        -> Null
               how == IF m = Null THEN "null" ELSE "kept"
    <2>1. /\ k \in {"rows", "commission", "instruments", "account"}
          /\ Answer(r, OnRsp(r, m), how)
          /\ cache' = IF k = "account" THEN cache ELSE [cache EXCEPT ![k] = m]
      BY <1>9 DEF EmptyPacket, k, held
    <2>2. /\ m \in Maps
          /\ m = Null => k \in {"instruments", "account"}
          /\ k # "account" => m \in {cache[k], held}
          /\ m # Null => m \subseteq held /\ k \notin {"account", "confirm"}
      <3>1. CASE k \in {"rows", "commission"}
        BY <1>6, <3>1
      <3>2. CASE k = "instruments"
        BY <1>4, <1>5, <3>2
      <3>3. CASE k = "account"
        BY <1>6, <3>3
      <3> QED
        BY <2>1, <3>1, <3>2, <3>3
    <2> HIDE DEF m
    <2>3. how \in Ended /\ (m = Null => how = "null") /\ (m # Null => how = "kept")
      BY DEF Ended, Nulls
    <2> HIDE DEF how
    <2>4. stream' = [stream EXCEPT ![r] = how] /\ calls' = <<OnRsp(r, m)>>
      BY <2>1 DEF Answer
    <2>5. cache' = cache \/ \E n \in {Null, cache[k], held, held \cup {r}} :
                               cache' = [cache EXCEPT ![k] = n]
      BY <2>1, <2>2
    <2> QED
      BY <1>1, <1>3, <2>2, <2>3, <2>4, <2>5 DEF k, held, Nulls
  <1>10. CASE ErrorPacket(r)
    <2>1. /\ stream' = [stream EXCEPT ![r] = "kept"] /\ calls' = <<OnErr(r)>>
          /\ cache' = cache
      BY <1>10 DEF ErrorPacket, Answer
    <2>2. "kept" \in Ended /\ "kept" \notin Nulls
      BY DEF Ended, Nulls
    <2> DEFINE m == {r}
    <2>3. m \in Maps /\ m # Null /\ m \subseteq {r}
      BY <1>6
    <2> HIDE DEF m
    <2> QED
      BY <1>1, <1>3, <2>1, <2>2, <2>3 DEF k, held, Nulls
  <1>11. CASE \E refused \in BOOLEAN : ConfirmPacket(r, refused)
    <2>1. PICK refused \in BOOLEAN : ConfirmPacket(r, refused)
      BY <1>11
    <2>2. /\ k = "confirm" /\ cache' = cache
          /\ \/ /\ stream' = [stream EXCEPT ![r] = "refused"]
                /\ calls' = <<OnRsp(r, Null), OnErr(r)>>
             \/ /\ stream' = [stream EXCEPT ![r] = "null"]
                /\ calls' = <<OnRsp(r, Null)>>
      BY <2>1 DEF ConfirmPacket, k
    <2> QED
      BY <1>1, <1>3, <1>6, <2>2 DEF k, held, Ended, Nulls
  <1> QED
    <2> HIDE DEF Made
    <2> QED
      BY <1>7, <1>8, <1>9, <1>10, <1>11 DEF Packet

(* A packet: the rows seen so far are real ids, so are those of the call.  *)
LEMMA PacketStep ==
    ASSUME IInv, NEW r \in Ids, Packet(r) PROVE IInv'
  <1> DEFINE k == stream[r]
  <1>1. /\ UNCHANGED <<queue, nItem, kind, req, ret, reqId, others>>
        /\ err' = err /\ rsp' = rsp /\ cstate' = cstate /\ citem' = citem /\ pc' = pc
        /\ cbpc' = cbpc /\ cur' = cur /\ gaveUp' = gaveUp /\ sinceLast' = sinceLast
        /\ crashed' = crashed /\ cbpc = "idle" /\ calls = <<>> /\ k \in Kinds
    BY PacketShape
  <1>2. stream \in [Ids -> Kinds \cup Ended \cup {"none"}] /\ cache \in [Kinds -> Maps]
    BY DEF IInv, TypeOK, AnswersOK
  <1>3. cache' \in [Kinds -> Maps]
    <2>1. /\ cache[k] \in Maps /\ Made(cache[k]) \in Maps /\ Made(cache[k]) \cup {r} \in Maps
          /\ Null \in Maps
      BY <1>1, <1>2 DEF Made, Maps
    <2>2. cache' = cache \/
             \E m \in {Null, cache[k], Made(cache[k]), Made(cache[k]) \cup {r}} :
                 cache' = [cache EXCEPT ![k] = m]
      BY PacketShape
    <2> QED
      BY <1>2, <2>1, <2>2
  <1>4. /\ stream' \in [Ids -> Kinds \cup Ended \cup {"none"}]
        /\ calls' \in Seq(Calls)
    <2>1. CASE UNCHANGED <<stream, calls>>
      BY <2>1 DEF IInv, TypeOK, AnswersOK
    <2>2. ASSUME NEW how \in Ended, NEW m \in Maps, stream' = [stream EXCEPT ![r] = how],
                 \/ calls' = <<OnRsp(r, m)>> \/ calls' = <<OnErr(r)>>
                 \/ calls' = <<OnRsp(r, Null), OnErr(r)>>
          PROVE  stream' \in [Ids -> Kinds \cup Ended \cup {"none"}] /\ calls' \in Seq(Calls)
      <3>1. OnRsp(r, m) \in Calls /\ OnErr(r) \in Calls /\ OnRsp(r, Null) \in Calls
        BY DEF OnRsp, OnErr, Calls, Maps
      <3>2. \A a, b \in Calls : <<a>> \in Seq(Calls) /\ <<a, b>> \in Seq(Calls)
        OBVIOUS
      <3>3. /\ <<OnRsp(r, m)>> \in Seq(Calls) /\ <<OnErr(r)>> \in Seq(Calls)
            /\ <<OnRsp(r, Null), OnErr(r)>> \in Seq(Calls)
        BY <3>1, <3>2
      <3> QED
        BY <1>2, <2>2, <3>3
    <2> QED
      BY <2>1, <2>2, PacketShape
  <1>6. ThreadsOK'
    BY <1>1 DEF IInv, TypeOK, ThreadsOK
  <1>7. AnswersOK'
    BY <1>1, <1>3, <1>4 DEF IInv, TypeOK, AnswersOK
  <1>8. AnswerInv'
    BY <1>1, <1>3 DEF IInv, AnswerInv, OwnReply
  <1> QED
    BY <1>1, <1>6, <1>7, <1>8, CallbackFrame DEF IInv, TypeOK, ItemsOK

(* The callback takes the front of the queue, or uses an item that is no   *)
(* longer there.                                                           *)
LEMMA ReadFrontStep ==
    ASSUME IInv, ReadFront \/ UseDangling PROVE IInv'
  <1> USE ConstAssumption
  <1>1. /\ UNCHANGED <<queue, nItem, kind, req, ret, reqId, others>>
        /\ err' = err /\ rsp' = rsp /\ cstate' = cstate /\ citem' = citem /\ pc' = pc
        /\ cache' = cache /\ stream' = stream /\ calls' = calls
        /\ gaveUp' = gaveUp /\ sinceLast' = sinceLast
    BY DEF ReadFront, UseDangling, items, client, answers
  <1>2. crashed' \in BOOLEAN
    BY DEF ReadFront, UseDangling, IInv, TypeOK, ThreadsOK
  <1>3. cur' \in 0..MaxQry
    <2>1. queue # <<>> => Head(queue) \in Items
      BY FrontItem
    <2>2. cur \in 0..MaxQry /\ nItem \in 0..MaxQry
      BY DEF IInv, TypeOK, AnswersOK, ItemsOK
    <2>3. 1..nItem \subseteq 0..MaxQry /\ Items \subseteq 0..MaxQry
      BY <2>2 DEF Items
    <2>4. CASE UseDangling
      BY <2>2, <2>4 DEF UseDangling, answers
    <2>5. CASE ReadFront
      BY <2>1, <2>2, <2>3, <2>5 DEF ReadFront
    <2> QED
      BY <2>4, <2>5
  <1>4. cbpc' \in {"idle", "front", "notify"} /\ calls # <<>>
    BY DEF ReadFront, UseDangling, IInv, TypeOK, AnswersOK, AnswerInv, answers
  <1>5. ThreadsOK'
    BY <1>1, <1>2 DEF IInv, TypeOK, ThreadsOK
  <1>6. AnswersOK'
    BY <1>1, <1>3, <1>4 DEF IInv, TypeOK, AnswersOK
  <1>7. AnswerInv'
    BY <1>1, <1>4 DEF IInv, AnswerInv, OwnReply
  <1> QED
    BY <1>1, <1>5, <1>6, <1>7, CallbackFrame DEF IInv, TypeOK, ItemsOK

(* The call in hand is about a real request and holds real rows.           *)
LEMMA CallInHand ==
    ASSUME IInv, cbpc # "idle"
    PROVE  /\ Head(calls) \in Calls /\ Tail(calls) \in Seq(Calls)
           /\ Head(calls).req \in Ids
           /\ Stored(Head(calls)) \in Rsps
           /\ Stored(Head(calls)) \in
                 {NoRsp, [req |-> Head(calls).req, rows |-> Head(calls).rows]}
  <1>1. calls \in Seq(Calls) /\ calls # <<>>
    BY DEF IInv, TypeOK, AnswersOK, AnswerInv
  <1>2. Head(calls) \in Calls /\ Tail(calls) \in Seq(Calls)
    BY <1>1, HeadTailProperties
  <1> QED
    BY <1>2 DEF Calls, Rsps, Stored, Maps, NoRsp

(* The ids are compared before anything is stored.                         *)
LEMMA StoreStep ==
    ASSUME IInv, Store PROVE IInv'
  <1> USE ConstAssumption
  <1> DEFINE call == Head(calls)
             answer == Stored(call)
  <1>1. /\ UNCHANGED <<queue, nItem, kind, req, ret, reqId, others>>
        /\ cstate' = cstate /\ citem' = citem /\ pc' = pc
        /\ cache' = cache /\ stream' = stream /\ crashed' = crashed
        /\ gaveUp' = gaveUp /\ sinceLast' = sinceLast /\ cbpc = "front"
    BY DEF Store, client
  <1>2. /\ call \in Calls /\ Tail(calls) \in Seq(Calls) /\ call.req \in Ids
        /\ answer \in Rsps
    BY <1>1, CallInHand
  <1>3. \/ /\ req[cur] = call.req
           /\ \/ rsp' = [rsp EXCEPT ![cur] = answer] /\ err' = err
              \/ err' = [err EXCEPT ![cur] = call.req] /\ rsp' = rsp
           /\ cbpc' = "notify" /\ calls' = calls /\ cur' = cur
        \/ /\ calls' = Tail(calls) /\ cbpc' = "idle" /\ cur' = 0 /\ err' = err /\ rsp' = rsp
    BY DEF Store, Done
  <1>4. answer # NoRsp => answer.req = call.req /\ answer.req # 0
    BY <1>1, <1>2, CallInHand DEF Ids
  <1> HIDE DEF call, answer
  <1>5. ThreadsOK'
    BY <1>1 DEF IInv, TypeOK, ThreadsOK
  <1>6. AnswersOK'
    BY <1>1, <1>2, <1>3 DEF IInv, TypeOK, AnswersOK
  <1>7. err' \in [Items -> Ids \cup {0}] /\ rsp' \in [Items -> Rsps]
    BY <1>2, <1>3 DEF IInv, TypeOK, ItemsOK
  <1>8. AnswerInv'
    <2>1. err \in [Items -> Ids \cup {0}] /\ rsp \in [Items -> Rsps]
      BY DEF IInv, TypeOK, ItemsOK
    <2>2. ASSUME NEW i \in Items
          PROVE  /\ rsp'[i] # NoRsp => rsp'[i].req = req[i] /\ rsp'[i].req # 0
                 /\ err'[i] # 0 => err'[i] = req[i]
      <3>1. /\ rsp[i] # NoRsp => rsp[i].req = req[i] /\ rsp[i].req # 0
            /\ err[i] # 0 => err[i] = req[i]
        BY DEF IInv, AnswerInv, OwnReply
      <3>2. rsp'[i] = rsp[i] \/ (i = cur /\ req[cur] = call.req /\ rsp'[i] = answer)
        BY <1>3, <2>1
      <3>3. err'[i] = err[i] \/ (i = cur /\ req[cur] = call.req /\ err'[i] = call.req)
        BY <1>3, <2>1
      <3> QED
        BY <1>4, <3>1, <3>2, <3>3
    <2>3. cbpc' # "idle" => calls' # <<>>
      BY <1>1, <1>3 DEF IInv, AnswerInv
    <2> QED
      BY <1>1, <2>2, <2>3 DEF IInv, AnswerInv, OwnReply
  <1> QED
    BY <1>1, <1>5, <1>6, <1>7, <1>8, CallbackFrame

(* The callback wakes the client of its item and the consumer.             *)
LEMMA NotifyStep ==
    ASSUME IInv, Notify PROVE IInv'
  <1> USE ConstAssumption
  <1>1. /\ UNCHANGED <<queue, nItem, kind, req, ret, reqId, others>>
        /\ err' = err /\ rsp' = rsp /\ citem' = citem
        /\ cache' = cache /\ stream' = stream /\ crashed' = crashed
        /\ gaveUp' = gaveUp /\ sinceLast' = sinceLast
        /\ pc' \in {pc, "pop"} /\ (pc' # pc => pc = "await" /\ pc' = "pop")
        /\ calls' = Tail(calls) /\ cbpc' = "idle" /\ cur' = 0 /\ cbpc = "notify"
    BY DEF Notify, Done, items
  <1>2. Tail(calls) \in Seq(Calls)
    BY <1>1, CallInHand
  <1>3. cstate' \in [Clients -> {"idle", "ready", "blocked", "waiting", "notified", "expired"}]
    BY DEF Notify, WakeClient, IInv, TypeOK, ThreadsOK
  <1>4. ThreadsOK'
    BY <1>1, <1>3 DEF IInv, TypeOK, ThreadsOK
  <1>5. AnswersOK'
    BY <1>1, <1>2 DEF IInv, TypeOK, AnswersOK
  <1>6. AnswerInv'
    BY <1>1 DEF IInv, AnswerInv, OwnReply
  <1> QED
    BY <1>1, <1>4, <1>5, <1>6, CallbackFrame DEF IInv, TypeOK, ItemsOK

-----------------------------------------------------------------------------
(* Every step keeps the invariant.                                         *)
LEMMA NextIInv ==
    ASSUME IInv, [Next]_vars PROVE IInv'
  <1>1. CASE UNCHANGED vars
    <2>1. UNCHANGED <<items, answers>> /\ pc' = pc
      BY <1>1 DEF vars, items, answers
    <2>2. ThreadsOK'
      BY <1>1 DEF vars, IInv, TypeOK, ThreadsOK
    <2>3. pc = "front" => queue # <<>>
      BY DEF IInv, QueueInv
    <2> QED
      BY <2>1, <2>2, <2>3, WaitingStep
  <1>2. ASSUME NEW c \in Clients, ClientStep(c) PROVE IInv'
    BY <1>2, ClientWaits, PushStep DEF ClientStep
  <1>3. CASE ConsumerStep
    BY <1>3, ConsumerWaits, ConsumerGivesUp, SendStep, PopStep DEF ConsumerStep
  <1>4. ASSUME NEW r \in Ids, Packet(r) PROVE IInv'
    BY <1>4, PacketStep
  <1>5. CASE CallbackStep
    BY <1>5, ReadFrontStep, StoreStep, NotifyStep DEF CallbackStep
  <1>6. CASE TakeId \/ Tick
    BY <1>6, TakeIdStep, ConsumerWaits
  <1> QED
    BY <1>1, <1>2, <1>3, <1>4, <1>5, <1>6 DEF Next

(* The queue holds the items pushed last and the items sent are the first  *)
(* ones, with ascending ids; an item holds its own request's answer only.  *)
THEOREM Invariance == Spec => []IInv
  BY InitIInv, NextIInv, PTL DEF Spec

(* The queue, its items and the threads that work on them keep their       *)
(* types; in particular no id is taken twice for one request.              *)
THEOREM TypeCorrect == Spec => []TypeOK
  <1>1. IInv => TypeOK
    BY DEF IInv
  <1> QED
    BY <1>1, Invariance, PTL

(* However many clients are woken for one free place, the buffer is never  *)
(* longer than MAX_BUFFER_SIZE.                                            *)
THEOREM BoundedBuffer == Spec => []QueueBounded
  <1>1. IInv => QueueBounded
    BY DEF IInv, QueueInv, QueueBounded
  <1> QED
    BY <1>1, Invariance, PTL

(* Only the front of the queue has been sent, so an answer in time finds   *)
(* its item there.                                                         *)
THEOREM OneRequest == Spec => []OneOutstanding
  <1>1. IInv => OneOutstanding
    <2> SUFFICES ASSUME IInv, NEW k \in 2..Len(queue) PROVE req[queue[k]] = 0
      BY DEF OneOutstanding
    <2> DEFINE n == Len(queue)
    <2>1. queue \in Seq(Items) /\ nItem \in Nat /\ n \in Nat /\ n <= nItem
      BY ConstAssumption, LenProperties DEF IInv, TypeOK, ItemsOK, QueueInv
    <2>2. queue[k] = nItem - n + k /\ queue[k] \in Items
      BY <2>1, ElementOfSeq DEF IInv, QueueInv
    <2>3. Sent <= nItem - n + 1
      BY <2>1 DEF Sent
    <2>4. Sent \in Nat
      BY SentBound, ConstAssumption
    <2>5. queue[k] > Sent
      BY <2>1, <2>2, <2>3, <2>4
    <2> QED
      BY <2>2, <2>5 DEF IInv, IdsInv
  <1> QED
    BY <1>1, Invariance, PTL

(* Queries reach CTP in the order of the qry() calls, also after waits     *)
(* that expired and with other requests taking ids in between.             *)
THEOREM Fifo == Spec => []SentInOrder
  <1>1. IInv => SentInOrder
    <2> SUFFICES ASSUME IInv, NEW i \in 1..nItem, NEW j \in 1..nItem, i < j, req[j] # 0
                 PROVE  req[i] # 0 /\ req[i] < req[j]
      BY DEF SentInOrder
    <2>1. i \in Items /\ j \in Items
      BY ConstAssumption DEF IInv, TypeOK, ItemsOK, Items
    <2>2. Sent \in Nat /\ j <= Sent
      BY <2>1, SentBound, ConstAssumption DEF IInv, IdsInv, Items
    <2>3. i <= Sent
      BY <2>1, <2>2 DEF Items
    <2> QED
      BY <2>1, <2>2, <2>3 DEF IInv, IdsInv
  <1> QED
    BY <1>1, Invariance, PTL

(* Whatever slot the callback thread works on, an item never holds another *)
(* request's answer or error.                                              *)
THEOREM OwnAnswer == Spec => []OwnReply
  <1>1. IInv => OwnReply
    BY DEF IInv, AnswerInv
  <1> QED
    BY <1>1, Invariance, PTL

-----------------------------------------------------------------------------
(* The second invariant: what the answers on their way have to do with the *)
(* request the consumer waits for.                                         *)
Answered(i) ==
    \/ ret[i] # 0 \/ err[i] # 0 \/ rsp[i] # NoRsp
    \/ req[i] # 0 /\ stream[req[i]] \in Nulls

(* A client is woken for an item that holds its result, or would if that   *)
(* were not a null pointer.                                                *)
WakeInv ==
    /\ \A c \in Clients : cstate[c] = "waiting" => citem[c] \in Items
    /\ \A c \in Clients : cstate[c] = "notified" => citem[c] \in Items /\ Answered(citem[c])
    /\ cbpc # "idle" /\ ~crashed => cur \in Items
    /\ cbpc = "notify" /\ ~crashed => Answered(cur) /\ req[cur] = Head(calls).req

Awaited(r) == pc = "await" /\ req[Head(queue)] = r

(* A request is answered by the handler of its item's kind, and only some  *)
(* of them have null answers.                                              *)
KindInv ==
    \A i \in Items : req[i] # 0 =>
        /\ stream[req[i]] \in Kinds => stream[req[i]] = kind[i]
        /\ stream[req[i]] \in Nulls => kind[i] \in {"instruments", "account", "confirm"}

(* CTP has still to answer only the request awaited and those given up; a  *)
(* null pointer on its way is the answer of a request that ended with one. *)
StreamInv ==
    /\ \A r \in Ids : stream[r] # "none" => r <= reqId
    /\ \A r \in Ids : stream[r] \in Kinds /\ r \notin gaveUp
          => Awaited(r) /\ stream[r] = kind[Head(queue)]
    /\ \A k \in 1..Len(calls) :
          /\ stream[calls[k].req] \in Ended
          /\ calls[k].rows = Null => stream[calls[k].req] \in Nulls

(* The commissions gathered are of requests given up, under way or left    *)
(* over.                                                                   *)
LeftInv ==
    "commission" \in Kinds =>
        \A r \in Ids : r \in cache["commission"] =>
            r \in gaveUp \/ stream[r] \in {"commission", "kept"}

(* Foreign rows belong to requests given up, or left over, in the cache,   *)
(* on their way and in the items.                                          *)
RowsInv ==
    /\ pc = "await" /\ kind[Head(queue)] \in {"rows", "instruments"} =>
          \A r \in Ids : r \in cache[kind[Head(queue)]] => r \in gaveUp \cup {req[Head(queue)]}
    /\ LeftInv
    /\ \A k \in 1..Len(calls), i \in Items :
          req[i] = calls[k].req /\ req[i] \notin gaveUp /\ calls[k].rows # Null
          => calls[k].rows \subseteq {req[i]} \cup gaveUp \cup LeftFor(i)
    /\ OwnRows

InTime == gaveUp = {} /\ \A r \in Ids : stream[r] # "refused"

(* As long as every answer came in time there is one call at a time, for   *)
(* the request awaited, and it works on the front item.                    *)
TimeInv ==
    /\ InTime => ~crashed
    /\ InTime /\ calls # <<>> =>
          /\ Len(calls) = 1 /\ Awaited(Head(calls).req)
          /\ cbpc # "idle" => cur = Head(queue)

AInv == WakeInv /\ KindInv /\ StreamInv /\ RowsInv /\ TimeInv

(* The kinds are no states of an answer.                                   *)
LEMMA KindsApart ==
    /\ \A k \in Kinds : k \notin Ended /\ k # "none" /\ k # "kept"
    /\ Nulls \subseteq Ended /\ "none" \notin Ended /\ "kept" \notin Nulls
    /\ 0 \notin Ids
  BY ConstAssumption DEF Ended, Nulls, Ids

(* Every call is about a request.                                          *)
LEMMA CallIds ==
    ASSUME IInv PROVE \A k \in 1..Len(calls) : calls[k].req \in Ids
  <1>1. calls \in Seq(Calls)
    BY DEF IInv, TypeOK, AnswersOK
  <1>2. \A k \in 1..Len(calls) : calls[k] \in Calls
    BY <1>1, ElementOfSeq
  <1> QED
    BY <1>2 DEF Calls

(* An item that holds an answer was sent.                                  *)
LEMMA AnswerSent ==
    ASSUME IInv, NEW i \in Items, rsp[i] # NoRsp PROVE req[i] # 0
  BY DEF IInv, AnswerInv, OwnReply

(* No answer is there at first.                                            *)
LEMMA InitAInv == Init => AInv
  <1> SUFFICES ASSUME Init PROVE AInv
    OBVIOUS
  <1>1. WakeInv
    BY DEF Init, WakeInv
  <1>2. StreamInv /\ KindInv
    BY KindsApart DEF Init, StreamInv, KindInv
  <1>3. RowsInv
    BY KindsApart DEF Init, RowsInv, LeftInv, OwnRows, Null
  <1>4. TimeInv
    BY DEF Init, TimeInv, InTime
  <1> QED
    BY <1>1, <1>2, <1>3, <1>4 DEF AInv

(* Steps that touch neither answers nor the request awaited, and wake      *)
(* nobody from his wait for an item.                                       *)
LEMMA AnswersFrame ==
    ASSUME IInv, IInv', AInv,
           UNCHANGED <<req, ret, err, rsp, cache, stream, calls, cbpc, cur, gaveUp, crashed>>,
           reqId <= reqId',
           \A i \in Items : req[i] # 0 => kind'[i] = kind[i],
           (pc # "await" /\ pc' # "await") \/ UNCHANGED <<pc, queue, kind>>,
           \A c \in Clients : cstate'[c] \in {"waiting", "notified"} =>
               \/ cstate'[c] = cstate[c] /\ citem'[c] = citem[c]
               \/ cstate'[c] = "waiting" /\ citem'[c] \in Items
    PROVE  AInv'
  <1>1. \A r : Awaited(r)' <=> Awaited(r)
    BY DEF Awaited
  <1>2. WakeInv'
    BY DEF AInv, WakeInv, Answered
  <1>3. StreamInv'
    <2>1. \A r \in Ids : r <= reqId => r <= reqId'
      BY ConstAssumption DEF IInv, TypeOK, ItemsOK, Ids
    <2> QED
      BY <1>1, <2>1 DEF AInv, StreamInv, Awaited
  <1>4. RowsInv' /\ KindInv'
    <2>1. KindInv'
      BY DEF AInv, KindInv
    <2>2. \A i \in Items : req[i] # 0 => LeftFor(i)' = LeftFor(i)
      BY DEF LeftFor
    <2>3. OwnRows'
      BY <2>2, AnswerSent DEF AInv, RowsInv, OwnRows
    <2>4. \A k \in 1..Len(calls) : calls[k].req # 0
      BY CallIds, KindsApart
    <2> QED
      BY <2>1, <2>2, <2>3, <2>4 DEF AInv, RowsInv, LeftInv
  <1>5. TimeInv'
    BY <1>1 DEF AInv, TimeInv, InTime, Awaited
  <1> QED
    BY <1>2, <1>3, <1>4, <1>5 DEF AInv

(* The steps of a client.                                                  *)
LEMMA ClientAnswers ==
    ASSUME IInv, IInv', AInv, NEW c \in Clients, ClientStep(c) PROVE AInv'
  <1> USE ConstAssumption
  <1>1. reqId \in Nat /\ nItem \in Nat
    BY DEF IInv, TypeOK, ItemsOK, Ids
  <1>2. CASE Call(c) \/ WaitNotFull(c) \/ ClientExpire(c) \/ Return(c)
    <2>1. /\ UNCHANGED <<req, ret, err, rsp, cache, stream, calls, cbpc, cur, gaveUp, crashed>>
          /\ UNCHANGED <<pc, queue, kind, reqId>>
      BY <1>2 DEF Call, WaitNotFull, ClientExpire, Return, items, answers
    <2>2. ASSUME NEW d \in Clients, cstate'[d] \in {"waiting", "notified"}
          PROVE  cstate'[d] = cstate[d] /\ citem'[d] = citem[d]
      BY <1>2, <2>2 DEF Call, WaitNotFull, ClientExpire, Return, IInv, TypeOK, ThreadsOK
    <2> QED
      BY <1>1, <2>1, <2>2, AnswersFrame
  <1>3. ASSUME NEW k \in Kinds, Push(c, k) PROVE AInv'
    <2>1. /\ UNCHANGED <<req, ret, err, rsp, cache, stream, calls, cbpc, cur, gaveUp, crashed>>
          /\ reqId' = reqId /\ pc # "await" /\ pc' # "await"
          /\ \A i \in Items : req[i] # 0 => kind'[i] = kind[i]
      <3>1. /\ UNCHANGED <<req, ret, err, rsp, cache, stream, calls, cbpc, cur, gaveUp, crashed>>
            /\ reqId' = reqId /\ pc # "await" /\ pc # "pop" /\ pc' # "await"
            /\ kind' = [kind EXCEPT ![nItem + 1] = k]
        BY <1>3 DEF Push, MutexFree, answers
      <3>2. Sent <= nItem
        BY <1>1, <3>1 DEF Sent, IInv, TypeOK, ItemsOK
      <3>3. nItem + 1 \in Items => req[nItem + 1] = 0
        BY <1>1, <3>2, SentBound DEF IInv, IdsInv
      <3>4. \A i \in Items : i # nItem + 1 => kind'[i] = kind[i]
        BY <3>1 DEF IInv, TypeOK, ItemsOK
      <3> QED
        BY <3>1, <3>3, <3>4
    <2>2. ASSUME NEW d \in Clients, cstate'[d] \in {"waiting", "notified"}
          PROVE  \/ cstate'[d] = cstate[d] /\ citem'[d] = citem[d]
                 \/ cstate'[d] = "waiting" /\ citem'[d] \in Items
      <3>1. nItem + 1 \in Items
        BY <1>1, <1>3 DEF Push, Items
      <3> QED
        BY <1>3, <2>2, <3>1 DEF Push, IInv, TypeOK, ThreadsOK
    <2> QED
      BY <1>1, <2>1, <2>2, AnswersFrame
  <1> QED
    BY <1>2, <1>3 DEF ClientStep

(* The steps that write to no item.                                        *)
LEMMA QuietAnswers ==
    ASSUME IInv, IInv', AInv,
           ConsumeLock \/ Pop \/ EndRound \/ TakeId \/ Tick \/ UNCHANGED vars
    PROVE  AInv'
  <1>1. /\ UNCHANGED <<req, ret, err, rsp, cache, stream, calls, cbpc, cur, gaveUp, crashed>>
        /\ (pc # "await" /\ pc' # "await") \/ UNCHANGED <<pc, queue, kind>>
        /\ citem' = citem /\ kind' = kind
    BY DEF ConsumeLock, Pop, EndRound, TakeId, Tick, vars, items, client, answers
  <1>2. reqId <= reqId'
    BY ConstAssumption DEF ConsumeLock, Pop, EndRound, TakeId, Tick, vars, items, IInv,
       TypeOK, ItemsOK, Ids
  <1>3. \A c \in Clients : cstate'[c] \in {"waiting", "notified"} => cstate'[c] = cstate[c]
    BY DEF ConsumeLock, Pop, EndRound, TakeId, Tick, vars, client
  <1> QED
    BY <1>1, <1>2, <1>3, AnswersFrame

(* The request no longer awaited is given up.                              *)
LEMMA ConsumerExpireAnswers ==
    ASSUME IInv, AInv, ConsumerExpire PROVE AInv'
  <1>1. /\ UNCHANGED <<items, client, answers, crashed>> /\ pc = "await" /\ pc' = "pop"
        /\ gaveUp' = gaveUp \cup {req[Head(queue)]}
    BY DEF ConsumerExpire
  <1>2. /\ UNCHANGED <<queue, kind, req, ret, err, rsp, reqId, cstate, citem>>
        /\ UNCHANGED <<cache, stream, calls, cbpc, cur>>
    BY <1>1 DEF items, client, answers
  <1>3. WakeInv'
    BY <1>1, <1>2 DEF AInv, WakeInv, Answered
  <1>4. StreamInv' /\ KindInv'
    BY <1>1, <1>2 DEF AInv, StreamInv, KindInv, Awaited
  <1>5. RowsInv'
    BY <1>1, <1>2 DEF AInv, RowsInv, LeftInv, OwnRows, LeftFor
  <1>6. TimeInv'
    BY <1>1 DEF TimeInv, InTime
  <1> QED
    BY <1>3, <1>4, <1>5, <1>6 DEF AInv

(* A request is sent when nothing but given up ones is on its way, under   *)
(* an id CTP has not seen.                                                 *)
LEMMA SendAnswers ==
    ASSUME IInv, AInv, Send \/ SendFails PROVE AInv'
  <1> USE ConstAssumption
  <1> DEFINE h == Head(queue)
             new == reqId + 1
  <1>1. /\ Issue(h) /\ pc = "front" /\ pc' \in {"await", "pop"}
        /\ UNCHANGED <<queue, nItem, kind, err, rsp, others>>
        /\ UNCHANGED <<citem, calls, cbpc, cur, gaveUp, crashed>>
        /\ reqId' = new /\ req' = [req EXCEPT ![h] = new] /\ cache' = Reset(h)
    BY DEF Send, SendFails, client, Issue
  <1>2. queue # <<>>
    BY <1>1 DEF IInv, QueueInv
  <1>3. h \in Items /\ reqId \in Nat
    BY <1>2, FrontItem DEF IInv, TypeOK, ItemsOK, Ids
  <1>4. /\ reqId' \in Ids /\ rsp[h] = NoRsp /\ err[h] = 0 /\ req[h] = 0
        /\ \A i \in Items : i # h => req'[i] = req[i]
    BY <1>1, IssueStep
  <1>5. req'[h] = new
    BY <1>1, <1>3 DEF IInv, TypeOK, ItemsOK
  <1>6. new \in Ids /\ stream[new] = "none"
    <2>1. ~(new <= reqId)
      BY <1>3
    <2> QED
      BY <1>1, <1>4, <2>1 DEF AInv, StreamInv
  <1>7. kind[h] \in Kinds
    BY <1>3 DEF IInv, TypeOK, ItemsOK
  <1>8. /\ \A r \in Ids : r # new => stream'[r] = stream[r]
        /\ stream'[new] = "none" \/ (stream'[new] = kind[h] /\ pc' = "await")
    BY <1>6 DEF Send, SendFails, IInv, TypeOK, AnswersOK
  <1>9. /\ \A i \in Items : ret[i] # 0 => ret'[i] # 0
        /\ \A c \in Clients : \/ cstate'[c] = cstate[c]
                              \/ cstate'[c] = "notified" /\ citem[c] = h /\ ret'[h] # 0
    BY <1>3 DEF Send, SendFails, WakeClient, client, IInv, TypeOK, ItemsOK, ThreadsOK
  <1>10. \A k \in 1..Len(calls) : calls[k].req \in Ids /\ calls[k].req # new
    BY <1>6, CallIds, KindsApart DEF AInv, StreamInv
  <1> HIDE DEF h, new
  <1>11. WakeInv'
    <2>1. ASSUME cbpc = "notify", ~crashed PROVE cur # h /\ req'[cur] = req[cur]
      <3>1. cur \in Items /\ Answered(cur) /\ req[cur] = Head(calls).req
        BY <2>1 DEF AInv, WakeInv
      <3>2. Head(calls).req \in Ids
        BY <2>1, CallInHand
      <3> QED
        BY <1>4, <3>1, <3>2 DEF Ids
    <2>2. \A i \in Items : Answered(i) => Answered(i)'
      <3>1. \A i \in Items : req[i] # 0 => i # h /\ req[i] \in Ids
        BY <1>4 DEF IInv, TypeOK, ItemsOK
      <3>2. \A r \in Ids : stream[r] \in Nulls => stream'[r] = stream[r]
        BY <1>6, <1>8, KindsApart
      <3> QED
        BY <1>1, <1>4, <1>9, <3>1, <3>2 DEF Answered
    <2>3. \A i \in Items : ret'[i] # 0 => Answered(i)'
      BY DEF Answered
    <2> QED
      BY <1>1, <1>3, <1>9, <2>1, <2>2, <2>3 DEF AInv, WakeInv
  <1>12. StreamInv'
    <2>1. ASSUME NEW r \in Ids, stream'[r] # "none" PROVE r <= reqId'
      BY <1>1, <1>3, <1>8, <2>1 DEF AInv, StreamInv, Ids, new
    <2>2. ASSUME NEW r \in Ids, stream'[r] \in Kinds, r \notin gaveUp
          PROVE  Awaited(r)' /\ stream'[r] = kind[h]
      <3>1. r = new
        BY <1>1, <1>8, <2>2 DEF AInv, StreamInv, Awaited
      <3> QED
        BY <1>1, <1>5, <1>8, <2>2, <3>1, KindsApart DEF Awaited, h
    <2>3. ASSUME NEW k \in 1..Len(calls)
          PROVE  /\ stream'[calls[k].req] \in Ended
                 /\ calls[k].rows = Null => stream'[calls[k].req] \in Nulls
      BY <1>8, <1>10 DEF AInv, StreamInv
    <2> QED
      BY <1>1, <2>1, <2>2, <2>3 DEF StreamInv, h
  <1>13. RowsInv'
    <2>1. cache \in [Kinds -> Maps]
      BY DEF IInv, TypeOK, AnswersOK
    <2>2. /\ kind[h] \in {"rows", "instruments"} => cache'[kind[h]] = Null
          /\ \A k \in Kinds : cache'[k] \in {Null, cache[k]}
      BY <1>1, <1>7, <2>1 DEF Reset
    <2>3. \A r \in Ids : r \notin Null
      BY KindsApart DEF Null
    <2>4. ASSUME NEW i \in Items PROVE LeftFor(i)' = LeftFor(i)
      BY <1>1, <1>6, <1>7, <1>8, KindsApart DEF LeftFor
    <2>5. OwnRows'
      BY <1>1, <1>4, <2>4 DEF AInv, RowsInv, OwnRows
    <2>6. LeftInv'
      <3>1. ASSUME NEW r \in Ids, "commission" \in Kinds, r \in cache'["commission"]
            PROVE  r \in gaveUp \/ stream'[r] \in {"commission", "kept"}
        <4>1. r \in cache["commission"]
          BY <2>2, <2>3, <3>1
        <4>2. r \in gaveUp \/ stream[r] \in {"commission", "kept"}
          BY <3>1, <4>1 DEF AInv, RowsInv, LeftInv
        <4> QED
          BY <1>6, <1>8, <4>2
      <3> QED
        BY <1>1, <3>1 DEF LeftInv
    <2>7. ASSUME NEW k \in 1..Len(calls), NEW i \in Items, req'[i] = calls[k].req,
                 req'[i] \notin gaveUp, calls[k].rows # Null
          PROVE  calls[k].rows \subseteq {req'[i]} \cup gaveUp \cup LeftFor(i)'
      <3>1. i # h
        BY <1>5, <1>10, <2>7
      <3> QED
        BY <1>4, <2>4, <2>7, <3>1 DEF AInv, RowsInv
    <2> QED
      BY <1>1, <2>2, <2>3, <2>5, <2>6, <2>7 DEF RowsInv, h
  <1>14. TimeInv'
    <2>1. InTime' => InTime
      <3>1. ASSUME NEW r \in Ids, stream'[r] # "refused" PROVE stream[r] # "refused"
        BY <1>6, <1>8, <3>1, KindsApart
      <3> QED
        BY <1>1, <3>1 DEF InTime
    <2>2. InTime => calls = <<>>
      BY <1>1 DEF AInv, TimeInv, Awaited
    <2> QED
      BY <1>1, <2>1, <2>2 DEF AInv, TimeInv
  <1>15. KindInv'
    <2>1. ASSUME NEW i \in Items, req'[i] # 0
          PROVE  /\ stream'[req'[i]] \in Kinds => stream'[req'[i]] = kind[i]
                 /\ stream'[req'[i]] \in Nulls
                       => kind[i] \in {"instruments", "account", "confirm"}
      <3>1. CASE i = h
        BY <1>5, <1>7, <1>8, <3>1, KindsApart
      <3>2. CASE i # h
        <4>1. req'[i] = req[i] /\ req[i] \in Ids
          BY <1>4, <2>1, <3>2 DEF IInv, TypeOK, ItemsOK
        <4>2. req[i] # new
          <5>1. req[i] <= reqId
            BY <1>3, <2>1, <4>1, SentBound DEF IInv, IdsInv, Items
          <5> QED
            BY <1>3, <4>1, <5>1 DEF new, Ids
        <4> QED
          BY <1>8, <2>1, <4>1, <4>2 DEF AInv, KindInv
      <3> QED
        BY <3>1, <3>2
    <2> QED
      BY <1>1, <2>1 DEF KindInv
  <1> QED
    BY <1>11, <1>12, <1>13, <1>14, <1>15 DEF AInv

(* CTP answers the request awaited or one given up, so the rows it leaves  *)
(* in the cache and in the call belong to one of these.                    *)
LEMMA PacketAnswers ==
    ASSUME IInv, AInv, NEW r \in Ids, Packet(r) PROVE AInv'
  <1> DEFINE k == stream[r]
             base == IF k \in {"account", "confirm"} THEN {} ELSE Made(cache[k])
  <1>1. /\ UNCHANGED <<queue, nItem, kind, req, ret, err, rsp, reqId, others>>
        /\ UNCHANGED <<cstate, citem, pc, cbpc, cur, gaveUp, sinceLast, crashed>>
        /\ cbpc = "idle" /\ calls = <<>> /\ k \in Kinds
        /\ cache' = cache \/
              \E m \in {Null, cache[k], Made(cache[k]), Made(cache[k]) \cup {r}} :
                  cache' = [cache EXCEPT ![k] = m]
    BY PacketShape
  <1>2. r \notin gaveUp => Awaited(r) /\ k = kind[Head(queue)]
    BY <1>1 DEF AInv, StreamInv
  <1>3. stream \in [Ids -> Kinds \cup Ended \cup {"none"}] /\ cache \in [Kinds -> Maps]
    BY DEF IInv, TypeOK, AnswersOK
  <1>4. UNCHANGED <<stream, calls>> \/
           \E how \in Ended : \E m \in Maps :
             /\ stream' = [stream EXCEPT ![r] = how]
             /\ m # Null => m \subseteq base \cup {r}
             /\ m = Null => how \in Nulls
             /\ how = "done" /\ k = "commission" => cache' = [cache EXCEPT ![k] = Null]
             /\ how \in Nulls => k \in {"instruments", "account", "confirm"}
             /\ how # "refused" => calls' = <<OnRsp(r, m)>> \/ calls' = <<OnErr(r)>>
             /\ how = "refused" => m = Null /\ calls' = <<OnRsp(r, Null), OnErr(r)>>
    BY PacketShape
  <1>5. /\ \A q \in Ids : q # r => stream'[q] = stream[q]
        /\ \/ stream'[r] = k /\ calls' = <<>>
           \/ /\ stream'[r] \in Ended
              /\ stream'[r] \in Nulls => k \in {"instruments", "account", "confirm"}
              /\ stream'[r] = "done" /\ k = "commission" => cache' = [cache EXCEPT ![k] = Null]
              /\ \A j \in 1..Len(calls') :
                    /\ calls'[j].req = r
                    /\ calls'[j].rows # Null => calls'[j].rows \subseteq base \cup {r}
                    /\ calls'[j].rows = Null => stream'[r] \in Nulls
              /\ stream'[r] # "refused" => Len(calls') = 1
    <2> HIDE DEF k, base
    <2>1. CASE UNCHANGED <<stream, calls>>
      BY <1>1, <2>1 DEF k
    <2>2. ASSUME NEW how \in Ended, NEW m \in Maps,
                 /\ stream' = [stream EXCEPT ![r] = how]
                 /\ m # Null => m \subseteq base \cup {r}
                 /\ m = Null => how \in Nulls
                 /\ how = "done" /\ k = "commission" => cache' = [cache EXCEPT ![k] = Null]
                 /\ how \in Nulls => k \in {"instruments", "account", "confirm"}
                 /\ how # "refused" => calls' = <<OnRsp(r, m)>> \/ calls' = <<OnErr(r)>>
                 /\ how = "refused" => m = Null /\ calls' = <<OnRsp(r, Null), OnErr(r)>>
          PROVE  /\ \A q \in Ids : q # r => stream'[q] = stream[q]
                 /\ stream'[r] = how
                 /\ \A j \in 1..Len(calls') :
                       /\ calls'[j].req = r
                       /\ calls'[j].rows # Null => calls'[j].rows \subseteq base \cup {r}
                       /\ calls'[j].rows = Null => how \in Nulls
                 /\ how # "refused" => Len(calls') = 1
      <3>1. (\A q \in Ids : q # r => stream'[q] = stream[q]) /\ stream'[r] = how
        BY <1>3, <2>2
      <3>2. /\ OnRsp(r, m).req = r /\ OnRsp(r, m).rows = m
            /\ OnErr(r).req = r /\ OnErr(r).rows = {} /\ {} # Null
            /\ OnRsp(r, Null).req = r /\ OnRsp(r, Null).rows = Null
        BY DEF OnRsp, OnErr, Null
      <3> DEFINE x == OnRsp(r, m)
                 y == OnErr(r)
                 z == OnRsp(r, Null)
      <3>3. calls' = <<x>> \/ calls' = <<y>> \/ (calls' = <<z, y>> /\ how = "refused" /\ m = Null)
        BY <2>2
      <3>4. /\ x.req = r /\ x.rows = m /\ y.req = r /\ y.rows = {} /\ z.req = r /\ z.rows = Null
        BY <3>2
      <3> HIDE DEF x, y, z
      <3>5. \A j \in 1..Len(calls') :
               calls'[j] \in {x, y} \/ (calls'[j] = z /\ m = Null)
        BY <3>3
      <3>6. how # "refused" => Len(calls') = 1
        BY <2>2 DEF OnRsp, OnErr
      <3> QED
        BY <2>2, <3>1, <3>2, <3>4, <3>5, <3>6
    <2> QED
      BY <1>4, <2>1, <2>2
  <1> HIDE DEF k, base
  <1>6. k \notin Ended /\ k # "none" /\ k # "kept" /\ stream[r] = k
    BY <1>1, KindsApart DEF k
  <1>7. WakeInv'
    <2>1. \A i \in Items : Answered(i) => Answered(i)'
      <3>1. \A q \in Ids : stream[q] \in Nulls => stream'[q] = stream[q]
        BY <1>5, <1>6, KindsApart
      <3>2. \A i \in Items : req[i] # 0 => req[i] \in Ids
        BY DEF IInv, TypeOK, ItemsOK
      <3> QED
        BY <1>1, <3>1, <3>2 DEF Answered
    <2> QED
      BY <1>1, <2>1 DEF AInv, WakeInv
  <1>8. \A j \in 1..Len(calls') : calls'[j].req = r
    BY <1>5, EmptySeq
  <1>9. StreamInv'
    <2>1. \A q \in Ids : Awaited(q)' <=> Awaited(q)
      BY <1>1 DEF Awaited
    <2>2. \A q \in Ids : stream'[q] = stream[q] \/ (q = r /\ stream'[q] \in Ended)
      BY <1>5, <1>6
    <2>3. ASSUME NEW q \in Ids, stream'[q] # "none" PROVE q <= reqId
      BY <1>6, <2>2, <2>3 DEF AInv, StreamInv
    <2>4. ASSUME NEW q \in Ids, stream'[q] \in Kinds, q \notin gaveUp
          PROVE  Awaited(q) /\ stream'[q] = kind[Head(queue)]
      <3>1. stream'[q] = stream[q]
        BY <2>2, <2>4, KindsApart
      <3> QED
        BY <2>4, <3>1 DEF AInv, StreamInv
    <2>5. ASSUME NEW j \in 1..Len(calls')
          PROVE  /\ stream'[calls'[j].req] \in Ended
                 /\ calls'[j].rows = Null => stream'[calls'[j].req] \in Nulls
      BY <1>5, <1>8, EmptySeq
    <2> QED
      BY <1>1, <2>1, <2>3, <2>4, <2>5 DEF StreamInv
  <1>10. KindInv'
    <2>1. ASSUME NEW i \in Items, req[i] # 0
          PROVE  /\ stream'[req[i]] \in Kinds => stream'[req[i]] = kind[i]
                 /\ stream'[req[i]] \in Nulls
                       => kind[i] \in {"instruments", "account", "confirm"}
      <3>1. /\ stream[req[i]] \in Kinds => stream[req[i]] = kind[i]
            /\ stream[req[i]] \in Nulls => kind[i] \in {"instruments", "account", "confirm"}
        BY <2>1 DEF AInv, KindInv
      <3>2. CASE req[i] = r
        BY <1>1, <1>5, <1>6, <3>1, <3>2, KindsApart
      <3>3. CASE req[i] # r
        <4>1. req[i] \in Ids
          BY <2>1 DEF IInv, TypeOK, ItemsOK
        <4> QED
          BY <1>5, <3>1, <3>3, <4>1
      <3> QED
        BY <3>2, <3>3
    <2> QED
      BY <1>1, <2>1 DEF KindInv
  <1>11. \A q \in Ids : q \in Made(cache[k]) => q \in cache[k]
    BY DEF Made
  <1>12. /\ \A j \in Kinds : j # k => cache'[j] = cache[j]
         /\ \A q \in Ids : q \in cache'[k] => q \in cache[k] \cup {r}
    <2>1. \A q \in Ids : q \notin Null
      BY KindsApart DEF Null
    <2> QED
      BY <1>1, <1>3, <1>11, <2>1
  <1>13. ASSUME NEW i \in Items PROVE LeftFor(i) \subseteq LeftFor(i)'
    BY <1>1, <1>5, <1>6 DEF LeftFor
  <1>14. LeftInv'
    <2>1. ASSUME "commission" \in Kinds, NEW q \in Ids, q \in cache'["commission"]
          PROVE  q \in gaveUp \/ stream'[q] \in {"commission", "kept"}
      <3>1. q \in cache["commission"] \/ (q = r /\ k = "commission")
        BY <1>12, <2>1
      <3>2. q \in gaveUp \/ stream[q] \in {"commission", "kept"}
        BY <1>6, <2>1, <3>1 DEF AInv, RowsInv, LeftInv
      <3>3. CASE q # r
        BY <1>5, <3>2, <3>3
      <3>4. CASE q = r /\ k # "commission"
        BY <1>6, <3>2, <3>4
      <3>5. CASE q = r /\ k = "commission"
        <4>1. stream'[r] = "commission" \/ stream'[r] \in {"done", "kept"}
          BY <1>5, <3>5 DEF Ended
        <4>2. stream'[r] # "done"
          <5>1. SUFFICES ASSUME stream'[r] = "done" PROVE FALSE
            OBVIOUS
          <5>2. "done" # "commission"
            OBVIOUS
          <5>3. cache' = [cache EXCEPT ![k] = Null]
            BY <1>5, <3>5, <5>1, <5>2
          <5>4. cache'[k] = Null
            BY <1>1, <1>3, <5>3
          <5> QED
            BY <2>1, <3>5, <5>4, KindsApart DEF Null
        <4> QED
          BY <3>5, <4>1, <4>2
      <3> QED
        BY <3>3, <3>4, <3>5
    <2> QED
      BY <1>1, <2>1 DEF LeftInv
  <1>15. RowsInv'
    <2>1. ASSUME pc = "await", kind[Head(queue)] \in {"rows", "instruments"},
                 NEW q \in Ids, q \in cache'[kind[Head(queue)]]
          PROVE  q \in gaveUp \cup {req[Head(queue)]}
      <3>1. kind[Head(queue)] \in Kinds
        <4>1. queue # <<>>
          BY <2>1 DEF IInv, QueueInv
        <4> QED
          BY <4>1, FrontItem DEF IInv, TypeOK, ItemsOK
      <3>2. q \in cache[kind[Head(queue)]] \/ q = r
        BY <1>12, <2>1, <3>1
      <3> QED
        BY <1>2, <2>1, <3>2 DEF AInv, RowsInv, Awaited
    <2>2. ASSUME NEW j \in 1..Len(calls'), NEW i \in Items, req[i] = calls'[j].req,
                 req[i] \notin gaveUp, calls'[j].rows # Null
          PROVE  calls'[j].rows \subseteq {req[i]} \cup gaveUp \cup LeftFor(i)'
      <3>1. req[i] = r /\ calls'[j].rows \subseteq base \cup {r}
        BY <1>5, <1>8, <2>2, EmptySeq
      <3>2. /\ r # 0 /\ kind[i] = k
        BY <1>1, <1>6, <3>1, KindsApart DEF AInv, KindInv
      <3>3. Awaited(r) /\ k = kind[Head(queue)]
        BY <1>2, <2>2, <3>1
      <3>4. ASSUME NEW q \in base PROVE q \in {r} \cup gaveUp \cup LeftFor(i)
        <4>1. q \in Made(cache[k]) /\ k \notin {"account", "confirm"}
          BY <3>4 DEF base
        <4>2. Made(cache[k]) \subseteq Ids
          BY <1>1, <1>3 DEF Made, Maps
        <4>3. q \in Ids /\ q \in cache[k]
          BY <1>11, <4>1, <4>2
        <4>4. CASE k = "commission"
          <5>1. q \in gaveUp \/ stream[q] \in {"commission", "kept"}
            BY <1>1, <4>3, <4>4 DEF AInv, RowsInv, LeftInv
          <5>2. CASE stream[q] = "commission" /\ q \notin gaveUp
            <6>1. Awaited(q)
              BY <1>1, <4>3, <4>4, <5>2 DEF AInv, StreamInv
            <6> QED
              BY <3>3, <6>1 DEF Awaited
          <5>3. CASE stream[q] = "kept"
            BY <3>2, <4>3, <4>4, <5>3 DEF LeftFor
          <5> QED
            BY <5>1, <5>2, <5>3
        <4>5. CASE k # "commission"
          <5>1. k \in {"rows", "instruments"}
            BY <1>1, <4>1, <4>5, ConstAssumption
          <5> QED
            BY <3>3, <4>3, <5>1 DEF AInv, RowsInv, Awaited
        <4> QED
          BY <4>4, <4>5
      <3> QED
        BY <1>13, <3>1, <3>4
    <2>3. OwnRows'
      BY <1>1, <1>13 DEF AInv, RowsInv, OwnRows
    <2> QED
      BY <1>1, <1>14, <2>1, <2>2, <2>3 DEF RowsInv
  <1>16. TimeInv'
    <2>1. InTime' => InTime
      <3>1. "refused" \in Ended
        BY DEF Ended, Nulls
      <3> QED
        BY <1>1, <1>5, <1>6, <3>1 DEF InTime
    <2>2. ASSUME InTime', calls' # <<>>
          PROVE  Len(calls') = 1 /\ pc = "await" /\ req[Head(queue)] = Head(calls').req
      <3>1. Len(calls') = 1
        BY <1>5, <2>2 DEF InTime
      <3>2. Head(calls').req = r
        <4>1. calls' \in Seq(Calls)
          BY PacketStep DEF IInv, TypeOK, AnswersOK
        <4>2. Head(calls') = calls'[1]
          BY <2>2, <4>1
        <4> QED
          BY <1>8, <3>1, <4>2
      <3>3. Awaited(r)
        BY <1>2, <2>1, <2>2 DEF InTime
      <3> QED
        BY <3>1, <3>2, <3>3 DEF Awaited
    <2> QED
      BY <1>1, <2>1, <2>2 DEF AInv, TimeInv, Awaited
  <1> QED
    BY <1>7, <1>9, <1>10, <1>15, <1>16 DEF AInv

(* The slot read is a real item; it is the front unless an answer is late. *)
LEMMA ReadFrontAnswers ==
    ASSUME IInv, AInv, ReadFront \/ UseDangling PROVE AInv'
  <1> USE ConstAssumption
  <1>1. /\ UNCHANGED <<queue, kind, req, ret, err, rsp, reqId, cstate, citem, pc>>
        /\ UNCHANGED <<cache, stream, calls, gaveUp>>
    BY DEF ReadFront, UseDangling, items, client, answers
  <1>2. RowsInv' /\ StreamInv' /\ KindInv'
    BY <1>1 DEF AInv, RowsInv, LeftInv, LeftFor, OwnRows, StreamInv, KindInv, Awaited
  <1>3. CASE ReadFront
    <2>1. calls # <<>> /\ cbpc' = "front"
      BY <1>3 DEF ReadFront
    <2>2. CASE queue # <<>>
      <3>1. cur' = Head(queue) /\ crashed' = crashed /\ cur' \in Items
        BY <1>3, <2>2, FrontItem DEF ReadFront
      <3> QED
        BY <1>1, <1>2, <2>1, <3>1 DEF AInv, WakeInv, TimeInv, InTime, Answered, Awaited
    <2>3. CASE queue = <<>>
      <3>1. cur' \in 1..nItem \/ crashed'
        BY <1>3, <2>3 DEF ReadFront
      <3>2. 1..nItem \subseteq Items
        BY DEF IInv, TypeOK, ItemsOK, Items
      <3>3. ~InTime
        BY <2>1, <2>3 DEF AInv, TimeInv, Awaited, IInv, QueueInv
      <3>4. ~InTime'
        BY <1>1, <3>3 DEF InTime
      <3> QED
        BY <1>1, <1>2, <2>1, <3>1, <3>2, <3>4 DEF AInv, WakeInv, TimeInv, Answered
    <2> QED
      BY <2>2, <2>3
  <1>4. CASE UseDangling
    <2>1. cbpc # "idle" /\ cur \notin ToSet(queue) /\ crashed' /\ UNCHANGED <<cbpc, cur>>
      BY <1>4 DEF UseDangling, Dangling, answers
    <2>2. calls # <<>>
      BY <2>1 DEF IInv, AnswerInv
    <2>3. ~InTime
      <3>1. SUFFICES ASSUME InTime PROVE FALSE
        OBVIOUS
      <3>2. pc = "await" /\ cur = Head(queue)
        BY <2>1, <2>2, <3>1 DEF AInv, TimeInv, Awaited
      <3>3. queue # <<>> /\ queue \in Seq(Items)
        BY <3>2 DEF IInv, QueueInv, TypeOK, ItemsOK
      <3>4. Head(queue) = queue[1] /\ 1 \in DOMAIN queue
        BY <3>3, EmptySeq
      <3> QED
        BY <2>1, <3>2, <3>4 DEF ToSet
    <2>4. ~InTime'
      BY <1>1, <2>3 DEF InTime
    <2> QED
      BY <1>1, <1>2, <2>1, <2>4 DEF AInv, WakeInv, TimeInv, Answered
  <1> QED
    BY <1>3, <1>4

(* What is left of the calls when the one in hand is done.                 *)
LEMMA CallsLeft ==
    ASSUME IInv, cbpc # "idle"
    PROVE  /\ calls # <<>> /\ Len(calls) \in Nat \ {0} /\ Head(calls) = calls[1]
           /\ Len(Tail(calls)) = Len(calls) - 1
           /\ \A k \in 1..Len(Tail(calls)) : /\ k + 1 \in 1..Len(calls)
                                             /\ Tail(calls)[k] = calls[k + 1]
  <1>1. calls \in Seq(Calls) /\ calls # <<>>
    BY DEF IInv, TypeOK, AnswersOK, AnswerInv
  <1>2. Len(calls) \in Nat \ {0}
    BY <1>1, EmptySeq
  <1>3. Head(calls) = calls[1]
    BY <1>1
  <1>4. /\ Len(Tail(calls)) = Len(calls) - 1
        /\ \A k \in 1..(Len(calls) - 1) : Tail(calls)[k] = calls[k + 1]
    BY <1>1, HeadTailProperties
  <1> QED
    BY <1>1, <1>2, <1>3, <1>4

(* What is stored in an item answers its own request; while every answer   *)
(* is in time, the ids always agree.                                       *)
LEMMA StoreAnswers ==
    ASSUME IInv, AInv, ~crashed, Store PROVE AInv'
  <1> USE ConstAssumption
  <1> DEFINE call == Head(calls)
             answer == Stored(call)
  <1>1. /\ UNCHANGED <<queue, kind, req, ret, reqId, cstate, citem, pc>>
        /\ UNCHANGED <<cache, stream, gaveUp, crashed>>
        /\ cbpc = "front"
    BY DEF Store, client
  <1>2. cur \in Items /\ call.req \in Ids /\ call = calls[1] /\ 1 \in 1..Len(calls)
    BY <1>1, CallInHand, CallsLeft DEF AInv, WakeInv
  <1>3. /\ answer # NoRsp => /\ answer.req = call.req /\ answer.rows = call.rows
                            /\ call.rows # Null
        /\ answer = NoRsp => call.rows = Null
        /\ call.req # 0
    BY <1>2, KindsApart DEF NoRsp, Stored
  <1>4. CASE req[cur] = call.req
    <2>1. /\ cbpc' = "notify" /\ UNCHANGED <<calls, cur>>
          /\ \A i \in Items : i # cur => rsp'[i] = rsp[i] /\ err'[i] = err[i]
          /\ \/ rsp'[cur] = answer /\ err' = err
             \/ err'[cur] = call.req /\ rsp' = rsp
      BY <1>1, <1>2, <1>4 DEF Store, IInv, TypeOK, ItemsOK
    <2> HIDE DEF answer, call
    <2>2. WakeInv'
      <3>1. call.rows = Null => stream[req[cur]] \in Nulls
        BY <1>2, <1>4 DEF AInv, StreamInv
      <3>2. Answered(cur)'
        BY <1>1, <1>3, <1>4, <2>1, <3>1 DEF Answered
      <3>3. \A i \in Items : Answered(i) => Answered(i)'
        BY <1>1, <2>1, <3>2 DEF Answered
      <3> QED
        BY <1>1, <1>2, <1>4, <2>1, <3>2, <3>3 DEF AInv, WakeInv, call
    <2>3. StreamInv' /\ KindInv'
      BY <1>1, <2>1 DEF AInv, StreamInv, KindInv, Awaited
    <2>4. RowsInv'
      <3>1. call.req \notin gaveUp /\ call.rows # Null
               => call.rows \subseteq {call.req} \cup gaveUp \cup LeftFor(cur)
        BY <1>2, <1>4 DEF AInv, RowsInv
      <3>2. OwnRows'
        <4> SUFFICES ASSUME NEW i \in Items, rsp'[i] # NoRsp, req[i] \notin gaveUp
                     PROVE  rsp'[i].rows \subseteq {req[i]} \cup gaveUp \cup LeftFor(i)
          BY <1>1 DEF OwnRows, LeftFor
        <4>1. CASE rsp'[i] = rsp[i]
          BY <4>1 DEF AInv, RowsInv, OwnRows
        <4>2. CASE rsp'[i] # rsp[i]
          BY <1>3, <1>4, <2>1, <3>1, <4>2
        <4> QED
          BY <4>1, <4>2
      <3> QED
        BY <1>1, <2>1, <3>2 DEF AInv, RowsInv, LeftInv, LeftFor
    <2>5. TimeInv'
      BY <1>1, <2>1 DEF AInv, TimeInv, InTime, Awaited
    <2> QED
      BY <2>2, <2>3, <2>4, <2>5 DEF AInv
  <1>5. CASE req[cur] # call.req
    <2>1. /\ calls' = Tail(calls) /\ cbpc' = "idle" /\ UNCHANGED <<rsp, err>>
      BY <1>5 DEF Store, Done
    <2>2. WakeInv'
      BY <1>1, <2>1 DEF AInv, WakeInv, Answered
    <2>3. StreamInv' /\ KindInv'
      BY <1>1, <2>1, CallsLeft DEF AInv, StreamInv, KindInv, Awaited
    <2>4. RowsInv'
      BY <1>1, <2>1, CallsLeft DEF AInv, RowsInv, LeftInv, LeftFor, OwnRows
    <2>5. ~InTime
      BY <1>1, <1>5, CallsLeft DEF AInv, TimeInv, Awaited
    <2>6. TimeInv'
      BY <1>1, <2>5 DEF TimeInv, InTime
    <2> QED
      BY <2>2, <2>3, <2>4, <2>6 DEF AInv
  <1> QED
    BY <1>4, <1>5

(* The consumer goes on because of the answer to the request awaited.      *)
LEMMA NotifyAnswers ==
    ASSUME IInv, AInv, ~crashed, Notify PROVE AInv'
  <1> USE ConstAssumption
  <1>1. /\ UNCHANGED <<queue, kind, req, ret, err, rsp, reqId, citem>>
        /\ UNCHANGED <<cache, stream, gaveUp, crashed>>
        /\ cbpc = "notify" /\ cbpc' = "idle" /\ calls' = Tail(calls)
        /\ pc' = IF pc = "await" /\ cur = Head(queue) THEN "pop" ELSE pc
        /\ \A c \in Clients : \/ cstate'[c] = cstate[c]
                              \/ cstate'[c] = "notified" /\ citem[c] = cur
    BY DEF Notify, Done, WakeClient, items
  <1>2. cur \in Items /\ Answered(cur) /\ req[cur] = Head(calls).req
    BY <1>1 DEF AInv, WakeInv
  <1>3. stream[req[cur]] \in Ended
    BY <1>1, <1>2, CallsLeft DEF AInv, StreamInv
  <1>4. WakeInv'
    BY <1>1, <1>2 DEF AInv, WakeInv, Answered
  <1>5. \A r \in Ids : stream[r] \in Kinds /\ Awaited(r) => Awaited(r)'
    BY <1>1, <1>3, KindsApart DEF Awaited
  <1>6. StreamInv' /\ KindInv'
    BY <1>1, <1>5, CallsLeft DEF AInv, StreamInv, KindInv
  <1>7. RowsInv'
    BY <1>1, CallsLeft DEF AInv, RowsInv, LeftInv, LeftFor, OwnRows
  <1>8. TimeInv'
    <2>1. InTime' => InTime
      BY <1>1 DEF InTime
    <2>2. InTime => calls' = <<>>
      <3>1. calls \in Seq(Calls) /\ Tail(calls) \in Seq(Calls)
        BY <1>1, CallInHand DEF IInv, TypeOK, AnswersOK
      <3>2. InTime => Len(Tail(calls)) = 0
        BY <1>1, CallsLeft DEF AInv, TimeInv
      <3> QED
        BY <1>1, <3>1, <3>2, EmptySeq
    <2> QED
      BY <1>1, <2>1, <2>2 DEF AInv, TimeInv
  <1> QED
    BY <1>4, <1>6, <1>7, <1>8 DEF AInv

(* Every step keeps the second invariant.                                  *)
LEMMA NextAInv ==
    ASSUME IInv, AInv, [Next]_vars PROVE AInv'
  <1>1. IInv'
    BY NextIInv
  <1>2. CASE UNCHANGED vars
    BY <1>1, <1>2, QuietAnswers
  <1>3. ASSUME NEW c \in Clients, ClientStep(c) PROVE AInv'
    BY <1>1, <1>3, ClientAnswers
  <1>4. CASE ConsumerStep
    BY <1>1, <1>4, QuietAnswers, SendAnswers, ConsumerExpireAnswers DEF ConsumerStep
  <1>5. ASSUME NEW r \in Ids, Packet(r) PROVE AInv'
    BY <1>5, PacketAnswers
  <1>6. ASSUME ~crashed, CallbackStep PROVE AInv'
    BY <1>6, ReadFrontAnswers, StoreAnswers, NotifyAnswers DEF CallbackStep
  <1>7. CASE TakeId \/ Tick
    BY <1>1, <1>7, QuietAnswers
  <1> QED
    BY <1>2, <1>3, <1>4, <1>5, <1>6, <1>7 DEF Next

(* CTP answers only the request awaited or requests given up; foreign rows *)
(* are of the latter; and as long as no answer is late, the callback       *)
(* thread works on the item in front.                                      *)
THEOREM AnswersInvariance == Spec => []AInv
  <1>1. Init => IInv /\ AInv
    BY InitIInv, InitAInv
  <1>2. IInv /\ AInv /\ [Next]_vars => IInv' /\ AInv'
    BY NextIInv, NextAInv
  <1> QED
    BY <1>1, <1>2, PTL DEF Spec

(* A client that was notified and finds neither data nor exception was     *)
(* answered with a null pointer, and asked for something that can be       *)
(* answered so: the orders, positions and commissions never are            *)
(* (qry_queue.h:82-95 with the handlers of trade_api.cpp).                 *)
THEOREM NullExplained == Spec => []NullOnlyIfNull
  <1>1. IInv /\ AInv => NullOnlyIfNull
    BY DEF AInv, WakeInv, KindInv, NullOnlyIfNull, Outcome, Answered
  <1> QED
    BY <1>1, Invariance, AnswersInvariance, PTL

(* However late packets of abandoned queries come and however they share   *)
(* the cache, an answer in time holds foreign rows only of requests the    *)
(* consumer had given up.                                                  *)
THEOREM RowsOwned == Spec => []OwnRows
  <1>1. AInv => OwnRows
    BY DEF AInv, RowsInv
  <1> QED
    BY <1>1, AnswersInvariance, PTL

(* The unlocked front() and the use of a popped slot need a late answer or *)
(* a refused settlement confirmation.                                      *)
THEOREM FrontSafe == Spec => []FrontDefined
  <1>1. AInv => FrontDefined
    BY DEF AInv, TimeInv, InTime, FrontDefined
  <1> QED
    BY <1>1, AnswersInvariance, PTL
-----------------------------------------------------------------------------
(* Between two rounds the last but one query is an Interval old, and once  *)
(* the next one is sent, its predecessor is as old as the round before.    *)
RateInv ==
    /\ sinceLast \in 0..Interval
    /\ sent1 \in 0..Interval
    /\ sent2 \in 0..Interval
    /\ pc \in {"lock", "empty", "front", "await", "pop", "rate"}
    /\ pc \in {"lock", "empty", "front"} => sent2 >= Interval /\ sent1 >= sinceLast
    /\ pc \in {"await", "pop", "rate"} => sent2 >= sinceLast

(* What a step does to the consumer's place, its clock and the requests.   *)
PaceStep ==
    \/ UNCHANGED <<pc, req>> /\ sinceLast' = Capped(sinceLast)
    \/ UNCHANGED <<pc, req, sinceLast>>
    \/ /\ pc \in {"lock", "empty"} /\ pc' \in {"lock", "empty", "front"}
       /\ UNCHANGED <<req, sinceLast>>
    \/ /\ pc = "front" /\ pc' \in {"await", "pop"}
       /\ UNCHANGED sinceLast
    \/ /\ pc \in {"await", "pop"} /\ pc' \in {"pop", "rate"}
       /\ UNCHANGED <<req, sinceLast>>
    \/ /\ pc = "rate" /\ pc' = "lock"
       /\ sinceLast >= Interval /\ sinceLast' = 0
       /\ UNCHANGED req

(* Every step of the query queue paces like that.                          *)
LEMMA NextPaces == Next => PaceStep
  <1> SUFFICES ASSUME Next PROVE PaceStep
    OBVIOUS
  <1>1. CASE \E c \in Clients : ClientStep(c)
    <2>1. PICK c \in Clients : ClientStep(c)
      BY <1>1
    <2>2. CASE \E k \in Kinds : Push(c, k)
      BY <2>2 DEF Push, PaceStep
    <2>3. CASE Call(c) \/ WaitNotFull(c) \/ ClientExpire(c) \/ Return(c)
      BY <2>3 DEF Call, WaitNotFull, ClientExpire, Return, items, PaceStep
    <2> QED
      BY <2>1, <2>2, <2>3 DEF ClientStep
  <1>2. CASE ConsumerStep
    <2>1. CASE ConsumeLock
      BY <2>1 DEF ConsumeLock, items, PaceStep
    <2>2. CASE Send \/ SendFails
      BY <2>2 DEF Send, SendFails, Issue, PaceStep
    <2>3. CASE ConsumerExpire \/ Pop
      BY <2>3 DEF ConsumerExpire, Pop, items, PaceStep
    <2>4. CASE EndRound
      BY <2>4 DEF EndRound, items, PaceStep
    <2> QED
      BY <1>2, <2>1, <2>2, <2>3, <2>4 DEF ConsumerStep
  <1>3. CASE \E r \in Ids : Packet(r)
    BY <1>3 DEF Packet, RowPacket, AccountPacket, EmptyPacket, ErrorPacket, ConfirmPacket,
       items, PaceStep
  <1>4. CASE CallbackStep
    <2>1. CASE ReadFront \/ UseDangling \/ Store
      BY <2>1 DEF ReadFront, UseDangling, Store, items, PaceStep
    <2>2. CASE Notify
      BY <2>2 DEF Notify, items, PaceStep
    <2> QED
      BY <1>4, <2>1, <2>2 DEF CallbackStep
  <1>5. CASE TakeId \/ Tick
    BY <1>5 DEF TakeId, Tick, items, PaceStep
  <1> QED
    BY <1>1, <1>2, <1>3, <1>4, <1>5 DEF Next

(* The invariant holds initially, when no query has been sent yet.         *)
LEMMA InitRate == TimedInit => RateInv
  BY ConstAssumption DEF TimedInit, Init, RateInv

(* Every step keeps it.                                                    *)
LEMMA StepRate == RateInv /\ [TimedNext]_timedVars => RateInv'
  <1> SUFFICES ASSUME RateInv, [TimedNext]_timedVars PROVE RateInv'
    OBVIOUS
  <1> USE ConstAssumption
  <1>1. CASE Watched
    <2>1. PaceStep /\ sinceLast' \in {sinceLast, 0}
      BY <1>1, NextPaces DEF Watched
    <2>2. /\ Sends => sent1' = 0 /\ sent2' = sent1
          /\ ~Sends => sent1' = sent1 /\ sent2' = sent2
      BY <1>1 DEF Watched
    <2>3. CASE pc = "front" /\ pc' \in {"await", "pop"} /\ sinceLast' = sinceLast
      BY <2>2, <2>3 DEF RateInv
    <2>4. CASE req' = req
      <3>1. sent1' = sent1 /\ sent2' = sent2
        BY <2>2, <2>4 DEF Sends
      <3> QED
        BY <2>1, <3>1 DEF RateInv, PaceStep, Capped
    <2> QED
      BY <2>1, <2>3, <2>4 DEF PaceStep
  <1>2. CASE Elapse
    BY <1>2 DEF Elapse, Capped, RateInv
  <1>3. CASE UNCHANGED timedVars
    BY <1>3 DEF timedVars, vars, RateInv
  <1> QED
    BY <1>1, <1>2, <1>3 DEF TimedNext

(* For every interval, buffer size and number of clients: between three    *)
(* queries sent to CTP an Interval passes (qry_queue.cpp:42-45).           *)
THEOREM RateLimit == TimedSpec => AtMostTwoPerInterval
  <1>1. RateInv /\ [TimedNext]_timedVars => [Sends => sent2 >= Interval]_timedVars
    <2> SUFFICES ASSUME RateInv, TimedNext, Sends PROVE sent2 >= Interval
      OBVIOUS
    <2>1. Next
      BY DEF TimedNext, Watched, Elapse, items, Sends
    <2>2. pc = "front"
      BY <2>1, NextPaces DEF PaceStep, Sends
    <2> QED
      BY <2>2 DEF RateInv
  <1> QED
    BY <1>1, InitRate, StepRate, PTL DEF TimedSpec, AtMostTwoPerInterval

-----------------------------------------------------------------------------
(* Proofs about the readers-writer lock, for any finite set of threads,    *)
(* any nesting depth of read sections and both modes.  Threads that enter  *)
(* a write section inside their write section are excluded by hypothesis:  *)
(* for them the lock is not exclusive.                                     *)

(* Entering a section appends it to the thread's sections and leaves the   *)
(* other threads' alone.                                                   *)
LEMMA EnterEffect ==
    ASSUME LockTypeOK, NEW t \in Threads, NEW s \in Sections, Enter(t, s)
    PROVE  /\ sections' \in [Threads -> Seq(Sections)]
           /\ \A u \in Threads : u # t => sections'[u] = sections[u]
           /\ sections'[t] # <<>>
           /\ Len(sections'[t]) = Len(sections[t]) + 1
           /\ \A k \in 1..Len(sections[t]) : sections'[t][k] = sections[t][k]
           /\ sections'[t][Len(sections[t]) + 1] = s
  <1>1. sections[t] \in Seq(Sections)
    BY DEF LockTypeOK
  <1>2. sections'[t] = Append(sections[t], s)
    BY DEF LockTypeOK, Enter
  <1>3. sections'[t] \in Seq(Sections) /\ sections'[t] # <<>>
    BY <1>1, <1>2, AppendProperties
  <1>4. sections' \in [Threads -> Seq(Sections)]
    BY <1>3, <1>2 DEF LockTypeOK, Enter
  <1> QED
    BY <1>1, <1>2, <1>3, <1>4, AppendProperties DEF LockTypeOK, Enter

(* Leaving a section drops the innermost one.                              *)
LEMMA LeaveEffect ==
    ASSUME LockTypeOK, NEW t \in Threads, sections[t] # <<>>, Leave(t)
    PROVE  /\ sections' \in [Threads -> Seq(Sections)]
           /\ \A u \in Threads : u # t => sections'[u] = sections[u]
           /\ Len(sections[t]) \in Nat \ {0}
           /\ Len(sections'[t]) = Len(sections[t]) - 1
           /\ \A k \in 1..Len(sections'[t]) : sections'[t][k] = sections[t][k]
  <1> DEFINE n == Len(sections[t])
  <1>1. sections[t] \in Seq(Sections) /\ n \in Nat \ {0}
    BY EmptySeq DEF LockTypeOK
  <1>2. sections'[t] = SubSeq(sections[t], 1, n - 1)
    BY DEF LockTypeOK, Leave
  <1>3. \A k \in 1..(n - 1) : sections[t][k] \in Sections
    BY <1>1, ElementOfSeq
  <1>4. /\ sections'[t] \in Seq(Sections)
        /\ Len(sections'[t]) = n - 1
        /\ \A k \in 1..(n - 1) : sections'[t][k] = sections[t][k]
    BY <1>1, <1>2, <1>3, SubSeqProperties
  <1>5. sections' \in [Threads -> Seq(Sections)]
    BY <1>4, <1>2 DEF LockTypeOK, Leave
  <1> QED
    BY <1>1, <1>4, <1>5 DEF LockTypeOK, Leave

(* What a thread is in can be read off its outermost section.              *)
LEMMA Outermost ==
    ASSUME LockTypeOK, Nesting, NEW t \in Threads
    PROVE  /\ Len(sections[t]) \in Nat
           /\ sections[t] # <<>> <=> Len(sections[t]) > 0
           /\ DOMAIN sections[t] = 1..Len(sections[t])
           /\ Holds(t, "write") <=> sections[t] # <<>> /\ sections[t][1] = "write"
           /\ Holds(t, "write") <=> OwnReads(t)
           /\ ~Holds(t, "write") <=> OnlyReads(t)
           /\ ~Holds(t, "write") /\ sections[t] # <<>> => Holds(t, "read")
  <1>1. sections[t] \in Seq(Sections)
    BY DEF LockTypeOK
  <1>2. Len(sections[t]) \in Nat /\ DOMAIN sections[t] = 1..Len(sections[t])
    BY <1>1, LenProperties
  <1>3. sections[t] # <<>> <=> Len(sections[t]) > 0
    BY <1>1, <1>2, EmptySeq
  <1>4. OnlyReads(t) \/ OwnReads(t)
    BY DEF Nesting
  <1>5. CASE OnlyReads(t)
    BY <1>2, <1>3, <1>5 DEF OnlyReads, OwnReads, Holds
  <1>6. CASE OwnReads(t)
    BY <1>2, <1>3, <1>6 DEF OnlyReads, OwnReads, Holds
  <1> QED
    BY <1>4, <1>5, <1>6

(* The counted sets are finite.                                            *)
LEMMA CountedFinite ==
    /\ IsFiniteSet(ReadSections)
    /\ \A S \in SUBSET Threads : IsFiniteSet(S)
  <1>1. IsFiniteSet(1..MaxDepth)
    BY LockAssumption, FS_Interval
  <1>2. IsFiniteSet(Threads \X (1..MaxDepth))
    BY <1>1, LockAssumption, FS_Product
  <1>3. IsFiniteSet(ReadSections)
    BY <1>2, FS_Subset DEF ReadSections
  <1> QED
    BY <1>3, LockAssumption, FS_Subset

-----------------------------------------------------------------------------
(* The initial state satisfies the inductive invariant.                    *)
LEMMA InitLockInv == LockInit => LockInv
  <1> SUFFICES ASSUME LockInit PROVE LockInv
    OBVIOUS
  <1>1. \A t \in Threads : sections[t] = <<>> /\ Len(sections[t]) = 0 /\ ~Holds(t, "write")
    BY DEF LockInit, Holds
  <1>2. LockTypeOK
    BY EmptySeq DEF LockInit, LockTypeOK
  <1>3. Nesting
    BY <1>1, LockAssumption DEF LockInit, Nesting, OnlyReads
  <1>4. LockCount
    <2>1. Writers = {} /\ Writing = {}
      BY <1>1 DEF LockInit, Writers, Writing
    <2>2. ReadSections = {}
      BY <1>1 DEF ReadSections
    <2> QED
      BY <2>1, <2>2, FS_EmptySet DEF LockCount, LockInit
  <1>5. WaitCount
    <2>1. {t \in Threads : at[t] \in {"w_cas", "w_sub"}} = {}
      BY DEF LockInit
    <2> QED
      BY <2>1, FS_EmptySet DEF WaitCount, LockInit
  <1> QED
    BY <1>2, <1>3, <1>4, <1>5 DEF LockInv, UnlockMatches, LockInit

(* Moving between the program points before the compare-exchanges changes  *)
(* nothing the invariant counts.                                           *)
LEMMA IdleStep ==
    ASSUME LockInv, NEW t \in Threads,
           NEW l \in {"out", "r_load", "r_wait", "r_cas", "w_add"},
           at[t] \in {"out", "r_load", "r_wait", "r_cas", "w_add"},
           Goto(t, l),
           count' \in [Threads -> Nat],
           UNCHANGED <<lockCount, waitCount, owner, sections, failed>>,
           l \in {"r_load", "r_wait", "r_cas", "w_add"} =>
               OnlyReads(t) /\ Len(sections[t]) < MaxDepth
    PROVE  LockInv'
  <1> USE DEF LockInv
  <1>1. LockTypeOK'
    BY DEF LockTypeOK, Goto
  <1>2. Nesting'
    BY DEF LockTypeOK, Nesting, OnlyReads, OwnReads, Goto
  <1>3. Writers' = Writers /\ Writing' = Writing /\ ReadSections' = ReadSections
    BY DEF LockTypeOK, Goto, Writers, Writing, ReadSections, Holds
  <1>4. LockCount'
    BY <1>3 DEF LockCount
  <1>5. {u \in Threads : at[u] \in {"w_cas", "w_sub"}}'
          = {u \in Threads : at[u] \in {"w_cas", "w_sub"}}
    BY DEF LockTypeOK, Goto
  <1>6. WaitCount'
    BY <1>5 DEF WaitCount
  <1> QED
    BY <1>1, <1>2, <1>4, <1>6 DEF UnlockMatches

(* No step that leaves waitCount and the threads at "w_cas" and "w_sub"    *)
(* alone disturbs WaitCount.                                               *)
LEMMA WaitCountKept ==
    ASSUME LockTypeOK, WaitCount, NEW t \in Threads, waitCount' = waitCount,
           \A u \in Threads : u # t => at'[u] = at[u],
           at'[t] \in {"w_cas", "w_sub"} <=> at[t] \in {"w_cas", "w_sub"}
    PROVE  WaitCount'
  <1>1. {u \in Threads : at[u] \in {"w_cas", "w_sub"}}'
          = {u \in Threads : at[u] \in {"w_cas", "w_sub"}}
    OBVIOUS
  <1> QED
    BY <1>1 DEF WaitCount

(* While somebody writes, m_lockCount is -1; while nobody does, it counts. *)
LEMMA CountOrWritten ==
    ASSUME LockInv
    PROVE  /\ lockCount # -1 => Writers = {} /\ lockCount = Cardinality(ReadSections)
           /\ lockCount = -1 => Writers # {} /\ ReadSections = {}
           /\ Cardinality(ReadSections) \in Nat
           /\ Writing \subseteq Writers
           /\ \A t \in Threads : owner = {t} <=> Holds(t, "write")
  <1>1. Cardinality(ReadSections) \in Nat
    BY CountedFinite, FS_CardinalityType
  <1>2. Writing \subseteq Writers
    BY DEF Writing, Writers
  <1>3. ASSUME NEW t \in Threads PROVE owner = {t} <=> Holds(t, "write")
    BY <1>2 DEF LockInv, LockCount, Writing
  <1> QED
    BY <1>1, <1>2, <1>3 DEF LockInv, LockCount

-----------------------------------------------------------------------------
(* The steps of readLock and readUnlock.                                   *)

(* What a writing thread enters and leaves is not among the read sections. *)
LEMMA OwnUncounted ==
    ASSUME NEW t \in Threads, OwnReads(t), OwnReads(t)',
           Len(sections[t]) \in Nat, Len(sections'[t]) \in Nat,
           \A u \in Threads : u # t => sections'[u] = sections[u]
    PROVE  ReadSections' = ReadSections
  <1>1. ASSUME NEW k \in 1..MaxDepth, k <= Len(sections[t]) PROVE sections[t][k] # "read"
    <2>1. k = 1 \/ k \in 2..Len(sections[t])
      BY <1>1, LockAssumption
    <2> QED
      BY <2>1 DEF OwnReads
  <1>2. ASSUME NEW k \in 1..MaxDepth, k <= Len(sections'[t]) PROVE sections'[t][k] # "read"
    <2>1. k = 1 \/ k \in 2..Len(sections'[t])
      BY <1>2, LockAssumption
    <2> QED
      BY <2>1 DEF OwnReads
  <1>3. ASSUME NEW x \in Threads \X (1..MaxDepth)
        PROVE  x \in ReadSections' <=> x \in ReadSections
    <2>1. x[1] \in Threads /\ x[2] \in 1..MaxDepth
      BY <1>3
    <2>2. CASE x[1] = t
      BY <2>1, <2>2, <1>1, <1>2 DEF ReadSections
    <2>3. CASE x[1] # t
      BY <2>1, <2>3 DEF ReadSections
    <2> QED
      BY <2>2, <2>3
  <1> QED
    BY <1>3 DEF ReadSections

(* A step of one thread keeps the nesting if that thread ends outside any  *)
(* operation with sections nested as they should be.                       *)
LEMMA NestingKept ==
    ASSUME Nesting, NEW t \in Threads,
           at'[t] = "out", Len(sections'[t]) <= MaxDepth, OnlyReads(t)' \/ OwnReads(t)',
           \A u \in Threads : u # t => sections'[u] = sections[u] /\ at'[u] = at[u]
    PROVE  Nesting'
  <1>1. ASSUME NEW u \in Threads, u # t
        PROVE  /\ sections'[u] = sections[u] /\ at'[u] = at[u]
               /\ OnlyReads(u)' <=> OnlyReads(u)
               /\ OwnReads(u)' <=> OwnReads(u)
    <2>1. sections'[u] = sections[u] /\ at'[u] = at[u]
      BY <1>1
    <2> QED
      BY <2>1 DEF OnlyReads, OwnReads
  <1> QED
    BY <1>1 DEF Nesting

(* A reader starts: it enters, at once if the lock is its own for          *)
(* writing.                                                                *)
LEMMA ReadLockStep ==
    ASSUME LockInv, NEW t \in Threads, ReadLock(t) PROVE LockInv'
  <1> USE DEF LockInv
  <1>1. CASE owner = {t}
    <2>1. Enter(t, "own") /\ UNCHANGED <<lockCount, waitCount, owner, at, count, failed>>
      BY <1>1 DEF ReadLock
    <2>2. OwnReads(t) /\ Len(sections[t]) \in Nat /\ Len(sections[t]) > 0
      BY <1>1, Outermost, CountOrWritten
    <2>3. /\ sections' \in [Threads -> Seq(Sections)]
          /\ \A u \in Threads : u # t => sections'[u] = sections[u]
          /\ sections'[t] # <<>>
          /\ Len(sections'[t]) = Len(sections[t]) + 1
          /\ \A k \in 1..Len(sections[t]) : sections'[t][k] = sections[t][k]
          /\ sections'[t][Len(sections[t]) + 1] = "own"
      BY <2>1, EnterEffect DEF Sections
    <2>4. LockTypeOK'
      BY <2>1, <2>3 DEF LockTypeOK
    <2>5. OwnReads(t)'
      BY <2>2, <2>3 DEF OwnReads
    <2>6. at[t] = "out" /\ Len(sections[t]) < MaxDepth
      BY DEF ReadLock
    <2>7. Nesting'
      <3>1. Len(sections'[t]) <= MaxDepth
        BY <2>2, <2>3, <2>6, LockAssumption
      <3>2. at' = at
        BY <2>1
      <3> QED
        BY <2>3, <2>5, <2>6, <3>1, <3>2, NestingKept
    <2>8. Holds(t, "write") /\ Holds(t, "write")'
      <3>1. sections'[t] \in Seq(Sections)
        BY <2>3
      <3>2. DOMAIN sections'[t] = 1..Len(sections'[t])
        BY <3>1, LenProperties
      <3> QED
        BY <2>2, <2>3, <2>5, <3>2, Outermost DEF OwnReads, Holds
    <2>9. Writers' = Writers /\ Writing' = Writing
      <3>1. \A u \in Threads : Holds(u, "write")' <=> Holds(u, "write")
        BY <2>3, <2>8 DEF Holds
      <3>2. at' = at
        BY <2>1
      <3> QED
        BY <3>1, <3>2 DEF Writers, Writing
    <2>10. ReadSections' = ReadSections
      <3>1. Len(sections'[t]) \in Nat
        BY <2>2, <2>3
      <3> QED
        BY <2>2, <2>3, <2>5, <3>1, OwnUncounted
    <2>11. LockCount'
      BY <2>1, <2>9, <2>10 DEF LockCount
    <2>12. WaitCount'
      BY <2>1, WaitCountKept
    <2> QED
      BY <2>1, <2>4, <2>7, <2>11, <2>12 DEF UnlockMatches
  <1>2. CASE owner # {t}
    <2>1. OnlyReads(t)
      BY <1>2, Outermost, CountOrWritten
    <2> QED
      BY <1>2, <2>1, IdleStep DEF ReadLock, LockTypeOK
  <1> QED
    BY <1>1, <1>2

(* A reader reads the lock word.                                           *)
LEMMA ReadLoadStep ==
    ASSUME LockInv, NEW t \in Threads, ReadLoad(t) PROVE LockInv'
  <1>1. lockCount \in Nat /\ count' \in [Threads -> Nat]
    BY DEF ReadLoad, LockInv, LockTypeOK
  <1>2. OnlyReads(t) /\ Len(sections[t]) < MaxDepth
    BY DEF ReadLoad, LockInv, Nesting
  <1> QED
    BY <1>1, <1>2, IdleStep DEF ReadLoad

(* A reader looks for waiting writers, or finds the word changed.          *)
LEMMA ReadWaitStep ==
    ASSUME LockInv, NEW t \in Threads, ReadWait(t) \/ ReadCasFails(t) PROVE LockInv'
  <1>1. count' \in [Threads -> Nat]
    BY DEF ReadWait, ReadCasFails, LockInv, LockTypeOK
  <1>2. OnlyReads(t) /\ Len(sections[t]) < MaxDepth
    BY DEF ReadWait, ReadCasFails, LockInv, Nesting
  <1> QED
    BY <1>1, <1>2, IdleStep DEF ReadWait, ReadCasFails

(* The value compared with was loaded when it was not -1, so nobody writes *)
(* at the moment of the exchange; the new section is counted once.         *)
LEMMA ReadCasStep ==
    ASSUME LockInv, NEW t \in Threads, ReadCas(t) PROVE LockInv'
  <1> USE DEF LockInv
  <1> DEFINE n == Len(sections[t])
  <1>1. lockCount = count[t] /\ lockCount \in Nat /\ Writers = {}
    BY CountOrWritten DEF ReadCas, LockTypeOK
  <1>2. OnlyReads(t) /\ n < MaxDepth /\ n \in Nat /\ sections[t] \in Seq(Sections)
    BY Outermost DEF ReadCas, Nesting, LockTypeOK
  <1>3. /\ sections' \in [Threads -> Seq(Sections)]
        /\ \A u \in Threads : u # t => sections'[u] = sections[u]
        /\ sections'[t] # <<>>
        /\ Len(sections'[t]) = n + 1
        /\ \A k \in 1..n : sections'[t][k] = sections[t][k]
        /\ sections'[t][n + 1] = "read"
    BY EnterEffect DEF ReadCas, Sections
  <1>4. LockTypeOK'
    <2>1. lockCount' \in Nat
      BY <1>1 DEF ReadCas
    <2>2. UNCHANGED <<waitCount, owner, count, failed>>
      BY DEF ReadCas
    <2>3. at' = [at EXCEPT ![t] = "out"]
      BY DEF ReadCas, Goto
    <2> QED
      BY <1>3, <2>1, <2>2, <2>3 DEF LockTypeOK
  <1>5. OnlyReads(t)'
    BY <1>2, <1>3 DEF OnlyReads
  <1>6. /\ at'[t] = "out" /\ \A u \in Threads : u # t => at'[u] = at[u]
        /\ UNCHANGED <<waitCount, owner, failed>> /\ lockCount' = lockCount + 1
        /\ at[t] = "r_cas"
    BY DEF ReadCas, Goto, LockTypeOK
  <1>7. Nesting'
    <2>1. Len(sections'[t]) <= MaxDepth
      BY <1>2, <1>3, LockAssumption
    <2> QED
      BY <1>3, <1>5, <1>6, <2>1, NestingKept
  <1>8. ~Holds(t, "write") /\ ~Holds(t, "write")'
    <2>1. DOMAIN sections'[t] = 1..Len(sections'[t])
      BY <1>3, LenProperties
    <2> QED
      BY <1>2, <1>5, <2>1, Outermost DEF OnlyReads, Holds
  <1>9. Writers' = Writers /\ Writing' = Writing
    BY <1>3, <1>6, <1>8 DEF Writers, Writing, Holds
  <1>10. ReadSections' = ReadSections \cup {<<t, n + 1>>} /\ <<t, n + 1>> \notin ReadSections
    BY <1>2, <1>3, LockAssumption DEF ReadSections
  <1>11. Cardinality(ReadSections') = Cardinality(ReadSections) + 1
    BY <1>10, CountedFinite, FS_AddElement
  <1>12. LockCount'
    BY <1>1, <1>6, <1>9, <1>11 DEF LockCount
  <1>13. WaitCount'
    BY <1>6, WaitCountKept
  <1> QED
    BY <1>4, <1>6, <1>7, <1>12, <1>13 DEF UnlockMatches

(* Leaving a read section: the thread that writes leaves an uncounted one, *)
(* any other a counted one, the innermost of its sections.                 *)
LEMMA ReadUnlockStep ==
    ASSUME LockInv, NEW t \in Threads, ReadUnlock(t) PROVE LockInv'
  <1> USE DEF LockInv
  <1> DEFINE n == Len(sections[t])
  <1>1. /\ UNCHANGED <<waitCount, owner, at, count, failed>>
        /\ at' = at
        /\ at[t] = "out" /\ sections[t] # <<>>
        /\ sections[t][n] \in {"read", "own"}
    BY DEF ReadUnlock, Innermost
  <1>2. /\ sections' \in [Threads -> Seq(Sections)]
        /\ \A u \in Threads : u # t => sections'[u] = sections[u]
        /\ n \in Nat \ {0}
        /\ Len(sections'[t]) = n - 1
        /\ \A k \in 1..(n - 1) : sections'[t][k] = sections[t][k]
        /\ DOMAIN sections'[t] = 1..(n - 1)
    <2>1. Leave(t) /\ sections[t] # <<>>
      BY DEF ReadUnlock
    <2>2. sections'[t] \in Seq(Sections)
      BY <2>1, LeaveEffect
    <2> QED
      BY <2>1, <2>2, LeaveEffect, LenProperties
  <1>3. n <= MaxDepth
    BY DEF Nesting
  <1>4. CASE owner = {t}
    <2>1. lockCount' = lockCount
      BY <1>4 DEF ReadUnlock
    <2>2. OwnReads(t) /\ n > 1
      <3>1. OwnReads(t)
        BY <1>4, Outermost, CountOrWritten
      <3> QED
        BY <1>1, <1>2, <3>1 DEF OwnReads
    <2>3. OwnReads(t)' /\ Len(sections[t])' <= MaxDepth
      <3>1. sections'[t] # <<>>
        BY <1>2, <2>2, EmptySeq
      <3>2. sections'[t][1] = "write"
        BY <1>2, <2>2 DEF OwnReads
      <3>3. \A k \in 2..(n - 1) : sections'[t][k] = "own"
        BY <1>2, <2>2 DEF OwnReads
      <3>4. n - 1 <= MaxDepth
        BY <1>2, <1>3, LockAssumption
      <3> QED
        BY <1>2, <3>1, <3>2, <3>3, <3>4 DEF OwnReads
    <2>4. LockTypeOK'
      BY <1>1, <1>2, <2>1 DEF LockTypeOK
    <2>5. Nesting'
      BY <1>1, <1>2, <2>3, NestingKept
    <2>6. \A u \in Threads : Holds(u, "write")' <=> Holds(u, "write")
      <3>1. Holds(t, "write")
        BY <2>2, Outermost
      <3>2. Holds(t, "write")'
        <4>1. 1 \in DOMAIN sections'[t]
          BY <1>2, <2>2
        <4>2. sections'[t][1] = "write"
          BY <2>3 DEF OwnReads
        <4> QED
          BY <4>1, <4>2 DEF Holds
      <3>3. \A u \in Threads : u # t => (Holds(u, "write")' <=> Holds(u, "write"))
        BY <1>2 DEF Holds
      <3> QED
        BY <3>1, <3>2, <3>3
    <2>7. Writers' = Writers /\ Writing' = Writing
      BY <1>1, <2>6 DEF Writers, Writing
    <2>8. ReadSections' = ReadSections
      <3>1. Len(sections'[t]) \in Nat
        BY <1>2
      <3> QED
        BY <1>2, <2>2, <2>3, <3>1, OwnUncounted
    <2>9. LockCount'
      BY <1>1, <2>1, <2>7, <2>8 DEF LockCount
    <2> QED
      BY <1>1, <2>4, <2>5, <2>9, WaitCountKept DEF UnlockMatches
  <1>5. CASE owner # {t}
    <2>1. lockCount' = lockCount - 1
      BY <1>5 DEF ReadUnlock
    <2>2. OnlyReads(t) /\ sections[t][n] = "read"
      <3>1. OnlyReads(t)
        BY <1>5, Outermost, CountOrWritten
      <3>2. n \in 1..n
        BY <1>2
      <3> QED
        BY <3>1, <3>2 DEF OnlyReads
    <2>3. <<t, n>> \in ReadSections
      BY <1>2, <1>3, <2>2, LockAssumption DEF ReadSections
    <2>4. ReadSections' = ReadSections \ {<<t, n>>}
      BY <1>2, <1>3, <2>2, LockAssumption DEF ReadSections
    <2>5. Writers = {} /\ lockCount = Cardinality(ReadSections)
      BY <2>3 DEF LockCount
    <2>6. Cardinality(ReadSections') = lockCount - 1 /\ lockCount - 1 \in Nat
      <3>1. IsFiniteSet(ReadSections) /\ IsFiniteSet(ReadSections \ {<<t, n>>})
        BY CountedFinite, FS_RemoveElement
      <3>2. Cardinality(ReadSections \ {<<t, n>>}) = Cardinality(ReadSections) - 1
        BY <2>3, <3>1, FS_RemoveElement
      <3>3. Cardinality(ReadSections \ {<<t, n>>}) \in Nat
        BY <3>1, FS_CardinalityType
      <3> QED
        BY <2>4, <2>5, <3>2, <3>3
    <2>7. LockTypeOK'
      BY <1>1, <1>2, <2>1, <2>6 DEF LockTypeOK
    <2>8. OnlyReads(t)' /\ Len(sections[t])' <= MaxDepth
      BY <1>2, <1>3, <2>2, LockAssumption DEF OnlyReads
    <2>9. Nesting'
      BY <1>1, <1>2, <2>8, NestingKept
    <2>10. \A u \in Threads : Holds(u, "write")' <=> Holds(u, "write")
      <3>1. ~Holds(t, "write") /\ ~Holds(t, "write")'
        BY <1>2, <2>2, <2>8, Outermost DEF OnlyReads, Holds
      <3> QED
        BY <1>2, <3>1 DEF Holds
    <2>11. Writers' = Writers /\ Writing' = Writing
      BY <1>1, <2>10 DEF Writers, Writing
    <2>12. LockCount'
      BY <1>1, <2>1, <2>5, <2>6, <2>11 DEF LockCount
    <2> QED
      BY <1>1, <2>7, <2>9, <2>12, WaitCountKept DEF UnlockMatches
  <1> QED
    BY <1>4, <1>5

-----------------------------------------------------------------------------
(* The steps of writeLock and writeUnlock.                                 *)

(* A thread that writes does not call writeLock: NestedWrites is excluded. *)
LEMMA WriteLockStep ==
    ASSUME LockInv, ~NestedWrites, NEW t \in Threads, WriteLock(t) PROVE LockInv'
  <1>1. ~Holds(t, "write") /\ OnlyReads(t) /\ Len(sections[t]) < MaxDepth
    BY Outermost DEF WriteLock, LockInv
  <1>2. owner # {t}
    BY <1>1, CountOrWritten
  <1>3. count' \in [Threads -> Nat]
    BY DEF WriteLock, LockInv, LockTypeOK
  <1> QED
    BY <1>1, <1>2, <1>3, IdleStep DEF WriteLock

(* A writer announces itself.                                              *)
LEMMA WriteAddStep ==
    ASSUME LockInv, NEW t \in Threads, WriteAdd(t) PROVE LockInv'
  <1> USE DEF LockInv
  <1> DEFINE W == {u \in Threads : at[u] \in {"w_cas", "w_sub"}}
  <1>1. /\ at[t] = "w_add" /\ at' = [at EXCEPT ![t] = "w_cas"]
        /\ waitCount' = waitCount + 1
        /\ UNCHANGED <<lockCount, owner, count, sections, failed>>
    BY DEF WriteAdd, Goto
  <1>2. LockTypeOK'
    BY <1>1 DEF LockTypeOK
  <1>3. Nesting'
    BY <1>1 DEF LockTypeOK, Nesting, OnlyReads, OwnReads
  <1>4. LockCount'
    <2>1. Writers' = Writers /\ Writing' = Writing /\ ReadSections' = ReadSections
      BY <1>1 DEF LockTypeOK, Writers, Writing, ReadSections, Holds
    <2> QED
      BY <1>1, <2>1 DEF LockCount
  <1>5. WaitCount'
    <2>1. W' = W \cup {t} /\ t \notin W
      BY <1>1 DEF LockTypeOK
    <2>2. Cardinality(W') = Cardinality(W) + 1
      BY <2>1, CountedFinite, FS_AddElement
    <2> QED
      BY <1>1, <2>2 DEF WaitCount
  <1> QED
    BY <1>1, <1>2, <1>3, <1>4, <1>5 DEF UnlockMatches

(* The count is 0 only when nobody reads and nobody writes.                *)
LEMMA WriteCasStep ==
    ASSUME LockInv, NEW t \in Threads, WriteCas(t) PROVE LockInv'
  <1> USE DEF LockInv
  <1>1. /\ at[t] = "w_cas" /\ at' = [at EXCEPT ![t] = "w_sub"]
        /\ lockCount = 0 /\ lockCount' = -1
        /\ UNCHANGED <<waitCount, owner, count, sections, failed>>
    BY DEF WriteCas, Goto
  <1>0. Writers = {} /\ Writing = {} /\ ReadSections = {}
    BY <1>1, CountOrWritten, CountedFinite, FS_EmptySet
  <1>2. LockTypeOK'
    BY <1>1 DEF LockTypeOK
  <1>3. Nesting'
    <2>1. sections[t] = <<>> /\ MaxDepth > 0
      <3>1. OnlyReads(t) /\ Len(sections[t]) \in Nat /\ Len(sections[t]) <= MaxDepth
            /\ Len(sections[t]) < MaxDepth
            /\ (sections[t] # <<>> <=> Len(sections[t]) > 0)
        BY <1>1, Outermost DEF Nesting
      <3>2. ASSUME Len(sections[t]) > 0 PROVE FALSE
        <4>1. sections[t][1] = "read" /\ 1 \in 1..MaxDepth
          BY <3>1, <3>2, LockAssumption DEF OnlyReads
        <4>2. <<t, 1>> \in ReadSections
          BY <3>2, <4>1, <3>1 DEF ReadSections
        <4> QED
          BY <1>0, <4>2
      <3> QED
        BY <3>1, <3>2, LockAssumption
    <2> QED
      BY <1>1, <2>1 DEF LockTypeOK, Nesting, OnlyReads, OwnReads
  <1>4. LockCount'
    <2>1. Writers = {} /\ Writing = {} /\ ReadSections = {}
      BY <1>0
    <2>2. Writers' = {t} /\ Writing' = Writing /\ ReadSections' = ReadSections
      BY <1>1, <2>1 DEF LockTypeOK, Writers, Writing, ReadSections, Holds
    <2> QED
      BY <1>1, <2>1, <2>2 DEF LockCount
  <1>5. WaitCount'
    BY <1>1, WaitCountKept DEF LockTypeOK
  <1> QED
    BY <1>1, <1>2, <1>3, <1>4, <1>5 DEF UnlockMatches

(* A writer takes back its announcement.                                   *)
LEMMA WriteSubStep ==
    ASSUME LockInv, NEW t \in Threads, WriteSub(t) PROVE LockInv'
  <1> USE DEF LockInv
  <1> DEFINE W == {u \in Threads : at[u] \in {"w_cas", "w_sub"}}
  <1>1. /\ at[t] = "w_sub" /\ at' = [at EXCEPT ![t] = "w_own"]
        /\ waitCount' = waitCount - 1
        /\ UNCHANGED <<lockCount, owner, count, sections, failed>>
    BY DEF WriteSub, Goto
  <1>2. WaitCount' /\ waitCount' \in Nat
    <2>1. W' = W \ {t} /\ t \in W /\ IsFiniteSet(W) /\ IsFiniteSet(W \ {t})
      BY <1>1, CountedFinite DEF LockTypeOK
    <2>2. Cardinality(W \ {t}) = Cardinality(W) - 1
      BY <2>1, FS_RemoveElement
    <2>3. Cardinality(W \ {t}) \in Nat
      BY <2>1, FS_CardinalityType
    <2> QED
      BY <1>1, <2>1, <2>2, <2>3 DEF WaitCount
  <1>3. LockTypeOK'
    BY <1>1, <1>2 DEF LockTypeOK
  <1>4. Nesting'
    BY <1>1 DEF LockTypeOK, Nesting, OnlyReads, OwnReads
  <1>5. LockCount'
    <2>1. Writers' = Writers /\ Writing' = Writing /\ ReadSections' = ReadSections
      BY <1>1 DEF LockTypeOK, Writers, Writing, ReadSections, Holds
    <2> QED
      BY <1>1, <2>1 DEF LockCount
  <1> QED
    BY <1>1, <1>2, <1>3, <1>4, <1>5 DEF UnlockMatches

(* The thread that turned the count to -1 is the only writer; noting its   *)
(* id makes m_write_thread_id agree with the write section it enters.      *)
LEMMA WriteOwnStep ==
    ASSUME LockInv, NEW t \in Threads, WriteOwn(t) PROVE LockInv'
  <1> USE DEF LockInv
  <1>1. /\ at[t] = "w_own" /\ at' = [at EXCEPT ![t] = "out"] /\ owner' = {t}
        /\ UNCHANGED <<lockCount, waitCount, count, failed>>
        /\ sections[t] = <<>> /\ Len(sections[t]) = 0 /\ MaxDepth > 0
    BY DEF WriteOwn, Goto, Nesting
  <1>2. /\ sections' \in [Threads -> Seq(Sections)]
        /\ \A u \in Threads : u # t => sections'[u] = sections[u]
        /\ sections'[t] # <<>>
        /\ Len(sections'[t]) = 1
        /\ sections'[t][1] = "write"
        /\ DOMAIN sections'[t] = 1..1
    <2>1. Enter(t, "write")
      BY DEF WriteOwn
    <2>2. sections'[t] \in Seq(Sections)
      BY <2>1, EnterEffect DEF Sections
    <2>3. /\ sections' \in [Threads -> Seq(Sections)]
          /\ \A u \in Threads : u # t => sections'[u] = sections[u]
          /\ sections'[t] # <<>>
          /\ Len(sections'[t]) = Len(sections[t]) + 1
          /\ sections'[t][Len(sections[t]) + 1] = "write"
      BY <2>1, EnterEffect DEF Sections
    <2>4. Len(sections'[t]) = 1 /\ sections'[t][1] = "write"
      BY <1>1, <2>3
    <2> QED
      BY <2>2, <2>3, <2>4, LenProperties
  <1>3. LockTypeOK'
    BY <1>1, <1>2 DEF LockTypeOK
  <1>4. Nesting'
    <2>1. OwnReads(t)' /\ Len(sections[t])' <= MaxDepth /\ at'[t] = "out"
      BY <1>1, <1>2, LockAssumption DEF OwnReads, LockTypeOK
    <2> SUFFICES ASSUME NEW u \in Threads, u # t
                 PROVE  /\ OnlyReads(u)' <=> OnlyReads(u)
                        /\ OwnReads(u)' <=> OwnReads(u)
                        /\ sections'[u] = sections[u] /\ at'[u] = at[u]
      BY <2>1 DEF Nesting
    <2>2. sections'[u] = sections[u] /\ at'[u] = at[u]
      BY <1>1, <1>2 DEF LockTypeOK
    <2> QED
      BY <2>2 DEF OnlyReads, OwnReads
  <1>5. LockCount'
    <2>1. Writers = {t} /\ ReadSections = {} /\ lockCount = -1
      BY <1>1 DEF Writers, LockCount
    <2>2. ~Holds(t, "write") /\ Holds(t, "write")'
      BY <1>1, <1>2 DEF Holds
    <2>3. \A u \in Threads : u # t => ~Holds(u, "write") /\ ~Holds(u, "write")'
      BY <1>2, <2>1 DEF Writers, Holds
    <2>4. Writers' = {t} /\ Writing' = {t}
      BY <1>1, <2>1, <2>2, <2>3 DEF Writers, Writing, LockTypeOK
    <2>5. ReadSections' = {}
      BY <1>2, <2>1 DEF ReadSections
    <2> QED
      BY <1>1, <2>1, <2>4, <2>5 DEF LockCount
  <1>6. WaitCount'
    BY <1>1, WaitCountKept DEF LockTypeOK
  <1> QED
    BY <1>1, <1>3, <1>4, <1>5, <1>6 DEF UnlockMatches

(* A thread in a write section is the owner and the count is -1, so the    *)
(* unlocking call gets through, and the write section is its only one.     *)
LEMMA UnlockingWriter ==
    ASSUME LockInv, NEW t \in Threads, WriteUnlock(t)
    PROVE  /\ owner = {t} /\ lockCount = -1 /\ Writers = {t} /\ ReadSections = {}
           /\ Holds(t, "write") /\ t \notin Reading
           /\ owner' = {} /\ at' = [at EXCEPT ![t] = "u_store"] /\ failed' = failed
           /\ sections' \in [Threads -> Seq(Sections)]
           /\ \A u \in Threads : u # t => sections'[u] = sections[u]
           /\ Len(sections'[t]) = 0
           /\ sections'[t] = <<>>
  <1> USE DEF LockInv
  <1> DEFINE n == Len(sections[t])
  <1>1. sections[t] # <<>> /\ Leave(t) /\ sections[t][n] = "write"
    BY DEF WriteUnlock, Innermost
  <1>2. n \in Nat /\ n > 0 /\ DOMAIN sections[t] = 1..n
    BY <1>1, Outermost
  <1>3. Holds(t, "write") /\ OwnReads(t)
    <2>1. ~OnlyReads(t)
      BY <1>1, <1>2 DEF OnlyReads
    <2> QED
      BY <2>1, Outermost
  <1>4. n = 1
    <2>1. ~(n > 1)
      BY <1>1, <1>2, <1>3 DEF OwnReads
    <2> HIDE DEF n
    <2> QED
      BY <1>2, <2>1
  <1>5. t \notin Reading
    <2>1. DOMAIN sections[t] = 1..1 /\ sections[t][1] = "write"
      BY <1>1, <1>2, <1>4
    <2> QED
      BY <2>1 DEF Reading, Holds
  <1>6. owner = {t} /\ lockCount = -1 /\ Writers = {t} /\ ReadSections = {}
    <2>1. t \in Writers
      BY <1>3 DEF Writers
    <2> QED
      BY <1>3, <2>1, CountOrWritten DEF LockCount
  <1>7. owner' = {} /\ at' = [at EXCEPT ![t] = "u_store"] /\ failed' = failed
    BY <1>6 DEF WriteUnlock, Goto
  <1>8. /\ sections' \in [Threads -> Seq(Sections)]
        /\ \A u \in Threads : u # t => sections'[u] = sections[u]
        /\ Len(sections'[t]) = n - 1
    BY <1>1, LeaveEffect
  <1>9. Len(sections'[t]) = 0 /\ sections'[t] = <<>>
    BY <1>4, <1>8, EmptySeq
  <1> QED
    BY <1>3, <1>5, <1>6, <1>7, <1>8, <1>9

(* A writer unlocks.                                                       *)
LEMMA WriteUnlockStep ==
    ASSUME LockInv, NEW t \in Threads, WriteUnlock(t) PROVE LockInv'
  <1> USE DEF LockInv
  <1>1. /\ at[t] = "out" /\ lockCount' = lockCount /\ waitCount' = waitCount /\ count' = count
    BY DEF WriteUnlock
  <1>3. owner = {t} /\ lockCount = -1 /\ Writers = {t} /\ ReadSections = {}
    BY UnlockingWriter
  <1>4. owner' = {} /\ at' = [at EXCEPT ![t] = "u_store"] /\ failed' = failed
    BY UnlockingWriter
  <1>5. /\ sections' \in [Threads -> Seq(Sections)]
        /\ \A u \in Threads : u # t => sections'[u] = sections[u]
        /\ Len(sections'[t]) = 0
        /\ sections'[t] = <<>>
    BY UnlockingWriter
  <1>6. LockTypeOK'
    BY <1>1, <1>4, <1>5 DEF LockTypeOK
  <1>7. Nesting'
    <2>1. OnlyReads(t)' /\ Len(sections[t])' <= MaxDepth /\ at'[t] = "u_store" /\ sections'[t] = <<>>
      BY <1>4, <1>5, LockAssumption DEF OnlyReads, LockTypeOK
    <2> SUFFICES ASSUME NEW u \in Threads, u # t
                 PROVE  /\ OnlyReads(u)' <=> OnlyReads(u)
                        /\ OwnReads(u)' <=> OwnReads(u)
                        /\ sections'[u] = sections[u] /\ at'[u] = at[u]
      BY <2>1 DEF Nesting
    <2>2. sections'[u] = sections[u] /\ at'[u] = at[u]
      BY <1>4, <1>5 DEF LockTypeOK
    <2> QED
      BY <2>2 DEF OnlyReads, OwnReads
  <1>8. LockCount'
    <2>1. \A u \in Threads : ~Holds(u, "write")'
      BY <1>3, <1>5 DEF Writers, Holds
    <2>2. Writers' = {t} /\ Writing' = {}
      BY <1>3, <1>4, <2>1 DEF Writers, Writing, LockTypeOK
    <2>3. ReadSections' = {}
      BY <1>3, <1>5 DEF ReadSections
    <2> QED
      BY <1>1, <1>3, <1>4, <2>2, <2>3 DEF LockCount
  <1>9. WaitCount'
    BY <1>1, <1>4, WaitCountKept DEF LockTypeOK
  <1> QED
    BY <1>4, <1>6, <1>7, <1>8, <1>9 DEF UnlockMatches

(* A writer names itself as the owner.                                     *)
LEMMA WriteStoreStep ==
    ASSUME LockInv, NEW t \in Threads, WriteStore(t) PROVE LockInv'
  <1> USE DEF LockInv
  <1>1. /\ at[t] = "u_store" /\ at' = [at EXCEPT ![t] = "out"] /\ lockCount' = 0
        /\ UNCHANGED <<waitCount, owner, count, sections, failed>>
        /\ sections[t] = <<>>
    BY DEF WriteStore, Goto, Nesting
  <1>2. LockTypeOK'
    BY <1>1 DEF LockTypeOK
  <1>3. Nesting'
    BY <1>1 DEF LockTypeOK, Nesting, OnlyReads, OwnReads
  <1>4. LockCount'
    <2>1. Writers = {t} /\ ReadSections = {}
      BY <1>1 DEF Writers, LockCount
    <2>2. Writers' = {} /\ Writing' = Writing /\ ReadSections' = ReadSections
      BY <1>1, <2>1 DEF LockTypeOK, Writers, Writing, ReadSections, Holds
    <2> QED
      BY <1>1, <2>1, <2>2, FS_EmptySet DEF LockCount
  <1>5. WaitCount'
    BY <1>1, WaitCountKept DEF LockTypeOK
  <1> QED
    BY <1>1, <1>2, <1>3, <1>4, <1>5 DEF UnlockMatches

-----------------------------------------------------------------------------
(* Every step of the lock keeps the inductive invariant.                   *)
LEMMA NextLockInv ==
    ASSUME ~NestedWrites, LockInv, [LockNext]_lockVars PROVE LockInv'
  <1>1. CASE UNCHANGED lockVars
    <2>1. /\ lockCount' = lockCount /\ waitCount' = waitCount /\ owner' = owner /\ at' = at
          /\ count' = count /\ sections' = sections /\ failed' = failed
      BY <1>1 DEF lockVars
    <2>2. LockTypeOK'
      BY <2>1 DEF LockInv, LockTypeOK
    <2>3. Nesting'
      BY <2>1 DEF LockInv, Nesting, OnlyReads, OwnReads
    <2>4. Writers' = Writers /\ Writing' = Writing /\ ReadSections' = ReadSections
      BY <2>1 DEF Writers, Writing, ReadSections, Holds
    <2>5. LockCount' /\ WaitCount' /\ UnlockMatches'
      BY <2>1, <2>4 DEF LockInv, LockCount, WaitCount, UnlockMatches
    <2> QED
      BY <2>2, <2>3, <2>5 DEF LockInv
  <1>2. ASSUME NEW t \in Threads, ReadStep(t) PROVE LockInv'
    BY <1>2, ReadLockStep, ReadLoadStep, ReadWaitStep, ReadCasStep, ReadUnlockStep DEF ReadStep
  <1>3. ASSUME NEW t \in Threads, WriteStep(t) PROVE LockInv'
    BY <1>3, WriteLockStep, WriteAddStep, WriteCasStep, WriteSubStep, WriteOwnStep,
       WriteUnlockStep, WriteStoreStep DEF WriteStep
  <1> QED
    BY <1>1, <1>2, <1>3 DEF LockNext

(* The invariant holds: m_lockCount counts the read sections or is -1 for  *)
(* the one thread that writes, m_writeWaitCount counts the waiting ones,   *)
(* m_write_thread_id is the thread in a write section.                     *)
THEOREM LockInvariance ==
    ASSUME ~NestedWrites PROVE LockSpec => []LockInv
  <1>1. LockInit => LockInv
    BY InitLockInv
  <1>2. LockInv /\ [LockNext]_lockVars => LockInv'
    BY NextLockInv
  <1> QED
    BY <1>1, <1>2, PTL DEF LockSpec

(* With no read section counted, only a thread that writes is in one.      *)
LEMMA UncountedReader ==
    ASSUME LockInv, ReadSections = {}, NEW u \in Threads, ~Holds(u, "write")
    PROVE  u \notin Reading
  <1> SUFFICES ASSUME Holds(u, "read") \/ Holds(u, "own") PROVE FALSE
    BY DEF Reading
  <1>1. OnlyReads(u) /\ DOMAIN sections[u] = 1..Len(sections[u]) /\ Len(sections[u]) \in Nat
    BY Outermost DEF LockInv
  <1>2. PICK k \in 1..Len(sections[u]) : TRUE
    BY <1>1 DEF Holds
  <1>3. Len(sections[u]) <= MaxDepth
    BY DEF LockInv, Nesting
  <1>4. <<u, k>> \in ReadSections
    BY <1>1, <1>2, <1>3, LockAssumption DEF ReadSections, OnlyReads
  <1> QED
    BY <1>4

(* The invariant gives the exclusion the lock is for.                      *)
LEMMA IInvExclusive == LockInv => ExclusiveWrite
  <1> SUFFICES ASSUME LockInv, NEW t \in Writing
               PROVE  Writing = {t} /\ Reading \subseteq {t}
    BY DEF ExclusiveWrite
  <1>1. t \in Threads /\ t \in Writers /\ Writing \subseteq Writers
    BY DEF Writing, Writers
  <1>2. Writers = {t} /\ ReadSections = {}
    BY <1>1 DEF LockInv, LockCount
  <1>3. ASSUME NEW u \in Reading PROVE u = t
    BY <1>2, UncountedReader DEF Reading, Writers
  <1> QED
    BY <1>1, <1>2, <1>3

(* While a thread is in a write section no other thread is in any section  *)
(* (the promise of rwlock.hpp:14).                                         *)
THEOREM Exclusion ==
    ASSUME ~NestedWrites PROVE LockSpec => []ExclusiveWrite
  BY LockInvariance, IInvExclusive, PTL

(* The lock's counts, its owner and the sections keep their types; in      *)
(* particular m_writeWaitCount never goes below 0.                         *)
THEOREM LockTypeCorrect ==
    ASSUME ~NestedWrites PROVE LockSpec => []LockTypeOK
  <1>1. LockInv => LockTypeOK
    BY DEF LockInv
  <1> QED
    BY <1>1, LockInvariance, PTL

(* writeUnlock never throws and its assert never fails.                    *)
THEOREM Unlocking ==
    ASSUME ~NestedWrites PROVE LockSpec => []UnlockMatches
  <1>1. LockInv => UnlockMatches
    BY DEF LockInv
  <1> QED
    BY <1>1, LockInvariance, PTL

-----------------------------------------------------------------------------
(* RWLock implements the promised lock: each step is a step of             *)
(* ReadersWriters or leaves reading and writing as they are.               *)

(* Entering for reading adds one reader and no writer.                     *)
LEMMA EntersRead ==
    ASSUME LockTypeOK, NEW t \in Threads, NEW s \in {"read", "own"}, Enter(t, s)
    PROVE  Reading' = Reading \cup {t} /\ Writing' = Writing
  <1> DEFINE n == Len(sections[t])
  <1>1. /\ sections[t] \in Seq(Sections) /\ n \in Nat
        /\ DOMAIN sections[t] = 1..n
    BY LenProperties DEF LockTypeOK
  <1>2. /\ \A u \in Threads : u # t => sections'[u] = sections[u]
        /\ \A k \in 1..n : sections'[t][k] = sections[t][k]
        /\ sections'[t][n + 1] = s
        /\ Len(sections'[t]) = n + 1
        /\ sections'[t] \in Seq(Sections)
    BY EnterEffect DEF Sections
  <1>3. DOMAIN sections'[t] = 1..(n + 1)
    BY <1>2, LenProperties
  <1>4. Holds(t, s)' /\ (Holds(t, "write")' <=> Holds(t, "write"))
    <2>1. n + 1 \in 1..(n + 1) /\ \A k \in 1..(n + 1) : k \in 1..n \/ k = n + 1
      BY <1>1
    <2>2. 1..n \subseteq 1..(n + 1)
      BY <1>1
    <2> HIDE DEF n
    <2>3. Holds(t, s)'
      BY <1>2, <1>3, <2>1 DEF Holds
    <2> QED
      BY <1>1, <1>2, <1>3, <2>1, <2>2, <2>3 DEF Holds
  <1>5. \A u \in Threads : u # t =>
          \A r \in Sections : Holds(u, r)' <=> Holds(u, r)
    BY <1>2 DEF Holds
  <1> QED
    BY <1>4, <1>5 DEF Reading, Writing, Sections

(* The last unlock of a reader takes it out, and no writer.                *)
LEMMA LeavesRead ==
    ASSUME LockTypeOK, NEW t \in Threads, ReadUnlock(t)
    PROVE  /\ t \in Reading
           /\ Reading' = Reading \/ Reading' = Reading \ {t}
           /\ Writing' = Writing
  <1> DEFINE n == Len(sections[t])
  <1>1. sections[t] # <<>> /\ sections[t][n] \in {"read", "own"} /\ Leave(t)
    BY DEF ReadUnlock, Innermost
  <1>2. /\ \A u \in Threads : u # t => sections'[u] = sections[u]
        /\ n \in Nat \ {0}
        /\ Len(sections'[t]) = n - 1
        /\ \A k \in 1..(n - 1) : sections'[t][k] = sections[t][k]
        /\ sections'[t] \in Seq(Sections)
    BY <1>1, LeaveEffect
  <1>3. DOMAIN sections[t] = 1..n /\ DOMAIN sections'[t] = 1..(n - 1)
    BY <1>2, LenProperties DEF LockTypeOK
  <1>4. Holds(t, "write")' <=> Holds(t, "write")
    <2>1. \A k \in 1..n : sections[t][k] = "write" => k \in 1..(n - 1)
      BY <1>1, <1>2
    <2>2. 1..(n - 1) \subseteq 1..n
      BY <1>2
    <2> HIDE DEF n
    <2> QED
      BY <1>2, <1>3, <2>1, <2>2 DEF Holds
  <1>5. t \in Reading
    BY <1>1, <1>2, <1>3 DEF Reading, Holds
  <1>6. \A u \in Threads : u # t =>
          \A r \in Sections : Holds(u, r)' <=> Holds(u, r)
    BY <1>2 DEF Holds
  <1> QED
    BY <1>4, <1>5, <1>6 DEF Reading, Writing, Sections

(* When the only writer is in no section yet, nobody is in one.            *)
LEMMA OnlyWriterOutside ==
    ASSUME LockInv, NEW t \in Threads, Writers = {t}, sections[t] = <<>>
    PROVE  Reading = {} /\ Writing = {}
  <1>1. ReadSections = {} /\ ~Holds(t, "write")
    BY DEF LockInv, LockCount, Holds
  <1>2. \A u \in Threads : ~Holds(u, "write")
    BY <1>1 DEF Writers
  <1> QED
    BY <1>1, <1>2, UncountedReader DEF Reading, Writing

(* Every step of the lock is a step of its abstract specification, or      *)
(* changes nothing of it.                                                  *)
LEMMA Refines ==
    ASSUME ~NestedWrites, LockInv, NEW t \in Threads, ReadStep(t) \/ WriteStep(t)
    PROVE  [Promised!Next]_<<Reading, Writing>>
  <1> USE DEF LockInv
  <1> USE DEF Promised!Next, Promised!StartRead, Promised!EndRead,
              Promised!StartWrite, Promised!EndWrite
  <1>1. CASE UNCHANGED sections
    BY <1>1 DEF Reading, Writing, Holds
  <1>2. CASE ReadLock(t) /\ ~UNCHANGED sections
    <2>1. owner = {t} /\ Enter(t, "own")
      BY <1>2 DEF ReadLock
    <2>2. Reading' = Reading \cup {t} /\ Writing' = Writing
      BY <2>1, EntersRead
    <2> QED
      BY <2>1, <2>2 DEF LockCount
  <1>3. CASE ReadCas(t)
    <2>1. Reading' = Reading \cup {t} /\ Writing' = Writing
      BY <1>3, EntersRead DEF ReadCas
    <2>2. lockCount # -1
      BY <1>3 DEF ReadCas, LockTypeOK
    <2>3. Writing = {}
      BY <2>2, CountOrWritten
    <2> QED
      BY <2>1, <2>3
  <1>4. CASE ReadUnlock(t)
    BY <1>4, LeavesRead
  <1>5. CASE WriteOwn(t)
    <2>1. Writers = {t} /\ sections[t] = <<>>
      BY <1>5 DEF WriteOwn, Nesting, LockCount, Writers
    <2>2. Reading = {} /\ Writing = {}
      BY <2>1, OnlyWriterOutside
    <2>3. Enter(t, "write") /\ Len(sections[t]) = 0
      BY <1>5, <2>1 DEF WriteOwn
    <2>4. /\ \A u \in Threads : u # t => sections'[u] = sections[u]
          /\ sections'[t][1] = "write" /\ DOMAIN sections'[t] = 1..1
      <3>1. /\ \A u \in Threads : u # t => sections'[u] = sections[u]
            /\ Len(sections'[t]) = Len(sections[t]) + 1
            /\ sections'[t][Len(sections[t]) + 1] = "write"
            /\ sections'[t] \in Seq(Sections)
        BY <2>3, EnterEffect DEF Sections
      <3>2. Len(sections'[t]) = 1 /\ sections'[t][1] = "write"
        BY <2>3, <3>1
      <3> QED
        BY <3>1, <3>2, LenProperties
    <2>5. Writing' = {t} /\ Reading' = {}
      BY <2>2, <2>4 DEF Reading, Writing, Holds
    <2> QED
      BY <2>2, <2>5
  <1>6. CASE WriteUnlock(t)
    <2>1. Writing = {t} /\ Reading \subseteq {t}
      BY <1>6, UnlockingWriter, IInvExclusive DEF ExclusiveWrite, Writing
    <2>2. sections'[t] = <<>> /\ \A u \in Threads : u # t => sections'[u] = sections[u]
      BY <1>6, UnlockingWriter
    <2>3. t \notin Reading
      BY <1>6, UnlockingWriter
    <2>4. Writing' = {} /\ Reading' = {}
      BY <2>1, <2>2, <2>3 DEF Reading, Writing, Holds
    <2> QED
      BY <2>1, <2>3, <2>4
  <1>7. CASE WriteLock(t)
    <2>1. ~Holds(t, "write")
      BY <1>7 DEF WriteLock
    <2>2. owner # {t}
      BY <2>1, CountOrWritten
    <2> QED
      BY <1>1, <1>7, <2>2 DEF WriteLock
  <1>8. CASE ReadLoad(t) \/ ReadWait(t) \/ ReadCasFails(t) \/ WriteAdd(t) \/ WriteCas(t)
                \/ WriteSub(t) \/ WriteStore(t)
    BY <1>1, <1>8 DEF ReadLoad, ReadWait, ReadCasFails, WriteAdd, WriteCas, WriteSub, WriteStore
  <1> QED
    BY <1>1, <1>2, <1>3, <1>4, <1>5, <1>6, <1>7, <1>8 DEF ReadStep, WriteStep

(* RWLock is a readers-writer lock as rwlock.hpp:14-20 promises it.        *)
THEOREM Implements ==
    ASSUME ~NestedWrites PROVE LockSpec => PromisedLock
  <1>1. LockInit => Promised!Init
    BY DEF LockInit, Promised!Init, Reading, Writing, Holds
  <1>2. LockInv /\ [LockNext]_lockVars => [Promised!Next]_<<Reading, Writing>>
    <2>1. CASE UNCHANGED lockVars
      BY <2>1 DEF lockVars, Reading, Writing, Holds
    <2> QED
      BY <2>1, Refines DEF LockNext
  <1> QED
    BY <1>1, <1>2, LockInvariance, PTL DEF LockSpec, PromisedLock, Promised!Spec

-----------------------------------------------------------------------------
(* What the day of the program and its looper promise, for any             *)
(* instruments, any number of starts, crashes and early wake-ups, and any  *)
(* bound on the time: a date is published once, the commission rates in    *)
(* use are those of the day, and no date is left out.                      *)
(*                                                                         *)
(* Published once: a date that was published, not counting crashes, is in  *)
(* redis or would be noted as lost if the process ended now (Accounted).   *)
(* So the check before an event, which compares with the last date kept    *)
(* or read, at least the one in redis (Newer), never finds it due again.   *)
(* What is lost is no more than one date for each event, because a run     *)
(* commits what it has set before the next one begins (Buffered).          *)
(*                                                                         *)
(* The rates: what is fetched, kept in redis or taken up from it is of     *)
(* one day, the one it is filed under (RedisRight, Gathered), and redis    *)
(* forgets it before the next day begins.                                  *)
(*                                                                         *)
(* None left out: the task is always due one period after it was           *)
(* (DueInTurn), and what a run that is over had to publish was published   *)
(* (RunDone, KeptWasTold), provided a task runs no later than MaxLag = 2   *)
(* steps of the clock after it is due.  A run that came later could find   *)
(* the next date begun and its settlement still to come.                   *)

Loopers == {"none", "idle", "waiting", "before", "set_before", "after", "set_after", "requeue"}

(* Dates are dates, and the looper runs only in a process that is ready.   *)
DatesRight ==
    /\ now \in 0..MaxNow /\ stamp \in 0..MaxNow
    /\ day \in Dates \cup {MinDate}
    /\ looper \in Loopers
    /\ known \in [Events -> Dates \cup {MinDate, Empty}]
    /\ unsent \in [Events -> BOOLEAN]
    /\ saved \in [Events -> Dates \cup {MinDate}]
    /\ told \in [Events -> [Dates -> Nat]] /\ torn \in [Events -> [Dates -> Nat]]
    /\ main # "down" => day \in Dates
    /\ looper # "none" => main = "ready"

(* What a run has set and not committed, it set in this run.               *)
Buffered ==
    /\ \A e \in Events : unsent[e] => known[e] \in Dates
    /\ unsent["before"] => looper \in {"after", "set_after", "requeue"}
    /\ unsent["after"] => looper = "requeue"

(* The process never falls back behind redis.                              *)
Newer ==
    \A e \in Events :
        /\ known[e] # Empty => saved[e] <= known[e]
        /\ looper = Setting(e) => known[e] # Empty /\ known[e] < Target(e)

(* What was published is saved, or would be noted as lost.                 *)
Accounted ==
    \A e \in Events : \A d \in Dates :
        told[e][d] > torn[e][d] => saved[e] >= d \/ Lost(e, d)

DayInv == DatesRight /\ Buffered /\ Newer /\ Accounted /\ PublishedOnce

(* The date of an event is a date.                                         *)
LEMMA TradingDayIsDate ==
    ASSUME MaxNow \in Nat, NEW t \in 0..MaxNow
    PROVE  Date(t) \in Dates /\ TradingDay(t) \in Dates
  <1>1. t \div Parts \in 0..MaxNow
    BY DEF Parts
  <1>. QED
    BY <1>1 DEF Date, TradingDay, Dates, Parts

(* An event is checked for a date.                                         *)
LEMMA TargetIsDate ==
    ASSUME DatesRight, looper # "none", NEW e \in Events
    PROVE  Target(e) \in Dates
  <1>1. MaxNow \in Nat
    BY DayAssumption
  <1>2. Date(stamp) \in Dates
    BY <1>1, TradingDayIsDate DEF DatesRight
  <1>. QED
    BY <1>2 DEF DatesRight, Target

(* The initial state.                                                      *)
LEMMA Initially == DayInit => DayInv
  <1>. SUFFICES ASSUME DayInit PROVE DayInv
    OBVIOUS
  <1>. USE DayAssumption DEF DayInit, MinDate, Empty, Events
  <1>1. DatesRight
    BY DEF DatesRight, Loopers, Dates
  <1>2. Buffered
    BY DEF Buffered
  <1>3. Newer
    BY DEF Newer, Setting
  <1>4. Accounted
    BY DEF Accounted
  <1>5. PublishedOnce
    BY DEF PublishedOnce
  <1>. QED
    BY <1>1, <1>2, <1>3, <1>4, <1>5 DEF DayInv

(* The Python thread and redis do not touch the events.                    *)
LEMMA OthersKeep ==
    ASSUME DayInv, UNCHANGED <<looper, stamp, known, unsent, saved, told, torn>>,
           day' \in Dates \cup {MinDate}, now' \in 0..MaxNow,
           main' # "down" => day' \in Dates,
           looper # "none" => main' = "ready" /\ day' = day
    PROVE  DayInv'
  <1>1. DatesRight'
    BY DEF DayInv, DatesRight
  <1>2. Buffered'
    BY DEF DayInv, Buffered
  <1>3. ASSUME NEW e \in Events PROVE looper = Setting(e) => Target(e)' = Target(e)
    BY DEF Target, Setting, Events, Date
  <1>4. Newer'
    BY <1>3 DEF DayInv, Newer, Setting
  <1>5. ASSUME NEW e \in Events, NEW d \in Dates, Lost(e, d) PROVE Lost(e, d)'
    BY <1>3, <1>5 DEF Lost, Setting
  <1>6. Accounted'
    BY <1>5 DEF DayInv, Accounted
  <1>7. PublishedOnce'
    BY DEF DayInv, PublishedOnce
  <1>. QED
    BY <1>1, <1>2, <1>4, <1>6, <1>7 DEF DayInv

(* The Python thread of a process whose looper has not been started.       *)
LEMMA StartKeeps ==
    ASSUME DayInv, Start PROVE DayInv'
  <1>1. looper = "none"
    BY DEF DayInv, DatesRight, Start
  <1>2. TradingDay(now) \in Dates
    BY DayAssumption, TradingDayIsDate DEF DayInv, DatesRight
  <1>. QED
    BY <1>1, <1>2, OthersKeep DEF Start, DayInv, DatesRight, looperVars, eventVars

(* The end of a process whose looper has not been started.                 *)
LEMMA EndsEarlyKeeps ==
    ASSUME DayInv, Ends, looper = "none", UNCHANGED <<now, day, stamp, eventVars>>
    PROVE  DayInv'
  <1>. USE DEF eventVars
  <1>1. /\ looper' = "none" /\ main' = "down"
        /\ known' = [e \in Events |-> Empty]
        /\ unsent' = [e \in Events |-> FALSE]
    BY DEF Ends
  <1>2. DatesRight'
    BY <1>1 DEF DayInv, DatesRight, Loopers
  <1>3. Buffered'
    BY <1>1 DEF Buffered, Events
  <1>4. Newer'
    BY <1>1 DEF Newer, Setting
  <1>5. ASSUME NEW e \in Events, NEW d \in Dates PROVE ~Lost(e, d)
    BY DEF Lost, Setting, DayInv, Buffered, Events
  <1>6. Accounted'
    BY <1>5 DEF DayInv, Accounted
  <1>7. PublishedOnce'
    BY DEF DayInv, PublishedOnce
  <1>. QED
    BY <1>2, <1>3, <1>4, <1>6, <1>7 DEF DayInv

(* A step of the looper that does not touch the events.                    *)
LEMMA LooperKeeps ==
    ASSUME DayInv, UNCHANGED <<now, main, day, known, unsent, saved, told, torn>>,
           looper \in {"idle", "waiting"}, looper' \in {"idle", "waiting", "before"},
           stamp' \in 0..MaxNow
    PROVE  DayInv'
  <1>1. DatesRight'
    BY DEF DayInv, DatesRight, Loopers
  <1>2. ~unsent["before"] /\ ~unsent["after"]
    BY DEF DayInv, Buffered
  <1>3. Buffered'
    BY <1>2 DEF Buffered, Events
  <1>4. Newer'
    BY DEF DayInv, Newer, Setting
  <1>5. ASSUME NEW e \in Events, NEW d \in Dates PROVE ~Lost(e, d)
    BY <1>2 DEF Lost, Setting, Events
  <1>6. Accounted'
    BY <1>5 DEF DayInv, Accounted
  <1>7. PublishedOnce'
    BY DEF DayInv, PublishedOnce
  <1>. QED
    BY <1>1, <1>3, <1>4, <1>6, <1>7 DEF DayInv

(* A commit leaves saved what was kept.                                    *)
LEMMA CommitSaves ==
    ASSUME DatesRight, Buffered, Newer, Commit, NEW e \in Events
    PROVE  /\ saved' \in [Events -> Dates \cup {MinDate}]
           /\ unsent' = [x \in Events |-> FALSE]
           /\ saved[e] <= saved'[e]
           /\ unsent[e] => saved'[e] = known[e]
           /\ ~unsent[e] => saved'[e] = saved[e]
  <1>. USE DEF Dates, MinDate, Empty
  <1>1. saved' = [x \in Events |-> IF unsent[x] THEN known[x] ELSE saved[x]]
    BY DEF Commit, Committed
  <1>2. unsent' = [x \in Events |-> FALSE]
    BY DEF Commit
  <1>3. saved' \in [Events -> Dates \cup {MinDate}]
    BY <1>1 DEF DatesRight, Buffered
  <1>4. saved[e] \in Nat /\ (unsent[e] => known[e] \in Nat /\ known[e] # Empty)
    BY DayAssumption DEF DatesRight, Buffered
  <1>5. unsent[e] => saved[e] <= known[e]
    BY <1>4 DEF Newer
  <1>6. saved[e] <= saved'[e]
    BY <1>1, <1>4, <1>5
  <1>. QED
    BY <1>1, <1>2, <1>3, <1>6

(* The check and the event.                                                *)
LEMMA PublishKeeps ==
    ASSUME DayInv, NEW e \in Events, CheckAndPublish(e) PROVE DayInv'
  <1>. DEFINE t == Target(e)
  <1>. USE DEF DayInv
  <1>1. /\ looper = e /\ looper # "none"
        /\ UNCHANGED <<now, main, day, stamp, torn>>
    BY DEF CheckAndPublish, dataVars, Events
  <1>2. t \in Dates
    BY <1>1, TargetIsDate
  <1>3. Target(e)' = t
    BY <1>1 DEF Target, Date
  <1>4. known' = [known EXCEPT ![e] = LastDate(e)]
    BY DEF CheckAndPublish
  <1>5. LastDate(e) \in Dates \cup {MinDate} /\ saved[e] <= LastDate(e)
    BY DEF LastDate, DatesRight, Newer, Dates, MinDate, Empty
  <1>6. \/ known[e] = Empty /\ Commit
        \/ known[e] # Empty /\ UNCHANGED <<saved, unsent>>
    BY DEF CheckAndPublish
  <1>7. ~unsent[e]
    BY <1>1 DEF Buffered, Events
  <1>8. \A x \in Events : /\ saved'[x] \in Dates \cup {MinDate}
                          /\ saved[x] <= saved'[x]
                          /\ unsent'[x] => unsent[x] /\ saved'[x] = saved[x]
                          /\ unsent[x] /\ ~unsent'[x] => saved'[x] = known[x]
                          /\ ~unsent[x] => saved'[x] = saved[x]
    BY <1>6, CommitSaves DEF DatesRight, Dates, MinDate
  <1>9. saved'[e] = saved[e] /\ ~unsent'[e]
    BY <1>7, <1>8
  <1>10. \/ /\ LastDate(e) < t
            /\ told' = [told EXCEPT ![e][t] = @ + 1]
            /\ looper' = Setting(e)
         \/ /\ looper' = AfterEvent(e)
            /\ told' = told
    BY DEF CheckAndPublish, MustPublish
  <1>11. told'[e][t] \in Nat /\ told' \in [Events -> [Dates -> Nat]]
    <2>1. told \in [Events -> [Dates -> Nat]] /\ told[e] \in [Dates -> Nat] /\ told[e][t] \in Nat
      BY <1>2 DEF DatesRight
    <2>2. CASE told' = told
      BY <2>1, <2>2
    <2>3. CASE told' = [told EXCEPT ![e][t] = @ + 1]
      <3>1. told'[e] = [told[e] EXCEPT ![t] = told[e][t] + 1]
        BY <2>1, <2>3
      <3>2. told'[e][t] \in Nat /\ told'[e] \in [Dates -> Nat]
        BY <1>2, <2>1, <3>1
      <3>3. told' = [told EXCEPT ![e] = told'[e]]
        BY <2>1, <2>3
      <3>. QED
        BY <2>1, <3>2, <3>3
    <2>. QED
      BY <1>10, <2>2, <2>3
  <1>12. looper' \in Loopers \ {"none"}
    BY <1>10 DEF Setting, AfterEvent, Loopers, Events
  <1>13. DatesRight'
    <2>1. saved' \in [Events -> Dates \cup {MinDate}] /\ unsent' \in [Events -> BOOLEAN]
      BY <1>6, CommitSaves DEF DatesRight
    <2>2. known' \in [Events -> Dates \cup {MinDate, Empty}]
      BY <1>4, <1>5 DEF DatesRight
    <2>. QED
      BY <1>1, <1>11, <1>12, <2>1, <2>2 DEF DatesRight
  <1>14. Buffered'
    <2>1. \A x \in Events : unsent'[x] => known'[x] \in Dates
      BY <1>4, <1>8, <1>9 DEF Buffered, DatesRight
    <2>2. ~unsent["after"] /\ ~unsent'["after"]
      BY <1>1, <1>8 DEF Buffered, Events
    <2>3. unsent'["before"] => e = "after"
      BY <1>9 DEF Events
    <2>4. e = "after" => looper' \in {"set_after", "requeue"}
      BY <1>10 DEF Setting, AfterEvent
    <2>. QED
      BY <2>1, <2>2, <2>3, <2>4 DEF Buffered
  <1>15. Newer'
    <2>1. \A x \in Events : known'[x] # Empty => saved'[x] <= known'[x]
      <3>. TAKE x \in Events
      <3>1. CASE x = e
        BY <1>4, <1>5, <1>9, <3>1 DEF DatesRight
      <3>2. CASE x # e
        <4>1. known'[x] = known[x]
          BY <1>4, <3>2 DEF DatesRight
        <4>2. known[x] \in Int
          BY DayAssumption DEF DatesRight, Dates, MinDate, Empty
        <4>3. known[x] # Empty => saved[x] <= known[x]
          BY DEF Newer
        <4>. QED
          BY <1>8, <3>2, <4>1, <4>2, <4>3
      <3>. QED
        BY <3>1, <3>2
    <2>2. \A x \in Events : looper' = Setting(x) => x = e /\ LastDate(e) < t
      BY <1>10 DEF Setting, AfterEvent, Events
    <2>3. known'[e] = LastDate(e) /\ LastDate(e) # Empty
      BY <1>4, <1>5 DEF DatesRight, Dates, MinDate, Empty
    <2>. QED
      BY <1>3, <2>1, <2>2, <2>3 DEF Newer, Setting
  <1>16. \A x \in Events : \A d \in Dates :
            x # e \/ d # t => told'[x][d] = told[x][d]
    BY <1>2, <1>10 DEF DatesRight
  <1>17. looper' = Setting(e) => told[e][t] <= torn[e][t]
    <2>1. looper' = Setting(e) => LastDate(e) < t
      BY <1>10 DEF Setting, AfterEvent, Events
    <2>2. ~Lost(e, t)
      BY <1>1, <1>7 DEF Lost, Setting, Events
    <2>3. t \in Int /\ saved[e] \in Int /\ LastDate(e) \in Int
      BY <1>2, <1>5, DayAssumption DEF DatesRight, Dates, MinDate
    <2>4. looper' = Setting(e) => ~(saved[e] >= t)
      BY <1>5, <2>1, <2>3
    <2>5. ~(saved[e] >= t) => ~(told[e][t] > torn[e][t])
      BY <1>2, <2>2 DEF Accounted
    <2>6. told[e][t] \in Nat /\ torn[e][t] \in Nat
      BY <1>2 DEF DatesRight
    <2>. QED
      BY <2>4, <2>5, <2>6
  <1>18. Accounted'
    <2>. SUFFICES ASSUME NEW x \in Events, NEW d \in Dates, told'[x][d] > torn[x][d]
                  PROVE  saved'[x] >= d \/ Lost(x, d)'
      BY <1>1 DEF Accounted
    <2>1. CASE x = e /\ d = t /\ looper' = Setting(e)
      BY <2>1, <1>3 DEF Lost, Setting
    <2>2. CASE ~(x = e /\ d = t /\ looper' = Setting(e))
      <3>1. told[x][d] > torn[x][d]
        BY <2>2, <1>10, <1>16 DEF Setting, AfterEvent, Events
      <3>2. saved[x] >= d \/ Lost(x, d)
        BY <3>1 DEF Accounted
      <3>3. looper # Setting(x)
        BY <1>1 DEF Setting, Events
      <3>4. saved[x] >= d \/ (unsent[x] /\ d = known[x])
        BY <3>2, <3>3 DEF Lost, Setting
      <3>5. unsent'[x] => x # e /\ known'[x] = known[x]
        BY <1>4, <1>9 DEF DatesRight
      <3>6. d \in Int /\ saved[x] \in Int /\ saved'[x] \in Int /\ saved[x] <= saved'[x]
        BY <1>8 DEF DatesRight, Dates, MinDate
      <3>7. CASE saved[x] >= d
        BY <3>6, <3>7
      <3>8. CASE unsent[x] /\ d = known[x] /\ unsent'[x]
        BY <3>5, <3>8 DEF Lost
      <3>9. CASE unsent[x] /\ d = known[x] /\ ~unsent'[x]
        BY <1>8, <3>6, <3>9
      <3>. QED
        BY <3>4, <3>7, <3>8, <3>9
    <2>. QED
      BY <2>1, <2>2
  <1>19. PublishedOnce'
    <2>. SUFFICES ASSUME NEW x \in Events, NEW d \in Dates
                  PROVE  told'[x][d] <= 1 + torn[x][d]
      BY <1>1 DEF PublishedOnce
    <2>1. CASE x = e /\ d = t /\ looper' = Setting(e)
      BY <2>1, <1>2, <1>10, <1>17 DEF DatesRight, PublishedOnce
    <2>2. CASE ~(x = e /\ d = t /\ looper' = Setting(e))
      <3>1. told'[x][d] = told[x][d]
        BY <2>2, <1>10, <1>16 DEF Setting, AfterEvent, Events
      <3>. QED
        BY <3>1 DEF PublishedOnce
    <2>. QED
      BY <2>1, <2>2
  <1>. QED
    BY <1>13, <1>14, <1>15, <1>18, <1>19

(* The date of the event is kept and sent.                                 *)
LEMMA SetDateKeeps ==
    ASSUME DayInv, NEW e \in Events, SetDate(e) PROVE DayInv'
  <1>. DEFINE t == Target(e)
  <1>. USE DEF DayInv
  <1>1. /\ looper = Setting(e) /\ looper # "none"
        /\ looper' = AfterEvent(e)
        /\ UNCHANGED <<now, main, day, stamp, saved, told, torn>>
    BY DEF SetDate, dataVars, eventVars, Setting
  <1>2. t \in Dates
    BY <1>1, TargetIsDate
  <1>3. /\ known' = [known EXCEPT ![e] = t]
        /\ unsent' = [unsent EXCEPT ![e] = TRUE]
    BY DEF SetDate
  <1>4. ~unsent[e]
    BY <1>1 DEF Buffered, Setting, Events
  <1>5. DatesRight'
    <2>1. known' \in [Events -> Dates \cup {MinDate, Empty}] /\ unsent' \in [Events -> BOOLEAN]
      BY <1>2, <1>3 DEF DatesRight
    <2>2. looper' \in Loopers \ {"none"}
      BY <1>1 DEF AfterEvent, Loopers
    <2>. QED
      BY <1>1, <2>1, <2>2 DEF DatesRight
  <1>6. \A x \in Events : x # e => known'[x] = known[x] /\ unsent'[x] = unsent[x]
    BY <1>3 DEF DatesRight
  <1>7. known'[e] = t /\ unsent'[e]
    BY <1>3 DEF DatesRight
  <1>8. Buffered'
    <2>1. \A x \in Events : unsent'[x] => known'[x] \in Dates
      BY <1>2, <1>6, <1>7 DEF Buffered
    <2>2. unsent'["before"] => looper' \in {"after", "set_after", "requeue"}
      BY <1>1, <1>6 DEF Buffered, AfterEvent, Setting, Events
    <2>3. unsent'["after"] => looper' = "requeue"
      BY <1>1, <1>6 DEF Buffered, AfterEvent, Setting, Events
    <2>. QED
      BY <2>1, <2>2, <2>3 DEF Buffered
  <1>9. saved[e] <= t
    <2>1. known[e] # Empty /\ saved[e] <= known[e] /\ known[e] < t
      BY <1>1 DEF Newer
    <2>2. saved[e] \in Int /\ known[e] \in Int /\ t \in Int
      BY <1>2 DEF DatesRight, Dates, MinDate, Empty
    <2>. QED
      BY <2>1, <2>2
  <1>10. Newer'
    <2>1. \A x \in Events : known'[x] # Empty => saved'[x] <= known'[x]
      BY <1>1, <1>6, <1>7, <1>9 DEF Newer
    <2>2. \A x \in Events : looper' # Setting(x)
      BY <1>1 DEF AfterEvent, Setting, Events
    <2>. QED
      BY <2>1, <2>2 DEF Newer, Setting
  <1>11. ASSUME NEW x \in Events, NEW d \in Dates, Lost(x, d) PROVE Lost(x, d)'
    <2>1. CASE x = e
      <3>1. d = t
        BY <1>4, <1>11, <2>1 DEF Lost
      <3>. QED
        BY <1>7, <2>1, <3>1 DEF Lost
    <2>2. CASE x # e
      BY <1>1, <1>6, <1>11, <2>2 DEF Lost, Setting, Events
    <2>. QED
      BY <2>1, <2>2
  <1>12. Accounted'
    BY <1>1, <1>11 DEF Accounted
  <1>13. PublishedOnce'
    BY <1>1 DEF PublishedOnce
  <1>. QED
    BY <1>5, <1>8, <1>10, <1>12, <1>13

(* The end of a run.                                                       *)
LEMMA RequeueKeeps ==
    ASSUME DayInv, Requeue PROVE DayInv'
  <1>. USE DEF DayInv
  <1>1. /\ looper = "requeue" /\ looper' = "idle" /\ Commit
        /\ UNCHANGED <<now, main, day, stamp, known, told, torn>>
    BY DEF Requeue, dataVars
  <1>2. \A x \in Events : /\ saved' \in [Events -> Dates \cup {MinDate}]
                          /\ unsent' = [y \in Events |-> FALSE]
                          /\ saved[x] <= saved'[x]
                          /\ unsent[x] => saved'[x] = known[x]
                          /\ ~unsent[x] => saved'[x] = saved[x]
    BY <1>1, CommitSaves
  <1>3. saved' \in [Events -> Dates \cup {MinDate}] /\ unsent' = [y \in Events |-> FALSE]
    BY <1>2 DEF Events
  <1>4. DatesRight'
    BY <1>1, <1>3 DEF DatesRight, Loopers
  <1>5. Buffered'
    BY <1>3 DEF Buffered, Events
  <1>6. Newer'
    <2>1. ASSUME NEW x \in Events, known[x] # Empty PROVE saved'[x] <= known[x]
      <3>1. saved[x] <= known[x] /\ known[x] \in Int
        BY <2>1 DEF Newer, DatesRight, Dates, MinDate, Empty
      <3>. QED
        BY <1>2, <3>1
    <2>. QED
      BY <1>1, <2>1 DEF Newer, Setting
  <1>7. Accounted'
    <2>. SUFFICES ASSUME NEW x \in Events, NEW d \in Dates, told[x][d] > torn[x][d]
                  PROVE  saved'[x] >= d
      BY <1>1 DEF Accounted
    <2>1. saved[x] >= d \/ (unsent[x] /\ d = known[x])
      BY <1>1 DEF Accounted, Lost, Setting, Events
    <2>2. d \in Int /\ saved[x] \in Int /\ saved'[x] \in Int
      BY <1>3 DEF DatesRight, Dates, MinDate
    <2>. QED
      BY <1>2, <2>1, <2>2
  <1>8. PublishedOnce'
    BY <1>1 DEF PublishedOnce
  <1>. QED
    BY <1>4, <1>5, <1>6, <1>7, <1>8

(* A crash forgets what was not committed, and it is noted.                *)
LEMMA CrashKeeps ==
    ASSUME DayInv, Crash PROVE DayInv'
  <1>. USE DEF DayInv
  <1>1. /\ looper' = "none" /\ main' = "down"
        /\ known' = [x \in Events |-> Empty]
        /\ unsent' = [x \in Events |-> FALSE]
        /\ UNCHANGED <<now, day, stamp, saved, told>>
    BY DEF Crash, Ends
  <1>2. torn' = [x \in Events |-> [d \in Dates |->
                    IF Lost(x, d) THEN torn[x][d] + 1 ELSE torn[x][d]]]
    BY DEF Crash
  <1>3. ASSUME NEW x \in Events, NEW d \in Dates
        PROVE  /\ torn[x][d] \in Nat /\ told[x][d] \in Nat
               /\ torn'[x][d] = IF Lost(x, d) THEN torn[x][d] + 1 ELSE torn[x][d]
    BY <1>2 DEF DatesRight
  <1>4. DatesRight'
    <2>1. torn' \in [Events -> [Dates -> Nat]]
      BY <1>2, <1>3
    <2>. QED
      BY <1>1, <2>1 DEF DatesRight, Loopers
  <1>5. Buffered'
    BY <1>1 DEF Buffered, Events
  <1>6. Newer'
    BY <1>1 DEF Newer, Setting
  <1>7. Accounted'
    <2>. SUFFICES ASSUME NEW x \in Events, NEW d \in Dates, told[x][d] > torn'[x][d]
                  PROVE  saved[x] >= d
      BY <1>1 DEF Accounted
    <2>1. told[x][d] <= 1 + torn[x][d]
      BY DEF PublishedOnce
    <2>2. ~Lost(x, d) /\ told[x][d] > torn[x][d]
      BY <1>3, <2>1
    <2>. QED
      BY <2>2 DEF Accounted
  <1>8. PublishedOnce'
    <2>. SUFFICES ASSUME NEW x \in Events, NEW d \in Dates
                  PROVE  told[x][d] <= 1 + torn'[x][d]
      BY <1>1 DEF PublishedOnce
    <2>1. told[x][d] <= 1 + torn[x][d]
      BY DEF PublishedOnce
    <2>. QED
      BY <1>3, <2>1
  <1>. QED
    BY <1>4, <1>5, <1>6, <1>7, <1>8

(* The looper begins.                                                      *)
LEMMA StartEventSourceKeeps ==
    ASSUME DayInv, StartEventSource PROVE DayInv'
  <1>. USE DEF DayInv
  <1>1. /\ main = "fetched" /\ looper = "none"
        /\ main' = "ready" /\ looper' = "idle"
        /\ UNCHANGED <<now, day, stamp, known, unsent, saved, told, torn>>
    BY DEF StartEventSource, eventVars, DatesRight
  <1>2. DatesRight'
    BY <1>1 DEF DatesRight, Loopers
  <1>3. ~unsent["before"] /\ ~unsent["after"]
    BY <1>1 DEF Buffered
  <1>4. Buffered'
    BY <1>1, <1>3 DEF Buffered, Events
  <1>5. Newer'
    BY <1>1 DEF Newer, Setting
  <1>6. ASSUME NEW e \in Events, NEW d \in Dates PROVE ~Lost(e, d)
    BY <1>1, <1>3 DEF Lost, Setting, Events
  <1>7. Accounted'
    BY <1>1, <1>6 DEF Accounted
  <1>8. PublishedOnce'
    BY <1>1 DEF PublishedOnce
  <1>. QED
    BY <1>2, <1>4, <1>5, <1>7, <1>8

(* connect(), whose failures end the process.                              *)
LEMMA ConnectKeeps ==
    ASSUME DayInv, CheckDate \/ CompareDate \/ FetchHeld \/ FetchEach \/ SaveRates \/ ReadRates
    PROVE  DayInv'
  <1>1. looper = "none" /\ day \in Dates /\ UNCHANGED <<now, day, stamp, eventVars>>
    BY DEF DayInv, DatesRight, CheckDate, CompareDate, FetchHeld, FetchEach, SaveRates, ReadRates,
           looperVars, bounds
  <1>2. CASE Ends
    BY <1>1, <1>2, EndsEarlyKeeps
  <1>3. CASE UNCHANGED looperVars
    BY <1>1, <1>3, OthersKeep DEF DayInv, DatesRight, looperVars, eventVars
  <1>4. Ends \/ UNCHANGED looperVars
    BY DEF CheckDate, CompareDate, FetchHeld, FetchEach, SaveRates, ReadRates, looperVars
  <1>. QED
    BY <1>2, <1>3, <1>4

(* Every step.                                                             *)
LEMMA NextKeeps == DayInv /\ [DayNext]_dayVars => DayInv'
  <1>. SUFFICES ASSUME DayInv, [DayNext]_dayVars PROVE DayInv'
    OBVIOUS
  <1>1. CASE Start
    BY <1>1, StartKeeps
  <1>2. CASE CheckDate \/ CompareDate \/ FetchHeld \/ FetchEach \/ SaveRates \/ ReadRates
    BY <1>2, ConnectKeeps
  <1>3. CASE StartEventSource
    BY <1>3, StartEventSourceKeeps
  <1>4. CASE TakeTask \/ SpuriousWake \/ RunTask
    BY <1>4, LooperKeeps DEF TakeTask, SpuriousWake, RunTask, dataVars, eventVars, DayInv, DatesRight
  <1>5. ASSUME NEW e \in Events, CheckAndPublish(e) PROVE DayInv'
    BY <1>5, PublishKeeps
  <1>6. ASSUME NEW e \in Events, SetDate(e) PROVE DayInv'
    BY <1>6, SetDateKeeps
  <1>7. CASE Requeue
    BY <1>7, RequeueKeeps
  <1>8. CASE Crash
    BY <1>8, CrashKeeps
  <1>9. CASE ExpireList \/ ExpireDate
    BY <1>9, OthersKeep DEF ExpireList, ExpireDate, DayInv, DatesRight, looperVars, eventVars
  <1>10. CASE TimePasses
    <2>1. now' \in 0..MaxNow
      BY <1>10, DayAssumption DEF TimePasses, DayInv, DatesRight
    <2>. QED
      BY <1>10, <2>1, OthersKeep DEF TimePasses, DayInv, DatesRight, dataVars, looperVars, eventVars
  <1>11. CASE UNCHANGED dayVars
    BY <1>11, OthersKeep DEF dayVars, DayInv, DatesRight
  <1>. QED
    BY <1>1, <1>2, <1>3, <1>4, <1>5, <1>6, <1>7, <1>8, <1>9, <1>10, <1>11 DEF DayNext

(* The invariant holds in every reachable state.                           *)
THEOREM DayInvariance == DaySpec => []DayInv
  BY Initially, NextKeeps, PTL DEF DaySpec

(* BEFORE_TRADING and AFTER_TRADING are published once for a date, but for *)
(* crashes before it is in redis (TradeEventSource::start).                *)
THEOREM OnceForADate == DaySpec => []PublishedOnce
  <1>1. DayInv => PublishedOnce
    BY DEF DayInv
  <1>. QED
    BY <1>1, DayInvariance, PTL
-----------------------------------------------------------------------------
(* The second invariant: the rows that are gathered, kept in redis and     *)
(* read back are CTP's answers of one trading day.                         *)
RateKeys == Instruments \cup Products \cup {"none"}
RateSet  == [key : RateKeys, day : Dates \cup {MinDate}]

(* A row under an instrument is its own rate; a row under a product is the *)
(* answer for one of its instruments that has none of its own.             *)
OfDay(m, d) ==
    /\ DOMAIN m \subseteq Instruments \cup Products
    /\ \A k \in DOMAIN m :
          /\ m[k] = [key |-> k, day |-> d]
          /\ k \in Instruments => k \in own
          /\ k \in Products => \E j \in Instruments \ own : ProductOf[j] = k

Covered(m, i) == i \in DOMAIN m \/ ProductOf[i] \in DOMAIN m
Complete(m)   == \A i \in Instruments \ none : Covered(m, i)
Right(i)      == ~Mixed(ProductOf[i]) => rates[i] = Rate(i, day)

(* What redis holds is of the day it is listed under, never of a later one *)
(* than the session's; the list goes first.                                *)
RedisRight ==
    /\ listed.day \in Dates \cup {MinDate} /\ listed.day <= day /\ day <= TradingDay(now)
    /\ list.until # MinDate => OfDay(list.rows, listed.day) /\ Complete(list.rows) /\ listed # Gone
    /\ list.until = MinDate => list.rows = NoMap
    /\ main = "read" => listed.day = day \/ listed = Gone

Gathered ==
    /\ todo \subseteq Instruments
    /\ rates \in [Instruments -> RateSet]
    /\ main = "each" =>
          /\ OfDay(seen, day)
          /\ \A i \in Instruments \ todo : i \notin none => Covered(seen, i) /\ Right(i)

RInv == RedisRight /\ Gathered /\ RatesRight

(* The trading day of a later time is not an earlier one.                  *)
LEMMA TradingDayLater ==
    ASSUME MaxNow \in Nat, NEW t \in 0..MaxNow
    PROVE  TradingDay(t) <= TradingDay(t + 1)
  <1>1. /\ t % Parts \in 0..3 /\ t \div Parts \in Nat
        /\ (t + 1) \div Parts >= t \div Parts
        /\ t % Parts = 3 => (t + 1) \div Parts = t \div Parts + 1
    BY DEF Parts
  <1> QED
    BY <1>1 DEF TradingDay, Date, Parts

(* The answers to one query.                                               *)
LEMMA RowsOfDay ==
    ASSUME NEW s \in SUBSET Instruments, NEW d
    PROVE  OfDay(RateRows(s, d), d) /\ \A i \in s : Covered(RateRows(s, d), i)
  <1> DEFINE keys == {Rate(i, d).key : i \in s}
             key(i) == IF i \in own THEN i ELSE ProductOf[i]
  <1>1. \A i \in s : Rate(i, d).key = key(i)
    BY DEF Rate
  <1>2. keys = {key(i) : i \in s}
    BY <1>1
  <1>3. RateRows(s, d) = [k \in keys |-> [key |-> k, day |-> d]]
    BY DEF RateRows
  <1>4. \A i \in s : ProductOf[i] \in Products /\ ProductOf[i] \notin Instruments /\ i \notin Products
    BY DayAssumption
  <1> HIDE DEF keys
  <1>5. ASSUME NEW k \in keys
        PROVE  /\ k \in Instruments \cup Products
               /\ k \in Instruments => k \in own
               /\ k \in Products => \E j \in Instruments \ own : ProductOf[j] = k
    <2>1. PICK i \in s : k = key(i)
      BY <1>2
    <2> QED
      BY <2>1, <1>4
  <1>6. \A i \in s : Covered(RateRows(s, d), i)
    BY <1>2, <1>3 DEF Covered
  <1> QED
    BY <1>3, <1>5, <1>6 DEF OfDay

(* The rows of a query are added to those that are there.                  *)
LEMMA MoreRows ==
    ASSUME NEW m, NEW n, NEW d, OfDay(m, d), OfDay(n, d)
    PROVE  OfDay(Added(m, n), d) /\ \A i \in Instruments : Covered(m, i) \/ Covered(n, i) => Covered(Added(m, n), i)
  <1>1. /\ DOMAIN Added(m, n) = DOMAIN m \cup DOMAIN n
        /\ \A k \in DOMAIN Added(m, n) : Added(m, n)[k] = IF k \in DOMAIN m THEN m[k] ELSE n[k]
    BY DEF Added
  <1>2. OfDay(Added(m, n), d)
    BY <1>1 DEF OfDay
  <1> QED
    BY <1>1, <1>2 DEF Covered

(* The rate of an instrument's product, once known, is the instrument's    *)
(* own answer unless the product has rates of both kinds.                  *)
LEMMA ProductsRate ==
    ASSUME NEW m, NEW d, OfDay(m, d), NEW i \in Instruments, ProductOf[i] \in DOMAIN m
    PROVE  ~Mixed(ProductOf[i]) => m[ProductOf[i]] = Rate(i, d)
  <1>1. ProductOf[i] \in Products
    BY DayAssumption
  <1>2. PICK j \in Instruments \ own : ProductOf[j] = ProductOf[i]
    BY <1>1 DEF OfDay
  <1>3. ~Mixed(ProductOf[i]) => i \notin own
    BY <1>2 DEF Mixed
  <1> QED
    BY <1>3 DEF OfDay, Rate

(* What a map of a day's rates holds for an instrument is its rate of      *)
(* that day.                                                               *)
LEMMA OwnRate ==
    ASSUME NEW m, NEW d, OfDay(m, d), NEW i \in Instruments, i \in DOMAIN m
    PROVE  m[i] = Rate(i, d)
  BY DEF OfDay, Rate

(* A map of a day's rates holds rates.                                     *)
LEMMA RatesAreRates ==
    ASSUME NEW d \in Dates \cup {MinDate}
    PROVE  /\ \A i \in Instruments : Rate(i, d) \in RateSet
           /\ \A m : OfDay(m, d) => \A k \in DOMAIN m : m[k] \in RateSet
  BY DayAssumption DEF Rate, RateSet, RateKeys, OfDay

(* No rates are kept at first.                                             *)
LEMMA InitRInv == DayInit => RInv
  <1> SUFFICES ASSUME DayInit PROVE RInv
    OBVIOUS
  <1>1. RedisRight
    <2>1. TradingDay(0) \in Nat
      BY DEF TradingDay, Date, Parts
    <2> QED
      BY <2>1 DEF DayInit, RedisRight, Gone, MinDate
  <1>2. Gathered
    BY DEF DayInit, Gathered, RateSet, RateKeys, NoRate, MinDate
  <1>3. RatesRight
    BY DEF DayInit, RatesRight
  <1> QED
    BY <1>1, <1>2, <1>3 DEF RInv

(* Steps that leave the rates and their days alone.                        *)
LEMMA RatesFrame ==
    ASSUME RInv, UNCHANGED <<own, none, todo, seen, day, rates, fail, list, listed>>,
           UNCHANGED now \/ TradingDay(now) <= TradingDay(now'),
           now \in 0..MaxNow, now' \in 0..MaxNow, day \in Dates \cup {MinDate},
           main' = main \/ (main' = "ready" /\ main = "fetched") \/ (main' = "date" /\ main = "check")
               \/ (main' = "fetch" /\ main = "check")
    PROVE  RInv'
  <1>1. TradingDay(now) \in Nat /\ TradingDay(now') \in Nat /\ day \in Nat
    BY DayAssumption, TradingDayIsDate DEF Dates, MinDate
  <1>2. RedisRight'
    BY <1>1 DEF RInv, RedisRight, OfDay, Complete, Covered
  <1>3. /\ \A i \in Instruments : Right(i)' <=> Right(i)
        /\ \A p : Mixed(p)' <=> Mixed(p)
        /\ \A i \in Instruments : Rate(i, day)' = Rate(i, day)
        /\ OfDay(seen, day)' <=> OfDay(seen, day)
    BY DEF Right, Mixed, Rate, OfDay
  <1>4. Gathered'
    BY <1>3 DEF RInv, Gathered, Covered
  <1>5. RatesRight'
    BY <1>3 DEF RInv, RatesRight
  <1> QED
    BY <1>2, <1>4, <1>5 DEF RInv

(* The end of the process, with its reason.                                *)
LEMMA EndsRates ==
    ASSUME DayInv, RInv, Ends, UNCHANGED <<now, own, none, day, list, listed>>,
           fail' = "no_rate" => none # {}
    PROVE  RInv'
  <1>1. main' = "down" /\ todo' = {} /\ rates' = [i \in Instruments |-> NoRate]
    BY DEF Ends
  <1>2. RedisRight'
    BY <1>1 DEF RInv, RedisRight, OfDay, Complete, Covered
  <1>3. Gathered'
    BY <1>1 DEF Gathered, RateSet, RateKeys, NoRate
  <1>4. RatesRight'
    BY <1>1 DEF RatesRight
  <1> QED
    BY <1>2, <1>3, <1>4 DEF RInv

(* A start learns the trading day at its log-in.                           *)
LEMMA StartRates ==
    ASSUME DayInv, RInv, Start PROVE RInv'
  <1>1. /\ UNCHANGED <<now, own, none, todo, rates, list, listed>>
        /\ main' = "check" /\ day' = TradingDay(now) /\ fail' = "no"
    BY DEF Start
  <1>2. TradingDay(now) \in Dates /\ now \in 0..MaxNow /\ day \in Dates \cup {MinDate}
    BY DayAssumption, TradingDayIsDate DEF DayInv, DatesRight
  <1>3. listed'.day <= day' /\ day' <= TradingDay(now)'
    <2>1. \A d \in Dates \cup {MinDate} : d \in Int
      BY DayAssumption DEF Dates, MinDate
    <2> QED
      BY <1>1, <1>2, <2>1 DEF RInv, RedisRight
  <1>4. RedisRight'
    BY <1>1, <1>3 DEF RInv, RedisRight, OfDay, Complete, Covered
  <1>5. Gathered'
    BY <1>1 DEF RInv, Gathered
  <1>6. RatesRight'
    BY <1>1 DEF RatesRight
  <1> QED
    BY <1>4, <1>5, <1>6 DEF RInv

(* A date that is listed and not older than the session's is the session's.*)
LEMMA CompareRates ==
    ASSUME DayInv, RInv, CompareDate, listed # Gone PROVE RInv'
  <1>1. /\ UNCHANGED <<now, own, none, day, list, listed, todo, seen, rates, fail>>
        /\ main' = IF listed.day < day THEN "fetch" ELSE "read"
    BY DEF CompareDate, Outdated
  <1>2. main' = "read" => listed.day = day
    <2>1. day \in Int /\ listed.day \in Int /\ listed.day <= day
      BY DayAssumption DEF DayInv, DatesRight, RInv, RedisRight, Dates, MinDate
    <2> QED
      BY <1>1, <2>1
  <1>3. RedisRight'
    BY <1>1, <1>2 DEF RInv, RedisRight, OfDay, Complete, Covered
  <1>4. Gathered'
    BY <1>1 DEF RInv, Gathered
  <1>5. RatesRight'
    BY <1>1 DEF RInv, RatesRight
  <1> QED
    BY <1>3, <1>4, <1>5 DEF RInv

(* The rates of the instruments that are held are fetched first.           *)
LEMMA FetchHeldRates ==
    ASSUME DayInv, RInv, FetchHeld PROVE RInv'
  <1>1. /\ UNCHANGED <<now, own, none, day, list, listed, rates, fail>>
        /\ main' = "each" /\ todo' = Instruments
    BY DEF FetchHeld
  <1>2. OfDay(seen', day)
    BY RowsOfDay DEF FetchHeld
  <1>3. OfDay(seen, day)'
    BY <1>1, <1>2 DEF OfDay
  <1>4. RedisRight'
    BY <1>1 DEF RInv, RedisRight, OfDay, Complete, Covered
  <1>5. Gathered'
    BY <1>1, <1>3 DEF RInv, Gathered
  <1>6. RatesRight'
    BY <1>1 DEF RInv, RatesRight
  <1> QED
    BY <1>4, <1>5, <1>6 DEF RInv

(* An instrument is charged the rate known for its product or the one CTP  *)
(* answers with.                                                           *)
LEMMA FetchEachRates ==
    ASSUME DayInv, RInv, FetchEach PROVE RInv'
  <1>1. /\ UNCHANGED <<now, own, none, day, list, listed, main, fail>> /\ main = "each"
    BY DEF FetchEach
  <1>2. PICK i \in todo :
          /\ todo' = todo \ {i}
          /\ IF ProductOf[i] \in DOMAIN seen /\ i \notin Universe
             THEN rates' = Charged(i, seen[ProductOf[i]]) /\ UNCHANGED seen
             ELSE /\ rates' = IF i \in none THEN rates ELSE Charged(i, Rate(i, day))
                  /\ seen' = Added(RateRows({i} \ none, day), seen)
    BY DEF FetchEach
  <1>3. /\ i \in Instruments /\ OfDay(seen, day) /\ rates \in [Instruments -> RateSet]
        /\ day \in Dates \cup {MinDate}
    BY <1>1 DEF RInv, Gathered, DayInv, DatesRight
  <1>4. /\ \A j \in Instruments : j # i => rates'[j] = rates[j]
        /\ rates' \in [Instruments -> RateSet]
        /\ i \notin none /\ ~Mixed(ProductOf[i]) => rates'[i] = Rate(i, day)
        /\ OfDay(seen', day)
        /\ \A j \in Instruments : Covered(seen, j) => Covered(seen', j)
        /\ i \notin none => Covered(seen', i)
    <2>1. CASE ProductOf[i] \in DOMAIN seen
      <3>1. rates' = [rates EXCEPT ![i] = seen[ProductOf[i]]] /\ seen' = seen
        BY <1>2, <2>1 DEF Universe, Charged
      <3>2. seen[ProductOf[i]] \in RateSet
        BY <1>3, <2>1, RatesAreRates
      <3> QED
        BY <1>3, <2>1, <3>1, <3>2, ProductsRate DEF Covered
    <2>2. CASE ProductOf[i] \notin DOMAIN seen
      <3>1. /\ rates' = IF i \in none THEN rates ELSE [rates EXCEPT ![i] = Rate(i, day)]
            /\ seen' = Added(RateRows({i} \ none, day), seen)
        BY <1>2, <2>2 DEF Universe, Charged
      <3>2. Rate(i, day) \in RateSet
        BY <1>3, RatesAreRates
      <3>3. OfDay(RateRows({i} \ none, day), day) /\ (i \notin none => Covered(RateRows({i} \ none, day), i))
        BY <1>3, RowsOfDay
      <3>4. OfDay(seen', day) /\ \A j \in Instruments : Covered(seen, j) => Covered(seen', j)
        BY <1>3, <3>1, <3>3, MoreRows
      <3>5. i \notin none => Covered(seen', i)
        BY <1>3, <3>1, <3>3, MoreRows
      <3> QED
        BY <1>3, <3>1, <3>2, <3>4, <3>5
    <2> QED
      BY <2>1, <2>2
  <1>5. RedisRight'
    BY <1>1 DEF RInv, RedisRight, OfDay, Complete, Covered
  <1>6. Gathered'
    <2>1. \A p : Mixed(p)' <=> Mixed(p)
      BY <1>1 DEF Mixed
    <2>2. \A j \in Instruments : Rate(j, day)' = Rate(j, day)
      BY <1>1 DEF Rate
    <2>3. OfDay(seen, day)'
      BY <1>1, <1>4 DEF OfDay
    <2>4. ASSUME NEW j \in Instruments, j \notin todo', j \notin none
          PROVE  Covered(seen, j)' /\ Right(j)'
      <3>1. CASE j = i
        BY <1>4, <2>1, <2>2, <2>4, <3>1 DEF Right, Covered
      <3>2. CASE j # i
        <4>1. Covered(seen, j) /\ Right(j)
          BY <1>1, <1>2, <2>4, <3>2 DEF RInv, Gathered
        <4> QED
          BY <1>4, <2>1, <2>2, <3>2, <4>1 DEF Right, Covered
      <3> QED
        BY <3>1, <3>2
    <2> QED
      BY <1>1, <1>2, <1>4, <2>3, <2>4 DEF RInv, Gathered
  <1>7. RatesRight'
    BY <1>1 DEF RInv, RatesRight
  <1> QED
    BY <1>5, <1>6, <1>7 DEF RInv

(* What is saved is of the session's day and complete.                     *)
LEMMA SaveRatesRates ==
    ASSUME DayInv, RInv, SaveRates PROVE RInv'
  <1>1. /\ UNCHANGED <<now, own, none, day, todo, rates, fail>>
        /\ main = "each" /\ todo = {} /\ main' = "fetched"
        /\ list' = [rows |-> seen, until |-> now + Parts]
        /\ listed' = [day |-> day, until |-> now + Parts]
    BY DEF SaveRates, AddCommissions, SetCommissionDate
  <1>2. OfDay(seen, day) /\ \A i \in Instruments : i \notin none => Covered(seen, i) /\ Right(i)
    BY <1>1 DEF RInv, Gathered
  <1>3. /\ list'.rows = seen /\ listed'.day = day /\ list'.until = now + Parts
        /\ listed'.until = now + Parts
    BY <1>1
  <1>4. now + Parts # MinDate /\ listed' # Gone /\ day \in Dates
    BY <1>1, <1>3, DayAssumption DEF DayInv, DatesRight, Parts, MinDate, Gone
  <1>5. RedisRight'
    <2>1. day <= day
      BY <1>4 DEF Dates
    <2> QED
      BY <1>1, <1>2, <1>3, <1>4, <2>1 DEF RInv, RedisRight, OfDay, Complete, Covered
  <1>6. Gathered'
    BY <1>1 DEF RInv, Gathered
  <1>7. RatesRight'
    BY <1>1, <1>2 DEF RInv, RatesRight, Right, Mixed, Rate
  <1> QED
    BY <1>5, <1>6, <1>7 DEF RInv

(* The rows read are those of the session's day; one is missing only when  *)
(* the list has expired or CTP has none.                                   *)
LEMMA ReadRatesRates ==
    ASSUME DayInv, RInv, ReadRates PROVE RInv'
  <1> DEFINE rows == list.rows
  <1>1. /\ UNCHANGED <<now, own, none, day, list, listed>> /\ main = "read"
    BY DEF ReadRates
  <1>2. day \in Dates
    BY <1>1 DEF DayInv, DatesRight
  <1>3. list.until # MinDate => OfDay(rows, day) /\ Complete(rows)
    BY <1>1 DEF RInv, RedisRight
  <1>4. CASE \A i \in Instruments : {i, ProductOf[i]} \cap DOMAIN rows # {}
    <2>1. /\ rates' = [i \in Instruments |->
                          rows[IF i \in DOMAIN rows THEN i ELSE ProductOf[i]]]
          /\ main' = "fetched" /\ UNCHANGED <<todo, fail>>
      BY <1>4 DEF ReadRates, GetCommissions
    <2>2. OfDay(rows, day) \/ Instruments = {}
      <3>1. CASE list.until = MinDate
        <4>1. DOMAIN rows = {}
          BY <3>1 DEF RInv, RedisRight, NoMap
        <4> QED
          BY <1>4, <4>1
      <3> QED
        BY <1>3, <3>1
    <2>3. ASSUME NEW i \in Instruments
          PROVE  rates'[i] \in RateSet /\ (~Mixed(ProductOf[i]) => rates'[i] = Rate(i, day))
      <3>1. OfDay(rows, day)
        BY <2>2, <2>3
      <3>2. CASE i \in DOMAIN rows
        <4>1. rates'[i] = rows[i]
          BY <2>1, <3>2
        <4> QED
          BY <1>2, <3>1, <3>2, <4>1, OwnRate, RatesAreRates
      <3>3. CASE i \notin DOMAIN rows
        <4>1. rates'[i] = rows[ProductOf[i]] /\ ProductOf[i] \in DOMAIN rows
          BY <1>4, <2>1, <3>3
        <4> QED
          BY <1>2, <3>1, <4>1, ProductsRate, RatesAreRates
      <3> QED
        BY <3>2, <3>3
    <2>4. Gathered'
      BY <2>1, <2>3 DEF RInv, Gathered
    <2>5. RatesRight'
      BY <1>1, <2>1, <2>3 DEF RInv, RatesRight, Mixed, Rate
    <2>6. RedisRight'
      BY <1>1, <2>1 DEF RInv, RedisRight, OfDay, Complete, Covered
    <2> QED
      BY <2>4, <2>5, <2>6 DEF RInv
  <1>5. CASE ~\A i \in Instruments : {i, ProductOf[i]} \cap DOMAIN rows # {}
    <2>1. Ends /\ fail' = IF list.until = MinDate THEN "expired" ELSE "no_rate"
      BY <1>5 DEF ReadRates, GetCommissions
    <2>2. list.until # MinDate => none # {}
      BY <1>3, <1>5 DEF Complete, Covered
    <2> QED
      BY <1>1, <2>1, <2>2, EndsRates
  <1> QED
    BY <1>4, <1>5

(* redis drops the list, then the date.                                    *)
LEMMA ExpireRates ==
    ASSUME DayInv, RInv, ExpireList \/ ExpireDate PROVE RInv'
  <1>1. UNCHANGED <<now, own, none, main, todo, seen, day, rates, fail>>
    BY DEF ExpireList, ExpireDate
  <1>2. RedisRight'
    <2>1. CASE ExpireList
      BY <1>1, <2>1 DEF ExpireList, RInv, RedisRight
    <2>2. CASE ExpireDate
      <3>1. listed' = Gone /\ list.until = MinDate /\ list' = list /\ Gone.day = MinDate
        BY <2>2 DEF ExpireDate, Gone
      <3>2. MinDate <= day
        BY DayAssumption DEF DayInv, DatesRight, Dates, MinDate
      <3> QED
        BY <1>1, <3>1, <3>2 DEF RInv, RedisRight
    <2> QED
      BY <2>1, <2>2
  <1>3. Gathered'
    BY <1>1 DEF RInv, Gathered, OfDay, Covered, Right, Mixed, Rate
  <1>4. RatesRight'
    BY <1>1 DEF RInv, RatesRight, Mixed, Rate
  <1> QED
    BY <1>2, <1>3, <1>4 DEF RInv

(* Every step keeps the second invariant.                                  *)
LEMMA NextRInv ==
    ASSUME DayInv, RInv, [DayNext]_dayVars PROVE RInv'
  <1>1. /\ now \in 0..MaxNow /\ day \in Dates \cup {MinDate} /\ DayInv'
    BY NextKeeps DEF DayInv, DatesRight
  <1>2. now' \in 0..MaxNow
    BY <1>1 DEF DayInv, DatesRight
  <1>3. CASE Start
    BY <1>3, StartRates
  <1>4. CASE CheckDate
    BY <1>1, <1>2, <1>4, RatesFrame DEF CheckDate
  <1>5. CASE CompareDate
    <2>1. CASE listed = Gone
      <3>1. Ends /\ fail' = "expired" /\ UNCHANGED <<now, own, none, day, list, listed>>
        BY <1>5, <2>1 DEF CompareDate, bounds
      <3> QED
        BY <3>1, EndsRates
    <2> QED
      BY <1>5, <2>1, CompareRates
  <1>6. CASE FetchHeld
    BY <1>6, FetchHeldRates
  <1>7. CASE FetchEach
    BY <1>7, FetchEachRates
  <1>8. CASE SaveRates
    BY <1>8, SaveRatesRates
  <1>9. CASE ReadRates
    BY <1>9, ReadRatesRates
  <1>10. CASE StartEventSource
    BY <1>1, <1>2, <1>10, RatesFrame DEF StartEventSource
  <1>11. CASE \/ TakeTask \/ SpuriousWake \/ RunTask \/ Requeue \/ UNCHANGED dayVars
              \/ \E e \in Events : CheckAndPublish(e) \/ SetDate(e)
    <2>1. UNCHANGED <<now, dataVars>>
      BY <1>11 DEF TakeTask, SpuriousWake, RunTask, CheckAndPublish, SetDate, Requeue, dayVars, dataVars
    <2> QED
      BY <1>1, <1>2, <2>1, RatesFrame DEF dataVars
  <1>12. CASE Crash
    <2>1. Ends /\ UNCHANGED <<now, own, none, day, list, listed, fail>> /\ main # "down"
      BY <1>12 DEF Crash
    <2> QED
      BY <2>1, EndsRates DEF RInv, RatesRight
  <1>13. CASE ExpireList \/ ExpireDate
    BY <1>13, ExpireRates
  <1>14. CASE TimePasses
    <2>1. now' = now + 1 /\ UNCHANGED dataVars
      BY <1>14 DEF TimePasses
    <2>2. TradingDay(now) <= TradingDay(now')
      BY <1>1, <2>1, DayAssumption, TradingDayLater
    <2> QED
      BY <1>1, <1>2, <2>1, <2>2, RatesFrame DEF dataVars
  <1> QED
    BY <1>3, <1>4, <1>5, <1>6, <1>7, <1>8, <1>9, <1>10, <1>11, <1>12, <1>13, <1>14 DEF DayNext

(* What redis keeps of one start serves a later one of the same trading    *)
(* day, and no other: rows and date are of one day, the rows are complete  *)
(* while they are there, and a date that is not older than the session's   *)
(* is the session's.                                                       *)
THEOREM RatesInvariance == DaySpec => []RInv
  <1>1. DayInit => DayInv /\ RInv
    BY Initially, InitRInv
  <1>2. DayInv /\ RInv /\ [DayNext]_dayVars => DayInv' /\ RInv'
    BY NextKeeps, NextRInv
  <1> QED
    BY <1>1, <1>2, PTL DEF DaySpec

(* A start that succeeds charges each instrument CTP's rate of the trading *)
(* day, whatever earlier starts left in redis (FutureInfoService).         *)
THEOREM RatesAreRight == DaySpec => []RatesRight
  <1>1. RInv => RatesRight
    BY DEF RInv
  <1> QED
    BY <1>1, RatesInvariance, PTL
-----------------------------------------------------------------------------
(* The third invariant: every run is due one period after the one before,  *)
(* and what the runs that are over had to publish was published.           *)
Tasks  == [start : Int, delay : Int]
Due(t) == t.start + t.delay

(* The run that must publish AFTER_TRADING of d, if the process is up in   *)
(* time: the one due at the settlement time of d.                          *)
SettlementOf(d) == (d - 1) * Parts + 1

(* A task keeps the time it is due, however often the looper takes it and  *)
(* puts it back.                                                           *)
DueInTurn ==
    /\ task \in Tasks /\ tasks \subseteq Tasks /\ since \in Nat
    /\ stamp <= now
    /\ looper = "none" => tasks = {}
    /\ main = "ready" => looper # "none" /\ DueTasks # {}
    /\ \A t \in DueTasks :
          /\ since <= Due(t) /\ now <= Due(t) + MaxLag
          /\ \A d \in Dates : since <= SettlementOf(d) /\ SettlementOf(d) < Due(t)
                => told["after"][d] >= 1
          /\ since < Due(t) => told["before"][day] >= 1

InRun == looper \in Loopers \ {"none", "idle", "waiting"}

(* What the run under way has done so far.                                 *)
RunDone ==
    /\ InRun => Due(task) <= stamp
    /\ InRun /\ looper # "before" => told["before"][day] >= 1
    /\ looper = "set_after" => told["after"][Date(stamp)] >= 1
    /\ looper \in {"set_after", "requeue"} =>
          \A d \in Dates : Due(task) = SettlementOf(d) => told["after"][d] >= 1

(* A date that is kept was published, and is not ahead of time.            *)
KeptWasTold ==
    \A e \in Events :
        /\ saved[e] \in Dates => told[e][saved[e]] >= 1
        /\ known[e] \in Dates => told[e][known[e]] >= 1
        /\ saved[e] <= IF e = "before" THEN day ELSE Date(stamp)
        /\ known[e] <= IF e = "before" THEN day ELSE Date(stamp)

TInv == DueInTurn /\ RunDone /\ KeptWasTold

(* Nothing is due at first.                                                *)
LEMMA InitTInv == DayInit => TInv
  <1> SUFFICES ASSUME DayInit PROVE TInv
    OBVIOUS
  <1>1. DueInTurn
    BY DEF DayInit, DueInTurn, DueTasks, Tasks
  <1>2. RunDone
    BY DEF DayInit, RunDone, InRun
  <1>3. KeptWasTold
    <2>1. Date(0) \in Nat
      BY DEF Date, Parts
    <2> QED
      BY <2>1, DayAssumption DEF DayInit, KeptWasTold, Dates, MinDate, Empty
  <1> QED
    BY <1>1, <1>2, <1>3 DEF TInv

(* The dates as numbers, for comparisons.                                  *)
LEMMA DatesAreNumbers ==
    ASSUME DayInv
    PROVE  /\ \A d \in Dates : d \in Nat \ {0}
           /\ day \in Int /\ Date(stamp) \in Dates /\ stamp \in Nat /\ now \in Nat
           /\ \A e \in Events : known[e] \in Int /\ saved[e] \in Int
           /\ \A e \in Events : \A d \in Dates : told[e][d] \in Nat
           /\ MaxLag \in Nat
  <1> USE DayAssumption
  <1>1. \A d \in Dates \cup {MinDate, Empty} : d \in Int
    BY DEF Dates, MinDate, Empty
  <1>2. Date(stamp) \in Dates
    BY TradingDayIsDate DEF DayInv, DatesRight
  <1>3. \A d \in Dates : d \in Nat \ {0}
    BY DEF Dates
  <1>4. \A e \in Events : known[e] \in Int /\ saved[e] \in Int
    BY <1>1 DEF DayInv, DatesRight
  <1>5. \A e \in Events : \A d \in Dates : told[e][d] \in Nat
    BY DEF DayInv, DatesRight
  <1> QED
    BY <1>1, <1>2, <1>3, <1>4, <1>5 DEF DayInv, DatesRight

(* The date of a later time is not an earlier one.                         *)
LEMMA DateLater ==
    ASSUME NEW s \in Nat, NEW t \in Nat, s <= t
    PROVE  Date(s) <= Date(t)
  <1>1. s \div 4 <= t \div 4 /\ s \div 4 \in Nat /\ t \div 4 \in Nat
    OBVIOUS
  <1> QED
    BY <1>1 DEF Date, Parts

(* A run that starts less than three parts of a day after the settlement   *)
(* time of d starts on d, after settlement.                                *)
LEMMA InSettlement ==
    ASSUME NEW d \in Nat \ {0}, NEW t \in Nat, SettlementOf(d) <= t, t <= SettlementOf(d) + 2
    PROVE  Date(t) = d /\ Settled(t)
  <1>1. 4 * (d - 1) + 1 <= t /\ t <= 4 * (d - 1) + 3
    BY DEF SettlementOf, Parts
  <1>2. t \div 4 = d - 1 /\ t % 4 >= 1
    BY <1>1
  <1> QED
    BY <1>2 DEF Date, Settled, Parts

(* Without a looper nothing is due and nothing is told; what redis has     *)
(* does not change.                                                        *)
LEMMA NoLooperTold ==
    ASSUME DayInv, DayInv', TInv, UNCHANGED <<now, task, stamp, since, saved, told>>,
           looper' = "none", tasks' = {}, main' # "ready",
           known' = known \/ known' = [e \in Events |-> Empty], day <= day'
    PROVE  TInv'
  <1>1. DueInTurn'
    BY DEF TInv, DueInTurn, DueTasks
  <1>2. RunDone'
    BY DEF RunDone, InRun
  <1>3. KeptWasTold'
    <2>1. Date(stamp)' = Date(stamp)
      BY DEF Date
    <2>2. \A e \in Events : known'[e] = known[e] \/ known'[e] = Empty
      OBVIOUS
    <2>3. Empty \notin Dates /\ \A d \in Dates \cup {MinDate} : Empty <= d
      BY DayAssumption DEF Empty, Dates, MinDate
    <2>4. day' \in Dates \cup {MinDate} /\ Date(stamp) \in Dates
      BY DatesAreNumbers DEF DayInv, DatesRight
    <2>5. /\ day \in Int /\ day' \in Int
          /\ \A e \in Events : known[e] \in Int /\ saved[e] \in Int
      BY <2>4, DatesAreNumbers, DayAssumption DEF Dates, MinDate
    <2> QED
      BY <2>1, <2>2, <2>3, <2>4, <2>5 DEF TInv, KeptWasTold
  <1> QED
    BY <1>1, <1>2, <1>3 DEF TInv

(* The steps of connect, and a crash.                                      *)
LEMMA ConnectTold ==
    ASSUME DayInv, DayInv', RInv, TInv,
           \/ Start \/ CheckDate \/ CompareDate \/ FetchHeld \/ FetchEach \/ SaveRates \/ ReadRates
           \/ Crash
    PROVE  TInv'
  <1>1. /\ UNCHANGED <<now, task, stamp, since, saved, told>>
        /\ main' # "ready"
        /\ main # "ready" \/ Ends
    BY DEF Start, CheckDate, CompareDate, FetchHeld, FetchEach, SaveRates, ReadRates, Crash,
       looperVars, eventVars, bounds, Ends
  <1>2. Ends \/ UNCHANGED looperVars
    BY DEF Start, CheckDate, CompareDate, FetchHeld, FetchEach, SaveRates, ReadRates, Crash,
       looperVars
  <1>3. looper' = "none" /\ tasks' = {} /\ (known' = known \/ known' = [e \in Events |-> Empty])
    <2>1. CASE Ends
      BY <2>1 DEF Ends
    <2>2. CASE UNCHANGED looperVars /\ main # "ready"
      BY <2>2 DEF looperVars, DayInv, DatesRight, TInv, DueInTurn
    <2> QED
      BY <1>1, <1>2, <2>1, <2>2
  <1>4. day <= day'
    <2>1. day' = day \/ day' = TradingDay(now)
      BY DEF Start, CheckDate, CompareDate, FetchHeld, FetchEach, SaveRates, ReadRates, Crash
    <2>2. day <= TradingDay(now) /\ day \in Int
      BY DatesAreNumbers DEF RInv, RedisRight
    <2> QED
      BY <2>1, <2>2
  <1> QED
    BY <1>1, <1>3, <1>4, NoLooperTold

(* The looper starts, with one task.                                       *)
LEMMA StartEventSourceTold ==
    ASSUME DayInv, TInv, StartEventSource PROVE TInv'
  <1>1. /\ UNCHANGED <<now, day, task, stamp, known, saved, told>>
        /\ looper' = "idle" /\ since' = now /\ tasks' = {[start |-> now, delay |-> 0]}
    BY DEF StartEventSource, Scheduled, TimerTask, eventVars
  <1>2. now \in Nat /\ MaxLag \in Nat
    BY DatesAreNumbers
  <1>3. DueInTurn'
    <2>1. DueTasks' = {[start |-> now, delay |-> 0]}
      BY <1>1 DEF DueTasks
    <2>2. Due([start |-> now, delay |-> 0]) = now /\ [start |-> now, delay |-> 0] \in Tasks
      BY <1>2 DEF Due, Tasks
    <2>3. \A d \in Dates : ~(now <= SettlementOf(d) /\ SettlementOf(d) < now)
      BY <1>2, DatesAreNumbers DEF SettlementOf, Parts
    <2>4. \A t \in DueTasks' : t \in Tasks /\ Due(t) = now
      BY <2>1, <2>2
    <2> HIDE DEF DueTasks
    <2> QED
      BY <1>1, <1>2, <2>1, <2>2, <2>3, <2>4 DEF TInv, DueInTurn, Due
  <1>4. RunDone'
    BY <1>1 DEF RunDone, InRun
  <1>5. KeptWasTold'
    BY <1>1 DEF TInv, KeptWasTold, Date
  <1> QED
    BY <1>3, <1>4, <1>5 DEF TInv

(* The looper takes a task or puts it back: it is due when it was.         *)
LEMMA LooperTold ==
    ASSUME DayInv, TInv, TakeTask \/ SpuriousWake PROVE TInv'
  <1>1. UNCHANGED <<now, main, day, stamp, known, saved, told, since>>
    BY DEF TakeTask, SpuriousWake, dataVars, eventVars, bounds
  <1>2. now \in Nat
    BY DatesAreNumbers
  <1>3. ASSUME NEW t \in Tasks PROVE Left(t) \in Tasks /\ Due(Left(t)) = Due(t)
    BY <1>2 DEF Left, TimerTask, Due, Tasks
  <1>4. /\ task' \in Tasks /\ tasks' \subseteq Tasks
        /\ \A t \in DueTasks' : \E u \in DueTasks : Due(t) = Due(u)
        /\ DueTasks' # {} /\ looper' \in {"idle", "waiting"}
    <2>1. CASE TakeTask
      <3>1. PICK t \in tasks : task' = Left(t) /\ tasks' = tasks \ {t}
        BY <2>1 DEF TakeTask
      <3>2. t \in Tasks /\ tasks \subseteq Tasks
        BY DEF TInv, DueInTurn
      <3>3. DueTasks = tasks /\ DueTasks' = tasks' \cup {task'} /\ looper' = "waiting"
        BY <2>1 DEF TakeTask, DueTasks
      <3> QED
        BY <1>3, <3>1, <3>2, <3>3
    <2>2. CASE SpuriousWake
      <3>1. tasks' = tasks \cup {Left(task)} /\ task' = task /\ looper' = "idle"
        BY <2>2 DEF SpuriousWake, PushedBack
      <3>2. task \in Tasks /\ tasks \subseteq Tasks
        BY DEF TInv, DueInTurn
      <3>3. DueTasks = tasks \cup {task} /\ DueTasks' = tasks'
        BY <2>2 DEF SpuriousWake, DueTasks
      <3> QED
        BY <1>3, <3>1, <3>2, <3>3
    <2> QED
      BY <2>1, <2>2
  <1>5. DueInTurn'
    <2> HIDE DEF DueTasks
    <2>1. ASSUME NEW t \in DueTasks'
          PROVE  /\ since <= Due(t) /\ now <= Due(t) + MaxLag
                 /\ \A d \in Dates : since <= SettlementOf(d) /\ SettlementOf(d) < Due(t)
                       => told["after"][d] >= 1
                 /\ since < Due(t) => told["before"][day] >= 1
      <3>1. PICK u \in DueTasks : Due(t) = Due(u)
        BY <1>4
      <3> QED
        BY <3>1 DEF TInv, DueInTurn
    <2> QED
      BY <1>1, <1>4, <2>1 DEF TInv, DueInTurn, Due
  <1>6. RunDone'
    BY <1>4 DEF RunDone, InRun
  <1>7. KeptWasTold'
    BY <1>1 DEF TInv, KeptWasTold, Date
  <1> QED
    BY <1>5, <1>6, <1>7 DEF TInv

(* The looper runs a task that is due, once.                               *)
LEMMA RunTaskTold ==
    ASSUME DayInv, TInv, RunTask PROVE TInv'
  <1>1. /\ UNCHANGED <<now, main, day, task, tasks, known, saved, told, since>>
        /\ looper = "waiting" /\ looper' = "before" /\ stamp' = now
        /\ now >= Due(task)
    BY DEF RunTask, dataVars, eventVars, bounds, Due
  <1>2. now \in Nat /\ stamp \in Nat /\ stamp <= now /\ task \in Tasks
    BY DatesAreNumbers DEF TInv, DueInTurn
  <1>3. DueInTurn'
    <2>1. DueTasks' = DueTasks
      BY <1>1 DEF DueTasks
    <2> HIDE DEF DueTasks
    <2> QED
      BY <1>1, <1>2, <2>1 DEF TInv, DueInTurn, Due
  <1>4. RunDone'
    <2>1. Due(task)' <= stamp'
      BY <1>1, <1>2 DEF Due, Tasks
    <2> QED
      BY <1>1, <2>1 DEF RunDone
  <1>5. KeptWasTold'
    <2>1. Date(stamp) <= Date(stamp)' /\ Date(stamp) \in Nat /\ Date(stamp)' \in Nat
      BY <1>1, <1>2, DateLater DEF Date, Parts
    <2>2. \A e \in Events : known[e] \in Int /\ saved[e] \in Int
      BY DatesAreNumbers
    <2> QED
      BY <1>1, <2>1, <2>2 DEF TInv, KeptWasTold
  <1> QED
    BY <1>3, <1>4, <1>5 DEF TInv

(* The check: what it finds already kept was told, what it finds due it    *)
(* tells.                                                                  *)
LEMMA PublishTold ==
    ASSUME DayInv, TInv, MaxLag <= 2, NEW e \in Events, CheckAndPublish(e) PROVE TInv'
  <1> DEFINE t == Target(e)
  <1>1. /\ looper = e /\ InRun
        /\ UNCHANGED <<now, main, day, task, tasks, stamp, since>>
    BY DEF CheckAndPublish, dataVars, bounds, Events, InRun, Loopers
  <1>2. t \in Dates /\ t = IF e = "before" THEN day ELSE Date(stamp)
    BY <1>1, TargetIsDate DEF DayInv, InRun, Target
  <1>3. /\ known' = [known EXCEPT ![e] = LastDate(e)]
        /\ LastDate(e) \in {known[e], saved[e]} /\ LastDate(e) # Empty
    BY DEF CheckAndPublish, LastDate, DayInv, DatesRight, Empty, Dates, MinDate
  <1>4. \A x \in Events : saved'[x] \in {saved[x], known[x]}
    BY DEF CheckAndPublish, Commit, Committed
  <1>5. \/ /\ MustPublish(e) /\ looper' = Setting(e)
           /\ told' = [told EXCEPT ![e][t] = @ + 1]
        \/ ~MustPublish(e) /\ looper' = AfterEvent(e) /\ told' = told
    BY DEF CheckAndPublish
  <1>6. /\ \A x \in Events : \A d \in Dates : told'[x][d] >= told[x][d] /\ told'[x][d] \in Nat
        /\ MustPublish(e) => told'[e][t] >= 1
    <2>1. \A x \in Events : told[x] \in [Dates -> Nat] /\ \A d \in Dates : told[x][d] \in Nat
      BY DEF DayInv, DatesRight
    <2>2. CASE ~MustPublish(e)
      BY <1>5, <2>1, <2>2
    <2>3. CASE MustPublish(e)
      <3>1. \A x \in Events : \A d \in Dates :
               told'[x][d] = IF x = e /\ d = t THEN told[x][d] + 1 ELSE told[x][d]
        BY <1>5, <2>1, <2>3 DEF DayInv, DatesRight
      <3> QED
        BY <1>2, <2>1, <3>1
    <2> QED
      BY <2>2, <2>3
  <1>7. \A x \in Events : \A d \in Dates : told[x][d] >= 1 => told'[x][d] >= 1
    BY <1>6, DatesAreNumbers
  <1>8. LastDate(e) <= t /\ LastDate(e) \in Int /\ (LastDate(e) \in Dates => told[e][LastDate(e)] >= 1)
    BY <1>2, <1>3, DatesAreNumbers DEF TInv, KeptWasTold
  <1>9. ~(LastDate(e) < t) => told'[e][t] >= 1
    <2>1. t \in Int
      BY <1>2, DatesAreNumbers
    <2>2. ~(LastDate(e) < t) => LastDate(e) = t
      BY <1>8, <2>1
    <2> QED
      BY <1>2, <1>7, <1>8, <2>2
  <1>10. e = "before" \/ Settled(stamp) => told'[e][t] >= 1
    BY <1>6, <1>9 DEF MustPublish, Events
  <1> HIDE DEF t
  <1>11. DueInTurn'
    <2>1. DueTasks' = DueTasks
      BY <1>1, <1>5 DEF DueTasks, Setting, AfterEvent, Events
    <2>2. looper # "none" /\ looper' # "none" /\ day \in Dates
      BY <1>1, <1>5 DEF Setting, AfterEvent, Events, InRun, DayInv, DatesRight
    <2>3. "before" \in Events /\ "after" \in Events
      BY DEF Events
    <2> HIDE DEF DueTasks
    <2> QED
      BY <1>1, <1>7, <2>1, <2>2, <2>3 DEF TInv, DueInTurn, Due
  <1>12. RunDone'
    <2>1. InRun' /\ Due(task)' <= stamp'
      BY <1>1, <1>5 DEF InRun, Loopers, Setting, AfterEvent, Events, TInv, RunDone, Due
    <2>2. told'["before"][day] >= 1
      <3>1. CASE e = "before"
        BY <1>2, <1>10, <3>1
      <3>2. CASE e = "after"
        <4>1. told["before"][day] >= 1
          BY <1>1, <3>2 DEF TInv, RunDone
        <4>2. day \in Dates /\ "before" \in Events
          BY <1>1 DEF InRun, DayInv, DatesRight, Events
        <4> QED
          BY <1>7, <4>1, <4>2
      <3> QED
        BY <3>1, <3>2 DEF Events
    <2>3. looper' = "set_after" => told'["after"][Date(stamp)] >= 1
      BY <1>2, <1>5, <1>6 DEF Setting, AfterEvent, Events
    <2>4. ASSUME looper' \in {"set_after", "requeue"}, NEW d \in Dates, Due(task) = SettlementOf(d)
          PROVE  told'["after"][d] >= 1
      <3>1. e = "after"
        BY <1>5, <2>4 DEF Setting, AfterEvent, Events
      <3>2. task \in DueTasks
        BY <1>1 DEF DueTasks, InRun
      <3>3. now <= Due(task) + MaxLag /\ Due(task) <= stamp /\ stamp <= now
        BY <1>1, <3>2 DEF TInv, DueInTurn, RunDone
      <3>4. d \in Nat \ {0} /\ SettlementOf(d) \in Int /\ stamp \in Nat /\ now \in Nat /\ MaxLag \in Nat
        BY <2>4, DatesAreNumbers DEF SettlementOf, Parts
      <3>5. SettlementOf(d) <= stamp /\ stamp <= SettlementOf(d) + 2
        BY <2>4, <3>3, <3>4
      <3>6. Date(stamp) = d /\ Settled(stamp)
        BY <3>4, <3>5, InSettlement
      <3> QED
        BY <1>2, <1>10, <3>1, <3>6
    <2>5. Date(stamp)' = Date(stamp) /\ Due(task)' = Due(task)
      BY <1>1 DEF Date, Due
    <2> QED
      BY <1>1, <2>1, <2>2, <2>3, <2>4, <2>5 DEF RunDone
  <1>13. KeptWasTold'
    <2>1. \A x \in Events : known'[x] \in {known[x], saved[x]} /\ saved'[x] \in {saved[x], known[x]}
      BY <1>3, <1>4 DEF DayInv, DatesRight
    <2>2. Date(stamp)' = Date(stamp) /\ day' = day
      BY <1>1 DEF Date
    <2> QED
      BY <1>7, <2>1, <2>2 DEF TInv, KeptWasTold
  <1> QED
    BY <1>11, <1>12, <1>13 DEF TInv

(* The date of an event just published is kept.                            *)
LEMMA SetDateTold ==
    ASSUME DayInv, TInv, NEW e \in Events, SetDate(e) PROVE TInv'
  <1> DEFINE t == Target(e)
  <1>1. /\ looper = Setting(e) /\ looper' = AfterEvent(e) /\ InRun
        /\ UNCHANGED <<now, main, day, task, tasks, stamp, since, saved, told>>
    BY DEF SetDate, dataVars, eventVars, bounds, Events, InRun, Loopers, Setting
  <1>2. t \in Dates /\ t = IF e = "before" THEN day ELSE Date(stamp)
    BY <1>1, TargetIsDate DEF DayInv, InRun, Target
  <1>3. known' = [known EXCEPT ![e] = t]
    BY DEF SetDate
  <1>4. told[e][t] >= 1
    BY <1>1, <1>2 DEF TInv, RunDone, Setting, Events
  <1>5. DueInTurn'
    <2>1. DueTasks' = DueTasks
      BY <1>1 DEF DueTasks, Setting, AfterEvent, Events
    <2>2. looper # "none" /\ looper' # "none"
      BY <1>1 DEF AfterEvent, InRun
    <2> HIDE DEF DueTasks
    <2> QED
      BY <1>1, <2>1, <2>2 DEF TInv, DueInTurn, Due
  <1>6. RunDone'
    <2>1. looper' \in {"after", "requeue"} /\ (looper' = "requeue" => looper = "set_after")
      BY <1>1 DEF AfterEvent, Setting, Events
    <2> QED
      BY <1>1, <2>1 DEF TInv, RunDone, InRun, Loopers, Due, Setting
  <1>7. KeptWasTold'
    <2>1. \A x \in Events : known'[x] = IF x = e THEN t ELSE known[x]
      BY <1>3 DEF DayInv, DatesRight
    <2>2. Date(stamp)' = Date(stamp) /\ t <= t
      BY <1>1, <1>2, DatesAreNumbers DEF Date
    <2> QED
      BY <1>1, <1>2, <1>4, <2>1, <2>2 DEF TInv, KeptWasTold
  <1> QED
    BY <1>5, <1>6, <1>7 DEF TInv

(* The next run is due one period later.                                   *)
LEMMA RequeueTold ==
    ASSUME DayInv, TInv, Requeue PROVE TInv'
  <1> DEFINE next == TimerTask(task.delay + Period - (now - task.start))
  <1>1. /\ UNCHANGED <<now, main, day, task, stamp, known, told, since>>
        /\ looper = "requeue" /\ looper' = "idle" /\ InRun
        /\ tasks' = tasks \cup {next}
    BY DEF Requeue, dataVars, bounds, InRun, Loopers
  <1>2. now \in Nat /\ task \in Tasks /\ MaxLag \in Nat /\ since \in Nat
    BY DatesAreNumbers DEF TInv, DueInTurn
  <1>3. next \in Tasks /\ Due(next) = Due(task) + 1 /\ Due(task) \in Int
    BY <1>2 DEF TimerTask, Period, Due, Tasks
  <1>4. DueTasks = tasks \cup {task} /\ DueTasks' = tasks \cup {next}
    BY <1>1 DEF DueTasks
  <1> HIDE DEF next
  <1>5. DueInTurn'
    <2> HIDE DEF DueTasks
    <2>1. /\ since <= Due(task) /\ now <= Due(task) + MaxLag
          /\ \A d \in Dates : since <= SettlementOf(d) /\ SettlementOf(d) < Due(task)
                => told["after"][d] >= 1
          /\ \A d \in Dates : Due(task) = SettlementOf(d) => told["after"][d] >= 1
          /\ told["before"][day] >= 1
      BY <1>1, <1>4 DEF TInv, DueInTurn, RunDone
    <2>2. since <= Due(next) /\ now <= Due(next) + MaxLag
      BY <1>2, <1>3, <2>1
    <2>3. ASSUME NEW d \in Dates, since <= SettlementOf(d), SettlementOf(d) < Due(next)
          PROVE  told["after"][d] >= 1
      <3>1. SettlementOf(d) \in Int
        BY DatesAreNumbers DEF SettlementOf, Parts
      <3>2. SettlementOf(d) < Due(task) \/ SettlementOf(d) = Due(task)
        BY <1>3, <2>3, <3>1
      <3> QED
        BY <2>1, <2>3, <3>2
    <2>4. \A u \in DueTasks' : u \in DueTasks \/ u = next
      BY <1>4
    <2> QED
      BY <1>1, <1>3, <1>4, <2>1, <2>2, <2>3, <2>4 DEF TInv, DueInTurn, Due
  <1>6. RunDone'
    BY <1>1 DEF RunDone, InRun
  <1>7. KeptWasTold'
    <2>1. \A x \in Events : saved'[x] \in {saved[x], known[x]}
      BY DEF Requeue, Commit, Committed
    <2> QED
      BY <1>1, <2>1 DEF TInv, KeptWasTold, Date
  <1> QED
    BY <1>5, <1>6, <1>7 DEF TInv

(* Time goes on.                                                           *)
LEMMA TickTold ==
    ASSUME DayInv, TInv, TimePasses PROVE TInv'
  <1>1. /\ now' = now + 1 /\ \A t \in DueTasks : now < t.start + t.delay + MaxLag
        /\ UNCHANGED <<main, day, looper, task, tasks, stamp, known, saved, told, since>>
    BY DEF TimePasses, dataVars, looperVars, eventVars, bounds
  <1>2. now \in Nat /\ MaxLag \in Nat /\ stamp \in Nat
    BY DatesAreNumbers
  <1>3. DueInTurn'
    <2>1. DueTasks' = DueTasks /\ \A t \in DueTasks : t \in Tasks
      BY <1>1 DEF DueTasks, TInv, DueInTurn
    <2>2. ASSUME NEW t \in DueTasks PROVE now' <= Due(t) + MaxLag
      <3>1. Due(t) \in Int /\ now < Due(t) + MaxLag
        BY <1>1, <2>1 DEF Due, Tasks
      <3> QED
        BY <1>1, <1>2, <3>1
    <2>3. stamp <= now'
      BY <1>1, <1>2 DEF TInv, DueInTurn
    <2> HIDE DEF DueTasks
    <2> QED
      BY <1>1, <2>1, <2>2, <2>3 DEF TInv, DueInTurn, Due
  <1>4. RunDone'
    BY <1>1 DEF TInv, RunDone, InRun, Due, Date
  <1>5. KeptWasTold'
    BY <1>1 DEF TInv, KeptWasTold, Date
  <1> QED
    BY <1>3, <1>4, <1>5 DEF TInv

(* Every step keeps the third invariant.                                   *)
LEMMA NextTInv ==
    ASSUME DayInv, RInv, TInv, MaxLag <= 2, [DayNext]_dayVars PROVE TInv'
  <1>1. DayInv'
    BY NextKeeps
  <1>2. CASE \/ Start \/ CheckDate \/ CompareDate \/ FetchHeld \/ FetchEach \/ SaveRates \/ ReadRates
             \/ Crash
    BY <1>1, <1>2, ConnectTold
  <1>3. CASE StartEventSource
    BY <1>3, StartEventSourceTold
  <1>4. CASE TakeTask \/ SpuriousWake
    BY <1>4, LooperTold
  <1>5. CASE RunTask
    BY <1>5, RunTaskTold
  <1>6. ASSUME NEW e \in Events, CheckAndPublish(e) \/ SetDate(e) PROVE TInv'
    BY <1>6, PublishTold, SetDateTold
  <1>7. CASE Requeue
    BY <1>7, RequeueTold
  <1>8. CASE ExpireList \/ ExpireDate \/ UNCHANGED dayVars
    <2>1. UNCHANGED <<now, main, day, looper, task, tasks, stamp, known, saved, told, since>>
      BY <1>8 DEF ExpireList, ExpireDate, dayVars, looperVars, eventVars, bounds
    <2> QED
      BY <2>1 DEF TInv, DueInTurn, DueTasks, RunDone, InRun, KeptWasTold, Due, Date
  <1>9. CASE TimePasses
    BY <1>9, TickTold
  <1> QED
    BY <1>2, <1>3, <1>4, <1>5, <1>6, <1>7, <1>8, <1>9 DEF DayNext

(* The runs of the timer come one period after the other from the start of *)
(* the event source on, and each did what was due.                         *)
THEOREM RunsInvariance == ASSUME MaxLag <= 2 PROVE DaySpec => []TInv
  <1>1. DayInit => DayInv /\ RInv /\ TInv
    BY Initially, InitRInv, InitTInv
  <1>2. DayInv /\ RInv /\ TInv /\ [DayNext]_dayVars => DayInv' /\ RInv' /\ TInv'
    BY NextKeeps, NextRInv, NextTInv
  <1> QED
    BY <1>1, <1>2, PTL DEF DaySpec

(* No day is left out, whatever crashes, restarts and spurious wake-ups    *)
(* come, as long as a run is at most two parts of a day late: a later one  *)
(* could find the next day, not yet settled, when it reads the clock       *)
(* (TradeEventSource::start, Timer::run).                                  *)
THEOREM NoDayLeftOut == ASSUME MaxLag <= 2 PROVE DaySpec => []EveryDayTold
  <1>1. DayInv /\ TInv => EveryDayTold
    <2> SUFFICES ASSUME DayInv, TInv, main = "ready" PROVE
             /\ \A d \in Dates : since < (d - 1) * Parts + 2 /\ now >= d * Parts
                   => told["after"][d] >= 1
             /\ now > since + MaxLag => told["before"][day] >= 1
      BY DEF EveryDayTold
    <2>1. PICK t \in DueTasks : TRUE
      BY DEF TInv, DueInTurn
    <2>2. /\ t \in Tasks /\ since \in Nat
          /\ since <= Due(t) /\ now <= Due(t) + MaxLag
          /\ \A d \in Dates : since <= SettlementOf(d) /\ SettlementOf(d) < Due(t)
                => told["after"][d] >= 1
          /\ since < Due(t) => told["before"][day] >= 1
      BY DEF TInv, DueInTurn, DueTasks
    <2>3. Due(t) \in Int /\ now \in Nat /\ MaxLag \in Nat
      BY <2>2, DatesAreNumbers DEF Due, Tasks
    <2>4. ASSUME NEW d \in Dates, since < (d - 1) * Parts + 2, now >= d * Parts
          PROVE  told["after"][d] >= 1
      <3>1. d \in Nat \ {0}
        BY DatesAreNumbers DEF DayInv
      <3>2. since <= SettlementOf(d) /\ SettlementOf(d) < Due(t)
        BY <2>2, <2>3, <2>4, <3>1 DEF SettlementOf, Parts
      <3> QED
        BY <2>2, <3>2
    <2>5. now > since + MaxLag => since < Due(t)
      BY <2>2, <2>3
    <2> QED
      BY <2>2, <2>4, <2>5
  <1> QED
    BY <1>1, DayInvariance, RunsInvariance, PTL
=============================================================================
