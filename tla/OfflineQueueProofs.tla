------------------------- MODULE OfflineQueueProofs -------------------------
(* Proofs about OfflineQueue, for any number of measurements and batches,   *)
(* any limit on a batch and any answers.                                    *)
EXTENDS OfflineQueue, FiniteSetTheorems, TLAPS

(* The queue, and every copy of it, is a function from keys to payloads. *)
LEMMA QueuesAre ==
    \A q : q \in Queues <=> DOMAIN q \in SUBSET Meas /\ q \in [DOMAIN q -> Payload]
BY DEF Queues

(* A put under some keys leaves a queue. *)
LEMMA PutType ==
    ASSUME NEW q \in Queues, NEW K \in SUBSET Meas, NEW p \in Payload
    PROVE  Put(q, K, p) \in Queues
<1> DEFINE r == Put(q, K, p)
<1>1. DOMAIN r \in SUBSET Meas
  BY QueuesAre DEF Put
<1>2. r \in [DOMAIN r -> Payload]
  BY QueuesAre DEF Put
<1> QED BY <1>1, <1>2, QueuesAre

(* Deleting keys leaves a queue. *)
LEMMA DeleteType ==
    ASSUME NEW q \in Queues, NEW K
    PROVE  Restrict(q, DOMAIN q \ K) \in Queues
<1> DEFINE r == Restrict(q, DOMAIN q \ K)
<1>1. DOMAIN r \in SUBSET Meas
  BY QueuesAre DEF Restrict
<1>2. r \in [DOMAIN r -> Payload]
  BY QueuesAre DEF Restrict
<1> QED BY <1>1, <1>2, QueuesAre

(* The empty queue is a queue. *)
LEMMA NoItemsType == NoItems \in Queues
<1>1. DOMAIN NoItems = {} /\ NoItems \in [{} -> Payload]
  BY DEF NoItems
<1> QED BY <1>1, QueuesAre

(* A row more is a row, up to the bound of the count. *)
LEMMA OneMoreType ==
    ASSUME NEW r \in Rows
    PROVE  OneMore(r.copies) \in 0..2 /\ [r EXCEPT !.copies = OneMore(@)] \in Rows
<1>1. OneMore(r.copies) \in 0..2
  BY DEF OneMore, Rows
<1> QED BY <1>1 DEF Rows

(* A batch leaves rows, in number and in content. *)
LEMMA AfterBatchType ==
    ASSUME rows \in [Meas -> Rows], NEW q \in Queues, NEW m \in Meas
    PROVE  AfterBatch(q, m) \in Rows
<1>1. \A k \in DOMAIN q : q[k].c \in Answers \cup {NoAnswer}
  BY QueuesAre DEF Payload
<1>2. OneMore(rows[m].copies) \in 0..2
  BY DEF OneMore, Rows
<1> QED BY <1>1, <1>2 DEF AfterBatch, Rows

(* Type correctness of the pages, the queue, the batches and the table
   (app.js, handleObserve, handleUpdate, handleSync). *)
THEOREM QueueTypeOK == Spec => []TypeOK
<1>1. Init => TypeOK
  BY NoItemsType DEF Init, TypeOK, Pages, Verdicts, IdleUpd, IdleSync, Rows
<1>2. TypeOK /\ [Next]_vars => TypeOK'
  <2> SUFFICES ASSUME TypeOK, [Next]_vars PROVE TypeOK'
    OBVIOUS
  <2> USE DEF TypeOK
  <2>1. ASSUME NEW m \in Meas, NEW v \in Verdicts,
               Measure(m, v) \/ SendFails(m) \/ QueueOfflineFails(m) \/ Expire(m) \/ CatchUp(m)
        PROVE  TypeOK'
    BY <2>1 DEF Measure, SendFails, QueueOfflineFails, Promise, Expire, CatchUp, Pages, Verdicts
  <2>2. ASSUME NEW m \in Meas, NEW answered \in BOOLEAN,
               HandleObserve(m, answered) \/ ObserveFails(m, answered)
        PROVE  TypeOK'
    <3>1. rows' \in [Meas -> Rows]
      <4>1. [rows[m] EXCEPT !.copies = OneMore(@)] \in Rows
        BY OneMoreType
      <4>2. CASE HandleObserve(m, answered)
        BY <4>1, <4>2 DEF HandleObserve
      <4>3. CASE ObserveFails(m, answered)
        BY <4>3 DEF ObserveFails
      <4> QED BY <2>2, <4>2, <4>3
    <3>2. page' \in [Meas -> Pages]
      BY <2>2 DEF HandleObserve, ObserveFails, Pages
    <3> QED BY <2>2, <3>1, <3>2 DEF HandleObserve, ObserveFails
  <2>3. ASSUME NEW m \in Meas, QueueOffline(m)
        PROVE  TypeOK'
    <3>1. [m |-> m, c |-> NoAnswer] \in Payload
      BY DEF Payload
    <3>2. queue' \in Queues
      BY <2>3, <3>1, PutType DEF QueueOffline
    <3> QED BY <2>3, <3>2 DEF QueueOffline, Promise, Pages
  <2>4. ASSUME NEW m \in Meas, ClosePage(m)
        PROVE  TypeOK'
    BY <2>4, NoItemsType DEF ClosePage, Pages, IdleUpd
  <2>5. ASSUME NEW m \in Meas, NEW a \in Answers, Say(m, a)
        PROVE  TypeOK'
    BY <2>5 DEF Say, Payload
  <2>6. ASSUME NEW m \in Meas, UpdateRead(m)
        PROVE  TypeOK'
    BY <2>6, NoItemsType DEF UpdateRead, IdleUpd
  <2>7. ASSUME NEW m \in Meas, UpdatePut(m)
        PROVE  TypeOK'
    <3> DEFINE mine == {k \in DOMAIN upd[m].items : SameMeasurement(upd[m].items[k], m)}
    <3>1. mine \in SUBSET Meas
      BY QueuesAre
    <3>2. [m |-> m, c |-> said[m]] \in Payload
      BY DEF Payload
    <3>3. queue' \in Queues
      BY <2>7, <3>1, <3>2, PutType DEF UpdatePut
    <3> QED BY <2>7, <3>3, NoItemsType DEF UpdatePut, IdleUpd
  <2>8. ASSUME NEW u \in updates, NEW ok \in BOOLEAN, HandleUpdate(u, ok)
        PROVE  TypeOK'
    <3>1. u.m \in Meas /\ {u.c} \in SUBSET Answers
      OBVIOUS
    <3>2. rows' \in [Meas -> Rows]
      <4>1. [rows[u.m] EXCEPT !.answers = {u.c}] \in Rows
        BY <3>1 DEF Rows
      <4> QED BY <2>8, <3>1, <4>1 DEF HandleUpdate
    <3> QED BY <2>8, <3>2 DEF HandleUpdate
  <2>9. ASSUME NEW y \in Syncers,
               SyncRead(y) \/ SyncTimeout(y) \/ SyncFails(y) \/ SyncClosed(y)
        PROVE  TypeOK'
    <3>1. PICK s \in [pc : {"idle", "posted", "late", "answered"}, items : Queues] :
             sync' = [sync EXCEPT ![y] = s]
      <4>1. CASE SyncRead(y)
        BY <4>1 DEF SyncRead
      <4>2. CASE SyncTimeout(y)
        <5>1. sync' = [sync EXCEPT ![y] = [sync[y] EXCEPT !.pc = "late"]]
          BY <4>2 DEF SyncTimeout
        <5> QED BY <5>1
      <4>3. CASE SyncFails(y) \/ SyncClosed(y)
        BY <4>3, NoItemsType DEF SyncFails, SyncClosed, AfterRefusal, IdleSync
      <4> QED BY <2>9, <4>1, <4>2, <4>3
    <3> QED BY <2>9, <3>1 DEF SyncRead, SyncTimeout, SyncFails, SyncClosed
  <2>10. ASSUME NEW y \in Syncers, NEW answered \in BOOLEAN, HandleSync(y, answered)
         PROVE  TypeOK'
    <3>1. rows' \in [Meas -> Rows]
      BY <2>10, AfterBatchType DEF HandleSync
    <3>2. sync' \in [Syncers -> [pc : {"idle", "posted", "late", "answered"}, items : Queues]]
      BY <2>10, NoItemsType DEF HandleSync, IdleSync
    <3> QED BY <2>10, <3>1, <3>2 DEF HandleSync, LeftOut
  <2>11. ASSUME NEW y \in Syncers, SyncDelete(y)
         PROVE  TypeOK'
    <3>1. queue' \in Queues
      BY <2>11, DeleteType DEF SyncDelete
    <3> QED BY <2>11, <3>1, NoItemsType DEF SyncDelete, IdleSync
  <2>12. CASE UNCHANGED vars
    BY <2>12 DEF vars
  <2> QED BY <2>1, <2>2, <2>3, <2>4, <2>5, <2>6, <2>7, <2>8, <2>9, <2>10, <2>11, <2>12 DEF Next, Verdicts
<1> QED BY <1>1, <1>2, PTL DEF Spec

----------------------------------------------------------------------------
(* What a put, a deletion and the empty queue hold. *)
LEMMA WhatItHolds ==
    /\ \A n : ~Holds(NoItems, n)
    /\ \A q, K, p, n : Holds(Put(q, K, p), n) => Holds(q, n) \/ p.m = n
    /\ \A q, K, n : Holds(Restrict(q, DOMAIN q \ K), n) => Holds(q, n)
BY DEF Holds, NoItems, Put, Restrict

(* A measurement stays out of the queue when nothing but copies are made. *)
LEMMA UnqueuedKept ==
    ASSUME NEW n, Unqueued(n),
           Holds(queue', n) => Holds(queue, n),
           \A x \in Meas : Holds(upd'[x].items, n) => Holds(upd[x].items, n) \/ Holds(queue, n),
           \A y \in Syncers : Holds(sync'[y].items, n) => Holds(sync[y].items, n) \/ Holds(queue, n)
    PROVE  Unqueued(n)'
BY DEF Unqueued, Queued

(* A batch leaves the number of rows of what it does not hold, lowers none, and
   stores what it holds and ValidatePayload accepts (handleSync). *)
LEMMA BatchCopies ==
    ASSUME rows \in [Meas -> Rows], NEW q, NEW m \in Meas
    PROVE  /\ AfterBatch(q, m).copies >= rows[m].copies
           /\ ~Holds(q, m) => AfterBatch(q, m).copies = rows[m].copies
           /\ Holds(q, m) /\ Accepted(m) => AfterBatch(q, m).copies > 0
<1>1. rows[m].copies \in 0..2
  BY DEF Rows
<1> DEFINE valid == {k \in DOMAIN q : q[k].m = m /\ Accepted(m)}
<1>2. AfterBatch(q, m).copies = IF valid = {} THEN rows[m].copies
                                ELSE IF Cardinality(valid) > 1 THEN 2 ELSE OneMore(rows[m].copies)
  BY DEF AfterBatch
<1>3. OneMore(rows[m].copies) \in 1..2 /\ OneMore(rows[m].copies) >= rows[m].copies
  BY <1>1 DEF OneMore
<1>4. ~Holds(q, m) => valid = {}
  BY DEF Holds
<1>5. Holds(q, m) /\ Accepted(m) => valid # {}
  BY DEF Holds
<1> HIDE DEF valid
<1> QED BY <1>1, <1>2, <1>3, <1>4, <1>5

Early == {"none", "sending", "offline", "refused", "registered"}

(* An observation that was confirmed with its id is stored once (send, start,
   syncPending, updateQueued): it never enters the queue, and no copy of the
   queue, however old, holds it. *)
THEOREM QueueRegisteredOnce == Spec => []RegisteredOnce
<1>1. Init => OneWay
  BY WhatItHolds DEF Init, OneWay, Unqueued, Queued, IdleUpd, IdleSync
<1>2. TypeOK /\ OneWay /\ [Next]_vars => OneWay'
  <2> SUFFICES ASSUME TypeOK, OneWay, [Next]_vars PROVE OneWay'
    OBVIOUS
  <2>a. /\ page \in [Meas -> Pages]
        /\ rows \in [Meas -> Rows] /\ \A m \in Meas : rows[m].copies \in 0..2
        /\ upd \in [Meas -> [pc : {"idle", "read", "put"}, items : Queues]]
        /\ sync \in [Syncers -> [pc : {"idle", "posted", "late", "answered"}, items : Queues]]
    BY DEF TypeOK, Rows
  <2>b. ASSUME UNCHANGED <<queue, upd, sync>>
        PROVE  \A n \in Meas : Unqueued(n) => Unqueued(n)'
    BY <2>b, UnqueuedKept
  <2>1. ASSUME NEW m \in Meas, NEW v \in Verdicts,
               Measure(m, v) \/ SendFails(m) \/ QueueOfflineFails(m) \/ Expire(m) \/ CatchUp(m)
        PROVE  OneWay'
    <3>1. UNCHANGED <<queue, upd, sync, rows>>
      BY <2>1 DEF Measure, SendFails, QueueOfflineFails, Expire, CatchUp
    <3>2. \A n \in Meas : page'[n] \in Early => Unqueued(n)'
      BY <2>1, <2>a, <2>b, <3>1
         DEF Measure, SendFails, QueueOfflineFails, Promise, Expire, CatchUp, OneWay, Early
    <3> QED BY <2>1, <2>a, <3>1, <3>2
            DEF Measure, SendFails, QueueOfflineFails, Promise, Expire, CatchUp, OneWay, Early
  <2>2. ASSUME NEW m \in Meas, NEW answered \in BOOLEAN,
               HandleObserve(m, answered) \/ ObserveFails(m, answered)
        PROVE  OneWay'
    <3>1. UNCHANGED <<queue, upd, sync>>
      BY <2>2 DEF HandleObserve, ObserveFails
    <3>2. \A n \in Meas : page'[n] \in Early => Unqueued(n)'
      BY <2>2, <2>a, <2>b, <3>1 DEF HandleObserve, ObserveFails, OneWay, Early
    <3>3. CASE HandleObserve(m, answered)
      <4>1. /\ rows'[m].copies = OneMore(rows[m].copies)
            /\ \A n \in Meas : n # m => rows'[n] = rows[n]
        BY <2>a, <3>3 DEF HandleObserve, Rows
      <4> QED BY <2>a, <3>1, <3>2, <3>3, <4>1 DEF HandleObserve, OneWay, Early, OneMore
    <3>4. CASE ObserveFails(m, answered)
      BY <2>a, <3>1, <3>2, <3>4 DEF ObserveFails, OneWay, Early
    <3> QED BY <2>2, <3>3, <3>4
  <2>3. ASSUME NEW m \in Meas, QueueOffline(m)
        PROVE  OneWay'
    <3>1. page'[m] \in {"saved", "kept"} /\ \A n \in Meas : n # m => page'[n] = page[n]
      BY <2>3, <2>a DEF QueueOffline, Promise
    <3>2. /\ queue' = Put(queue, {m}, [m |-> m, c |-> NoAnswer])
          /\ UNCHANGED <<upd, sync, flight, rows>>
      BY <2>3 DEF QueueOffline
    <3>3. \A n \in Meas : n # m /\ Unqueued(n) => Unqueued(n)'
      BY <3>2, UnqueuedKept, WhatItHolds
    <3>4. upd[m].pc = "idle"
      BY <2>3, <2>a DEF QueueOffline, Promise, OneWay
    <3> QED BY <2>a, <3>1, <3>2, <3>3, <3>4 DEF OneWay
  <2>4. ASSUME NEW m \in Meas, ClosePage(m)
        PROVE  OneWay'
    <3>1. UNCHANGED <<queue, sync, flight, rows>>
      BY <2>4 DEF ClosePage
    <3>2. /\ page'[m] = "closed" /\ upd'[m] = IdleUpd
          /\ \A n \in Meas : n # m => page'[n] = page[n] /\ upd'[n] = upd[n]
      BY <2>4, <2>a DEF ClosePage
    <3>3. \A n \in Meas : Unqueued(n) => Unqueued(n)'
      BY <3>1, <3>2, UnqueuedKept, WhatItHolds DEF IdleUpd
    <3> QED BY <2>a, <3>1, <3>2, <3>3 DEF OneWay, IdleUpd
  <2>5. ASSUME NEW m \in Meas, NEW a \in Answers, Say(m, a)
        PROVE  OneWay'
    <3>1. UNCHANGED <<page, queue, sync, flight, rows>>
      BY <2>5 DEF Say
    <3>2. \A n \in Meas : /\ upd'[n].items = upd[n].items
                          /\ upd'[n].pc = upd[n].pc \/ page[n] = "saved"
      BY <2>5, <2>a DEF Say
    <3>3. \A n \in Meas : Unqueued(n) => Unqueued(n)'
      BY <3>1, <3>2, UnqueuedKept
    <3> QED BY <3>1, <3>2, <3>3 DEF OneWay
  <2>6. ASSUME NEW m \in Meas, UpdateRead(m)
        PROVE  OneWay'
    <3>1. UNCHANGED <<page, queue, sync, flight, rows>> /\ upd[m].pc = "read"
      BY <2>6 DEF UpdateRead
    <3>2. /\ upd'[m].items \in {NoItems, queue}
          /\ \A n \in Meas : n # m => upd'[n] = upd[n]
      BY <2>6, <2>a DEF UpdateRead, IdleUpd
    <3>3. \A n \in Meas : Unqueued(n) => Unqueued(n)'
      BY <3>1, <3>2, UnqueuedKept, WhatItHolds
    <3> QED BY <3>1, <3>2, <3>3 DEF OneWay
  <2>7. ASSUME NEW m \in Meas, UpdatePut(m)
        PROVE  OneWay'
    <3>1. UNCHANGED <<page, sync, flight, rows>> /\ upd[m].pc = "put" /\ page[m] = "saved"
      BY <2>7 DEF UpdatePut, OneWay
    <3>2. PICK K : queue' = Put(queue, K, [m |-> m, c |-> said[m]])
      BY <2>7 DEF UpdatePut
    <3>3. upd'[m] = IdleUpd /\ \A n \in Meas : n # m => upd'[n] = upd[n]
      BY <2>7, <2>a DEF UpdatePut
    <3>4. \A n \in Meas : n # m /\ Unqueued(n) => Unqueued(n)'
      BY <3>1, <3>2, <3>3, UnqueuedKept, WhatItHolds DEF IdleUpd
    <3> QED BY <3>1, <3>3, <3>4 DEF OneWay, IdleUpd
  <2>8. ASSUME NEW u \in updates, NEW ok \in BOOLEAN, HandleUpdate(u, ok)
        PROVE  OneWay'
    <3>1. UNCHANGED <<page, queue, upd, sync, flight>>
      BY <2>8 DEF HandleUpdate
    <3>2. \A n \in Meas : rows'[n].copies = rows[n].copies
      BY <2>8, <2>a DEF HandleUpdate, Rows
    <3> QED BY <2>b, <3>1, <3>2 DEF OneWay
  <2>9. ASSUME NEW y \in Syncers,
               SyncRead(y) \/ SyncTimeout(y) \/ SyncFails(y) \/ SyncClosed(y) \/ SyncDelete(y)
        PROVE  OneWay'
    <3>1. UNCHANGED <<page, upd, flight, rows>>
      BY <2>9 DEF SyncRead, SyncTimeout, SyncFails, SyncClosed, SyncDelete
    <3>2. /\ sync'[y].items \in {sync[y].items, queue, NoItems}
          /\ \A z \in Syncers : z # y => sync'[z] = sync[z]
      BY <2>9, <2>a DEF SyncRead, SyncTimeout, SyncFails, AfterRefusal, SyncClosed, SyncDelete, IdleSync
    <3>3. \A n : Holds(queue', n) => Holds(queue, n)
      <4>1. CASE SyncDelete(y)
        <5>1. queue' = Restrict(queue, DOMAIN queue \ DOMAIN sync[y].items)
          BY <4>1 DEF SyncDelete
        <5> QED BY <5>1, WhatItHolds
      <4>2. CASE ~SyncDelete(y)
        BY <2>9, <4>2 DEF SyncRead, SyncTimeout, SyncFails, SyncClosed
      <4> QED BY <4>1, <4>2
    <3>4. \A n \in Meas : Unqueued(n) => Unqueued(n)'
      BY <3>1, <3>2, <3>3, UnqueuedKept, WhatItHolds
    <3> QED BY <3>1, <3>4 DEF OneWay
  <2>10. ASSUME NEW y \in Syncers, NEW answered \in BOOLEAN, HandleSync(y, answered)
         PROVE  OneWay'
    <3>1. UNCHANGED <<page, queue, upd, flight>>
      BY <2>10 DEF HandleSync
    <3>2. /\ sync'[y].items \in {sync[y].items, NoItems}
          /\ \A z \in Syncers : z # y => sync'[z] = sync[z]
      BY <2>10, <2>a DEF HandleSync, IdleSync
    <3>3. \A n \in Meas : Unqueued(n) => Unqueued(n)'
      BY <3>1, <3>2, UnqueuedKept, WhatItHolds
    <3>4. \A n \in Meas : Unqueued(n) => rows'[n].copies = rows[n].copies
      BY <2>10, <2>a, BatchCopies DEF HandleSync, Unqueued
    <3> QED BY <3>1, <3>3, <3>4 DEF OneWay
  <2>11. CASE UNCHANGED vars
    BY <2>11, <2>b DEF vars, OneWay
  <2> QED BY <2>1, <2>2, <2>3, <2>4, <2>5, <2>6, <2>7, <2>8, <2>9, <2>10, <2>11 DEF Next, Verdicts
<1>3. OneWay => RegisteredOnce
  BY DEF OneWay, RegisteredOnce, Unqueued
<1> QED BY <1>1, <1>2, <1>3, QueueTypeOK, PTL DEF Spec

----------------------------------------------------------------------------
(* Under its own key, holding a measurement is having its key. *)
LEMMA KeysTell ==
    ASSUME NEW q, KeysMatch(q), NEW m
    PROVE  Holds(q, m) <=> m \in DOMAIN q
BY DEF KeysMatch, Holds

(* Copies of a queue whose keys match keep matching; so does a put of a payload
   under its own key, or under none. *)
LEMMA KeysMatchKept ==
    /\ KeysMatch(NoItems)
    /\ \A q, K, p : KeysMatch(q) /\ K \subseteq {p.m} => KeysMatch(Put(q, K, p))
    /\ \A q, K : KeysMatch(q) => KeysMatch(Restrict(q, DOMAIN q \ K))
BY DEF KeysMatch, NoItems, Put, Restrict

(* A measurement that the visitor was told is safe is queued or stored unless a
   batch left it out because ValidatePayload refused it then (queueOffline,
   updateQueued, syncPending, handleSync), if IndexedDB works and no two
   measurements are of the same second. *)
THEOREM QueueNeverLost ==
    ASSUME StorageWorks, \A m, n \in Meas : Second[m] = Second[n] => m = n
    PROVE  Spec => []NeverLost
<1>1. Init => DeletesAreSafe
  BY KeysMatchKept DEF Init, DeletesAreSafe, NeverLost, IdleUpd, IdleSync
<1>2. TypeOK /\ DeletesAreSafe /\ [Next]_vars => DeletesAreSafe'
  <2> SUFFICES ASSUME TypeOK, DeletesAreSafe, [Next]_vars PROVE DeletesAreSafe'
    OBVIOUS
  <2>a. /\ rows \in [Meas -> Rows] /\ \A m \in Meas : rows[m].copies \in 0..2
        /\ upd \in [Meas -> [pc : {"idle", "read", "put"}, items : Queues]]
        /\ sync \in [Syncers -> [pc : {"idle", "posted", "late", "answered"}, items : Queues]]
        /\ queue \in Queues /\ promised \subseteq Meas
    BY DEF TypeOK, Rows
  <2>b. \A y \in Syncers : DOMAIN sync[y].items \subseteq Meas
    BY <2>a, QueuesAre
  <2>1. ASSUME DOMAIN queue \subseteq DOMAIN queue', KeysMatch(queue'),
               \A m \in Meas : rows'[m].copies >= rows[m].copies /\ rows'[m].copies \in 0..2,
               skipped \subseteq skipped',
               promised' \subseteq promised \cup DOMAIN queue',
               \A m \in Meas : KeysMatch(upd'[m].items),
               \A y \in Syncers :
                  sync'[y].items = NoItems \/ sync'[y].items = sync[y].items
                    \/ (sync'[y].items = queue /\ sync'[y].pc # "answered"),
               \A y \in Syncers :
                  sync'[y].pc = "answered" =>
                     \/ sync'[y] = sync[y]
                     \/ \A k \in DOMAIN sync'[y].items : rows'[k].copies > 0 \/ k \in skipped'
        PROVE  DeletesAreSafe'
    <3>1. \A m : m \in promised => m \in DOMAIN queue \/ rows[m].copies > 0 \/ m \in skipped
      BY KeysTell DEF DeletesAreSafe, NeverLost, Queued
    <3>2. NeverLost'
      BY <2>1, <2>a, <3>1, KeysTell DEF NeverLost, Queued
    <3>3. \A y \in Syncers : KeysMatch(sync'[y].items)
      BY <2>1, KeysMatchKept DEF DeletesAreSafe
    <3>4. ASSUME NEW y \in Syncers, sync'[y].pc = "answered", NEW k \in DOMAIN sync'[y].items
          PROVE  rows'[k].copies > 0 \/ k \in skipped'
      <4>1. CASE sync'[y] = sync[y]
        <5>1. k \in Meas /\ (rows[k].copies > 0 \/ k \in skipped)
          BY <2>b, <3>4, <4>1 DEF DeletesAreSafe
        <5> QED BY <2>1, <2>a, <5>1
      <4> QED BY <2>1, <3>4, <4>1
    <3> QED BY <2>1, <3>2, <3>3, <3>4 DEF DeletesAreSafe
  <2>2. ASSUME NEW m \in Meas, NEW v \in Verdicts,
               Measure(m, v) \/ SendFails(m) \/ Expire(m) \/ CatchUp(m)
        PROVE  DeletesAreSafe'
    BY <2>1, <2>2, <2>a DEF Measure, SendFails, Expire, CatchUp, DeletesAreSafe
  <2>3. ASSUME NEW m \in Meas, NEW answered \in BOOLEAN,
               HandleObserve(m, answered) \/ ObserveFails(m, answered)
        PROVE  DeletesAreSafe'
    <3>1. \A n \in Meas : rows'[n].copies >= rows[n].copies /\ rows'[n].copies \in 0..2
      BY <2>3, <2>a DEF HandleObserve, ObserveFails, OneMore, Rows
    <3> QED BY <2>1, <2>3, <3>1 DEF HandleObserve, ObserveFails, DeletesAreSafe
  <2>4. ASSUME NEW m \in Meas, QueueOffline(m)
        PROVE  DeletesAreSafe'
    <3>1. queue' = Put(queue, {m}, [m |-> m, c |-> NoAnswer])
      BY <2>4 DEF QueueOffline
    <3>2. KeysMatch(queue') /\ DOMAIN queue' = DOMAIN queue \cup {m}
      <4> DEFINE p == [m |-> m, c |-> NoAnswer]
      <4>1. KeysMatch(queue) /\ {m} \subseteq {p.m}
        BY DEF DeletesAreSafe
      <4>2. DOMAIN queue' = DOMAIN queue \cup {m}
        BY <3>1 DEF Put
      <4>3. queue' = Put(queue, {m}, p)
        BY <3>1
      <4> HIDE DEF p
      <4> QED BY <4>1, <4>2, <4>3 DEF KeysMatch, Put
    <3>3. promised' = promised \cup {m} /\ UNCHANGED <<upd, sync, rows, skipped>>
      BY <2>4 DEF QueueOffline, Promise
    <3> QED BY <2>1, <2>a, <3>2, <3>3 DEF DeletesAreSafe
  <2>5. ASSUME NEW m \in Meas, QueueOfflineFails(m)
        PROVE  DeletesAreSafe'
    BY <2>5 DEF QueueOfflineFails
  <2>6. ASSUME NEW m \in Meas, ClosePage(m) \/ \E a \in Answers : Say(m, a)
        PROVE  DeletesAreSafe'
    <3>1. UNCHANGED <<queue, sync, rows, skipped, promised>>
      BY <2>6 DEF ClosePage, Say
    <3>2. \A n \in Meas : upd'[n].items \in {upd[n].items, NoItems}
      BY <2>6, <2>a DEF ClosePage, Say, IdleUpd
    <3>3. \A n \in Meas : KeysMatch(upd'[n].items)
      BY <3>2, KeysMatchKept DEF DeletesAreSafe
    <3> QED BY <2>1, <2>a, <3>1, <3>3 DEF DeletesAreSafe
  <2>7. ASSUME NEW m \in Meas, UpdateRead(m)
        PROVE  DeletesAreSafe'
    <3>1. UNCHANGED <<queue, sync, rows, skipped, promised>>
      BY <2>7 DEF UpdateRead
    <3>2. \A n \in Meas : upd'[n].items \in {upd[n].items, NoItems, queue}
      BY <2>7, <2>a DEF UpdateRead, IdleUpd
    <3>3. \A n \in Meas : KeysMatch(upd'[n].items)
      BY <3>2, KeysMatchKept DEF DeletesAreSafe
    <3> QED BY <2>1, <2>a, <3>1, <3>3 DEF DeletesAreSafe
  <2>8. ASSUME NEW m \in Meas, UpdatePut(m)
        PROVE  DeletesAreSafe'
    <3> DEFINE mine == {k \in DOMAIN upd[m].items : SameMeasurement(upd[m].items[k], m)}
               p == [m |-> m, c |-> said[m]]
    <3>1. mine \subseteq {p.m}
      <4>1. KeysMatch(upd[m].items) /\ DOMAIN upd[m].items \subseteq Meas
        BY <2>a, QueuesAre DEF DeletesAreSafe
      <4> QED BY <4>1 DEF KeysMatch, SameMeasurement
    <3>2. queue' = Put(queue, mine, p)
      BY <2>8 DEF UpdatePut
    <3>3. upd'[m] = IdleUpd /\ \A n \in Meas : n # m => upd'[n] = upd[n]
      BY <2>8, <2>a DEF UpdatePut
    <3>4. UNCHANGED <<sync, rows, skipped, promised>>
      BY <2>8 DEF UpdatePut
    <3> HIDE DEF mine, p
    <3>5. KeysMatch(queue') /\ DOMAIN queue \subseteq DOMAIN queue'
      <4>1. KeysMatch(queue)
        BY DEF DeletesAreSafe
      <4> QED BY <3>1, <3>2, <4>1 DEF KeysMatch, Put
    <3>6. \A n \in Meas : KeysMatch(upd'[n].items)
      BY <3>3, KeysMatchKept DEF DeletesAreSafe, IdleUpd
    <3> QED BY <2>1, <2>a, <3>4, <3>5, <3>6
  <2>9. ASSUME NEW u \in updates, NEW ok \in BOOLEAN, HandleUpdate(u, ok)
        PROVE  DeletesAreSafe'
    <3>1. \A n \in Meas : rows'[n].copies = rows[n].copies
      BY <2>9, <2>a DEF HandleUpdate, Rows
    <3> QED BY <2>1, <2>9, <2>a, <3>1 DEF HandleUpdate, DeletesAreSafe
  <2>10. ASSUME NEW y \in Syncers, SyncRead(y) \/ SyncTimeout(y) \/ SyncFails(y) \/ SyncClosed(y)
         PROVE  DeletesAreSafe'
    <3>1. UNCHANGED <<queue, upd, rows, skipped, promised>>
      BY <2>10 DEF SyncRead, SyncTimeout, SyncFails, SyncClosed
    <3>2. /\ sync'[y].items \in {sync[y].items, queue, NoItems} /\ sync'[y].pc # "answered"
          /\ \A z \in Syncers : z # y => sync'[z] = sync[z]
      BY <2>10, <2>a DEF SyncRead, SyncTimeout, SyncFails, AfterRefusal, SyncClosed, IdleSync
    <3> QED BY <2>1, <2>a, <3>1, <3>2 DEF DeletesAreSafe
  <2>11. ASSUME NEW y \in Syncers, NEW answered \in BOOLEAN, HandleSync(y, answered)
         PROVE  DeletesAreSafe'
    <3>1. /\ UNCHANGED <<queue, upd, verdict, promised>>
          /\ skipped' = skipped \cup LeftOut(sync[y].items)
      BY <2>11 DEF HandleSync
    <3>2. rows' = [n \in Meas |-> AfterBatch(sync[y].items, n)]
      BY <2>11 DEF HandleSync
    <3>3. /\ sync'[y].items = NoItems \/ sync'[y].items = sync[y].items
          /\ \A z \in Syncers : z # y => sync'[z] = sync[z]
      BY <2>11, <2>a DEF HandleSync, IdleSync
    <3>4. \A n \in Meas : rows'[n].copies >= rows[n].copies /\ rows'[n].copies \in 0..2
      <4>1. \A n \in Meas : AfterBatch(sync[y].items, n) \in Rows
        BY <2>a, AfterBatchType
      <4> QED BY <2>a, <3>2, <4>1, BatchCopies DEF Rows
    <3>5. ASSUME NEW k \in DOMAIN sync'[y].items, sync'[y].pc = "answered"
          PROVE  rows'[k].copies > 0 \/ k \in skipped'
      <4>1. sync'[y].items = sync[y].items
        BY <2>11, <2>a, <3>5 DEF HandleSync, IdleSync
      <4>2. k \in Meas /\ Holds(sync[y].items, k)
        BY <2>b, <3>5, <4>1, KeysTell DEF DeletesAreSafe
      <4> QED BY <2>a, <3>1, <3>2, <4>2, BatchCopies DEF LeftOut
    <3> QED BY <2>1, <2>a, <3>1, <3>3, <3>4, <3>5 DEF DeletesAreSafe
  <2>12. ASSUME NEW y \in Syncers, SyncDelete(y)
         PROVE  DeletesAreSafe'
    <3>1. queue' = Restrict(queue, DOMAIN queue \ DOMAIN sync[y].items)
      BY <2>12 DEF SyncDelete
    <3>2. UNCHANGED <<upd, rows, skipped, promised>> /\ sync[y].pc = "answered"
      BY <2>12 DEF SyncDelete
    <3>3. sync'[y] = IdleSync /\ \A z \in Syncers : z # y => sync'[z] = sync[z]
      BY <2>12, <2>a DEF SyncDelete
    <3>4. KeysMatch(queue') /\ DOMAIN queue' = DOMAIN queue \ DOMAIN sync[y].items
      BY <3>1, KeysMatchKept DEF DeletesAreSafe, Restrict
    <3>5. NeverLost'
      <4>1. ASSUME NEW m \in promised
            PROVE  m \in DOMAIN queue' \/ rows[m].copies > 0 \/ m \in skipped
        <5>1. m \in DOMAIN queue \/ rows[m].copies > 0 \/ m \in skipped
          BY KeysTell DEF DeletesAreSafe, NeverLost, Queued
        <5>2. m \in DOMAIN sync[y].items => rows[m].copies > 0 \/ m \in skipped
          BY <3>2 DEF DeletesAreSafe
        <5> QED BY <3>4, <5>1, <5>2
      <4> QED BY <3>2, <3>4, <4>1, KeysTell DEF NeverLost, Queued
    <3>6. \A z \in Syncers : /\ KeysMatch(sync'[z].items)
                             /\ sync'[z].pc = "answered" => sync'[z] = sync[z]
      BY <3>3, KeysMatchKept DEF DeletesAreSafe, IdleSync
    <3> QED BY <3>2, <3>4, <3>5, <3>6 DEF DeletesAreSafe
  <2>13. CASE UNCHANGED vars
    BY <2>13, <2>1, <2>a DEF vars, DeletesAreSafe
  <2> QED BY <2>2, <2>3, <2>4, <2>5, <2>6, <2>7, <2>8, <2>9, <2>10, <2>11, <2>12, <2>13 DEF Next, Verdicts
<1>3. DeletesAreSafe => NeverLost
  BY DEF DeletesAreSafe
<1> QED BY <1>1, <1>2, <1>3, QueueTypeOK, PTL DEF Spec
=============================================================================
