---------------------------- MODULE OfflineQueue ----------------------------
(***************************************************************************)
(* A measurement on its way to the server: the page that takes it, the     *)
(* IndexedDB queue it falls back to, the batches that empty the queue when *)
(* the network returns (web/app.js), and the handlers that store it        *)
(* (handleObserve, handleUpdate and handleSync in                          *)
(* internal/server/server.go).                                             *)
(*                                                                         *)
(* The share button is never enabled again, so a page load takes one       *)
(* measurement and both go by the same name.  All pages of a browser share *)
(* the queue; its transactions are atomic, what a page does between two of *)
(* them is not.  A request that its page gave up may still reach a handler.*)
(***************************************************************************)
EXTENDS Naturals, FiniteSets, Functions

CONSTANTS
    Meas,          \* measurements
    Second,        \* [Meas -> Nat], the "t" of their payloads, in seconds
    Answers,       \* can the visitor make calls?
    NoAnswer,
    Syncers,       \* bound: syncPending calls in progress
    MaxSyncItems,  \* what handleSync accepts in one batch
    Refusable,     \* bound: measurements that may be refused other than for their age
    StorageWorks   \* IndexedDB is available and has room

ASSUME QueueAssumption ==
    /\ IsFiniteSet(Meas)
    /\ Second \in [Meas -> Nat]
    /\ NoAnswer \notin Answers
    /\ MaxSyncItems \in Nat
    /\ Refusable \subseteq Meas
    /\ StorageWorks \in BOOLEAN

VARIABLES
    page,      \* measurement -> where its page is
    said,      \* measurement -> what the visitor answered in its page
    queue,     \* IndexedDB, object store "pending": key -> payload
    upd,       \* measurement -> the updateQueued call of its page
    sync,      \* the syncPending calls
    flight,    \* POST /o no handler has taken yet
    updates,   \* POST /o/update no handler has taken yet: their payloads
    rows,      \* table observations: what it holds of each measurement
    verdict,   \* measurement -> what ValidatePayload says of its payload by now
    skipped,   \* history: measurements that a batch left out
    promised   \* history: "La observacion se guardo" or "Se guardara" was shown

vars == <<page, said, queue, upd, sync, flight, updates, rows, verdict, skipped, promised>>

Payload == [m : Meas, c : Answers \cup {NoAnswer}]

\* A queue key is drawn for each queueOffline call, which a measurement makes
\* once: the measurement stands for its key.
Queues == UNION {[K -> Payload] : K \in SUBSET Meas}

NoItems == [k \in {} |-> [m |-> k, c |-> NoAnswer]]

\* put() of one payload under some keys, new or not.
Put(q, K, p) == [k \in DOMAIN q \cup K |-> IF k \in K THEN p ELSE q[k]]

\* "copies" counts the rows up to two, which stands for several.
Rows == [copies : 0..2, answers : SUBSET Answers]

\* ValidatePayload accepts a payload or refuses it: because a value is out of its
\* range (accuracy above 10 km, which the page sends "de todos modos"), because the
\* device's clock is more than 5 minutes ahead, or because it is 30 days old.
Verdicts == {"accepted", "refused", "old"}

Accepted(m) == verdict[m] = "accepted"

Holds(items, m) == \E k \in DOMAIN items : items[k].m = m

Pages == {"none", "sending", "registered", "offline", "refused", "saved", "kept", "closed"}

IdleUpd == [pc |-> "idle", items |-> NoItems]

IdleSync == [pc |-> "idle", items |-> NoItems]

Init ==
    /\ page = [m \in Meas |-> "none"]
    /\ said = [m \in Meas |-> NoAnswer]
    /\ queue = NoItems
    /\ upd = [m \in Meas |-> IdleUpd]
    /\ sync = [y \in Syncers |-> IdleSync]
    /\ flight = {}
    /\ updates = {}
    /\ rows = [m \in Meas |-> [copies |-> 0, answers |-> {}]]
    /\ verdict = [m \in Meas |-> "accepted"]
    /\ skipped = {}
    /\ promised = {}

----------------------------------------------------------------------------
(* start, send and handleObserve *)

\* Mutant: the payload is queued before it is sent, to be safe.
Measure_QueueFirst(m, v) ==
    /\ page[m] = "none"
    /\ page' = [page EXCEPT ![m] = "sending"]
    /\ flight' = flight \cup {m}
    /\ verdict' = [verdict EXCEPT ![m] = v]
    /\ queue' = Put(queue, {m}, [m |-> m, c |-> NoAnswer])
    /\ UNCHANGED <<said, upd, sync, updates, rows, skipped, promised>>

\* The probes are done, the payload is built and posted, whatever the position
\* and the clock of the device are worth.
Measure(m, v) ==
    /\ page[m] = "none"
    /\ page' = [page EXCEPT ![m] = "sending"]
    /\ flight' = flight \cup {m}
    /\ verdict' = [verdict EXCEPT ![m] = v]
    /\ UNCHANGED <<said, queue, upd, sync, updates, rows, skipped, promised>>

OneMore(n) == IF n = 2 THEN 2 ELSE n + 1

\* handleObserve accepts the payload, stores the row and answers 201 with its id,
\* which reaches the page if it still waits; or the answer is lost.
HandleObserve(m, answered) ==
    /\ m \in flight
    /\ Accepted(m)
    /\ flight' = flight \ {m}
    /\ rows' = [rows EXCEPT ![m].copies = OneMore(@)]
    /\ page' = [page EXCEPT ![m] = IF @ = "sending" /\ answered THEN "registered" ELSE @]
    /\ UNCHANGED <<said, queue, upd, sync, updates, verdict, skipped, promised>>

\* It answers 400, for whatever ValidatePayload refuses, 429 or 503, or the
\* request is lost and the page hears nothing.
ObserveFails(m, answered) ==
    /\ m \in flight
    /\ flight' = flight \ {m}
    /\ page' = [page EXCEPT ![m] = IF @ = "sending" /\ answered THEN "refused" ELSE @]
    /\ UNCHANGED <<said, queue, upd, sync, updates, rows, verdict, skipped, promised>>

\* No network, or 15 seconds without an answer.
SendFails(m) ==
    /\ page[m] = "sending"
    /\ page' = [page EXCEPT ![m] = "offline"]
    /\ UNCHANGED <<said, queue, upd, sync, flight, updates, rows, verdict, skipped, promised>>

\* Both failures end in a queueOffline and in a promise to the visitor, that of
\* a 400 too ("Se guardara para reintentar"); only the first shows the question
\* about calls.
Promise(m) ==
    /\ page[m] \in {"offline", "refused"}
    /\ page' = [page EXCEPT ![m] = IF @ = "offline" THEN "saved" ELSE "kept"]
    /\ promised' = promised \cup {m}

QueueOffline(m) ==
    /\ Promise(m)
    /\ queue' = Put(queue, {m}, [m |-> m, c |-> NoAnswer])
    /\ UNCHANGED <<said, upd, sync, flight, updates, rows, verdict, skipped>>

\* IndexedDB fails, the error is swallowed and the promise is made.
QueueOfflineFails(m) ==
    /\ ~StorageWorks
    /\ Promise(m)
    /\ UNCHANGED <<said, queue, upd, sync, flight, updates, rows, verdict, skipped>>

ClosePage(m) ==
    /\ page[m] \notin {"none", "closed"}
    /\ page' = [page EXCEPT ![m] = "closed"]
    /\ said' = [said EXCEPT ![m] = NoAnswer]
    /\ upd' = [upd EXCEPT ![m] = IdleUpd]
    /\ UNCHANGED <<queue, sync, flight, updates, rows, verdict, skipped, promised>>

----------------------------------------------------------------------------
(* The question about calls: bindFollowup, sendUpdate, updateQueued *)

\* The buttons are disabled after one click.  With an id the answer is posted,
\* without one it is written into the queue.
Say(m, a) ==
    /\ page[m] \in {"registered", "saved"}
    /\ said[m] = NoAnswer
    /\ said' = [said EXCEPT ![m] = a]
    /\ IF page[m] = "registered"
       THEN updates' = updates \cup {[m |-> m, c |-> a]} /\ UNCHANGED upd
       ELSE upd' = [upd EXCEPT ![m].pc = "read"] /\ UNCHANGED updates
    /\ UNCHANGED <<page, queue, sync, flight, rows, verdict, skipped, promised>>

\* Mutant: an update without an answer is written as one.
HandleUpdate_Blank(u, ok) ==
    /\ updates' = updates \ {u}
    /\ rows' = IF ok THEN [rows EXCEPT ![u.m].answers = {u.c, NoAnswer}] ELSE rows
    /\ UNCHANGED <<page, said, queue, upd, sync, flight, verdict, skipped, promised>>

\* handleUpdate; when it fails, or the request is lost, nobody is told.
HandleUpdate(u, ok) ==
    /\ updates' = updates \ {u}
    /\ rows' = IF ok THEN [rows EXCEPT ![u.m].answers = {u.c}] ELSE rows
    /\ UNCHANGED <<page, said, queue, upd, sync, flight, verdict, skipped, promised>>

\* The first transaction of updateQueued: getAll.
UpdateRead(m) ==
    /\ upd[m].pc = "read"
    /\ upd' = [upd EXCEPT ![m] = IF queue = NoItems THEN IdleUpd
                                 ELSE [pc |-> "put", items |-> queue]]
    /\ UNCHANGED <<page, said, queue, sync, flight, updates, rows, verdict, skipped, promised>>

\* updateQueued recognises its own payload by the second it was built in.
SameMeasurement(p, m) == Second[p.m] = Second[m]

\* The second transaction puts the payload back under every key that matched
\* in the first, whatever happened to the queue since.
UpdatePut(m) ==
    LET items == upd[m].items
        mine  == {k \in DOMAIN items : SameMeasurement(items[k], m)}
    IN  /\ upd[m].pc = "put"
        /\ queue' = Put(queue, mine, [m |-> m, c |-> said[m]])
        /\ upd' = [upd EXCEPT ![m] = IdleUpd]
        /\ UNCHANGED <<page, said, sync, flight, updates, rows, verdict, skipped, promised>>

----------------------------------------------------------------------------
(* syncPending and handleSync *)

\* The "online" event of some page: the whole queue in one request.
SyncRead(y) ==
    /\ sync[y].pc = "idle"
    /\ queue # NoItems
    /\ sync' = [sync EXCEPT ![y] = [pc |-> "posted", items |-> queue]]
    /\ UNCHANGED <<page, said, queue, upd, flight, updates, rows, verdict, skipped, promised>>

\* 30 seconds without an answer, or the page is closed: the batch is on its own.
SyncTimeout(y) ==
    /\ sync[y].pc = "posted"
    /\ sync' = [sync EXCEPT ![y].pc = "late"]
    /\ UNCHANGED <<page, said, queue, upd, flight, updates, rows, verdict, skipped, promised>>

\* The rows of a measurement after a batch: the items ValidatePayload refuses,
\* for any reason, are left out, the others are inserted together.
AfterBatch(items, m) ==
    LET valid == {k \in DOMAIN items : items[k].m = m /\ Accepted(m)}
    IN  [copies  |-> IF valid = {} THEN rows[m].copies
                     ELSE IF Cardinality(valid) > 1 THEN 2 ELSE OneMore(rows[m].copies),
         answers |-> rows[m].answers \cup ({items[k].c : k \in valid} \ {NoAnswer})]

LeftOut(items) == {m \in Meas : Holds(items, m) /\ ~Accepted(m)}

\* Mutant: one invalid item makes the batch a bad request.
HandleSync_Strict(y, answered) ==
    /\ sync[y].pc \in {"posted", "late"}
    /\ Cardinality(DOMAIN sync[y].items) <= MaxSyncItems
    /\ \A k \in DOMAIN sync[y].items : Accepted(sync[y].items[k].m)
    /\ rows' = [m \in Meas |-> AfterBatch(sync[y].items, m)]
    /\ sync' = [sync EXCEPT ![y] = IF @.pc = "posted" /\ answered
                                   THEN [@ EXCEPT !.pc = "answered"] ELSE IdleSync]
    /\ skipped' = skipped \cup LeftOut(sync[y].items)
    /\ UNCHANGED <<page, said, queue, upd, flight, updates, verdict, promised>>

\* What is left of the batch is stored, and the batch is answered 204 whatever
\* was left out of it.
HandleSync(y, answered) ==
    /\ sync[y].pc \in {"posted", "late"}
    /\ Cardinality(DOMAIN sync[y].items) <= MaxSyncItems
    /\ rows' = [m \in Meas |-> AfterBatch(sync[y].items, m)]
    /\ sync' = [sync EXCEPT ![y] = IF @.pc = "posted" /\ answered
                                   THEN [@ EXCEPT !.pc = "answered"] ELSE IdleSync]
    /\ skipped' = skipped \cup LeftOut(sync[y].items)
    /\ UNCHANGED <<page, said, queue, upd, flight, updates, verdict, promised>>

\* Mutant: whatever is answered, the items are deleted.
AfterRefusal_Answered(s) == [s EXCEPT !.pc = "answered"]

\* syncPending does nothing when r.ok is false.
AfterRefusal(s) == IdleSync

\* It is refused, with 413, 429 or 503, or lost.
SyncFails(y) ==
    /\ sync[y].pc \in {"posted", "late"}
    /\ sync' = [sync EXCEPT ![y] = AfterRefusal(@)]
    /\ UNCHANGED <<page, said, queue, upd, flight, updates, rows, verdict, skipped, promised>>

\* The items that were posted are deleted, by key.
SyncDelete(y) ==
    /\ sync[y].pc = "answered"
    /\ queue' = Restrict(queue, DOMAIN queue \ DOMAIN sync[y].items)
    /\ sync' = [sync EXCEPT ![y] = IdleSync]
    /\ UNCHANGED <<page, said, upd, flight, updates, rows, verdict, skipped, promised>>

\* The page is closed between the answer and the deletion.
SyncClosed(y) ==
    /\ sync[y].pc = "answered"
    /\ sync' = [sync EXCEPT ![y] = IdleSync]
    /\ UNCHANGED <<page, said, queue, upd, flight, updates, rows, verdict, skipped, promised>>

----------------------------------------------------------------------------
\* Thirty days go by: the page and its own requests are long gone.
Expire(m) ==
    /\ page[m] = "closed"
    /\ Accepted(m)
    /\ m \notin flight
    /\ \A u \in updates : u.m # m
    /\ verdict' = [verdict EXCEPT ![m] = "old"]
    /\ UNCHANGED <<page, said, queue, upd, sync, flight, updates, rows, skipped, promised>>

\* The server's clock comes within 5 minutes of the payload's: it never does when
\* it is another value that was refused.
CatchUp(m) ==
    /\ verdict[m] = "refused"
    /\ verdict' = [verdict EXCEPT ![m] = "accepted"]
    /\ UNCHANGED <<page, said, queue, upd, sync, flight, updates, rows, skipped, promised>>

Next ==
    \/ \E m \in Meas :
         \/ Measure(m, "accepted")
         \/ m \in Refusable /\ Measure(m, "refused")
         \/ \E answered \in BOOLEAN : HandleObserve(m, answered) \/ ObserveFails(m, answered)
         \/ SendFails(m)
         \/ QueueOffline(m)
         \/ QueueOfflineFails(m)
         \/ ClosePage(m)
         \/ \E a \in Answers : Say(m, a)
         \/ UpdateRead(m)
         \/ UpdatePut(m)
         \/ Expire(m)
         \/ CatchUp(m)
    \/ \E u \in updates, ok \in BOOLEAN : HandleUpdate(u, ok)
    \/ \E y \in Syncers :
         \/ SyncRead(y)
         \/ SyncTimeout(y)
         \/ \E answered \in BOOLEAN : HandleSync(y, answered)
         \/ SyncFails(y)
         \/ SyncDelete(y)
         \/ SyncClosed(y)

Spec == Init /\ [][Next]_vars

\* The network keeps coming back, some batch is answered and the page lives to
\* delete what it sent.
Fairness ==
    \A y \in Syncers :
        /\ SF_vars(SyncRead(y))
        /\ SF_vars(HandleSync(y, TRUE) /\ sync[y].pc = "posted")
        /\ SF_vars(SyncDelete(y))
        /\ WF_vars(SyncFails(y) \/ HandleSync(y, FALSE))

FairSpec == Spec /\ Fairness

----------------------------------------------------------------------------
(* Properties *)

\* Type invariant.
TypeOK ==
    /\ page \in [Meas -> Pages]
    /\ said \in [Meas -> Answers \cup {NoAnswer}]
    /\ queue \in Queues
    /\ upd \in [Meas -> [pc : {"idle", "read", "put"}, items : Queues]]
    /\ sync \in [Syncers -> [pc : {"idle", "posted", "late", "answered"}, items : Queues]]
    /\ flight \subseteq Meas
    /\ updates \subseteq [m : Meas, c : Answers]
    /\ rows \in [Meas -> Rows]
    /\ verdict \in [Meas -> Verdicts]
    /\ skipped \subseteq Meas
    /\ promised \subseteq Meas

Queued(m) == Holds(queue, m)

\* A measurement the visitor was told is safe (app.js:293, app.js:297-298) is in
\* the queue or in the table: no lost answer, overlapping batch, late request or
\* answer to the question drops it.  One thing does: a batch that leaves it out
\* because ValidatePayload refuses it, as old after 30 days, but also for ever
\* (accuracy above 10 km) or as early (clock ahead).  Of those the code breaks the
\* promise it makes: the 400 is followed by "Se guardara para reintentar", the
\* batch is answered 204 all the same (server.go:368-371), and the page deletes
\* the item without a word (app.js:239-242).
NeverLost == \A m \in promised : Queued(m) \/ rows[m].copies > 0 \/ m \in skipped

\* An observation confirmed with its id is stored once, and no later batch
\* stores it again.
RegisteredOnce ==
    \A m \in Meas : page[m] = "registered" => rows[m].copies = 1 /\ ~Queued(m)

KeysMatch(items) == \A k \in DOMAIN items : items[k].m = k

\* Inductive form of NeverLost, for measurements of different seconds: every copy
\* of the queue keeps a payload under its own key, and a batch that was answered
\* lists nothing that is neither stored nor left out.
DeletesAreSafe ==
    /\ NeverLost
    /\ KeysMatch(queue)
    /\ \A m \in Meas : KeysMatch(upd[m].items)
    /\ \A y \in Syncers : /\ KeysMatch(sync[y].items)
                          /\ sync[y].pc = "answered" =>
                                \A k \in DOMAIN sync[y].items : rows[k].copies > 0 \/ k \in skipped

\* A measurement that was not queued yet is in no copy of the queue.
Unqueued(m) ==
    /\ ~Queued(m)
    /\ \A n \in Meas : ~Holds(upd[n].items, m)
    /\ \A y \in Syncers : ~Holds(sync[y].items, m)

\* Inductive form of RegisteredOnce: until its POST fails in the page, a
\* measurement is stored by that POST or not at all.
OneWay ==
    \A m \in Meas :
        /\ page[m] \in {"none", "sending", "offline", "refused", "registered"} => Unqueued(m)
        /\ page[m] = "none" => m \notin flight /\ rows[m].copies = 0
        /\ page[m] = "sending" /\ m \in flight => rows[m].copies = 0
        /\ page[m] = "registered" => m \notin flight /\ rows[m].copies = 1
        /\ upd[m].pc # "idle" => page[m] = "saved"

\* What the page says once the visitor answered (app.js:318, "Senal para llamadas
\* registrada"), even without network: the answer is in the table, or in the
\* queue on its way there.
AnswerKept ==
    \A m \in Meas :
        said[m] # NoAnswer /\ page[m] = "saved" =>
            \/ said[m] \in rows[m].answers
            \/ upd[m].pc # "idle"
            \/ \E k \in DOMAIN queue : queue[k] = [m |-> m, c |-> said[m]]

\* What CHECKLIST.md:100 says: the queue is sent again when the network is back,
\* and so nothing stays in it for ever.
QueueDrains == \A k \in Meas : [](k \in DOMAIN queue => <>(k \notin DOMAIN queue))
=============================================================================
