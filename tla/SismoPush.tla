----------------------------- MODULE SismoPush -----------------------------
(***************************************************************************)
(* Seismic alerts: the loop that polls the SGC catalogue and the goroutines*)
(* that push what is new (internal/server/server.go), the tables that make *)
(* both survive a restart (internal/store/pg.go), the answers of the push  *)
(* service (internal/push/push.go) and the browsers that subscribe         *)
(* (web/map.js).                                                           *)
(*                                                                         *)
(* A server is one process; a redeployment runs the new one while the old  *)
(* one stops, so several share the database.  Lists are modelled as sets:  *)
(* the catalogue answers in an order of its own, so which five events are  *)
(* kept, and the order of inserts and sends, are left open.                *)
(***************************************************************************)
EXTENDS Naturals, FiniteSets, FiniteSetsExt

CONSTANTS
    Events,      \* ids of the SGC catalogue
    Strong,      \* those whose magnitude reaches SismoMinMag
    Endpoints,   \* push endpoints; a browser that subscribes anew gets a new one
    Servers,
    MaxNotify    \* 5: events announced per poll

ASSUME SismoAssumption ==
    /\ Strong \subseteq Events
    /\ IsFiniteSet(Events)
    /\ MaxNotify \in Nat \ {0}

VARIABLES
    catalog,     \* what the SGC lists within the window
    stored,      \* table sismo_events
    subs,        \* table push_subscriptions
    poll,        \* server -> the state of its sismoPollLoop
    jobs,        \* the notifySismos goroutines
    client,      \* endpoint -> what its browser knows of it
    posts,       \* subscribe requests on their way to a server
    unposts,     \* unsubscribe requests on their way to a server
    announced,   \* history: events handed to notifySismos
    sent,        \* history: notifications delivered, per event and endpoint
    seeded       \* history: servers that have completed a poll since they started

vars == <<catalog, stored, subs, poll, jobs, client, posts, unposts, announced, sent, seeded>>

net == <<client, posts, unposts>>

Poll == [pc : {"down", "fetch", "insert", "wait"},
         first : BOOLEAN,             \* no cycle has ended yet
         todo : SUBSET Events,        \* fetched and not yet inserted
         inserted : SUBSET Events]    \* what InsertSismoEvents is to return

\* What one poll may announce.
Announcement == {S \in SUBSET Strong : Cardinality(S) <= MaxNotify}

Job == [srv : Servers,
        evs : Announcement,
        pc : {"list", "send", "delete"},
        left : SUBSET (Events \X Endpoints),
        dead : SUBSET Endpoints]      \* the endpoint to delete

Client == {"none", "posting", "active", "failed", "gone"}

Down == [pc |-> "down", first |-> TRUE, todo |-> {}, inserted |-> {}]

Init ==
    /\ catalog \in SUBSET Events
    /\ stored = {}
    /\ subs = {}
    /\ poll = [s \in Servers |-> Down]
    /\ jobs = {}
    /\ client = [p \in Endpoints |-> "none"]
    /\ posts = {}
    /\ unposts = {}
    /\ announced = {}
    /\ sent = [d \in Events \X Endpoints |-> 0]
    /\ seeded = {}

----------------------------------------------------------------------------
(* The process *)

\* runServe: SetupPush succeeded, StartSismoPolling starts the loop.
Start(s) ==
    /\ poll[s].pc = "down"
    /\ poll' = [poll EXCEPT ![s] = [Down EXCEPT !.pc = "fetch"]]
    /\ UNCHANGED <<catalog, stored, subs, jobs, net, announced, sent, seeded>>

\* The process stops, by a signal or a crash, and its goroutines with it.
Stop(s) ==
    /\ poll[s].pc # "down"
    /\ poll' = [poll EXCEPT ![s] = Down]
    /\ jobs' = {j \in jobs : j.srv # s}
    /\ seeded' = seeded \ {s}
    /\ UNCHANGED <<catalog, stored, subs, net, announced, sent>>

----------------------------------------------------------------------------
(* sismoPollLoop and pollSismosOnce *)

\* A cycle ends, with an error or without: first is FALSE from now on.
CycleEnd(s) == poll' = [poll EXCEPT ![s] = [Down EXCEPT !.pc = "wait", !.first = FALSE]]

\* fetchAllSgcEvents: the whole window, or part of it when it takes more than
\* ten pages or moves between two of them.
Fetch(s, R) ==
    /\ poll[s].pc = "fetch"
    /\ poll' = [poll EXCEPT ![s].pc = "insert", ![s].todo = R]
    /\ UNCHANGED <<catalog, stored, subs, jobs, net, announced, sent, seeded>>

FetchFails(s) ==
    /\ poll[s].pc = "fetch"
    /\ CycleEnd(s)
    /\ UNCHANGED <<catalog, stored, subs, jobs, net, announced, sent, seeded>>

\* Mutant: RowsAffected is not looked at.
NewlyInserted_All(e) == {e}

\* What an INSERT ... ON CONFLICT (id) DO NOTHING adds to the result.
NewlyInserted(e) == {e} \ stored

\* One statement of InsertSismoEvents.
InsertOne(s, e) ==
    /\ poll[s].pc = "insert"
    /\ e \in poll[s].todo
    /\ stored' = stored \cup {e}
    /\ poll' = [poll EXCEPT ![s].todo = @ \ {e}, ![s].inserted = @ \cup NewlyInserted(e)]
    /\ UNCHANGED <<catalog, subs, jobs, net, announced, sent, seeded>>

\* A statement fails: pollSismosOnce returns the error, and forgets what the
\* statements before it inserted.
InsertFails(s) ==
    /\ poll[s].pc = "insert"
    /\ poll[s].todo # {}
    /\ CycleEnd(s)
    /\ UNCHANGED <<catalog, stored, subs, jobs, net, announced, sent, seeded>>

\* Mutant: a burst is not truncated.
Truncations_Whole(S) == {S \cap Strong}

\* The events that are strong enough, truncated to MaxNotify.
Truncations(S) ==
    LET strong == S \cap Strong
    IN  kSubset(IF Cardinality(strong) > MaxNotify THEN MaxNotify ELSE Cardinality(strong), strong)

\* The goroutine of notifySismos, which returns at once when T is empty.
Notifier(s, T) ==
    IF T = {} THEN {}
    ELSE {[srv |-> s, evs |-> T, pc |-> "list", left |-> {}, dead |-> {}]}

\* The events are stored: the first cycle of a process keeps silent, a later
\* one announces.
Announce(s, T) ==
    /\ poll[s].pc = "insert"
    /\ poll[s].todo = {}
    /\ IF poll[s].first THEN T = {} ELSE T \in Truncations(poll[s].inserted)
    /\ jobs' = jobs \cup Notifier(s, T)
    /\ announced' = announced \cup T
    /\ seeded' = seeded \cup {s}
    /\ CycleEnd(s)
    /\ UNCHANGED <<catalog, stored, subs, net, sent>>

\* Mutant: an error of the first cycle ends the loop.
Wake_OnceSeeded(s) ==
    /\ poll[s].pc = "wait"
    /\ s \in seeded
    /\ poll' = [poll EXCEPT ![s].pc = "fetch"]
    /\ UNCHANGED <<catalog, stored, subs, jobs, net, announced, sent, seeded>>

\* time.After(interval)
Wake(s) ==
    /\ poll[s].pc = "wait"
    /\ poll' = [poll EXCEPT ![s].pc = "fetch"]
    /\ UNCHANGED <<catalog, stored, subs, jobs, net, announced, sent, seeded>>

----------------------------------------------------------------------------
(* notifySismos: one goroutine per poll that found something, so that a     *)
(* slow one overlaps the next                                               *)

Replace(j, k) == jobs' = (jobs \ {j}) \cup {k}

Return(j) == jobs' = jobs \ {j}

\* On to the next send, or the end of the function.
Continue(j, k) == IF k.left = {} THEN Return(j) ELSE Replace(j, k)

\* ListPushSubscriptions, read once for all the events.
ListSubs(j) ==
    /\ j.pc = "list"
    /\ Continue(j, [j EXCEPT !.pc = "send", !.left = j.evs \X subs])
    /\ UNCHANGED <<catalog, stored, subs, poll, net, announced, sent, seeded>>

ListFails(j) ==
    /\ j.pc = "list"
    /\ Return(j)
    /\ UNCHANGED <<catalog, stored, subs, poll, net, announced, sent, seeded>>

\* Mutant: what may have failed is sent again.
Send_Retries(j, d, n) ==
    /\ j.pc = "send"
    /\ d \in j.left
    /\ client[d[2]] # "gone"
    /\ sent' = [sent EXCEPT ![d] = @ + n]
    /\ \/ Continue(j, [j EXCEPT !.left = @ \ {d}])
       \/ UNCHANGED jobs
    /\ UNCHANGED <<catalog, stored, subs, poll, net, announced, seeded>>

\* Send answers 201, or 4xx of another kind: nothing more to do.  With an error
\* (a timeout, a 5xx) the notification may have been delivered all the same;
\* either way it is not sent again.  n is the number of deliveries.
Send(j, d, n) ==
    /\ j.pc = "send"
    /\ d \in j.left
    /\ client[d[2]] # "gone"
    /\ sent' = [sent EXCEPT ![d] = @ + n]
    /\ Continue(j, [j EXCEPT !.left = @ \ {d}])
    /\ UNCHANGED <<catalog, stored, subs, poll, net, announced, seeded>>

\* Mutant: any failure of the push service counts as 410 Gone.
Refused_Always(p) == TRUE

\* The push service answers 404 or 410.
Refused(p) == client[p] = "gone"

SendGone(j, d) ==
    /\ j.pc = "send"
    /\ d \in j.left
    /\ Refused(d[2])
    /\ Replace(j, [j EXCEPT !.pc = "delete", !.left = @ \ {d}, !.dead = {d[2]}])
    /\ UNCHANGED <<catalog, stored, subs, poll, net, announced, sent, seeded>>

\* Mutant: when the deletion fails the endpoint is tried again.
DeleteFails_Retries(j) ==
    /\ j.pc = "delete"
    /\ Continue(j, [j EXCEPT !.pc = "send", !.left = @ \cup (j.evs \X j.dead), !.dead = {}])
    /\ UNCHANGED <<catalog, stored, subs, poll, net, announced, sent, seeded>>

\* DeletePushSubscription; an error is logged and the loop goes on.
DeleteFails(j) ==
    /\ j.pc = "delete"
    /\ Continue(j, [j EXCEPT !.pc = "send", !.dead = {}])
    /\ UNCHANGED <<catalog, stored, subs, poll, net, announced, sent, seeded>>

DeleteGone(j) ==
    /\ j.pc = "delete"
    /\ subs' = subs \ j.dead
    /\ Continue(j, [j EXCEPT !.pc = "send", !.dead = {}])
    /\ UNCHANGED <<catalog, stored, poll, net, announced, sent, seeded>>

----------------------------------------------------------------------------
(* Browsers, and the handlers that answer them *)

\* pushManager.subscribe gives an endpoint, and its browser posts it.
Subscribe(p) ==
    /\ client[p] = "none"
    /\ client' = [client EXCEPT ![p] = "posting"]
    /\ posts' = posts \cup {p}
    /\ UNCHANGED <<catalog, stored, subs, poll, jobs, unposts, announced, sent, seeded>>

\* The page hears that its POST failed.
Fail(p) == client' = [client EXCEPT ![p] = IF @ = "posting" THEN "failed" ELSE @]

\* handlePushSubscribe stores it; the answer reaches the page, or does not.
HandleSubscribe(p, answered) ==
    /\ p \in posts
    /\ subs' = subs \cup {p}
    /\ posts' = posts \ {p}
    /\ IF answered
       THEN client' = [client EXCEPT ![p] = IF @ = "posting" THEN "active" ELSE @]
       ELSE Fail(p)
    /\ UNCHANGED <<catalog, stored, poll, jobs, unposts, announced, sent, seeded>>

\* It is refused (429, 500) or lost on its way.
SubscribeFails(p) ==
    /\ p \in posts
    /\ posts' = posts \ {p}
    /\ Fail(p)
    /\ UNCHANGED <<catalog, stored, subs, poll, jobs, unposts, announced, sent, seeded>>

\* The connection breaks while the request is still on its way.
SubscribeAbandoned(p) ==
    /\ client[p] = "posting"
    /\ Fail(p)
    /\ UNCHANGED <<catalog, stored, subs, poll, jobs, posts, unposts, announced, sent, seeded>>

\* A second click after the failure finds the subscription and gives it up,
\* first in the browser, then with a POST nobody waits for.
Unsubscribe(p) ==
    /\ client[p] = "failed"
    /\ client' = [client EXCEPT ![p] = "gone"]
    /\ unposts' = unposts \cup {p}
    /\ UNCHANGED <<catalog, stored, subs, poll, jobs, posts, announced, sent, seeded>>

\* handlePushUnsubscribe; when it fails, or the POST is lost, the row stays.
HandleUnsubscribe(p, ok) ==
    /\ p \in unposts
    /\ unposts' = unposts \ {p}
    /\ subs' = IF ok THEN subs \ {p} ELSE subs
    /\ UNCHANGED <<catalog, stored, poll, jobs, client, posts, announced, sent, seeded>>

\* The permission is revoked, or the push service drops the endpoint.
Expire(p) ==
    /\ client[p] \in {"active", "failed"}
    /\ client' = [client EXCEPT ![p] = "gone"]
    /\ UNCHANGED <<catalog, stored, subs, poll, jobs, posts, unposts, announced, sent, seeded>>

----------------------------------------------------------------------------
(* The SGC *)

\* An event is listed, leaves the window, or is withdrawn and listed again.
CatalogChanges(e) ==
    /\ catalog' = IF e \in catalog THEN catalog \ {e} ELSE catalog \cup {e}
    /\ UNCHANGED <<stored, subs, poll, jobs, net, announced, sent, seeded>>

----------------------------------------------------------------------------
PollStep(s) ==
    \/ \E R \in SUBSET catalog : Fetch(s, R)
    \/ FetchFails(s)
    \/ \E e \in Events : InsertOne(s, e)
    \/ InsertFails(s)
    \/ \E T \in SUBSET Events : Announce(s, T)
    \/ Wake(s)

JobStep(j) ==
    \/ ListSubs(j)
    \/ ListFails(j)
    \/ \E d \in j.left : \/ \E n \in {0, 1} : Send(j, d, n)
                         \/ SendGone(j, d)
    \/ DeleteGone(j)
    \/ DeleteFails(j)

BrowserStep(p) ==
    \/ Subscribe(p)
    \/ \E answered \in BOOLEAN : HandleSubscribe(p, answered)
    \/ SubscribeFails(p)
    \/ SubscribeAbandoned(p)
    \/ Unsubscribe(p)
    \/ \E ok \in BOOLEAN : HandleUnsubscribe(p, ok)
    \/ Expire(p)

Next ==
    \/ \E s \in Servers : Start(s) \/ Stop(s) \/ PollStep(s)
    \/ \E j \in jobs : JobStep(j)
    \/ \E p \in Endpoints : BrowserStep(p)
    \/ \E e \in Events : CatalogChanges(e)

Spec == Init /\ [][Next]_vars

\* A running loop takes its next step, a notifier its own; the catalogue and the
\* database do not fail for ever.
Fairness ==
    /\ \A s \in Servers : WF_vars(PollStep(s)) /\ SF_vars(Fetch(s, catalog))
    /\ \A s \in Servers, e \in Events : SF_vars(InsertOne(s, e))
    /\ \A e \in Events : WF_vars(\E j \in jobs : e \in j.evs /\ JobStep(j))

FairSpec == Spec /\ Fairness

----------------------------------------------------------------------------
(* Properties *)

\* Type invariant.  A notifier works for strong events only, and for MaxNotify
\* of them at most.
TypeOK ==
    /\ catalog \subseteq Events
    /\ stored \subseteq Events
    /\ subs \subseteq Endpoints
    /\ poll \in [Servers -> Poll]
    /\ jobs \subseteq Job
    /\ client \in [Endpoints -> Client]
    /\ posts \subseteq Endpoints
    /\ unposts \subseteq Endpoints
    /\ announced \subseteq Events
    /\ sent \in [Events \X Endpoints -> Nat]
    /\ seeded \subseteq Servers

\* No event is delivered twice to a subscription, whatever the servers that
\* poll at once, the restarts, the partial inserts and the slow notifiers.
AtMostOnce == \A d \in Events \X Endpoints : sent[d] <= 1

\* A stored event is in the hands of one poll at most, and of none once it has
\* been announced.
RecordedOnce ==
    /\ announced \subseteq stored
    /\ \A s \in Servers : poll[s].inserted \subseteq stored \ announced
    /\ \A s, t \in Servers : s # t => poll[s].inserted \cap poll[t].inserted = {}

\* What a notifier has still to send has not been sent by anybody.
JobSound(j) ==
    /\ j.evs # {} /\ j.evs \subseteq announced
    /\ j.left \subseteq j.evs \X Endpoints
    /\ j.pc = "list" => \A d \in j.evs \X Endpoints : sent[d] = 0
    /\ \A d \in j.left : sent[d] = 0

\* Inductive form of AtMostOnce: each event belongs to one poll, then to one
\* notifier, and a notifier owes a subscription only what nobody sent it.
EventsOwned ==
    /\ RecordedOnce
    /\ \A j \in jobs : JobSound(j)
    /\ \A j, k \in jobs : j # k => j.evs \cap k.evs = {}
    /\ \A d \in Events \X Endpoints : d[1] \notin announced => sent[d] = 0
    /\ AtMostOnce

\* A page that was told its alerts are on stays subscribed for as long as its
\* endpoint lives: no failure of the push service, no other request, and no
\* notifier working from an old list takes it off the table.
ActiveStaysStored == \A p \in Endpoints : client[p] = "active" => p \in subs

\* Inductive form of ActiveStaysStored: whatever is about to be deleted, by a
\* notifier or at the request of its browser, is gone for good.
DeletionsLate ==
    /\ ActiveStaysStored
    /\ \A j \in jobs : \A p \in j.dead : client[p] = "gone"
    /\ \A p \in unposts : client[p] = "gone"

\* What each event comes to, as AlertLedger tells it.
Fate == [e \in Events |->
            IF e \notin stored THEN "unknown"
            ELSE IF e \in announced THEN "announced"
            ELSE IF \E s \in Servers : e \in poll[s].inserted THEN "recorded"
            ELSE "silent"]

Ledger == INSTANCE AlertLedger WITH fate <- Fate, deliveries <- sent

\* The servers together keep the promise of AlertLedger.
ImplementsLedger == Ledger!Spec

\* What server.go:1876-1877 says ("El primer ciclo solo siembra el historial sin
\* notificar para evitar una rafaga al arrancar"): no server announces events
\* before it has stored the history it found.
SeedsBeforeAnnouncing ==
    [][announced' # announced => \E s \in seeded, T \in SUBSET Events : Announce(s, T)]_vars

\* An event that stays in the catalogue while a server stays up is recorded in
\* the end, even if every insert before it failed half way.
EventuallyRecorded ==
    \A s \in Servers, e \in Events :
        <>[](e \in catalog /\ poll[s].pc # "down") => <>(e \in stored)

Busy(e) == \E j \in jobs : e \in j.evs

\* A notifier always ends, however many endpoints are dead or deletions fail.
NotifiersEnd == \A e \in Events : Busy(e) ~> ~Busy(e)

=============================================================================
