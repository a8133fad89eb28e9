-------------------------- MODULE SismoPushProofs --------------------------
(* Proofs about SismoPush, for any number of events, subscriptions and     *)
(* servers, and any limit on the announcements of a poll; and about        *)
(* SismoProxy, for any catalogue, callers, requests and pages.             *)
EXTENDS SismoPush, SismoProxy, FiniteSetTheorems, SequenceTheorems, TLAPS

(* What is announced was newly inserted. *)
LEMMA TruncationsWithin ==
    ASSUME NEW S, NEW T \in Truncations(S)
    PROVE  T \subseteq S /\ T \subseteq Events
BY SismoAssumption DEF Truncations, kSubset

(* What may be announced are events of the catalogue. *)
LEMMA AnnouncementType == \A T \in Announcement : T \subseteq Events
BY SismoAssumption DEF Announcement

(* What is announced is strong and no more than the limit. *)
LEMMA TruncationsLimited ==
    ASSUME NEW S, NEW T \in Truncations(S)
    PROVE  T \in Announcement
<1> DEFINE strong == S \cap Strong
<1>1. IsFiniteSet(strong)
  BY SismoAssumption, FS_Subset
<1>2. Cardinality(strong) \in Nat
  BY <1>1, FS_CardinalityType
<1>3. T \subseteq strong /\ Cardinality(T) \in {MaxNotify, Cardinality(strong)}
      /\ (Cardinality(strong) > MaxNotify => Cardinality(T) = MaxNotify)
  BY DEF Truncations, kSubset
<1> HIDE DEF strong
<1>4. Cardinality(T) <= MaxNotify
  BY <1>2, <1>3, SismoAssumption
<1> QED BY <1>3, <1>4 DEF Announcement, strong

(* A step of a notifier leaves the others alone, and leaves at most one
   notifier in its place. *)
LEMMA ContinueJobs ==
    ASSUME NEW j, NEW k, Continue(j, k)
    PROVE  jobs' \subseteq (jobs \ {j}) \cup {k}
BY DEF Continue, Return, Replace

(* A loop that starts, ends a cycle or stops has a well-typed state and holds
   no event. *)
LEMMA CycleTypes ==
    /\ Down \in Poll /\ Down.inserted = {}
    /\ [Down EXCEPT !.pc = "fetch"] \in Poll
    /\ [Down EXCEPT !.pc = "wait", !.first = FALSE] \in Poll
    /\ [Down EXCEPT !.pc = "fetch"].inserted = {}
    /\ [Down EXCEPT !.pc = "wait", !.first = FALSE].inserted = {}
BY DEF Down, Poll

(* Type correctness of the tables, the loops, the notifiers and the browsers
   (sismoPollLoop, notifySismos, initSismoAlerts). *)
THEOREM SismoTypeOK == Spec => []TypeOK
<1>1. Init => TypeOK
  BY CycleTypes DEF Init, TypeOK, Client
<1>2. TypeOK /\ [Next]_vars => TypeOK'
  <2> SUFFICES ASSUME TypeOK, [Next]_vars PROVE TypeOK'
    OBVIOUS
  <2> USE DEF TypeOK
  <2>1. ASSUME NEW s \in Servers, Start(s) \/ Stop(s) \/ PollStep(s)
        PROVE  TypeOK'
    <3>1. CASE Start(s)
      BY <3>1, CycleTypes DEF Start, net
    <3>2. CASE Stop(s)
      BY <3>2, CycleTypes DEF Stop, net
    <3>3. ASSUME NEW R \in SUBSET catalog, Fetch(s, R)
          PROVE  TypeOK'
      <4>1. [poll[s] EXCEPT !.pc = "insert", !.todo = R] \in Poll
        BY DEF Poll
      <4> QED BY <3>3, <4>1 DEF Fetch, net
    <3>4. CASE FetchFails(s)
      BY <3>4, CycleTypes DEF FetchFails, CycleEnd, net
    <3>5. ASSUME NEW e \in Events, InsertOne(s, e)
          PROVE  TypeOK'
      <4>1. [poll[s] EXCEPT !.todo = @ \ {e}, !.inserted = @ \cup NewlyInserted(e)] \in Poll
        BY DEF Poll, NewlyInserted
      <4> QED BY <3>5, <4>1 DEF InsertOne, net
    <3>6. CASE InsertFails(s)
      BY <3>6, CycleTypes DEF InsertFails, CycleEnd, net
    <3>7. ASSUME NEW T \in SUBSET Events, Announce(s, T)
          PROVE  TypeOK'
      <4>1. Notifier(s, T) \subseteq Job
        BY <3>7, TruncationsLimited DEF Announce, Notifier, Job
      <4> QED BY <3>7, <4>1, CycleTypes DEF Announce, CycleEnd, net
    <3>8. CASE Wake(s)
      <4>1. [poll[s] EXCEPT !.pc = "fetch"] \in Poll
        BY DEF Poll
      <4> QED BY <3>8, <4>1 DEF Wake, net
    <3> QED BY <2>1, <3>1, <3>2, <3>3, <3>4, <3>5, <3>6, <3>7, <3>8 DEF PollStep
  <2>2. ASSUME NEW j \in jobs, JobStep(j)
        PROVE  TypeOK'
    <3> j \in Job
      OBVIOUS
    <3>1. ASSUME NEW k \in Job, Continue(j, k) \/ Replace(j, k)
          PROVE  jobs' \subseteq Job
      BY <3>1, ContinueJobs DEF Replace
    <3>2. CASE ListSubs(j)
      <4>1. [j EXCEPT !.pc = "send", !.left = j.evs \X subs] \in Job
        BY AnnouncementType DEF Job
      <4>2. jobs' \subseteq Job
        BY <3>1, <3>2, <4>1 DEF ListSubs
      <4> QED BY <3>2, <4>2 DEF ListSubs, net
    <3>3. CASE ListFails(j)
      BY <3>3 DEF ListFails, Return, net
    <3>4. ASSUME NEW d \in j.left, NEW n \in {0, 1}, Send(j, d, n)
          PROVE  TypeOK'
      <4>1. d \in Events \X Endpoints /\ [j EXCEPT !.left = @ \ {d}] \in Job
        BY DEF Job
      <4>2. jobs' \subseteq Job
        BY <3>1, <3>4, <4>1 DEF Send
      <4>3. sent' \in [Events \X Endpoints -> Nat]
        BY <3>4, <4>1 DEF Send
      <4> QED BY <3>4, <4>2, <4>3 DEF Send, net
    <3>5. ASSUME NEW d \in j.left, SendGone(j, d)
          PROVE  TypeOK'
      <4>1. [j EXCEPT !.pc = "delete", !.left = @ \ {d}, !.dead = {d[2]}] \in Job
        BY DEF Job
      <4>2. jobs' \subseteq Job
        BY <3>1, <3>5, <4>1 DEF SendGone
      <4> QED BY <3>5, <4>2 DEF SendGone, net
    <3>6. CASE DeleteGone(j) \/ DeleteFails(j)
      <4>1. [j EXCEPT !.pc = "send", !.dead = {}] \in Job
        BY DEF Job
      <4>2. jobs' \subseteq Job
        BY <3>1, <3>6, <4>1 DEF DeleteGone, DeleteFails
      <4> QED BY <3>6, <4>2 DEF DeleteGone, DeleteFails, net
    <3> QED BY <2>2, <3>2, <3>3, <3>4, <3>5, <3>6 DEF JobStep
  <2>3. ASSUME NEW p \in Endpoints, BrowserStep(p)
        PROVE  TypeOK'
    BY <2>3 DEF BrowserStep, Subscribe, HandleSubscribe, SubscribeFails, SubscribeAbandoned,
                Fail, Unsubscribe, HandleUnsubscribe, Expire, Client
  <2>4. ASSUME NEW e \in Events, CatalogChanges(e)
        PROVE  TypeOK'
    BY <2>4 DEF CatalogChanges, net
  <2>5. CASE UNCHANGED vars
    BY <2>5 DEF vars
  <2> QED BY <2>1, <2>2, <2>3, <2>4, <2>5 DEF Next
<1> QED BY <1>1, <1>2, PTL DEF Spec

----------------------------------------------------------------------------
(* A step of a notifier that keeps its events, and sends nothing anew, leaves
   every event with its owner. *)
LEMMA NotifierKeeps ==
    ASSUME TypeOK, EventsOwned, NEW j \in jobs, NEW k \in Job,
           k.evs = j.evs, k.left \subseteq j.evs \X Endpoints, k.pc # "list",
           jobs' \subseteq (jobs \ {j}) \cup {k},
           \A d \in k.left : sent'[d] = 0,
           \A d \in Events \X Endpoints : d[1] \notin j.evs => sent'[d] = sent[d],
           AtMostOnce', UNCHANGED <<poll, stored, announced>>
    PROVE  EventsOwned'
<1> USE DEF EventsOwned
<1>1. RecordedOnce'
  BY DEF RecordedOnce
<1>2. JobSound(j) /\ j \in Job
  BY DEF TypeOK
<1>3. ASSUME NEW i \in jobs, i # j
      PROVE  JobSound(i)' /\ i.evs \cap j.evs = {}
  <2>1. JobSound(i) /\ i.evs \cap j.evs = {} /\ i \in Job
    BY <1>3 DEF TypeOK
  <2>2. \A d \in i.evs \X Endpoints : d[1] \notin j.evs /\ d \in Events \X Endpoints
    BY <2>1, AnnouncementType DEF Job
  <2>3. \A d \in i.evs \X Endpoints : sent'[d] = sent[d]
    BY <2>2
  <2> QED BY <2>1, <2>3 DEF JobSound
<1>4. JobSound(k)'
  BY <1>2 DEF JobSound
<1>5. \A d \in Events \X Endpoints : d[1] \notin announced' => sent'[d] = 0
  BY <1>2 DEF JobSound
<1>6. \A i \in jobs' : JobSound(i)'
  BY <1>3, <1>4
<1>7. \A i, l \in jobs' : i # l => i.evs \cap l.evs = {}
  BY <1>3
<1> QED BY <1>1, <1>5, <1>6, <1>7

(* A step that sends nothing, creates no notifier and changes no table of
   events leaves every event with its owner, provided polls hold no more than
   before. *)
LEMMA NothingSent ==
    ASSUME EventsOwned, jobs' \subseteq jobs, UNCHANGED <<stored, announced, sent>>,
           \A s \in Servers : poll'[s].inserted \subseteq poll[s].inserted
    PROVE  EventsOwned'
<1>1. RecordedOnce'
  BY DEF EventsOwned, RecordedOnce
<1>2. \A j \in jobs' : JobSound(j)'
  BY DEF EventsOwned, JobSound
<1> QED BY <1>1, <1>2 DEF EventsOwned, AtMostOnce

(* Every event has one owner (pollSismosOnce, notifySismos,
   InsertSismoEvents): RowsAffected gives an event to one poll, whatever the
   number of servers; a poll gives it to one notifier; and a notifier never
   sends a pair again. *)
LEMMA SismoEventsOwned == Spec => []EventsOwned
<1>1. Init => EventsOwned
  BY DEF Init, Down, EventsOwned, RecordedOnce, AtMostOnce
<1>2. TypeOK /\ EventsOwned /\ [Next]_vars => EventsOwned'
  <2> SUFFICES ASSUME TypeOK, EventsOwned, [Next]_vars PROVE EventsOwned'
    OBVIOUS
  <2>1. ASSUME NEW s \in Servers, Start(s) \/ Stop(s) \/ PollStep(s)
        PROVE  EventsOwned'
    <3> poll \in [Servers -> Poll]
      BY DEF TypeOK
    <3>1. CASE Start(s) \/ Stop(s)
      <4>1. poll'[s].inserted = {} /\ \A t \in Servers : t # s => poll'[t] = poll[t]
        BY <3>1, CycleTypes DEF Start, Stop
      <4> QED BY <3>1, <4>1, NothingSent DEF Start, Stop
    <3>2. CASE FetchFails(s) \/ InsertFails(s)
      <4>1. poll'[s].inserted = {} /\ \A t \in Servers : t # s => poll'[t] = poll[t]
        BY <3>2, CycleTypes DEF FetchFails, InsertFails, CycleEnd
      <4> QED BY <3>2, <4>1, NothingSent DEF FetchFails, InsertFails
    <3>3. ASSUME (\E R \in SUBSET catalog : Fetch(s, R)) \/ Wake(s)
          PROVE  EventsOwned'
      <4>1. \A t \in Servers : poll'[t].inserted = poll[t].inserted
        BY <3>3 DEF Fetch, Wake, Poll
      <4> QED BY <3>3, <4>1, NothingSent DEF Fetch, Wake
    <3>4. ASSUME NEW e \in Events, InsertOne(s, e)
          PROVE  EventsOwned'
      <4>1. /\ poll'[s].inserted = poll[s].inserted \cup ({e} \ stored)
            /\ \A t \in Servers : t # s => poll'[t] = poll[t]
        BY <3>4 DEF InsertOne, NewlyInserted, Poll
      <4>2. stored' = stored \cup {e} /\ UNCHANGED <<jobs, announced, sent>>
        BY <3>4 DEF InsertOne
      <4>3. RecordedOnce'
        BY <4>1, <4>2 DEF EventsOwned, RecordedOnce
      <4>4. \A j \in jobs' : JobSound(j)'
        BY <4>2 DEF EventsOwned, JobSound
      <4> QED BY <4>2, <4>3, <4>4 DEF EventsOwned, AtMostOnce
    <3>5. ASSUME NEW T \in SUBSET Events, Announce(s, T)
          PROVE  EventsOwned'
      <4>1. T \subseteq poll[s].inserted
        BY <3>5, TruncationsWithin DEF Announce
      <4>2. /\ poll'[s].inserted = {}
            /\ \A t \in Servers : t # s => poll'[t] = poll[t]
        BY <3>5, CycleTypes DEF Announce, CycleEnd
      <4>3. announced' = announced \cup T /\ UNCHANGED <<stored, sent>>
        BY <3>5 DEF Announce
      <4>4. RecordedOnce /\ T \cap announced = {}
        BY <4>1 DEF EventsOwned, RecordedOnce
      <4>5. RecordedOnce'
        <5>1. \A t \in Servers : poll'[t].inserted \subseteq stored' \ announced'
          BY <4>1, <4>2, <4>3, <4>4 DEF RecordedOnce
        <5> QED BY <4>1, <4>2, <4>3, <4>4, <5>1 DEF RecordedOnce
      <4>6. \A d \in T \X Endpoints : sent[d] = 0
        BY <4>4 DEF EventsOwned
      <4>7. ASSUME NEW j \in jobs'
            PROVE  \/ j \in jobs
                   \/ j.evs = T /\ T # {} /\ j.pc = "list" /\ j.left = {}
        BY <3>5 DEF Announce, Notifier
      <4>8. \A j \in jobs : JobSound(j)' /\ j.evs \cap T = {}
        BY <4>3, <4>4 DEF EventsOwned, JobSound
      <4>9. \A j \in jobs' : JobSound(j)'
        BY <4>3, <4>6, <4>7, <4>8 DEF JobSound
      <4>10. ASSUME NEW j \in jobs', NEW k \in jobs', j # k
             PROVE  j.evs \cap k.evs = {}
        <5>1. CASE j \in jobs /\ k \in jobs
          BY <4>10, <5>1 DEF EventsOwned
        <5>2. CASE j \in jobs /\ k \notin jobs
          BY <4>7, <4>8, <5>2
        <5>3. CASE j \notin jobs /\ k \in jobs
          BY <4>7, <4>8, <5>3
        <5>4. CASE j \notin jobs /\ k \notin jobs
          BY <3>5, <4>10, <5>4 DEF Announce, Notifier
        <5> QED BY <5>1, <5>2, <5>3, <5>4
      <4> QED BY <4>3, <4>5, <4>9, <4>10 DEF EventsOwned, AtMostOnce
    <3> QED BY <2>1, <3>1, <3>2, <3>3, <3>4, <3>5 DEF PollStep
  <2>2. ASSUME NEW j \in jobs, JobStep(j)
        PROVE  EventsOwned'
    <3>1. j \in Job /\ JobSound(j) /\ AtMostOnce
      BY DEF TypeOK, EventsOwned
    <3>2. CASE ListSubs(j)
      <4> DEFINE k == [j EXCEPT !.pc = "send", !.left = j.evs \X subs]
      <4>1. k \in Job /\ k.evs = j.evs /\ k.left = j.evs \X subs /\ k.pc # "list"
        BY <3>1, AnnouncementType DEF TypeOK, Job
      <4>2. jobs' \subseteq (jobs \ {j}) \cup {k}
        BY <3>2, ContinueJobs DEF ListSubs
      <4>3. \A d \in k.left : sent[d] = 0 /\ d \in j.evs \X Endpoints
        BY <3>1, <3>2, <4>1 DEF ListSubs, JobSound, TypeOK
      <4>4. UNCHANGED <<sent, poll, stored, announced>>
        BY <3>2 DEF ListSubs
      <4> HIDE DEF k
      <4> QED BY <3>1, <4>1, <4>2, <4>3, <4>4, NotifierKeeps DEF AtMostOnce
    <3>3. CASE ListFails(j)
      BY <3>3, NothingSent DEF ListFails, Return
    <3>4. ASSUME NEW d \in j.left, NEW n \in {0, 1}, Send(j, d, n)
          PROVE  EventsOwned'
      <4> DEFINE k == [j EXCEPT !.left = @ \ {d}]
      <4>1. k \in Job /\ k.evs = j.evs /\ k.left = j.left \ {d} /\ k.pc # "list"
        BY <3>1, <3>4 DEF Send, Job
      <4>2. jobs' \subseteq (jobs \ {j}) \cup {k}
        BY <3>4, ContinueJobs DEF Send
      <4>3. d[1] \in j.evs /\ d \in Events \X Endpoints /\ sent[d] = 0
        BY <3>1 DEF JobSound, Job
      <4>4. /\ sent'[d] = n
            /\ \A c \in Events \X Endpoints : c # d => sent'[c] = sent[c]
        BY <3>4, <4>3 DEF Send, TypeOK
      <4>5. \A c \in k.left : sent'[c] = 0 /\ c \in j.evs \X Endpoints
        BY <3>1, <4>1, <4>4 DEF JobSound, Job
      <4>6. AtMostOnce'
        BY <3>1, <4>4 DEF AtMostOnce
      <4>7. \A c \in Events \X Endpoints : c[1] \notin j.evs => sent'[c] = sent[c]
        BY <4>3, <4>4
      <4>8. UNCHANGED <<poll, stored, announced>>
        BY <3>4 DEF Send
      <4> HIDE DEF k
      <4> QED BY <4>1, <4>2, <4>5, <4>6, <4>7, <4>8, NotifierKeeps
    <3>5. ASSUME NEW d \in j.left, SendGone(j, d)
          PROVE  EventsOwned'
      <4> DEFINE k == [j EXCEPT !.pc = "delete", !.left = @ \ {d}, !.dead = {d[2]}]
      <4>1. k \in Job /\ k.evs = j.evs /\ k.left = j.left \ {d} /\ k.pc # "list"
        BY <3>1 DEF Job, JobSound
      <4>2. jobs' \subseteq (jobs \ {j}) \cup {k}
        BY <3>5 DEF SendGone, Replace
      <4>3. \A c \in k.left : sent[c] = 0 /\ c \in j.evs \X Endpoints
        BY <3>1, <4>1 DEF JobSound
      <4>4. UNCHANGED <<sent, poll, stored, announced>>
        BY <3>5 DEF SendGone
      <4> HIDE DEF k
      <4> QED BY <3>1, <4>1, <4>2, <4>3, <4>4, NotifierKeeps DEF AtMostOnce
    <3>6. CASE DeleteGone(j) \/ DeleteFails(j)
      <4> DEFINE k == [j EXCEPT !.pc = "send", !.dead = {}]
      <4>1. k \in Job /\ k.evs = j.evs /\ k.left = j.left /\ k.pc # "list"
        BY <3>1 DEF Job
      <4>2. jobs' \subseteq (jobs \ {j}) \cup {k}
        BY <3>6, ContinueJobs DEF DeleteGone, DeleteFails
      <4>3. \A c \in k.left : sent[c] = 0 /\ c \in j.evs \X Endpoints
        BY <3>1, <4>1 DEF JobSound
      <4>4. UNCHANGED <<sent, poll, stored, announced>>
        BY <3>6 DEF DeleteGone, DeleteFails
      <4> HIDE DEF k
      <4> QED BY <3>1, <4>1, <4>2, <4>3, <4>4, NotifierKeeps DEF AtMostOnce
    <3> QED BY <2>2, <3>2, <3>3, <3>4, <3>5, <3>6 DEF JobStep
  <2>3. ASSUME NEW p \in Endpoints, BrowserStep(p)
        PROVE  EventsOwned'
    BY <2>3, NothingSent
       DEF BrowserStep, Subscribe, HandleSubscribe, SubscribeFails, SubscribeAbandoned,
           Unsubscribe, HandleUnsubscribe, Expire
  <2>4. CASE (\E e \in Events : CatalogChanges(e)) \/ UNCHANGED vars
    BY <2>4, NothingSent DEF CatalogChanges, vars
  <2> QED BY <2>1, <2>2, <2>3, <2>4 DEF Next
<1> QED BY <1>1, <1>2, SismoTypeOK, PTL DEF Spec

(* No event reaches a subscription twice, whatever the servers that poll, their
   restarts and the notifiers that overlap (pollSismosOnce, notifySismos). *)
THEOREM SismoAtMostOnce == Spec => []AtMostOnce
<1>1. EventsOwned => AtMostOnce
  BY DEF EventsOwned
<1> QED BY <1>1, SismoEventsOwned, PTL

----------------------------------------------------------------------------
(* When a poll lets go of its events, without a new notifier or with one, they
   are settled in the ledger: T is announced, the others stay silent. *)
LEMMA PollLetsGo ==
    ASSUME TypeOK, EventsOwned, NEW s \in Servers, NEW T \in SUBSET poll[s].inserted,
           poll'[s].inserted = {}, \A t \in Servers : t # s => poll'[t] = poll[t],
           announced' = announced \cup T, UNCHANGED <<stored, sent>>
    PROVE  Ledger!Next
<1> DEFINE S == poll[s].inserted
<1>1. S \in SUBSET Events /\ T \in SUBSET Events
  BY DEF TypeOK, Poll
<1>2. S \subseteq stored /\ S \cap announced = {}
  BY DEF EventsOwned, RecordedOnce
<1>3. \A e \in S : Fate[e] = "recorded"
  BY <1>1, <1>2 DEF Fate
<1>4. \A t \in Servers : t # s => poll'[t].inserted \cap S = {}
  BY DEF EventsOwned, RecordedOnce
<1>5. ASSUME NEW e \in Events
      PROVE  Fate'[e] = IF e \in T THEN "announced" ELSE IF e \in S THEN "silent" ELSE Fate[e]
  <2>1. Fate'[e] = IF e \notin stored THEN "unknown"
                   ELSE IF e \in announced \cup T THEN "announced"
                   ELSE IF \E t \in Servers : e \in poll'[t].inserted THEN "recorded"
                   ELSE "silent"
    BY DEF Fate
  <2>2. CASE e \in T
    BY <1>2, <2>1, <2>2
  <2>3. CASE e \notin T /\ e \in S
    <3>1. ~ \E t \in Servers : e \in poll'[t].inserted
      BY <1>4, <2>3
    <3> QED BY <1>2, <2>1, <2>3, <3>1
  <2>4. CASE e \notin S
    <3>1. (\E t \in Servers : e \in poll'[t].inserted)
            <=> (\E t \in Servers : e \in poll[t].inserted)
      BY <2>4
    <3> QED BY <2>1, <2>4, <3>1 DEF Fate
  <2> QED BY <2>2, <2>3, <2>4
<1>6. Fate' = [e \in Events |-> IF e \in T THEN "announced"
                                ELSE IF e \in S THEN "silent" ELSE Fate[e]]
  BY <1>5 DEF Fate
<1>7. Ledger!Settle(S, T)
  BY <1>3, <1>6 DEF Ledger!Settle
<1> QED BY <1>1, <1>7 DEF Ledger!Next

(* What each event comes to does not depend on the rest of the state. *)
LEMMA FateStays ==
    ASSUME UNCHANGED <<stored, announced>>,
           \A s \in Servers : poll'[s].inserted = poll[s].inserted
    PROVE  Fate' = Fate
BY DEF Fate

(* The servers together implement AlertLedger (sismoPollLoop, notifySismos,
   InsertSismoEvents): an event is recorded once, settled once with the others of
   its poll, announced or not, and delivered at most once per subscription. *)
THEOREM SismoImplementsLedger == Spec => ImplementsLedger
<1>1. Init => Ledger!Init
  <2> SUFFICES ASSUME Init PROVE Ledger!Init
    OBVIOUS
  <2>1. Fate = [e \in Events |-> "unknown"]
    BY DEF Init, Fate
  <2> QED BY <2>1 DEF Init, Ledger!Init
<1>2. TypeOK /\ EventsOwned /\ [Next]_vars => [Ledger!Next]_(Ledger!vars)
  <2> SUFFICES ASSUME TypeOK, EventsOwned, [Next]_vars
               PROVE  Ledger!Next \/ (Fate' = Fate /\ sent' = sent)
    BY DEF Ledger!vars
  <2> poll \in [Servers -> Poll]
    BY DEF TypeOK
  <2>1. ASSUME NEW s \in Servers, Start(s) \/ Stop(s) \/ FetchFails(s) \/ InsertFails(s)
        PROVE  Ledger!Next
    <3>1. poll'[s].inserted = {} /\ \A t \in Servers : t # s => poll'[t] = poll[t]
      BY <2>1, CycleTypes DEF Start, Stop, FetchFails, InsertFails, CycleEnd
    <3>2. UNCHANGED <<stored, announced, sent>>
      BY <2>1 DEF Start, Stop, FetchFails, InsertFails
    <3> QED BY <3>1, <3>2, PollLetsGo
  <2>2. ASSUME NEW s \in Servers, (\E R \in SUBSET catalog : Fetch(s, R)) \/ Wake(s)
        PROVE  Fate' = Fate /\ sent' = sent
    <3>1. \A t \in Servers : poll'[t].inserted = poll[t].inserted
      BY <2>2 DEF Fetch, Wake, Poll
    <3> QED BY <2>2, <3>1, FateStays DEF Fetch, Wake
  <2>3. ASSUME NEW s \in Servers, NEW e \in Events, InsertOne(s, e)
        PROVE  Ledger!Next \/ (Fate' = Fate /\ sent' = sent)
    <3>1. /\ poll'[s].inserted = poll[s].inserted \cup ({e} \ stored)
          /\ \A t \in Servers : t # s => poll'[t] = poll[t]
      BY <2>3 DEF InsertOne, NewlyInserted, Poll
    <3>2. stored' = stored \cup {e} /\ UNCHANGED <<announced, sent>>
      BY <2>3 DEF InsertOne
    <3>3. CASE e \in stored
      <4>1. \A t \in Servers : poll'[t].inserted = poll[t].inserted
        BY <3>1, <3>3
      <4> QED BY <3>2, <3>3, <4>1, FateStays
    <3>4. CASE e \notin stored
      <4>1. Fate[e] = "unknown"
        BY <3>4 DEF Fate
      <4>2. e \notin announced
        BY <3>4 DEF EventsOwned, RecordedOnce
      <4>3. ASSUME NEW x \in Events
            PROVE  Fate'[x] = IF x = e THEN "recorded" ELSE Fate[x]
        <5>1. (\E t \in Servers : x \in poll'[t].inserted)
                <=> (x = e \/ \E t \in Servers : x \in poll[t].inserted)
          BY <3>1, <3>4
        <5>2. Fate'[x] = IF x \notin stored' THEN "unknown"
                         ELSE IF x \in announced THEN "announced"
                         ELSE IF \E t \in Servers : x \in poll'[t].inserted THEN "recorded"
                         ELSE "silent"
          BY <3>2 DEF Fate
        <5> QED BY <3>2, <4>2, <5>1, <5>2 DEF Fate
      <4>4. Fate' = [Fate EXCEPT ![e] = "recorded"]
        BY <4>3 DEF Fate
      <4>5. Ledger!Record(e)
        BY <3>2, <4>1, <4>4 DEF Ledger!Record
      <4> QED BY <4>5 DEF Ledger!Next
    <3> QED BY <3>3, <3>4
  <2>4. ASSUME NEW s \in Servers, NEW T \in SUBSET Events, Announce(s, T)
        PROVE  Ledger!Next
    <3>1. T \subseteq poll[s].inserted
      BY <2>4, TruncationsWithin DEF Announce
    <3>2. poll'[s].inserted = {} /\ \A t \in Servers : t # s => poll'[t] = poll[t]
      BY <2>4, CycleTypes DEF Announce, CycleEnd
    <3>3. announced' = announced \cup T /\ UNCHANGED <<stored, sent>>
      BY <2>4 DEF Announce
    <3> QED BY <3>1, <3>2, <3>3, PollLetsGo
  <2>5. ASSUME NEW j \in jobs, NEW d \in j.left, NEW n \in {0, 1}, Send(j, d, n)
        PROVE  Ledger!Next \/ (Fate' = Fate /\ sent' = sent)
    <3>1. j \in Job /\ JobSound(j)
      BY DEF TypeOK, EventsOwned
    <3>2. PICK e \in Events, p \in Endpoints : d = <<e, p>>
      BY <3>1 DEF Job
    <3>3. e \in announced /\ sent[d] = 0 /\ d \in Events \X Endpoints
      BY <3>1, <3>2 DEF JobSound
    <3>4. Fate[e] = "announced"
      BY <3>3 DEF Fate, EventsOwned, RecordedOnce
    <3>5. Fate' = Fate /\ sent' = [sent EXCEPT ![d] = n]
      <4>1. UNCHANGED <<poll, stored, announced>> /\ sent' = [sent EXCEPT ![d] = @ + n]
        BY <2>5 DEF Send
      <4>2. Fate' = Fate
        BY <4>1, FateStays
      <4>3. sent[d] + n = n
        BY <3>3
      <4> QED BY <4>1, <4>2, <4>3
    <3>6. CASE n = 1
      BY <3>2, <3>3, <3>4, <3>5, <3>6 DEF Ledger!Next, Ledger!Deliver
    <3>7. CASE n = 0
      BY <3>3, <3>5, <3>7 DEF TypeOK
    <3> QED BY <3>6, <3>7
  <2>6. ASSUME NEW j \in jobs, JobStep(j),
               \A d \in j.left, n \in {0, 1} : ~ Send(j, d, n)
        PROVE  Fate' = Fate /\ sent' = sent
    BY <2>6, FateStays DEF JobStep, ListSubs, ListFails, SendGone, DeleteGone, DeleteFails
  <2>7. ASSUME NEW p \in Endpoints, BrowserStep(p)
        PROVE  Fate' = Fate /\ sent' = sent
    BY <2>7, FateStays
       DEF BrowserStep, Subscribe, HandleSubscribe, SubscribeFails, SubscribeAbandoned,
           Unsubscribe, HandleUnsubscribe, Expire
  <2>8. CASE (\E e \in Events : CatalogChanges(e)) \/ UNCHANGED vars
    BY <2>8, FateStays DEF CatalogChanges, vars
  <2> QED BY <2>1, <2>2, <2>3, <2>4, <2>5, <2>6, <2>7, <2>8 DEF Next, PollStep
<1> QED BY <1>1, <1>2, SismoTypeOK, SismoEventsOwned, PTL
        DEF Spec, ImplementsLedger, Ledger!Spec

----------------------------------------------------------------------------
(* A page that was told its alerts are on is on the table for as long as its
   endpoint lives (handlePushSubscribe, notifySismos, handlePushUnsubscribe): an
   endpoint that is gone stays gone, and nothing else is ever deleted. *)
THEOREM SismoActiveStaysStored == Spec => []ActiveStaysStored
<1>1. Init => DeletionsLate
  BY DEF Init, DeletionsLate, ActiveStaysStored
<1>2. TypeOK /\ DeletionsLate /\ [Next]_vars => DeletionsLate'
  <2> SUFFICES ASSUME TypeOK, DeletionsLate, [Next]_vars PROVE DeletionsLate'
    OBVIOUS
  <2> USE DEF DeletionsLate, ActiveStaysStored
  <2>1. ASSUME NEW s \in Servers, Start(s) \/ Stop(s) \/ PollStep(s)
        PROVE  DeletionsLate'
    <3>1. UNCHANGED <<client, subs, unposts>>
      BY <2>1 DEF Start, Stop, PollStep, Fetch, FetchFails, InsertOne, InsertFails,
                  Announce, Wake, net
    <3>2. \A j \in jobs' : j \in jobs \/ j.dead = {}
      <4>1. ASSUME NEW T, Announce(s, T)
            PROVE  \A j \in jobs' : j \in jobs \/ j.dead = {}
        <5>1. \A j \in Notifier(s, T) : j.dead = {}
          BY DEF Notifier
        <5> QED BY <4>1, <5>1 DEF Announce
      <4> QED BY <2>1, <4>1 DEF Start, Stop, PollStep, Fetch, FetchFails, InsertOne,
                                InsertFails, Wake
    <3> QED BY <3>1, <3>2
  <2>2. ASSUME NEW j \in jobs, JobStep(j)
        PROVE  DeletionsLate'
    <3> j \in Job
      BY DEF TypeOK
    <3>1. ASSUME NEW k, jobs' \subseteq (jobs \ {j}) \cup {k},
                 \A p \in k.dead : client[p] = "gone",
                 subs' = subs \/ subs' = subs \ j.dead, UNCHANGED <<client, unposts>>
          PROVE  DeletionsLate'
      <4>1. \A p \in Endpoints : client[p] = "active" => p \notin j.dead
        OBVIOUS
      <4>2. ActiveStaysStored'
        BY <3>1, <4>1
      <4>3. \A i \in jobs' : \A p \in i.dead : client'[p] = "gone"
        BY <3>1
      <4> QED BY <3>1, <4>2, <4>3
    <3>2. CASE ListSubs(j)
      <4> DEFINE k == [j EXCEPT !.pc = "send", !.left = j.evs \X subs]
      <4>1. k.dead = j.dead
        BY DEF Job
      <4>2. jobs' \subseteq (jobs \ {j}) \cup {k}
        BY <3>2, ContinueJobs DEF ListSubs
      <4>3. UNCHANGED <<client, subs, unposts>>
        BY <3>2 DEF ListSubs, net
      <4> HIDE DEF k
      <4> QED BY <3>1, <4>1, <4>2, <4>3
    <3>3. CASE ListFails(j)
      BY <3>3 DEF ListFails, Return, net
    <3>4. ASSUME NEW d \in j.left, NEW n \in {0, 1}, Send(j, d, n)
          PROVE  DeletionsLate'
      <4> DEFINE k == [j EXCEPT !.left = @ \ {d}]
      <4>1. k.dead = j.dead
        BY DEF Job
      <4>2. jobs' \subseteq (jobs \ {j}) \cup {k}
        BY <3>4, ContinueJobs DEF Send
      <4>3. UNCHANGED <<client, subs, unposts>>
        BY <3>4 DEF Send, net
      <4> HIDE DEF k
      <4> QED BY <3>1, <4>1, <4>2, <4>3
    <3>5. ASSUME NEW d \in j.left, SendGone(j, d)
          PROVE  DeletionsLate'
      <4> DEFINE k == [j EXCEPT !.pc = "delete", !.left = @ \ {d}, !.dead = {d[2]}]
      <4>1. k.dead = {d[2]} /\ client[d[2]] = "gone"
        BY <3>5 DEF SendGone, Refused, Job
      <4>2. jobs' \subseteq (jobs \ {j}) \cup {k}
        BY <3>5 DEF SendGone, Replace
      <4>3. UNCHANGED <<client, subs, unposts>>
        BY <3>5 DEF SendGone, net
      <4> HIDE DEF k
      <4> QED BY <3>1, <4>1, <4>2, <4>3
    <3>6. CASE DeleteGone(j) \/ DeleteFails(j)
      <4> DEFINE k == [j EXCEPT !.pc = "send", !.dead = {}]
      <4>1. k.dead = {}
        BY DEF Job
      <4>2. jobs' \subseteq (jobs \ {j}) \cup {k}
        BY <3>6, ContinueJobs DEF DeleteGone, DeleteFails
      <4>3. (subs' = subs \/ subs' = subs \ j.dead) /\ UNCHANGED <<client, unposts>>
        BY <3>6 DEF DeleteGone, DeleteFails, net
      <4> HIDE DEF k
      <4> QED BY <3>1, <4>1, <4>2, <4>3
    <3> QED BY <2>2, <3>2, <3>3, <3>4, <3>5, <3>6 DEF JobStep
  <2>3. ASSUME NEW p \in Endpoints, BrowserStep(p)
        PROVE  DeletionsLate'
    <3>1. jobs' = jobs /\ client \in [Endpoints -> Client] /\ p \in Endpoints
      BY <2>3 DEF BrowserStep, Subscribe, HandleSubscribe, SubscribeFails, SubscribeAbandoned,
                  Unsubscribe, HandleUnsubscribe, Expire, TypeOK
    <3>2. /\ \A q \in Endpoints : client[q] = "gone" => client'[q] = "gone"
          /\ \A q : q \in unposts' => q \in unposts \/ (q = p /\ client'[q] = "gone")
      BY <2>3, <3>1
         DEF BrowserStep, Subscribe, HandleSubscribe, SubscribeFails, SubscribeAbandoned,
             Fail, Unsubscribe, HandleUnsubscribe, Expire, Client
    <3>3. ActiveStaysStored'
      BY <2>3, <3>1
         DEF BrowserStep, Subscribe, HandleSubscribe, SubscribeFails, SubscribeAbandoned,
             Fail, Unsubscribe, HandleUnsubscribe, Expire, Client
    <3>4. \A j \in jobs : j.dead \subseteq Endpoints
      BY DEF TypeOK, Job
    <3> QED BY <3>1, <3>2, <3>3, <3>4 DEF TypeOK
  <2>4. CASE (\E e \in Events : CatalogChanges(e)) \/ UNCHANGED vars
    BY <2>4 DEF CatalogChanges, vars, net
  <2> QED BY <2>1, <2>2, <2>3, <2>4 DEF Next
<1>3. DeletionsLate => ActiveStaysStored
  BY DEF DeletionsLate
<1> QED BY <1>1, <1>2, <1>3, SismoTypeOK, PTL DEF Spec
----------------------------------------------------------------------------
(* The proxy of the earthquakes *)

\* The pages hold no more events than these.
TooMany == Len(catalogue) > PageSize * MaxPages

Finds(found, e) == \E x \in found : x.event = e

FoundOK(q, found) ==
    /\ IsFiniteSet(found)
    /\ \A x \in found : x.event \in 1..Len(catalogue) /\ catalogue[x.event] \in Reach[q]

BodyOK(b) ==
    /\ b.query \in Queries
    /\ b.known \in 0..Len(catalogue)
    /\ FoundOK(b.query, b.events)
    /\ \/ Cardinality(b.events) >= Cap
       \/ TooMany
       \/ \A e \in Expected(b.query, b.known) : Finds(b.events, e)

FetchOK(r) ==
    /\ r = [pc |-> r.pc, query |-> r.query, page |-> r.page, events |-> r.events, known |-> r.known]
    /\ r.query \in Queries
    /\ r.known \in 0..Len(catalogue)
    /\ FoundOK(r.query, r.events)

(* An event that the catalogue had when the fetch began has been found, or is
   still before the fetch: it slides away from the pages read, never into them. *)
FetchingOK(r) ==
    /\ FetchOK(r)
    /\ r.page \in 1..MaxPages
    /\ \A e \in Expected(r.query, r.known) :
          Finds(r.events, e) \/ Place(e) > (r.page - 1) * PageSize

FetchedOK(r) ==
    /\ FetchOK(r)
    /\ TooMany \/ \A e \in Expected(r.query, r.known) : Finds(r.events, e)

AnswerOK(r) ==
    /\ r.query \in Queries
    /\ BodyOK(r.body)
    /\ Key[r.body.query] = Key[r.query]
    /\ r.at <= r.body.stored + TTL

CallerOK(r) ==
    \/ r.pc = "idle"
    \/ r.pc = "fetching" /\ FetchingOK(r)
    \/ r.pc = "fetched" /\ FetchedOK(r)
    \/ r.pc = "answered" /\ AnswerOK(r)

SlotOK(s) ==
    s.key # NoKey =>
        /\ BodyOK(s.body)
        /\ s.key = Key[s.body.query]
        /\ s.expires = s.body.stored + TTL
        /\ s.body.stored \in Nat

ProxyInv ==
    /\ catalogue \in Seq(Places)
    /\ proxyClock \in Nat
    /\ \E s : slot = s /\ SlotOK(s)
    /\ DOMAIN caller = Callers
    /\ \A c \in Callers : \E r : caller[c] = r /\ CallerOK(r)

(* A catalogue that grows, or stays, keeps its events: what was true of an
   answer or of a fetch stays true. *)
LEMMA CatalogueGrows ==
    ASSUME catalogue \in Seq(Places),
           catalogue' = catalogue \/ \E p \in Places : catalogue' = Append(catalogue, p)
    PROVE  /\ catalogue' \in Seq(Places)
           /\ \A r : CallerOK(r) => CallerOK(r)'
           /\ \A s : SlotOK(s) => SlotOK(s)'
<1>1. /\ catalogue' \in Seq(Places)
      /\ Len(catalogue) \in Nat /\ Len(catalogue') \in Nat /\ Len(catalogue) <= Len(catalogue')
      /\ \A e \in 1..Len(catalogue) : catalogue'[e] = catalogue[e]
  <2>1. CASE catalogue' = catalogue
    BY <2>1, LenProperties
  <2>2. ASSUME NEW p \in Places, catalogue' = Append(catalogue, p)
        PROVE  /\ catalogue' \in Seq(Places)
               /\ Len(catalogue) \in Nat /\ Len(catalogue') = Len(catalogue) + 1
               /\ \A e \in 1..Len(catalogue) : catalogue'[e] = catalogue[e]
    BY <2>2, AppendProperties, LenProperties
  <2> QED BY <2>1, <2>2
<1>2. PageSize * MaxPages \in Nat /\ Cap \in Nat
  BY ProxyAssumption
<1>3. TooMany => TooMany'
  <2> DEFINE n == PageSize * MaxPages
  <2> HIDE DEF n
  <2>1. Len(catalogue) > n => Len(catalogue') > n
    BY <1>1, <1>2 DEF n
  <2> QED BY <2>1 DEF TooMany, n
<1>4. ASSUME NEW q, NEW found, FoundOK(q, found) PROVE FoundOK(q, found)'
  BY <1>1, <1>4 DEF FoundOK
<1>5. ASSUME NEW q, NEW n \in 0..Len(catalogue) PROVE Expected(q, n)' = Expected(q, n)
  <2>1. \A e \in 1..n : e \in 1..Len(catalogue)
    BY <1>1
  <2> QED BY <1>1, <2>1 DEF Expected
<1>6. ASSUME NEW n, n \in 0..Len(catalogue) PROVE n \in 0..Len(catalogue')
  BY <1>1, <1>6
<1>7. ASSUME NEW b, BodyOK(b) PROVE BodyOK(b)'
  BY <1>3, <1>4, <1>5, <1>6, <1>7 DEF BodyOK
<1>8. ASSUME NEW r, FetchOK(r) PROVE FetchOK(r)'
  BY <1>4, <1>6, <1>8 DEF FetchOK
<1>9. ASSUME NEW r, FetchedOK(r) PROVE FetchedOK(r)'
  BY <1>3, <1>5, <1>8, <1>9 DEF FetchedOK, FetchOK
<1>10. ASSUME NEW r, FetchingOK(r) PROVE FetchingOK(r)'
  <2> DEFINE n == (r.page - 1) * PageSize
  <2>1. FetchOK(r)' /\ r.page \in 1..MaxPages /\ n \in Int
    BY <1>8, <1>10, ProxyAssumption DEF FetchingOK
  <2>2. \A e \in Expected(r.query, r.known) : Finds(r.events, e) \/ Place(e) > n
    BY <1>10 DEF FetchingOK
  <2> HIDE DEF n
  <2>3. ASSUME NEW e \in Expected(r.query, r.known) PROVE Finds(r.events, e) \/ Place(e)' > n
    <3>1. e \in Int
      BY <1>1, <1>10 DEF Expected, FetchingOK, FetchOK
    <3> QED BY <1>1, <2>1, <2>2, <3>1 DEF Place
  <2>4. Expected(r.query, r.known)' = Expected(r.query, r.known)
    BY <1>5, <1>10 DEF FetchingOK, FetchOK
  <2> QED BY <2>1, <2>3, <2>4 DEF FetchingOK, n
<1>11. ASSUME NEW r, AnswerOK(r) PROVE AnswerOK(r)'
  BY <1>7, <1>11 DEF AnswerOK
<1> QED BY <1>1, <1>7, <1>9, <1>10, <1>11 DEF CallerOK, SlotOK

(* One page more: an event found, or on a page to come, or beyond the tenth. *)
LEMMA PageKeeps ==
    ASSUME catalogue \in Seq(Places), NEW r, FetchingOK(r), NEW next,
           next = [pc |-> IF HasNext(r.page) /\ r.page < MaxPages THEN "fetching" ELSE "fetched",
                   query |-> r.query, page |-> r.page + 1,
                   events |-> r.events \cup Within(r.query, r.page), known |-> r.known]
    PROVE  CallerOK(next)
<1> DEFINE n == r.page
           before == (n - 1) * PageSize
           upto == n * PageSize
           page == CataloguePage(n)
           new == Within(r.query, n)
<1>1. /\ n \in 1..MaxPages /\ MaxPages \in Nat /\ PageSize \in Nat /\ n \in Nat
      /\ before \in Int /\ upto \in Int /\ (n + 1 - 1) * PageSize = upto
  BY ProxyAssumption DEF FetchingOK
<1>2. Len(catalogue) \in Nat /\ DOMAIN catalogue = 1..Len(catalogue)
  BY LenProperties
<1>3. page = {e \in 1..Len(catalogue) : before < Place(e) /\ Place(e) <= upto}
  BY <1>2 DEF CataloguePage
<1> HIDE DEF before, upto, page
<1>4. \A x : x \in new <=> \E e \in page : catalogue[e] \in Reach[r.query] /\ x = [event |-> e, page |-> n]
  BY DEF Within, page
<1>5. IsFiniteSet(new)
  <2> DEFINE D == {e \in page : catalogue[e] \in Reach[r.query]}
             f == [e \in D |-> [event |-> e, page |-> n]]
  <2>1. D \subseteq 1..Len(catalogue)
    BY <1>3
  <2>2. IsFiniteSet(D)
    <3> HIDE DEF D
    <3>1. IsFiniteSet(1..Len(catalogue))
      BY <1>2, FS_Interval
    <3> QED BY <2>1, <3>1, FS_Subset
  <2>3. f \in Surjection(D, new)
    <3>1. f \in [D -> new]
      BY <1>4
    <3>2. \A x \in new : \E e \in D : f[e] = x
      BY <1>4
    <3> HIDE DEF D, f, new
    <3> QED BY <3>1, <3>2 DEF Surjection
  <2> HIDE DEF D, f, new
  <2> QED BY <2>2, <2>3, FS_Surjection
<1>6. FetchOK(r)
  BY DEF FetchingOK
<1>7. FoundOK(r.query, next.events)
  <2>1. FoundOK(r.query, r.events)
    BY <1>6 DEF FetchOK
  <2>2. \A x \in new : x.event \in 1..Len(catalogue) /\ catalogue[x.event] \in Reach[r.query]
    BY <1>3, <1>4
  <2>3. next.events = r.events \cup new
    OBVIOUS
  <2> HIDE DEF new
  <2>4. IsFiniteSet(next.events)
    BY <1>5, <2>1, <2>3, FS_Union DEF FoundOK
  <2> QED BY <2>1, <2>2, <2>3, <2>4 DEF FoundOK
<1>8. FetchOK(next)
  BY <1>6, <1>7 DEF FetchOK
<1>9. ASSUME NEW e \in Expected(r.query, r.known)
      PROVE  Finds(next.events, e) \/ Place(e) > upto
  <2>1. e \in 1..Len(catalogue) /\ catalogue[e] \in Reach[r.query] /\ Place(e) \in Int
    BY <1>2, <1>6 DEF Expected, FetchOK, Place
  <2>2. Finds(r.events, e) \/ Place(e) > before
    BY <1>9 DEF FetchingOK, before
  <2>3. CASE Finds(r.events, e)
    BY <2>3 DEF Finds
  <2>4. CASE e \in page
    <3>1. [event |-> e, page |-> n] \in next.events
      BY <1>4, <2>1, <2>4
    <3> QED BY <3>1 DEF Finds
  <2>5. CASE Place(e) > before /\ e \notin page
    BY <1>1, <1>3, <2>1, <2>5
  <2> QED BY <2>2, <2>3, <2>4, <2>5
<1>10. ASSUME NEW e \in Expected(r.query, r.known) PROVE Place(e) <= Len(catalogue)
  BY <1>2, <1>6 DEF Expected, FetchOK, Place
<1>11. CASE HasNext(n) /\ n < MaxPages
  <2>1. next.pc = "fetching" /\ next.page = n + 1 /\ next.query = r.query /\ next.known = r.known
    BY <1>11
  <2>2. next.page \in 1..MaxPages /\ (next.page - 1) * PageSize = upto
    BY <1>1, <1>11, <2>1
  <2> QED BY <1>8, <1>9, <2>1, <2>2 DEF CallerOK, FetchingOK
<1>12. CASE ~(HasNext(n) /\ n < MaxPages)
  <2>1. next.pc = "fetched" /\ next.query = r.query /\ next.known = r.known
    BY <1>12
  <2>2. CASE ~HasNext(n)
    <3>1. Len(catalogue) <= upto
      BY <1>1, <1>2, <2>2 DEF HasNext, upto
    <3>2. ASSUME NEW e \in Expected(r.query, r.known) PROVE Finds(next.events, e)
      <4>1. Place(e) \in Int
        BY <1>2, <1>6 DEF Expected, FetchOK, Place
      <4>2. upto \in Int /\ Len(catalogue) \in Int /\ Place(e) <= Len(catalogue)
        BY <1>1, <1>2, <1>10
      <4>3. ~(Place(e) > upto)
        BY <3>1, <4>1, <4>2
      <4> QED BY <1>9, <4>3
    <3> QED BY <1>8, <2>1, <3>2 DEF CallerOK, FetchedOK
  <2>3. CASE HasNext(n)
    <3>1. n = MaxPages
      BY <1>1, <1>12, <2>3
    <3>2. TooMany
      BY <1>1, <2>3, <3>1 DEF HasNext, TooMany
    <3> QED BY <1>8, <2>1, <3>2 DEF CallerOK, FetchedOK
  <2> QED BY <2>2, <2>3
<1> QED BY <1>11, <1>12

(* What is kept of a fetch is all that it found, unless the list is full. *)
LEMMA CutKeeps ==
    ASSUME NEW r, FetchedOK(r), NEW first \in FirstOf(r.events), NEW when, NEW b,
           b = [events |-> first, query |-> r.query, known |-> r.known, stored |-> when]
    PROVE  BodyOK(b)
<1>1. FoundOK(r.query, r.events) /\ r.query \in Queries /\ r.known \in 0..Len(catalogue)
  BY DEF FetchedOK, FetchOK
<1>2. /\ first \subseteq r.events /\ IsFiniteSet(r.events)
      /\ Cardinality(first) = IF Cardinality(r.events) < Cap THEN Cardinality(r.events) ELSE Cap
  BY <1>1 DEF FirstOf, FoundOK
<1>3. IsFiniteSet(first) /\ (Cardinality(r.events) = Cardinality(first) => r.events = first)
  BY <1>2, FS_Subset
<1>4. FoundOK(r.query, first)
  BY <1>1, <1>2, <1>3 DEF FoundOK
<1>5. Cardinality(first) >= Cap \/ r.events = first
  BY <1>2, <1>3, FS_CardinalityType, ProxyAssumption
<1>6. \/ Cardinality(first) >= Cap \/ TooMany
      \/ \A e \in Expected(r.query, r.known) : Finds(first, e)
  BY <1>5 DEF FetchedOK
<1> QED BY <1>1, <1>4, <1>6 DEF BodyOK

(* A step of a caller that leaves the catalogue and the clock alone. *)
LEMMA CallerMoves ==
    ASSUME ProxyInv, NEW c \in Callers, NEW r, CallerOK(r), NEW s, SlotOK(s),
           caller' = [caller EXCEPT ![c] = r], slot' = s,
           UNCHANGED <<catalogue, proxyClock>>
    PROVE  ProxyInv'
<1>1. /\ catalogue' \in Seq(Places)
      /\ \A x : CallerOK(x) => CallerOK(x)'
      /\ \A x : SlotOK(x) => SlotOK(x)'
  BY CatalogueGrows DEF ProxyInv
<1>2. ASSUME NEW d \in Callers PROVE \E x : caller'[d] = x /\ CallerOK(x)'
  <2>1. CASE d = c
    BY <1>1, <2>1 DEF ProxyInv
  <2>2. CASE d # c
    BY <1>1, <2>2 DEF ProxyInv
  <2> QED BY <2>1, <2>2
<1>3. DOMAIN caller' = Callers /\ proxyClock' \in Nat
  BY DEF ProxyInv
<1> QED BY <1>1, <1>2, <1>3 DEF ProxyInv

(* A request is answered from the slot, or begins a fetch that owes it every
   event of the catalogue. *)
LEMMA AskKeeps ==
    ASSUME ProxyInv, NEW c \in Callers, Ask(c)
    PROVE  ProxyInv'
<1>1. PICK q \in Queries : caller' = [caller EXCEPT ![c] =
          IF Hit(q) THEN [pc |-> "answered", query |-> q, body |-> slot.body, at |-> proxyClock]
          ELSE [pc |-> "fetching", query |-> q, page |-> 1, events |-> {}, known |-> Len(catalogue)]]
  BY DEF Ask
<1>2. PICK s : slot = s /\ SlotOK(s)
  BY DEF ProxyInv
<1>3. PICK now, n : now = proxyClock /\ n = Len(catalogue)
  OBVIOUS
<1>4. now \in Nat /\ n \in Nat
  BY <1>3, LenProperties DEF ProxyInv
<1>5. slot' = s /\ UNCHANGED <<catalogue, proxyClock>>
  BY <1>2 DEF Ask
<1>6. CASE Hit(q)
  <2> DEFINE r == [pc |-> "answered", query |-> q, body |-> s.body, at |-> now]
  <2>1. caller' = [caller EXCEPT ![c] = r]
    BY <1>1, <1>2, <1>3, <1>6
  <2>2. s.key = Key[q] /\ now < s.expires /\ s.key # NoKey
    BY <1>2, <1>3, <1>6, ProxyAssumption DEF Hit
  <2>3. TTL \in Nat
    BY ProxyAssumption
  <2>4. BodyOK(s.body) /\ Key[s.body.query] = Key[q] /\ now <= s.body.stored + TTL
    BY <1>2, <1>4, <2>2, <2>3 DEF SlotOK
  <2>5. CallerOK(r)
    BY <2>4 DEF CallerOK, AnswerOK
  <2> HIDE DEF r
  <2> QED BY <1>2, <1>5, <2>1, <2>5, CallerMoves
<1>7. CASE ~Hit(q)
  <2> DEFINE r == [pc |-> "fetching", query |-> q, page |-> 1, events |-> {}, known |-> n]
  <2>1. caller' = [caller EXCEPT ![c] = r]
    BY <1>1, <1>3, <1>7
  <2>2. IsFiniteSet({})
    BY FS_EmptySet
  <2>3. FetchOK(r)
    BY <1>3, <1>4, <2>2 DEF FetchOK, FoundOK
  <2>4. r.page \in 1..MaxPages /\ (r.page - 1) * PageSize = 0
    BY ProxyAssumption
  <2>5. ASSUME NEW e \in Expected(r.query, r.known) PROVE Place(e) > 0
    BY <1>3, <1>4 DEF Expected, Place
  <2>6. CallerOK(r)
    BY <2>3, <2>4, <2>5 DEF CallerOK, FetchingOK
  <2> HIDE DEF r
  <2> QED BY <1>2, <1>5, <2>1, <2>6, CallerMoves
<1> QED BY <1>6, <1>7

(* A page is read. *)
LEMMA FetchKeeps ==
    ASSUME ProxyInv, NEW c \in Callers, FetchPage(c)
    PROVE  ProxyInv'
<1>1. PICK r : caller[c] = r /\ CallerOK(r)
  BY DEF ProxyInv
<1>2. r.pc = "fetching" /\ FetchingOK(r)
  BY <1>1 DEF FetchPage, CallerOK
<1>3. r = [pc |-> r.pc, query |-> r.query, page |-> r.page, events |-> r.events, known |-> r.known]
  BY <1>2 DEF FetchingOK, FetchOK
<1>4. PICK new : new = Within(r.query, r.page)
  OBVIOUS
<1>5. PICK pc : pc = IF HasNext(r.page) /\ r.page < MaxPages THEN "fetching" ELSE "fetched"
  OBVIOUS
<1>6. PICK found, page : found = r.events \cup new /\ page = r.page + 1
  OBVIOUS
<1> DEFINE next == [pc |-> pc, query |-> r.query, page |-> page, events |-> found, known |-> r.known]
<1>7. caller' = [caller EXCEPT ![c] = next]
  <2>1. [r EXCEPT !.events = found, !.page = page, !.pc = pc] = next
    <3>1. PICK was, q, p, e, k :
            /\ q = r.query /\ k = r.known
            /\ r = [pc |-> was, query |-> q, page |-> p, events |-> e, known |-> k]
      BY <1>3
    <3>2. PICK r1 : r1 = [r EXCEPT !.events = found]
      OBVIOUS
    <3>3. r1 = [pc |-> was, query |-> q, page |-> p, events |-> found, known |-> k]
      BY <3>1, <3>2
    <3>4. PICK r2 : r2 = [r1 EXCEPT !.page = page]
      OBVIOUS
    <3>5. r2 = [pc |-> was, query |-> q, page |-> page, events |-> found, known |-> k]
      BY <3>3, <3>4
    <3>6. [r2 EXCEPT !.pc = pc] = next
      BY <3>1, <3>5
    <3> QED BY <3>2, <3>4, <3>6
  <2>2. caller' = [caller EXCEPT ![c] = [r EXCEPT !.events = found, !.page = page, !.pc = pc]]
    BY <1>1, <1>4, <1>5, <1>6 DEF FetchPage, ProxyInv
  <2> HIDE DEF next
  <2> QED BY <2>1, <2>2
<1>8. catalogue \in Seq(Places)
  BY DEF ProxyInv
<1>9. CallerOK(next)
  BY <1>2, <1>4, <1>5, <1>6, <1>8, PageKeeps
<1>10. PICK s : slot = s /\ SlotOK(s)
  BY DEF ProxyInv
<1>11. slot' = s /\ UNCHANGED <<catalogue, proxyClock>>
  BY <1>10 DEF FetchPage
<1> HIDE DEF next
<1> QED BY <1>7, <1>9, <1>10, <1>11, CallerMoves

(* The answer is cut, kept and given. *)
LEMMA KeepKeeps ==
    ASSUME ProxyInv, NEW c \in Callers, Keep(c)
    PROVE  ProxyInv'
<1>1. PICK r : caller[c] = r /\ CallerOK(r)
  BY DEF ProxyInv
<1>2. r.pc = "fetched" /\ FetchedOK(r)
  BY <1>1 DEF Keep, CallerOK
<1>3. PICK first \in FirstOf(r.events) :
        /\ slot' = [key |-> Key[r.query], body |-> BodyOf(r, first), expires |-> proxyClock + TTL]
        /\ caller' = [caller EXCEPT ![c] = [pc |-> "answered", query |-> r.query,
                                            body |-> BodyOf(r, first), at |-> proxyClock]]
  BY <1>1 DEF Keep
<1>4. PICK now : now = proxyClock
  OBVIOUS
<1> DEFINE b == [events |-> first, query |-> r.query, known |-> r.known, stored |-> now]
           s == [key |-> Key[r.query], body |-> b, expires |-> now + TTL]
           a == [pc |-> "answered", query |-> r.query, body |-> b, at |-> now]
<1>5. /\ slot' = s /\ caller' = [caller EXCEPT ![c] = a]
      /\ UNCHANGED <<catalogue, proxyClock>>
  BY <1>3, <1>4 DEF BodyOf, Keep
<1>6. BodyOK(b) /\ b.query = r.query /\ b.stored = now
  BY <1>2, CutKeeps
<1> HIDE DEF b
<1>7. r.query \in Queries /\ now \in Nat /\ TTL \in Nat
  BY <1>2, <1>4, ProxyAssumption DEF FetchedOK, FetchOK, ProxyInv
<1>8. SlotOK(s)
  BY <1>6, <1>7 DEF SlotOK
<1>9. CallerOK(a)
  BY <1>6, <1>7 DEF CallerOK, AnswerOK
<1> HIDE DEF s, a
<1> QED BY <1>5, <1>8, <1>9, CallerMoves

(* ProxyAnswers for any catalogue, any number of callers, requests and pages,
   whatever is published while they read. *)
THEOREM ProxyAlwaysAnswers == ProxySpec => []ProxyAnswers
<1>1. ProxyInit => ProxyInv
  <2> SUFFICES ASSUME ProxyInit PROVE ProxyInv
    OBVIOUS
  <2>1. SlotOK([key |-> NoKey, body |-> NoBody, expires |-> 0])
    BY DEF SlotOK
  <2>2. CallerOK(Waiting)
    BY DEF CallerOK, Waiting
  <2>3. <<>> \in Seq(Places)
    BY EmptySeq
  <2> QED BY <2>1, <2>2, <2>3 DEF ProxyInit, ProxyInv
<1>2. ProxyInv /\ [ProxyNext]_proxyVars => ProxyInv'
  <2> SUFFICES ASSUME ProxyInv, [ProxyNext]_proxyVars PROVE ProxyInv'
    OBVIOUS
  <2>0. PICK s : slot = s /\ SlotOK(s)
    BY DEF ProxyInv
  <2>1. ASSUME NEW c \in Callers, Ask(c) PROVE ProxyInv'
    BY <2>1, AskKeeps
  <2>2. ASSUME NEW c \in Callers, FetchPage(c) PROVE ProxyInv'
    BY <2>2, FetchKeeps
  <2>3. ASSUME NEW c \in Callers, PageFails(c) \/ ProxyDone(c) PROVE ProxyInv'
    <3>1. CallerOK(Waiting)
      BY DEF CallerOK, Waiting
    <3>2. caller' = [caller EXCEPT ![c] = Waiting] /\ slot' = s /\ UNCHANGED <<catalogue, proxyClock>>
      BY <2>0, <2>3 DEF PageFails, ProxyDone
    <3> QED BY <2>0, <3>1, <3>2, CallerMoves
  <2>4. ASSUME NEW c \in Callers, Keep(c) PROVE ProxyInv'
    BY <2>4, KeepKeeps
  <2>5. CASE Publish \/ ProxyTick \/ UNCHANGED proxyVars
    <3>1. catalogue' = catalogue \/ \E p \in Places : catalogue' = Append(catalogue, p)
      BY <2>5 DEF Publish, ProxyTick, proxyVars
    <3>2. /\ catalogue' \in Seq(Places)
          /\ \A x : CallerOK(x) => CallerOK(x)'
          /\ \A x : SlotOK(x) => SlotOK(x)'
      BY <3>1, CatalogueGrows DEF ProxyInv
    <3>3. slot' = slot /\ caller' = caller /\ proxyClock' \in Nat
      BY <2>5 DEF Publish, ProxyTick, proxyVars, ProxyInv
    <3> QED BY <3>2, <3>3 DEF ProxyInv
  <2> QED BY <2>1, <2>2, <2>3, <2>4, <2>5 DEF ProxyNext, CallerStep
<1>3. ProxyInv => ProxyAnswers
  <2> SUFFICES ASSUME ProxyInv, NEW c \in Callers, caller[c].pc = "answered"
               PROVE  LET b == caller[c].body
                          told == {x.event : x \in b.events}
                      IN  /\ Key[b.query] = Key[caller[c].query]
                          /\ \A e \in told : catalogue[e] \in Reach[b.query]
                          /\ Cardinality(b.events) < Cap /\ Len(catalogue) <= PageSize * MaxPages
                                => Expected(b.query, b.known) \subseteq told
                          /\ caller[c].at <= b.stored + TTL
    BY DEF ProxyAnswers
  <2>1. PICK r : caller[c] = r /\ CallerOK(r)
    BY DEF ProxyInv
  <2>2. AnswerOK(r)
    BY <2>1 DEF CallerOK
  <2> DEFINE b == r.body
  <2>3. BodyOK(b) /\ Key[b.query] = Key[r.query] /\ r.at <= b.stored + TTL
    BY <2>2 DEF AnswerOK
  <2>4. \A x \in b.events : catalogue[x.event] \in Reach[b.query]
    BY <2>3 DEF BodyOK, FoundOK
  <2>5. ASSUME Cardinality(b.events) < Cap, Len(catalogue) <= PageSize * MaxPages
        PROVE  \A e \in Expected(b.query, b.known) : Finds(b.events, e)
    <3> DEFINE n == PageSize * MaxPages
               k == Cardinality(b.events)
    <3>1. n \in Nat /\ Len(catalogue) \in Nat /\ Cap \in Nat /\ k \in Nat
      BY <2>3, ProxyAssumption, LenProperties, FS_CardinalityType DEF ProxyInv, BodyOK, FoundOK
    <3>2. k < Cap /\ Len(catalogue) <= n
      BY <2>5
    <3> HIDE DEF n, k
    <3>3. ~(k >= Cap) /\ ~(Len(catalogue) > n)
      BY <3>1, <3>2
    <3> QED BY <2>3, <3>3 DEF BodyOK, TooMany, n, k
  <2>6. ASSUME \A e \in Expected(b.query, b.known) : Finds(b.events, e)
        PROVE  Expected(b.query, b.known) \subseteq {x.event : x \in b.events}
    BY <2>6 DEF Finds
  <2> QED BY <2>1, <2>3, <2>4, <2>5, <2>6
<1> QED BY <1>1, <1>2, <1>3, PTL DEF ProxySpec
=============================================================================
