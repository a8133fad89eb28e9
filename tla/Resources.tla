----------------------------- MODULE Resources -----------------------------
(***************************************************************************)
(* Humanitarian resources: the reports people send, their moderation, the  *)
(* edits of their owners and the votes of everybody else                   *)
(* (internal/server/server.go, internal/store/pg.go, and the clients in     *)
(* web/map.js and web/admin.js that decide what a request carries).        *)
(*                                                                         *)
(* Handlers run concurrently and hold no lock between their store calls,   *)
(* so each store call is a step of its own.  What a resource says is one   *)
(* of Contents; it is kept twice, as "name" for the columns of the row and *)
(* as "desc" for the editable keys of its details document, because the    *)
(* two are written by different statements.  Of the four counters of the   *)
(* document the model keeps one that is a vote ("confirms") and one that   *)
(* is not ("helping"); "dismisses" and "needed" take the same paths.  A     *)
(* counter that is absent is a 0.                                          *)
(*                                                                         *)
(* The server takes any JSON value for a counter, from anybody who asks,   *)
(* and checks none: the model takes any natural number, of which the page  *)
(* sends the count of its own copy plus one.                               *)
(***************************************************************************)
EXTENDS Naturals, FiniteSets, Sequences

CONSTANTS
    MaxId,         \* bound: resources created in one behaviour
    Contents,      \* what a resource can say
    NoContent,     \* the editable keys are missing from the document
    Owners,        \* hashes of owner tokens
    NoOwner,       \* the empty hash of a resource created by administration
    Browsers,      \* visitors' browsers
    NoView,        \* the browser holds no copy of the resource it could vote from
    Fingerprint,   \* [Browsers -> SHA-256 of IP and User-Agent]
    Handlers,      \* goroutines of multi-step requests
    Admins,        \* sessions of the administration panel
    SeedTables,    \* tables the migrations may leave, each the details of its rows
    ReportValues,  \* bound: confirmations a report comes with; the page's form sends 1
    CounterValues, \* bound: confirmations that clients other than the page send
    MaxHelps,      \* bound: requests for the other counter in one behaviour
    HelpValues     \* bound: the values a client sends for the other counter

ASSUME ResourcesAssumption ==
    /\ MaxId \in Nat
    /\ SeedTables \subseteq Seq([desc : Contents, confirms : Nat, helping : Nat])
    /\ \A t \in SeedTables : Len(t) <= MaxId
    /\ ReportValues \subseteq Nat
    /\ CounterValues \subseteq Nat
    /\ HelpValues \subseteq Nat
    /\ MaxHelps \in Nat
    /\ NoContent \notin Contents
    /\ NoOwner \notin Owners
    /\ NoView \notin Nat
    /\ DOMAIN Fingerprint = Browsers
    /\ IsFiniteSet(Browsers)

VARIABLES
    res,         \* table resources: a function on the ids given out so far
    votes,       \* table resource_validations, unique on (resource, fingerprint)
    hd,          \* the multi-step requests in flight
    seen,        \* browser -> resource -> confirms in its copy, or NoView
    panel,       \* admin session -> its copy of what each resource says
    unreviewed,  \* history: ids written by their reporter since an admin acted
    helps,       \* requests for the other counter so far
    claimed      \* history: id -> the greatest count ever claimed for it outright

vars == <<res, votes, hd, seen, panel, unreviewed, claimed, helps>>

Ids == 1..MaxId

Status == {"pending", "approved", "rejected"}

Details == [desc : Contents \cup {NoContent}, confirms : Nat, helping : Nat]

Resource == [status : Status, name : Contents, details : Details,
             owner : Owners \cup {NoOwner}]

Handler == [pc : {"idle", "edit", "counter", "selected"},
            id : Nat,
            key : {"confirms", "helping"},
            val : Nat,
            snap : Details]   \* the document the request is working on

NoDetails == [desc |-> NoContent, confirms |-> 0, helping |-> 0]

IdleHandler == [pc |-> "idle", id |-> 0, key |-> "confirms", val |-> 0, snap |-> NoDetails]

NoPanel == [i \in {} |-> NoDetails]

Existing == DOMAIN res

\* admin.js (formPayload) fills an absent counter of confirmations with 1.
Filled(n) == IF n = 0 THEN 1 ELSE n

\* A row of migration 0006 or 0007: approved, nobody's, with confirmations that
\* no visitor gave, or no counter at all.
SeedRow(d) == [status |-> "approved", name |-> d.desc, details |-> d, owner |-> NoOwner]

Init ==
    /\ \E t \in SeedTables :
          /\ res = [i \in 1..Len(t) |-> SeedRow(t[i])]
          /\ claimed = [i \in 1..Len(t) |-> Filled(t[i].confirms)]
    /\ votes = {}
    /\ hd = [h \in Handlers |-> IdleHandler]
    /\ seen = [b \in Browsers |-> [i \in Ids |-> NoView]]
    /\ panel = [a \in Admins |-> NoPanel]
    /\ unreviewed = {}
    /\ helps = 0

----------------------------------------------------------------------------
(* Creation *)

NextId == Cardinality(Existing) + 1

Insert(r) ==
    /\ NextId \in Ids
    /\ res' = [i \in Existing \cup {NextId} |-> IF i = NextId THEN r ELSE res[i]]
    /\ claimed' = [i \in Existing \cup {NextId} |->
                      IF i = NextId THEN Filled(r.details.confirms) ELSE claimed[i]]

\* The forms of map.js and admin.js send every other counter at 0.
FormDetails(c, n) == [desc |-> c, confirms |-> n, helping |-> 0]

\* POST /report: whatever status the payload asks for, the report is pending; n
\* is 1 when the form of map.js sends it, its reporter's own confirmation.
Report(c, o, n) ==
    /\ Insert([status |-> "pending", name |-> c, details |-> FormDetails(c, n), owner |-> o])
    /\ unreviewed' = unreviewed \cup {NextId}
    /\ UNCHANGED <<votes, hd, seen, panel, helps>>

\* POST /admin/api/resources: the panel's form chooses the status, and the
\* resource has no owner.
AdminCreate(c, s) ==
    /\ Insert([status |-> s, name |-> c, details |-> FormDetails(c, Filled(0)), owner |-> NoOwner])
    /\ UNCHANGED <<votes, hd, seen, panel, unreviewed, helps>>

----------------------------------------------------------------------------
(* PUT /resources/{id}, by whoever holds the owner token *)

\* mergeEditableResourceDetails: the editable keys of the payload, the counters
\* of the document that was read.
Merged(d, c) == [d EXCEPT !.desc = c]

\* ResourceByID and the token check (any other token is answered 404), then
\* the document to write.
EditRead(h, i, o, c) ==
    /\ hd[h].pc = "idle"
    /\ i \in Existing
    /\ res[i].owner = o
    /\ hd' = [hd EXCEPT ![h] = [IdleHandler EXCEPT !.pc = "edit", !.id = i,
                                                   !.snap = Merged(res[i].details, c)]]
    /\ UNCHANGED <<res, votes, seen, panel, unreviewed, claimed, helps>>

\* Mutant: the status that was read is written back with the rest.
EditWrite_KeepsStatus(h) ==
    LET i == hd[h].id IN
    /\ hd[h].pc = "edit"
    /\ res' = [res EXCEPT ![i].name = hd[h].snap.desc, ![i].details = hd[h].snap]
    /\ unreviewed' = unreviewed \cup {i}
    /\ hd' = [hd EXCEPT ![h] = IdleHandler]
    /\ UNCHANGED <<votes, seen, panel, claimed, helps>>

\* UpdateResourceByOwner: the row and the whole document, back to pending.
\* The owner of a row never changes, so its WHERE clause still matches.
EditWrite(h) ==
    LET i == hd[h].id IN
    /\ hd[h].pc = "edit"
    /\ res' = [res EXCEPT ![i].name = hd[h].snap.desc, ![i].details = hd[h].snap,
                          ![i].status = "pending"]
    /\ unreviewed' = unreviewed \cup {i}
    /\ hd' = [hd EXCEPT ![h] = IdleHandler]
    /\ UNCHANGED <<votes, seen, panel, claimed, helps>>

\* The store fails (503), or the payload is refused after the read.
EditFails(h) ==
    /\ hd[h].pc = "edit"
    /\ hd' = [hd EXCEPT ![h] = IdleHandler]
    /\ UNCHANGED <<res, votes, seen, panel, unreviewed, claimed, helps>>

----------------------------------------------------------------------------
(* POST /resources/update-details, by anybody *)

\* The request goes on with the counter it carries.
Counter(h, i, key, v) ==
    hd' = [hd EXCEPT ![h] = [IdleHandler EXCEPT !.pc = "counter", !.id = i,
                                                !.key = key, !.val = v]]

\* Mutant: the unique index on (resource, fingerprint) is missing.
VoteInsert_Repeated(h, i, f, v) ==
    /\ hd[h].pc = "idle"
    /\ i \in Existing
    /\ votes' = votes \cup {<<i, f>>}
    /\ Counter(h, i, "confirms", v)
    /\ UNCHANGED <<res, panel, unreviewed, helps>>

\* A vote: the handler records the voter first, and looks at no value.  A
\* fingerprint already recorded is answered 409.
VoteInsert(h, i, f, v) ==
    /\ hd[h].pc = "idle"
    /\ i \in Existing
    /\ <<i, f>> \notin votes
    /\ votes' = votes \cup {<<i, f>>}
    /\ Counter(h, i, "confirms", v)
    /\ UNCHANGED <<res, panel, unreviewed, helps>>

\* map.js sends the count of its own copy plus one, and votes from that copy no
\* more.  It remembers so in localStorage, which a private window does not have:
\* the same person may load the resource and vote again.
PageVotes(h, b, i) ==
    /\ seen[b][i] # NoView
    /\ VoteInsert(h, i, Fingerprint[b], seen[b][i] + 1)
    /\ seen' = [seen EXCEPT ![b][i] = NoView]
    /\ UNCHANGED claimed

\* Another client sends what it likes, whether the resource is public or not.
ClientVotes(h, b, i, v) ==
    /\ VoteInsert(h, i, Fingerprint[b], v)
    /\ claimed' = [claimed EXCEPT ![i] = IF v > @ THEN v ELSE @]
    /\ UNCHANGED seen

\* "helping" is not a vote: nothing is recorded, any value is taken, and whose
\* request it is does not matter.
HelpStart(h, i, v) ==
    /\ hd[h].pc = "idle"
    /\ i \in Existing
    /\ helps < MaxHelps
    /\ helps' = helps + 1
    /\ Counter(h, i, "helping", v)
    /\ UNCHANGED <<res, votes, seen, panel, unreviewed, claimed>>

\* The overlay of the one key a request carries.
Overlaid(d, h) ==
    IF hd[h].key = "confirms" THEN [d EXCEPT !.confirms = hd[h].val]
                              ELSE [d EXCEPT !.helping = hd[h].val]

\* PGStore.UpdateResourceDetails has no transaction: first a SELECT of the
\* document.
DetailsSelect(h) ==
    /\ hd[h].pc = "counter"
    /\ hd' = [hd EXCEPT ![h].pc = "selected", ![h].snap = res[hd[h].id].details]
    /\ UNCHANGED <<res, votes, seen, panel, unreviewed, claimed, helps>>

\* An error of the SELECT is taken for an empty document.
DetailsSelectFails(h) ==
    /\ hd[h].pc = "counter"
    /\ hd' = [hd EXCEPT ![h].pc = "selected", ![h].snap = NoDetails]
    /\ UNCHANGED <<res, votes, seen, panel, unreviewed, claimed, helps>>

\* Then an UPDATE of the whole document.
DetailsUpdate(h) ==
    /\ hd[h].pc = "selected"
    /\ res' = [res EXCEPT ![hd[h].id].details = Overlaid(hd[h].snap, h)]
    /\ hd' = [hd EXCEPT ![h] = IdleHandler]
    /\ UNCHANGED <<votes, seen, panel, unreviewed, claimed, helps>>

\* The UPDATE fails: 404, and a vote stays recorded without being counted.
DetailsFails(h) ==
    /\ hd[h].pc \in {"counter", "selected"}
    /\ hd' = [hd EXCEPT ![h] = IdleHandler]
    /\ UNCHANGED <<res, votes, seen, panel, unreviewed, claimed, helps>>

----------------------------------------------------------------------------
(* Administration *)

\* GET /admin/api/resources: the panel keeps the list until it reloads it.
AdminLoad(a) ==
    /\ panel' = [panel EXCEPT ![a] =
                    [i \in Existing |-> [name |-> res[i].name, details |-> res[i].details]]]
    /\ UNCHANGED <<res, votes, hd, seen, unreviewed, claimed, helps>>

\* Mutant: the status of the payload is not validated.
Moderate_AnyStatus(a, i, s) ==
    /\ i \in DOMAIN panel[a]
    /\ res' = [res EXCEPT ![i].status = ""]
    /\ unreviewed' = unreviewed \ {i}
    /\ UNCHANGED <<votes, hd, seen, panel, claimed, helps>>

\* POST /resources/moderate: the request names the resource, not what was read.
Moderate(a, i, s) ==
    /\ i \in DOMAIN panel[a]
    /\ res' = [res EXCEPT ![i].status = s]
    /\ unreviewed' = unreviewed \ {i}
    /\ UNCHANGED <<votes, hd, seen, panel, claimed, helps>>

\* What the form makes of the document the panel holds.
FormUpdate(d, c) == [Merged(d, c) EXCEPT !.confirms = Filled(@)]

\* Mutant: the owner's hash is replaced with the payload's empty one.
AdminUpdate_DropsOwner(a, i, c, s) ==
    /\ i \in DOMAIN panel[a]
    /\ res' = [res EXCEPT ![i] = [status |-> s, name |-> c, owner |-> NoOwner,
                                  details |-> FormUpdate(panel[a][i].details, c)]]
    /\ unreviewed' = unreviewed \ {i}
    /\ panel' = [panel EXCEPT ![a] = NoPanel]
    /\ UNCHANGED <<votes, hd, seen, claimed, helps>>

\* PUT /admin/api/resources/{id}: the form replaces the row and the document,
\* counters included, with what the panel held; the owner stays.  The panel then
\* reloads its list (saveResource), so this session acts again after AdminLoad.
AdminUpdate(a, i, c, s) ==
    /\ i \in DOMAIN panel[a]
    /\ res' = [res EXCEPT ![i] = [status |-> s, name |-> c, owner |-> res[i].owner,
                                  details |-> FormUpdate(panel[a][i].details, c)]]
    /\ unreviewed' = unreviewed \ {i}
    /\ panel' = [panel EXCEPT ![a] = NoPanel]
    /\ UNCHANGED <<votes, hd, seen, claimed, helps>>

----------------------------------------------------------------------------
(* Visitors *)

\* GET /resources or /resources/{id}: only what is approved.  The copy is kept
\* for as long as the page is open, so it may be older than any cache's life.
BrowserLoad(b) ==
    /\ seen' = [seen EXCEPT ![b] = [i \in Ids |->
                    IF i \in Existing /\ res[i].status = "approved"
                    THEN res[i].details.confirms ELSE NoView]]
    /\ UNCHANGED <<res, votes, hd, panel, unreviewed, claimed, helps>>

----------------------------------------------------------------------------
Next ==
    \/ \E c \in Contents : \/ \E o \in Owners, n \in ReportValues : Report(c, o, n)
                           \/ \E s \in Status : AdminCreate(c, s)
    \/ \E h \in Handlers :
         \/ \E i \in Ids : \/ \E o \in Owners, c \in Contents : EditRead(h, i, o, c)
                           \/ \E b \in Browsers : PageVotes(h, b, i)
                           \/ \E b \in Browsers, v \in CounterValues : ClientVotes(h, b, i, v)
                           \/ \E v \in HelpValues : HelpStart(h, i, v)
         \/ EditWrite(h)
         \/ EditFails(h)
         \/ DetailsSelect(h)
         \/ DetailsSelectFails(h)
         \/ DetailsUpdate(h)
         \/ DetailsFails(h)
    \/ \E a \in Admins :
         \/ AdminLoad(a)
         \/ \E i \in Ids, s \in Status : \/ Moderate(a, i, s)
                                         \/ \E c \in Contents : AdminUpdate(a, i, c, s)
    \/ \E b \in Browsers : BrowserLoad(b)

Spec == Init /\ [][Next]_vars

----------------------------------------------------------------------------
(* Properties *)

\* Type invariant.
TypeOK ==
    /\ Existing \in SUBSET Ids
    /\ res \in [Existing -> Resource]
    /\ votes \subseteq Ids \X {Fingerprint[b] : b \in Browsers}
    /\ hd \in [Handlers -> Handler]
    /\ \A h \in Handlers : hd[h].pc # "idle" => hd[h].id \in Existing
    /\ \A h \in Handlers : hd[h].pc = "edit" => hd[h].snap.desc \in Contents
    /\ seen \in [Browsers -> [Ids -> Nat \cup {NoView}]]
    /\ \A a \in Admins : /\ DOMAIN panel[a] \subseteq Existing
                         /\ panel[a] \in [DOMAIN panel[a] -> [name : Contents, details : Details]]
    /\ unreviewed \subseteq Existing
    /\ claimed \in [Existing -> Nat]
    /\ helps \in 0..MaxHelps

VotesFor(i) == {v \in votes : v[1] = i}

Limit(i) == claimed[i] + Cardinality(VotesFor(i))

\* Votes can be lost (the page sends an absolute count from a stale copy, and
\* writers overwrite each other's document), but votes never raise a count by
\* more than one per distinct fingerprint above what was claimed for it
\* outright: by its row when it was created (1 when the page reported it, up to
\* 42 in the rows of migration 0006) or by a client other than the page.  The
\* server bounds no claim (server.go:1346-1390): one request that says 1000
\* shows 1000.
NeverOvercounted ==
    \A i \in Existing : res[i].details.confirms <= Limit(i)

SeenWithin ==
    \A b \in Browsers, i \in Ids :
        seen[b][i] # NoView => i \in Existing /\ seen[b][i] <= Limit(i)

RequestWithin(h) ==
    /\ hd[h].pc \in {"edit", "selected"} => hd[h].snap.confirms <= Limit(hd[h].id)
    /\ hd[h].pc \in {"counter", "selected"} /\ hd[h].key = "confirms"
          => hd[h].val <= Limit(hd[h].id)

PanelWithin ==
    \A a \in Admins : \A i \in DOMAIN panel[a] : panel[a][i].details.confirms <= Limit(i)

\* Inductive form of NeverOvercounted: no copy of a count exceeds the limit
\* either, wherever it is held (a browser, a request in flight, the panel).
CountInv ==
    /\ IsFiniteSet(votes)
    /\ \A i \in Existing : claimed[i] >= 1
    /\ NeverOvercounted
    /\ SeenWithin
    /\ \A h \in Handlers : RequestWithin(h)
    /\ PanelWithin

\* Nothing the reporter wrote is public before an admin acted on the resource
\* again, however the edit interleaves with votes, moderation and other edits.
ReviewRequired == \A i \in Existing : res[i].status = "approved" => i \notin unreviewed

\* The owner recorded with a report is never replaced: its reporter keeps the
\* right to edit it through every moderation and every edit by administration.
OwnerForLife ==
    [][\A i \in Existing : i \in DOMAIN res' /\ res'[i].owner = res[i].owner]_vars

\* Ids are given out in order and no row is ever deleted: a new id is new.
IdsInOrder == \E n \in Nat : Existing = 1..n

\* What README.md:144-145 says (editing takes the owner token): a request to
\* update-details, which carries no owner token, does not change the content.
AnonymousKeepsContent ==
    [][\A h \in Handlers :
          hd[h].pc \in {"counter", "selected"} /\ hd'[h].pc = "idle" =>
            \A i \in Existing : res'[i].details.desc = res[i].details.desc]_vars
=============================================================================
