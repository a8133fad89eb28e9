------------------------------- MODULE Stores -------------------------------
(***************************************************************************)
(* The two implementations of the interface Store, side by side: MemStore, *)
(* on which every test of the handlers runs, and PGStore, on which the     *)
(* service runs.  Every call that writes is made of both; the calls that   *)
(* only read are left out.  What MemStore does under its mutex is one      *)
(* step; the statements of PGStore that others may come between are in     *)
(* modules Resources and SismoPush, and here a call of it is a step too.   *)
(*                                                                         *)
(* A row is known by its place in its table: the numbers the two stores    *)
(* give may differ, for MemStore numbers measurements and resources with   *)
(* one counter, but both grow.  An owner, a content, an endpoint and the   *)
(* like are values of small sets; the texts are left out.                  *)
(***************************************************************************)
EXTENDS Integers, Sequences, FiniteSets, SequencesExt

CONSTANTS
    Tokens,      \* hashes of owner tokens
    Notes,       \* what a resource says: its columns, and a key of details
    Voters,      \* fingerprints
    EventIds,    \* earthquakes
    Endpoints,
    Devices,     \* what a browser says it is; "" is nothing
    SettingKeys, SettingValues,
    MaxCalls     \* bound: calls of a behaviour

ASSUME StoresAssumption == MaxCalls \in Nat

VARIABLES
    mem,     \* MemStore
    pg,      \* the tables of PGStore
    results, \* what the last call returned: of MemStore, of PGStore
    calls    \* calls made

storeVars == <<mem, pg, results, calls>>

Missing == "missing"
Done == "ok"

NoRows == [obs |-> <<>>, resources |-> <<>>, validations |-> {}, sismos |-> <<>>,
           subs |-> [e \in {} |-> ""], settings |-> [k \in {} |-> ""]]

StoresInit ==
    /\ mem = NoRows
    /\ pg = NoRows
    /\ results = <<Done, Done>>
    /\ calls = 0

\* Each call: both stores, both results.
Call(mem2, pg2, memResult, pgResult) ==
    /\ calls < MaxCalls
    /\ calls' = calls + 1
    /\ mem' = mem2
    /\ pg' = pg2
    /\ results' = <<memResult, pgResult>>

----------------------------------------------------------------------------
(* Measurements *)

MemInsertObservation(o) == [mem EXCEPT !.obs = Append(@, o)]

PgInsertObservation(o) == [pg EXCEPT !.obs = Append(@, o)]

Given(new, old) == IF new = "" THEN old ELSE new

MemUpdateObservation(i, call, user) ==
    [mem EXCEPT !.obs[i].call = Given(call, @), !.obs[i].user = Given(user, @)]

\* The statement of PGStore also fills an operator that nobody knew.
PgUpdateObservation(i, call, user) ==
    [pg EXCEPT !.obs[i].call = Given(call, @), !.obs[i].user = Given(user, @),
               !.obs[i].operator = IF user # "" /\ @ = "desconocido" THEN user ELSE @]

CallInsertObservation ==
    \E op \in {"desconocido", "movistar"} :
        LET o == [operator |-> op, user |-> "", call |-> ""]
        IN  Call(MemInsertObservation(o), PgInsertObservation(o), Done, Done)

CallUpdateObservation ==
    \E i \in 1..(Len(mem.obs) + 1), call \in {"", "no"}, user \in {"", "tigo"} :
        IF i \in DOMAIN mem.obs
        THEN Call(MemUpdateObservation(i, call, user),
                  PgUpdateObservation(i, call, user), Done, Done)
        ELSE Call(mem, pg, Missing, Missing)

----------------------------------------------------------------------------
(* Resources *)

\* Without a status a resource is pending.
Filed(r) == [r EXCEPT !.status = Given(@, "pending")]

\* PGStore stores no point for a resource of a whole city, and reads it as 0.
Placed(r) == [r EXCEPT !.lat = IF r.scope = "city" THEN 0 ELSE @]

MemInsertResource(r) == [mem EXCEPT !.resources = Append(@, Filed(r))]

PgInsertResource(r) == [pg EXCEPT !.resources = Append(@, Placed(Filed(r)))]

\* The panel's edit keeps the owner; the status is the one it carries.
MemUpdateResource(i, r) ==
    [mem EXCEPT !.resources[i] = [r EXCEPT !.owner = mem.resources[i].owner]]

PgUpdateResource(i, r) ==
    [pg EXCEPT !.resources[i] = Placed([r EXCEPT !.owner = pg.resources[i].owner])]

\* Mutant: the edit of the owner keeps the status that the request carries.
MemUpdateByOwner_KeepsStatus(i, r) ==
    [mem EXCEPT !.resources[i] = [r EXCEPT !.owner = mem.resources[i].owner]]

MemUpdateByOwner(i, r) ==
    [mem EXCEPT !.resources[i] =
        [r EXCEPT !.status = "pending", !.owner = mem.resources[i].owner]]

PgUpdateByOwner(i, r) ==
    [pg EXCEPT !.resources[i] =
        Placed([r EXCEPT !.status = "pending", !.owner = pg.resources[i].owner])]

Forms(owners) ==
    [status : {"", "approved"}, note : Notes, scope : {"city", "point"}, lat : {4},
     details : Notes, owner : owners]

\* A form has one text for the columns and the document.
OneNote(r) == r.note = r.details

CallInsertResource ==
    \E r \in {r \in Forms(Tokens \cup {""}) : OneNote(r)} :
        Call(MemInsertResource(r), PgInsertResource(r), Done, Done)

CallUpdateResource ==
    \E i \in 1..(Len(mem.resources) + 1), r \in {r \in Forms({""}) : OneNote(r)} :
        IF i \in DOMAIN mem.resources
        THEN Call(MemUpdateResource(i, r), PgUpdateResource(i, r), Done, Done)
        ELSE Call(mem, pg, Missing, Missing)

\* The number and the token must both match.
CallUpdateByOwner ==
    \E i \in DOMAIN mem.resources, t \in Tokens, r \in {r \in Forms({""}) : OneNote(r)} :
        LET inMem == mem.resources[i].owner = t
            inPg == pg.resources[i].owner = t
        IN  Call(IF inMem THEN MemUpdateByOwner(i, r) ELSE mem,
                 IF inPg THEN PgUpdateByOwner(i, r) ELSE pg, inMem, inPg)

\* Neither store says whether the resource was there.
CallUpdateStatus ==
    \E i \in 1..(Len(mem.resources) + 1), s \in {"approved", "rejected"} :
        LET known == i \in DOMAIN mem.resources
        IN  Call(IF known THEN [mem EXCEPT !.resources[i].status = s] ELSE mem,
                 IF known THEN [pg EXCEPT !.resources[i].status = s] ELSE pg, Done, Done)

\* The keys given replace those of the document, the columns stay.
CallUpdateDetails ==
    \E i \in 1..(Len(mem.resources) + 1), n \in Notes :
        LET known == i \in DOMAIN mem.resources
        IN  Call(IF known THEN [mem EXCEPT !.resources[i].details = n] ELSE mem,
                 IF known THEN [pg EXCEPT !.resources[i].details = n] ELSE pg, Done, Done)

\* A vote is unique per resource and fingerprint.  The database also asks that
\* the resource exist.
CallInsertValidation ==
    \E i \in 1..(Len(mem.resources) + 1), f \in Voters :
        LET inMem == IF <<i, f>> \in mem.validations THEN "repeated" ELSE Done
            inPg == IF <<i, f>> \in pg.validations THEN "repeated" ELSE Done
            known == i \in DOMAIN pg.resources
        IN  Call([mem EXCEPT !.validations = @ \cup {<<i, f>>}],
                 IF known THEN [pg EXCEPT !.validations = @ \cup {<<i, f>>}] ELSE pg,
                 inMem, IF known THEN inPg ELSE Missing)

----------------------------------------------------------------------------
(* Earthquakes, subscriptions and settings *)

\* The events of a batch that are new, the first of each number.
NewEvents(kept, batch) ==
    SelectSeq(batch, LAMBDA e : \A i \in DOMAIN kept : kept[i] # e)

Batches == {<<e>> : e \in EventIds} \cup (EventIds \X EventIds)

Once(batch) == IF Len(batch) = 2 /\ batch[1] = batch[2] THEN <<batch[1]>> ELSE batch

CallInsertSismoEvents ==
    \E batch \in Batches :
        LET inMem == NewEvents(mem.sismos, Once(batch))
            inPg == NewEvents(pg.sismos, Once(batch))
        IN  Call([mem EXCEPT !.sismos = @ \o inMem],
                 [pg EXCEPT !.sismos = @ \o inPg], inMem, inPg)

With(f, k, v) == [x \in DOMAIN f \cup {k} |-> IF x = k THEN v ELSE f[x]]

\* Subscriptions come in no order: the device of each endpoint.  MemStore
\* replaces the whole subscription.
MemUpsert(e, device) == [mem EXCEPT !.subs = With(@, e, device)]

\* PGStore keeps the device it knows when none is given.
PgUpsert(e, device) ==
    [pg EXCEPT !.subs = With(@, e, IF e \in DOMAIN @ THEN Given(device, @[e]) ELSE device)]

CallUpsert ==
    \E e \in Endpoints, device \in Devices :
        Call(MemUpsert(e, device), PgUpsert(e, device), Done, Done)

Without(subs, e) == [x \in DOMAIN subs \ {e} |-> subs[x]]

CallDelete ==
    \E e \in Endpoints :
        Call([mem EXCEPT !.subs = Without(@, e)],
             [pg EXCEPT !.subs = Without(@, e)], Done, Done)

CallSetSetting ==
    \E k \in SettingKeys, v \in SettingValues :
        Call([mem EXCEPT !.settings = With(@, k, v)],
             [pg EXCEPT !.settings = With(@, k, v)], Done, Done)

StoresNext ==
    \/ CallInsertObservation
    \/ CallUpdateObservation
    \/ CallInsertResource
    \/ CallUpdateResource
    \/ CallUpdateByOwner
    \/ CallUpdateStatus
    \/ CallUpdateDetails
    \/ CallInsertValidation
    \/ CallInsertSismoEvents
    \/ CallUpsert
    \/ CallDelete
    \/ CallSetSetting

StoresSpec == StoresInit /\ [][StoresNext]_storeVars

----------------------------------------------------------------------------
(* Properties *)

\* After any sequence of calls that write, both stores have returned the same and
\* hold the same rows, but for what follows.  A vote for a resource that is not
\* there is kept by MemStore alone, and counts there if the resource comes; a
\* resource of a whole city loses its point in PGStore alone; a visitor's late
\* answer fills an unknown operator in PGStore alone; and a subscription renewed
\* without a device loses it in MemStore alone.
\* This says nothing of the calls that read these rows, and they differ further:
\* Cells has the mean and the first operator (mem.go:280-307) where the database
\* has the median and the mode (pg.go:329-335), Resources no order and no limit
\* (mem.go:336-352, pg.go:429-430), ObservationHistory a total past its last
\* page (mem.go:140-160, pg.go:172-219).
StoresAgree ==
    /\ results[1] # results[2] =>
          results \in {<<Done, Missing>>, <<"repeated", Missing>>, <<"repeated", Done>>}
    /\ pg.validations \subseteq mem.validations
    /\ DOMAIN mem.obs = DOMAIN pg.obs
    /\ \A i \in DOMAIN mem.obs :
          /\ [mem.obs[i] EXCEPT !.operator = pg.obs[i].operator] = pg.obs[i]
          /\ mem.obs[i].operator = pg.obs[i].operator
             \/ (mem.obs[i].operator = "desconocido" /\ mem.obs[i].user # "")
    /\ [i \in DOMAIN mem.resources |-> Placed(mem.resources[i])] = pg.resources
    /\ mem.sismos = pg.sismos
    /\ mem.settings = pg.settings
    /\ DOMAIN mem.subs = DOMAIN pg.subs
    /\ \A e \in DOMAIN mem.subs : mem.subs[e] \in {pg.subs[e], ""}
=============================================================================
