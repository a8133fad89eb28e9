----------------------------- MODULE SismoProxy -----------------------------
(***************************************************************************)
(* handleSismosProxy: the earthquakes near a point, fetched page by page   *)
(* from the catalogue of the Servicio Geologico and kept, one answer at a  *)
(* time, in sismoCache.  The mutex guards the slot, never the fetch: two   *)
(* handlers that miss fetch both, and the one that ends last is kept.      *)
(*                                                                         *)
(* The catalogue (external) grows while it is read.  An event is its       *)
(* number, in the order of its local time; a place is all the search area  *)
(* tells apart.  The window in days is left out: events do not leave it.   *)
(* An event that slides to the next page while the handler reads is found  *)
(* twice: a list is a set of findings, each an event and its page.         *)
(***************************************************************************)
EXTENDS Integers, Sequences, FiniteSets

CONSTANTS
    Callers,     \* goroutines that serve /sismos
    Queries,     \* requests: point, radius and days
    Key,         \* [Queries -> key]: the radius is printed without decimals
    Reach,       \* [Queries -> set of places within the radius]
    Places,
    PageSize,    \* of the catalogue
    MaxPages,    \* 10
    Cap,         \* 200
    TTL,         \* 60 seconds
    NoKey,       \* the key of an empty slot
    MaxEvents,   \* bound: events published
    MaxAsked,    \* bound: requests
    MaxNow       \* bound: last instant

ASSUME ProxyAssumption ==
    /\ {PageSize, MaxPages} \subseteq Nat \ {0}
    /\ {Cap, TTL, MaxEvents, MaxAsked, MaxNow} \subseteq Nat
    /\ \A q \in Queries : Reach[q] \subseteq Places /\ Key[q] # NoKey

VARIABLES
    catalogue,  \* the places of the published events, oldest first
    slot,       \* sismoCache: key, body and expiry
    caller,     \* goroutine -> its request
    asked,      \* requests so far
    proxyClock

proxyVars == <<catalogue, slot, caller, asked, proxyClock>>

NoBody == [events |-> {}]
Waiting == [pc |-> "idle"]

ProxyInit ==
    /\ catalogue = <<>>
    /\ slot = [key |-> NoKey, body |-> NoBody, expires |-> 0]
    /\ caller = [c \in Callers |-> Waiting]
    /\ asked = 0
    /\ proxyClock = 0

----------------------------------------------------------------------------
(* The catalogue, external *)

Publish ==
    /\ Len(catalogue) < MaxEvents
    /\ \E p \in Places : catalogue' = Append(catalogue, p)
    /\ UNCHANGED <<slot, caller, asked, proxyClock>>

\* Newest first, of the area that holds the circle.
Place(e) == Len(catalogue) + 1 - e

CataloguePage(n) ==
    {e \in DOMAIN catalogue : (n - 1) * PageSize < Place(e) /\ Place(e) <= n * PageSize}

HasNext(n) == n * PageSize < Len(catalogue)

----------------------------------------------------------------------------
(* The handler *)

Hit(q) == slot.key = Key[q] /\ proxyClock < slot.expires

\* The slot answers, or the fetch begins, with no lock held.
Ask(c) ==
    /\ caller[c].pc = "idle"
    /\ asked < MaxAsked
    /\ asked' = asked + 1
    /\ \E q \in Queries :
          caller' = [caller EXCEPT ![c] =
              IF Hit(q) THEN [pc |-> "answered", query |-> q, body |-> slot.body, at |-> proxyClock]
              ELSE [pc |-> "fetching", query |-> q, page |-> 1, events |-> {},
                    known |-> Len(catalogue)]]
    /\ UNCHANGED <<catalogue, slot, proxyClock>>

\* haversineKm decides what lies within the radius.
Within(q, n) ==
    {[event |-> e, page |-> n] : e \in {e \in CataloguePage(n) : catalogue[e] \in Reach[q]}}

\* fetchSgcEvents: one page, and the end after the last or the tenth.
FetchPage(c) ==
    LET r == caller[c] IN
    /\ r.pc = "fetching"
    /\ caller' = [caller EXCEPT
          ![c].events = @ \cup Within(r.query, r.page),
          ![c].page = @ + 1,
          ![c].pc = IF HasNext(r.page) /\ r.page < MaxPages THEN "fetching" ELSE "fetched"]
    /\ UNCHANGED <<catalogue, slot, asked, proxyClock>>

\* Mutant: a page that fails ends the list.
PageFails_Kept(c) ==
    /\ caller[c].pc = "fetching"
    /\ caller' = [caller EXCEPT ![c].pc = "fetched"]
    /\ UNCHANGED <<catalogue, slot, asked, proxyClock>>

\* A page that fails is a 502, and what was fetched is lost.
PageFails(c) ==
    /\ caller[c].pc = "fetching"
    /\ caller' = [caller EXCEPT ![c] = Waiting]
    /\ UNCHANGED <<catalogue, slot, asked, proxyClock>>

\* Sorted by local time, newest first, and cut: the sort is not stable, so any
\* of the findings of the last event may be the one that is cut.
FirstOf(found) ==
    {first \in SUBSET found :
        /\ Cardinality(first) = IF Cardinality(found) < Cap THEN Cardinality(found) ELSE Cap
        /\ \A x \in first, y \in found \ first : x.event >= y.event}

\* "query", "known" and "stored" are history: whose fetch it was, the events
\* published when it began, and when the body was kept.
BodyOf(r, first) ==
    [events |-> first, query |-> r.query, known |-> r.known, stored |-> proxyClock]

Keep(c) ==
    LET r == caller[c] IN
    /\ r.pc = "fetched"
    /\ \E first \in FirstOf(r.events) :
          /\ slot' = [key |-> Key[r.query], body |-> BodyOf(r, first), expires |-> proxyClock + TTL]
          /\ caller' = [caller EXCEPT ![c] = [pc |-> "answered", query |-> r.query,
                                              body |-> BodyOf(r, first), at |-> proxyClock]]
    /\ UNCHANGED <<catalogue, asked, proxyClock>>

ProxyDone(c) ==
    /\ caller[c].pc = "answered"
    /\ caller' = [caller EXCEPT ![c] = Waiting]
    /\ UNCHANGED <<catalogue, slot, asked, proxyClock>>

ProxyTick ==
    /\ proxyClock < MaxNow
    /\ proxyClock' = proxyClock + 1
    /\ UNCHANGED <<catalogue, slot, caller, asked>>

CallerStep(c) ==
    \/ Ask(c)
    \/ FetchPage(c)
    \/ PageFails(c)
    \/ Keep(c)
    \/ ProxyDone(c)

ProxyNext ==
    \/ \E c \in Callers : CallerStep(c)
    \/ Publish
    \/ ProxyTick

ProxySpec == ProxyInit /\ [][ProxyNext]_proxyVars

----------------------------------------------------------------------------
(* Properties *)

\* The events a fetch of q that began with n events must find.
Expected(q, n) == {e \in 1..n : catalogue[e] \in Reach[q]}

\* A visitor is told of every earthquake that the catalogue had when the fetch
\* of that answer began, unless the pages or the list were full, and of none
\* outside the radius (as the key rounds it), whatever the catalogue gains
\* between two pages, whichever pages failed and whoever overwrote the slot;
\* and a kept answer is younger than TTL, counted from its storing.
ProxyAnswers ==
    \A c \in Callers :
        caller[c].pc = "answered" =>
            LET b == caller[c].body
                told == {x.event : x \in b.events}
            IN  /\ Key[b.query] = Key[caller[c].query]
                /\ \A e \in told : catalogue[e] \in Reach[b.query]
                /\ Cardinality(b.events) < Cap /\ Len(catalogue) <= PageSize * MaxPages
                      => Expected(b.query, b.known) \subseteq told
                /\ caller[c].at <= b.stored + TTL
=============================================================================
