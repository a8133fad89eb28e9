--------------------------- MODULE ResponseCache ---------------------------
(***************************************************************************)
(* The response cache of the HTTP server (internal/server/cache.go) as the *)
(* handlers use it: serveCachedJSON looks a key up, reads the store on a   *)
(* miss and installs the rendered body; a handler that changed the store   *)
(* clears the whole cache with invalidateCaches before it answers.  No     *)
(* lock is held from the lookup to the installation, so a fill races with  *)
(* every write.                                                            *)
(*                                                                         *)
(* A body is abstracted to the version of the store it was rendered from.  *)
(* Time is relative: an entry carries what is left of its life, and Tick   *)
(* takes one unit from every entry, so that the clock needs no bound.      *)
(***************************************************************************)
EXTENDS Integers, FiniteSets

CONSTANTS
    Keys,        \* the cache keys: one per route and combination of filters
    Readers,     \* the goroutines that serve cached GET requests
    Writers,     \* the goroutines of handlers that write and invalidate
    MaxEntries,  \* newResponseCache(256)
    TTL,         \* [Keys -> life of an entry]: 30 s, 1 min, 5 min, 1 h
    MaxVersion   \* bound: writes to the store in one behaviour

ASSUME CacheAssumption ==
    /\ Keys # {}
    /\ MaxEntries \in Nat \ {0}
    /\ TTL \in [Keys -> Nat]
    /\ MaxVersion \in Nat

VARIABLES
    data,    \* version of the store
    items,   \* the map under c.mu: key -> entry
    rd,      \* reader -> its program counter and local variables
    wr,      \* writer -> the version it wrote and has not invalidated yet, or 0
    acked    \* history: newest version whose writer has invalidated and answered

vars == <<data, items, rd, wr, acked>>

(***************************************************************************)
(* "left" is expiresAt - time.Now(): below 0 the entry has expired.  Two    *)
(* fields are history: "age", the time since the body was rendered, and    *)
(* "raced", whether the cache was cleared between the store read the body  *)
(* was rendered from and its installation.                                 *)
(***************************************************************************)
Entry == [ver : Nat, left : Int, age : Nat, raced : BOOLEAN]

ReaderState ==
    [pc : {"idle", "found", "miss", "read", "built", "hit", "filled"},
     key : Keys,
     item : Entry,   \* the copy of the cached entry, or the one being rendered
     since : Nat]    \* history: acked when the request arrived

\* A body just rendered from version v of the store.
Body(v) == [ver |-> v, left |-> 0, age |-> 0, raced |-> FALSE]

Blank == Body(0)

Idle == [pc |-> "idle", key |-> CHOOSE k \in Keys : TRUE, item |-> Blank, since |-> 0]

NoItems == [k \in {} |-> Blank]

Init ==
    /\ data = 0
    /\ items = NoItems
    /\ rd = [r \in Readers |-> Idle]
    /\ wr = [w \in Writers |-> 0]
    /\ acked = 0

----------------------------------------------------------------------------
(* The cache's own operations *)

\* time.Now().After(item.expiresAt)
Expired(e) == e.left < 0

Live(f) == {k \in DOMAIN f : ~Expired(f[k])}

Restriction(f, S) == [k \in S |-> f[k]]

With(f, k, e) == [x \in DOMAIN f \cup {k} |-> IF x = k THEN e ELSE f[x]]

\* The part of set() that makes room: expired entries go first and, if that
\* frees nothing, every entry goes.
Evicted(f) ==
    IF Cardinality(DOMAIN f) < MaxEntries THEN f
    ELSE IF Cardinality(Live(f)) < MaxEntries THEN Restriction(f, Live(f))
    ELSE NoItems

\* Mutant: set() without the room check.
SetItem_Unbounded(f, k, e) == With(f, k, e)

SetItem(f, k, e) == With(Evicted(f), k, e)

----------------------------------------------------------------------------
(* serveCachedJSON *)

\* Mutant: a hit renews the life of the entry.
Lookup_Sliding(r, k) ==
    /\ rd[r].pc = "idle"
    /\ items' = IF k \in DOMAIN items THEN [items EXCEPT ![k].left = TTL[k]] ELSE items
    /\ rd' = [rd EXCEPT ![r] =
                IF k \in DOMAIN items
                THEN [pc |-> "found", key |-> k, item |-> items'[k], since |-> acked]
                ELSE [pc |-> "miss", key |-> k, item |-> Blank, since |-> acked]]
    /\ UNCHANGED <<data, wr, acked>>

\* get(): the entry is copied under the read lock; an absent key is a miss.
Lookup(r, k) ==
    /\ rd[r].pc = "idle"
    /\ rd' = [rd EXCEPT ![r] =
                IF k \in DOMAIN items
                THEN [pc |-> "found", key |-> k, item |-> items[k], since |-> acked]
                ELSE [pc |-> "miss", key |-> k, item |-> Blank, since |-> acked]]
    /\ UNCHANGED <<data, items, wr, acked>>

\* Mutant: the expiry test is forgotten.
CheckExpiry_Forgotten(r) ==
    /\ rd[r].pc = "found"
    /\ rd' = [rd EXCEPT ![r].pc = "hit"]
    /\ UNCHANGED <<data, items, wr, acked>>

\* get(): the copy's expiry is tested after the lock was released.
CheckExpiry(r) ==
    /\ rd[r].pc = "found"
    /\ rd' = [rd EXCEPT ![r].pc = IF Expired(rd[r].item) THEN "miss" ELSE "hit"]
    /\ UNCHANGED <<data, items, wr, acked>>

\* compute(): one query of the store, then the rendering.
Compute(r) ==
    /\ rd[r].pc = "miss"
    /\ rd' = [rd EXCEPT ![r].pc = "read", ![r].item = Body(data)]
    /\ UNCHANGED <<data, items, wr, acked>>

\* compute() fails: 503, and nothing is cached.
ComputeFails(r) ==
    /\ rd[r].pc = "miss"
    /\ rd' = [rd EXCEPT ![r] = Idle]
    /\ UNCHANGED <<data, items, wr, acked>>

\* Mutant: cacheEntry() gives every body the longest of the lives.
Build_OneLife(r) ==
    /\ rd[r].pc = "read"
    /\ \E k \in Keys :
          /\ \A x \in Keys : TTL[x] <= TTL[k]
          /\ rd' = [rd EXCEPT ![r].pc = "built", ![r].item.left = TTL[k]]
    /\ UNCHANGED <<data, items, wr, acked>>

\* cacheEntry(): the life of the entry starts when the body is ready.
Build(r) ==
    /\ rd[r].pc = "read"
    /\ rd' = [rd EXCEPT ![r].pc = "built", ![r].item.left = TTL[rd[r].key]]
    /\ UNCHANGED <<data, items, wr, acked>>

\* set(), then the answer, rendered from the filler's own copy.
Install(r) ==
    /\ rd[r].pc = "built"
    /\ items' = SetItem(items, rd[r].key, rd[r].item)
    /\ rd' = [rd EXCEPT ![r].pc = "filled"]
    /\ UNCHANGED <<data, wr, acked>>

Answered(r) == rd[r].pc \in {"hit", "filled"}

\* The client has its answer; the goroutine is free for another request.
Finish(r) ==
    /\ Answered(r)
    /\ rd' = [rd EXCEPT ![r] = Idle]
    /\ UNCHANGED <<data, items, wr, acked>>

----------------------------------------------------------------------------
(* Handlers that write *)

\* The handler's store call commits.
Write(w) ==
    /\ wr[w] = 0
    /\ data < MaxVersion
    /\ data' = data + 1
    /\ wr' = [wr EXCEPT ![w] = data + 1]
    /\ UNCHANGED <<items, rd, acked>>

InFlight(r) == rd[r].pc \in {"read", "built"}

\* Mutant: the handler answers without clearing.
Invalidate_Forgotten(w) ==
    /\ wr[w] # 0
    /\ wr' = [wr EXCEPT ![w] = 0]
    /\ acked' = IF wr[w] > acked THEN wr[w] ELSE acked
    /\ UNCHANGED <<data, items, rd>>

\* Mutant: clear() drops only what has expired.
Invalidate_ExpiredOnly(w) ==
    /\ wr[w] # 0
    /\ items' = Restriction(items, Live(items))
    /\ rd' = [r \in Readers |-> [rd[r] EXCEPT !.item.raced = @ \/ InFlight(r)]]
    /\ wr' = [wr EXCEPT ![w] = 0]
    /\ acked' = IF wr[w] > acked THEN wr[w] ELSE acked
    /\ UNCHANGED data

\* invalidateCaches() and the 2xx answer.
Invalidate(w) ==
    /\ wr[w] # 0
    /\ items' = NoItems
    /\ rd' = [r \in Readers |-> [rd[r] EXCEPT !.item.raced = @ \/ InFlight(r)]]
    /\ wr' = [wr EXCEPT ![w] = 0]
    /\ acked' = IF wr[w] > acked THEN wr[w] ELSE acked
    /\ UNCHANGED data

\* The importers are other processes (cmd/server import*): they change the
\* same tables and cannot clear this process's cache.
ExternalWrite ==
    /\ data < MaxVersion
    /\ data' = data + 1
    /\ UNCHANGED <<items, rd, wr, acked>>

Aged(e) == IF Expired(e) THEN e ELSE [e EXCEPT !.left = @ - 1, !.age = @ + 1]

\* One unit of time: it counts for what the map holds and for the copies that
\* get() has not tested and set() has not stored yet.
Tick ==
    /\ items' = [k \in DOMAIN items |-> Aged(items[k])]
    /\ rd' = [r \in Readers |->
                IF rd[r].pc \in {"found", "built"}
                THEN [rd[r] EXCEPT !.item = Aged(@)] ELSE rd[r]]
    /\ UNCHANGED <<data, wr, acked>>

----------------------------------------------------------------------------
ReaderStep(r) ==
    \/ CheckExpiry(r)
    \/ Compute(r)
    \/ ComputeFails(r)
    \/ Build(r)
    \/ Install(r)
    \/ Finish(r)

Next ==
    \/ \E r \in Readers : ReaderStep(r) \/ \E k \in Keys : Lookup(r, k)
    \/ \E w \in Writers : Write(w) \/ Invalidate(w)
    \/ ExternalWrite
    \/ Tick

Spec == Init /\ [][Next]_vars

(***************************************************************************)
(* A goroutine that runs keeps running and time passes; nobody has to send *)
(* a request, and nobody has to write.                                     *)
(***************************************************************************)
Fairness ==
    /\ \A r \in Readers : WF_vars(ReaderStep(r))
    /\ \A w \in Writers : WF_vars(Invalidate(w))
    /\ WF_vars(Tick)

FairSpec == Spec /\ Fairness

----------------------------------------------------------------------------
(* Properties *)

\* Type invariant.  An entry, in the map or in a reader's hands, never has more
\* life left than the handler of its key gave it.
TypeOK ==
    /\ data \in Nat
    /\ DOMAIN items \subseteq Keys
    /\ items \in [DOMAIN items -> Entry]
    /\ \A k \in DOMAIN items : items[k].left <= TTL[k]
    /\ rd \in [Readers -> ReaderState]
    /\ \A r \in Readers : rd[r].item.left <= TTL[rd[r].key]
    /\ wr \in [Writers -> Nat]
    /\ acked \in Nat

\* The map never holds more than maxEntries bodies, whatever keys the
\* clients' filters produce (cache.go set).
SizeBound == Cardinality(DOMAIN items) <= MaxEntries

\* An entry rendered before an acknowledged write can only be in the cache
\* because its fill straddled the write's clear(): clearing after the commit
\* leaves no other way to keep an old body.
StaleOnlyByRace ==
    \A k \in DOMAIN items : items[k].ver < acked => items[k].raced

\* Read your writes: a request that arrives after a writer got its answer is
\* served that write or a later one, unless the body comes from a fill that
\* raced with a clear().
ReadYourWrites ==
    \A r \in Readers :
        Answered(r) /\ rd[r].item.ver < rd[r].since => rd[r].item.raced

\* A body taken from the cache is no older than the life of its key, counted
\* from the instant it was rendered to the instant get() accepted it: hits,
\* refills and evictions never prolong a body's life.
HitsAreYoung ==
    \A r \in Readers : rd[r].pc = "hit" => rd[r].item.age <= TTL[rd[r].key]

\* Inductive form of the two invariants on versions: whatever was rendered
\* before the newest acknowledged write is marked as raced wherever it is held,
\* in the map or in the hands of a reader.
VersionInv ==
    /\ acked <= data
    /\ \A w \in Writers : wr[w] <= data
    /\ StaleOnlyByRace
    /\ \A r \in Readers :
          /\ rd[r].since <= acked
          /\ InFlight(r) => rd[r].item.ver >= acked \/ rd[r].item.raced
          /\ rd[r].pc \in {"found", "hit", "filled"} =>
                rd[r].item.ver >= rd[r].since \/ rd[r].item.raced

\* Inductive form of HitsAreYoung: age and remaining life add up to the TTL.
AgeInv ==
    /\ \A k \in DOMAIN items : items[k].age + items[k].left = TTL[k]
    /\ \A r \in Readers :
          /\ rd[r].pc = "read" => rd[r].item.age = 0
          /\ rd[r].pc \in {"found", "built", "hit"} =>
                rd[r].item.age + rd[r].item.left = TTL[rd[r].key]
          /\ rd[r].pc = "hit" => rd[r].item.left >= 0

\* Once the store stops changing (the bounded model stops every writer), every
\* answer is eventually rendered from its last version: what a racing fill or
\* an import left behind is healed by expiry.
EventuallyFresh ==
    <>[](\A r \in Readers : Answered(r) => rd[r].item.ver = data)
=============================================================================
