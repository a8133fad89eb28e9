------------------------ MODULE ResponseCacheProofs ------------------------
(* Theorems about ResponseCache, for any keys, lives, readers and writers. *)
EXTENDS ResponseCache, FiniteSetTheorems, TLAPS

(* Making room keeps a cache of entries, on no more keys than before. *)
LEMMA EvictedType ==
    ASSUME NEW f, DOMAIN f \subseteq Keys, f \in [DOMAIN f -> Entry]
    PROVE  /\ DOMAIN Evicted(f) \subseteq DOMAIN f
           /\ Evicted(f) \in [DOMAIN Evicted(f) -> Entry]
<1>1. CASE Evicted(f) = f
  BY <1>1
<1>2. CASE Evicted(f) = Restriction(f, Live(f))
  BY <1>2 DEF Restriction, Live
<1>3. CASE Evicted(f) = NoItems
  BY <1>3 DEF NoItems
<1> QED BY <1>1, <1>2, <1>3 DEF Evicted

(* After making room there is place for one more entry: the assumption that
   the cache may hold at least one is needed for the last resort of set(). *)
LEMMA EvictedRoom ==
    ASSUME NEW f, IsFiniteSet(DOMAIN f)
    PROVE  /\ IsFiniteSet(DOMAIN Evicted(f))
           /\ Cardinality(DOMAIN Evicted(f)) < MaxEntries
<1>1. CASE Evicted(f) = f /\ Cardinality(DOMAIN f) < MaxEntries
  BY <1>1
<1>2. CASE Evicted(f) = Restriction(f, Live(f)) /\ Cardinality(Live(f)) < MaxEntries
  <2>1. Live(f) \subseteq DOMAIN f
    BY DEF Live
  <2>2. IsFiniteSet(Live(f))
    BY <2>1, FS_Subset
  <2>3. DOMAIN Evicted(f) = Live(f)
    BY <1>2 DEF Restriction
  <2> QED BY <1>2, <2>2, <2>3
<1>3. CASE Evicted(f) = NoItems
  <2>1. DOMAIN Evicted(f) = {}
    BY <1>3 DEF NoItems
  <2> QED BY <2>1, FS_EmptySet, CacheAssumption
<1> QED BY <1>1, <1>2, <1>3 DEF Evicted

(* What set() leaves is a cache of entries, the new one among them. *)
LEMMA SetItemType ==
    ASSUME NEW f, DOMAIN f \subseteq Keys, f \in [DOMAIN f -> Entry],
           NEW k \in Keys, NEW e \in Entry
    PROVE  /\ DOMAIN SetItem(f, k, e) \subseteq Keys
           /\ SetItem(f, k, e) \in [DOMAIN SetItem(f, k, e) -> Entry]
BY EvictedType DEF SetItem, With

(* Where the entries of the map come from after an installation. *)
LEMMA SetItemSource ==
    ASSUME NEW f, NEW k, NEW e, NEW x \in DOMAIN SetItem(f, k, e)
    PROVE  \/ x = k /\ SetItem(f, k, e)[x] = e
           \/ x \in DOMAIN f /\ SetItem(f, k, e)[x] = f[x]
<1>1. x = k \/ x \in DOMAIN Evicted(f)
  BY DEF SetItem, With
<1>2. CASE x = k
  BY <1>2 DEF SetItem, With
<1>3. CASE x # k /\ x \in DOMAIN Evicted(f)
  <2>1. SetItem(f, k, e)[x] = Evicted(f)[x]
    BY <1>3 DEF SetItem, With
  <2>2. x \in DOMAIN f /\ Evicted(f)[x] = f[x]
    BY <1>3 DEF Evicted, Restriction, Live, NoItems
  <2> QED BY <2>1, <2>2
<1> QED BY <1>1, <1>2, <1>3

(* What set() leaves is a finite map of at most maxEntries entries. *)
LEMMA SetItemRoom ==
    ASSUME NEW f, IsFiniteSet(DOMAIN f), NEW k, NEW e
    PROVE  /\ IsFiniteSet(DOMAIN SetItem(f, k, e))
           /\ Cardinality(DOMAIN SetItem(f, k, e)) <= MaxEntries
<1> DEFINE D == DOMAIN Evicted(f)
<1>1. DOMAIN SetItem(f, k, e) = D \cup {k}
  BY DEF SetItem, With
<1>2. IsFiniteSet(D) /\ Cardinality(D) < MaxEntries
  BY EvictedRoom
<1>3. Cardinality(D) \in Nat
  BY <1>2, FS_CardinalityType
<1>4. /\ IsFiniteSet(D \cup {k})
      /\ Cardinality(D \cup {k}) \in {Cardinality(D), Cardinality(D) + 1}
  <2> HIDE DEF D
  <2> QED BY <1>2, FS_AddElement
<1>5. Cardinality(D \cup {k}) \in Nat
  BY <1>4, FS_CardinalityType
<1> HIDE DEF D
<1> QED BY <1>1, <1>2, <1>3, <1>4, <1>5, CacheAssumption

----------------------------------------------------------------------------
(* The zero value of cachedJSON is an entry. *)
LEMMA BlankIsEntry == Blank \in Entry
BY DEF Blank, Body, Entry

(* A reader that serves nobody has a well-typed state. *)
LEMMA IdleType == Idle \in ReaderState
BY BlankIsEntry, CacheAssumption DEF Idle, ReaderState

(* An entry that time has passed over is still an entry. *)
LEMMA AgedType ==
    ASSUME NEW e \in Entry
    PROVE  Aged(e) \in Entry
<1>1. e.left \in Int /\ e.age \in Nat
  BY DEF Entry
<1>2. e.left - 1 \in Int /\ e.age + 1 \in Nat
  BY <1>1
<1> QED BY <1>2 DEF Aged, Entry

(* Time only takes life away. *)
LEMMA AgedLife ==
    ASSUME NEW e \in Entry, NEW n \in Nat, e.left <= n
    PROVE  Aged(e).left <= n
<1>1. e.left \in Int
  BY DEF Entry
<1>2. Aged(e).left \in {e.left, e.left - 1}
  BY DEF Aged, Entry
<1> QED BY <1>1, <1>2

(* A reader that serves nobody holds nothing that lives. *)
LEMMA IdleLife == Idle.item.left <= TTL[Idle.key]
BY CacheAssumption DEF Idle, Blank, Body

(* Type correctness of the cache and of the handlers' local variables, and the
   bound on the life of what they hold (cache.go, serveCachedJSON). *)
THEOREM CacheTypeOK == Spec => []TypeOK
<1>1. Init => TypeOK
  BY IdleType, IdleLife DEF Init, TypeOK, NoItems
<1>2. TypeOK /\ [Next]_vars => TypeOK'
  <2> SUFFICES ASSUME TypeOK, [Next]_vars PROVE TypeOK'
    OBVIOUS
  <2> USE DEF TypeOK
  <2>0. /\ \A k \in Keys : TTL[k] \in Nat
        /\ \A r \in Readers : rd[r].key \in Keys /\ rd[r].item \in Entry
        /\ \A k \in DOMAIN items : items[k] \in Entry
        /\ \A e \in Entry : e.left \in Int
    BY CacheAssumption DEF ReaderState, Entry
  <2>1. ASSUME NEW r \in Readers, NEW k \in Keys, Lookup(r, k) PROVE TypeOK'
    <3>1. rd' \in [Readers -> ReaderState]
      BY <2>1, BlankIsEntry DEF Lookup, ReaderState
    <3>2. rd'[r].item.left <= TTL[rd'[r].key]
      BY <2>0, <2>1 DEF Lookup, Blank, Body
    <3> QED BY <2>1, <3>1, <3>2 DEF Lookup
  <2>2. ASSUME NEW r \in Readers, CheckExpiry(r) PROVE TypeOK'
    BY <2>2 DEF CheckExpiry, ReaderState
  <2>3. ASSUME NEW r \in Readers, Compute(r) PROVE TypeOK'
    <3>1. Body(data) \in Entry /\ Body(data).left = 0
      BY DEF Entry, Body
    <3>2. rd' \in [Readers -> ReaderState]
      BY <2>3, <3>1 DEF Compute, ReaderState
    <3>3. rd'[r].item = Body(data) /\ rd'[r].key = rd[r].key
      BY <2>3 DEF Compute, ReaderState
    <3>4. \A q \in Readers \ {r} : rd'[q] = rd[q]
      BY <2>3 DEF Compute
    <3>5. \A q \in Readers : rd'[q].item.left <= TTL[rd'[q].key]
      BY <2>0, <3>1, <3>3, <3>4
    <3> QED BY <2>3, <3>2, <3>5 DEF Compute
  <2>4. ASSUME NEW r \in Readers, ComputeFails(r) PROVE TypeOK'
    BY <2>4, IdleType, IdleLife DEF ComputeFails
  <2>5. ASSUME NEW r \in Readers, Build(r) PROVE TypeOK'
    <3>1. rd[r].item \in Entry /\ TTL[rd[r].key] \in Int
      BY <2>0
    <3>2. [rd[r].item EXCEPT !.left = TTL[rd[r].key]] \in Entry
      BY <3>1 DEF Entry
    <3>3. rd' \in [Readers -> ReaderState]
      BY <2>5, <3>2 DEF Build, ReaderState
    <3>4. rd'[r].item.left = TTL[rd[r].key] /\ rd'[r].key = rd[r].key
      BY <2>5 DEF Build, ReaderState, Entry
    <3> QED BY <2>0, <2>5, <3>3, <3>4 DEF Build
  <2>6. ASSUME NEW r \in Readers, Install(r) PROVE TypeOK'
    <3>1. rd[r].key \in Keys /\ rd[r].item \in Entry
      BY <2>0
    <3>2. DOMAIN items' \subseteq Keys /\ items' \in [DOMAIN items' -> Entry]
      BY <2>6, <3>1, SetItemType DEF Install
    <3>3. \A k \in DOMAIN items' : items'[k].left <= TTL[k]
      BY <2>6, SetItemSource DEF Install
    <3> QED BY <2>6, <3>2, <3>3 DEF Install, ReaderState
  <2>7. ASSUME NEW r \in Readers, Finish(r) PROVE TypeOK'
    BY <2>7, IdleType, IdleLife DEF Finish
  <2>8. ASSUME NEW w \in Writers, Write(w) PROVE TypeOK'
    BY <2>8 DEF Write
  <2>9. ASSUME NEW w \in Writers, Invalidate(w) PROVE TypeOK'
    <3>0. ASSUME NEW s \in ReaderState, NEW b \in BOOLEAN
          PROVE  [s EXCEPT !.item.raced = b] \in ReaderState
      BY DEF ReaderState, Entry
    <3>1. rd' \in [Readers -> ReaderState]
      <4>1. \A r \in Readers : (rd[r].item.raced \/ InFlight(r)) \in BOOLEAN
        BY Zenon
      <4> QED BY <2>9, <3>0, <4>1 DEF Invalidate
    <3>2. \A r \in Readers : rd'[r].item.left = rd[r].item.left /\ rd'[r].key = rd[r].key
      BY <2>0, <2>9 DEF Invalidate, ReaderState, Entry
    <3> QED BY <2>9, <3>1, <3>2 DEF Invalidate, NoItems
  <2>10. CASE ExternalWrite
    BY <2>10 DEF ExternalWrite
  <2>11. CASE Tick
    <3>1. items' \in [DOMAIN items' -> Entry] /\ DOMAIN items' = DOMAIN items
      BY <2>11, AgedType DEF Tick
    <3>2. rd' \in [Readers -> ReaderState]
      BY <2>11, AgedType DEF Tick, ReaderState
    <3>3. \A k \in DOMAIN items : items'[k].left <= TTL[k]
      BY <2>0, <2>11, AgedLife DEF Tick
    <3>4. \A r \in Readers : rd'[r].item.left <= TTL[rd'[r].key]
      <4> SUFFICES ASSUME NEW r \in Readers PROVE rd'[r].item.left <= TTL[rd'[r].key]
        OBVIOUS
      <4>1. rd'[r].key = rd[r].key /\ rd'[r].item \in {rd[r].item, Aged(rd[r].item)}
        BY <2>11 DEF Tick, ReaderState
      <4> QED BY <2>0, <4>1, AgedLife
    <3> QED BY <2>11, <3>1, <3>2, <3>3, <3>4 DEF Tick
  <2>12. CASE UNCHANGED vars
    BY <2>12 DEF vars
  <2> QED BY <2>1, <2>2, <2>3, <2>4, <2>5, <2>6, <2>7, <2>8, <2>9, <2>10, <2>11, <2>12
          DEF Next, ReaderStep
<1> QED BY <1>1, <1>2, PTL DEF Spec

----------------------------------------------------------------------------
(* The map never outgrows maxEntries (cache.go set): every installation makes
   room before it inserts. *)
THEOREM CacheSizeBound == Spec => []SizeBound
<1> DEFINE Inv == IsFiniteSet(DOMAIN items) /\ SizeBound
<1>1. Init => Inv
  BY FS_EmptySet, CacheAssumption DEF Init, NoItems, SizeBound
<1>2. Inv /\ [Next]_vars => Inv'
  <2> SUFFICES ASSUME Inv, [Next]_vars PROVE Inv'
    OBVIOUS
  <2>1. ASSUME NEW r \in Readers, Install(r) PROVE Inv'
    BY <2>1, SetItemRoom DEF Install, SizeBound
  <2>2. ASSUME NEW w \in Writers, Invalidate(w) PROVE Inv'
    <3>1. DOMAIN items' = {}
      BY <2>2 DEF Invalidate, NoItems
    <3> QED BY <3>1, FS_EmptySet, CacheAssumption DEF SizeBound
  <2>3. CASE Tick
    <3>1. DOMAIN items' = DOMAIN items
      BY <2>3 DEF Tick
    <3> QED BY <3>1 DEF SizeBound
  <2>4. CASE UNCHANGED items
    BY <2>4 DEF SizeBound
  <2> QED BY <2>1, <2>2, <2>3, <2>4
          DEF Next, ReaderStep, Lookup, CheckExpiry, Compute, ComputeFails, Build,
              Finish, Write, ExternalWrite, vars
<1>3. Inv => SizeBound
  OBVIOUS
<1> QED BY <1>1, <1>2, <1>3, PTL DEF Spec

----------------------------------------------------------------------------
(* Whatever was rendered before the newest acknowledged write is marked as
   raced wherever it is held, in the map or in the hands of a reader (the
   write handlers' order: commit, invalidateCaches, answer). *)
THEOREM CacheVersions == Spec => []VersionInv
<1>1. Init => VersionInv
  BY DEF Init, VersionInv, StaleOnlyByRace, NoItems, Idle, InFlight
<1>2. TypeOK /\ VersionInv /\ [Next]_vars => VersionInv'
  <2> SUFFICES ASSUME TypeOK, VersionInv, [Next]_vars PROVE VersionInv'
    OBVIOUS
  <2> USE DEF VersionInv, StaleOnlyByRace, InFlight
  <2>0. /\ data \in Nat /\ acked \in Nat
        /\ \A w \in Writers : wr[w] \in Nat
        /\ \A k \in DOMAIN items : items[k].ver \in Nat /\ items[k].raced \in BOOLEAN
        /\ \A r \in Readers : /\ rd[r] \in ReaderState /\ rd[r].item \in Entry
                             /\ rd[r].since \in Nat /\ rd[r].item.ver \in Nat
    BY DEF TypeOK, ReaderState, Entry
  <2>1. ASSUME NEW r \in Readers, NEW k \in Keys, Lookup(r, k) PROVE VersionInv'
    BY <2>0, <2>1 DEF Lookup, TypeOK
  <2>2. ASSUME NEW r \in Readers, CheckExpiry(r) PROVE VersionInv'
    BY <2>0, <2>2 DEF CheckExpiry, TypeOK
  <2>3. ASSUME NEW r \in Readers, Compute(r) PROVE VersionInv'
    BY <2>0, <2>3 DEF Compute, TypeOK, Body
  <2>4. ASSUME NEW r \in Readers, ComputeFails(r) PROVE VersionInv'
    BY <2>0, <2>4 DEF ComputeFails, TypeOK, Idle
  <2>5. ASSUME NEW r \in Readers, Build(r) PROVE VersionInv'
    BY <2>0, <2>5 DEF Build, TypeOK
  <2>6. ASSUME NEW r \in Readers, Install(r) PROVE VersionInv'
    <3>1. \A k \in DOMAIN items' : items'[k].ver < acked => items'[k].raced
      BY <2>0, <2>6, SetItemSource DEF Install
    <3> QED BY <2>0, <2>6, <3>1 DEF Install, TypeOK
  <2>7. ASSUME NEW r \in Readers, Finish(r) PROVE VersionInv'
    BY <2>0, <2>7 DEF Finish, TypeOK, Idle
  <2>8. ASSUME NEW w \in Writers, Write(w) PROVE VersionInv'
    BY <2>0, <2>8 DEF Write, TypeOK
  <2>9. ASSUME NEW w \in Writers, Invalidate(w) PROVE VersionInv'
    <3>1. DOMAIN items' = {}
      BY <2>9 DEF Invalidate, NoItems
    <3>2. acked' <= data' /\ \A v \in Writers : wr'[v] <= data'
      BY <2>0, <2>9 DEF Invalidate, TypeOK
    <3>3. acked' \in Nat /\ acked <= acked'
      BY <2>0, <2>9 DEF Invalidate
    <3>4. ASSUME NEW r \in Readers
          PROVE  /\ rd'[r].pc = rd[r].pc /\ rd'[r].since = rd[r].since
                 /\ rd'[r].item.ver = rd[r].item.ver
                 /\ rd'[r].item.raced = (rd[r].item.raced \/ InFlight(r))
      BY <2>0, <2>9 DEF Invalidate, TypeOK, ReaderState, Entry
    <3>5. \A r \in Readers : rd'[r].pc \in {"read", "built"} => rd'[r].item.raced
      BY <3>4, Zenon
    <3>6. \A r \in Readers : rd[r].item.raced => rd'[r].item.raced
      BY <3>4, Zenon
    <3>7. \A r \in Readers : rd'[r].since <= acked'
      BY <2>0, <3>3, <3>4
    <3>8. \A r \in Readers : rd'[r].pc \in {"found", "hit", "filled"} =>
                               rd'[r].item.ver >= rd'[r].since \/ rd'[r].item.raced
      BY <3>4, <3>6
    <3> QED BY <3>1, <3>2, <3>5, <3>7, <3>8
  <2>10. CASE ExternalWrite
    BY <2>0, <2>10 DEF ExternalWrite
  <2>11. CASE Tick
    <3>1. ASSUME NEW e \in Entry PROVE Aged(e).ver = e.ver /\ Aged(e).raced = e.raced
      BY <3>1 DEF Aged, Entry
    <3>2. \A k \in DOMAIN items : items[k] \in Entry
      BY DEF TypeOK
    <3>3. /\ DOMAIN items' = DOMAIN items
          /\ \A k \in DOMAIN items : /\ items'[k].ver = items[k].ver
                                     /\ items'[k].raced = items[k].raced
      BY <2>11, <3>1, <3>2 DEF Tick
    <3>4. ASSUME NEW r \in Readers
          PROVE  /\ rd'[r].pc = rd[r].pc /\ rd'[r].since = rd[r].since
                 /\ rd'[r].item.ver = rd[r].item.ver
                 /\ rd'[r].item.raced = rd[r].item.raced
      <4>1. CASE rd'[r] = rd[r]
        BY <4>1
      <4>2. CASE rd'[r] = [rd[r] EXCEPT !.item = Aged(rd[r].item)]
        BY <2>0, <3>1, <4>2 DEF ReaderState
      <4> QED BY <2>11, <4>1, <4>2 DEF Tick
    <3> QED BY <2>11, <3>3, <3>4 DEF Tick
  <2>12. CASE UNCHANGED vars
    BY <2>12 DEF vars
  <2> QED BY <2>1, <2>2, <2>3, <2>4, <2>5, <2>6, <2>7, <2>8, <2>9, <2>10, <2>11, <2>12
          DEF Next, ReaderStep
<1> QED BY <1>1, <1>2, CacheTypeOK, PTL DEF Spec

(* Only a fill that straddles a clear() can leave an old body in the cache
   (cache.go set and clear, serveCachedJSON). *)
THEOREM CacheStaleOnlyByRace == Spec => []StaleOnlyByRace
<1>1. VersionInv => StaleOnlyByRace
  BY DEF VersionInv
<1> QED BY <1>1, CacheVersions, PTL

(* A client that saw its write acknowledged reads it back, unless the body
   comes from a fill that straddled a clear(). *)
THEOREM CacheReadYourWrites == Spec => []ReadYourWrites
<1>1. TypeOK /\ VersionInv => ReadYourWrites
  BY DEF VersionInv, ReadYourWrites, Answered, TypeOK, ReaderState, Entry
<1> QED BY <1>1, CacheTypeOK, CacheVersions, PTL

(* A cached body is never served past the life of its key (get, cacheEntry). *)
THEOREM CacheHitsAreYoung == Spec => []HitsAreYoung
<1>1. Init => AgeInv
  BY DEF Init, AgeInv, NoItems, Idle
<1>2. TypeOK /\ AgeInv /\ [Next]_vars => AgeInv'
  <2> SUFFICES ASSUME TypeOK, AgeInv, [Next]_vars PROVE AgeInv'
    OBVIOUS
  <2> USE DEF AgeInv
  <2>0. \A r \in Readers :
          /\ rd[r] \in ReaderState /\ rd[r].item \in Entry /\ rd[r].key \in Keys
          /\ rd[r].item.left \in Int /\ rd[r].item.age \in Nat
          /\ TTL[rd[r].key] \in Nat
    BY CacheAssumption DEF TypeOK, ReaderState, Entry
  <2>1. ASSUME NEW r \in Readers, NEW k \in Keys, Lookup(r, k) PROVE AgeInv'
    BY <2>0, <2>1 DEF Lookup, TypeOK
  <2>2. ASSUME NEW r \in Readers, CheckExpiry(r) PROVE AgeInv'
    BY <2>0, <2>2 DEF CheckExpiry, TypeOK, Expired
  <2>3. ASSUME NEW r \in Readers, Compute(r) PROVE AgeInv'
    BY <2>0, <2>3 DEF Compute, TypeOK, Body
  <2>4. ASSUME NEW r \in Readers, ComputeFails(r) PROVE AgeInv'
    BY <2>0, <2>4 DEF ComputeFails, TypeOK, Idle
  <2>5. ASSUME NEW r \in Readers, Build(r) PROVE AgeInv'
    BY <2>0, <2>5 DEF Build, TypeOK, ReaderState, Entry
  <2>6. ASSUME NEW r \in Readers, Install(r) PROVE AgeInv'
    <3>1. \A k \in DOMAIN items' : items'[k].age + items'[k].left = TTL[k]
      BY <2>0, <2>6, SetItemSource DEF Install
    <3> QED BY <2>0, <2>6, <3>1 DEF Install, TypeOK
  <2>7. ASSUME NEW r \in Readers, Finish(r) PROVE AgeInv'
    BY <2>0, <2>7 DEF Finish, TypeOK, Idle
  <2>8. ASSUME NEW w \in Writers, Write(w) PROVE AgeInv'
    BY <2>8 DEF Write
  <2>9. ASSUME NEW w \in Writers, Invalidate(w) PROVE AgeInv'
    <3>1. DOMAIN items' = {}
      BY <2>9 DEF Invalidate, NoItems
    <3>2. ASSUME NEW r \in Readers
          PROVE  /\ rd'[r].pc = rd[r].pc /\ rd'[r].key = rd[r].key
                 /\ rd'[r].item.age = rd[r].item.age
                 /\ rd'[r].item.left = rd[r].item.left
      BY <2>0, <2>9 DEF Invalidate, ReaderState, Entry
    <3> QED BY <3>1, <3>2
  <2>10. CASE ExternalWrite
    BY <2>10 DEF ExternalWrite
  <2>11. CASE Tick
    <3>1. ASSUME NEW e \in Entry
          PROVE  /\ Aged(e).age + Aged(e).left = e.age + e.left
                 /\ Expired(e) => Aged(e) = e
      <4>1. e.left \in Int /\ e.age \in Nat
        BY DEF Entry
      <4> QED BY <4>1 DEF Aged, Entry
    <3>2. \A k \in DOMAIN items : items[k] \in Entry
      BY DEF TypeOK
    <3>3. \A k \in DOMAIN items' : items'[k].age + items'[k].left = TTL[k]
      BY <2>11, <3>1, <3>2 DEF Tick
    <3>4. ASSUME NEW r \in Readers
          PROVE  /\ rd'[r].pc = rd[r].pc /\ rd'[r].key = rd[r].key
                 /\ rd'[r].item.age + rd'[r].item.left = rd[r].item.age + rd[r].item.left
                 /\ rd[r].pc \notin {"found", "built"} => rd'[r] = rd[r]
      <4>1. CASE rd[r].pc \notin {"found", "built"}
        BY <2>11, <4>1 DEF Tick
      <4>2. CASE rd[r].pc \in {"found", "built"}
        <5>1. rd'[r] = [rd[r] EXCEPT !.item = Aged(rd[r].item)]
          BY <2>11, <4>2 DEF Tick
        <5> QED BY <2>0, <3>1, <4>2, <5>1 DEF ReaderState
      <4> QED BY <4>1, <4>2
    <3> QED BY <3>3, <3>4
  <2>12. CASE UNCHANGED vars
    BY <2>12 DEF vars
  <2> QED BY <2>1, <2>2, <2>3, <2>4, <2>5, <2>6, <2>7, <2>8, <2>9, <2>10, <2>11, <2>12
          DEF Next, ReaderStep
<1>3. TypeOK /\ AgeInv => HitsAreYoung
  BY CacheAssumption DEF AgeInv, HitsAreYoung, TypeOK, ReaderState, Entry
<1> QED BY <1>1, <1>2, <1>3, CacheTypeOK, PTL DEF Spec
=============================================================================
