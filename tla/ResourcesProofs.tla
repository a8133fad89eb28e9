-------------------------- MODULE ResourcesProofs --------------------------
(* Proofs about Resources, for any number of resources, visitors, requests *)
(* in flight and sessions of administration; and about Stores, for any     *)
(* number of calls.                                                        *)
EXTENDS Resources, Stores, FiniteSetTheorems, SequenceTheorems, TLAPS

(* The documents the handlers build are documents. *)
LEMMA DetailsTypes ==
    /\ NoDetails \in Details
    /\ \A c \in Contents, n \in Nat : FormDetails(c, n) \in Details
    /\ \A d \in Details, c \in Contents :
          Merged(d, c) \in Details /\ FormUpdate(d, c) \in Details
    /\ \A n \in Nat : Filled(n) \in Nat \ {0}
<1>1. \A n \in Nat : Filled(n) \in Nat \ {0}
  BY DEF Filled
<1>2. NoDetails \in Details /\ \A c \in Contents, n \in Nat : FormDetails(c, n) \in Details
  BY DEF Details, NoDetails, FormDetails
<1>3. \A d \in Details, c \in Contents : Merged(d, c) \in Details
  BY DEF Details, Merged
<1>4. ASSUME NEW d \in Details, NEW c \in Contents
      PROVE  FormUpdate(d, c) \in Details
  <2>1. Merged(d, c) \in Details /\ Filled(Merged(d, c).confirms) \in Nat
    BY <1>1, <1>3 DEF Details
  <2> QED BY <2>1 DEF FormUpdate, Details
<1> QED BY <1>1, <1>2, <1>3, <1>4

(* A request that overlays one counter leaves a document. *)
LEMMA OverlaidType ==
    ASSUME NEW d \in Details, NEW h \in Handlers, hd[h] \in Handler
    PROVE  Overlaid(d, h) \in Details
BY DEF Details, Overlaid, Handler

(* A goroutine that serves nobody has a well-typed state. *)
LEMMA IdleHandlerType == IdleHandler \in Handler
BY DetailsTypes DEF IdleHandler, Handler

(* An id is a number. *)
LEMMA IdsAreNat == Ids \subseteq Nat
BY ResourcesAssumption DEF Ids

(* The rows of the migrations are approved rows, and their counts claims. *)
LEMMA SeedType ==
    ASSUME Init
    PROVE  /\ Existing \in SUBSET Ids
           /\ res \in [Existing -> Resource]
           /\ claimed \in [Existing -> Nat]
           /\ \E n \in Nat : Existing = 1..n
           /\ \A i \in Existing : claimed[i] >= 1 /\ res[i].details.confirms <= claimed[i]
<1>1. PICK t \in SeedTables : /\ res = [i \in 1..Len(t) |-> SeedRow(t[i])]
                              /\ claimed = [i \in 1..Len(t) |-> Filled(t[i].confirms)]
  BY DEF Init
<1>2. /\ t \in Seq([desc : Contents, confirms : Nat, helping : Nat])
      /\ Len(t) \in Nat /\ Len(t) <= MaxId /\ MaxId \in Nat
  <2>1. t \in Seq([desc : Contents, confirms : Nat, helping : Nat])
    BY ResourcesAssumption
  <2>2. Len(t) \in Nat
    BY <2>1, LenProperties
  <2>3. Len(t) <= MaxId /\ MaxId \in Nat
    BY ResourcesAssumption
  <2> QED BY <2>1, <2>2, <2>3
<1>3. Existing = 1..Len(t)
  BY <1>1 DEF Existing
<1>4. \A i \in 1..Len(t) : t[i] \in [desc : Contents, confirms : Nat, helping : Nat]
  BY <1>2, ElementOfSeq
<1>5. \A i \in 1..Len(t) : SeedRow(t[i]) \in Resource
  BY <1>4 DEF SeedRow, Resource, Status, Details
<1>6. \A i \in 1..Len(t) : /\ Filled(t[i].confirms) \in Nat /\ Filled(t[i].confirms) >= 1
                            /\ res[i].details.confirms <= Filled(t[i].confirms)
  BY <1>1, <1>4 DEF SeedRow, Filled
<1>7. Existing \in SUBSET Ids
  BY <1>2, <1>3 DEF Ids
<1> QED BY <1>1, <1>2, <1>3, <1>5, <1>6, <1>7

(* An insertion keeps the table a table and forgets no row. *)
LEMMA InsertType ==
    ASSUME Existing \in SUBSET Ids, res \in [Existing -> Resource],
           claimed \in [Existing -> Nat], NEW r \in Resource, Insert(r)
    PROVE  /\ Existing' = Existing \cup {NextId}
           /\ Existing' \in SUBSET Ids
           /\ res' \in [Existing' -> Resource]
           /\ claimed' \in [Existing' -> Nat]
<1>1. Existing' = Existing \cup {NextId} /\ NextId \in Ids
  BY DEF Insert, Existing
<1>2. \A i \in Existing' : res'[i] \in Resource
  BY <1>1 DEF Insert, Existing
<1>3. res' = [i \in Existing' |-> res'[i]]
  BY DEF Insert, Existing
<1>4. claimed' \in [Existing' -> Nat]
  <2>1. Filled(r.details.confirms) \in Nat
    BY DetailsTypes DEF Resource, Details
  <2> QED BY <1>1, <2>1 DEF Insert
<1> QED BY <1>1, <1>2, <1>3, <1>4

(* Type correctness of the tables, of the handlers' local variables and of the
   copies that visitors and administration hold (server.go, pg.go, map.js). *)
THEOREM ResourcesTypeOK == Spec => []TypeOK
<1>1. Init => TypeOK
  <2> SUFFICES ASSUME Init PROVE TypeOK
    OBVIOUS
  <2>1. /\ Existing \in SUBSET Ids /\ res \in [Existing -> Resource]
        /\ claimed \in [Existing -> Nat]
    BY SeedType
  <2>2. hd \in [Handlers -> Handler] /\ \A h \in Handlers : hd[h].pc = "idle"
    BY IdleHandlerType DEF Init, IdleHandler
  <2>3. seen \in [Browsers -> [Ids -> Nat \cup {NoView}]]
    BY DEF Init
  <2>4. \A a \in Admins : /\ DOMAIN panel[a] = {}
                          /\ panel[a] \in [{} -> [name : Contents, details : Details]]
    BY DEF Init, NoPanel
  <2>5. helps \in 0..MaxHelps
    BY ResourcesAssumption DEF Init
  <2> QED BY <2>1, <2>2, <2>3, <2>4, <2>5 DEF Init, TypeOK
<1>2. TypeOK /\ [Next]_vars => TypeOK'
  <2> SUFFICES ASSUME TypeOK, [Next]_vars PROVE TypeOK'
    OBVIOUS
  <2> USE DEF TypeOK
  <2>1. ASSUME NEW c \in Contents, NEW o \in Owners, NEW n \in ReportValues,
               Report(c, o, n)
        PROVE  TypeOK'
    <3>1. [status |-> "pending", name |-> c, details |-> FormDetails(c, n), owner |-> o]
            \in Resource
      BY DetailsTypes, ResourcesAssumption DEF Resource, Status
    <3>2. /\ Existing' = Existing \cup {NextId}
          /\ Existing' \in SUBSET Ids
          /\ res' \in [Existing' -> Resource]
          /\ claimed' \in [Existing' -> Nat]
      BY <2>1, <3>1, InsertType DEF Report
    <3> QED BY <2>1, <3>2 DEF Report
  <2>2. ASSUME NEW c \in Contents, NEW s \in Status, AdminCreate(c, s) PROVE TypeOK'
    <3>1. [status |-> s, name |-> c, details |-> FormDetails(c, Filled(0)), owner |-> NoOwner]
            \in Resource
      BY DetailsTypes DEF Resource, Filled
    <3>2. /\ Existing' = Existing \cup {NextId}
          /\ Existing' \in SUBSET Ids
          /\ res' \in [Existing' -> Resource]
          /\ claimed' \in [Existing' -> Nat]
      BY <2>2, <3>1, InsertType DEF AdminCreate
    <3> QED BY <2>2, <3>2 DEF AdminCreate
  <2>3. ASSUME NEW h \in Handlers, NEW i \in Ids, NEW o \in Owners, NEW c \in Contents,
               EditRead(h, i, o, c)
        PROVE  TypeOK'
    <3> DEFINE new == [IdleHandler EXCEPT !.pc = "edit", !.id = i,
                                          !.snap = Merged(res[i].details, c)]
    <3>1. res[i].details \in Details
      BY <2>3 DEF EditRead, Resource
    <3>2. Merged(res[i].details, c) \in Details /\ Merged(res[i].details, c).desc = c
      BY <3>1, DetailsTypes DEF Merged, Details
    <3>3. new \in Handler /\ new.pc = "edit" /\ new.id = i /\ new.snap.desc = c
      BY <3>2, IdsAreNat, IdleHandlerType DEF IdleHandler, Handler
    <3>4. hd' = [hd EXCEPT ![h] = new] /\ i \in Existing /\ Existing' = Existing
      BY <2>3 DEF EditRead, Existing
    <3> HIDE DEF new
    <3> QED BY <2>3, <3>3, <3>4 DEF EditRead
  <2>4. ASSUME NEW h \in Handlers, EditWrite(h) PROVE TypeOK'
    <3> DEFINE i == hd[h].id
               new == [res[i] EXCEPT !.name = hd[h].snap.desc, !.details = hd[h].snap,
                                     !.status = "pending"]
    <3>1. i \in Existing /\ hd[h].snap \in Details /\ hd[h].snap.desc \in Contents
      BY <2>4 DEF EditWrite, Handler
    <3>2. new \in Resource
      <4>1. res[i] \in Resource
        BY <3>1
      <4> QED BY <4>1, <3>1 DEF Resource, Status
    <3>3. res' = [res EXCEPT ![i] = new]
      BY <2>4, <3>1 DEF EditWrite, Existing
    <3>4. res' \in [Existing -> Resource] /\ Existing' = Existing
      BY <3>1, <3>2, <3>3 DEF Existing
    <3>5. hd' = [hd EXCEPT ![h] = IdleHandler] /\ IdleHandler.pc = "idle"
      BY <2>4 DEF EditWrite, IdleHandler
    <3> QED BY <2>4, <3>1, <3>4, <3>5, IdleHandlerType DEF EditWrite
  <2>5. ASSUME NEW h \in Handlers, EditFails(h) \/ DetailsFails(h) PROVE TypeOK'
    <3>1. hd' = [hd EXCEPT ![h] = IdleHandler] /\ IdleHandler.pc = "idle"
      BY <2>5 DEF EditFails, DetailsFails, IdleHandler
    <3> QED BY <2>5, <3>1, IdleHandlerType DEF EditFails, DetailsFails, Existing
  <2>6. ASSUME NEW h \in Handlers, NEW b \in Browsers, NEW i \in Ids, NEW v \in Nat,
               VoteInsert(h, i, Fingerprint[b], v),
               seen' \in [Browsers -> [Ids -> Nat \cup {NoView}]],
               claimed' \in [Existing -> Nat]
        PROVE  TypeOK'
    <3> DEFINE new == [IdleHandler EXCEPT !.pc = "counter", !.id = i, !.key = "confirms",
                                          !.val = v]
    <3>1. new \in Handler /\ new.pc = "counter" /\ new.id = i
      BY IdsAreNat, IdleHandlerType DEF IdleHandler, Handler
    <3>2. /\ hd' = [hd EXCEPT ![h] = new] /\ i \in Existing /\ Existing' = Existing
          /\ votes' = votes \cup {<<i, Fingerprint[b]>>}
      BY <2>6 DEF VoteInsert, Counter, Existing
    <3> HIDE DEF new
    <3> QED BY <2>6, <3>1, <3>2 DEF VoteInsert
  <2>6a. ASSUME NEW h \in Handlers, NEW b \in Browsers, NEW i \in Ids, PageVotes(h, b, i)
         PROVE  TypeOK'
    <3>1. seen[b][i] + 1 \in Nat
      BY <2>6a DEF PageVotes
    <3>2. seen' \in [Browsers -> [Ids -> Nat \cup {NoView}]]
      BY <2>6a DEF PageVotes
    <3> QED BY <2>6, <2>6a, <3>1, <3>2 DEF PageVotes
  <2>6b. ASSUME NEW h \in Handlers, NEW b \in Browsers, NEW i \in Ids, NEW v \in CounterValues,
                ClientVotes(h, b, i, v)
         PROVE  TypeOK'
    <3>1. v \in Nat
      BY ResourcesAssumption
    <3>2. claimed' \in [Existing -> Nat]
      BY <2>6b, <3>1 DEF ClientVotes
    <3> QED BY <2>6, <2>6b, <3>1, <3>2 DEF ClientVotes
  <2>7. ASSUME NEW h \in Handlers, NEW i \in Ids, NEW v \in HelpValues, HelpStart(h, i, v)
        PROVE  TypeOK'
    <3> DEFINE new == [IdleHandler EXCEPT !.pc = "counter", !.id = i,
                                          !.key = "helping", !.val = v]
    <3>1. new \in Handler /\ new.pc = "counter" /\ new.id = i /\ new.key = "helping"
      BY IdsAreNat, IdleHandlerType, ResourcesAssumption DEF IdleHandler, Handler
    <3>2. hd' = [hd EXCEPT ![h] = new] /\ i \in Existing /\ Existing' = Existing
      BY <2>7 DEF HelpStart, Counter, Existing
    <3>3. helps' \in 0..MaxHelps
      BY <2>7, ResourcesAssumption DEF HelpStart
    <3> HIDE DEF new
    <3> QED BY <2>7, <3>1, <3>2, <3>3 DEF HelpStart
  <2>8. ASSUME NEW h \in Handlers, NEW d \in Details, hd[h].pc = "counter",
               hd' = [hd EXCEPT ![h].pc = "selected", ![h].snap = d],
               UNCHANGED <<res, votes, seen, panel, unreviewed, claimed, helps>>
        PROVE  TypeOK'
    <3> DEFINE new == [hd[h] EXCEPT !.pc = "selected", !.snap = d]
    <3>1. /\ new \in Handler /\ new.pc = "selected" /\ new.id = hd[h].id
          /\ new.key = hd[h].key
      BY DEF Handler
    <3>2. hd' = [hd EXCEPT ![h] = new]
      BY <2>8
    <3> HIDE DEF new
    <3> QED BY <2>8, <3>1, <3>2 DEF Existing
  <2>9. ASSUME NEW h \in Handlers, DetailsSelect(h) PROVE TypeOK'
    <3>1. res[hd[h].id].details \in Details
      BY <2>9 DEF DetailsSelect, Resource
    <3> QED BY <2>9, <3>1, <2>8 DEF DetailsSelect
  <2>10. ASSUME NEW h \in Handlers, DetailsSelectFails(h) PROVE TypeOK'
    BY <2>10, <2>8, DetailsTypes DEF DetailsSelectFails
  <2>11. ASSUME NEW h \in Handlers, DetailsUpdate(h) PROVE TypeOK'
    <3> DEFINE i == hd[h].id
               new == [res[i] EXCEPT !.details = Overlaid(hd[h].snap, h)]
    <3>1. i \in Existing /\ hd[h] \in Handler /\ hd[h].snap \in Details
      BY <2>11 DEF DetailsUpdate, Handler
    <3>2. new \in Resource
      BY <3>1, OverlaidType DEF Resource
    <3>3. res' = [res EXCEPT ![i] = new]
      BY <2>11, <3>1 DEF DetailsUpdate, Existing
    <3>4. res' \in [Existing -> Resource] /\ Existing' = Existing
      BY <3>1, <3>2, <3>3 DEF Existing
    <3>5. hd' = [hd EXCEPT ![h] = IdleHandler] /\ IdleHandler.pc = "idle"
      BY <2>11 DEF DetailsUpdate, IdleHandler
    <3> QED BY <2>11, <3>4, <3>5, IdleHandlerType DEF DetailsUpdate
  <2>12. ASSUME NEW a \in Admins, AdminLoad(a) PROVE TypeOK'
    <3> DEFINE new == [i \in Existing |-> [name |-> res[i].name, details |-> res[i].details]]
    <3>1. new \in [Existing -> [name : Contents, details : Details]]
      BY DEF Resource
    <3>2. panel' = [panel EXCEPT ![a] = new] /\ Existing' = Existing
      BY <2>12 DEF AdminLoad, Existing
    <3> HIDE DEF new
    <3> QED BY <2>12, <3>1, <3>2 DEF AdminLoad
  <2>13. ASSUME NEW a \in Admins, NEW i \in Ids, NEW s \in Status, Moderate(a, i, s)
         PROVE  TypeOK'
    <3>1. i \in Existing
      BY <2>13 DEF Moderate
    <3>2. [res[i] EXCEPT !.status = s] \in Resource
      BY <3>1 DEF Resource
    <3>3. res' = [res EXCEPT ![i] = [res[i] EXCEPT !.status = s]]
      BY <2>13, <3>1 DEF Moderate, Existing
    <3>4. res' \in [Existing -> Resource] /\ Existing' = Existing
      BY <3>1, <3>2, <3>3 DEF Existing
    <3> QED BY <2>13, <3>4 DEF Moderate
  <2>14. ASSUME NEW a \in Admins, NEW i \in Ids, NEW c \in Contents, NEW s \in Status,
                AdminUpdate(a, i, c, s)
         PROVE  TypeOK'
    <3> DEFINE new == [status |-> s, name |-> c, owner |-> res[i].owner,
                       details |-> FormUpdate(panel[a][i].details, c)]
    <3>1. i \in Existing /\ panel[a][i].details \in Details
      BY <2>14 DEF AdminUpdate
    <3>2. new \in Resource
      BY <3>1, DetailsTypes DEF Resource
    <3>3. res' = [res EXCEPT ![i] = new] /\ panel' = [panel EXCEPT ![a] = NoPanel]
      BY <2>14 DEF AdminUpdate
    <3>4. res' \in [Existing -> Resource] /\ Existing' = Existing
      BY <3>1, <3>2, <3>3 DEF Existing
    <3>5. DOMAIN NoPanel = {} /\ NoPanel \in [{} -> [name : Contents, details : Details]]
      BY DEF NoPanel
    <3> HIDE DEF new
    <3> QED BY <2>14, <3>3, <3>4, <3>5 DEF AdminUpdate
  <2>15. ASSUME NEW b \in Browsers, BrowserLoad(b) PROVE TypeOK'
    <3> DEFINE new == [i \in Ids |-> IF i \in Existing /\ res[i].status = "approved"
                                     THEN res[i].details.confirms ELSE NoView]
    <3>1. new \in [Ids -> Nat \cup {NoView}]
      BY DEF Resource, Details
    <3>2. seen' = [seen EXCEPT ![b] = new] /\ Existing' = Existing
      BY <2>15 DEF BrowserLoad, Existing
    <3> HIDE DEF new
    <3> QED BY <2>15, <3>1, <3>2 DEF BrowserLoad
  <2>16. CASE UNCHANGED vars
    BY <2>16 DEF vars, Existing
  <2> QED BY <2>1, <2>2, <2>3, <2>4, <2>5, <2>6a, <2>6b, <2>7, <2>9, <2>10, <2>11, <2>12,
             <2>13, <2>14, <2>15, <2>16 DEF Next
<1> QED BY <1>1, <1>2, PTL DEF Spec
----------------------------------------------------------------------------
(* The id of a new row is the one after the last. *)
LEMMA NextIdIsNew ==
    ASSUME IdsInOrder
    PROVE  NextId \notin Existing
<1> PICK n \in Nat : Existing = 1..n
  BY DEF IdsInOrder
<1>1. Cardinality(Existing) = n
  BY FS_Interval
<1> QED BY <1>1 DEF NextId

(* No row is deleted and ids are given out in order (BIGSERIAL, pg.go has no
   DELETE). *)
LEMMA ResourcesIdsInOrder == Spec => []IdsInOrder
<1>1. Init => IdsInOrder
  BY SeedType DEF IdsInOrder
<1>2. TypeOK /\ IdsInOrder /\ [Next]_vars => IdsInOrder'
  <2> SUFFICES ASSUME TypeOK, IdsInOrder, [Next]_vars PROVE IdsInOrder'
    OBVIOUS
  <2>1. ASSUME NEW c, NEW o, NEW s, NEW n, Report(c, o, n) \/ AdminCreate(c, s)
        PROVE  IdsInOrder'
    <3> PICK m \in Nat : Existing = 1..m
      BY DEF IdsInOrder
    <3>1. NextId = m + 1
      <4>1. Cardinality(1..m) = m
        BY FS_Interval
      <4> QED BY <4>1 DEF NextId
    <3>2. Existing' = 1..m \cup {m + 1}
      BY <2>1, <3>1 DEF Report, AdminCreate, Insert, Existing
    <3>3. Existing' = 1..(m + 1)
      BY <3>2
    <3> QED BY <3>3 DEF IdsInOrder
  <2>2. ASSUME Existing' = Existing
        PROVE  IdsInOrder'
    BY <2>2 DEF IdsInOrder
  <2>3. CASE UNCHANGED vars
    BY <2>2, <2>3 DEF vars, Existing
  <2>4. ASSUME NEW h \in Handlers,
               \/ \E i \in Ids : \/ \E o \in Owners, c \in Contents : EditRead(h, i, o, c)
                                 \/ \E b \in Browsers : PageVotes(h, b, i)
                                 \/ \E b \in Browsers, v \in CounterValues : ClientVotes(h, b, i, v)
                                 \/ \E v \in HelpValues : HelpStart(h, i, v)
               \/ EditWrite(h) \/ EditFails(h) \/ DetailsSelect(h)
               \/ DetailsSelectFails(h) \/ DetailsUpdate(h) \/ DetailsFails(h)
        PROVE  IdsInOrder'
    BY <2>2, <2>4 DEF EditRead, PageVotes, ClientVotes, VoteInsert, HelpStart, EditWrite, EditFails, DetailsSelect,
                      DetailsSelectFails, DetailsUpdate, DetailsFails, Existing, TypeOK
  <2>5. ASSUME NEW a \in Admins,
               \/ AdminLoad(a)
               \/ \E i \in Ids, s \in Status :
                     Moderate(a, i, s) \/ \E c \in Contents : AdminUpdate(a, i, c, s)
        PROVE  IdsInOrder'
    BY <2>2, <2>5 DEF AdminLoad, Moderate, AdminUpdate, Existing
  <2>6. ASSUME NEW b \in Browsers, BrowserLoad(b)
        PROVE  IdsInOrder'
    BY <2>2, <2>6 DEF BrowserLoad, Existing
  <2> QED BY <2>1, <2>3, <2>4, <2>5, <2>6 DEF Next
<1> QED BY <1>1, <1>2, ResourcesTypeOK, PTL DEF Spec

(* A row keeps what was claimed for it, or more, and the votes it had; there
   are no other rows but the new one (InsertResource, InsertResourceValidation:
   the unique index makes every recorded vote a new one). *)
LEMMA ClaimsGrow ==
    ASSUME TypeOK, IdsInOrder, IsFiniteSet(votes), Next
    PROVE  /\ IsFiniteSet(votes') /\ votes \subseteq votes'
           /\ Existing \subseteq Existing'
           /\ \A i \in Existing : claimed[i] <= claimed'[i]
<1> DEFINE Kept == /\ IsFiniteSet(votes') /\ votes \subseteq votes'
                   /\ Existing \subseteq Existing'
                   /\ \A i \in Existing : claimed[i] <= claimed'[i]
<1>0. \A i \in Existing : claimed[i] \in Nat
  BY DEF TypeOK
<1>1. ASSUME NEW c, NEW o, NEW s, NEW n, Report(c, o, n) \/ AdminCreate(c, s)
      PROVE  Kept
  <2>1. votes' = votes /\ Existing' = Existing \cup {NextId}
    BY <1>1 DEF Report, AdminCreate, Insert, Existing
  <2>2. \A i \in Existing : claimed'[i] = claimed[i]
    BY <1>1, NextIdIsNew DEF Report, AdminCreate, Insert
  <2> QED BY <1>0, <2>1, <2>2
<1>2. ASSUME NEW h \in Handlers, NEW b \in Browsers, NEW i \in Ids, NEW v \in CounterValues,
             PageVotes(h, b, i) \/ ClientVotes(h, b, i, v)
      PROVE  Kept
  <2>1. votes' = votes \cup {<<i, Fingerprint[b]>>} /\ Existing' = Existing
    BY <1>2 DEF PageVotes, ClientVotes, VoteInsert, Existing
  <2>2. IsFiniteSet(votes')
    BY <2>1, FS_AddElement
  <2>3. v \in Nat
    BY ResourcesAssumption
  <2>4. \A j \in Existing : claimed[j] <= claimed'[j]
    BY <1>0, <1>2, <2>3 DEF PageVotes, ClientVotes, TypeOK
  <2> QED BY <2>1, <2>2, <2>4
<1>3. ASSUME NEW h \in Handlers, NEW b \in Browsers, NEW i \in Ids, PageVotes(h, b, i)
      PROVE  Kept
  <2>1. votes' = votes \cup {<<i, Fingerprint[b]>>} /\ Existing' = Existing
    BY <1>3 DEF PageVotes, VoteInsert, Existing
  <2>2. IsFiniteSet(votes') /\ claimed' = claimed
    BY <1>3, <2>1, FS_AddElement DEF PageVotes
  <2> QED BY <1>0, <2>1, <2>2
<1>4. ASSUME votes' = votes, claimed' = claimed, Existing' = Existing PROVE Kept
  BY <1>0, <1>4
<1>5. ASSUME NEW h \in Handlers,
             \/ \E i \in Ids : \/ \E o \in Owners, c \in Contents : EditRead(h, i, o, c)
                               \/ \E v \in HelpValues : HelpStart(h, i, v)
             \/ EditWrite(h) \/ EditFails(h) \/ DetailsSelect(h)
             \/ DetailsSelectFails(h) \/ DetailsUpdate(h) \/ DetailsFails(h)
      PROVE  Kept
  BY <1>4, <1>5 DEF EditRead, HelpStart, EditWrite, EditFails, DetailsSelect,
                    DetailsSelectFails, DetailsUpdate, DetailsFails, Existing, TypeOK
<1>6. ASSUME \/ \E a \in Admins :
                  \/ AdminLoad(a)
                  \/ \E i \in Ids, s \in Status :
                        Moderate(a, i, s) \/ \E c \in Contents : AdminUpdate(a, i, c, s)
             \/ \E b \in Browsers : BrowserLoad(b)
      PROVE  Kept
  BY <1>4, <1>6 DEF AdminLoad, Moderate, AdminUpdate, BrowserLoad, Existing
<1> HIDE DEF Kept
<1>7. Kept
  BY <1>1, <1>2, <1>3, <1>5, <1>6 DEF Next
<1> QED BY <1>7 DEF Kept

(* The limit of a row is a number, and no step lowers it. *)
LEMMA LimitsGrow ==
    ASSUME TypeOK, TypeOK', IdsInOrder, IsFiniteSet(votes), Next
    PROVE  \A i \in Existing : /\ Limit(i) \in Nat /\ Limit(i)' \in Nat
                              /\ claimed'[i] <= Limit(i)'
                              /\ Limit(i) <= Limit(i)'
<1> SUFFICES ASSUME NEW i \in Existing
             PROVE  /\ Limit(i) \in Nat /\ Limit(i)' \in Nat
                    /\ claimed'[i] <= Limit(i)' /\ Limit(i) <= Limit(i)'
  OBVIOUS
<1>1. /\ IsFiniteSet(votes') /\ votes \subseteq votes' /\ i \in Existing'
      /\ claimed[i] <= claimed'[i]
  BY ClaimsGrow
<1>2. claimed[i] \in Nat /\ claimed'[i] \in Nat
  BY <1>1 DEF TypeOK
<1>3. VotesFor(i) \subseteq VotesFor(i)' /\ VotesFor(i)' \subseteq votes'
  BY <1>1 DEF VotesFor
<1>4. IsFiniteSet(VotesFor(i)')
  BY <1>1, <1>3, FS_Subset
<1>5. /\ IsFiniteSet(VotesFor(i))
      /\ Cardinality(VotesFor(i)) <= Cardinality(VotesFor(i)')
  BY <1>3, <1>4, FS_Subset
<1>6. Cardinality(VotesFor(i)) \in Nat /\ Cardinality(VotesFor(i)') \in Nat
  BY <1>4, <1>5, FS_CardinalityType
<1> QED BY <1>1, <1>2, <1>5, <1>6 DEF Limit

(* Recording a vote on a resource raises its limit by one. *)
LEMMA LimitAfterVote ==
    ASSUME IsFiniteSet(votes), NEW i, NEW f, <<i, f>> \notin votes,
           votes' = votes \cup {<<i, f>>}, claimed' = claimed, claimed[i] \in Nat
    PROVE  Limit(i)' = Limit(i) + 1
<1>1. VotesFor(i)' = VotesFor(i) \cup {<<i, f>>} /\ <<i, f>> \notin VotesFor(i)
  BY DEF VotesFor
<1>2. VotesFor(i) \subseteq votes
  BY DEF VotesFor
<1>3. IsFiniteSet(VotesFor(i)) /\ Cardinality(VotesFor(i)) \in Nat
  BY <1>2, FS_Subset, FS_CardinalityType
<1>4. Cardinality(VotesFor(i) \cup {<<i, f>>}) = Cardinality(VotesFor(i)) + 1
  BY <1>1, <1>3, FS_AddElement
<1> QED BY <1>1, <1>3, <1>4 DEF Limit

(* What a step leaves alone keeps within its limit. *)
LEMMA StillWithin ==
    ASSUME TypeOK, TypeOK', IdsInOrder, CountInv, Next
    PROVE  /\ IsFiniteSet(votes')
           /\ \A i \in Existing : claimed'[i] >= 1
           /\ \A i \in Existing :
                 res'[i].details.confirms = res[i].details.confirms
                     => res'[i].details.confirms <= Limit(i)'
           /\ \A h \in Handlers : hd'[h] = hd[h] => RequestWithin(h)'
           /\ \A h \in Handlers : hd'[h].pc = "idle" => RequestWithin(h)'
           /\ UNCHANGED seen => SeenWithin'
           /\ UNCHANGED panel => PanelWithin'
<1>1. /\ IsFiniteSet(votes') /\ Existing \subseteq Existing'
      /\ \A i \in Existing : claimed[i] <= claimed'[i]
  BY ClaimsGrow DEF CountInv
<1>2. \A i \in Existing : /\ Limit(i) \in Nat /\ Limit(i)' \in Nat
                          /\ Limit(i) <= Limit(i)'
  BY LimitsGrow DEF CountInv
<1>3. \A i \in Existing : claimed[i] \in Nat /\ claimed'[i] \in Nat
  BY <1>1 DEF TypeOK
<1>4. \A i \in Existing : res[i].details.confirms \in Nat
  BY DEF TypeOK, Resource, Details
<1>5. ASSUME NEW h \in Handlers, hd'[h] = hd[h] PROVE RequestWithin(h)'
  <2>1. CASE hd[h].pc = "idle"
    BY <1>5, <2>1 DEF RequestWithin
  <2>2. CASE hd[h].pc # "idle"
    <3>1. hd[h].id \in Existing /\ hd[h].snap.confirms \in Nat /\ hd[h].val \in Nat
      BY <2>2 DEF TypeOK, Handler, Details
    <3>2. PICK i \in Existing : i = hd[h].id /\ i = hd'[h].id
      BY <1>5, <3>1
    <3>3. Limit(i) \in Nat /\ Limit(i)' \in Nat /\ Limit(i) <= Limit(i)'
      BY <1>2
    <3>4. /\ hd[h].pc \in {"edit", "selected"} => hd[h].snap.confirms <= Limit(i)
          /\ hd[h].pc \in {"counter", "selected"} /\ hd[h].key = "confirms"
                => hd[h].val <= Limit(i)
      BY <3>2 DEF CountInv, RequestWithin
    <3>5. /\ hd'[h].pc \in {"edit", "selected"} => hd'[h].snap.confirms <= Limit(i)'
          /\ hd'[h].pc \in {"counter", "selected"} /\ hd'[h].key = "confirms"
                => hd'[h].val <= Limit(i)'
      BY <1>5, <3>1, <3>3, <3>4
    <3> QED BY <3>2, <3>5 DEF RequestWithin
  <2> QED BY <2>1, <2>2
<1>6. ASSUME NEW h \in Handlers, hd'[h].pc = "idle" PROVE RequestWithin(h)'
  BY <1>6 DEF RequestWithin
<1>7. ASSUME UNCHANGED seen PROVE SeenWithin'
  <2> SUFFICES ASSUME NEW b \in Browsers, NEW i \in Ids, seen[b][i] # NoView
               PROVE  i \in Existing' /\ seen[b][i] <= Limit(i)'
    BY <1>7 DEF SeenWithin
  <2>1. seen[b][i] \in Nat /\ i \in Existing /\ seen[b][i] <= Limit(i)
    BY DEF TypeOK, CountInv, SeenWithin
  <2> QED BY <1>1, <1>2, <2>1
<1>8. ASSUME UNCHANGED panel PROVE PanelWithin'
  <2> SUFFICES ASSUME NEW a \in Admins, NEW i \in DOMAIN panel[a]
               PROVE  panel[a][i].details.confirms <= Limit(i)'
    BY <1>8 DEF PanelWithin
  <2>1. /\ i \in Existing /\ panel[a][i].details.confirms \in Nat
        /\ panel[a][i].details.confirms <= Limit(i)
    BY DEF TypeOK, CountInv, PanelWithin, Details
  <2> QED BY <1>2, <2>1
<1>9. ASSUME NEW i \in Existing, res'[i].details.confirms = res[i].details.confirms
      PROVE  res'[i].details.confirms <= Limit(i)'
  BY <1>2, <1>4, <1>9 DEF CountInv, NeverOvercounted
<1>10. \A i \in Existing : claimed'[i] >= 1
  BY <1>1, <1>3 DEF CountInv
<1> QED BY <1>1, <1>5, <1>6, <1>7, <1>8, <1>9, <1>10

(* A copy of the list that the panel keeps stays within the limits. *)
LEMMA PanelKept ==
    ASSUME TypeOK, TypeOK', IdsInOrder, CountInv, Next, NEW a \in Admins, panel'[a] = panel[a],
           NEW i \in DOMAIN panel'[a]
    PROVE  panel'[a][i].details.confirms <= Limit(i)'
<1>1. /\ i \in Existing /\ panel[a][i].details.confirms \in Nat
      /\ panel[a][i].details.confirms <= Limit(i)
  BY DEF TypeOK, CountInv, PanelWithin, Details
<1>2. Limit(i) \in Nat /\ Limit(i)' \in Nat /\ Limit(i) <= Limit(i)'
  BY <1>1, LimitsGrow DEF CountInv
<1> QED BY <1>1, <1>2

(* No vote raises a count by more than one above what was claimed for it
   outright (InsertResourceValidation, UpdateResourceDetails, the vote buttons of
   map.js): every copy of a count obeys the same limit, and limits only grow. *)
THEOREM ResourcesNeverOvercounted == Spec => []NeverOvercounted
<1>1. Init => CountInv
  <2> SUFFICES ASSUME Init PROVE CountInv
    OBVIOUS
  <2>1. votes = {} /\ \A h \in Handlers : hd[h].pc = "idle"
    BY DEF Init, IdleHandler
  <2>2. /\ \A b \in Browsers, i \in Ids : seen[b][i] = NoView
        /\ \A a \in Admins : DOMAIN panel[a] = {}
    BY DEF Init, NoPanel
  <2>3. \A i \in Existing : Limit(i) = claimed[i]
    <3> SUFFICES ASSUME NEW i \in Existing PROVE Limit(i) = claimed[i]
      OBVIOUS
    <3>1. VotesFor(i) = {} /\ claimed[i] \in Nat
      BY <2>1, SeedType DEF VotesFor
    <3> QED BY <3>1, FS_EmptySet DEF Limit
  <2>4. /\ \A i \in Existing : claimed[i] >= 1
        /\ NeverOvercounted
    BY <2>3, SeedType DEF NeverOvercounted
  <2> QED BY <2>1, <2>2, <2>4, FS_EmptySet DEF CountInv, SeenWithin, RequestWithin, PanelWithin
<1>2. TypeOK /\ TypeOK' /\ IdsInOrder /\ CountInv /\ [Next]_vars => CountInv'
  <2>0. CASE UNCHANGED vars
    BY <2>0 DEF vars, CountInv, NeverOvercounted, SeenWithin, RequestWithin, PanelWithin, Limit,
                VotesFor, Existing
  <2> SUFFICES ASSUME TypeOK, TypeOK', IdsInOrder, CountInv, Next PROVE CountInv'
    BY <2>0
  <2>a. \A i \in Existing : /\ Limit(i) \in Nat /\ Limit(i)' \in Nat
                            /\ claimed'[i] <= Limit(i)' /\ Limit(i) <= Limit(i)'
    BY LimitsGrow DEF CountInv
  <2>b. /\ \A i \in Existing : claimed'[i] >= 1 /\ claimed'[i] \in Nat
        /\ \A i \in Existing : res[i].details.confirms \in Nat
        /\ \A i \in Existing : res[i].details.confirms <= Limit(i)
        /\ Existing \subseteq Existing'
    <3>1. Existing \subseteq Existing' /\ \A i \in Existing : claimed'[i] >= 1
      BY StillWithin, ClaimsGrow DEF CountInv
    <3> QED BY <3>1 DEF TypeOK, Resource, Details, CountInv, NeverOvercounted
  <2>1. ASSUME NEW c \in Contents, NEW o, NEW s, NEW n,
               Report(c, o, n) \/ AdminCreate(c, s)
        PROVE  CountInv'
    <3>1. Existing' = Existing \cup {NextId} /\ NextId \notin Existing
      BY <2>1, NextIdIsNew DEF Report, AdminCreate, Insert, Existing
    <3>2. /\ \A i \in Existing : res'[i] = res[i]
          /\ claimed'[NextId] = Filled(res'[NextId].details.confirms)
      BY <2>1, <3>1 DEF Report, AdminCreate, Insert
    <3>3. UNCHANGED <<hd, seen, panel>>
      BY <2>1 DEF Report, AdminCreate
    <3>4. /\ res'[NextId].details.confirms \in Nat
          /\ res'[NextId].details.confirms <= claimed'[NextId]
          /\ claimed'[NextId] \in Nat /\ claimed'[NextId] >= 1
      <4>1. res'[NextId].details.confirms \in Nat
        BY <3>1 DEF TypeOK, Resource, Details
      <4> QED BY <3>2, <4>1 DEF Filled
    <3>5. PICK i \in Existing' : i = NextId
      BY <3>1
    <3>6. res'[i].details.confirms <= Limit(i)'
      <4>1. VotesFor(i)' \subseteq votes' /\ IsFiniteSet(votes')
        BY StillWithin DEF VotesFor
      <4>2. Cardinality(VotesFor(i)') \in Nat
        BY <4>1, FS_Subset, FS_CardinalityType
      <4> QED BY <3>4, <3>5, <4>2 DEF Limit
    <3>7. NeverOvercounted'
      BY <3>1, <3>2, <3>5, <3>6, StillWithin DEF NeverOvercounted
    <3>8. \A j \in Existing' : claimed'[j] >= 1
      BY <3>1, <3>4, StillWithin
    <3> QED BY <3>3, <3>7, <3>8, StillWithin DEF CountInv
  <2>2. ASSUME NEW h \in Handlers, NEW i \in Ids, NEW o \in Owners, NEW c \in Contents,
               EditRead(h, i, o, c)
        PROVE  CountInv'
    <3>1. /\ hd'[h].pc = "edit" /\ hd'[h].id = i
          /\ hd'[h].snap.confirms = res[i].details.confirms
          /\ \A g \in Handlers : g # h => hd'[g] = hd[g]
      BY <2>2 DEF EditRead, TypeOK, Merged, IdleHandler, Resource, Details
    <3>2. UNCHANGED <<res, seen, panel>> /\ i \in Existing /\ Existing' = Existing
      BY <2>2 DEF EditRead, Existing
    <3>3. RequestWithin(h)'
      BY <2>a, <2>b, <3>1, <3>2 DEF RequestWithin
    <3> QED BY <3>1, <3>2, <3>3, StillWithin DEF CountInv, NeverOvercounted
  <2>3. ASSUME NEW h \in Handlers, EditWrite(h) PROVE CountInv'
    <3>1. /\ hd[h].id \in Existing /\ hd[h].snap.confirms \in Nat
          /\ hd[h].snap.confirms <= Limit(hd[h].id)
      BY <2>3 DEF EditWrite, CountInv, RequestWithin, TypeOK, Handler, Details
    <3>2. \A j \in Existing : \/ res'[j].details = res[j].details
                              \/ j = hd[h].id /\ res'[j].details = hd[h].snap
      BY <2>3, <3>1 DEF EditWrite, TypeOK, Existing, Resource
    <3>3. Existing' = Existing /\ UNCHANGED <<seen, panel>>
      BY <2>3 DEF EditWrite, Existing
    <3>4. hd'[h].pc = "idle" /\ \A g \in Handlers : g # h => hd'[g] = hd[g]
      BY <2>3 DEF EditWrite, TypeOK, IdleHandler
    <3>5. NeverOvercounted'
      <4> SUFFICES ASSUME NEW j \in Existing PROVE res'[j].details.confirms <= Limit(j)'
        BY <3>3 DEF NeverOvercounted
      <4> QED BY <2>a, <2>b, <3>1, <3>2
    <3> QED BY <3>3, <3>4, <3>5, StillWithin DEF CountInv
  <2>4. ASSUME NEW h \in Handlers, EditFails(h) \/ DetailsFails(h) PROVE CountInv'
    <3>1. hd'[h].pc = "idle" /\ \A g \in Handlers : g # h => hd'[g] = hd[g]
      BY <2>4 DEF EditFails, DetailsFails, TypeOK, IdleHandler
    <3>2. UNCHANGED <<res, seen, panel>> /\ Existing' = Existing
      BY <2>4 DEF EditFails, DetailsFails, Existing
    <3> QED BY <3>1, <3>2, StillWithin DEF CountInv, NeverOvercounted
  <2>5. ASSUME NEW h \in Handlers, NEW f, NEW i \in Ids, NEW v \in Nat, VoteInsert(h, i, f, v),
               v <= Limit(i)', \A b \in Browsers : seen'[b] = seen[b] \/ seen'[b] = [seen[b] EXCEPT ![i] = NoView]
        PROVE  CountInv'
    <3>1. /\ hd'[h].pc = "counter" /\ hd'[h].id = i /\ hd'[h].val = v
          /\ \A g \in Handlers : g # h => hd'[g] = hd[g]
      BY <2>5 DEF VoteInsert, Counter, TypeOK, IdleHandler
    <3>2. UNCHANGED <<res, panel>> /\ Existing' = Existing
      BY <2>5 DEF VoteInsert, Existing
    <3>3. RequestWithin(h)'
      BY <2>5, <3>1 DEF RequestWithin
    <3>4. SeenWithin'
      <4> SUFFICES ASSUME NEW b \in Browsers, NEW j \in Ids, seen'[b][j] # NoView
                   PROVE  j \in Existing' /\ seen'[b][j] <= Limit(j)'
        BY DEF SeenWithin
      <4>1. seen'[b][j] = seen[b][j]
        BY <2>5 DEF TypeOK
      <4>2. seen[b][j] \in Nat /\ j \in Existing /\ seen[b][j] <= Limit(j)
        BY <4>1 DEF TypeOK, CountInv, SeenWithin
      <4> QED BY <2>a, <2>b, <4>1, <4>2
    <3> QED BY <3>1, <3>2, <3>3, <3>4, StillWithin DEF CountInv, NeverOvercounted
  <2>5a. ASSUME NEW h \in Handlers, NEW b \in Browsers, NEW i \in Ids, PageVotes(h, b, i)
         PROVE  CountInv'
    <3>1. /\ VoteInsert(h, i, Fingerprint[b], seen[b][i] + 1)
          /\ seen' = [seen EXCEPT ![b][i] = NoView]
          /\ claimed' = claimed
      BY <2>5a DEF PageVotes
    <3>2. seen[b][i] \in Nat /\ i \in Existing /\ seen[b][i] <= Limit(i)
      BY <2>5a DEF PageVotes, TypeOK, CountInv, SeenWithin
    <3>3. Limit(i)' = Limit(i) + 1
      BY <3>1, <3>2, LimitAfterVote DEF VoteInsert, CountInv, TypeOK
    <3>4. seen[b][i] + 1 \in Nat /\ seen[b][i] + 1 <= Limit(i)'
      BY <2>a, <3>2, <3>3
    <3>5. \A c \in Browsers : seen'[c] = seen[c] \/ seen'[c] = [seen[c] EXCEPT ![i] = NoView]
      BY <3>1 DEF TypeOK
    <3> QED BY <2>5, <3>1, <3>4, <3>5
  <2>5b. ASSUME NEW h \in Handlers, NEW b \in Browsers, NEW i \in Ids, NEW v \in CounterValues,
                ClientVotes(h, b, i, v)
         PROVE  CountInv'
    <3>1. VoteInsert(h, i, Fingerprint[b], v) /\ seen' = seen /\ i \in Existing
      BY <2>5b DEF ClientVotes, VoteInsert
    <3>2. v \in Nat /\ claimed[i] \in Nat
      BY <3>1, ResourcesAssumption DEF TypeOK
    <3>3. v <= claimed'[i]
      BY <2>5b, <3>1, <3>2 DEF ClientVotes, TypeOK
    <3>4. v <= Limit(i)'
      BY <2>a, <2>b, <3>1, <3>2, <3>3
    <3> QED BY <2>5, <3>1, <3>2, <3>4
  <2>6. ASSUME NEW h \in Handlers, NEW i \in Ids, NEW v \in HelpValues, HelpStart(h, i, v)
        PROVE  CountInv'
    <3>1. /\ hd'[h].pc = "counter" /\ hd'[h].key = "helping"
          /\ \A g \in Handlers : g # h => hd'[g] = hd[g]
      BY <2>6 DEF HelpStart, Counter, TypeOK, IdleHandler
    <3>2. UNCHANGED <<res, seen, panel>> /\ Existing' = Existing
      BY <2>6 DEF HelpStart, Existing
    <3>3. RequestWithin(h)'
      BY <3>1 DEF RequestWithin
    <3> QED BY <3>1, <3>2, <3>3, StillWithin DEF CountInv, NeverOvercounted
  <2>7. ASSUME NEW h \in Handlers, DetailsSelect(h) \/ DetailsSelectFails(h)
        PROVE  CountInv'
    <3>1. /\ hd[h].pc = "counter" /\ hd'[h].pc = "selected" /\ hd'[h].id = hd[h].id
          /\ hd'[h].key = hd[h].key /\ hd'[h].val = hd[h].val
          /\ \/ hd'[h].snap.confirms = res[hd[h].id].details.confirms
             \/ hd'[h].snap.confirms = 0
          /\ \A g \in Handlers : g # h => hd'[g] = hd[g]
      BY <2>7 DEF DetailsSelect, DetailsSelectFails, TypeOK, Handler, NoDetails
    <3>2. /\ UNCHANGED <<res, seen, panel>> /\ Existing' = Existing
          /\ hd[h].id \in Existing /\ hd[h].val \in Nat
      BY <2>7, <3>1 DEF DetailsSelect, DetailsSelectFails, TypeOK, Existing, Handler
    <3>3. PICK i \in Existing : i = hd[h].id /\ i = hd'[h].id
      BY <3>1, <3>2
    <3>4. RequestWithin(h)'
      <4>1. hd'[h].snap.confirms <= Limit(i)'
        BY <2>a, <2>b, <3>1, <3>3
      <4>2. hd[h].key = "confirms" => hd[h].val <= Limit(i)
        BY <3>1, <3>3 DEF CountInv, RequestWithin
      <4>3. hd'[h].key = "confirms" => hd'[h].val <= Limit(i)'
        BY <2>a, <3>1, <3>2, <4>2
      <4> QED BY <3>1, <3>3, <4>1, <4>3 DEF RequestWithin
    <3> QED BY <3>1, <3>2, <3>4, StillWithin DEF CountInv, NeverOvercounted
  <2>8. ASSUME NEW h \in Handlers, DetailsUpdate(h) PROVE CountInv'
    <3>1. /\ hd[h].pc = "selected" /\ hd[h].id \in Existing
          /\ hd[h].val \in Nat /\ hd[h].snap.confirms \in Nat
      BY <2>8 DEF DetailsUpdate, TypeOK, Handler, Details
    <3>2. \A j \in Existing :
             \/ res'[j].details = res[j].details
             \/ /\ j = hd[h].id
                /\ res'[j].details.confirms = IF hd[h].key = "confirms" THEN hd[h].val
                                              ELSE hd[h].snap.confirms
      BY <2>8, <3>1 DEF DetailsUpdate, Overlaid, TypeOK, Resource, Handler, Details
    <3>3. Existing' = Existing /\ UNCHANGED <<seen, panel>>
      BY <2>8 DEF DetailsUpdate, Existing
    <3>4. hd'[h].pc = "idle" /\ \A g \in Handlers : g # h => hd'[g] = hd[g]
      BY <2>8 DEF DetailsUpdate, TypeOK, IdleHandler
    <3>5. /\ hd[h].snap.confirms <= Limit(hd[h].id)
          /\ hd[h].key = "confirms" => hd[h].val <= Limit(hd[h].id)
      BY <3>1 DEF CountInv, RequestWithin
    <3>6. NeverOvercounted'
      <4> SUFFICES ASSUME NEW j \in Existing PROVE res'[j].details.confirms <= Limit(j)'
        BY <3>3 DEF NeverOvercounted
      <4> QED BY <2>a, <2>b, <3>1, <3>2, <3>5
    <3> QED BY <3>3, <3>4, <3>6, StillWithin DEF CountInv
  <2>9. ASSUME NEW a \in Admins, AdminLoad(a) PROVE CountInv'
    <3>1. \A b \in Admins : \/ panel'[b] = panel[b]
                            \/ \A i \in DOMAIN panel'[b] :
                                 i \in Existing /\ panel'[b][i].details = res[i].details
      BY <2>9 DEF AdminLoad, TypeOK
    <3>2. UNCHANGED <<res, hd, seen>> /\ Existing' = Existing
      BY <2>9 DEF AdminLoad, Existing
    <3>3. PanelWithin'
      BY <2>a, <2>b, <3>1, PanelKept DEF PanelWithin
    <3> QED BY <3>2, <3>3, StillWithin DEF CountInv, NeverOvercounted
  <2>10. ASSUME NEW a \in Admins, NEW i \in Ids, NEW s \in Status, Moderate(a, i, s)
         PROVE  CountInv'
    <3>1. \A j \in Existing : res'[j].details = res[j].details
      BY <2>10 DEF Moderate, TypeOK, Resource
    <3>2. Existing' = Existing /\ UNCHANGED <<hd, seen, panel>>
      BY <2>10 DEF Moderate, Existing
    <3> QED BY <3>1, <3>2, StillWithin DEF CountInv, NeverOvercounted
  <2>11. ASSUME NEW a \in Admins, NEW i \in Ids, NEW c \in Contents, NEW s \in Status,
                AdminUpdate(a, i, c, s)
         PROVE  CountInv'
    <3>1. /\ i \in DOMAIN panel[a] /\ i \in Existing /\ panel[a][i].details \in Details
          /\ panel[a][i].details.confirms \in Nat
          /\ panel[a][i].details.confirms <= Limit(i)
      BY <2>11 DEF AdminUpdate, TypeOK, Details, CountInv, PanelWithin
    <3>2. \A j \in Existing :
             \/ res'[j].details = res[j].details
             \/ j = i /\ res'[j].details.confirms = Filled(panel[a][i].details.confirms)
      BY <2>11, <3>1 DEF AdminUpdate, FormUpdate, Merged, Details, TypeOK
    <3>3. Existing' = Existing /\ UNCHANGED <<hd, seen>>
      BY <2>11 DEF AdminUpdate, Existing
    <3>4. Filled(panel[a][i].details.confirms) <= Limit(i)'
      <4>1. 1 <= Limit(i)'
        BY <2>a, <2>b, <3>1
      <4> QED BY <2>a, <3>1, <4>1 DEF Filled
    <3>5. NeverOvercounted'
      <4> SUFFICES ASSUME NEW j \in Existing PROVE res'[j].details.confirms <= Limit(j)'
        BY <3>3 DEF NeverOvercounted
      <4> QED BY <2>a, <2>b, <3>2, <3>4
    <3>6. \A b \in Admins : panel'[b] = panel[b] \/ DOMAIN panel'[b] = {}
      BY <2>11 DEF AdminUpdate, TypeOK, NoPanel
    <3>7. PanelWithin'
      BY <3>6, PanelKept DEF PanelWithin
    <3> QED BY <3>3, <3>5, <3>7, StillWithin DEF CountInv
  <2>12. ASSUME NEW b \in Browsers, BrowserLoad(b) PROVE CountInv'
    <3>1. \A c \in Browsers, i \in Ids :
             \/ seen'[c][i] = seen[c][i]
             \/ seen'[c][i] = NoView
             \/ i \in Existing /\ seen'[c][i] = res[i].details.confirms
      BY <2>12 DEF BrowserLoad, TypeOK
    <3>2. UNCHANGED <<res, hd, panel>> /\ Existing' = Existing
      BY <2>12 DEF BrowserLoad, Existing
    <3>3. SeenWithin'
      <4> SUFFICES ASSUME NEW c \in Browsers, NEW i \in Ids, seen'[c][i] # NoView
                   PROVE  i \in Existing' /\ seen'[c][i] <= Limit(i)'
        BY DEF SeenWithin
      <4>1. \/ i \in Existing /\ seen'[c][i] = res[i].details.confirms
            \/ /\ seen'[c][i] = seen[c][i] /\ seen[c][i] \in Nat
               /\ i \in Existing /\ seen[c][i] <= Limit(i)
        BY <3>1 DEF TypeOK, CountInv, SeenWithin
      <4> QED BY <2>a, <2>b, <4>1
    <3> QED BY <3>2, <3>3, StillWithin DEF CountInv, NeverOvercounted
  <2>13. ASSUME NEW c \in Contents, NEW o \in Owners, NEW n \in ReportValues, Report(c, o, n)
         PROVE  CountInv'
    BY <2>1, <2>13
  <2>14. ASSUME NEW c \in Contents, NEW s \in Status, AdminCreate(c, s)
         PROVE  CountInv'
    BY <2>1, <2>14
  <2> QED BY <2>13, <2>14, <2>2, <2>3, <2>4, <2>5a, <2>5b, <2>6, <2>7, <2>8, <2>9, <2>10,
             <2>11, <2>12 DEF Next
<1>3. CountInv => NeverOvercounted
  BY DEF CountInv
<1> QED BY <1>1, <1>2, <1>3, ResourcesTypeOK, ResourcesIdsInOrder, PTL DEF Spec

(* The owner recorded with a report stays (handleAdminUpdateResource keeps the
   hash, UpdateResourceByOwner and the counters do not write it), so that its
   reporter can edit it for ever. *)
THEOREM ResourcesOwnerForLife == Spec => OwnerForLife
<1> DEFINE Kept == \A i \in Existing : i \in DOMAIN res' /\ res'[i].owner = res[i].owner
<1>1. TypeOK /\ IdsInOrder /\ [Next]_vars => [Kept]_vars
  <2> SUFFICES ASSUME TypeOK, IdsInOrder, [Next]_vars PROVE Kept \/ UNCHANGED vars
    OBVIOUS
  <2>1. ASSUME NEW c, NEW o, NEW s, NEW n, Report(c, o, n) \/ AdminCreate(c, s)
        PROVE  Kept
    BY <2>1, NextIdIsNew DEF Report, AdminCreate, Insert, Existing
  <2>3. ASSUME res' = res
        PROVE  Kept
    BY <2>3 DEF Existing
  <2>4. ASSUME NEW h \in Handlers, EditWrite(h) \/ DetailsUpdate(h)
        PROVE  Kept
    BY <2>4 DEF EditWrite, DetailsUpdate, Existing, TypeOK, Resource
  <2>5. ASSUME NEW h \in Handlers,
               \/ \E i \in Ids : \/ \E o \in Owners, c \in Contents : EditRead(h, i, o, c)
                                 \/ \E b \in Browsers : PageVotes(h, b, i)
                                 \/ \E b \in Browsers, v \in CounterValues : ClientVotes(h, b, i, v)
                                 \/ \E v \in HelpValues : HelpStart(h, i, v)
               \/ EditFails(h) \/ DetailsSelect(h) \/ DetailsSelectFails(h) \/ DetailsFails(h)
        PROVE  Kept
    BY <2>3, <2>5 DEF EditRead, PageVotes, ClientVotes, VoteInsert, HelpStart, EditFails, DetailsSelect,
                      DetailsSelectFails, DetailsFails
  <2>6. ASSUME NEW a \in Admins,
               \/ AdminLoad(a)
               \/ \E i \in Ids, s \in Status :
                     Moderate(a, i, s) \/ \E c \in Contents : AdminUpdate(a, i, c, s)
        PROVE  Kept
    <3>1. CASE AdminLoad(a)
      BY <2>3, <3>1 DEF AdminLoad
    <3>2. ASSUME NEW i \in Ids, NEW s \in Status, Moderate(a, i, s)
          PROVE  Kept
      BY <3>2 DEF Moderate, Existing, TypeOK, Resource
    <3>3. ASSUME NEW i \in Ids, NEW s \in Status, NEW c \in Contents, AdminUpdate(a, i, c, s)
          PROVE  Kept
      BY <3>3 DEF AdminUpdate, Existing, TypeOK
    <3> HIDE DEF Kept
    <3> QED BY <2>6, <3>1, <3>2, <3>3
  <2>7. ASSUME NEW b \in Browsers, BrowserLoad(b)
        PROVE  Kept
    BY <2>3, <2>7 DEF BrowserLoad
  <2> HIDE DEF Kept
  <2> QED BY <2>1, <2>4, <2>5, <2>6, <2>7 DEF Next
<1> QED BY <1>1, ResourcesTypeOK, ResourcesIdsInOrder, PTL DEF Spec, OwnerForLife

(* Nothing the reporter wrote is public before an admin acted again
   (handleReport, UpdateResourceByOwner): votes and counters, which write the
   document of a resource at any time, leave its status alone. *)
THEOREM ResourcesReviewRequired == Spec => []ReviewRequired
<1>1. Init => ReviewRequired
  BY DEF Init, ReviewRequired
<1>2. TypeOK /\ IdsInOrder /\ ReviewRequired /\ [Next]_vars => ReviewRequired'
  <2> SUFFICES ASSUME TypeOK, IdsInOrder, ReviewRequired, [Next]_vars PROVE ReviewRequired'
    OBVIOUS
  <2>1. ASSUME NEW c, NEW o, NEW s, NEW n, Report(c, o, n) \/ AdminCreate(c, s)
        PROVE  ReviewRequired'
    <3>1. NextId \notin Existing /\ NextId \notin unreviewed
      BY NextIdIsNew DEF TypeOK
    <3>2. /\ \A i \in Existing' : i # NextId => i \in Existing /\ res'[i] = res[i]
          /\ res'[NextId].status = "pending" \/ unreviewed' = unreviewed
          /\ unreviewed' \subseteq unreviewed \cup {NextId}
      BY <2>1 DEF Report, AdminCreate, Insert, Existing
    <3> QED BY <3>1, <3>2 DEF ReviewRequired
  <2>2. ASSUME \A i \in Existing' : i \in Existing /\ (\/ res'[i].status = res[i].status
                                                        \/ i \notin unreviewed'
                                                        \/ res'[i].status = "pending"),
               \A i \in unreviewed' : i \in unreviewed \/ res'[i].status = "pending"
        PROVE  ReviewRequired'
    BY <2>2 DEF ReviewRequired
  <2>3. ASSUME NEW h \in Handlers, EditWrite(h) \/ DetailsUpdate(h)
        PROVE  ReviewRequired'
    <3>1. CASE EditWrite(h)
      <4>1. Existing' = Existing /\ unreviewed' = unreviewed \cup {hd[h].id}
        BY <3>1 DEF EditWrite, Existing
      <4>2. /\ hd[h].id \in Existing => res'[hd[h].id].status = "pending"
            /\ \A i \in Existing : i # hd[h].id => res'[i] = res[i]
        BY <3>1 DEF EditWrite, Existing, TypeOK, Resource
      <4> QED BY <4>1, <4>2 DEF ReviewRequired
    <3>2. CASE DetailsUpdate(h)
      <4>1. Existing' = Existing /\ unreviewed' = unreviewed
        BY <3>2 DEF DetailsUpdate, Existing
      <4>2. \A i \in Existing : res'[i].status = res[i].status
        BY <3>2 DEF DetailsUpdate, Existing, TypeOK, Resource
      <4> QED BY <4>1, <4>2 DEF ReviewRequired
    <3> QED BY <2>3, <3>1, <3>2
  <2>4. ASSUME res' = res, unreviewed' = unreviewed
        PROVE  ReviewRequired'
    BY <2>4 DEF ReviewRequired, Existing
  <2>5. ASSUME NEW h \in Handlers,
               \/ \E i \in Ids : \/ \E o \in Owners, c \in Contents : EditRead(h, i, o, c)
                                 \/ \E b \in Browsers : PageVotes(h, b, i)
                                 \/ \E b \in Browsers, v \in CounterValues : ClientVotes(h, b, i, v)
                                 \/ \E v \in HelpValues : HelpStart(h, i, v)
               \/ EditFails(h) \/ DetailsSelect(h) \/ DetailsSelectFails(h) \/ DetailsFails(h)
        PROVE  ReviewRequired'
    BY <2>4, <2>5 DEF EditRead, PageVotes, ClientVotes, VoteInsert, HelpStart, EditFails, DetailsSelect,
                      DetailsSelectFails, DetailsFails
  <2>6. ASSUME NEW a \in Admins,
               \E i \in Ids, s \in Status :
                     Moderate(a, i, s) \/ \E c \in Contents : AdminUpdate(a, i, c, s)
        PROVE  ReviewRequired'
    BY <2>2, <2>6 DEF Moderate, AdminUpdate, Existing, TypeOK, Resource
  <2>7. ASSUME \/ \E a \in Admins : AdminLoad(a)
               \/ \E b \in Browsers : BrowserLoad(b)
               \/ UNCHANGED vars
        PROVE  ReviewRequired'
    BY <2>4, <2>7 DEF AdminLoad, BrowserLoad, vars
  <2> QED BY <2>1, <2>3, <2>5, <2>6, <2>7 DEF Next
<1> QED BY <1>1, <1>2, ResourcesTypeOK, ResourcesIdsInOrder, PTL DEF Spec
----------------------------------------------------------------------------
(* The two stores *)

StoredMeasurement ==
    [operator : {"desconocido", "movistar", "tigo"}, user : {"", "tigo"}, call : {"", "no"}]

StoredResource ==
    [status : {"", "pending", "approved", "rejected"}, note : Notes, scope : {"city", "point"},
     lat : {0, 4}, details : Notes, owner : Tokens \cup {""}]

(* A store is its six tables. *)
StoreType(m) ==
    /\ m = [obs |-> m.obs, resources |-> m.resources, validations |-> m.validations,
            sismos |-> m.sismos, subs |-> m.subs, settings |-> m.settings]
    /\ m.obs \in Seq(StoredMeasurement)
    /\ m.resources \in Seq(StoredResource)

(* What StoresAgree says, table by table. *)
SameResult ==
    results[1] # results[2] =>
        results \in {<<Done, Missing>>, <<"repeated", Missing>>, <<"repeated", Done>>}

SameMeasurement(m, p) ==
    /\ m.call = p.call /\ m.user = p.user
    /\ m.operator = p.operator \/ (m.operator = "desconocido" /\ m.user # "")

SameObs(m, p) == Len(m) = Len(p) /\ \A i \in 1..Len(m) : SameMeasurement(m[i], p[i])

SameResources(m, p) == Len(m) = Len(p) /\ \A i \in 1..Len(m) : Placed(m[i]) = p[i]

SameSubs(m, p) == DOMAIN m = DOMAIN p /\ \A e \in DOMAIN m : m[e] \in {p[e], ""}

StoresInv ==
    /\ StoreType(mem) /\ StoreType(pg)
    /\ SameResult
    /\ pg.validations \subseteq mem.validations
    /\ SameObs(mem.obs, pg.obs)
    /\ SameResources(mem.resources, pg.resources)
    /\ mem.sismos = pg.sismos /\ mem.settings = pg.settings
    /\ SameSubs(mem.subs, pg.subs)

(* The invariant says what the property says. *)
LEMMA StoresInvAgree == StoresInv => StoresAgree
<1> SUFFICES ASSUME StoresInv PROVE StoresAgree
  OBVIOUS
<1>1. ASSUME NEW i \in DOMAIN mem.obs
      PROVE  /\ [mem.obs[i] EXCEPT !.operator = pg.obs[i].operator] = pg.obs[i]
             /\ mem.obs[i].operator = pg.obs[i].operator
                \/ (mem.obs[i].operator = "desconocido" /\ mem.obs[i].user # "")
  <2>1. mem.obs[i] \in StoredMeasurement /\ pg.obs[i] \in StoredMeasurement /\ i \in 1..Len(mem.obs)
    BY DEF StoresInv, StoreType, SameObs
  <2>2. SameMeasurement(mem.obs[i], pg.obs[i])
    BY <2>1 DEF StoresInv, SameObs
  <2> QED BY <2>1, <2>2 DEF StoredMeasurement, SameMeasurement
<1>2. DOMAIN mem.obs = DOMAIN pg.obs
  BY DEF StoresInv, StoreType, SameObs
<1>3. [i \in DOMAIN mem.resources |-> Placed(mem.resources[i])] = pg.resources
  BY DEF StoresInv, StoreType, SameResources
<1> QED BY <1>1, <1>2, <1>3 DEF StoresInv, SameResult, SameSubs, StoresAgree

(* Steps that change one pair of tables and nothing else. *)
LEMMA MeasurementsChange ==
    ASSUME StoresInv, NEW m \in Seq(StoredMeasurement), NEW p \in Seq(StoredMeasurement),
           SameObs(m, p), Call([mem EXCEPT !.obs = m], [pg EXCEPT !.obs = p], Done, Done)
    PROVE  StoresInv'
BY DEF StoresInv, StoreType, SameResult, Call

(* The same for resources. *)
LEMMA ResourcesChange ==
    ASSUME StoresInv, NEW m \in Seq(StoredResource), NEW p \in Seq(StoredResource),
           SameResources(m, p), NEW r,
           Call([mem EXCEPT !.resources = m], [pg EXCEPT !.resources = p], r, r)
    PROVE  StoresInv'
BY DEF StoresInv, StoreType, SameResult, Call

(* A call that writes nothing, with one result in both. *)
LEMMA NothingChanges ==
    ASSUME StoresInv, NEW r, Call(mem, pg, r, r)
    PROVE  StoresInv'
BY DEF StoresInv, SameResult, Call

(* A vote: the database refuses one for a resource that is not there. *)
LEMMA VotesChange ==
    ASSUME StoresInv, CallInsertValidation
    PROVE  StoresInv'
<1> USE DEF Done, Missing
<1>1. PICK i \in 1..(Len(mem.resources) + 1), f \in Voters :
        LET inMem == IF <<i, f>> \in mem.validations THEN "repeated" ELSE Done
            inPg == IF <<i, f>> \in pg.validations THEN "repeated" ELSE Done
            known == i \in DOMAIN pg.resources
        IN  Call([mem EXCEPT !.validations = @ \cup {<<i, f>>}],
                 IF known THEN [pg EXCEPT !.validations = @ \cup {<<i, f>>}] ELSE pg,
                 inMem, IF known THEN inPg ELSE Missing)
  BY DEF CallInsertValidation
<1> DEFINE v == <<i, f>>
<1>2. /\ mem' = [mem EXCEPT !.validations = @ \cup {v}]
      /\ pg' = IF i \in DOMAIN pg.resources THEN [pg EXCEPT !.validations = @ \cup {v}] ELSE pg
      /\ results' = << IF v \in mem.validations THEN "repeated" ELSE Done,
                       IF i \in DOMAIN pg.resources
                       THEN IF v \in pg.validations THEN "repeated" ELSE Done
                       ELSE Missing >>
  BY <1>1 DEF Call
<1> HIDE DEF v
<1>3. pg.validations \subseteq mem.validations
  BY DEF StoresInv
<1>4. SameResult'
  BY <1>2, <1>3 DEF SameResult
<1>5. /\ mem'.validations = mem.validations \cup {v}
      /\ pg'.validations \in {pg.validations, pg.validations \cup {v}}
  BY <1>2 DEF StoresInv, StoreType
<1>6. pg'.validations \subseteq mem'.validations
  BY <1>3, <1>5
<1>7. /\ StoreType(mem)' /\ mem'.obs = mem.obs /\ mem'.resources = mem.resources
      /\ mem'.sismos = mem.sismos /\ mem'.subs = mem.subs /\ mem'.settings = mem.settings
  BY <1>2 DEF StoresInv, StoreType
<1>8. /\ StoreType(pg)' /\ pg'.obs = pg.obs /\ pg'.resources = pg.resources
      /\ pg'.sismos = pg.sismos /\ pg'.subs = pg.subs /\ pg'.settings = pg.settings
  BY <1>2 DEF StoresInv, StoreType
<1> QED BY <1>4, <1>6, <1>7, <1>8 DEF StoresInv

(* A measurement is appended to both tables. *)
LEMMA InsertObservationAgrees ==
    ASSUME StoresInv, CallInsertObservation
    PROVE  StoresInv'
<1>1. PICK op \in {"desconocido", "movistar"} :
        LET o == [operator |-> op, user |-> "", call |-> ""]
        IN  Call(MemInsertObservation(o), PgInsertObservation(o), Done, Done)
  BY DEF CallInsertObservation
<1> DEFINE o == [operator |-> op, user |-> "", call |-> ""]
           m == Append(mem.obs, o)
           p == Append(pg.obs, o)
<1>2. o \in StoredMeasurement
  BY DEF StoredMeasurement
<1>3. /\ mem.obs \in Seq(StoredMeasurement) /\ pg.obs \in Seq(StoredMeasurement)
      /\ Len(mem.obs) = Len(pg.obs)
      /\ \A i \in 1..Len(mem.obs) : SameMeasurement(mem.obs[i], pg.obs[i])
  BY DEF StoresInv, StoreType, SameObs
<1>4. Call([mem EXCEPT !.obs = m], [pg EXCEPT !.obs = p], Done, Done)
  BY <1>1 DEF MemInsertObservation, PgInsertObservation
<1>5. SameMeasurement(o, o)
  BY DEF SameMeasurement
<1> HIDE DEF o
<1>6. m \in Seq(StoredMeasurement) /\ p \in Seq(StoredMeasurement) /\ SameObs(m, p)
  BY <1>2, <1>3, <1>5 DEF SameObs
<1> HIDE DEF m, p
<1> QED BY <1>4, <1>6, MeasurementsChange

(* A row appended to both tables, or replaced in both, leaves them alike. *)
LEMMA ObsReplaced ==
    ASSUME NEW m \in Seq(StoredMeasurement), NEW p \in Seq(StoredMeasurement), SameObs(m, p),
           NEW i \in 1..Len(m), NEW a \in StoredMeasurement, NEW b \in StoredMeasurement,
           SameMeasurement(a, b)
    PROVE  /\ [m EXCEPT ![i] = a] \in Seq(StoredMeasurement)
           /\ [p EXCEPT ![i] = b] \in Seq(StoredMeasurement)
           /\ SameObs([m EXCEPT ![i] = a], [p EXCEPT ![i] = b])
<1>1. Len(m) = Len(p) /\ \A j \in 1..Len(m) : SameMeasurement(m[j], p[j])
  BY DEF SameObs
<1>2. /\ [m EXCEPT ![i] = a] \in Seq(StoredMeasurement)
      /\ Len([m EXCEPT ![i] = a]) = Len(m)
      /\ \A j \in 1..Len(m) : [m EXCEPT ![i] = a][j] = IF j = i THEN a ELSE m[j]
  BY ExceptSeq
<1>3. /\ [p EXCEPT ![i] = b] \in Seq(StoredMeasurement)
      /\ Len([p EXCEPT ![i] = b]) = Len(p)
      /\ \A j \in 1..Len(p) : [p EXCEPT ![i] = b][j] = IF j = i THEN b ELSE p[j]
  BY <1>1, ExceptSeq
<1> DEFINE m2 == [m EXCEPT ![i] = a]
           p2 == [p EXCEPT ![i] = b]
<1> HIDE DEF m2, p2
<1>4. \A j \in 1..Len(m2) : SameMeasurement(m2[j], p2[j])
  BY <1>1, <1>2, <1>3 DEF m2, p2
<1> QED BY <1>1, <1>2, <1>3, <1>4 DEF SameObs, m2, p2

(* The same for a resource, placed in PGStore. *)
LEMMA ResourcesAppended ==
    ASSUME NEW m \in Seq(StoredResource), NEW p \in Seq(StoredResource), SameResources(m, p),
           NEW a \in StoredResource
    PROVE  /\ Append(m, a) \in Seq(StoredResource)
           /\ Append(p, Placed(a)) \in Seq(StoredResource)
           /\ SameResources(Append(m, a), Append(p, Placed(a)))
<1>1. Len(m) = Len(p) /\ \A j \in 1..Len(m) : Placed(m[j]) = p[j]
  BY DEF SameResources
<1> DEFINE b == Placed(a)
           m2 == Append(m, a)
           p2 == Append(p, b)
<1>2. b \in StoredResource
  BY DEF Placed, StoredResource
<1> HIDE DEF b
<1>3. /\ m2 \in Seq(StoredResource) /\ Len(m2) = Len(m) + 1
      /\ \A j \in 1..Len(m) : m2[j] = m[j]
      /\ m2[Len(m) + 1] = a
  BY AppendProperties
<1>4. /\ p2 \in Seq(StoredResource) /\ Len(p2) = Len(m) + 1
      /\ \A j \in 1..Len(m) : p2[j] = p[j]
      /\ p2[Len(m) + 1] = b
  BY <1>1, <1>2, AppendProperties
<1> HIDE DEF m2, p2
<1>5. Len(m) \in Nat
  BY LenProperties
<1>6. ASSUME NEW j \in 1..Len(m2) PROVE Placed(m2[j]) = p2[j]
  <2>1. CASE j \in 1..Len(m)
    BY <1>1, <1>3, <1>4, <2>1
  <2>2. CASE j = Len(m) + 1
    BY <1>3, <1>4, <2>2 DEF b
  <2> QED BY <1>3, <1>5, <2>1, <2>2
<1> QED BY <1>3, <1>4, <1>6 DEF SameResources, m2, p2, b

(* A late answer: PGStore alone may put it where nobody knew the operator. *)
LEMMA UpdateObservationAgrees ==
    ASSUME StoresInv, CallUpdateObservation
    PROVE  StoresInv'
<1>1. PICK i \in 1..(Len(mem.obs) + 1), call \in {"", "no"}, user \in {"", "tigo"} :
        IF i \in DOMAIN mem.obs
        THEN Call(MemUpdateObservation(i, call, user),
                  PgUpdateObservation(i, call, user), Done, Done)
        ELSE Call(mem, pg, Missing, Missing)
  BY DEF CallUpdateObservation
<1>2. CASE i \notin DOMAIN mem.obs
  BY <1>1, <1>2, NothingChanges
<1>3. CASE i \in DOMAIN mem.obs
  <2> DEFINE a == mem.obs[i]
             b == pg.obs[i]
             a2 == [a EXCEPT !.call = Given(call, a.call), !.user = Given(user, a.user)]
             op == IF user # "" /\ b.operator = "desconocido" THEN user ELSE b.operator
             b2 == [b EXCEPT !.call = Given(call, b.call), !.user = Given(user, b.user),
                             !.operator = op]
             m == [mem.obs EXCEPT ![i] = a2]
             p == [pg.obs EXCEPT ![i] = b2]
  <2>1. /\ mem.obs \in Seq(StoredMeasurement) /\ pg.obs \in Seq(StoredMeasurement)
        /\ Len(mem.obs) = Len(pg.obs) /\ i \in 1..Len(mem.obs)
        /\ \A j \in 1..Len(mem.obs) : SameMeasurement(mem.obs[j], pg.obs[j])
    <3>1. mem.obs \in Seq(StoredMeasurement) /\ pg.obs \in Seq(StoredMeasurement)
      BY DEF StoresInv, StoreType
    <3>2. Len(mem.obs) = Len(pg.obs)
      BY DEF StoresInv, SameObs
    <3>3. \A j \in 1..Len(mem.obs) : SameMeasurement(mem.obs[j], pg.obs[j])
      BY DEF StoresInv, SameObs
    <3>4. i \in 1..Len(mem.obs)
      <4>1. mem.obs \in [1..Len(mem.obs) -> StoredMeasurement]
        BY <3>1, LenProperties
      <4> QED BY <1>3, <4>1
    <3> QED BY <3>1, <3>2, <3>3, <3>4
  <2>2. a \in StoredMeasurement /\ b \in StoredMeasurement /\ SameMeasurement(a, b)
    <3>1. a \in StoredMeasurement
      BY <2>1, ElementOfSeq
    <3>2. b \in StoredMeasurement
      BY <2>1, ElementOfSeq
    <3> QED BY <2>1, <3>1, <3>2
  <2>3. [mem EXCEPT !.obs = m] = MemUpdateObservation(i, call, user)
    BY <2>1 DEF MemUpdateObservation, StoresInv, StoreType
  <2>4. [pg EXCEPT !.obs = p] = PgUpdateObservation(i, call, user)
    BY <2>1 DEF PgUpdateObservation, StoresInv, StoreType
  <2>5. a2 \in StoredMeasurement /\ b2 \in StoredMeasurement /\ SameMeasurement(a2, b2)
    <3> HIDE DEF a, b
    <3> QED BY <2>2 DEF StoredMeasurement, SameMeasurement, Given
  <2> HIDE DEF a, b, a2, b2
  <2>6. SameObs(mem.obs, pg.obs)
    BY DEF StoresInv
  <2>7. m \in Seq(StoredMeasurement) /\ p \in Seq(StoredMeasurement) /\ SameObs(m, p)
    BY <2>1, <2>5, <2>6, ObsReplaced
  <2>8. Call([mem EXCEPT !.obs = m], [pg EXCEPT !.obs = p], Done, Done)
    BY <1>1, <1>3, <2>3, <2>4
  <2> HIDE DEF m, p
  <2> QED BY <2>7, <2>8, MeasurementsChange
<1> QED BY <1>2, <1>3

(* A pair of resources that differ in the place of a city, filed or changed. *)
LEMMA ResourceReplaced ==
    ASSUME StoresInv, NEW i \in 1..Len(mem.resources), NEW a \in StoredResource, NEW r,
           Call([mem EXCEPT !.resources[i] = a], [pg EXCEPT !.resources[i] = Placed(a)], r, r)
    PROVE  StoresInv'
<1> DEFINE m == [mem.resources EXCEPT ![i] = a]
           p == [pg.resources EXCEPT ![i] = Placed(a)]
<1>1. /\ mem.resources \in Seq(StoredResource) /\ pg.resources \in Seq(StoredResource)
      /\ Len(mem.resources) = Len(pg.resources)
      /\ \A j \in 1..Len(mem.resources) : Placed(mem.resources[j]) = pg.resources[j]
  BY DEF StoresInv, StoreType, SameResources
<1>2. Placed(a) \in StoredResource
  BY DEF Placed, StoredResource
<1>3. m \in Seq(StoredResource) /\ p \in Seq(StoredResource) /\ SameResources(m, p)
  BY <1>1, <1>2 DEF SameResources
<1>4. Call([mem EXCEPT !.resources = m], [pg EXCEPT !.resources = p], r, r)
  <2>1. [mem EXCEPT !.resources[i] = a] = [mem EXCEPT !.resources = m]
    BY DEF StoresInv, StoreType
  <2>2. [pg EXCEPT !.resources[i] = Placed(a)] = [pg EXCEPT !.resources = p]
    BY DEF StoresInv, StoreType
  <2> QED BY <2>1, <2>2
<1> HIDE DEF m, p
<1> QED BY <1>3, <1>4, ResourcesChange

(* A form is a row, also with the status it is given. *)
LEMMA FormsTyped ==
    ASSUME NEW owners \in SUBSET (Tokens \cup {""}), NEW r \in Forms(owners)
    PROVE  r \in StoredResource /\ Filed(r) \in StoredResource
BY DEF Forms, Filed, Given, StoredResource

(* Every call about resources leaves the two tables alike but for the place of
   a city. *)
LEMMA ResourceCallsAgree ==
    ASSUME StoresInv,
           \/ CallInsertResource \/ CallUpdateResource \/ CallUpdateByOwner
           \/ CallUpdateStatus \/ CallUpdateDetails
    PROVE  StoresInv'
<1>0. /\ mem.resources \in Seq(StoredResource) /\ pg.resources \in Seq(StoredResource)
      /\ Len(mem.resources) = Len(pg.resources) /\ DOMAIN mem.resources = 1..Len(mem.resources)
      /\ \A j \in 1..Len(mem.resources) :
            /\ Placed(mem.resources[j]) = pg.resources[j]
            /\ mem.resources[j] \in StoredResource
  BY DEF StoresInv, StoreType, SameResources
<1>1. CASE CallInsertResource
  <2>1. PICK r \in Forms(Tokens \cup {""}) : Call(MemInsertResource(r), PgInsertResource(r), Done, Done)
    BY <1>1 DEF CallInsertResource
  <2> DEFINE a == Filed(r)
             m == Append(mem.resources, a)
             p == Append(pg.resources, Placed(a))
  <2>2. a \in StoredResource
    BY FormsTyped
  <2> HIDE DEF a
  <2>3. Placed(a) \in StoredResource
    BY <2>2 DEF Placed, StoredResource
  <2>4. m \in Seq(StoredResource) /\ p \in Seq(StoredResource) /\ SameResources(m, p)
    BY <1>0, <2>2, ResourcesAppended DEF StoresInv
  <2>5. Call([mem EXCEPT !.resources = m], [pg EXCEPT !.resources = p], Done, Done)
    BY <2>1 DEF MemInsertResource, PgInsertResource, a
  <2> HIDE DEF m, p
  <2> QED BY <2>4, <2>5, ResourcesChange
<1>2. CASE CallUpdateResource
  <2>1. PICK i \in 1..(Len(mem.resources) + 1), r \in Forms({""}) :
          IF i \in DOMAIN mem.resources
          THEN Call(MemUpdateResource(i, r), PgUpdateResource(i, r), Done, Done)
          ELSE Call(mem, pg, Missing, Missing)
    BY <1>2 DEF CallUpdateResource
  <2>2. CASE i \in DOMAIN mem.resources
    <3> DEFINE a == [r EXCEPT !.owner = mem.resources[i].owner]
    <3>1. mem.resources[i] \in StoredResource /\ pg.resources[i] = Placed(mem.resources[i])
      BY <1>0, <2>2
    <3>2. r \in StoredResource
      BY FormsTyped
    <3>3. a \in StoredResource /\ pg.resources[i].owner = mem.resources[i].owner
      BY <3>1, <3>2 DEF StoredResource, Placed
    <3>4. Call([mem EXCEPT !.resources[i] = a], [pg EXCEPT !.resources[i] = Placed(a)], Done, Done)
      BY <2>1, <2>2, <3>3 DEF MemUpdateResource, PgUpdateResource
    <3> HIDE DEF a
    <3> QED BY <1>0, <2>2, <3>3, <3>4, ResourceReplaced
  <2>3. CASE i \notin DOMAIN mem.resources
    BY <2>1, <2>3, NothingChanges
  <2> QED BY <2>2, <2>3
<1>3. CASE CallUpdateByOwner
  <2>1. PICK i \in DOMAIN mem.resources, t \in Tokens, r \in Forms({""}) :
          LET inMem == mem.resources[i].owner = t
              inPg == pg.resources[i].owner = t
          IN  Call(IF inMem THEN MemUpdateByOwner(i, r) ELSE mem,
                   IF inPg THEN PgUpdateByOwner(i, r) ELSE pg, inMem, inPg)
    BY <1>3 DEF CallUpdateByOwner
  <2> DEFINE a == [r EXCEPT !.status = "pending", !.owner = mem.resources[i].owner]
             mine == mem.resources[i].owner = t
  <2>2. mem.resources[i] \in StoredResource /\ pg.resources[i] = Placed(mem.resources[i])
    BY <1>0
  <2>3. r \in StoredResource
    BY FormsTyped
  <2>4. a \in StoredResource /\ pg.resources[i].owner = mem.resources[i].owner
    BY <2>2, <2>3 DEF StoredResource, Placed
  <2>5. Call(IF mine THEN [mem EXCEPT !.resources[i] = a] ELSE mem,
             IF mine THEN [pg EXCEPT !.resources[i] = Placed(a)] ELSE pg, mine, mine)
    BY <2>1, <2>4 DEF MemUpdateByOwner, PgUpdateByOwner
  <2> HIDE DEF a
  <2>6. CASE mine
    <3>1. Call([mem EXCEPT !.resources[i] = a], [pg EXCEPT !.resources[i] = Placed(a)], mine, mine)
      BY <2>5, <2>6
    <3> HIDE DEF mine
    <3> QED BY <1>0, <2>4, <3>1, ResourceReplaced
  <2>7. CASE ~mine
    <3>1. Call(mem, pg, mine, mine)
      BY <2>5, <2>7
    <3> HIDE DEF mine
    <3> QED BY <3>1, NothingChanges
  <2> QED BY <2>6, <2>7
<1>4. CASE CallUpdateStatus
  <2>1. PICK i \in 1..(Len(mem.resources) + 1), s \in {"approved", "rejected"} :
          LET known == i \in DOMAIN mem.resources
          IN  Call(IF known THEN [mem EXCEPT !.resources[i].status = s] ELSE mem,
                   IF known THEN [pg EXCEPT !.resources[i].status = s] ELSE pg, Done, Done)
    BY <1>4 DEF CallUpdateStatus
  <2>2. CASE i \in DOMAIN mem.resources
    <3> DEFINE a == [mem.resources[i] EXCEPT !.status = s]
    <3>1. mem.resources[i] \in StoredResource /\ pg.resources[i] = Placed(mem.resources[i])
      BY <1>0, <2>2
    <3>2. a \in StoredResource /\ Placed(a) = [pg.resources[i] EXCEPT !.status = s]
      BY <3>1 DEF StoredResource, Placed
    <3>3. Call([mem EXCEPT !.resources[i] = a], [pg EXCEPT !.resources[i] = Placed(a)], Done, Done)
      BY <2>1, <2>2, <3>2
    <3> HIDE DEF a
    <3> QED BY <1>0, <2>2, <3>2, <3>3, ResourceReplaced
  <2>3. CASE i \notin DOMAIN mem.resources
    BY <2>1, <2>3, NothingChanges
  <2> QED BY <2>2, <2>3
<1>5. CASE CallUpdateDetails
  <2>1. PICK i \in 1..(Len(mem.resources) + 1), n \in Notes :
          LET known == i \in DOMAIN mem.resources
          IN  Call(IF known THEN [mem EXCEPT !.resources[i].details = n] ELSE mem,
                   IF known THEN [pg EXCEPT !.resources[i].details = n] ELSE pg, Done, Done)
    BY <1>5 DEF CallUpdateDetails
  <2>2. CASE i \in DOMAIN mem.resources
    <3> DEFINE a == [mem.resources[i] EXCEPT !.details = n]
    <3>1. mem.resources[i] \in StoredResource /\ pg.resources[i] = Placed(mem.resources[i])
      BY <1>0, <2>2
    <3>2. a \in StoredResource /\ Placed(a) = [pg.resources[i] EXCEPT !.details = n]
      BY <3>1 DEF StoredResource, Placed
    <3>3. Call([mem EXCEPT !.resources[i] = a], [pg EXCEPT !.resources[i] = Placed(a)], Done, Done)
      BY <2>1, <2>2, <3>2
    <3> HIDE DEF a
    <3> QED BY <1>0, <2>2, <3>2, <3>3, ResourceReplaced
  <2>3. CASE i \notin DOMAIN mem.resources
    BY <2>1, <2>3, NothingChanges
  <2> QED BY <2>2, <2>3
<1> QED BY <1>1, <1>2, <1>3, <1>4, <1>5

(* The events that are new are new in both stores. *)
LEMMA EventsAgree ==
    ASSUME StoresInv, CallInsertSismoEvents
    PROVE  StoresInv'
<1>1. PICK batch \in Batches :
        Call([mem EXCEPT !.sismos = @ \o NewEvents(mem.sismos, Once(batch))],
             [pg EXCEPT !.sismos = @ \o NewEvents(pg.sismos, Once(batch))],
             NewEvents(mem.sismos, Once(batch)), NewEvents(pg.sismos, Once(batch)))
  BY DEF CallInsertSismoEvents
<1> DEFINE new == NewEvents(mem.sismos, Once(batch))
           all == mem.sismos \o new
<1>2. mem.sismos = pg.sismos
  BY DEF StoresInv
<1>3. Call([mem EXCEPT !.sismos = all], [pg EXCEPT !.sismos = all], new, new)
  BY <1>1, <1>2
<1> HIDE DEF new, all
<1> QED BY <1>3 DEF StoresInv, StoreType, SameResult, Call

(* A device is known in both stores, or lost in MemStore. *)
LEMMA SubscriptionsAgree ==
    ASSUME StoresInv, CallUpsert \/ CallDelete
    PROVE  StoresInv'
<1>1. SameSubs(mem.subs, pg.subs)
  BY DEF StoresInv
<1>2. ASSUME NEW m, NEW p, SameSubs(m, p),
             Call([mem EXCEPT !.subs = m], [pg EXCEPT !.subs = p], Done, Done)
      PROVE  StoresInv'
  BY <1>2 DEF StoresInv, StoreType, SameResult, Call
<1>3. CASE CallUpsert
  <2>1. PICK e \in Endpoints, device \in Devices :
          Call(MemUpsert(e, device), PgUpsert(e, device), Done, Done)
    BY <1>3 DEF CallUpsert
  <2> DEFINE m == With(mem.subs, e, device)
             d == IF e \in DOMAIN pg.subs THEN Given(device, pg.subs[e]) ELSE device
             p == With(pg.subs, e, d)
  <2>2. SameSubs(m, p)
    BY <1>1 DEF SameSubs, With, Given
  <2>3. Call([mem EXCEPT !.subs = m], [pg EXCEPT !.subs = p], Done, Done)
    BY <2>1 DEF MemUpsert, PgUpsert
  <2> HIDE DEF m, p
  <2> QED BY <1>2, <2>2, <2>3
<1>4. CASE CallDelete
  <2>1. PICK e \in Endpoints :
          Call([mem EXCEPT !.subs = Without(@, e)], [pg EXCEPT !.subs = Without(@, e)], Done, Done)
    BY <1>4 DEF CallDelete
  <2> DEFINE m == Without(mem.subs, e)
             p == Without(pg.subs, e)
  <2>2. SameSubs(m, p)
    BY <1>1 DEF SameSubs, Without
  <2> HIDE DEF m, p
  <2> QED BY <1>2, <2>1, <2>2 DEF m, p
<1> QED BY <1>3, <1>4

(* A setting is the last value in both. *)
LEMMA SettingsAgree ==
    ASSUME StoresInv, CallSetSetting
    PROVE  StoresInv'
<1>1. PICK k, v : Call([mem EXCEPT !.settings = With(@, k, v)],
                       [pg EXCEPT !.settings = With(@, k, v)], Done, Done)
  BY DEF CallSetSetting
<1> DEFINE all == With(mem.settings, k, v)
<1>2. Call([mem EXCEPT !.settings = all], [pg EXCEPT !.settings = all], Done, Done)
  BY <1>1 DEF StoresInv
<1> HIDE DEF all
<1> QED BY <1>2 DEF StoresInv, StoreType, SameResult, Call

(* StoresAgree for any number of writing calls of any visitors: but for the
   differences it names, MemStore and PGStore return the same and hold the same
   rows.  What their reading calls make of those rows is not part of it. *)
THEOREM StoresAlwaysAgree == StoresSpec => []StoresAgree
<1>1. StoresInit => StoresInv
  <2> SUFFICES ASSUME StoresInit PROVE StoresInv
    OBVIOUS
  <2>1. mem = NoRows /\ pg = NoRows /\ results[1] = results[2]
    BY DEF StoresInit
  <2>2. StoreType(NoRows)
    BY DEF StoreType, NoRows
  <2>3. SameObs(NoRows.obs, NoRows.obs) /\ SameResources(NoRows.resources, NoRows.resources)
    BY DEF SameObs, SameResources, NoRows
  <2>4. SameSubs(NoRows.subs, NoRows.subs)
    BY DEF SameSubs
  <2> QED BY <2>1, <2>2, <2>3, <2>4 DEF StoresInv, SameResult
<1>2. StoresInv /\ [StoresNext]_storeVars => StoresInv'
  <2> SUFFICES ASSUME StoresInv, [StoresNext]_storeVars PROVE StoresInv'
    OBVIOUS
  <2>1. CASE StoresNext
    BY <2>1, InsertObservationAgrees, UpdateObservationAgrees, ResourceCallsAgree, VotesChange,
       EventsAgree, SubscriptionsAgree, SettingsAgree DEF StoresNext
  <2>2. CASE UNCHANGED storeVars
    BY <2>2 DEF storeVars, StoresInv, SameResult
  <2> QED BY <2>1, <2>2
<1> QED BY <1>1, <1>2, StoresInvAgree, PTL DEF StoresSpec
=============================================================================
