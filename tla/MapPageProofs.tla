--------------------------- MODULE MapPageProofs ---------------------------
(***************************************************************************)
(* MapFollowsVisitor, for any views, filters, providers and bound.  The    *)
(* invariant says of the last request, whether it is under way or shown,   *)
(* what the property says only of the answer that is shown.  Then what the *)
(* map asks for beside the cells: the counts and the list of the           *)
(* resources, for any number of them and any limit of the list, and the    *)
(* official coverage, for any tables, requests and answers kept.           *)
(***************************************************************************)
EXTENDS MapPage, CoverageQueries, ResourceCounts, FiniteSetTheorems, FunctionTheorems,
        SequenceTheorems, TLAPS

Question == [n : Nat \ {0}, view : Views, filter : CellFilters]

Request == [n : Nat \ {0}, view : Views]

\* NoRequest is told from a request by its number.
Layers == {NoLayer} \cup {TileLayer(p) : p \in Tiles} \cup {Images(v) : v \in Views}

MapType ==
    /\ chosen \in [view : Views, filter : CellFilters, selection : Selections]
    /\ moved \in BOOLEAN
    /\ cells \in [shown : Question \cup {NoRequest}, asked : SUBSET Question,
                  count : Nat \ {0}, skipped : BOOLEAN]
    /\ overlay \in [shown : Layers, live : Request \cup {NoRequest},
                    aborted : SUBSET Request, count : Nat, excused : BOOLEAN]

\* The last request for cells has the page's filter, and the view unless the
\* map has moved since, or a request was skipped.
LastFits(q) ==
    q.n = cells.count =>
        /\ q.filter = chosen.filter
        /\ ~moved /\ ~cells.skipped => chosen.view \in Inside[q.view]

CellsInv ==
    \A q \in cells.asked \cup {cells.shown} : q.n <= cells.count /\ LastFits(q)

LayerWanted ==
    IF chosen.selection \in Tiles THEN TileLayer(chosen.selection)
    ELSE IF chosen.selection = Movistar /\ chosen.view \notin FarViews
    THEN Images(chosen.view)
    ELSE NoLayer

\* A request that is under way asks for what is selected, and when there is
\* none it is what is shown.
OverlayInv ==
    ~moved /\ ~overlay.excused =>
        IF overlay.live = NoRequest THEN overlay.shown = LayerWanted
        ELSE /\ chosen.selection = Movistar
             /\ chosen.view \notin FarViews
             /\ overlay.live.view = chosen.view

MapInv == MapType /\ CellsInv /\ OverlayInv

----------------------------------------------------------------------------

LEMMA NoRequestIsNone == NoRequest \notin Question /\ NoRequest \notin Request
<1>1. NoRequest.n = 0
  BY DEF NoRequest
<1>2. \A q \in Question \cup Request : q.n # 0
  BY DEF Question, Request
<1> QED
  BY <1>1, <1>2

\* loadCells keeps the invariant of the cells, of a page whose map has just
\* moved or not, when it asks with the page's filter; a new filter is asked
\* for by force.
LEMMA LoadCellsKeeps ==
    ASSUME MapType, CellsInv,
           NEW force \in BOOLEAN, NEW f \in CellFilters,
           f # chosen.filter => force,
           cells' = LoadCells(force, chosen.view, f),
           chosen' = [chosen EXCEPT !.filter = f],
           moved' \in BOOLEAN,
           moved => moved' \/ ~force
    PROVE  /\ cells' \in [shown : Question \cup {NoRequest}, asked : SUBSET Question,
                          count : Nat \ {0}, skipped : BOOLEAN]
           /\ CellsInv'
<1> DEFINE q == [n |-> cells.count + 1, view |-> chosen.view, filter |-> f]
<1>q. q \in Question
  BY DEF MapType, Question
<1> HIDE DEF q
<1>c. CASE ~force /\ cells.shown.n # 0 /\ chosen.view \in Inside[cells.shown.view]
  <2>1. cells' = [cells EXCEPT !.skipped = @ \/ cells.asked # {}]
    BY <1>c DEF LoadCells
  <2>2. chosen' = chosen
    BY <1>c DEF MapType
  <2>3. /\ cells'.shown = cells.shown /\ cells'.asked = cells.asked
        /\ cells'.count = cells.count
        /\ cells'.skipped = (cells.skipped \/ cells.asked # {})
    BY <2>1 DEF MapType
  <2>4. ASSUME NEW x \in cells.asked \cup {cells.shown}, x.n = cells.count,
               ~moved', ~cells'.skipped
        PROVE  chosen.view \in Inside[x.view]
    BY <2>3, <2>4, <1>c
  <2> QED
    BY <2>1, <2>2, <2>3, <2>4 DEF MapType, CellsInv, LastFits
<1>a. CASE ~(~force /\ cells.shown.n # 0 /\ chosen.view \in Inside[cells.shown.view])
  <2>1. cells' = [cells EXCEPT !.asked = @ \cup {q}, !.count = @ + 1, !.skipped = FALSE]
    BY <1>a DEF LoadCells, q
  <2>2. /\ cells'.shown = cells.shown /\ cells'.asked = cells.asked \cup {q}
        /\ cells'.count = cells.count + 1 /\ cells'.skipped = FALSE
    BY <2>1 DEF MapType
  <2>3. chosen'.filter = f /\ chosen'.view = chosen.view
    BY DEF MapType
  <2>5. ASSUME NEW x \in cells.asked \cup {cells.shown}
        PROVE  x.n \in Nat /\ x.n <= cells.count
    BY DEF CellsInv, MapType, Question, NoRequest
  <2>6. ASSUME NEW x \in cells'.asked \cup {cells'.shown}
        PROVE  x.n <= cells'.count /\ LastFits(x)'
    <3>1. CASE x = q
      <4>1. x.n = cells.count + 1 /\ x.view = chosen.view /\ x.filter = f
        BY <3>1 DEF q
      <4>2. x.view \in Views
        BY <4>1 DEF MapType
      <4> QED
        BY <4>1, <4>2, <2>2, <2>3, MapAssumption DEF LastFits, MapType
    <3>2. CASE x # q
      <4>1. x.n \in Nat /\ x.n <= cells.count
        BY <2>5, <2>2, <3>2
      <4>2. x.n # cells'.count /\ x.n <= cells'.count
        BY <4>1, <2>2 DEF MapType
      <4> QED
        BY <4>2 DEF LastFits
    <3> QED
      BY <3>1, <3>2
  <2>7. cells' \in [shown : Question \cup {NoRequest}, asked : SUBSET Question,
                    count : Nat \ {0}, skipped : BOOLEAN]
    <3>1. /\ cells.asked \cup {q} \in SUBSET Question
          /\ cells.count + 1 \in Nat \ {0}
      BY <1>q DEF MapType
    <3> HIDE DEF q
    <3> QED
      BY <2>1, <3>1 DEF MapType
  <2> QED
    BY <2>6, <2>7 DEF CellsInv
<1> QED
  BY <1>c, <1>a

\* What syncCoverageLayer leaves is wanted, once the timer has fired.
LEMMA SyncKeeps ==
    ASSUME MapType, OverlayInv,
           NEW force \in BOOLEAN, NEW s \in Selections,
           overlay' = SyncCoverage(force, chosen.view, s),
           chosen' = [chosen EXCEPT !.selection = s]
    PROVE  /\ overlay' \in [shown : Layers, live : Request \cup {NoRequest},
                            aborted : SUBSET Request, count : Nat, excused : BOOLEAN]
           /\ OverlayInv'
<1>1. chosen'.selection = s /\ chosen'.view = chosen.view
  BY DEF MapType
<1>2. Aborted \in SUBSET Request
  BY DEF Aborted, MapType
<1>3. ASSUME NEW layer \in Layers, overlay' = Replaced(layer), layer = LayerWanted'
      PROVE  /\ overlay' \in [shown : Layers, live : Request \cup {NoRequest},
                              aborted : SUBSET Request, count : Nat, excused : BOOLEAN]
             /\ OverlayInv'
  BY <1>2, <1>3 DEF Replaced, OverlayInv, MapType
<1>4. ASSUME overlay' = Kept, overlay.shown = LayerWanted'
      PROVE  /\ overlay' \in [shown : Layers, live : Request \cup {NoRequest},
                              aborted : SUBSET Request, count : Nat, excused : BOOLEAN]
             /\ OverlayInv'
  BY <1>4 DEF Kept, OverlayInv, MapType
<1>5. CASE s = Off
  <2>1. LayerWanted' = NoLayer
    BY <1>1, <1>5, MapAssumption DEF LayerWanted
  <2> QED
    BY <1>3, <1>5, <2>1 DEF SyncCoverage, Layers
<1>6. CASE s = Movistar
  <2>1. s \notin Tiles /\ s # Off /\ chosen.view \in Views
    BY <1>6, MapAssumption DEF MapType
  <2>2. overlay' = ApplyMovistar(force, chosen.view)
    BY <1>6, <2>1 DEF SyncCoverage
  <2>3. CASE chosen.view \in FarViews
    <3>1. LayerWanted' = NoLayer
      BY <1>1, <2>1, <2>3 DEF LayerWanted
    <3> QED
      BY <1>3, <2>2, <2>3, <3>1 DEF ApplyMovistar, Layers
  <2>4. CASE chosen.view \notin FarViews /\ ~force /\ overlay.shown = Images(chosen.view)
    <3>1. LayerWanted' = Images(chosen.view)
      BY <1>1, <1>6, <2>1, <2>4 DEF LayerWanted
    <3> QED
      BY <1>4, <2>2, <2>4, <3>1 DEF ApplyMovistar
  <2>5. CASE chosen.view \notin FarViews /\ ~(~force /\ overlay.shown = Images(chosen.view))
    <3> DEFINE r == [n |-> overlay.count + 1, view |-> chosen.view]
    <3>1. r \in Request /\ r.view = chosen.view
      BY <2>1 DEF Request, MapType
    <3>2. r # NoRequest
      BY <3>1, NoRequestIsNone
    <3> HIDE DEF r
    <3>3. overlay' = [overlay EXCEPT !.live = r, !.count = @ + 1, !.aborted = Aborted,
                                     !.excused = FALSE]
      BY <2>2, <2>5 DEF ApplyMovistar, r
    <3>4. overlay'.live = r
      BY <3>3 DEF MapType
    <3>5. OverlayInv'
      BY <1>1, <1>6, <2>1, <2>5, <3>1, <3>2, <3>4 DEF OverlayInv, LayerWanted
    <3>6. overlay' \in [shown : Layers, live : Request \cup {NoRequest},
                        aborted : SUBSET Request, count : Nat, excused : BOOLEAN]
      <4>1. overlay.count + 1 \in Nat
        BY DEF MapType
      <4>2. overlay' = [shown |-> overlay.shown, live |-> r, aborted |-> Aborted,
                        count |-> overlay.count + 1, excused |-> FALSE]
        BY <3>3 DEF MapType
      <4>3. overlay.shown \in Layers
        BY DEF MapType
      <4> QED
        BY <1>2, <3>1, <4>1, <4>2, <4>3
    <3> QED
      BY <3>5, <3>6
  <2> QED
    BY <2>3, <2>4, <2>5
<1>7. CASE s \in Tiles
  <2>1. s # Off /\ s # Movistar
    BY <1>7, MapAssumption
  <2>2. LayerWanted' = TileLayer(s)
    BY <1>1, <1>7 DEF LayerWanted
  <2>3. overlay' = ApplyTileLayer(s)
    BY <2>1 DEF SyncCoverage
  <2> QED
    BY <1>3, <1>4, <1>7, <2>2, <2>3 DEF ApplyTileLayer, Layers
<1> QED
  BY <1>5, <1>6, <1>7 DEF Selections

----------------------------------------------------------------------------

LEMMA MapInitHolds == MapInit => MapInv
<1> SUFFICES ASSUME MapInit PROVE MapInv
  OBVIOUS
<1>1. PICK v \in Views, f \in CellFilters :
          /\ chosen = [view |-> v, filter |-> f, selection |-> Off]
          /\ cells = [shown |-> NoRequest, asked |-> {[n |-> 1, view |-> v, filter |-> f]},
                      count |-> 1, skipped |-> FALSE]
  BY DEF MapInit
<1>2. MapType
  <2>1. chosen \in [view : Views, filter : CellFilters, selection : Selections]
    BY <1>1 DEF Selections
  <2>2. [n |-> 1, view |-> v, filter |-> f] \in Question
    BY DEF Question
  <2>3. cells \in [shown : Question \cup {NoRequest}, asked : SUBSET Question,
                   count : Nat \ {0}, skipped : BOOLEAN]
    BY <1>1, <2>2
  <2>4. overlay \in [shown : Layers, live : Request \cup {NoRequest},
                     aborted : SUBSET Request, count : Nat, excused : BOOLEAN]
    BY DEF MapInit, Layers
  <2> QED
    BY <2>1, <2>3, <2>4 DEF MapInit, MapType
<1>3. CellsInv
  BY <1>1, MapAssumption DEF CellsInv, LastFits, NoRequest
<1>4. OverlayInv
  BY <1>1, MapAssumption DEF MapInit, OverlayInv, LayerWanted
<1> QED
  BY <1>2, <1>3, <1>4 DEF MapInv

LEMMA MapStep == MapInv /\ [MapNext]_mapVars => MapInv'
<1> SUFFICES ASSUME MapInv, [MapNext]_mapVars PROVE MapInv'
  OBVIOUS
<1> USE DEF MapInv
<1>1. CASE MoveMap
  <2>1. PICK v \in Views : chosen' = [chosen EXCEPT !.view = v]
    BY <1>1 DEF MoveMap
  <2>2. MapType'
    BY <1>1, <2>1 DEF MoveMap, MapType
  <2>3. chosen'.filter = chosen.filter /\ moved' /\ cells' = cells
    BY <1>1, <2>1 DEF MoveMap, MapType
  <2>4. CellsInv'
    BY <2>3 DEF CellsInv, LastFits
  <2> QED
    BY <2>2, <2>3, <2>4 DEF OverlayInv
<1>2. CASE TimerFires
  <2>1. /\ chosen' = chosen
        /\ cells' = LoadCells(FALSE, chosen.view, chosen.filter)
        /\ overlay' = SyncCoverage(FALSE, chosen.view, chosen.selection)
        /\ moved' = FALSE
    BY <1>2 DEF TimerFires
  <2>2. /\ chosen.filter \in CellFilters /\ chosen.selection \in Selections
        /\ chosen' = [chosen EXCEPT !.filter = chosen.filter]
        /\ chosen' = [chosen EXCEPT !.selection = chosen.selection]
    BY <2>1 DEF MapType
  <2>3. /\ CellsInv'
        /\ cells' \in [shown : Question \cup {NoRequest}, asked : SUBSET Question,
                       count : Nat \ {0}, skipped : BOOLEAN]
    BY <2>1, <2>2, LoadCellsKeeps
  <2>4. /\ OverlayInv'
        /\ overlay' \in [shown : Layers, live : Request \cup {NoRequest},
                         aborted : SUBSET Request, count : Nat, excused : BOOLEAN]
    BY <2>1, <2>2, SyncKeeps
  <2> QED
    BY <2>1, <2>3, <2>4 DEF MapType
<1>3. CASE ChangeFilter
  <2>1. PICK f \in CellFilters :
            /\ chosen' = [chosen EXCEPT !.filter = f]
            /\ cells' = LoadCells(TRUE, chosen.view, f)
    BY <1>3 DEF ChangeFilter
  <2>2. moved' = moved /\ overlay' = overlay
    BY <1>3 DEF ChangeFilter
  <2>3. /\ CellsInv'
        /\ cells' \in [shown : Question \cup {NoRequest}, asked : SUBSET Question,
                       count : Nat \ {0}, skipped : BOOLEAN]
    BY <2>1, <2>2, LoadCellsKeeps DEF MapType
  <2>4. chosen'.view = chosen.view /\ chosen'.selection = chosen.selection
    BY <2>1 DEF MapType
  <2>5. OverlayInv'
    BY <2>2, <2>4 DEF OverlayInv, LayerWanted
  <2> QED
    BY <2>1, <2>2, <2>3, <2>5 DEF MapType
<1>4. CASE Refresh
  <2>1. PICK force \in BOOLEAN : cells' = LoadCells(force, chosen.view, chosen.filter)
    BY <1>4 DEF Refresh
  <2>2. chosen' = chosen /\ moved' = moved /\ overlay' = overlay
    BY <1>4 DEF Refresh
  <2>3. chosen.filter \in CellFilters /\ chosen' = [chosen EXCEPT !.filter = chosen.filter]
    BY <2>2 DEF MapType
  <2>4. /\ CellsInv'
        /\ cells' \in [shown : Question \cup {NoRequest}, asked : SUBSET Question,
                       count : Nat \ {0}, skipped : BOOLEAN]
    BY <2>1, <2>2, <2>3, LoadCellsKeeps DEF MapType
  <2> QED
    BY <2>2, <2>4 DEF MapType, OverlayInv, LayerWanted
<1>5. CASE Select
  <2>1. PICK s \in Selections :
            /\ chosen' = [chosen EXCEPT !.selection = s]
            /\ overlay' = SyncCoverage(TRUE, chosen.view, s)
    BY <1>5 DEF Select
  <2>2. moved' = moved /\ cells' = cells
    BY <1>5 DEF Select
  <2>3. /\ OverlayInv'
        /\ overlay' \in [shown : Layers, live : Request \cup {NoRequest},
                         aborted : SUBSET Request, count : Nat, excused : BOOLEAN]
    BY <2>1, SyncKeeps
  <2>4. chosen'.view = chosen.view /\ chosen'.filter = chosen.filter
    BY <2>1 DEF MapType
  <2>5. CellsInv'
    BY <2>2, <2>4 DEF CellsInv, LastFits
  <2> QED
    BY <2>1, <2>2, <2>3, <2>5 DEF MapType
<1>6. CASE CellsAnswer
  <2>1. PICK q \in cells.asked : cells' = [cells EXCEPT !.shown = q, !.asked = @ \ {q}]
    BY <1>6 DEF CellsAnswer
  <2>2. chosen' = chosen /\ moved' = moved /\ overlay' = overlay
    BY <1>6 DEF CellsAnswer
  <2>3. /\ cells'.asked \cup {cells'.shown} \subseteq cells.asked
        /\ cells'.count = cells.count /\ cells'.skipped = cells.skipped
    BY <2>1 DEF MapType
  <2>4. CellsInv'
    BY <2>2, <2>3 DEF CellsInv, LastFits
  <2> QED
    BY <2>1, <2>2, <2>4 DEF MapType, OverlayInv, LayerWanted
<1>7. CASE CellsFail
  <2>1. PICK q \in cells.asked : cells' = [cells EXCEPT !.asked = @ \ {q}]
    BY <1>7 DEF CellsFail
  <2>2. chosen' = chosen /\ moved' = moved /\ overlay' = overlay
    BY <1>7 DEF CellsFail
  <2>3. /\ cells'.asked \subseteq cells.asked /\ cells'.shown = cells.shown
        /\ cells'.count = cells.count /\ cells'.skipped = cells.skipped
    BY <2>1 DEF MapType
  <2>4. CellsInv'
    BY <2>2, <2>3 DEF CellsInv, LastFits
  <2> QED
    BY <2>1, <2>2, <2>4 DEF MapType, OverlayInv, LayerWanted
<1>8. CASE OverlayAnswer
  <2>1. PICK r \in Aborted :
            overlay' = IF Applies(r)
                       THEN [overlay EXCEPT !.shown = Images(r.view), !.live = NoRequest,
                                            !.aborted = Aborted \ {r}]
                       ELSE [overlay EXCEPT !.aborted = @ \ {r}]
    BY <1>8 DEF OverlayAnswer
  <2>2. chosen' = chosen /\ moved' = moved /\ cells' = cells
    BY <1>8 DEF OverlayAnswer
  <2>3. r \in Request /\ Aborted \in SUBSET Request
    BY DEF Aborted, MapType
  <2>4. CASE r = overlay.live
    <3>1. /\ overlay'.shown = Images(r.view) /\ overlay'.live = NoRequest
          /\ overlay'.excused = overlay.excused
      BY <2>1, <2>4 DEF Applies, MapType
    <3>2. overlay.live # NoRequest
      BY <2>3, <2>4, NoRequestIsNone
    <3>3. OverlayInv'
      BY <2>2, <2>4, <3>1, <3>2, MapAssumption DEF OverlayInv, LayerWanted
    <3>4. r.view \in Views
      BY <2>3 DEF Request
    <3>5. MapType'
      BY <2>1, <2>2, <2>3, <2>4, <3>4 DEF MapType, Applies, Layers
    <3> QED
      BY <2>2, <3>3, <3>5 DEF CellsInv, LastFits
  <2>5. CASE r # overlay.live
    <3>1. /\ overlay'.shown = overlay.shown /\ overlay'.live = overlay.live
          /\ overlay'.excused = overlay.excused
      BY <2>1, <2>5 DEF Applies, MapType
    <3>2. OverlayInv'
      BY <2>2, <3>1 DEF OverlayInv, LayerWanted
    <3>3. MapType'
      BY <2>1, <2>2, <2>5 DEF MapType, Applies
    <3> QED
      BY <2>2, <3>2, <3>3 DEF CellsInv, LastFits
  <2> QED
    BY <2>4, <2>5
<1>9. CASE OverlayFails
  <2>1. chosen' = chosen /\ moved' = moved /\ cells' = cells
    BY <1>9 DEF OverlayFails
  <2>2. overlay' = [overlay EXCEPT !.live = NoRequest, !.excused = TRUE]
    BY <1>9 DEF OverlayFails
  <2>3. MapType' /\ overlay'.excused
    BY <2>1, <2>2 DEF MapType
  <2> QED
    BY <2>1, <2>3 DEF OverlayInv, CellsInv, LastFits
<1>10. CASE UNCHANGED mapVars
  BY <1>10 DEF mapVars, MapType, CellsInv, LastFits, OverlayInv, LayerWanted
<1> QED
  BY <1>1, <1>2, <1>3, <1>4, <1>5, <1>6, <1>7, <1>8, <1>9, <1>10 DEF MapNext

\* The inductive invariant of the page, whatever it shows and has asked for.
THEOREM MapInvariant == MapSpec => []MapInv
<1> QED
  BY MapInitHolds, MapStep, PTL DEF MapSpec

\* The cells and the layer of coverage follow the visitor, for any views,
\* filters and providers and any order of the answers, with the exceptions
\* that MapFollowsVisitor names.
THEOREM MapFollows == MapSpec => []MapFollowsVisitor
<1>1. MapInv => MapFollowsVisitor
  <2> SUFFICES ASSUME MapInv PROVE MapFollowsVisitor
    OBVIOUS
  <2>1. CellsFollow
    BY DEF MapInv, MapType, CellsInv, LastFits, CellsFollow
  <2>2. OverlayFollows
    BY DEF MapInv, OverlayInv, OverlayFollows, LayerWanted
  <2> QED
    BY <2>1, <2>2 DEF MapFollowsVisitor
<1> QED
  BY <1>1, MapInvariant, PTL
----------------------------------------------------------------------------
(* The counts of resources *)

Numbers(f, S) ==
    /\ f \in [S -> 1..Cardinality(S)]
    /\ \A a, b \in S : f[a] = f[b] => a = b
    /\ \A n \in 1..Cardinality(S) : \E a \in S : f[a] = n

(* The elements of a finite set can be numbered. *)
LEMMA Numbering ==
    ASSUME NEW S, IsFiniteSet(S)
    PROVE  \E f : Numbers(f, S)
<1> DEFINE T == 1..Cardinality(S)
<1>1. ExistsBijection(T, S)
  BY FS_CardinalityType
<1>2. ExistsBijection(S, T)
  BY <1>1, Fun_ExistsBijSymmetric
<1>3. PICK f : f \in Bijection(S, T)
  BY <1>2 DEF ExistsBijection
<1> HIDE DEF T
<1>4. /\ f \in [S -> T]
      /\ \A a, b \in S : f[a] = f[b] => a = b
      /\ \A n \in T : \E a \in S : f[a] = n
  BY <1>3 DEF Bijection, Injection, Surjection, IsInjective
<1> QED BY <1>4 DEF Numbers, T

ArgsOf(f, k) == {i \in DOMAIN f : f[i] = k}

(* Things counted kind by kind are as many as they are: each kind is numbered,
   and a thing has one kind. *)
LEMMA TotalOfKinds ==
    ASSUME NEW A, IsFiniteSet(A), NEW K, NEW f \in [A -> K]
    PROVE  Total([k \in K |-> Cardinality(ArgsOf(f, k))]) = Cardinality(A)
<1> DEFINE byKind == [k \in K |-> Cardinality(ArgsOf(f, k))]
           number == [k \in K |-> CHOOSE n : Numbers(n, ArgsOf(f, k))]
           g == [i \in A |-> <<f[i], number[f[i]][i]>>]
<1>1. ASSUME NEW k \in K PROVE Numbers(number[k], ArgsOf(f, k))
  <2>1. ArgsOf(f, k) \in SUBSET A
    BY DEF ArgsOf
  <2>2. \E n : Numbers(n, ArgsOf(f, k))
    BY <2>1, FS_Subset, Numbering
  <2> QED BY <2>2
<1> HIDE DEF number
<1>2. ASSUME NEW k \in K
      PROVE  /\ number[k] \in [ArgsOf(f, k) -> 1..Cardinality(ArgsOf(f, k))]
             /\ \A i, j \in ArgsOf(f, k) : number[k][i] = number[k][j] => i = j
             /\ \A n \in 1..Cardinality(ArgsOf(f, k)) : \E i \in ArgsOf(f, k) : number[k][i] = n
  BY <1>1 DEF Numbers
<1>3. ASSUME NEW k \in K PROVE byKind[k] = Cardinality(ArgsOf(f, k))
  OBVIOUS
<1>4. \A x : x \in Counted(byKind) <=> \E k \in K : \E n \in 1..byKind[k] : x = <<k, n>>
  <2>1. DOMAIN byKind = K
    OBVIOUS
  <2> HIDE DEF byKind
  <2> QED BY <2>1 DEF Counted
<1> HIDE DEF byKind
<1>5. ASSUME NEW i \in A
      PROVE  f[i] \in K /\ i \in ArgsOf(f, f[i]) /\ number[f[i]][i] \in 1..byKind[f[i]]
  <2>1. f[i] \in K
    OBVIOUS
  <2>2. i \in ArgsOf(f, f[i])
    BY DEF ArgsOf
  <2>3. number[f[i]] \in [ArgsOf(f, f[i]) -> 1..Cardinality(ArgsOf(f, f[i]))]
    BY <1>2, <2>1
  <2> QED BY <1>3, <2>1, <2>2, <2>3
<1>6. g \in [A -> Counted(byKind)]
  BY <1>4, <1>5
<1>7. ASSUME NEW i \in A, NEW j \in A, g[i] = g[j] PROVE i = j
  <2>1. f[i] = f[j] /\ number[f[i]][i] = number[f[j]][j]
    BY <1>7
  <2> QED BY <1>2, <1>5, <2>1
<1>8. ASSUME NEW x \in Counted(byKind) PROVE \E i \in A : g[i] = x
  <2>1. PICK k \in K : \E n \in 1..byKind[k] : x = <<k, n>>
    BY <1>4
  <2>2. PICK n \in 1..byKind[k] : x = <<k, n>>
    BY <2>1
  <2>3. PICK i \in ArgsOf(f, k) : number[k][i] = n
    BY <1>2, <1>3
  <2>4. i \in A /\ f[i] = k
    BY <2>3 DEF ArgsOf
  <2> QED BY <2>2, <2>3, <2>4
<1> HIDE DEF g
<1>9. g \in Bijection(A, Counted(byKind))
  BY <1>6, <1>7, <1>8, Fun_IsBij
<1>10. ExistsBijection(A, Counted(byKind))
  BY <1>9 DEF ExistsBijection
<1> QED BY <1>10, FS_Bijection DEF Total, byKind

ReportRow == [kind : ResourceKinds, status : {"pending", "approved", "rejected"}]

CountsType ==
    /\ reported \in Seq(ReportRow)
    /\ since \in Nat
    /\ counting.pc \in {"none", "counted", "done"}

(* The requests' answers are at most one approved resource off for each write
   since the first query; a list is of now, for any write forgets it. *)
CountsInv ==
    /\ CountsType
    /\ counting.pc # "none" =>
          /\ counting.approved \in Nat
          /\ AtMost(since, Cardinality(HasStatus("approved")), counting.approved)
    /\ counting.pc = "done" =>
          /\ Total(counting.byKind) \in Nat
          /\ AtMost(since, Total(counting.byKind), counting.approved)
    /\ listing.known =>
          listing.ids = {i \in HasStatus("approved") : i > Len(reported) - ListLimit}

(* The approved rows are finitely many. *)
LEMMA ApprovedFinite ==
    ASSUME CountsType
    PROVE  /\ HasStatus("approved") \subseteq 1..Len(reported)
           /\ IsFiniteSet(HasStatus("approved"))
           /\ Cardinality(HasStatus("approved")) \in Nat
<1>1. HasStatus("approved") \subseteq 1..Len(reported) /\ Len(reported) \in Nat
  BY DEF CountsType, HasStatus
<1>2. IsFiniteSet(1..Len(reported))
  BY <1>1, FS_Interval
<1> QED BY <1>1, <1>2, FS_Subset, FS_CardinalityType

(* Two instants of the second query: the kinds add up to the approved. *)
LEMMA TotalIsApproved ==
    ASSUME CountsType
    PROVE  Total(ByKind) = Cardinality(HasStatus("approved"))
<1> DEFINE A == HasStatus("approved")
           f == [i \in A |-> reported[i].kind]
<1>1. A \subseteq 1..Len(reported) /\ IsFiniteSet(A)
  BY ApprovedFinite
<1>2. f \in [A -> ResourceKinds]
  <2>1. ASSUME NEW i \in A PROVE reported[i].kind \in ResourceKinds
    <3>1. i \in 1..Len(reported)
      BY <1>1
    <3>2. reported[i] \in ReportRow
      BY <3>1, ElementOfSeq DEF CountsType
    <3> QED BY <3>2 DEF ReportRow
  <2> HIDE DEF A
  <2> QED BY <2>1
<1>3. ByKind = [k \in ResourceKinds |-> Cardinality(ArgsOf(f, k))]
  <2>1. ASSUME NEW k \in ResourceKinds PROVE OfKind(k) = ArgsOf(f, k)
    BY DEF OfKind, ArgsOf
  <2> HIDE DEF A, f
  <2> QED BY <2>1 DEF ByKind
<1> HIDE DEF A, f
<1> QED BY <1>1, <1>2, <1>3, TotalOfKinds DEF A

(* A change of one row's status changes the number of the approved by one at
   most, and a new report, which is pending, by none. *)
LEMMA ApprovedByOne ==
    ASSUME CountsType, ReportArrives \/ Moderate
    PROVE  /\ CountsType'
           /\ Cardinality(HasStatus("approved"))' \in Nat
           /\ AtMost(1, Cardinality(HasStatus("approved"))', Cardinality(HasStatus("approved")))
<1> DEFINE A == HasStatus("approved")
<1>0. A \subseteq 1..Len(reported) /\ IsFiniteSet(A) /\ Cardinality(A) \in Nat
  BY ApprovedFinite
<1>1. CASE ReportArrives
  <2>1. PICK kind \in ResourceKinds :
          Written(Append(reported, [kind |-> kind, status |-> "pending"]))
    BY <1>1 DEF ReportArrives
  <2> DEFINE r == [kind |-> kind, status |-> "pending"]
  <2>2. r \in ReportRow /\ r.status # "approved"
    BY DEF ReportRow
  <2> HIDE DEF r
  <2>3. reported' = Append(reported, r) /\ since' = since + 1 /\ counting' = counting
    BY <2>1 DEF Written, r
  <2>4. CountsType'
    BY <2>2, <2>3 DEF CountsType
  <2>5. A' = A
    BY <2>2, <2>3 DEF CountsType, HasStatus
  <2> QED BY <1>0, <2>4, <2>5 DEF AtMost
<1>2. CASE Moderate
  <2>1. PICK i \in DOMAIN reported, status \in {"approved", "rejected", "pending"} :
          Written([reported EXCEPT ![i].status = status])
    BY <1>2 DEF Moderate
  <2>2. /\ reported' = [reported EXCEPT ![i].status = status]
        /\ since' = since + 1 /\ counting' = counting
    BY <2>1 DEF Written
  <2>3. i \in 1..Len(reported) /\ reported[i] \in ReportRow
    BY ElementOfSeq, LenProperties DEF CountsType
  <2> DEFINE r == [reported[i] EXCEPT !.status = status]
  <2>4. r \in ReportRow /\ r.status = status
    BY <2>3 DEF ReportRow
  <2>5. reported' = [reported EXCEPT ![i] = r]
    BY <2>2
  <2> HIDE DEF r
  <2>6. /\ reported' \in Seq(ReportRow) /\ Len(reported') = Len(reported)
        /\ \A j \in 1..Len(reported) : reported'[j] = IF j = i THEN r ELSE reported[j]
    BY <2>3, <2>4, <2>5, ExceptSeq DEF CountsType
  <2>7. CountsType'
    BY <2>2, <2>6 DEF CountsType
  <2>8. HasStatus("approved")' = IF status = "approved" THEN A \cup {i} ELSE A \ {i}
    <3>1. /\ DOMAIN reported = 1..Len(reported) /\ DOMAIN reported' = 1..Len(reported)
      BY <2>6, LenProperties DEF CountsType
    <3> QED BY <2>3, <2>4, <2>6, <3>1 DEF HasStatus
  <2> HIDE DEF A
  <2>9. /\ IsFiniteSet(A \cup {i}) /\ IsFiniteSet(A \ {i})
        /\ Cardinality(A \cup {i}) = IF i \in A THEN Cardinality(A) ELSE Cardinality(A) + 1
        /\ Cardinality(A \ {i}) = IF i \in A THEN Cardinality(A) - 1 ELSE Cardinality(A)
    BY <1>0, FS_AddElement, FS_RemoveElement
  <2>10. Cardinality(A \cup {i}) \in Nat /\ Cardinality(A \ {i}) \in Nat
    BY <2>9, FS_CardinalityType
  <2>11. /\ AtMost(1, Cardinality(A \cup {i}), Cardinality(A))
         /\ AtMost(1, Cardinality(A \ {i}), Cardinality(A))
    BY <1>0, <2>9, <2>10 DEF AtMost
  <2>12. Cardinality(HasStatus("approved"))' \in {Cardinality(A \cup {i}), Cardinality(A \ {i})}
    BY <2>8
  <2> QED BY <2>7, <2>10, <2>11, <2>12 DEF A
<1> QED BY <1>1, <1>2

(* Distances add up. *)
LEMMA AtMostAdds ==
    ASSUME NEW m \in Nat, NEW n \in Nat, NEW a \in Nat, NEW b \in Nat, NEW c \in Nat,
           AtMost(m, a, b), AtMost(n, b, c)
    PROVE  AtMost(n + m, a, c)
BY DEF AtMost

(* A write adds one to what the answers may be off. *)
LEMMA WriteKeepsCounts ==
    ASSUME CountsInv, ReportArrives \/ Moderate
    PROVE  CountsInv'
<1> DEFINE n == Cardinality(HasStatus("approved"))
<1>1. CountsType' /\ n' \in Nat /\ AtMost(1, n', n)
  BY ApprovedByOne DEF CountsInv
<1>2. n \in Nat
  BY ApprovedFinite DEF CountsInv
<1>3. since' = since + 1 /\ listing' = NotListed /\ counting' = counting /\ since \in Nat
  BY DEF ReportArrives, Moderate, Written, CountsInv, CountsType
<1> HIDE DEF n
<1>4. ASSUME counting.pc # "none"
      PROVE  counting.approved \in Nat /\ AtMost(since + 1, n', counting.approved)
  <2>1. counting.approved \in Nat /\ AtMost(since, n, counting.approved)
    BY <1>4 DEF CountsInv, n
  <2> QED BY <2>1, <1>1, <1>2, <1>3, AtMostAdds
<1>5. ASSUME counting.pc = "done"
      PROVE  /\ Total(counting.byKind) \in Nat
             /\ AtMost(since + 1, Total(counting.byKind), counting.approved)
  <2>1. /\ Total(counting.byKind) \in Nat /\ counting.approved \in Nat
        /\ AtMost(since, Total(counting.byKind), counting.approved)
    BY <1>5 DEF CountsInv
  <2> QED BY <2>1, <1>3 DEF AtMost
<1>6. ~listing'.known
  BY <1>3 DEF NotListed
<1>7. Total(counting.byKind)' = Total(counting.byKind)
  BY <1>3
<1> QED BY <1>1, <1>3, <1>4, <1>5, <1>6, <1>7 DEF CountsInv, n

(* The list is at most as many short as rows lie beyond the query's limit. *)
LEMMA ListedAlmostAll ==
    ASSUME CountsType, NEW L,
           L = {i \in HasStatus("approved") : i > Len(reported) - ListLimit}
    PROVE  /\ Cardinality(L) \in Nat
           /\ AtMost(IF Len(reported) > ListLimit THEN Len(reported) - ListLimit ELSE 0,
                     Cardinality(L), Cardinality(HasStatus("approved")))
<1> DEFINE A == HasStatus("approved")
           d == Len(reported) - ListLimit
<1>1. A \subseteq 1..Len(reported) /\ IsFiniteSet(A) /\ Cardinality(A) \in Nat
  BY ApprovedFinite
<1>2. Len(reported) \in Nat /\ ListLimit \in Nat /\ d \in Int
  BY CountsAssumption DEF CountsType
<1>3. L \subseteq A /\ A \ L \subseteq 1..d
  BY <1>1, <1>2
<1>4. (Len(reported) > ListLimit) <=> d >= 1
  BY <1>2
<1> HIDE DEF A, d
<1>5. IsFiniteSet(L) /\ Cardinality(L) \in Nat /\ Cardinality(L) <= Cardinality(A)
  BY <1>1, <1>3, FS_Subset, FS_CardinalityType
<1>6. IsFiniteSet(1..d) /\ Cardinality(1..d) = IF 1 > d THEN 0 ELSE d - 1 + 1
  BY <1>2, FS_Interval
<1>7. IsFiniteSet(A \ L) /\ Cardinality(A \ L) \in Nat /\ Cardinality(A \ L) <= Cardinality(1..d)
  BY <1>3, <1>6, FS_Subset, FS_CardinalityType
<1>8. Cardinality(A) = Cardinality(L) + Cardinality(A \ L)
  <2>1. L \cup (A \ L) = A /\ L \cap (A \ L) = {} /\ Cardinality({}) = 0
    BY <1>3, FS_EmptySet
  <2>2. Cardinality(L \cup (A \ L)) = Cardinality(L) + Cardinality(A \ L) - Cardinality(L \cap (A \ L))
    BY <1>5, <1>7, FS_Union
  <2>3. Cardinality(L \cup (A \ L)) = Cardinality(A) /\ Cardinality(L \cap (A \ L)) = 0
    BY <2>1
  <2> QED BY <2>2, <2>3, <1>5, <1>7
<1>9. CASE d >= 1
  <2>1. Len(reported) > ListLimit /\ Len(reported) - ListLimit = d
    BY <1>4, <1>9 DEF d
  <2>2. AtMost(d, Cardinality(L), Cardinality(A))
    BY <1>1, <1>2, <1>5, <1>6, <1>7, <1>8, <1>9 DEF AtMost
  <2> QED BY <1>5, <2>1, <2>2 DEF A
<1>10. CASE ~(d >= 1)
  <2>1. AtMost(0, Cardinality(L), Cardinality(A))
    BY <1>1, <1>2, <1>5, <1>6, <1>7, <1>8, <1>10 DEF AtMost
  <2> QED BY <1>5, <1>4, <1>10, <2>1 DEF A
<1> QED BY <1>9, <1>10

(* CountsAddUp for any number of resources, kinds and writes, and any limit of
   the list: the counts are two instants, the list is short by no more than the
   rows beyond its limit. *)
THEOREM CountsAlwaysAddUp == CountsSpec => []CountsAddUp
<1>1. CountsInit => CountsInv
  BY DEF CountsInit, CountsInv, CountsType, NotCounting, NotListed
<1>2. CountsInv /\ [CountsNext]_countVars => CountsInv'
  <2> SUFFICES ASSUME CountsInv, [CountsNext]_countVars PROVE CountsInv'
    OBVIOUS
  <2> DEFINE n == Cardinality(HasStatus("approved"))
  <2>0. CountsType /\ n \in Nat
    BY ApprovedFinite DEF CountsInv
  <2>1. CASE ReportArrives \/ Moderate
    BY <2>1, WriteKeepsCounts
  <2>2. CASE CountStatuses
    <3>1. /\ counting'.pc = "counted" /\ counting'.approved = n /\ since' = 0
          /\ reported' = reported /\ listing' = listing
      BY <2>2 DEF CountStatuses
    <3>2. n' = n /\ HasStatus("approved")' = HasStatus("approved")
      BY <3>1 DEF HasStatus
    <3>3. AtMost(0, n, n)
      BY <2>0 DEF AtMost
    <3> HIDE DEF n
    <3> QED BY <2>0, <3>1, <3>2, <3>3 DEF CountsInv, CountsType, n
  <2>3. CASE CountKinds
    <3>1. /\ counting.pc = "counted"
          /\ counting'.pc = "done" /\ counting'.approved = counting.approved
          /\ counting'.byKind = ByKind
          /\ reported' = reported /\ listing' = listing /\ since' = since
      BY <2>3 DEF CountKinds
    <3>2. n' = n /\ HasStatus("approved")' = HasStatus("approved")
      BY <3>1 DEF HasStatus
    <3>3. Total(ByKind) = n
      BY <2>0, TotalIsApproved
    <3>4. counting.approved \in Nat /\ AtMost(since, n, counting.approved)
      BY <3>1 DEF CountsInv
    <3>5. Total(counting.byKind)' = n
      BY <3>1, <3>3
    <3> HIDE DEF n
    <3> QED BY <2>0, <3>1, <3>2, <3>4, <3>5 DEF CountsInv, CountsType, n
  <2>4. CASE ListResources
    <3>1. /\ listing'.ids = {i \in HasStatus("approved") : i > Len(reported) - ListLimit}
          /\ reported' = reported /\ counting' = counting /\ since' = since
      BY <2>4 DEF ListResources
    <3>2. HasStatus("approved")' = HasStatus("approved")
      BY <3>1 DEF HasStatus
    <3> QED BY <3>1, <3>2 DEF CountsInv, CountsType
  <2>5. CASE UNCHANGED countVars
    <3>1. HasStatus("approved")' = HasStatus("approved")
      BY <2>5 DEF HasStatus, countVars
    <3> QED BY <2>5, <3>1 DEF CountsInv, CountsType, countVars
  <2> QED BY <2>1, <2>2, <2>3, <2>4, <2>5 DEF CountsNext
<1>3. CountsInv => CountsAddUp
  <2> SUFFICES ASSUME CountsInv, counting.pc = "done"
               PROVE  /\ AtMost(since, Total(counting.byKind), counting.approved)
                      /\ listing.known =>
                            AtMost(since + (IF Len(reported) > ListLimit
                                            THEN Len(reported) - ListLimit ELSE 0),
                                   Cardinality(listing.ids), counting.approved)
    BY DEF CountsAddUp
  <2> DEFINE n == Cardinality(HasStatus("approved"))
             m == Cardinality(listing.ids)
             d == IF Len(reported) > ListLimit THEN Len(reported) - ListLimit ELSE 0
  <2>1. /\ n \in Nat /\ counting.approved \in Nat /\ since \in Nat
        /\ AtMost(since, n, counting.approved)
    BY ApprovedFinite DEF CountsInv, CountsType
  <2>2. d \in Nat
    BY CountsAssumption DEF CountsInv, CountsType
  <2>3. ASSUME listing.known PROVE m \in Nat /\ AtMost(d, m, n)
    BY <2>3, ListedAlmostAll DEF CountsInv
  <2> HIDE DEF n, m, d
  <2>4. ASSUME listing.known PROVE AtMost(since + d, m, counting.approved)
    BY <2>1, <2>2, <2>3, <2>4, AtMostAdds
  <2> QED BY <2>4 DEF CountsInv, m, d
<1> QED BY <1>1, <1>2, <1>3, PTL DEF CountsSpec

----------------------------------------------------------------------------
(* The official coverage *)

CoverageAsks == [town : TownFilters, operator : OperatorFilters, tech : TechFilters]

(* What an entry or an answer may be: rows of a request for the coverage, or
   images of a request for Movistar's map. *)
OfCoverage(key, rows, q) ==
    /\ q \in CoverageAsks
    /\ key = CoverageKey(q)
    /\ rows = Coverage(q)

OfOverlays(key, rows) ==
    \E p, t, area : key = OverlayKey(p, t, area) /\ rows = MovistarOverlays(t, area)

EntriesInv ==
    \A key \in DOMAIN entries : \E rows, f :
        /\ entries[key].rows = rows /\ entries[key].filler = f
        /\ OfCoverage(key, rows, f) \/ OfOverlays(key, rows)

Replied ==
    \E q, rows, f :
        /\ reply.query = q /\ reply.rows = rows /\ reply.filler = f
        /\ \/ q \in CoverageAsks /\ OfCoverage(CoverageKey(q), rows, f)
           \/ q \in OverlayAsks /\ rows = MovistarOverlays(q.tech, q.area)

CoverageInv ==
    /\ IsFiniteSet(DOMAIN official) /\ DOMAIN official \subseteq Nat
    /\ EntriesInv
    /\ reply.asked => Replied

(* The images depend on the name of the technology, letter case aside. *)
LEMMA OverlaysByName ==
    ASSUME NEW s, NEW t, NEW area, Lower[s] = Lower[t]
    PROVE  MovistarOverlays(s, area) = MovistarOverlays(t, area)
BY DEF MovistarOverlays

(* The keys of the two kinds of requests differ. *)
LEMMA KeysDiffer ==
    ASSUME NEW q, NEW p, NEW t, NEW area
    PROVE  CoverageKey(q) # OverlayKey(p, t, area)
BY DEF CoverageKey, OverlayKey

(* A list shorter than the limit is not cut. *)
LEMMA ShortListsWhole ==
    ASSUME NEW rows, rows \subseteq Nat, IsFiniteSet(rows), Cardinality(rows) <= CoverageLimit
    PROVE  FirstRows(rows) = rows
<1> SUFFICES ASSUME NEW i \in rows
             PROVE  Cardinality({k \in rows : k < i}) < CoverageLimit
  BY DEF FirstRows
<1> DEFINE before == {k \in rows : k < i}
<1>1. before \subseteq rows /\ before # rows
  OBVIOUS
<1> HIDE DEF before
<1>2. /\ Cardinality(before) <= Cardinality(rows) /\ Cardinality(before) # Cardinality(rows)
      /\ Cardinality(before) \in Nat /\ Cardinality(rows) \in Nat
  BY <1>1, FS_Subset, FS_CardinalityType
<1>3. CoverageLimit \in Nat
  BY CoverageAssumption
<1> QED BY <1>2, <1>3 DEF before

(* The tables do not change, nor what a request gets from them. *)
LEMMA CoverageStays ==
    ASSUME UNCHANGED <<official, catalog>>
    PROVE  /\ \A key, rows, q : OfCoverage(key, rows, q)' <=> OfCoverage(key, rows, q)
           /\ \A key, rows : OfOverlays(key, rows)' <=> OfOverlays(key, rows)
           /\ \A t, area : MovistarOverlays(t, area)' = MovistarOverlays(t, area)
<1>1. ASSUME NEW q PROVE Coverage(q)' = Coverage(q)
  <2>1. Selected(q)' = Selected(q)
    BY DEF Selected
  <2>2. FirstRows(Selected(q))' = FirstRows(Selected(q))
    BY <2>1 DEF FirstRows
  <2> QED BY <2>2 DEF Coverage
<1>2. ASSUME NEW t, NEW area PROVE MovistarOverlays(t, area)' = MovistarOverlays(t, area)
  BY DEF MovistarOverlays
<1>3. ASSUME NEW key, NEW rows, NEW q PROVE OfCoverage(key, rows, q)' <=> OfCoverage(key, rows, q)
  BY <1>1 DEF OfCoverage
<1>4. ASSUME NEW key, NEW rows PROVE OfOverlays(key, rows)' <=> OfOverlays(key, rows)
  BY <1>2 DEF OfOverlays
<1> QED BY <1>2, <1>3, <1>4

(* An answer leaves the entries and the reply as they should be. *)
LEMMA AnswerKeepsCoverage ==
    ASSUME CoverageInv, NEW key, NEW q, NEW computed, Answer(key, q, computed),
           \/ q \in CoverageAsks /\ key = CoverageKey(q) /\ OfCoverage(key, computed, q)
           \/ /\ q \in OverlayAsks /\ OfOverlays(key, computed)
              /\ \A rows : OfOverlays(key, rows) => rows = MovistarOverlays(q.tech, q.area)
    PROVE  CoverageInv'
<1> DEFINE entry == IF key \in DOMAIN entries THEN entries[key]
                    ELSE [rows |-> computed, filler |-> q]
<1>1. /\ entries' = [k \in DOMAIN entries \cup {key} |-> IF k = key THEN entry ELSE entries[k]]
      /\ reply' = [asked |-> TRUE, query |-> q, rows |-> entry.rows, filler |-> entry.filler]
      /\ official' = official /\ catalog' = catalog
  BY DEF Answer
<1>2. PICK rows, f : /\ entry.rows = rows /\ entry.filler = f
                     /\ OfCoverage(key, rows, f) \/ OfOverlays(key, rows)
  <2>1. CASE key \in DOMAIN entries
    BY <2>1 DEF CoverageInv, EntriesInv
  <2>2. CASE key \notin DOMAIN entries
    BY <2>2
  <2> QED BY <2>1, <2>2
<1> HIDE DEF entry
<1>3. /\ \A k, rs, g : OfCoverage(k, rs, g)' <=> OfCoverage(k, rs, g)
      /\ \A k, rs : OfOverlays(k, rs)' <=> OfOverlays(k, rs)
      /\ \A t, area : MovistarOverlays(t, area)' = MovistarOverlays(t, area)
  BY <1>1, CoverageStays
<1>4. EntriesInv'
  <2> SUFFICES ASSUME NEW k \in DOMAIN entries'
               PROVE  \E rs, g : /\ entries'[k].rows = rs /\ entries'[k].filler = g
                                 /\ OfCoverage(k, rs, g)' \/ OfOverlays(k, rs)'
    BY DEF EntriesInv
  <2>1. CASE k = key
    BY <1>1, <1>2, <1>3, <2>1
  <2>2. CASE k # key
    <3>1. k \in DOMAIN entries /\ entries'[k] = entries[k]
      BY <1>1, <2>2
    <3> QED BY <1>3, <3>1 DEF CoverageInv, EntriesInv
  <2> QED BY <2>1, <2>2
<1>5. \/ q \in CoverageAsks /\ OfCoverage(CoverageKey(q), rows, f)
      \/ q \in OverlayAsks /\ rows = MovistarOverlays(q.tech, q.area)
  <2>1. CASE q \in CoverageAsks /\ key = CoverageKey(q)
    BY <1>2, <2>1, KeysDiffer DEF OfOverlays
  <2>2. CASE /\ q \in OverlayAsks /\ OfOverlays(key, computed)
             /\ \A rs : OfOverlays(key, rs) => rs = MovistarOverlays(q.tech, q.area)
    BY <1>2, <2>2, KeysDiffer DEF OfOverlays, OfCoverage
  <2> QED BY <2>1, <2>2
<1>6. Replied'
  <2>1. reply'.query = q /\ reply'.rows = rows /\ reply'.filler = f
    BY <1>1, <1>2
  <2>2. \/ q \in CoverageAsks /\ OfCoverage(CoverageKey(q), rows, f)'
        \/ q \in OverlayAsks /\ rows = MovistarOverlays(q.tech, q.area)'
    BY <1>3, <1>5
  <2> QED BY <2>1, <2>2 DEF Replied
<1> QED BY <1>1, <1>4, <1>6 DEF CoverageInv

(* CoverageAnswersRequest for any tables, limit, requests and answers kept: the
   rows a request gets are those of the request that filled its entry, and the
   two differ in the case of their letters alone. *)
THEOREM CoverageAlwaysAnswers == CoverageSpec => []CoverageAnswersRequest
<1>1. CoverageInit => CoverageInv
  <2> SUFFICES ASSUME CoverageInit PROVE CoverageInv
    OBVIOUS
  <2>1. PICK S \in SUBSET DOMAIN CoverageRows : official = [i \in S |-> CoverageRows[i]]
    BY DEF CoverageInit, Tables
  <2>2. IsFiniteSet(DOMAIN official) /\ DOMAIN official \subseteq Nat
    BY <2>1, CoverageAssumption, FS_Subset
  <2> QED BY <2>2 DEF CoverageInit, CoverageInv, EntriesInv, NoReply
<1>2. CoverageInv => CoverageAnswersRequest
  <2> SUFFICES ASSUME CoverageInv, reply.asked
               PROVE  IF "area" \in DOMAIN reply.query
                      THEN reply.rows = MovistarOverlays(reply.query.tech, reply.query.area)
                      ELSE /\ Canonical(reply.filler)
                              /\ Cardinality(Selected(reply.filler)) <= CoverageLimit
                                  => reply.rows = Meant(reply.query)
                           /\ reply.query.town # "" =>
                                  \A i \in reply.rows :
                                      Lower[official[i].town] = Lower[reply.query.town]
    BY DEF CoverageAnswersRequest
  <2>0. PICK q, rows, f :
          /\ reply.query = q /\ reply.rows = rows /\ reply.filler = f
          /\ \/ q \in CoverageAsks /\ OfCoverage(CoverageKey(q), rows, f)
             \/ q \in OverlayAsks /\ rows = MovistarOverlays(q.tech, q.area)
    BY DEF CoverageInv, Replied
  <2>1. CASE q \in OverlayAsks /\ rows = MovistarOverlays(q.tech, q.area)
    BY <2>0, <2>1, CoverageAssumption
  <2>2. CASE q \in CoverageAsks /\ OfCoverage(CoverageKey(q), rows, f)
    <3>1. q \in CoverageAsks /\ f \in CoverageAsks /\ "area" \notin DOMAIN q
      BY <2>2 DEF OfCoverage, CoverageAsks
    <3>2. /\ Lower[f.town] = Lower[q.town]
          /\ Lower[f.operator] = Lower[q.operator]
          /\ Lower[f.tech] = Lower[q.tech]
      BY <2>2 DEF OfCoverage, CoverageKey
    <3>3. rows = Coverage(f)
      BY <2>2 DEF OfCoverage
    <3>4. /\ f.town = "" <=> q.town = ""
          /\ f.operator = "" <=> q.operator = ""
          /\ f.tech = "" <=> q.tech = ""
      BY <3>1, <3>2, CoverageAssumption DEF CoverageAsks
    <3>5. Coverage(f) \subseteq Selected(f)
      BY DEF Coverage, FirstRows
    <3>6. ASSUME q.town # "", NEW i \in Coverage(f)
          PROVE  Lower[official[i].town] = Lower[q.town]
      BY <3>2, <3>4, <3>5, <3>6 DEF Selected
    <3>7. ASSUME Canonical(f), Cardinality(Selected(f)) <= CoverageLimit
          PROVE  Coverage(f) = Meant(q)
      <4>1. FirstRows(Selected(f)) = Selected(f)
        <5>1. Selected(f) \subseteq DOMAIN official
          BY DEF Selected
        <5>2. Selected(f) \subseteq Nat /\ IsFiniteSet(Selected(f))
          BY <5>1, FS_Subset DEF CoverageInv
        <5> QED BY <5>2, <3>7, ShortListsWhole
      <4>2. ASSUME NEW i \in DOMAIN official
            PROVE  /\ (f.town # "" => Lower[official[i].town] = Lower[f.town])
                        <=> (q.town # "" => Lower[official[i].town] = Lower[q.town])
                   /\ (f.tech # "" => official[i].tech = f.tech)
                        <=> (q.tech # "" => Lower[official[i].tech] = Lower[q.tech])
        BY <3>2, <3>4, <3>7 DEF Canonical
      <4>3. ASSUME NEW i \in DOMAIN official
            PROVE  /\ f.operator # "" => official[i].covered # {}
                   /\ f.operator \in KnownOperators => f.operator \in official[i].covered
                   <=> (q.operator # "" =>
                          (IF Lower[q.operator] \in KnownOperators
                           THEN Lower[q.operator] \in official[i].covered
                           ELSE official[i].covered # {}))
        <5>1. f.operator = Lower[q.operator] /\ "" \notin KnownOperators
          BY <3>2, <3>7 DEF Canonical, KnownOperators
        <5> QED BY <5>1, <3>4
      <4>4. ASSUME NEW i PROVE i \in Coverage(f) <=> i \in Meant(q)
        <5>1. i \in Coverage(f) <=>
                /\ i \in Selected(f)
                /\ f.operator \in KnownOperators => f.operator \in official[i].covered
          BY <4>1 DEF Coverage
        <5> QED BY <5>1, <4>2, <4>3 DEF Selected, Meant
      <4> QED BY <4>4
    <3> QED BY <2>0, <3>1, <3>3, <3>6, <3>7
  <2> QED BY <2>0, <2>1, <2>2
<1>3. CoverageInv /\ [CoverageNext]_coverageVars => CoverageInv'
  <2> SUFFICES ASSUME CoverageInv, [CoverageNext]_coverageVars PROVE CoverageInv'
    OBVIOUS
  <2>1. CASE HandleCoverage
    <3>1. PICK q \in CoverageAsks : Answer(CoverageKey(q), q, Coverage(q))
      BY <2>1 DEF HandleCoverage, CoverageAsks
    <3>2. PICK rows : rows = Coverage(q)
      OBVIOUS
    <3>3. OfCoverage(CoverageKey(q), rows, q)
      BY <3>2 DEF OfCoverage
    <3> QED BY <3>1, <3>2, <3>3, AnswerKeepsCoverage
  <2>2. CASE HandleOverlays
    <3>1. PICK q \in OverlayAsks :
            \E p \in ProviderByID(q.provider) : \E t \in TechnologyByID(p, q.tech) :
              Answer(OverlayKey(p, t, q.area), q, MovistarOverlays(t, q.area))
      BY <2>2 DEF HandleOverlays
    <3>2. PICK p, t : /\ t \in TechnologyByID(p, q.tech)
                      /\ Answer(OverlayKey(p, t, q.area), q, MovistarOverlays(t, q.area))
      BY <3>1
    <3>3. Lower[t] = Lower[q.tech]
      BY <3>2 DEF TechnologyByID
    <3>4. PICK rows : rows = MovistarOverlays(t, q.area)
      OBVIOUS
    <3>5. OfOverlays(OverlayKey(p, t, q.area), rows)
      BY <3>4 DEF OfOverlays
    <3>6. ASSUME NEW rs, OfOverlays(OverlayKey(p, t, q.area), rs)
          PROVE  rs = MovistarOverlays(q.tech, q.area)
      <4>1. PICK p2, t2, area : /\ OverlayKey(p, t, q.area) = OverlayKey(p2, t2, area)
                                /\ rs = MovistarOverlays(t2, area)
        BY <3>6 DEF OfOverlays
      <4>2. Lower[t2] = Lower[q.tech] /\ area = q.area
        BY <3>3, <4>1 DEF OverlayKey
      <4> QED BY <4>1, <4>2, OverlaysByName
    <3> QED BY <3>2, <3>4, <3>5, <3>6, AnswerKeepsCoverage
  <2>3. CASE ForgetEntry
    <3>1. PICK key \in DOMAIN entries : entries' = [k \in DOMAIN entries \ {key} |-> entries[k]]
      BY <2>3 DEF ForgetEntry
    <3>2. official' = official /\ catalog' = catalog /\ reply' = reply
      BY <2>3 DEF ForgetEntry
    <3> QED BY <3>1, <3>2, CoverageStays DEF CoverageInv, EntriesInv, Replied
  <2>4. CASE UNCHANGED coverageVars
    BY <2>4, CoverageStays DEF coverageVars, CoverageInv, EntriesInv, Replied
  <2> QED BY <2>1, <2>2, <2>3, <2>4 DEF CoverageNext
<1> QED BY <1>1, <1>2, <1>3, PTL DEF CoverageSpec
=============================================================================
