------------------------------ MODULE MapPage ------------------------------
(***************************************************************************)
(* What the map of map.js shows: the cells (loadCells) and the layer of    *)
(* official coverage (syncCoverageLayer), while the visitor moves the map, *)
(* filters and selects, timers fire and answers come in any order.         *)
(*                                                                         *)
(* Cells: no request is cancelled, and the last answer to come is shown.   *)
(* Official coverage: a new request aborts the one before, and an answer   *)
(* is taken only if its controller is still the current one.  Both skip a  *)
(* request when what is shown is what would be asked for, whatever has     *)
(* been asked since.  A view is the rectangle and the zoom.  The catalogue *)
(* of providers has been loaded.                                           *)
(***************************************************************************)
EXTENDS Integers

CONSTANTS
    Views,       \* rectangles of the map
    Inside,      \* [Views -> the views inside it, itself included]
    FarViews,    \* those with a zoom below 7
    CellFilters, \* operator and window
    Tiles,       \* providers whose coverage is a tile layer
    Movistar,    \* the provider whose coverage is images of a rectangle
    Off,         \* the layer is not wanted, or cannot be drawn
    MaxActs      \* bound: changes of view, filter or selection, refreshes

ASSUME MapAssumption ==
    /\ FarViews \subseteq Views
    /\ \A v \in Views : v \in Inside[v] /\ Inside[v] \subseteq Views
    /\ Movistar \notin Tiles /\ Off \notin Tiles \cup {Movistar}
    /\ MaxActs \in Nat

VARIABLES
    chosen,    \* the view, the filter and the selection
    moved,     \* refreshTimer is set
    cells,     \* cellLayer, and the requests for cells
    overlay,   \* the layer of coverage, and its requests
    acts

mapVars == <<chosen, moved, cells, overlay, acts>>

Selections == Tiles \cup {Movistar, Off}

NoLayer == [kind |-> "none"]
TileLayer(provider) == [kind |-> "tiles", provider |-> provider]
Images(view) == [kind |-> "images", view |-> view]

\* Requests are numbered; 0 is none.
NoRequest == [n |-> 0]

\* loadCells: "skipped" is history, a request that was not made because what
\* was shown would do, while another was under way.
LoadCells(force, view, filter) ==
    IF ~force /\ cells.shown.n # 0 /\ view \in Inside[cells.shown.view]
    THEN [cells EXCEPT !.skipped = @ \/ cells.asked # {}]
    ELSE [cells EXCEPT !.asked = @ \cup {[n |-> cells.count + 1, view |-> view, filter |-> filter]},
                       !.count = @ + 1,
                       !.skipped = FALSE]

MapInit ==
    /\ \E v \in Views, f \in CellFilters :
          /\ chosen = [view |-> v, filter |-> f, selection |-> Off]
          /\ cells = [shown |-> NoRequest, asked |-> {[n |-> 1, view |-> v, filter |-> f]},
                      count |-> 1, skipped |-> FALSE]
    /\ moved = FALSE
    /\ overlay = [shown |-> NoLayer, live |-> NoRequest, aborted |-> {}, count |-> 0,
                  excused |-> FALSE]
    /\ acts = 0

----------------------------------------------------------------------------
(* The layer of coverage *)

\* The current request, if any, is aborted; its answer may be on its way.
Aborted == overlay.aborted \cup {r \in {overlay.live} : r # NoRequest}

\* clearCoverageLayer, and then a layer or none.
Replaced(layer) ==
    [overlay EXCEPT !.shown = layer, !.live = NoRequest, !.aborted = Aborted, !.excused = FALSE]

\* A skip: the request under way, if there is one, is left alone.
Kept == [overlay EXCEPT !.excused = @ \/ overlay.live # NoRequest]

\* applyCoverageTileLayer
ApplyTileLayer(provider) ==
    IF overlay.shown = TileLayer(provider) THEN Kept ELSE Replaced(TileLayer(provider))

\* applyCoverageMovistar: what is shown stays until the answer.
ApplyMovistar(force, view) ==
    IF view \in FarViews THEN Replaced(NoLayer)
    ELSE IF ~force /\ overlay.shown = Images(view) THEN Kept
    ELSE [overlay EXCEPT !.live = [n |-> overlay.count + 1, view |-> view],
                         !.count = @ + 1, !.aborted = Aborted, !.excused = FALSE]

\* syncCoverageLayer
SyncCoverage(force, view, selection) ==
    IF selection = Off THEN Replaced(NoLayer)
    ELSE IF selection = Movistar THEN ApplyMovistar(force, view)
    ELSE ApplyTileLayer(selection)

\* Mutant: the controller of an answer is not compared with the current one.
Applies_Any(r) == TRUE

\* coverageAbortController !== requestController
Applies(r) == r = overlay.live

----------------------------------------------------------------------------
(* The visitor, the timers and the answers *)

Act ==
    /\ acts < MaxActs
    /\ acts' = acts + 1

\* moveend: the refresh waits 300 ms, from the last move.
MoveMap ==
    /\ Act
    /\ \E v \in Views \ {chosen.view} : chosen' = [chosen EXCEPT !.view = v]
    /\ moved' = TRUE
    /\ UNCHANGED <<cells, overlay>>

TimerFires ==
    /\ moved
    /\ moved' = FALSE
    /\ cells' = LoadCells(FALSE, chosen.view, chosen.filter)
    /\ overlay' = SyncCoverage(FALSE, chosen.view, chosen.selection)
    /\ UNCHANGED <<chosen, acts>>

\* The operator or the window changes: refresh(true).
ChangeFilter ==
    /\ Act
    /\ \E f \in CellFilters \ {chosen.filter} :
          /\ chosen' = [chosen EXCEPT !.filter = f]
          /\ cells' = LoadCells(TRUE, chosen.view, f)
    /\ UNCHANGED <<moved, overlay>>

\* A refresh of every minute, forced unless the connection is poor, or after a
\* measurement.
Refresh ==
    /\ Act
    /\ \E force \in BOOLEAN : cells' = LoadCells(force, chosen.view, chosen.filter)
    /\ UNCHANGED <<chosen, moved, overlay>>

\* Another provider, another technology, or the switch of the layer.
Select ==
    /\ Act
    /\ \E s \in Selections \ {chosen.selection} :
          /\ chosen' = [chosen EXCEPT !.selection = s]
          /\ overlay' = SyncCoverage(TRUE, chosen.view, s)
    /\ UNCHANGED <<moved, cells>>

CellsAnswer ==
    /\ \E q \in cells.asked : cells' = [cells EXCEPT !.shown = q, !.asked = @ \ {q}]
    /\ UNCHANGED <<chosen, moved, overlay, acts>>

CellsFail ==
    /\ \E q \in cells.asked : cells' = [cells EXCEPT !.asked = @ \ {q}]
    /\ UNCHANGED <<chosen, moved, overlay, acts>>

\* The images replace whatever is shown.
OverlayAnswer ==
    /\ \E r \in Aborted :
          overlay' = IF Applies(r)
                     THEN [overlay EXCEPT !.shown = Images(r.view), !.live = NoRequest,
                                          !.aborted = Aborted \ {r}]
                     ELSE [overlay EXCEPT !.aborted = @ \ {r}]
    /\ UNCHANGED <<chosen, moved, cells, acts>>

\* A warning, and what is shown stays.
OverlayFails ==
    /\ overlay.live # NoRequest
    /\ overlay' = [overlay EXCEPT !.live = NoRequest, !.excused = TRUE]
    /\ UNCHANGED <<chosen, moved, cells, acts>>

MapNext ==
    \/ MoveMap
    \/ TimerFires
    \/ ChangeFilter
    \/ Refresh
    \/ Select
    \/ CellsAnswer
    \/ CellsFail
    \/ OverlayAnswer
    \/ OverlayFails

MapSpec == MapInit /\ [][MapNext]_mapVars

----------------------------------------------------------------------------
(* Properties *)

\* When the answer shown is that of the last request, it has the filter of the
\* page and covers the view.
CellsFollow ==
    ~moved /\ cells.shown.n = cells.count /\ ~cells.skipped =>
        /\ cells.shown.filter = chosen.filter
        /\ chosen.view \in Inside[cells.shown.view]

\* When nothing is under way, the layer is the one selected, for this view.
OverlayFollows ==
    ~moved /\ overlay.live = NoRequest /\ ~overlay.excused =>
        overlay.shown =
            (IF chosen.selection \in Tiles THEN TileLayer(chosen.selection)
             ELSE IF chosen.selection = Movistar /\ chosen.view \notin FarViews
             THEN Images(chosen.view)
             ELSE NoLayer)

\* The map follows the visitor however answers are ordered, with three
\* exceptions that the code makes: the last request failed; an earlier answer
\* for cells came after a later one; or the visitor came back to what was
\* shown while another request was under way, which is then neither repeated
\* nor aborted, and its answer replaces what the visitor came back to.
MapFollowsVisitor == CellsFollow /\ OverlayFollows
=============================================================================
