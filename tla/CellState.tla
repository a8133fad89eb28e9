----------------------------- MODULE CellState -----------------------------
(***************************************************************************)
(* What the map says of a cell: the measurements of the window, as the     *)
(* query of Cells aggregates them, and state.Classify.  The database's     *)
(* percentile_cont(0.5) is the mean of the two middle values of an even    *)
(* number; to stay in the integers the model keeps its double.  Ratios are *)
(* in hundredths.                                                          *)
(***************************************************************************)
EXTENDS Integers, FiniteSets

CONSTANTS
    Measured,        \* what pages send: records rtt, jitter, ratio, ok, failed
    CellWindow,      \* a window of the map: 15 minutes to 24 hours
    MaxSamples,      \* bound: measurements in the cell
    MaxTime,         \* bound: last instant
    MinSamples, HighConfidenceMinSamples, ProbableAffectMinSamples,
    JitterElevated, DegradedMinRTT, DegradedMaxSuccess

ASSUME CellAssumption ==
    /\ \A m \in Measured : {m.rtt, m.jitter, m.ok, m.failed} \subseteq Nat /\ m.ratio \in 0..100
    /\ CellWindow \in Nat
    /\ {MinSamples, ProbableAffectMinSamples} \subseteq Nat
    /\ {JitterElevated, DegradedMinRTT, HighConfidenceMinSamples, DegradedMaxSuccess} \subseteq Nat
    \* With the defaults, 0.8 and 5: one failure in five is not below 0.8, and
    \* no median of five values is the word of one.
    /\ ProbableAffectMinSamples >= 3
    /\ DegradedMaxSuccess * ProbableAffectMinSamples <= 100 * (ProbableAffectMinSamples - 1)

VARIABLES
    cell,      \* rows of one h3_cell: how many of each kind and time
    sites,     \* SitesByCell: official antennas in the cell
    cellClock, \* now
    shown      \* the last answer about the cell

cellVars == <<cell, sites, cellClock, shown>>

NotShown == [count |-> 0, state |-> "SIN_DATOS", confidence |-> "", at |-> 0]

CellInit ==
    /\ cell = [k \in {} |-> 0]
    /\ sites = 0
    /\ cellClock = 0
    /\ shown = NotShown

----------------------------------------------------------------------------
(* A measurement *)

\* SuccessRatio; with nothing sent it is 0.
SuccessRatio(ok, failed) == IF ok + failed = 0 THEN 0 ELSE (100 * ok) \div (ok + failed)

\* ValidatePayload: a page that sends no ratio gets one from its counts.
StoredRatio(m) == IF m.ratio = 0 THEN SuccessRatio(m.ok, m.failed) ELSE m.ratio

Row(m, t) == [rtt |-> m.rtt, jitter |-> m.jitter, success |-> StoredRatio(m), at |-> t]

\* The measurements of some rows, one by one.
Copies(rows) == UNION {{r} \X (1..cell[r]) : r \in rows}

NumberOf(rows) == Cardinality(Copies(rows))

\* A measurement is stored, now or from a queue that kept it.
Measure ==
    /\ NumberOf(DOMAIN cell) < MaxSamples
    /\ \E m \in Measured, t \in 0..cellClock :
          cell' = [r \in DOMAIN cell \cup {Row(m, t)} |->
                    IF r \notin DOMAIN cell THEN 1
                    ELSE IF r = Row(m, t) THEN cell[r] + 1 ELSE cell[r]]
    /\ UNCHANGED <<sites, cellClock, shown>>

\* An import brings the antennas of the cell.
BringSites ==
    /\ sites = 0
    /\ sites' = 1
    /\ UNCHANGED <<cell, cellClock, shown>>

CellTick ==
    /\ cellClock < MaxTime
    /\ cellClock' = cellClock + 1
    /\ UNCHANGED <<cell, sites, shown>>

----------------------------------------------------------------------------
(* Aggregation *)

InWindow == {r \in DOMAIN cell : r.at >= cellClock - CellWindow}

\* The k-th smallest value of a column among rows.
Nth(rows, column, k) ==
    CHOOSE v \in {r[column] : r \in rows} :
        /\ NumberOf({r \in rows : r[column] < v}) < k
        /\ NumberOf({r \in rows : r[column] <= v}) >= k

\* Twice percentile_cont(0.5).
TwiceMedian(rows, column) ==
    LET n == NumberOf(rows)
    IN  Nth(rows, column, (n + 1) \div 2) + Nth(rows, column, n \div 2 + 1)

\* The sum of the successes, n times avg(success_ratio): each measurement
\* counts once for each hundredth.
Hundredths(rows) == UNION {{c} \X (1..c[1].success) : c \in Copies(rows)}

SuccessSum(rows) == Cardinality(Hundredths(rows))

----------------------------------------------------------------------------
(* Classification *)

\* Mutant: a ratio that equals the threshold is low.
Degraded_AtThreshold(rows) ==
    \/ SuccessSum(rows) <= DegradedMaxSuccess * NumberOf(rows)
    \/ TwiceMedian(rows, "rtt") > 2 * DegradedMinRTT
    \/ TwiceMedian(rows, "jitter") > 2 * JitterElevated

Degraded(rows) ==
    \/ SuccessSum(rows) < DegradedMaxSuccess * NumberOf(rows)
    \/ TwiceMedian(rows, "rtt") > 2 * DegradedMinRTT
    \/ TwiceMedian(rows, "jitter") > 2 * JitterElevated

Confidence(n) ==
    IF n >= HighConfidenceMinSamples THEN "ALTA"
    ELSE IF n >= MinSamples THEN "MEDIA" ELSE "BAJA"

Classify(rows, expected) ==
    LET n == NumberOf(rows)
    IN  IF n = 0 \/ n < MinSamples THEN "SIN_DATOS"
        ELSE IF ~Degraded(rows) THEN "OPERATIVO"
        ELSE IF expected /\ n >= ProbableAffectMinSamples THEN "AFECTACION_PROBABLE"
        ELSE "DEGRADADO"

\* handleCells, of one cell; a cell without rows is not in the answer.
ShowCell ==
    LET rows == InWindow IN
    /\ rows # {}
    /\ shown' = [count |-> NumberOf(rows), state |-> Classify(rows, sites > 0),
                 confidence |-> Confidence(NumberOf(rows)), at |-> cellClock]
    /\ UNCHANGED <<cell, sites, cellClock>>

CellNext == Measure \/ BringSites \/ CellTick \/ ShowCell

CellSpec == CellInit /\ [][CellNext]_cellVars

----------------------------------------------------------------------------
(* Properties *)

Good(r) ==
    /\ r.success = 100
    /\ r.rtt <= DegradedMinRTT
    /\ r.jitter <= JitterElevated

\* No zone is declared probably affected on the word of one measurement: when
\* handleCells says so, at least two measurements of its window were not good,
\* whatever their number and however bad the one is (an outlier moves a median
\* little and a mean a lot).
OneMeasurementCannotCondemn ==
    [][ shown' # shown /\ shown'.state = "AFECTACION_PROBABLE" =>
            NumberOf({r \in InWindow : ~Good(r)}) >= 2 ]_cellVars
=============================================================================
