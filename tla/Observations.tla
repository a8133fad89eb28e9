---------------------------- MODULE Observations ----------------------------
(***************************************************************************)
(* The table of measurements: how handleObserve, handleSync and            *)
(* handleUpdate write it, what the panel of the administration reads of it *)
(* page by page (admin.js, handleAdminObservations, ObservationHistory),   *)
(* and how a visitor's answers reach a row that exists already.            *)
(*                                                                         *)
(* A measurement is abstracted to its time, its operator, as the network   *)
(* and the visitor tell it, and the answer about calls.  Time stands       *)
(* still: it bounds what ValidatePayload accepts and nothing else here.    *)
(***************************************************************************)
EXTENDS Operators, Integers, FiniteSets

CONSTANTS
    Now,          \* the server's clock while the panel is in use
    MaxAge,       \* 30 days
    FutureSlack,  \* 5 minutes
    Payloads,     \* what pages send: records with the fields t, op and call
    Networks,     \* what the address lookup may say of a visitor
    Answers,      \* operator names visitors give later; {} is an empty text
    CallAnswers,  \* answers about calls: "yes", "no", "unknown"
    Filters,      \* the panel's filters in use
    PageLimit,    \* rows of a page
    MaxSyncItems, \* cfg.MaxSyncItems
    MaxMeasured,  \* bound: measurements stored
    MaxWrites     \* bound: measurements stored and answers received later

ASSUME ObservationAssumption ==
    /\ Now \in Nat /\ MaxAge \in Nat /\ FutureSlack \in Nat
    /\ MaxAge < Now
    /\ PageLimit \in Nat \ {0}
    /\ MaxSyncItems \in Nat
    /\ \A p \in Payloads : p.t \in Int

\* An absent field, or an empty one.
Unset == ""

VARIABLES
    table,    \* observations: a sequence, the id of a row is its index
    updates,  \* answers received after the measurement
    scan      \* the panel's history tab: what it shows and what it has shown

observationVars == <<table, updates, scan>>

NoScan == [pc |-> "closed"]

ObservationInit ==
    /\ table = <<>>
    /\ updates = <<>>
    /\ scan = NoScan

----------------------------------------------------------------------------
(* Payload and row *)

\* A page that sends no time gets the server's.
ObservedAt(p) == IF p.t = 0 THEN Now ELSE p.t

\* ValidatePayload, of which the limits of the numeric fields are left out.
Acceptable(p) ==
    /\ ObservedAt(p) <= Now + FutureSlack
    /\ Now - ObservedAt(p) <= MaxAge

\* A name that says nothing is no answer.
UserOperator ==
    [name \in {p.op : p \in Payloads} \cup Answers |->
        LET op == NormalizeOperator(name) IN IF op = OpDesconocido THEN Unset ELSE op]

\* Mutant: the visitor's word is kept only when the network says nothing.
StoredOperator_NetworkFirst(network, user) ==
    IF network \notin {Unset, OpDesconocido} THEN network
    ELSE IF user # Unset THEN user ELSE OpDesconocido

\* buildObservation: Unset is an address no table knows.
StoredOperator(network, user) ==
    IF user # Unset THEN user
    ELSE IF network = Unset THEN OpDesconocido ELSE network

\* "network" and "given" are history: what the row was built from.
BuildObservation(p, network) ==
    [at |-> ObservedAt(p), operator |-> StoredOperator(network, UserOperator[p.op]),
     user |-> UserOperator[p.op], call |-> p.call,
     network |-> network, given |-> UserOperator[p.op]]

----------------------------------------------------------------------------
(* The panel's filter and a page of its answer *)

\* The operator column is compared whole, the text with every text column.
Matches(f, row) ==
    /\ f.operator # Unset => row.operator = f.operator
    /\ f.text # Unset => f.text \in {row.operator, row.user, row.call}

Matching(f, rows) == {id \in DOMAIN rows : Matches(f, rows[id])}

\* ORDER BY observed_at DESC, id DESC
Before(rows, a, b) == rows[a].at > rows[b].at \/ (rows[a].at = rows[b].at /\ a > b)

\* LIMIT and OFFSET: the rows that have at least offset others before them,
\* and fewer than offset + PageLimit.
PageAt(f, rows, offset) ==
    {id \in Matching(f, rows) :
        Cardinality({x \in Matching(f, rows) : Before(rows, x, id)})
            \in offset..(offset + PageLimit - 1)}

\* Mutant: the total counts the rows of the page.
TotalAt_OfPage(f, rows, offset) == Cardinality(PageAt(f, rows, offset))

\* count(*) OVER() comes with the rows: a page without rows has total 0.
TotalAt(f, rows, offset) ==
    IF PageAt(f, rows, offset) = {} THEN 0 ELSE Cardinality(Matching(f, rows))

----------------------------------------------------------------------------
(* Writers *)

\* What a write means to the scan: the rows that have matched ever since it
\* began, and whether one has left the filter.
Watched(rows) ==
    IF scan.pc = "closed" THEN scan
    ELSE [scan EXCEPT !.kept = @ \cap Matching(scan.filter, rows),
                      !.left = @ \/ ~(Matching(scan.filter, table)
                                        \subseteq Matching(scan.filter, rows))]

Insert(rows) ==
    /\ Len(table) + Len(rows) <= MaxMeasured
    /\ Len(table) + Len(rows) + Len(updates) <= MaxWrites
    /\ table' = table \o rows
    /\ scan' = Watched(table \o rows)
    /\ UNCHANGED updates

\* handleObserve: one measurement, or a 400 that leaves nothing.
Observe ==
    \E p \in Payloads, n \in Networks :
        /\ Acceptable(p)
        /\ Insert(<<BuildObservation(p, n)>>)

\* handleSync: what cannot be accepted is skipped, the rest goes in one batch
\* and, as pgx sends it, in one transaction.
Accepted(p) == IF Acceptable(p) THEN <<p>> ELSE <<>>

Sync ==
    \E p, q \in Payloads, n \in Networks :
        LET good == Accepted(p) \o Accepted(q)
        IN  /\ Len(<<p, q>>) <= MaxSyncItems
            /\ good # <<>>
            /\ Insert([i \in DOMAIN good |-> BuildObservation(good[i], n)])

\* Mutant: a later answer replaces what the network said.
UpdatedOperator_Always(row, user) == IF user = Unset THEN row.operator ELSE user

\* The CASE of UpdateObservation: a late answer fills a gap, nothing more.
UpdatedOperator(row, user) ==
    IF user # Unset /\ row.operator = OpDesconocido THEN user ELSE row.operator

\* handleUpdate and UpdateObservation: each field changes only if it is given.
Update ==
    \E id \in DOMAIN table, name \in Answers, c \in CallAnswers \cup {Unset} :
        LET user == UserOperator[name]
            row == table[id]
            new == [row EXCEPT !.call = IF c = Unset THEN @ ELSE c,
                               !.user = IF user = Unset THEN @ ELSE user,
                               !.operator = UpdatedOperator(row, user)]
        IN  /\ Len(table) + Len(updates) < MaxWrites
            /\ updates' = Append(updates, [id |-> id, user |-> user, call |-> c])
            /\ table' = [table EXCEPT ![id] = new]
            /\ scan' = Watched([table EXCEPT ![id] = new])

----------------------------------------------------------------------------
(* The panel *)

\* queueObservationFilter, or the tab opens: the first page is asked for.
StartScan ==
    /\ scan.pc \in {"closed", "shown"}
    /\ \E f \in Filters :
          scan' = [pc |-> "asked", filter |-> f, offset |-> 0, total |-> 0, seen |-> {},
                   kept |-> Matching(f, table), left |-> FALSE]
    /\ UNCHANGED <<table, updates>>

\* The query runs, and loadObservations shows its answer.
ShowPage ==
    /\ scan.pc = "asked"
    /\ scan' = [scan EXCEPT !.pc = "shown",
                            !.total = TotalAt(scan.filter, table, scan.offset),
                            !.seen = @ \cup PageAt(scan.filter, table, scan.offset)]
    /\ UNCHANGED <<table, updates>>

LastPage == scan.offset + PageLimit >= scan.total

\* The "next" button, which is disabled on the last page.
NextPage ==
    /\ scan.pc = "shown"
    /\ ~LastPage
    /\ scan' = [scan EXCEPT !.pc = "asked", !.offset = @ + PageLimit]
    /\ UNCHANGED <<table, updates>>

ObservationNext ==
    \/ Observe
    \/ Sync
    \/ Update
    \/ StartScan
    \/ ShowPage
    \/ NextPage

ObservationSpec == ObservationInit /\ [][ObservationNext]_observationVars

----------------------------------------------------------------------------
(* Properties *)

\* Whoever pages to the end has seen every measurement that matched all along,
\* however many arrive meanwhile and however old they are (a synchronised
\* queue brings measurements of past days): new rows only push others to later
\* pages.  Only a row that stops matching, because a late answer changed it,
\* pulls others back over a page boundary.
ScanComplete ==
    scan.pc = "shown" /\ LastPage => scan.left \/ scan.kept \subseteq scan.seen

\* The answers that named the operator of a row, by their places in the order
\* in which they came.
Named(id) == {j \in DOMAIN updates : updates[j].id = id /\ updates[j].user # Unset}

\* Every stored operator can be accounted for: the visitor's word if it came
\* with the measurement, else the network's, else the first word that came
\* later, whatever partial updates arrived since and in whatever order; and
\* what the visitor says is the last word he gave, whatever else he answered.
\* The first case is what the code does (server.go:429-431), and not what its
\* words say: a word that comes with the measurement overrules the network even
\* when the network is known, while validate.go:26 calls it "solo corroboracion",
\* validate.go:74-75 says that the operator is never taken from the client, and
\* README.md:160-161 and CHECKLIST.md:83 that it corrects doubtful assignments.
\* Only of the words that come later (UpdateObservation) is that true.  No page of
\* web/ sends a word with the measurement; other clients may.
OperatorIsExplained ==
    \A id \in DOMAIN table :
        LET row == table[id]
            known == row.network \notin {Unset, OpDesconocido}
            named == Named(id)
        IN  /\ row.user = IF named = {} THEN row.given ELSE updates[Max(named)].user
            /\ row.operator = IF row.given # Unset THEN row.given
                              ELSE IF known THEN row.network
                              ELSE IF named # {} THEN updates[Min(named)].user
                              ELSE OpDesconocido
=============================================================================
