--------------------------- MODULE ResourceCounts ---------------------------
(***************************************************************************)
(* What the map shows of the resources as a whole: their list              *)
(* (handleResources: at most 500 rows of any status, of which the approved *)
(* are kept) and their counts (handleResourceCounts: one query for the     *)
(* approved and the pending, another for the approved of each kind), while *)
(* reports arrive and are moderated.  No row is ever deleted.  The bounds  *)
(* of the view and the response cache are left out.                        *)
(***************************************************************************)
EXTENDS Integers, Sequences, FiniteSets

CONSTANTS
    ResourceKinds,
    ListLimit,    \* 500
    MaxReports,   \* bound: resources
    MaxModerated  \* bound: changes of a status

ASSUME CountsAssumption ==
    /\ IsFiniteSet(ResourceKinds)
    /\ {ListLimit, MaxReports, MaxModerated} \subseteq Nat

VARIABLES
    reported,  \* resources, oldest first: kind and status
    moderated, \* changes of a status so far
    counting,  \* a request for the counts: its first query, its answer
    listing,   \* the last list
    since      \* history: writes since the first query of the counts

countVars == <<reported, moderated, counting, listing, since>>

NotCounting == [pc |-> "none"]

NotListed == [ids |-> {}, known |-> FALSE]

CountsInit ==
    /\ reported = <<>>
    /\ moderated = 0
    /\ counting = NotCounting
    /\ listing = NotListed
    /\ since = 0

HasStatus(status) == {i \in DOMAIN reported : reported[i].status = status}

OfKind(kind) == {i \in HasStatus("approved") : reported[i].kind = kind}

\* A write: of a report, of an edit that sends it back, of a moderation.
Written(rows) ==
    /\ reported' = rows
    /\ since' = since + 1
    /\ listing' = NotListed
    /\ UNCHANGED counting

ReportArrives ==
    /\ Len(reported) < MaxReports
    /\ \E kind \in ResourceKinds :
          Written(Append(reported, [kind |-> kind, status |-> "pending"]))
    /\ UNCHANGED moderated

Moderate ==
    /\ moderated < MaxModerated
    /\ moderated' = moderated + 1
    /\ \E i \in DOMAIN reported, status \in {"approved", "rejected", "pending"} :
          /\ reported[i].status # status
          /\ Written([reported EXCEPT ![i].status = status])

\* ResourceCounts, its first query.
CountStatuses ==
    /\ counting.pc # "counted"
    /\ counting' = [pc |-> "counted", approved |-> Cardinality(HasStatus("approved")),
                    pending |-> Cardinality(HasStatus("pending"))]
    /\ since' = 0
    /\ UNCHANGED <<reported, moderated, listing>>

\* Mutant: the second query counts the resources of any status.
ByKind_AnyStatus ==
    [kind \in ResourceKinds |-> Cardinality({i \in DOMAIN reported : reported[i].kind = kind})]

ByKind == [kind \in ResourceKinds |-> Cardinality(OfKind(kind))]

\* Its second query; only the administration is told what is pending.
CountKinds ==
    /\ counting.pc = "counted"
    /\ \E isAdmin \in BOOLEAN :
          counting' = [pc |-> "done", approved |-> counting.approved,
                       pending |-> IF isAdmin THEN counting.pending ELSE 0, byKind |-> ByKind]
    /\ UNCHANGED <<reported, moderated, listing, since>>

\* ORDER BY reported_at DESC LIMIT 500, and then the filter of the handler.
ListResources ==
    /\ listing' = [ids |-> {i \in HasStatus("approved") : i > Len(reported) - ListLimit},
                   known |-> TRUE]
    /\ UNCHANGED <<reported, moderated, counting, since>>

CountsNext ==
    \/ ReportArrives
    \/ Moderate
    \/ CountStatuses
    \/ CountKinds
    \/ ListResources

CountsSpec == CountsInit /\ [][CountsNext]_countVars

----------------------------------------------------------------------------
(* Properties *)

\* The sum over the kinds: one pair for each resource counted.
Counted(byKind) == UNION {{kind} \X (1..byKind[kind]) : kind \in DOMAIN byKind}

Total(byKind) == Cardinality(Counted(byKind))

AtMost(n, a, b) == a - b <= n /\ b - a <= n

\* The two queries are two instants: the kinds add up to the approved, give or
\* take one for each write since the first.  And the list holds every approved
\* resource that the counts of the same instant promise, until the table has
\* more rows than the query's limit: then pending and rejected reports push
\* approved ones out of it, one each at most.
CountsAddUp ==
    counting.pc = "done" =>
        /\ AtMost(since, Total(counting.byKind), counting.approved)
        /\ listing.known =>
              AtMost(since + (IF Len(reported) > ListLimit THEN Len(reported) - ListLimit ELSE 0),
                     Cardinality(listing.ids), counting.approved)
=============================================================================
