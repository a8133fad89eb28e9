--------------------------- MODULE CoverageQueries ---------------------------
(***************************************************************************)
(* GET /coverage and GET /coverage/overlays: the official coverage by      *)
(* town, and the images of Movistar's map, each behind the response cache  *)
(* for an hour, under a key that forgets the case of the letters.          *)
(*                                                                         *)
(* Lower maps a text to its lower case.  A town's filter is compared by    *)
(* the database without regard to case; a technology is compared as it is  *)
(* written, and so is the operator in the switch that follows the query.   *)
(* A filter of the town is any piece of its name; here the whole name.     *)
(* A row is known by its place in the order of the query, and a list of    *)
(* rows is the set of their places.                                        *)
(* An area is the set of the tiles it touches.  The cache itself is module *)
(* ResponseCache: here an entry only appears and is forgotten, and the     *)
(* tables do not change.                                                   *)
(***************************************************************************)
EXTENDS Integers, FiniteSets

CONSTANTS
    Lower,          \* [texts -> texts]
    CoverageRows,   \* [places -> rows of official_coverage], by municipality and technology
    TownFilters, OperatorFilters, TechFilters,  \* what requests ask for
    CoverageLimit,  \* 5000
    ProviderTechs,  \* [providers of the data directory -> their technologies]
    Overlays,       \* [Movistar's technologies -> images, as areas]
    OverlayAsks,    \* requests: provider, technology and area
    MaxGets         \* bound: requests answered

ASSUME CoverageAssumption ==
    /\ "" \in TownFilters \cap OperatorFilters \cap TechFilters
    /\ TownFilters \cup OperatorFilters \cup TechFilters \subseteq DOMAIN Lower
    /\ \A text \in DOMAIN Lower : Lower[text] = "" <=> text = ""
    /\ IsFiniteSet(DOMAIN CoverageRows) /\ DOMAIN CoverageRows \subseteq Nat
    /\ CoverageLimit \in Nat
    /\ \A ask \in OverlayAsks : "area" \in DOMAIN ask
    /\ DOMAIN Overlays \subseteq ProviderTechs["movistar"]

\* The operators of the switch.
KnownOperators == {"claro", "movistar", "tigo", "wom"}

VARIABLES
    official,   \* official_coverage: [places -> rows]
    catalog,    \* the providers LoadCatalog could read
    entries,    \* responseCache: key -> answer, and the request that filled it
    reply,      \* the last request and its answer
    gets        \* requests answered

coverageVars == <<official, catalog, entries, reply, gets>>

NoReply == [asked |-> FALSE]

\* The rows an import may have left.
Tables == {[i \in S |-> CoverageRows[i]] : S \in SUBSET DOMAIN CoverageRows}

\* A provider with a file that is missing or broken is left out, and the
\* others are served.
LoadCatalog == SUBSET DOMAIN ProviderTechs

\* The process starts on what was imported.
CoverageInit ==
    /\ official \in Tables
    /\ catalog \in LoadCatalog
    /\ entries = [k \in {} |-> 0]
    /\ reply = NoReply
    /\ gets = 0

----------------------------------------------------------------------------
(* PGStore.Coverage *)

\* What the database returns before its LIMIT: any operator will do.
Selected(q) ==
    {i \in DOMAIN official :
        /\ q.town # "" => Lower[official[i].town] = Lower[q.town]
        /\ q.operator # "" => official[i].covered # {}
        /\ q.tech # "" => official[i].tech = q.tech}

FirstRows(rows) == {i \in rows : Cardinality({k \in rows : k < i}) < CoverageLimit}

\* The switch after the query: another text lets every row pass.
Coverage(q) ==
    {i \in FirstRows(Selected(q)) :
        q.operator \in KnownOperators => q.operator \in official[i].covered}

----------------------------------------------------------------------------
(* Catalog *)

ProviderByID(id) == {p \in catalog : Lower[p] = Lower[id]}

TechnologyByID(p, id) == {t \in ProviderTechs[p] : Lower[t] = Lower[id]}

\* MovistarOverlays looks into Movistar's index, whosever technology it is.
MovistarOverlays(tech, area) ==
    IF "movistar" \notin catalog THEN {}
    ELSE {o \in UNION {Overlays[t] : t \in {t \in DOMAIN Overlays : Lower[t] = Lower[tech]}} :
            o \cap area # {}}

----------------------------------------------------------------------------
(* The handlers *)

\* Mutant: the technology is left out of the key.
CoverageKey_NoTech(q) == <<"coverage", Lower[q.town], Lower[q.operator]>>

CoverageKey(q) == <<"coverage", Lower[q.town], Lower[q.operator], Lower[q.tech]>>

OverlayKey(p, t, area) == <<"coverage-overlays", Lower[p], Lower[t], area>>

\* serveCachedJSON: the entry if there is one, else the answer, which is kept.
Answer(key, q, computed) ==
    LET entry == IF key \in DOMAIN entries THEN entries[key]
                 ELSE [rows |-> computed, filler |-> q]
    IN  /\ gets < MaxGets
        /\ gets' = gets + 1
        /\ entries' = [k \in DOMAIN entries \cup {key} |->
                         IF k = key THEN entry ELSE entries[k]]
        /\ reply' = [asked |-> TRUE, query |-> q, rows |-> entry.rows, filler |-> entry.filler]
        /\ UNCHANGED <<official, catalog>>

HandleCoverage ==
    \E q \in [town : TownFilters, operator : OperatorFilters, tech : TechFilters] :
        Answer(CoverageKey(q), q, Coverage(q))

\* An unknown provider or technology is a 404, and nothing is kept.
HandleOverlays ==
    \E q \in OverlayAsks :
        \E p \in ProviderByID(q.provider) : \E t \in TechnologyByID(p, q.tech) :
            Answer(OverlayKey(p, t, q.area), q, MovistarOverlays(t, q.area))

\* An hour passes, or the cache is full.
ForgetEntry ==
    /\ \E key \in DOMAIN entries :
          entries' = [k \in DOMAIN entries \ {key} |-> entries[k]]
    /\ UNCHANGED <<official, catalog, reply, gets>>

CoverageNext == HandleCoverage \/ HandleOverlays \/ ForgetEntry

CoverageSpec == CoverageInit /\ [][CoverageNext]_coverageVars

----------------------------------------------------------------------------
(* Properties *)

\* What a request means, letter case aside; an operator the table has no
\* column for asks for the rows that any operator covers.
Meant(q) ==
    {i \in DOMAIN official :
        /\ q.town # "" => Lower[official[i].town] = Lower[q.town]
        /\ q.operator # "" =>
              (IF Lower[q.operator] \in KnownOperators
               THEN Lower[q.operator] \in official[i].covered
               ELSE official[i].covered # {})
        /\ q.tech # "" => Lower[official[i].tech] = Lower[q.tech]}

\* Written as the code compares it: the operator's token, the table's own way
\* of writing the technology, where it has one.
Canonical(q) ==
    /\ q.operator = Lower[q.operator]
    /\ \A i \in DOMAIN official :
          Lower[official[i].tech] = Lower[q.tech] => official[i].tech = q.tech

\* A request for the official coverage gets the rows it means, with two
\* exceptions that the code makes: the entry of its key was filled by a
\* request whose operator or technology was written otherwise (the key forgets
\* the case, the query does not), or the database cut its list before the
\* operator was compared.  Even then no row is of another town, and a request
\* for images gets those of Movistar's technology of that name that touch its
\* area, none of another.
CoverageAnswersRequest ==
    reply.asked =>
        IF "area" \in DOMAIN reply.query
        THEN reply.rows = MovistarOverlays(reply.query.tech, reply.query.area)
        ELSE /\ Canonical(reply.filler)
                /\ Cardinality(Selected(reply.filler)) <= CoverageLimit
                    => reply.rows = Meant(reply.query)
             /\ reply.query.town # "" =>
                    \A i \in reply.rows :
                        Lower[official[i].town] = Lower[reply.query.town]
=============================================================================
