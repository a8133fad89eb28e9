------------------------------ MODULE MCServer ------------------------------
(***************************************************************************)
(* The components of the server, and the map page, that share no state     *)
(* with each other, in one run: a behaviour chooses one of them and the    *)
(* others stand still.                                                     *)
(***************************************************************************)
EXTENDS RequestGate, OperatorLookup, Observations, CellState, SismoProxy,
        CoverageQueries, ResourceCounts, Stores, MapPage

CONSTANTS v1, v2, s1, d1, d2, b1, b2, b3

VARIABLE part

\* RequestGate: two devices behind one address, one of them with a session,
\* and a visitor of another address.
MCLimit == [r \in Routes |-> 2]
MCAddress == [b \in Browsers |-> IF b = b3 THEN v2 ELSE v1]
MCCookie == [b \in Browsers |-> IF b = b1 THEN s1 ELSE NoSid]
MCFingerprint ==
    [b \in Browsers |-> IF b = b1 THEN d1 ELSE IF b = b2 THEN d2 ELSE NoDevice]

\* OperatorLookup: names with one word, with two, with none, and a vague one.
MCNames == {{"comcel"}, {"colombia movil", "une"}, {"att"}, {"algo raro"}}

\* Observations: of now, of before with an operator, too old, of the future.
MCPayloads ==
    {[t |-> t, op |-> IF t = 2 THEN {"tigo"} ELSE {}, call |-> ""] : t \in {0, 2, 1, 4}}
MCAnswers == {{}, {"tigo"}, {"claro"}}
MCFilters == {[operator |-> op, text |-> Unset] : op \in {Unset, "desconocido"}}

\* CellState: a good measurement, one that failed, one with much jitter.
MCMeasured ==
    {[rtt |-> 1, jitter |-> 0, ratio |-> 100, ok |-> 5, failed |-> 0],
     [rtt |-> 9, jitter |-> 1, ratio |-> 0, ok |-> 0, failed |-> 5],
     [rtt |-> 2, jitter |-> 9, ratio |-> 0, ok |-> 4, failed |-> 1]}

\* SismoProxy: two radii that print alike, and a request of other days.
MCKey == [q \in Queries |-> IF q = "30 days" THEN "k2" ELSE "k1"]
MCReach == [q \in Queries |-> IF q = "90.4 km" THEN {"near", "mid"} ELSE {"near"}]

\* CoverageQueries
Texts == {"", "Cali", "CALI", "claro", "CLARO", "etb", "4G", "4g", "3G", "movistar",
          "umts", "UMTS", "LTE"}
MCLower ==
    [t \in Texts \cup {"cali", "3g", "lte"} |->
        CASE t \in {"Cali", "CALI"} -> "cali"
          [] t = "CLARO" -> "claro"
          [] t = "4G" -> "4g"
          [] t = "3G" -> "3g"
          [] t = "UMTS" -> "umts"
          [] t = "LTE" -> "lte"
          [] OTHER -> t]
MCCoverageRows ==
    << [town |-> "Cali", tech |-> "3G", covered |-> {"movistar"}],
       [town |-> "Cali", tech |-> "4G", covered |-> {"claro"}] >>
MCTechs ==
    [p \in {"movistar", "claro"} |-> IF p = "movistar" THEN {"UMTS"} ELSE {"UMTS", "LTE"}]
MCOverlays == [t \in {"UMTS"} |-> {{1}, {1, 2}}]
MCOverlayAsks ==
    [provider : {"movistar", "CLARO"}, tech : {"umts"}, area : {{1}, {2}}]

\* MapPage: two views within sight of the cells and one that holds "near".
MCInside == [v \in Views |-> IF v = "wide" THEN {"wide", "near"} ELSE {v}]

Parts == {"gate", "lookup", "observations", "cell", "proxy", "coverage", "counts", "stores",
          "map"}

Init ==
    /\ part \in Parts
    /\ GateInit
    /\ LookupInit
    /\ ObservationInit
    /\ CellInit
    /\ ProxyInit
    /\ CoverageInit
    /\ part # "coverage" => official = <<>> /\ catalog = {}
    /\ CountsInit
    /\ StoresInit
    /\ MapInit
    /\ part # "map" => chosen = [view |-> "near", filter |-> "claro", selection |-> Off]

Next ==
    \/ /\ part = "gate"
       /\ GateNext
       /\ UNCHANGED <<part, lookupVars, observationVars, cellVars, proxyVars, coverageVars,
                      countVars, storeVars, mapVars>>
    \/ /\ part = "lookup"
       /\ LookupNext
       /\ UNCHANGED <<part, gateVars, observationVars, cellVars, proxyVars, coverageVars,
                      countVars, storeVars, mapVars>>
    \/ /\ part = "observations"
       /\ ObservationNext
       /\ UNCHANGED <<part, gateVars, lookupVars, cellVars, proxyVars, coverageVars,
                      countVars, storeVars, mapVars>>
    \/ /\ part = "cell"
       /\ CellNext
       /\ UNCHANGED <<part, gateVars, lookupVars, observationVars, proxyVars, coverageVars,
                      countVars, storeVars, mapVars>>
    \/ /\ part = "proxy"
       /\ ProxyNext
       /\ UNCHANGED <<part, gateVars, lookupVars, observationVars, cellVars, coverageVars,
                      countVars, storeVars, mapVars>>
    \/ /\ part = "coverage"
       /\ CoverageNext
       /\ UNCHANGED <<part, gateVars, lookupVars, observationVars, cellVars, proxyVars,
                      countVars, storeVars, mapVars>>
    \/ /\ part = "counts"
       /\ CountsNext
       /\ UNCHANGED <<part, gateVars, lookupVars, observationVars, cellVars, proxyVars,
                      coverageVars, storeVars, mapVars>>
    \/ /\ part = "stores"
       /\ StoresNext
       /\ UNCHANGED <<part, gateVars, lookupVars, observationVars, cellVars, proxyVars,
                      coverageVars, countVars, mapVars>>
    \/ /\ part = "map"
       /\ MapNext
       /\ UNCHANGED <<part, gateVars, lookupVars, observationVars, cellVars, proxyVars,
                      coverageVars, countVars, storeVars>>

serverVars ==
    <<part, gateVars, lookupVars, observationVars, cellVars, proxyVars,
      coverageVars, countVars, storeVars, mapVars>>

Spec == Init /\ [][Next]_serverVars

\* Goroutines are interchangeable.
Symmetry == Permutations(Handlers)
=============================================================================
