--------------------------- MODULE OperatorLookup ---------------------------
(***************************************************************************)
(* From an address to an operator: the table of address ranges that        *)
(* asn.NewCSVResolver loads and CSVResolver.Lookup searches, and the table *)
(* of operators that observe.LoadOperatorMappingsCSV loads.  Both files    *)
(* are read once, at start; what a row cannot mean is skipped.             *)
(*                                                                         *)
(* Addresses are the numbers of Width bits.  The search is modelled by     *)
(* what sort.Search returns: the first range that starts after the         *)
(* address.                                                                *)
(***************************************************************************)
EXTENDS Operators, Integers, FiniteSets

CONSTANTS
    Width,       \* bits of an address: 32, or 128
    Asns,        \* autonomous systems
    MappedAsns,  \* those some row of the mapping file is about
    NoNumber,    \* a field that does not parse
    Names,       \* operator names of the mapping file
    MaxRows,     \* bound: rows of the address file
    MaxMappings  \* bound: rows of the mapping file

ASSUME LookupAssumption ==
    /\ Width \in Nat
    /\ MappedAsns \subseteq Asns
    /\ NoNumber \notin Int

VARIABLES
    rows,     \* history: the rows of the address file that denote a range
    ranges,   \* CSVResolver.ranges
    mapRows,  \* history: the rows of the mapping file that were read
    mappings, \* OperatorResolver.mappings: asn -> operator
    lookup    \* where the process is, and the last address looked up

lookupVars == <<rows, ranges, mapRows, mappings, lookup>>

Addr == 0..(2^Width - 1)

NoMappings == [a \in {} |-> OpDesconocido]

LookupInit ==
    /\ rows = <<>>
    /\ ranges = <<>>
    /\ mapRows = <<>>
    /\ mappings = NoMappings
    /\ lookup = [pc |-> "addresses"]

----------------------------------------------------------------------------
(* The address file *)

\* The last address of a network of the given number of bits.
LastAddr(addr, bits) ==
    LET size == 2^(Width - bits) IN (addr \div size) * size + size - 1

\* A row of a start_ip,end_ip,... file, or of a GeoLite2 one.
RangeRow(first, last, asn) == [start |-> first, end |-> last, asn |-> asn]

NetworkRow(addr, bits, asn) == RangeRow(addr, LastAddr(addr, bits), asn)

FileRows ==
    {RangeRow(a, b, n) : a \in Addr \cup {NoNumber}, b \in Addr \cup {NoNumber}, n \in Asns}
    \cup {NetworkRow(a, k, n) : a \in Addr, k \in 0..Width, n \in Asns}

\* Both ends parse as addresses, and in order.
Valid(row) == row.start \in Addr /\ row.end \in Addr /\ row.start <= row.end

\* NewCSVResolver reads a row that denotes a range; the others change nothing.
LoadAddressRow ==
    /\ lookup.pc = "addresses"
    /\ Len(rows) < MaxRows
    /\ \E row \in {r \in FileRows : Valid(r)} : rows' = Append(rows, row)
    /\ UNCHANGED <<ranges, mapRows, mappings, lookup>>

\* sort.Slice by start: it is not stable, so ranges with the same start come in
\* any order.
SortRanges ==
    /\ lookup.pc = "addresses"
    /\ \E s \in SetToSeqs(DOMAIN rows) :
          /\ \A i, j \in DOMAIN s : i < j => rows[s[i]].start <= rows[s[j]].start
          /\ ranges' = [i \in DOMAIN s |-> rows[s[i]]]
    /\ lookup' = [pc |-> "mappings"]
    /\ UNCHANGED <<rows, mapRows, mappings>>

----------------------------------------------------------------------------
(* The mapping file *)

\* A name that says nothing is "otro", unless it is "desconocido" itself.
MappedOperator(name) ==
    LET op == NormalizeOperator(name)
    IN  IF op = OpDesconocido /\ name # {OpDesconocido} THEN OpOtro ELSE op

\* A later row about the same system replaces an earlier one.
LoadMappingRow ==
    /\ lookup.pc = "mappings"
    /\ Len(mapRows) < MaxMappings
    /\ \E n \in MappedAsns, name \in Names :
          /\ mapRows' = Append(mapRows, [asn |-> n, name |-> name])
          /\ mappings' = [a \in DOMAIN mappings \cup {n} |->
                            IF a = n THEN MappedOperator(name) ELSE mappings[a]]
    /\ UNCHANGED <<rows, ranges, lookup>>

\* The process starts to serve.
StartServing ==
    /\ lookup.pc = "mappings"
    /\ lookup' = [pc |-> "serving"]
    /\ UNCHANGED <<rows, ranges, mapRows, mappings>>

----------------------------------------------------------------------------
(* A lookup *)

NotFound == [found |-> FALSE]

\* Mutant: the search stops before a range that starts at the address.
Lookup_Before(ip) ==
    LET before == {i \in DOMAIN ranges : ranges[i].start < ip}
        cand == ranges[Cardinality(before)]
    IN  IF before = {} THEN NotFound
        ELSE IF ip <= cand.end THEN [found |-> TRUE, asn |-> cand.asn] ELSE NotFound

\* CSVResolver.Lookup: the last range that starts at the address or before.
Lookup(ip) ==
    LET upTo == {i \in DOMAIN ranges : ranges[i].start <= ip}
        cand == ranges[Cardinality(upTo)]
    IN  IF upTo = {} THEN NotFound
        ELSE IF ip <= cand.end THEN [found |-> TRUE, asn |-> cand.asn] ELSE NotFound

\* OperatorResolver.Resolve.
Resolve(asn) == IF asn \in DOMAIN mappings THEN mappings[asn] ELSE OpDesconocido

\* buildObservation asks for the visitor's address.
LookupAddress(ip) ==
    /\ lookup.pc \in {"serving", "answered"}
    /\ lookup' = [pc |-> "answered", ip |-> ip, info |-> Lookup(ip),
                  operator |-> IF Lookup(ip).found THEN Resolve(Lookup(ip).asn) ELSE ""]
    /\ UNCHANGED <<rows, ranges, mapRows, mappings>>

LookupNext ==
    \/ LoadAddressRow
    \/ SortRanges
    \/ LoadMappingRow
    \/ StartServing
    \/ \E ip \in Addr : LookupAddress(ip)

LookupSpec == LookupInit /\ [][LookupNext]_lookupVars

----------------------------------------------------------------------------
(* Properties *)

Covering(ip) == {i \in DOMAIN rows : rows[i].start <= ip /\ ip <= rows[i].end}

\* The files the project ships: no address in two ranges.
DisjointRows == \A ip \in Addr : Cardinality(Covering(ip)) <= 1

\* What the last row about a system says, or nothing.
SaidOf(asn) ==
    LET about == {j \in DOMAIN mapRows : mapRows[j].asn = asn}
        last == {j \in about : \A k \in about : k <= j}
    IN  {MappedOperator(mapRows[j].name) : j \in last}

\* An answer always comes from a row whose range holds the address, and from
\* the one that starts nearest: no range starts between that row and the
\* address.  When the ranges do not overlap, every covered address is found;
\* when they do, the end of an inner range hides the rest of the outer one.
\* The operator is what the last mapping row about that system says.
LookupIsReference ==
    lookup.pc = "answered" =>
        /\ lookup.info.found =>
              /\ \E i \in Covering(lookup.ip) :
                    /\ rows[i].asn = lookup.info.asn
                    /\ \A j \in DOMAIN rows :
                          rows[j].start <= lookup.ip => rows[j].start <= rows[i].start
              /\ lookup.operator = IF SaidOf(lookup.info.asn) = {} THEN OpDesconocido
                                   ELSE CHOOSE op \in SaidOf(lookup.info.asn) : TRUE
        /\ DisjointRows => lookup.info.found = (Covering(lookup.ip) # {})
=============================================================================
