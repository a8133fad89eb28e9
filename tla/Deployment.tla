---------------------------- MODULE Deployment ----------------------------
(***************************************************************************)
(* The importers on the database that Startup prepares: import-data        *)
(* replaces the official tables (internal/importer/importer.go and one file*)
(* per kind of dataset), import-synthesis those of the coverage synthesis  *)
(* (synthesis.go).  Each truncates, then loads batch by batch, without a   *)
(* transaction, while servers start, serve and stop.  They are commands    *)
(* for the operator, who runs one at a time.                               *)
(*                                                                         *)
(* What the model calls a batch is the set of rows of one INSERT or COPY:  *)
(* the run that loaded it, the number of its file and its place in it.     *)
(***************************************************************************)
EXTENDS Startup

CONSTANTS
    Files,       \* what WalkDir finds and classify accepts, in that order
    CellBatches  \* flushes of coverage_cells.csv, of 32768 rows each

Tables == {"official_coverage", "official_sites", "mobile_sites"}

\* A file of opencellid goes on after a batch that fails; others end there.
File == [table : Tables, lenient : BOOLEAN, batches : Nat \ {0}]

ASSUME DeploymentAssumption == Files \in Seq(File) /\ CellBatches \in Nat

VARIABLES
    imp,         \* importer -> what its job is at
    official,    \* batches in the three official tables
    synthesis,   \* <<run, n>>: n = 0 in coverage_synthesis, others in its cells
    meta,        \* run that wrote coverage_synthesis_meta last, 0 if none
    report,      \* what import-data printed last
    emptied      \* history: the last run that truncated, per job

importVars == <<imp, official, synthesis, meta, report, emptied>>

Batches == UNION {{<<f, n>> : n \in 1..Files[f].batches} : f \in DOMAIN Files}

Job == [job : {"none", "data", "synthesis"}, file : Nat, batch : Nat,
        rows : SUBSET Batches,                \* counted in the Report
        errors : SUBSET (DOMAIN Files)]       \* files whose Error is set

NoJob == [job |-> "none", file |-> 1, batch |-> 0, rows |-> {}, errors |-> {}]

DeployInit ==
    /\ Init
    /\ imp = [p \in Importers |-> NoJob]
    /\ official = {} /\ synthesis = {} /\ meta = 0
    /\ report = [run |-> 0, rows |-> {}, errors |-> {}]
    /\ emptied = [data |-> 0, synthesis |-> 0]

At(p, job) == proc[p].pc = "import" /\ imp[p].job = job

\* The command has ended, with its work done.
End(p) ==
    /\ proc' = [proc EXCEPT ![p] = Off]
    /\ imp' = [imp EXCEPT ![p] = NoJob]
    /\ UNCHANGED <<starts, dbVars, settings, interrupted, served>>

\* An error that the command returns, a signal, a crash.
Abort(p) ==
    /\ Exit(p)
    /\ imp' = [q \in Importers |-> IF q = p THEN NoJob ELSE imp[q]]
    /\ UNCHANGED <<official, synthesis, meta, report, emptied>>

----------------------------------------------------------------------------
(* ImportData *)

\* Mutant: a table was forgotten.
Truncated_Some == {"official_coverage", "official_sites"}

\* The tables of resetTables.
Truncated == Tables

ResetTables(p) ==
    /\ At(p, "none")
    /\ official' = {r \in official : Files[r[2]].table \notin Truncated}
    /\ imp' = [imp EXCEPT ![p] = [NoJob EXCEPT !.job = "data", !.batch = 1]]
    /\ emptied' = [emptied EXCEPT !.data = proc[p].run]
    /\ UNCHANGED <<vars, synthesis, meta, report>>

\* The job after a batch: the next of the file, or the first of the next file.
NextBatch(j) ==
    IF j.batch < Files[j.file].batches THEN [j EXCEPT !.batch = @ + 1]
                                       ELSE [j EXCEPT !.file = @ + 1, !.batch = 1]

Loading(p) == At(p, "data") /\ imp[p].file \in DOMAIN Files

LoadBatch(p) ==
    LET j == imp[p]
    IN  /\ Loading(p)
        /\ official' = official \cup {<<proc[p].run, j.file, j.batch>>}
        /\ imp' = [imp EXCEPT ![p] =
                     NextBatch([j EXCEPT !.rows = @ \cup {<<j.file, j.batch>>}])]
        /\ UNCHANGED <<vars, synthesis, meta, report, emptied>>

\* Mutant: every file ignores the error of a batch.
AfterError_Ignored(j) == NextBatch(j)

\* The error of a batch, or of reading on, is for the Report of its file.
AfterError(j) ==
    IF Files[j.file].lenient THEN NextBatch(j)
    ELSE [j EXCEPT !.file = @ + 1, !.batch = 1, !.errors = @ \cup {j.file}]

\* The batch is stored all the same if only its answer was lost.
BatchFails(p, stored) ==
    LET j == imp[p]
    IN  /\ Loading(p)
        /\ official' = official \cup (IF stored THEN {<<proc[p].run, j.file, j.batch>>} ELSE {})
        /\ imp' = [imp EXCEPT ![p] = AfterError(j)]
        /\ UNCHANGED <<vars, synthesis, meta, report, emptied>>

PrintReport(p) ==
    /\ At(p, "data")
    /\ imp[p].file \notin DOMAIN Files
    /\ report' = [run |-> proc[p].run, rows |-> imp[p].rows, errors |-> imp[p].errors]
    /\ End(p)
    /\ UNCHANGED <<official, synthesis, meta, emptied>>

----------------------------------------------------------------------------
(* ImportSynthesis *)

TruncateSynthesis(p) ==
    /\ At(p, "none")
    /\ synthesis' = {}
    /\ imp' = [imp EXCEPT ![p] = [NoJob EXCEPT !.job = "synthesis"]]
    /\ emptied' = [emptied EXCEPT !.synthesis = proc[p].run]
    /\ UNCHANGED <<vars, official, meta, report>>

\* Mutant: no flush after the loop.
Parts_NoLastFlush == {n \in 0..CellBatches : n < CellBatches}

\* The municipalities are batch 0; the last flush of the cells follows the loop.
Parts == 0..CellBatches

LoadPart(p) ==
    /\ At(p, "synthesis")
    /\ imp[p].batch \in Parts
    /\ synthesis' = synthesis \cup {<<proc[p].run, imp[p].batch>>}
    /\ imp' = [imp EXCEPT ![p].batch = @ + 1]
    /\ UNCHANGED <<vars, official, meta, report, emptied>>

PutMeta(p) ==
    /\ At(p, "synthesis")
    /\ imp[p].batch \notin Parts
    /\ meta' = proc[p].run
    /\ End(p)
    /\ UNCHANGED <<official, synthesis, report, emptied>>

DeployNext ==
    \/ \E p \in Procs : \/ Step(p) /\ UNCHANGED importVars
                        \/ Abort(p)
    \/ \E p \in Importers :
         \/ ResetTables(p)
         \/ LoadBatch(p)
         \/ \E stored \in BOOLEAN : BatchFails(p, stored)
         \/ PrintReport(p)
         \/ TruncateSynthesis(p)
         \/ LoadPart(p)
         \/ PutMeta(p)

DeploySpec == DeployInit /\ [][DeployNext]_<<vars, importVars>>

----------------------------------------------------------------------------
(* Properties *)

\* The tables hold one load and no history, whatever runs failed before
\* (CHECKLIST.md:39, resetTables; synthesis.go:31-33).
OneLoad ==
    /\ \A r \in official : r[1] = emptied.data
    /\ \A r \in synthesis : r[1] = emptied.synthesis

\* Until the next import, the tables hold the batches that the last Report counts,
\* and all of each file of which it tells no error, those of opencellid excepted.
ReportTrue ==
    report.run = emptied.data /\ report.run # 0 =>
        /\ \A b \in report.rows : <<report.run, b[1], b[2]>> \in official
        /\ \A b \in Batches :
              Files[b[1]].lenient \/ b[1] \in report.errors \/ <<report.run, b[1], b[2]>> \in official

\* What /coverage/status announces as the last load is complete, unless a later one
\* has begun: then the tables may be empty or partial under the old announcement.
MetaIsComplete ==
    meta = emptied.synthesis /\ meta # 0 => synthesis = {<<meta, n>> : n \in 0..CellBatches}
=============================================================================
