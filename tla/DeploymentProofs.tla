-------------------------- MODULE DeploymentProofs --------------------------
(***************************************************************************)
(* Proofs about Deployment, for any servers, importers, migrations and     *)
(* datasets: it is a use of Startup, so the theorems about Startup hold of *)
(* it, and what the importers leave in their tables.                       *)
(***************************************************************************)
EXTENDS Deployment, StartupProofs

(* An importer that ends has no migration behind it: to Startup it exits. *)
LEMMA EndIsExit ==
    ASSUME NEW p \in Procs, proc[p].pc = "import", End(p), TypeOK
    PROVE  Exit(p)
<1>1. interrupted' = interrupted \cup {v \in Versions : \E s \in Stmts : s[1] = v /\ Past(p, s)}
  BY DEF Past, End
<1> QED BY <1>1 DEF Exit, End, dbVars

(* What a step of the deployment is to Startup. *)
LEMMA DeployStep == TypeOK /\ [DeployNext]_<<vars, importVars>> => [Next]_vars
<1> SUFFICES ASSUME TypeOK, [DeployNext]_<<vars, importVars>> PROVE [Next]_vars
  OBVIOUS
<1>a. Importers \subseteq Procs
  BY DEF Procs
<1>1. ASSUME NEW p \in Procs, Step(p) \/ Abort(p)
      PROVE  Next
  BY <1>1 DEF Next, Abort
<1>2. ASSUME NEW p \in Importers, PrintReport(p) \/ PutMeta(p)
      PROVE  Next
  <2>1. proc[p].pc = "import" /\ End(p)
    BY <1>2 DEF PrintReport, PutMeta, At
  <2> QED BY <1>a, <2>1, EndIsExit DEF Next
<1>3. ASSUME NEW p \in Importers,
             \/ ResetTables(p) \/ LoadBatch(p) \/ TruncateSynthesis(p) \/ LoadPart(p)
             \/ \E stored \in BOOLEAN : BatchFails(p, stored)
      PROVE  UNCHANGED vars
  BY <1>3 DEF ResetTables, LoadBatch, TruncateSynthesis, LoadPart, BatchFails
<1> QED BY <1>1, <1>2, <1>3 DEF DeployNext

(* The importers use the database as Startup says, so its theorems hold here. *)
THEOREM DeploymentIsStartup == DeploySpec => Spec
<1>1. DeployInit => Init /\ TypeOK
  BY StartupTypeInit DEF DeployInit
<1>2. TypeOK /\ [DeployNext]_<<vars, importVars>> => TypeOK'
  BY DeployStep, StartupTypeStep
<1> QED BY <1>1, <1>2, DeployStep, PTL DEF DeploySpec, Spec

(***************************************************************************)
(* The tables of the importers.  One importer runs at a time, and what it  *)
(* has loaded so far is all that its tables hold.                          *)
(***************************************************************************)
JobShape == [job : {"none", "data", "synthesis"}, file : Nat, batch : Nat,
             rows : SUBSET (Nat \X Nat), errors : SUBSET Nat]

JobsTypeOK ==
    /\ imp \in [Importers -> JobShape]
    /\ official \subseteq Nat \X (DOMAIN Files) \X Nat
    /\ meta \in Nat
    /\ emptied \in [data : Nat, synthesis : Nat]

\* A job belongs to a run that is importing and has emptied the tables of the job.
JobOK(p) ==
    /\ imp[p].job # "none" => proc[p].pc = "import"
    /\ imp[p].job = "data" => emptied.data = proc[p].run
    /\ imp[p].job = "synthesis" =>
          /\ emptied.synthesis = proc[p].run
          /\ synthesis = {<<proc[p].run, n>> : n \in {m \in 0..CellBatches : m < imp[p].batch}}

\* A run that goes on is later than the last one that wrote the meta row.
MetaIsOld ==
    /\ meta <= starts
    /\ \A p \in Procs : proc[p].pc # "down" => proc[p].run <= starts
    /\ \A p \in Importers : proc[p].pc # "down" => meta < proc[p].run

OneImports == \A p, q \in Importers : proc[p].pc # "down" /\ proc[q].pc # "down" => p = q

LoadInv ==
    /\ JobsTypeOK
    /\ \A p \in Importers : JobOK(p)
    /\ MetaIsOld
    /\ OneLoad
    /\ MetaIsComplete

(* Importers never serve, so two that are not down would both be starting. *)
LEMMA OneImporter == KeyInv => OneImports
BY StartupAssumption DEF KeyInv, OneStarts, Starting, Holds, OneImports, Procs

(* A step of one process leaves the others alone, and an importing one only ends. *)
LEMMA StepElsewhere ==
    ASSUME TypeOK, NEW p \in Procs, Step(p)
    PROVE  proc[p].pc # "import" /\ \A q \in Procs : q # p => proc'[q] = proc[q]
<1>a. proc \in [Procs -> Run]
  BY DEF TypeOK
<1>1. proc[p].pc # "import"
  BY DEF Step, Start, ReadVersions, ExecStatement, Register, GetPublic, GetPrivate, SetPublic,
         SetPrivate, Report
<1>2. ASSUME NEW r, NEW v, Advanced(p, r, v), NEW q \in Procs, q # p
      PROVE  proc'[q] = proc[q]
  BY <1>a, <1>2 DEF Advanced
<1>3. CASE Start(p) \/ ExecStatement(p) \/ GetPublic(p) \/ GetPrivate(p) \/ SetPublic(p)
           \/ SetPrivate(p) \/ Report(p)
  BY <1>1, <1>3, <1>a DEF Start, ExecStatement, GetPublic, GetPrivate, SetPublic, SetPrivate,
                          Report, Serve
<1>4. CASE Register(p) \/ \E ok \in BOOLEAN : ReadVersions(p, ok)
  BY <1>1, <1>2, <1>4 DEF Register, ReadVersions
<1> QED BY <1>3, <1>4 DEF Step

(* The next place in the list of files is one, and belongs to the same job. *)
LEMMA NextBatchShape ==
    \A j \in JobShape : NextBatch(j) \in JobShape /\ NextBatch(j).job = j.job
<1> SUFFICES ASSUME NEW j \in JobShape PROVE NextBatch(j) \in JobShape /\ NextBatch(j).job = j.job
  OBVIOUS
<1>1. j.batch + 1 \in Nat /\ j.file + 1 \in Nat
  BY DEF JobShape
<1>2. [j EXCEPT !.batch = @ + 1] \in JobShape /\ [j EXCEPT !.batch = @ + 1].job = j.job
  BY <1>1 DEF JobShape
<1>3. /\ [j EXCEPT !.file = @ + 1, !.batch = 1] \in JobShape
      /\ [j EXCEPT !.file = @ + 1, !.batch = 1].job = j.job
  BY <1>1 DEF JobShape
<1> QED BY <1>2, <1>3 DEF NextBatch

(* So does the place after a batch, stored or failed. *)
LEMMA AfterBatchShape ==
    \A j \in JobShape :
        /\ [j EXCEPT !.rows = @ \cup {<<j.file, j.batch>>}] \in JobShape
        /\ [j EXCEPT !.rows = @ \cup {<<j.file, j.batch>>}].job = j.job
        /\ AfterError(j) \in JobShape /\ AfterError(j).job = j.job
<1> SUFFICES ASSUME NEW j \in JobShape
             PROVE  /\ [j EXCEPT !.rows = @ \cup {<<j.file, j.batch>>}] \in JobShape
                    /\ [j EXCEPT !.rows = @ \cup {<<j.file, j.batch>>}].job = j.job
                    /\ AfterError(j) \in JobShape /\ AfterError(j).job = j.job
  OBVIOUS
<1>1. /\ j.file + 1 \in Nat /\ j.errors \cup {j.file} \in SUBSET Nat
      /\ j.rows \cup {<<j.file, j.batch>>} \in SUBSET (Nat \X Nat)
  BY DEF JobShape
<1>2. /\ [j EXCEPT !.rows = @ \cup {<<j.file, j.batch>>}] \in JobShape
      /\ [j EXCEPT !.rows = @ \cup {<<j.file, j.batch>>}].job = j.job
  BY <1>1 DEF JobShape
<1>3. /\ [j EXCEPT !.file = @ + 1, !.batch = 1, !.errors = @ \cup {j.file}] \in JobShape
      /\ [j EXCEPT !.file = @ + 1, !.batch = 1, !.errors = @ \cup {j.file}].job = j.job
  BY <1>1 DEF JobShape
<1> QED BY <1>2, <1>3, NextBatchShape DEF AfterError

(* The importers keep what LoadInv says. *)
LEMMA LoadStep == KeyInv /\ LoadInv /\ [DeployNext]_<<vars, importVars>> => LoadInv'
<1> SUFFICES ASSUME KeyInv, LoadInv, [DeployNext]_<<vars, importVars>> PROVE LoadInv'
  OBVIOUS
<1>a. /\ TypeOK /\ proc \in [Procs -> Run] /\ starts \in Nat /\ OneImports /\ Importers \subseteq Procs
      /\ \A p \in Procs : proc[p].pc # "down" => proc[p].run \in Nat
  BY OneImporter, StartupAssumption, KeyFacts DEF KeyInv, TypeOK, RunOK, Procs
<1>b. /\ JobsTypeOK /\ \A p \in Importers : JobOK(p)
      /\ MetaIsOld /\ OneLoad /\ MetaIsComplete
  BY DEF LoadInv
<1>c. /\ imp \in [Importers -> JobShape] /\ official \subseteq Nat \X (DOMAIN Files) \X Nat
      /\ meta \in Nat /\ emptied \in [data : Nat, synthesis : Nat]
  BY <1>b DEF JobsTypeOK
<1>d. NoJob \in JobShape /\ NoJob.job = "none"
  BY DEF NoJob, JobShape
<1>e. ASSUME NEW p \in Importers, proc[p].pc = "import", NEW q \in Importers, q # p
      PROVE  proc[q].pc = "down" /\ imp[q].job = "none"
  BY <1>a, <1>b, <1>e DEF OneImports, JobOK
(* Of the jobs, only the one that takes the step needs a look. *)
<1>f. ASSUME NEW p \in Importers, proc[p].pc = "import", NEW x, imp' = [imp EXCEPT ![p] = x],
             JobOK(p)'
      PROVE  \A q \in Importers : JobOK(q)'
  <2> SUFFICES ASSUME NEW q \in Importers, q # p PROVE JobOK(q)'
    BY <1>f
  <2>1. imp'[q].job = "none"
    BY <1>c, <1>e, <1>f
  <2> QED BY <2>1 DEF JobOK
<1>g. UNCHANGED <<proc, starts, meta>> => MetaIsOld'
  BY <1>b DEF MetaIsOld
<1>1. ASSUME NEW p \in Procs, Step(p), UNCHANGED importVars
      PROVE  LoadInv'
  <2>1. UNCHANGED <<imp, official, synthesis, meta, emptied>>
    BY <1>1 DEF importVars
  <2>2. \A q \in Importers : JobOK(q)'
    BY <1>1, <1>a, <1>b, <2>1, StepElsewhere DEF JobOK
  <2>3. \A q \in Procs : proc'[q].pc # "down" =>
          \/ proc[q].pc # "down" /\ proc'[q].run = proc[q].run /\ starts' \in {starts, starts + 1}
          \/ proc[q].pc = "down" /\ proc'[q].run = starts + 1 /\ starts' = starts + 1
    BY <1>1, <1>a, RunsNumbered
  <2>4. starts' \in {starts, starts + 1}
    BY <1>1 DEF Step, Start, ReadVersions, ExecStatement, Register, GetPublic, GetPrivate,
                SetPublic, SetPrivate, Report
  <2>5. MetaIsOld'
    BY <1>a, <1>b, <1>c, <2>1, <2>3, <2>4 DEF MetaIsOld
  <2> QED BY <1>b, <2>1, <2>2, <2>5 DEF LoadInv, JobsTypeOK, OneLoad, MetaIsComplete
<1>2. ASSUME NEW p \in Procs, Exit(p), UNCHANGED <<official, synthesis, meta, emptied>>,
             imp' \in [Importers -> JobShape],
             \A q \in Importers : imp'[q].job = "none" \/ (q # p /\ imp'[q] = imp[q])
      PROVE  LoadInv'
  <2>1. /\ \A q \in Procs : q # p => proc'[q] = proc[q]
        /\ proc'[p].pc = "down" /\ UNCHANGED starts
    BY <1>2, <1>a DEF Exit, Off
  <2>2. \A q \in Importers : JobOK(q)'
    BY <1>2, <1>a, <1>b, <2>1 DEF JobOK
  <2>3. MetaIsOld'
    BY <1>2, <1>a, <1>b, <2>1 DEF MetaIsOld
  <2> QED BY <1>2, <1>b, <2>2, <2>3 DEF LoadInv, JobsTypeOK, OneLoad, MetaIsComplete
<1>3. ASSUME NEW p \in Procs, Abort(p)
      PROVE  LoadInv'
  BY <1>2, <1>3, <1>c, <1>d DEF Abort
<1>4. ASSUME NEW p \in Importers, ResetTables(p)
      PROVE  LoadInv'
  <2> DEFINE x == [NoJob EXCEPT !.job = "data", !.batch = 1]
  <2>1. x \in JobShape /\ x.job = "data"
    BY <1>d DEF JobShape
  <2>2. /\ proc[p].pc = "import" /\ imp' = [imp EXCEPT ![p] = x]
        /\ official' = {r \in official : Files[r[2]].table \notin Truncated}
        /\ emptied' = [emptied EXCEPT !.data = proc[p].run]
        /\ UNCHANGED <<proc, starts, synthesis, meta>>
    BY <1>4 DEF ResetTables, At, vars
  <2> HIDE DEF x
  <2>3. official' = {}
    <3>1. \A r \in official : Files[r[2]].table \in Tables
      <4>1. \A f \in DOMAIN Files : Files[f] \in File
        BY DeploymentAssumption
      <4>2. \A r \in official : r[2] \in DOMAIN Files
        BY <1>c
      <4> QED BY <4>1, <4>2 DEF File
    <3> QED BY <2>2, <3>1 DEF Truncated
  <2>4. emptied' \in [data : Nat, synthesis : Nat] /\ emptied'.data = proc[p].run
        /\ emptied'.synthesis = emptied.synthesis
    BY <1>a, <1>c, <2>2
  <2>5. JobOK(p)'
    BY <1>c, <2>1, <2>2, <2>4 DEF JobOK
  <2>6. JobsTypeOK'
    BY <1>c, <2>1, <2>2, <2>3, <2>4 DEF JobsTypeOK
  <2> QED BY <1>b, <1>f, <1>g, <2>2, <2>3, <2>4, <2>5, <2>6 DEF LoadInv, OneLoad, MetaIsComplete
<1>5. ASSUME NEW p \in Importers, NEW x \in JobShape, imp[p].job = "data", x.job = "data",
             imp' = [imp EXCEPT ![p] = x], imp[p].file \in DOMAIN Files,
             official' \subseteq official \cup {<<proc[p].run, imp[p].file, imp[p].batch>>},
             UNCHANGED <<vars, synthesis, meta, emptied>>
      PROVE  LoadInv'
  <2>1. /\ proc[p].pc = "import" /\ emptied.data = proc[p].run
        /\ proc[p].run \in Nat /\ imp[p].batch \in Nat
    BY <1>5, <1>a, <1>b, <1>c DEF JobOK, JobShape
  <2>2. UNCHANGED <<proc, starts>>
    BY <1>5 DEF vars
  <2>3. JobsTypeOK'
    BY <1>5, <1>c, <2>1 DEF JobsTypeOK
  <2>4. OneLoad'
    BY <1>5, <1>b, <2>1 DEF OneLoad
  <2>5. JobOK(p)'
    BY <1>5, <1>c, <2>1, <2>2 DEF JobOK
  <2> QED BY <1>5, <1>b, <1>f, <1>g, <2>1, <2>2, <2>3, <2>4, <2>5 DEF LoadInv, MetaIsComplete
<1>6. ASSUME NEW p \in Importers, LoadBatch(p)
      PROVE  LoadInv'
  <2> DEFINE y == [imp[p] EXCEPT !.rows = @ \cup {<<imp[p].file, imp[p].batch>>}]
  <2>1. y \in JobShape /\ y.job = imp[p].job
    BY <1>c, AfterBatchShape
  <2>2. /\ imp[p].job = "data" /\ imp[p].file \in DOMAIN Files
        /\ imp' = [imp EXCEPT ![p] = NextBatch(y)]
        /\ official' = official \cup {<<proc[p].run, imp[p].file, imp[p].batch>>}
        /\ UNCHANGED <<vars, synthesis, meta, emptied>>
    BY <1>6 DEF LoadBatch, Loading, At
  <2> HIDE DEF y
  <2> QED BY <1>5, <2>1, <2>2, NextBatchShape
<1>7. ASSUME NEW p \in Importers, NEW stored \in BOOLEAN, BatchFails(p, stored)
      PROVE  LoadInv'
  <2>1. /\ imp[p].job = "data" /\ imp[p].file \in DOMAIN Files
        /\ imp' = [imp EXCEPT ![p] = AfterError(imp[p])]
        /\ official' \subseteq official \cup {<<proc[p].run, imp[p].file, imp[p].batch>>}
        /\ UNCHANGED <<vars, synthesis, meta, emptied>>
    BY <1>7 DEF BatchFails, Loading, At
  <2> QED BY <1>5, <1>c, <2>1, AfterBatchShape
<1>8. ASSUME NEW p \in Importers, PrintReport(p)
      PROVE  LoadInv'
  <2>1. Exit(p)
    BY <1>8, <1>a, EndIsExit DEF PrintReport, At
  <2> QED BY <1>2, <1>8, <1>a, <1>c, <1>d, <2>1 DEF PrintReport, End
<1>9. ASSUME NEW p \in Importers, TruncateSynthesis(p)
      PROVE  LoadInv'
  <2> DEFINE x == [NoJob EXCEPT !.job = "synthesis"]
  <2>1. x \in JobShape /\ x.job = "synthesis" /\ x.batch = 0
    BY <1>d DEF JobShape, NoJob
  <2>2. /\ proc[p].pc = "import" /\ imp' = [imp EXCEPT ![p] = x] /\ synthesis' = {}
        /\ emptied' = [emptied EXCEPT !.synthesis = proc[p].run]
        /\ UNCHANGED <<proc, starts, official, meta>>
    BY <1>9 DEF TruncateSynthesis, At, vars
  <2> HIDE DEF x
  <2>3. /\ emptied' \in [data : Nat, synthesis : Nat] /\ emptied'.synthesis = proc[p].run
        /\ emptied'.data = emptied.data
    BY <1>a, <1>c, <2>2
  <2>4. JobOK(p)'
    <3>1. imp'[p] = x
      BY <1>c, <2>2
    <3>2. {m \in 0..CellBatches : m < 0} = {}
      BY DeploymentAssumption
    <3> QED BY <2>1, <2>2, <2>3, <3>1, <3>2 DEF JobOK
  <2>5. JobsTypeOK'
    BY <1>c, <2>1, <2>2, <2>3 DEF JobsTypeOK
  <2>6. MetaIsComplete'
    BY <1>a, <1>b, <1>c, <2>2, <2>3 DEF MetaIsOld, MetaIsComplete
  <2> QED BY <1>b, <1>f, <1>g, <2>2, <2>3, <2>4, <2>5, <2>6 DEF LoadInv, OneLoad
<1>10. ASSUME NEW p \in Importers, LoadPart(p)
       PROVE  LoadInv'
  <2> DEFINE x == [imp[p] EXCEPT !.batch = @ + 1]
             b == imp[p].batch
  <2>1. /\ x \in JobShape /\ x.job = imp[p].job /\ x.batch = b + 1 /\ b \in Nat
    <3>1. b \in Nat /\ b + 1 \in Nat /\ imp[p] \in JobShape
      BY <1>c DEF JobShape
    <3> QED BY <3>1 DEF JobShape
  <2>2. /\ proc[p].pc = "import" /\ imp[p].job = "synthesis" /\ b \in 0..CellBatches
        /\ imp' = [imp EXCEPT ![p] = x] /\ synthesis' = synthesis \cup {<<proc[p].run, b>>}
        /\ UNCHANGED <<proc, starts, official, meta, emptied>>
    BY <1>10, <1>c DEF LoadPart, At, Parts, vars
  <2>3. /\ emptied.synthesis = proc[p].run /\ proc[p].run \in Nat /\ meta < proc[p].run
        /\ synthesis = {<<proc[p].run, n>> : n \in {m \in 0..CellBatches : m < b}}
    BY <1>a, <1>b, <2>2 DEF JobOK, MetaIsOld
  <2> HIDE DEF x, b
  <2>4. synthesis' = {<<proc[p].run, n>> : n \in {m \in 0..CellBatches : m < b + 1}}
    <3>1. {m \in 0..CellBatches : m < b + 1} = {m \in 0..CellBatches : m < b} \cup {b}
      BY <2>1, <2>2, DeploymentAssumption
    <3> QED BY <2>2, <2>3, <3>1
  <2>5. JobOK(p)'
    <3>1. imp'[p] = x
      BY <1>c, <2>2
    <3> QED BY <2>1, <2>2, <2>3, <2>4, <3>1 DEF JobOK
  <2>6. JobsTypeOK'
    BY <1>c, <2>1, <2>2 DEF JobsTypeOK
  <2>7. OneLoad'
    BY <1>b, <2>2, <2>3 DEF OneLoad
  <2>8. MetaIsComplete'
    BY <1>c, <2>2, <2>3 DEF MetaIsComplete
  <2> QED BY <1>b, <1>f, <1>g, <2>2, <2>5, <2>6, <2>7, <2>8 DEF LoadInv
<1>11. ASSUME NEW p \in Importers, PutMeta(p)
       PROVE  LoadInv'
  <2>1. /\ proc[p].pc = "import" /\ imp[p].job = "synthesis" /\ imp[p].batch \notin 0..CellBatches
        /\ meta' = proc[p].run /\ End(p) /\ UNCHANGED <<starts, official, synthesis, emptied>>
    BY <1>11 DEF PutMeta, At, Parts, End
  <2>2. /\ proc' = [proc EXCEPT ![p] = Off] /\ imp' = [imp EXCEPT ![p] = NoJob] /\ Off.pc = "down"
    BY <2>1 DEF End, Off
  <2>3. /\ emptied.synthesis = proc[p].run /\ proc[p].run \in Nat /\ proc[p].run <= starts
        /\ imp[p].batch \in Nat
        /\ synthesis = {<<proc[p].run, n>> : n \in {m \in 0..CellBatches : m < imp[p].batch}}
    BY <1>a, <1>b, <1>c, <2>1 DEF JobOK, MetaIsOld, JobShape
  <2>4. {m \in 0..CellBatches : m < imp[p].batch} = 0..CellBatches
    BY <2>1, <2>3, DeploymentAssumption
  <2>5. MetaIsComplete'
    BY <2>1, <2>3, <2>4 DEF MetaIsComplete
  <2>6. \A q \in Procs : q # p => proc'[q] = proc[q]
    BY <1>a, <2>2
  <2>7. proc'[p].pc = "down" /\ \A q \in Importers : q # p => proc'[q].pc = "down"
    BY <1>a, <1>e, <2>1, <2>2, <2>6
  <2>8. MetaIsOld'
    BY <1>b, <2>1, <2>3, <2>6, <2>7 DEF MetaIsOld
  <2>9. \A q \in Importers : JobOK(q)'
    <3> SUFFICES ASSUME NEW q \in Importers PROVE imp'[q].job = "none"
      BY DEF JobOK
    <3> QED BY <1>c, <1>d, <1>e, <2>1, <2>2
  <2>10. JobsTypeOK'
    BY <1>c, <1>d, <2>1, <2>2, <2>3 DEF JobsTypeOK
  <2> QED BY <1>b, <2>1, <2>5, <2>8, <2>9, <2>10 DEF LoadInv, OneLoad
<1>12. CASE UNCHANGED <<vars, importVars>>
  BY <1>12, <1>b DEF vars, importVars, LoadInv, JobsTypeOK, JobOK, MetaIsOld, OneLoad, MetaIsComplete
<1> QED
  BY <1>1, <1>3, <1>4, <1>6, <1>7, <1>8, <1>9, <1>10, <1>11, <1>12 DEF DeployNext

(* The importers' tables are consistent with what was announced of them. *)
LEMMA LoadInvariant == DeploySpec => []LoadInv
<1>1. DeployInit => LoadInv
  <2> SUFFICES ASSUME DeployInit PROVE LoadInv
    OBVIOUS
  <2>1. NoJob \in JobShape /\ NoJob.job = "none"
    BY DEF NoJob, JobShape
  <2>2. \A p \in Procs : proc[p].pc = "down"
    BY DEF DeployInit, Init, Off
  <2>3. JobsTypeOK /\ (\A p \in Importers : JobOK(p)) /\ OneLoad /\ MetaIsComplete
    BY <2>1 DEF DeployInit, JobsTypeOK, JobOK, OneLoad, MetaIsComplete
  <2>4. MetaIsOld
    BY <2>2 DEF DeployInit, Init, MetaIsOld, Procs
  <2> QED BY <2>3, <2>4 DEF LoadInv
<1> QED BY <1>1, LoadStep, KeyInvariant, DeploymentIsStartup, PTL DEF DeploySpec

(* The tables hold the rows of one load, whatever loads failed before
   (resetTables, ImportSynthesis). *)
THEOREM TablesHoldOneLoad == DeploySpec => []OneLoad
<1>1. LoadInv => OneLoad
  BY DEF LoadInv
<1> QED BY <1>1, LoadInvariant, PTL

(* An announced synthesis is complete until the next one begins
   (ImportSynthesis). *)
THEOREM AnnouncedIsComplete == DeploySpec => []MetaIsComplete
<1>1. LoadInv => MetaIsComplete
  BY DEF LoadInv
<1> QED BY <1>1, LoadInvariant, PTL

(***************************************************************************)
(* The Report of import-data.  Each batch that a job is past is stored, or *)
(* is of a file whose error it will report or that reports none.           *)
(***************************************************************************)
Kept(b, j, run, off) ==
    Files[b[1]].lenient \/ b[1] \in j.errors \/ <<run, b[1], b[2]>> \in off

PastBatch(b, j) == b[1] < j.file \/ (b[1] = j.file /\ b[2] < j.batch)

Covered(j, run, off) ==
    /\ j.file >= 1 /\ j.batch >= 1
    /\ \A b \in j.rows : <<run, b[1], b[2]>> \in off
    /\ \A b \in Batches : PastBatch(b, j) => Kept(b, j, run, off)

ReportedInv ==
    /\ report.run \in Nat /\ report.run <= starts
    /\ \A p \in Importers : proc[p].pc # "down" => report.run < proc[p].run
    /\ \A p \in Importers : imp[p].job = "data" => Covered(imp[p], proc[p].run, official)
    /\ ReportTrue

(* Files are numbered from 1, and so are their batches. *)
LEMMA BatchFacts ==
    /\ DOMAIN Files = 1..Len(Files) /\ Len(Files) \in Nat
    /\ \A f \in DOMAIN Files : Files[f].batches \in Nat \ {0}
    /\ \A b \in Batches : b[1] \in DOMAIN Files /\ b[2] \in 1..Files[b[1]].batches
                          /\ b = <<b[1], b[2]>>
<1>1. DOMAIN Files = 1..Len(Files) /\ Len(Files) \in Nat
  BY DeploymentAssumption
<1>2. \A f \in DOMAIN Files : Files[f] \in File
  BY DeploymentAssumption
<1>3. \A f \in DOMAIN Files : Files[f].batches \in Nat \ {0}
  BY <1>2 DEF File
<1>4. \A b \in Batches : b[1] \in DOMAIN Files /\ b[2] \in 1..Files[b[1]].batches
                         /\ b = <<b[1], b[2]>>
  BY DEF Batches
<1> QED BY <1>1, <1>3, <1>4

(* The next place is covered if the batch before it is. *)
LEMMA CoveredNext ==
    \A j \in JobShape : \A run, off, off2 :
        /\ j.file \in DOMAIN Files /\ Covered(j, run, off) /\ off \subseteq off2
        /\ Kept(<<j.file, j.batch>>, j, run, off2)
        => Covered(NextBatch(j), run, off2)
<1> SUFFICES ASSUME NEW j \in JobShape, NEW run, NEW off, NEW off2, j.file \in DOMAIN Files,
                    Covered(j, run, off), off \subseteq off2,
                    Kept(<<j.file, j.batch>>, j, run, off2)
             PROVE  Covered(NextBatch(j), run, off2)
  OBVIOUS
<1>1. /\ j.file \in Nat /\ j.batch \in Nat /\ j.file >= 1 /\ j.batch >= 1
      /\ \A b \in j.rows : <<run, b[1], b[2]>> \in off2
  BY DEF JobShape, Covered
<1>2. \A b \in Batches : PastBatch(b, j) => Kept(b, j, run, off2)
  BY DEF Covered, Kept
<1>3. ASSUME NEW b \in Batches, b[1] = j.file, b[2] = j.batch
      PROVE  Kept(b, j, run, off2)
  BY <1>3 DEF Kept
<1>4. \A b \in Batches : b[1] \in Nat /\ b[2] \in Nat /\ b[2] <= Files[b[1]].batches
  BY BatchFacts
<1>5. CASE j.batch < Files[j.file].batches
  <2> DEFINE x == [j EXCEPT !.batch = @ + 1]
  <2>1. NextBatch(j) = x
    BY <1>5 DEF NextBatch
  <2>2. x.file = j.file /\ x.batch = j.batch + 1 /\ x.rows = j.rows /\ x.errors = j.errors
    BY DEF JobShape
  <2> HIDE DEF x
  <2>3. ASSUME NEW b \in Batches, PastBatch(b, x)
        PROVE  Kept(b, x, run, off2)
    <3>1. PastBatch(b, j) \/ (b[1] = j.file /\ b[2] = j.batch)
      BY <1>1, <1>4, <2>2, <2>3 DEF PastBatch
    <3>2. Kept(b, j, run, off2)
      BY <1>2, <1>3, <3>1
    <3> QED BY <2>2, <3>2 DEF Kept
  <2>4. x.file >= 1 /\ x.batch >= 1
    BY <1>1, <2>2
  <2> QED BY <1>1, <2>1, <2>2, <2>3, <2>4 DEF Covered
<1>6. CASE ~(j.batch < Files[j.file].batches)
  <2> DEFINE x == [j EXCEPT !.file = @ + 1, !.batch = 1]
  <2>1. NextBatch(j) = x
    BY <1>6 DEF NextBatch
  <2>2. x.file = j.file + 1 /\ x.batch = 1 /\ x.rows = j.rows /\ x.errors = j.errors
    BY DEF JobShape
  <2> HIDE DEF x
  <2>3. Files[j.file].batches \in Nat /\ \A b \in Batches : b[2] >= 1
    BY BatchFacts
  <2>4. ASSUME NEW b \in Batches, PastBatch(b, x)
        PROVE  Kept(b, x, run, off2)
    <3>1. b[1] < j.file \/ b[1] = j.file
      BY <1>1, <1>4, <2>2, <2>3, <2>4 DEF PastBatch
    <3>2. CASE b[1] < j.file
      BY <1>2, <2>2, <3>2 DEF PastBatch, Kept
    <3>3. CASE b[1] = j.file
      <4>1. b[2] < j.batch \/ b[2] = j.batch
        BY <1>1, <1>4, <1>6, <2>3, <3>3
      <4>2. Kept(b, j, run, off2)
        BY <1>2, <1>3, <3>3, <4>1 DEF PastBatch
      <4> QED BY <2>2, <4>2 DEF Kept
    <3> QED BY <3>1, <3>2, <3>3
  <2>5. x.file >= 1 /\ x.batch >= 1
    BY <1>1, <2>2
  <2> QED BY <1>1, <2>1, <2>2, <2>4, <2>5 DEF Covered
<1> QED BY <1>5, <1>6

(* So is the place after a batch that failed. *)
LEMMA CoveredAfterError ==
    \A j \in JobShape : \A run, off, off2 :
        j.file \in DOMAIN Files /\ Covered(j, run, off) /\ off \subseteq off2
        => Covered(AfterError(j), run, off2)
<1> SUFFICES ASSUME NEW j \in JobShape, NEW run, NEW off, NEW off2, j.file \in DOMAIN Files,
                    Covered(j, run, off), off \subseteq off2
             PROVE  Covered(AfterError(j), run, off2)
  OBVIOUS
<1>1. CASE Files[j.file].lenient
  <2>1. Kept(<<j.file, j.batch>>, j, run, off2)
    BY <1>1 DEF Kept
  <2> QED BY <1>1, <2>1, CoveredNext DEF AfterError
<1>2. CASE ~Files[j.file].lenient
  <2> DEFINE x == [j EXCEPT !.file = @ + 1, !.batch = 1, !.errors = @ \cup {j.file}]
  <2>1. AfterError(j) = x
    BY <1>2 DEF AfterError
  <2>2. /\ x.file = j.file + 1 /\ x.batch = 1 /\ x.rows = j.rows /\ x.errors = j.errors \cup {j.file}
        /\ j.file \in Nat /\ j.file >= 1
    BY DEF JobShape, Covered
  <2> HIDE DEF x
  <2>3. ASSUME NEW b \in Batches, PastBatch(b, x)
        PROVE  Kept(b, x, run, off2)
    <3>1. b[1] \in Nat /\ b[2] >= 1 /\ b[2] \in Nat
      BY BatchFacts
    <3>2. b[1] < j.file \/ b[1] = j.file
      BY <2>2, <2>3, <3>1 DEF PastBatch
    <3>3. CASE b[1] < j.file
      BY <2>2, <3>3 DEF Covered, PastBatch, Kept
    <3>4. CASE b[1] = j.file
      BY <2>2, <3>4 DEF Kept
    <3> QED BY <3>2, <3>3, <3>4
  <2>4. \A b \in x.rows : <<run, b[1], b[2]>> \in off2
    BY <2>2 DEF Covered
  <2>5. x.file >= 1 /\ x.batch >= 1
    BY <2>2
  <2> QED BY <2>1, <2>3, <2>4, <2>5 DEF Covered
<1> QED BY <1>1, <1>2

(* Every step keeps what the Report will say. *)
LEMMA ReportedStep ==
    KeyInv /\ LoadInv /\ ReportedInv /\ [DeployNext]_<<vars, importVars>> => ReportedInv'
<1> SUFFICES ASSUME KeyInv, LoadInv, ReportedInv, [DeployNext]_<<vars, importVars>>
             PROVE  ReportedInv'
  OBVIOUS
<1>a. /\ TypeOK /\ proc \in [Procs -> Run] /\ starts \in Nat /\ OneImports /\ Importers \subseteq Procs
      /\ \A p \in Procs : proc[p].pc # "down" => proc[p].run \in Nat /\ proc[p].run <= starts
  BY OneImporter, StartupAssumption, KeyFacts DEF KeyInv, TypeOK, RunOK, Procs, LoadInv, MetaIsOld
<1>b. /\ imp \in [Importers -> JobShape] /\ emptied \in [data : Nat, synthesis : Nat]
      /\ \A p \in Importers : imp[p].job # "none" => proc[p].pc = "import"
      /\ \A p \in Importers : imp[p].job = "data" => emptied.data = proc[p].run
  BY DEF LoadInv, JobsTypeOK, JobOK
<1>c. /\ report.run \in Nat /\ report.run <= starts
      /\ \A p \in Importers : proc[p].pc # "down" => report.run < proc[p].run
      /\ \A p \in Importers : imp[p].job = "data" => Covered(imp[p], proc[p].run, official)
      /\ ReportTrue
  BY DEF ReportedInv
<1>d. ASSUME NEW p \in Importers, proc[p].pc = "import", NEW q \in Importers, q # p
      PROVE  proc[q].pc = "down" /\ imp[q].job = "none"
  BY <1>a, <1>b, <1>d DEF OneImports
<1>e. NoJob \in JobShape /\ NoJob.job = "none" /\ Off.pc = "down"
  BY DEF NoJob, JobShape, Off
(* A job goes on, or begins, in a run that is later than the last Report. *)
<1>f. ASSUME NEW p \in Importers, proc[p].pc = "import", NEW x, imp' = [imp EXCEPT ![p] = x],
             UNCHANGED <<proc, starts, report>>,
             x.job = "data" => Covered(x, proc[p].run, official'),
             \/ emptied'.data = proc[p].run
             \/ UNCHANGED official /\ emptied'.data = emptied.data
      PROVE  ReportedInv'
  <2>1. \A q \in Importers : imp'[q].job = "data" => Covered(imp'[q], proc'[q].run, official')
    BY <1>b, <1>d, <1>f
  <2>2. report.run < proc[p].run /\ proc[p].run \in Nat
    BY <1>a, <1>c, <1>f
  <2>3. ReportTrue'
    BY <1>c, <1>f, <2>2 DEF ReportTrue
  <2> QED BY <1>c, <1>f, <2>1, <2>3 DEF ReportedInv
<1>1. ASSUME NEW p \in Procs, Step(p), UNCHANGED importVars
      PROVE  ReportedInv'
  <2>1. UNCHANGED <<imp, official, report, emptied>>
    BY <1>1 DEF importVars
  <2>2. \A q \in Importers : imp[q].job = "data" => proc'[q] = proc[q]
    BY <1>1, <1>a, <1>b, StepElsewhere
  <2>3. \A q \in Procs : proc'[q].pc # "down" =>
          \/ proc[q].pc # "down" /\ proc'[q].run = proc[q].run /\ starts' \in {starts, starts + 1}
          \/ proc[q].pc = "down" /\ proc'[q].run = starts + 1 /\ starts' = starts + 1
    BY <1>1, <1>a, RunsNumbered
  <2>4. starts' \in {starts, starts + 1}
    BY <1>1 DEF Step, Start, ReadVersions, ExecStatement, Register, GetPublic, GetPrivate,
                SetPublic, SetPrivate, Report
  <2>5. report.run <= starts' /\ \A q \in Importers : proc'[q].pc # "down" => report.run < proc'[q].run
    BY <1>a, <1>c, <2>3, <2>4
  <2> QED BY <1>c, <2>1, <2>2, <2>5 DEF ReportedInv, ReportTrue
<1>2. ASSUME NEW p \in Procs, Abort(p)
      PROVE  ReportedInv'
  <2>1. /\ proc' = [proc EXCEPT ![p] = Off] /\ UNCHANGED <<starts, official, report, emptied>>
        /\ imp' = [q \in Importers |-> IF q = p THEN NoJob ELSE imp[q]]
    BY <1>2 DEF Abort, Exit
  <2>2. \A q \in Importers : imp'[q].job = "data" => imp'[q] = imp[q] /\ proc'[q] = proc[q]
    BY <1>a, <1>e, <2>1
  <2>3. \A q \in Importers : proc'[q].pc # "down" => proc'[q] = proc[q]
    BY <1>a, <1>e, <2>1
  <2> QED BY <1>c, <2>1, <2>2, <2>3 DEF ReportedInv, ReportTrue
<1>3. ASSUME NEW p \in Importers, ResetTables(p)
      PROVE  ReportedInv'
  <2> DEFINE x == [NoJob EXCEPT !.job = "data", !.batch = 1]
  <2>1. /\ proc[p].pc = "import" /\ imp' = [imp EXCEPT ![p] = x] /\ UNCHANGED <<proc, starts, report>>
        /\ emptied' = [emptied EXCEPT !.data = proc[p].run]
    BY <1>3 DEF ResetTables, At, vars
  <2>2. x.file = 1 /\ x.batch = 1 /\ x.rows = {}
    BY DEF NoJob
  <2> HIDE DEF x
  <2>3. \A b \in Batches : ~PastBatch(b, x)
    BY <2>2, BatchFacts DEF PastBatch
  <2>4. Covered(x, proc[p].run, official')
    BY <2>2, <2>3 DEF Covered
  <2>5. emptied'.data = proc[p].run
    BY <1>b, <2>1
  <2> QED BY <1>f, <2>1, <2>4, <2>5
<1>4. ASSUME NEW p \in Importers, LoadBatch(p)
      PROVE  ReportedInv'
  <2> DEFINE y == [imp[p] EXCEPT !.rows = @ \cup {<<imp[p].file, imp[p].batch>>}]
             off == official \cup {<<proc[p].run, imp[p].file, imp[p].batch>>}
  <2>1. /\ proc[p].pc = "import" /\ imp[p].job = "data" /\ imp[p].file \in DOMAIN Files
        /\ imp' = [imp EXCEPT ![p] = NextBatch(y)] /\ official' = off
        /\ UNCHANGED <<proc, starts, report, emptied>>
    BY <1>4 DEF LoadBatch, Loading, At, vars
  <2>2. /\ y \in JobShape /\ y.file = imp[p].file /\ y.batch = imp[p].batch
        /\ y.rows = imp[p].rows \cup {<<imp[p].file, imp[p].batch>>} /\ y.errors = imp[p].errors
    <3>1. imp[p] \in JobShape
      BY <1>b
    <3>2. y \in JobShape
      BY <3>1, AfterBatchShape
    <3> QED BY <3>1, <3>2 DEF JobShape
  <2>3. Covered(imp[p], proc[p].run, official) /\ emptied.data = proc[p].run
    BY <1>b, <1>c, <2>1
  <2> HIDE DEF y
  <2>4. Covered(y, proc[p].run, off)
    BY <2>2, <2>3 DEF Covered, PastBatch, Kept
  <2>5. Kept(<<y.file, y.batch>>, y, proc[p].run, off)
    BY <2>2 DEF Kept
  <2> HIDE DEF off
  <2>6. Covered(NextBatch(y), proc[p].run, off)
    BY <2>1, <2>2, <2>4, <2>5, CoveredNext
  <2> QED BY <1>f, <2>1, <2>3, <2>6
<1>5. ASSUME NEW p \in Importers, NEW stored \in BOOLEAN, BatchFails(p, stored)
      PROVE  ReportedInv'
  <2>1. /\ proc[p].pc = "import" /\ imp[p].job = "data" /\ imp[p].file \in DOMAIN Files
        /\ imp' = [imp EXCEPT ![p] = AfterError(imp[p])] /\ official \subseteq official'
        /\ UNCHANGED <<proc, starts, report, emptied>>
    BY <1>5 DEF BatchFails, Loading, At, vars
  <2>2. Covered(imp[p], proc[p].run, official) /\ emptied.data = proc[p].run /\ imp[p] \in JobShape
    BY <1>b, <1>c, <2>1
  <2>3. Covered(AfterError(imp[p]), proc[p].run, official')
    BY <2>1, <2>2, CoveredAfterError
  <2> QED BY <1>f, <2>1, <2>2, <2>3
<1>6. ASSUME NEW p \in Importers, End(p), proc[p].pc = "import"
      PROVE  /\ \A q \in Importers : imp'[q].job = "none" /\ proc'[q].pc = "down"
             /\ UNCHANGED starts
  BY <1>6, <1>a, <1>b, <1>d, <1>e DEF End
<1>7. ASSUME NEW p \in Importers, PrintReport(p)
      PROVE  ReportedInv'
  <2> DEFINE j == imp[p]
  <2>1. /\ proc[p].pc = "import" /\ j.job = "data" /\ j.file \notin DOMAIN Files /\ End(p)
        /\ report' = [run |-> proc[p].run, rows |-> j.rows, errors |-> j.errors]
        /\ UNCHANGED <<official, emptied>>
    BY <1>7 DEF PrintReport, At
  <2>2. Covered(j, proc[p].run, official) /\ j.file \in Nat
    BY <1>b, <1>c, <2>1 DEF JobShape
  <2> HIDE DEF j
  <2>3. \A b \in Batches : PastBatch(b, j)
    <3>1. j.file > Len(Files)
      BY <2>1, <2>2, BatchFacts DEF Covered
    <3> QED BY <2>2, <3>1, BatchFacts DEF PastBatch
  <2>4. /\ report'.run = proc[p].run /\ report'.rows = j.rows /\ report'.errors = j.errors
    BY <2>1
  <2>5. ReportTrue'
    BY <2>1, <2>2, <2>3, <2>4 DEF ReportTrue, Covered, Kept
  <2> QED BY <1>6, <1>a, <2>1, <2>4, <2>5 DEF ReportedInv
<1>8. ASSUME NEW p \in Importers, TruncateSynthesis(p)
      PROVE  ReportedInv'
  <2> DEFINE x == [NoJob EXCEPT !.job = "synthesis"]
  <2>1. x.job # "data"
    BY DEF NoJob
  <2>2. /\ proc[p].pc = "import" /\ imp' = [imp EXCEPT ![p] = x]
        /\ UNCHANGED <<proc, starts, report, official>> /\ emptied'.data = emptied.data
    BY <1>8, <1>b DEF TruncateSynthesis, At, vars
  <2> HIDE DEF x
  <2> QED BY <1>f, <2>1, <2>2
<1>9. ASSUME NEW p \in Importers, LoadPart(p)
      PROVE  ReportedInv'
  <2> DEFINE x == [imp[p] EXCEPT !.batch = @ + 1]
  <2>1. x.job = imp[p].job
    BY <1>b DEF JobShape
  <2>2. /\ proc[p].pc = "import" /\ imp[p].job = "synthesis" /\ imp' = [imp EXCEPT ![p] = x]
        /\ UNCHANGED <<proc, starts, report, official, emptied>>
    BY <1>9, <1>b DEF LoadPart, At, vars
  <2> HIDE DEF x
  <2> QED BY <1>f, <2>1, <2>2
<1>10. ASSUME NEW p \in Importers, PutMeta(p)
       PROVE  ReportedInv'
  <2>1. proc[p].pc = "import" /\ End(p) /\ UNCHANGED <<official, report, emptied>>
    BY <1>10 DEF PutMeta, At
  <2> QED BY <1>6, <1>c, <2>1 DEF ReportedInv, ReportTrue
<1>11. CASE UNCHANGED <<vars, importVars>>
  BY <1>11, <1>c DEF vars, importVars, ReportedInv, ReportTrue
<1> QED
  BY <1>1, <1>2, <1>3, <1>4, <1>5, <1>7, <1>8, <1>9, <1>10, <1>11 DEF DeployNext

(* The last Report of import-data is true of the tables until the next import,
   for any files and whatever batches fail (ImportData, Report). *)
THEOREM ReportIsTrue == DeploySpec => []ReportTrue
<1>1. DeployInit => ReportedInv
  <2> SUFFICES ASSUME DeployInit PROVE ReportedInv
    OBVIOUS
  <2>1. report.run = 0 /\ starts = 0
    BY DEF DeployInit, Init
  <2>2. \A p \in Importers : imp[p].job = "none" /\ proc[p].pc = "down"
    BY DEF DeployInit, Init, NoJob, Off, Procs
  <2> QED BY <2>1, <2>2 DEF ReportedInv, ReportTrue
<1>2. ReportedInv => ReportTrue
  BY DEF ReportedInv
<1> QED
  BY <1>1, <1>2, ReportedStep, LoadInvariant, KeyInvariant, DeploymentIsStartup, PTL DEF DeploySpec
=============================================================================
