--------------------------- MODULE StartupProofs ---------------------------
(* Proofs about Startup, for any servers and importers and any migrations. *)
EXTENDS Startup, TLAPS

(* What the assumption says of the migrations and their statements. *)
LEMMA ScriptFacts ==
    /\ Versions = 1..Len(Script) /\ Len(Script) \in Nat
    /\ \A v \in Versions : /\ DOMAIN Script[v] = 1..Len(Script[v])
                           /\ Len(Script[v]) \in Nat \ {0}
                           /\ \A k \in DOMAIN Script[v] : <<v, k>> \in Stmts
    /\ \A s \in Stmts : s[1] \in Versions /\ s[2] \in DOMAIN Script[s[1]] /\ s = <<s[1], s[2]>>
<1>1. Script \in Seq(Seq(Kinds) \ {<<>>})
  BY StartupAssumption
<1>2. Versions = 1..Len(Script) /\ Len(Script) \in Nat
  BY <1>1 DEF Versions
<1>3. ASSUME NEW v \in Versions
      PROVE  /\ DOMAIN Script[v] = 1..Len(Script[v])
             /\ Len(Script[v]) \in Nat \ {0}
  <2>1. Script[v] \in Seq(Kinds) /\ Script[v] # <<>>
    BY <1>1, <1>2 DEF Versions
  <2> QED BY <2>1
<1>4. \A v \in Versions : \A k \in DOMAIN Script[v] : <<v, k>> \in Stmts
  BY DEF Stmts
<1>5. \A s \in Stmts : s[1] \in Versions /\ s[2] \in DOMAIN Script[s[1]] /\ s = <<s[1], s[2]>>
  BY DEF Stmts
<1> QED BY <1>2, <1>3, <1>4, <1>5

(* Migrations are numbered. *)
LEMMA VersionsNat == \A v \in Versions : v \in Nat
BY ScriptFacts

(* Keys are natural numbers, and no key is none of them. *)
LEMMA KeyFacts == Keys \subseteq Nat /\ NoKey \notin Keys /\ 0..MaxStarts \subseteq Nat
BY StartupAssumption DEF Keys

(* The loop moves a run to the first statement of a migration, or out of Apply. *)
LEMMA AdvancedRun ==
    ASSUME NEW p \in Procs, NEW r \in Run, NEW v, r.run \in Keys, Advanced(p, r, v)
    PROVE  \E x \in Run : RunOK(x) /\ proc' = [proc EXCEPT ![p] = x]
<1>1. ASSUME NEW w \in Versions
      PROVE  [r EXCEPT !.pc = "exec", !.at = w, !.stmt = 1] \in Run
  <2>1. w \in Nat
    BY VersionsNat
  <2> QED BY <2>1 DEF Run
<1>2. ASSUME NEW w \in Versions
      PROVE  RunOK([r EXCEPT !.pc = "exec", !.at = w, !.stmt = 1])
  <2>1. <<w, 1>> \in Stmts
    BY ScriptFacts
  <2> QED BY <2>1 DEF RunOK, Run
<1>3. [r EXCEPT !.pc = AfterMigrations(p)] \in Run
  BY DEF Run, AfterMigrations
<1>4. RunOK([r EXCEPT !.pc = AfterMigrations(p)])
  BY DEF Run, AfterMigrations, RunOK
<1> QED BY <1>1, <1>2, <1>3, <1>4 DEF Advanced

(* The initial states have their types. *)
LEMMA StartupTypeInit == Init => TypeOK
<1> SUFFICES ASSUME Init PROVE TypeOK
  OBVIOUS
<1>1. Off \in Run /\ RunOK(Off) /\ 0 \in 0..MaxStarts
  BY StartupAssumption DEF Off, Run, RunOK
<1>2. \A n \in 0..Len(Script) : 1..n \subseteq Versions
  BY ScriptFacts
<1>3. copies \in [Seeds -> 0..2] /\ registered \subseteq Versions /\ done \subseteq Stmts
  BY <1>2 DEF Init
<1> QED BY <1>1, <1>3 DEF Init, TypeOK

(* Every step keeps the types. *)
LEMMA StartupTypeStep == TypeOK /\ [Next]_vars => TypeOK'
<1> SUFFICES ASSUME TypeOK, [Next]_vars PROVE TypeOK'
  OBVIOUS
<1>a. /\ proc \in [Procs -> Run] /\ \A p \in Procs : RunOK(proc[p])
      /\ starts \in 0..MaxStarts /\ registered \subseteq Versions /\ done \subseteq Stmts
      /\ copies \in [Seeds -> 0..2] /\ reported \in BOOLEAN
      /\ settings \in [pub : Keys \cup {NoKey}, priv : Keys \cup {NoKey}]
      /\ interrupted \subseteq Versions /\ served \subseteq Keys \cup {NoKey}
  BY DEF TypeOK
<1>c. ASSUME NEW p \in Procs
      PROVE  proc[p] \in Run /\ (proc[p].pc # "down" => proc[p].run \in Keys)
  BY <1>a DEF RunOK
<1>b. ASSUME NEW p \in Procs, NEW x \in Run, RunOK(x), proc' = [proc EXCEPT ![p] = x],
             starts' \in 0..MaxStarts, registered' \subseteq Versions, done' \subseteq Stmts,
             copies' \in [Seeds -> 0..2], reported' \in BOOLEAN,
             settings' \in [pub : Keys \cup {NoKey}, priv : Keys \cup {NoKey}],
             interrupted' \subseteq Versions, served' \subseteq Keys \cup {NoKey}
      PROVE  TypeOK'
  BY <1>a, <1>b DEF TypeOK
<1>1. ASSUME NEW p \in Procs, Start(p)
      PROVE  TypeOK'
  <2>1. starts + 1 \in 0..MaxStarts /\ starts + 1 \in Keys
    BY <1>1, <1>a, StartupAssumption DEF Start, Keys
  <2>2. [Off EXCEPT !.pc = "read", !.run = starts + 1] \in Run
    BY <2>1 DEF Run, Off
  <2>3. RunOK([Off EXCEPT !.pc = "read", !.run = starts + 1])
    BY <2>1 DEF RunOK, Off
  <2> QED BY <1>1, <1>a, <1>b, <2>1, <2>2, <2>3 DEF Start, dbVars
<1>2. ASSUME NEW p \in Procs, Exit(p)
      PROVE  TypeOK'
  <2>1. Off \in Run /\ RunOK(Off)
    BY StartupAssumption DEF Off, Run, RunOK
  <2> QED BY <1>2, <1>a, <1>b, <2>1 DEF Exit, dbVars
<1>3. ASSUME NEW p \in Procs, NEW ok \in BOOLEAN, ReadVersions(p, ok)
      PROVE  TypeOK'
  <2>1. [proc[p] EXCEPT !.known = Known(ok)] \in Run
    <3>1. Known(ok) \in SUBSET Versions /\ proc[p] \in Run
      BY <1>a DEF Known
    <3> QED BY <3>1 DEF Run
  <2>3. [proc[p] EXCEPT !.known = Known(ok)].run \in Keys
    BY <1>3, <1>c DEF ReadVersions, Run
  <2>2. \E x \in Run : RunOK(x) /\ proc' = [proc EXCEPT ![p] = x]
    BY <1>3, <2>1, <2>3, AdvancedRun DEF ReadVersions
  <2> QED BY <1>3, <1>a, <1>b, <2>2 DEF ReadVersions, dbVars
<1>4. ASSUME NEW p \in Procs, ExecStatement(p)
      PROVE  TypeOK'
  <2> DEFINE s == <<proc[p].at, proc[p].stmt>>
             x == IF s[2] < Len(Script[s[1]]) THEN [proc[p] EXCEPT !.stmt = s[2] + 1]
                                              ELSE [proc[p] EXCEPT !.pc = "register"]
  <2>1. s \in Stmts /\ proc[p] \in Run /\ proc[p].pc = "exec" /\ proc[p].run \in Keys
    BY <1>4, <1>a, <1>c DEF ExecStatement, RunOK
  <2>2. /\ s[1] \in Versions /\ s[2] \in 1..Len(Script[s[1]]) /\ Len(Script[s[1]]) \in Nat
        /\ \A k \in 1..Len(Script[s[1]]) : <<s[1], k>> \in Stmts
    BY <2>1, ScriptFacts
  <2>3. x \in Run
    <3>1. proc[p].stmt + 1 \in Nat
      BY <2>1 DEF Run
    <3>2. [proc[p] EXCEPT !.stmt = s[2] + 1] \in Run
      BY <2>1, <3>1 DEF Run
    <3>3. [proc[p] EXCEPT !.pc = "register"] \in Run
      BY <2>1 DEF Run
    <3> QED BY <3>2, <3>3
  <2>4. RunOK(x)
    <3>1. CASE s[2] < Len(Script[s[1]])
      <4>1. s[2] + 1 \in 1..Len(Script[s[1]])
        BY <2>2, <3>1
      <4>2. x.at = s[1] /\ x.stmt = s[2] + 1 /\ x.pc = "exec" /\ x.run \in Keys
        BY <2>1, <3>1 DEF Run
      <4> QED BY <2>2, <4>1, <4>2 DEF RunOK
    <3>2. CASE ~(s[2] < Len(Script[s[1]]))
      <4>1. x.at = s[1] /\ x.pc = "register" /\ x.run \in Keys
        BY <2>1, <3>2 DEF Run
      <4> QED BY <2>2, <4>1 DEF RunOK
    <3> QED BY <3>1, <3>2
  <2>5. copies' \in [Seeds -> 0..2]
    <3> DEFINE kind == Script[s[1]][s[2]]
    <3>1. copies' = CASE kind = "seed" -> [copies EXCEPT ![s] = OneMore(@)]
                      [] kind = "wipe" -> [t \in Seeds |-> 0]
                      [] OTHER         -> copies
      BY <1>4 DEF ExecStatement
    <3>2. kind = "seed" => s \in Seeds
      BY <2>1 DEF Seeds
    <3>3. \A n \in 0..2 : OneMore(n) \in 0..2
      BY DEF OneMore
    <3> HIDE DEF kind, s
    <3>4. CASE kind = "seed"
      <4>1. copies' = [copies EXCEPT ![s] = OneMore(@)]
        BY <3>1, <3>4
      <4> QED BY <1>a, <3>2, <3>3, <3>4, <4>1
    <3>5. CASE kind = "wipe"
      BY <3>1, <3>5
    <3>6. CASE kind \notin {"seed", "wipe"}
      BY <1>a, <3>1, <3>6
    <3> QED BY <3>4, <3>5, <3>6
  <2>6. reported' = (reported /\ Script[s[1]][s[2]] # "wipe")
    BY <1>4 DEF ExecStatement
  <2>8. reported' \in BOOLEAN
    BY <2>6
  <2>9. done' = done \cup {s}
    BY <1>4 DEF ExecStatement
  <2>10. proc' = [proc EXCEPT ![p] = x]
    <3>1. CASE s[2] < Len(Script[s[1]])
      BY <1>4, <1>a, <3>1 DEF ExecStatement
    <3>2. CASE ~(s[2] < Len(Script[s[1]]))
      BY <1>4, <1>a, <3>2 DEF ExecStatement
    <3> QED BY <3>1, <3>2
  <2>7. UNCHANGED <<starts, registered, settings, interrupted, served>>
    BY <1>4 DEF ExecStatement
  <2> HIDE DEF x, s
  <2> QED BY <1>a, <1>b, <2>1, <2>3, <2>4, <2>5, <2>7, <2>8, <2>9, <2>10
<1>5. ASSUME NEW p \in Procs, Register(p)
      PROVE  TypeOK'
  <2>1. proc[p] \in Run /\ proc[p].at \in Versions /\ proc[p].run \in Keys
    BY <1>5, <1>a, <1>c DEF Register, RunOK
  <2>2. \E x \in Run : RunOK(x) /\ proc' = [proc EXCEPT ![p] = x]
    BY <1>5, <2>1, AdvancedRun DEF Register
  <2> QED BY <1>5, <1>a, <1>b, <2>1, <2>2 DEF Register
<1>6. ASSUME NEW r \in Run, r.run \in Keys,
             NEW pc \in {"getpriv", "setpub", "setpriv", "up"},
             NEW pub \in Keys \cup {NoKey}, NEW priv \in Keys \cup {NoKey}
      PROVE  /\ [r EXCEPT !.pc = pc, !.pub = pub, !.priv = priv] \in Run
             /\ RunOK([r EXCEPT !.pc = pc, !.pub = pub, !.priv = priv])
  BY <1>6 DEF Run, RunOK
<1>7. ASSUME NEW p \in Procs, NEW pub \in Keys \cup {NoKey}, NEW priv \in Keys \cup {NoKey},
             proc[p].pc # "down", Serve(p, pub, priv),
             settings' \in [pub : Keys \cup {NoKey}, priv : Keys \cup {NoKey}],
             UNCHANGED <<starts, dbVars, interrupted>>
      PROVE  TypeOK'
  <2> DEFINE x == [proc[p] EXCEPT !.pc = "up", !.pub = pub, !.priv = priv]
  <2>1. proc' = [proc EXCEPT ![p] = x] /\ served' = served \cup {pub}
    BY <1>7 DEF Serve
  <2>2. x \in Run /\ RunOK(x)
    BY <1>7, <1>c, <1>6
  <2> HIDE DEF x
  <2> QED BY <1>a, <1>b, <1>7, <2>1, <2>2 DEF dbVars
<1>8. ASSUME NEW p \in Procs, GetPublic(p)
      PROVE  TypeOK'
  <2> DEFINE x == [proc[p] EXCEPT !.pc = "getpriv", !.pub = settings.pub]
  <2>1. proc' = [proc EXCEPT ![p] = x] /\ UNCHANGED <<starts, dbVars, settings, interrupted, served>>
    BY <1>8 DEF GetPublic
  <2>2. x \in Run /\ RunOK(x)
    <3>1. proc[p] \in Run /\ proc[p].run \in Keys /\ settings.pub \in Keys \cup {NoKey}
      BY <1>8, <1>a, <1>c DEF GetPublic
    <3> QED BY <3>1 DEF Run, RunOK
  <2> HIDE DEF x
  <2> QED BY <1>a, <1>b, <2>1, <2>2 DEF dbVars
<1>9. ASSUME NEW p \in Procs, GetPrivate(p)
      PROVE  TypeOK'
  <2>1. proc[p] \in Run /\ proc[p].pub \in Keys \cup {NoKey} /\ settings.priv \in Keys \cup {NoKey}
    BY <1>a DEF Run
  <2>2. UNCHANGED <<starts, dbVars, settings, interrupted>>
    BY <1>9 DEF GetPrivate
  <2>3. CASE Complete(proc[p].pub, settings.priv)
    <3>1. Serve(p, proc[p].pub, settings.priv)
      BY <1>9, <2>3 DEF GetPrivate
    <3>2. proc[p].pc # "down"
      BY <1>9 DEF GetPrivate
    <3> QED BY <1>a, <1>7, <2>1, <2>2, <3>1, <3>2
  <2>4. CASE ~Complete(proc[p].pub, settings.priv)
    <3> DEFINE x == [proc[p] EXCEPT !.pc = "setpub", !.pub = proc[p].run, !.priv = proc[p].run]
    <3>1. proc' = [proc EXCEPT ![p] = x] /\ UNCHANGED served
      BY <1>9, <2>4 DEF GetPrivate
    <3>2. proc[p].run \in Keys
      BY <1>9, <1>c DEF GetPrivate
    <3>3. x \in Run /\ RunOK(x)
      BY <1>6, <2>1, <3>2
    <3> HIDE DEF x
    <3> QED BY <1>a, <1>b, <2>2, <3>1, <3>3 DEF dbVars
  <2> QED BY <2>3, <2>4
<1>10. ASSUME NEW p \in Procs, SetPublic(p)
       PROVE  TypeOK'
  <2> DEFINE x == [proc[p] EXCEPT !.pc = "setpriv"]
  <2>1. proc[p] \in Run /\ proc[p].run \in Keys /\ proc[p].pub \in Keys \cup {NoKey}
    BY <1>10, <1>c DEF SetPublic, Run
  <2>2. /\ proc' = [proc EXCEPT ![p] = x] /\ settings' = [settings EXCEPT !.pub = proc[p].pub]
        /\ UNCHANGED <<starts, dbVars, interrupted, served>>
    BY <1>10 DEF SetPublic
  <2>3. x \in Run /\ RunOK(x)
    BY <2>1 DEF Run, RunOK
  <2>4. settings' \in [pub : Keys \cup {NoKey}, priv : Keys \cup {NoKey}]
    BY <1>a, <2>1, <2>2
  <2> HIDE DEF x
  <2> QED BY <1>a, <1>b, <2>2, <2>3, <2>4 DEF dbVars
<1>11. ASSUME NEW p \in Procs, SetPrivate(p)
       PROVE  TypeOK'
  <2>1. /\ proc[p].pub \in Keys \cup {NoKey} /\ proc[p].priv \in Keys \cup {NoKey}
        /\ proc[p].pc # "down"
    BY <1>11, <1>c DEF SetPrivate, Run
  <2>2. settings' \in [pub : Keys \cup {NoKey}, priv : Keys \cup {NoKey}]
    BY <1>11, <1>a, <2>1 DEF SetPrivate
  <2> QED BY <1>7, <1>11, <2>1, <2>2 DEF SetPrivate
<1>12. ASSUME NEW p \in Procs, Report(p)
       PROVE  TypeOK'
  BY <1>12, <1>a DEF Report, TypeOK
<1>13. CASE UNCHANGED vars
  BY <1>13, <1>a DEF vars, dbVars, TypeOK
<1> QED
  BY <1>1, <1>2, <1>3, <1>4, <1>5, <1>8, <1>9, <1>10, <1>11, <1>12, <1>13 DEF Next, Step

(* Type correctness of the processes, the tables they migrate and the keys
   (Migrator.Apply, LoadKeys). *)
THEOREM StartupTypeOK == Spec => []TypeOK
BY StartupTypeInit, StartupTypeStep, PTL DEF Spec

(***************************************************************************)
(* The schema.  What a run has behind it holds of the two tables, whoever  *)
(* else migrates: all earlier migrations and what it read are registered,  *)
(* the statements it is past have taken effect, and once it has left Apply *)
(* nothing is missing.                                                     *)
(***************************************************************************)
Migrated == {"getpub", "getpriv", "setpub", "setpriv", "up", "import"}

Behind(r, reg, dn) ==
    /\ r.pc \in {"exec", "register"} =>
          r.known \subseteq reg /\ \A u \in Versions : u < r.at => u \in reg
    /\ r.pc = "exec" => \A s \in Stmts : s[1] = r.at /\ s[2] < r.stmt => s \in dn
    /\ r.pc = "register" => \A s \in Stmts : s[1] = r.at => s \in dn
    /\ r.pc \in Migrated => reg = Versions

SchemaInv ==
    /\ TypeOK
    /\ RegisteredInOrder
    /\ \A p \in Procs : Behind(proc[p], registered, done)

(* What becomes of the run r when the loop has passed v. *)
Passed(x, r, v, p) ==
    \/ /\ x.pc = "exec" /\ x.at \in Versions /\ x.at > v /\ x.stmt = 1 /\ x.known = r.known
       /\ \A u \in Versions : v < u /\ u < x.at => u \in r.known
    \/ x.pc = AfterMigrations(p) /\ \A u \in Versions : u > v => u \in r.known

LEMMA AdvancedPasses ==
    ASSUME NEW p \in Procs, NEW r \in Run, NEW v, Advanced(p, r, v)
    PROVE  \E x : Passed(x, r, v, p) /\ proc' = [proc EXCEPT ![p] = x]
<1>1. ASSUME NEW w \in Versions, w > v, \A u \in Versions : v < u /\ u < w => u \in r.known
      PROVE  Passed([r EXCEPT !.pc = "exec", !.at = w, !.stmt = 1], r, v, p)
  <2> DEFINE x == [r EXCEPT !.pc = "exec", !.at = w, !.stmt = 1]
  <2>1. x.pc = "exec" /\ x.at = w /\ x.stmt = 1 /\ x.known = r.known
    BY DEF Run
  <2> HIDE DEF x
  <2>2. Passed(x, r, v, p)
    BY <1>1, <2>1 DEF Passed
  <2> QED BY <2>2 DEF x
<1>2. ASSUME \A u \in Versions : u > v => u \in r.known
      PROVE  Passed([r EXCEPT !.pc = AfterMigrations(p)], r, v, p)
  <2> DEFINE x == [r EXCEPT !.pc = AfterMigrations(p)]
  <2>1. x.pc = AfterMigrations(p)
    BY DEF Run
  <2> HIDE DEF x
  <2>2. Passed(x, r, v, p)
    BY <1>2, <2>1 DEF Passed
  <2> QED BY <2>2 DEF x
<1> QED BY <1>1, <1>2 DEF Advanced

(* The loop passes only what is registered. *)
LEMMA PassedBehind ==
    \A p, x, r, reg, dn : \A v \in Nat :
        /\ Passed(x, r, v, p) /\ r.known \subseteq reg /\ reg \subseteq Versions
        /\ \A u \in Versions : u <= v => u \in reg
        => Behind(x, reg, dn)
<1> SUFFICES ASSUME NEW p, NEW x, NEW r, NEW reg, NEW dn, NEW v \in Nat, Passed(x, r, v, p),
                    r.known \subseteq reg, reg \subseteq Versions,
                    \A u \in Versions : u <= v => u \in reg
             PROVE  Behind(x, reg, dn)
  OBVIOUS
<1>1. CASE x.pc = "exec"
  <2>1. /\ x.at \in Versions /\ x.stmt = 1 /\ x.known = r.known
        /\ \A u \in Versions : v < u /\ u < x.at => u \in r.known
    BY <1>1 DEF Passed, AfterMigrations
  <2>2. \A u \in Versions : u < x.at => u \in reg
    BY <2>1, VersionsNat
  <2>3. \A s \in Stmts : ~(s[2] < 1)
    BY ScriptFacts
  <2> QED BY <1>1, <2>1, <2>2, <2>3 DEF Behind, Migrated
<1>2. CASE x.pc # "exec"
  <2>1. x.pc \in {"getpub", "import"} /\ \A u \in Versions : u > v => u \in r.known
    BY <1>2 DEF Passed, AfterMigrations
  <2>2. reg = Versions
    BY <2>1, VersionsNat
  <2> QED BY <2>1, <2>2 DEF Behind, Migrated
<1> QED BY <1>1, <1>2

(* No other run makes less of what lies behind one. *)
LEMMA BehindGrows ==
    \A r, reg, dn, reg2, dn2 :
        Behind(r, reg, dn) /\ reg \subseteq reg2 /\ reg2 \subseteq Versions /\ dn \subseteq dn2
            => Behind(r, reg2, dn2)
<1> SUFFICES ASSUME NEW r, NEW reg, NEW dn, NEW reg2, NEW dn2, Behind(r, reg, dn),
                    reg \subseteq reg2, reg2 \subseteq Versions, dn \subseteq dn2
             PROVE  Behind(r, reg2, dn2)
  OBVIOUS
<1>1. r.pc \in {"exec", "register"} =>
          r.known \subseteq reg2 /\ \A u \in Versions : u < r.at => u \in reg2
  BY DEF Behind
<1>2. r.pc = "exec" => \A s \in Stmts : s[1] = r.at /\ s[2] < r.stmt => s \in dn2
  BY DEF Behind
<1>3. r.pc = "register" => \A s \in Stmts : s[1] = r.at => s \in dn2
  BY DEF Behind
<1>4. r.pc \in Migrated => reg2 = Versions
  BY DEF Behind
<1> QED BY <1>1, <1>2, <1>3, <1>4 DEF Behind

(* Every step keeps what each run has behind it, and registers in order. *)
LEMMA SchemaInvariant == Spec => []SchemaInv
<1>1. Init => SchemaInv
  <2> SUFFICES ASSUME Init PROVE RegisteredInOrder /\ \A p \in Procs : Behind(proc[p], registered, done)
    BY StartupTypeInit DEF SchemaInv
  <2>1. PICK n \in 0..Len(Script) : registered = 1..n /\ done = {s \in Stmts : s[1] <= n}
    BY DEF Init
  <2>2. RegisteredInOrder
    BY <2>1, ScriptFacts DEF RegisteredInOrder
  <2>3. \A p \in Procs : proc[p].pc = "down"
    BY DEF Init, Off
  <2> QED BY <2>2, <2>3 DEF Behind, Migrated
<1>2. SchemaInv /\ [Next]_vars => SchemaInv'
  <2> SUFFICES ASSUME SchemaInv, [Next]_vars PROVE SchemaInv'
    OBVIOUS
  <2>a. TypeOK /\ TypeOK' /\ RegisteredInOrder /\ \A p \in Procs : Behind(proc[p], registered, done)
    BY StartupTypeStep DEF SchemaInv
  <2>b. /\ proc \in [Procs -> Run] /\ registered \subseteq Versions /\ done \subseteq Stmts
        /\ registered' \subseteq Versions /\ done' \subseteq Stmts
    BY <2>a DEF TypeOK
  <2>c. ASSUME NEW p \in Procs, NEW x, proc' = [proc EXCEPT ![p] = x], RegisteredInOrder',
               registered \subseteq registered', done \subseteq done',
               Behind(x, registered', done')
        PROVE  SchemaInv'
    <3>1. \A q \in Procs : Behind(proc'[q], registered', done')
      BY <2>a, <2>b, <2>c, BehindGrows
    <3> QED BY <2>a, <2>c, <3>1 DEF SchemaInv
  <2>d. ASSUME NEW p \in Procs, NEW x, proc' = [proc EXCEPT ![p] = x],
               UNCHANGED <<registered, done>>, Behind(x, registered, done)
        PROVE  SchemaInv'
    BY <2>a, <2>c, <2>d DEF RegisteredInOrder
  <2>1. ASSUME NEW p \in Procs, Start(p)
        PROVE  SchemaInv'
    <3> DEFINE x == [Off EXCEPT !.pc = "read", !.run = starts + 1]
    <3>1. x.pc = "read"
      BY DEF Off
    <3>2. proc' = [proc EXCEPT ![p] = x] /\ UNCHANGED <<registered, done>>
      BY <2>1 DEF Start, dbVars
    <3> HIDE DEF x
    <3>3. Behind(x, registered, done)
      BY <3>1 DEF Behind, Migrated
    <3> QED BY <2>d, <3>2, <3>3
  <2>2. ASSUME NEW p \in Procs, Exit(p)
        PROVE  SchemaInv'
    <3>1. Behind(Off, registered, done)
      BY DEF Behind, Migrated, Off
    <3> QED BY <2>2, <2>d, <3>1 DEF Exit, dbVars
  <2>3. ASSUME NEW p \in Procs, NEW ok \in BOOLEAN, ReadVersions(p, ok)
        PROVE  SchemaInv'
    <3> DEFINE r == [proc[p] EXCEPT !.known = Known(ok)]
    <3>1. r \in Run /\ r.known \subseteq registered
      <4>1. Known(ok) \subseteq registered /\ proc[p] \in Run
        BY <2>b DEF Known
      <4> QED BY <2>b, <4>1 DEF Run
    <3>2. \A u \in Versions : u <= 0 => u \in registered
      BY ScriptFacts
    <3>3. Advanced(p, r, 0) /\ UNCHANGED <<registered, done>>
      BY <2>3 DEF ReadVersions, dbVars
    <3> HIDE DEF r
    <3>4. PICK x : Passed(x, r, 0, p) /\ proc' = [proc EXCEPT ![p] = x]
      BY <3>1, <3>3, AdvancedPasses
    <3>5. Behind(x, registered, done)
      BY <2>b, <3>1, <3>2, <3>4, PassedBehind
    <3> QED BY <2>d, <3>3, <3>4, <3>5
  <2>4. ASSUME NEW p \in Procs, ExecStatement(p)
        PROVE  SchemaInv'
    <3> DEFINE s == <<proc[p].at, proc[p].stmt>>
               x == IF s[2] < Len(Script[s[1]]) THEN [proc[p] EXCEPT !.stmt = s[2] + 1]
                                                ELSE [proc[p] EXCEPT !.pc = "register"]
    <3>1. s \in Stmts /\ proc[p] \in Run /\ proc[p].pc = "exec"
      BY <2>4, <2>a DEF ExecStatement, TypeOK, RunOK
    <3>2. done' = done \cup {s} /\ UNCHANGED registered
      BY <2>4 DEF ExecStatement
    <3>3. proc' = [proc EXCEPT ![p] = x]
      <4>1. CASE s[2] < Len(Script[s[1]])
        BY <2>4, <2>b, <4>1 DEF ExecStatement
      <4>2. CASE ~(s[2] < Len(Script[s[1]]))
        BY <2>4, <2>b, <4>2 DEF ExecStatement
      <4> QED BY <4>1, <4>2
    <3>4. /\ proc[p].known \subseteq registered /\ \A u \in Versions : u < s[1] => u \in registered
          /\ \A t \in Stmts : t[1] = s[1] /\ t[2] < s[2] => t \in done
      BY <2>a, <3>1 DEF Behind
    <3>5. \A t \in Stmts : /\ t = <<t[1], t[2]>> /\ t[2] \in Nat
                           /\ t[1] = s[1] => t[2] <= Len(Script[s[1]])
      BY ScriptFacts
    <3>6. s[2] \in Nat /\ Len(Script[s[1]]) \in Nat /\ s[2] <= Len(Script[s[1]])
      BY <3>1, ScriptFacts
    <3>7. \A t \in Stmts : t[1] = s[1] /\ t[2] <= s[2] => t \in done'
      <4> SUFFICES ASSUME NEW t \in Stmts, t[1] = s[1], t[2] <= s[2] PROVE t \in done'
        OBVIOUS
      <4>1. CASE t[2] < s[2]
        BY <3>2, <3>4, <4>1
      <4>2. CASE t[2] = s[2]
        BY <3>2, <3>5, <4>2
      <4> QED BY <3>5, <3>6, <4>1, <4>2
    <3>8. Behind(x, registered', done')
      <4>1. CASE s[2] < Len(Script[s[1]])
        <5>1. x.pc = "exec" /\ x.at = s[1] /\ x.stmt = s[2] + 1 /\ x.known = proc[p].known
          BY <3>1, <4>1 DEF Run
        <5>2. \A t \in Stmts : t[1] = s[1] /\ t[2] < s[2] + 1 => t \in done'
          BY <3>5, <3>6, <3>7
        <5> HIDE DEF x, s
        <5> QED BY <3>2, <3>4, <5>1, <5>2 DEF Behind, Migrated
      <4>2. CASE ~(s[2] < Len(Script[s[1]]))
        <5>1. x.pc = "register" /\ x.at = s[1] /\ x.known = proc[p].known
          BY <3>1, <4>2 DEF Run
        <5>2. \A t \in Stmts : t[1] = s[1] => t \in done'
          BY <3>5, <3>6, <3>7, <4>2
        <5> HIDE DEF x, s
        <5> QED BY <3>2, <3>4, <5>1, <5>2 DEF Behind, Migrated
      <4> QED BY <4>1, <4>2
    <3>9. RegisteredInOrder'
      BY <2>a, <3>2 DEF RegisteredInOrder
    <3> HIDE DEF x, s
    <3> QED BY <2>c, <3>2, <3>3, <3>8, <3>9
  <2>5. ASSUME NEW p \in Procs, Register(p)
        PROVE  SchemaInv'
    <3> DEFINE v == proc[p].at
    <3>1. /\ v \in Versions /\ v \in Nat /\ proc[p] \in Run /\ proc[p].pc = "register"
          /\ registered' = registered \cup {v} /\ UNCHANGED done /\ Advanced(p, proc[p], v)
      BY <2>5, <2>a, VersionsNat DEF Register, TypeOK, RunOK
    <3>2. /\ proc[p].known \subseteq registered /\ \A u \in Versions : u < v => u \in registered
          /\ \A t \in Stmts : t[1] = v => t \in done
      BY <2>a, <3>1 DEF Behind
    <3>3. \A u \in Versions : u <= v => u \in registered'
      BY <3>1, <3>2, VersionsNat
    <3>4. proc[p].known \subseteq registered' /\ registered' \in SUBSET Versions
      BY <2>b, <3>1, <3>2
    <3>5. RegisteredInOrder'
      BY <2>a, <3>1, <3>2 DEF RegisteredInOrder
    <3>6. PICK x : Passed(x, proc[p], v, p) /\ proc' = [proc EXCEPT ![p] = x]
      BY <3>1, AdvancedPasses
    <3>7. Behind(x, registered', done')
      BY <3>1, <3>3, <3>4, <3>6, PassedBehind
    <3> QED BY <2>c, <3>1, <3>5, <3>6, <3>7
  <2>6. ASSUME NEW p \in Procs, NEW x, proc[p].pc \in Migrated, x.pc \in Migrated,
               proc' = [proc EXCEPT ![p] = x], UNCHANGED <<registered, done>>
        PROVE  SchemaInv'
    <3>1. registered = Versions
      BY <2>a, <2>6 DEF Behind
    <3>2. x.pc \notin {"exec", "register"}
      BY <2>6 DEF Migrated
    <3> QED BY <2>d, <2>6, <3>1, <3>2 DEF Behind
  <2>7. ASSUME NEW p \in Procs, NEW pub, NEW priv, Serve(p, pub, priv),
               proc[p].pc \in Migrated, UNCHANGED <<registered, done>>
        PROVE  SchemaInv'
    <3> DEFINE x == [proc[p] EXCEPT !.pc = "up", !.pub = pub, !.priv = priv]
    <3>1. x.pc \in Migrated
      BY <2>b DEF Run, Migrated
    <3>2. proc' = [proc EXCEPT ![p] = x] /\ proc[p].pc \in Migrated /\ UNCHANGED <<registered, done>>
      BY <2>b, <2>7 DEF Serve, Migrated, dbVars
    <3> HIDE DEF x
    <3> QED BY <2>6, <3>1, <3>2
  <2>8. ASSUME NEW p \in Procs, GetPublic(p)
        PROVE  SchemaInv'
    <3> DEFINE x == [proc[p] EXCEPT !.pc = "getpriv", !.pub = settings.pub]
    <3>1. x.pc \in Migrated
      BY <2>b DEF Run, Migrated
    <3>2. proc' = [proc EXCEPT ![p] = x] /\ proc[p].pc \in Migrated /\ UNCHANGED <<registered, done>>
      BY <2>b, <2>8 DEF GetPublic, Migrated, dbVars
    <3> HIDE DEF x
    <3> QED BY <2>6, <3>1, <3>2
  <2>9. ASSUME NEW p \in Procs, GetPrivate(p)
        PROVE  SchemaInv'
    <3>1. CASE Complete(proc[p].pub, settings.priv)
      BY <2>7, <2>9, <3>1 DEF GetPrivate, Migrated, dbVars
    <3>2. CASE ~Complete(proc[p].pub, settings.priv)
      <4> DEFINE x == [proc[p] EXCEPT !.pc = "setpub", !.pub = proc[p].run, !.priv = proc[p].run]
      <4>1. x.pc \in Migrated
        BY <2>b DEF Run, Migrated
      <4>2. proc' = [proc EXCEPT ![p] = x] /\ proc[p].pc \in Migrated /\ UNCHANGED <<registered, done>>
        BY <2>b, <2>9, <3>2 DEF GetPrivate, Migrated, dbVars
      <4> HIDE DEF x
      <4> QED BY <2>6, <4>1, <4>2
    <3> QED BY <3>1, <3>2
  <2>10. ASSUME NEW p \in Procs, SetPublic(p)
         PROVE  SchemaInv'
    <3> DEFINE x == [proc[p] EXCEPT !.pc = "setpriv"]
    <3>1. x.pc \in Migrated
      BY <2>b DEF Run, Migrated
    <3>2. proc' = [proc EXCEPT ![p] = x] /\ proc[p].pc \in Migrated /\ UNCHANGED <<registered, done>>
      BY <2>b, <2>10 DEF SetPublic, Migrated, dbVars
    <3> HIDE DEF x
    <3> QED BY <2>6, <3>1, <3>2
  <2>11. ASSUME NEW p \in Procs, SetPrivate(p)
         PROVE  SchemaInv'
    BY <2>7, <2>11 DEF SetPrivate, Migrated, dbVars
  <2>12. ASSUME NEW p \in Procs, Report(p)
         PROVE  SchemaInv'
    BY <2>12, <2>a DEF Report, SchemaInv, RegisteredInOrder
  <2>13. CASE UNCHANGED vars
    BY <2>13, <2>a DEF vars, dbVars, SchemaInv, RegisteredInOrder
  <2> QED
    BY <2>1, <2>2, <2>3, <2>4, <2>5, <2>8, <2>9, <2>10, <2>11, <2>12, <2>13 DEF Next, Step
<1> QED BY <1>1, <1>2, PTL DEF Spec

(* Migrations are registered in their order and after their statements, for any
   number of processes that migrate at once and wherever they end
   (Migrator.Apply). *)
THEOREM MigrationsInOrder == Spec => []RegisteredInOrder
<1>1. SchemaInv => RegisteredInOrder
  BY DEF SchemaInv
<1> QED BY <1>1, SchemaInvariant, PTL

(* A server that is up has every migration behind it, those that others were
   running when it started included (runServe, applyMigrations). *)
THEOREM SchemaIsComplete == Spec => []ServesCompleteSchema
<1>1. SchemaInv => ServesCompleteSchema
  <2> SUFFICES ASSUME SchemaInv, NEW p \in Procs, proc[p].pc = "up"
               PROVE  registered = Versions /\ done = Stmts
    BY DEF ServesCompleteSchema
  <2>1. registered = Versions
    BY DEF SchemaInv, Behind, Migrated
  <2>2. \A s \in Stmts : s[1] \in registered
    BY <2>1, ScriptFacts
  <2>3. done \subseteq Stmts /\ \A s \in Stmts : s \in done
    BY <2>2 DEF SchemaInv, RegisteredInOrder, TypeOK
  <2> QED BY <2>1, <2>3
<1> QED BY <1>1, SchemaInvariant, PTL

(***************************************************************************)
(* The keys.  At most one server is in LoadKeys, and servers hold what is  *)
(* stored once the private key is: what the run r of p holds agrees with   *)
(* the table, and nobody serves before the private key is stored.          *)
(***************************************************************************)
Holds(p, r, set) ==
    /\ r.pc \in {"getpub", "getpriv", "setpub", "setpriv", "up"} => p \in Servers
    /\ r.pc = "getpriv" => r.pub = set.pub
    /\ r.pc \in {"setpub", "setpriv"} => r.pub \in Keys /\ r.priv = r.pub /\ set.priv = NoKey
    /\ r.pc = "setpriv" => set.pub = r.pub
    /\ r.pc = "up" => r.pub = set.pub /\ r.priv = set.priv /\ set.priv # NoKey

Paired(set, srv) ==
    /\ set.priv # NoKey => set.pub = set.priv
    /\ \A k \in srv : k = set.pub /\ set.priv # NoKey

OneStarts ==
    \A p, q \in Procs : Starting(p) /\ Starting(q) /\ (p \in Servers <=> q \in Servers) => p = q

KeyInv ==
    /\ TypeOK
    /\ OneStarts
    /\ Paired(settings, served)
    /\ \A p \in Procs : Holds(p, proc[p], settings)

(* A step keeps the number of a run that goes on, and numbers a new one. *)
LEMMA RunsNumbered ==
    ASSUME TypeOK, NEW p \in Procs, Step(p) \/ Exit(p), NEW q \in Procs, proc'[q].pc # "down"
    PROVE  \/ proc[q].pc # "down" /\ proc'[q].run = proc[q].run /\ starts' \in {starts, starts + 1}
           \/ proc[q].pc = "down" /\ proc'[q].run = starts + 1 /\ starts' = starts + 1
<1>a. proc \in [Procs -> Run]
  BY DEF TypeOK
<1>1. CASE Start(p)
  <2>1. [Off EXCEPT !.pc = "read", !.run = starts + 1].run = starts + 1
    BY DEF Off
  <2> QED BY <1>a, <1>1, <2>1 DEF Start
<1>2. CASE Exit(p)
  <2>1. Off.pc = "down"
    BY DEF Off
  <2> QED BY <1>a, <1>2, <2>1 DEF Exit
<1>3. ASSUME NEW x, x.run = proc[p].run, proc[p].pc # "down", proc' = [proc EXCEPT ![p] = x],
             UNCHANGED starts
      PROVE  proc[q].pc # "down" /\ proc'[q].run = proc[q].run /\ starts' = starts
  BY <1>a, <1>3
<1>4. ASSUME NEW r \in Run, r.run = proc[p].run, NEW v, Advanced(p, r, v),
             proc[p].pc # "down", UNCHANGED starts
      PROVE  proc[q].pc # "down" /\ proc'[q].run = proc[q].run /\ starts' = starts
  <2>1. \A w : [r EXCEPT !.pc = "exec", !.at = w, !.stmt = 1].run = r.run
    BY DEF Run
  <2>2. [r EXCEPT !.pc = AfterMigrations(p)].run = r.run
    BY DEF Run
  <2>3. \E x : x.run = proc[p].run /\ proc' = [proc EXCEPT ![p] = x]
    BY <1>4, <2>1, <2>2 DEF Advanced
  <2> QED BY <1>3, <1>4, <2>3
<1>5. ASSUME NEW ok \in BOOLEAN, ReadVersions(p, ok)
      PROVE  proc[q].pc # "down" /\ proc'[q].run = proc[q].run /\ starts' = starts
  <2> DEFINE r == [proc[p] EXCEPT !.known = Known(ok)]
  <2>1. Known(ok) \in SUBSET Versions /\ proc[p] \in Run
    BY <1>a DEF Known, TypeOK
  <2>2. r \in Run /\ r.run = proc[p].run
    BY <2>1 DEF Run
  <2>3. Advanced(p, r, 0) /\ proc[p].pc # "down" /\ UNCHANGED starts
    BY <1>5 DEF ReadVersions
  <2> HIDE DEF r
  <2> QED BY <1>4, <2>2, <2>3
<1>6. CASE ExecStatement(p)
  <2> DEFINE s == <<proc[p].at, proc[p].stmt>>
             x == IF s[2] < Len(Script[s[1]]) THEN [proc[p] EXCEPT !.stmt = s[2] + 1]
                                              ELSE [proc[p] EXCEPT !.pc = "register"]
  <2>1. proc' = [proc EXCEPT ![p] = x]
    <3>1. CASE s[2] < Len(Script[s[1]])
      BY <1>a, <1>6, <3>1 DEF ExecStatement
    <3>2. CASE ~(s[2] < Len(Script[s[1]]))
      BY <1>a, <1>6, <3>2 DEF ExecStatement
    <3> QED BY <3>1, <3>2
  <2>2. x.run = proc[p].run
    BY <1>a DEF Run
  <2>3. proc[p].pc # "down" /\ UNCHANGED starts
    BY <1>6 DEF ExecStatement
  <2> HIDE DEF x, s
  <2> QED BY <1>3, <2>1, <2>2, <2>3
<1>7. CASE Register(p)
  BY <1>a, <1>4, <1>7 DEF Register
<1>8. CASE GetPublic(p) \/ GetPrivate(p) \/ SetPublic(p) \/ SetPrivate(p)
  <2>1. \A pc, pub : [proc[p] EXCEPT !.pc = pc, !.pub = pub].run = proc[p].run
    BY <1>a DEF Run
  <2>2. \A pc : [proc[p] EXCEPT !.pc = pc].run = proc[p].run
    BY <1>a DEF Run
  <2>3. proc[p].pc # "down" /\ UNCHANGED starts
    BY <1>8 DEF GetPublic, GetPrivate, SetPublic, SetPrivate
  <2>4. \E x : x.run = proc[p].run /\ proc' = [proc EXCEPT ![p] = x]
    <3>1. CASE GetPublic(p)
      <4>1. proc' = [proc EXCEPT ![p] = [proc[p] EXCEPT !.pc = "getpriv", !.pub = settings.pub]]
        BY <3>1 DEF GetPublic
      <4> QED BY <2>1, <4>1
    <3>2. CASE GetPrivate(p)
      <4> DEFINE x == [proc[p] EXCEPT !.pc = "up", !.pub = proc[p].pub, !.priv = settings.priv]
                 y == [proc[p] EXCEPT !.pc = "setpub", !.pub = proc[p].run, !.priv = proc[p].run]
      <4>1. proc' = [proc EXCEPT ![p] = x] \/ proc' = [proc EXCEPT ![p] = y]
        BY <3>2 DEF GetPrivate, Serve
      <4>2. x.run = proc[p].run /\ y.run = proc[p].run
        BY <1>a DEF Run
      <4> HIDE DEF x, y
      <4> QED BY <4>1, <4>2
    <3>3. CASE SetPublic(p)
      <4>1. proc' = [proc EXCEPT ![p] = [proc[p] EXCEPT !.pc = "setpriv"]]
        BY <3>3 DEF SetPublic
      <4> QED BY <2>2, <4>1
    <3>4. CASE SetPrivate(p)
      <4> DEFINE x == [proc[p] EXCEPT !.pc = "up", !.pub = proc[p].pub, !.priv = proc[p].priv]
      <4>1. proc' = [proc EXCEPT ![p] = x]
        BY <3>4 DEF SetPrivate, Serve
      <4>2. x.run = proc[p].run
        BY <1>a DEF Run
      <4> HIDE DEF x
      <4> QED BY <4>1, <4>2
    <3> QED BY <1>8, <3>1, <3>2, <3>3, <3>4
  <2> QED BY <1>3, <2>3, <2>4
<1>9. CASE Report(p)
  BY <1>9 DEF Report
<1> QED BY <1>1, <1>2, <1>5, <1>6, <1>7, <1>8, <1>9 DEF Step

(* The tables agree with every run that reads or writes keys (LoadKeys). *)
LEMMA KeyInvariant == Spec => []KeyInv
<1>1. Init => KeyInv
  <2> SUFFICES ASSUME Init
               PROVE  OneStarts /\ Paired(settings, served)
                      /\ \A p \in Procs : Holds(p, proc[p], settings)
    BY StartupTypeInit DEF KeyInv
  <2>1. \A p \in Procs : proc[p].pc = "down"
    BY DEF Init, Off
  <2>2. settings.priv = NoKey /\ served = {}
    BY DEF Init
  <2> QED BY <2>1, <2>2 DEF OneStarts, Starting, Paired, Holds, Procs
<1>2. KeyInv /\ [Next]_vars => KeyInv'
  <2> SUFFICES ASSUME KeyInv, [Next]_vars PROVE KeyInv'
    OBVIOUS
  <2>a. /\ TypeOK /\ TypeOK' /\ OneStarts /\ Paired(settings, served)
        /\ \A p \in Procs : Holds(p, proc[p], settings)
    BY StartupTypeStep DEF KeyInv
  <2>b. /\ proc \in [Procs -> Run] /\ Servers \subseteq Procs
        /\ settings \in [pub : Keys \cup {NoKey}, priv : Keys \cup {NoKey}]
    BY <2>a DEF TypeOK, Procs
  <2>c. ASSUME NEW p \in Procs, NEW x, proc' = [proc EXCEPT ![p] = x],
               x.pc \notin {"down", "up"} => Starting(p)
        PROVE  OneStarts'
    BY <2>a, <2>b, <2>c DEF OneStarts, Starting
  <2>d. ASSUME NEW p \in Procs, NEW x, proc' = [proc EXCEPT ![p] = x],
               x.pc \notin {"down", "up"} => Starting(p),
               UNCHANGED <<settings, served>>, Holds(p, x, settings)
        PROVE  KeyInv'
    <3>1. \A q \in Procs : Holds(q, proc'[q], settings')
      BY <2>a, <2>b, <2>d
    <3> QED BY <2>a, <2>c, <2>d, <3>1 DEF KeyInv
  <2>e. ASSUME NEW p \in Procs, NEW r, NEW x, NEW v, Passed(x, r, v, p),
               proc' = [proc EXCEPT ![p] = x], Starting(p), UNCHANGED <<settings, served>>
        PROVE  KeyInv'
    <3>1. Holds(p, x, settings)
      BY <2>e DEF Passed, Holds, AfterMigrations
    <3> QED BY <2>d, <2>e, <3>1
  <2>1. ASSUME NEW p \in Procs, Start(p)
        PROVE  KeyInv'
    <3> DEFINE x == [Off EXCEPT !.pc = "read", !.run = starts + 1]
    <3>1. x.pc = "read"
      BY DEF Off
    <3>2. /\ proc' = [proc EXCEPT ![p] = x] /\ UNCHANGED <<settings, served>>
          /\ \A q \in Procs : (p \in Servers <=> q \in Servers) => ~Starting(q)
      BY <2>1 DEF Start, Idle, Procs
    <3> HIDE DEF x
    <3>3. \A q \in Procs : Holds(q, proc'[q], settings')
      BY <2>a, <2>b, <3>1, <3>2 DEF Holds
    <3>4. OneStarts'
      BY <2>a, <2>b, <3>1, <3>2 DEF OneStarts, Starting
    <3> QED BY <2>a, <3>2, <3>3, <3>4 DEF KeyInv
  <2>2. ASSUME NEW p \in Procs, Exit(p)
        PROVE  KeyInv'
    <3>1. Off.pc = "down" /\ Holds(p, Off, settings)
      BY DEF Holds, Off
    <3> QED BY <2>2, <2>d, <3>1 DEF Exit
  <2>3. ASSUME NEW p \in Procs, NEW ok \in BOOLEAN, ReadVersions(p, ok)
        PROVE  KeyInv'
    <3> DEFINE r == [proc[p] EXCEPT !.known = Known(ok)]
    <3>1. r \in Run
      <4>1. Known(ok) \in SUBSET Versions /\ proc[p] \in Run
        BY <2>a, <2>b DEF Known, TypeOK
      <4> QED BY <4>1 DEF Run
    <3>2. Advanced(p, r, 0) /\ Starting(p) /\ UNCHANGED <<settings, served>>
      BY <2>3 DEF ReadVersions, Starting
    <3> HIDE DEF r
    <3>3. PICK x : Passed(x, r, 0, p) /\ proc' = [proc EXCEPT ![p] = x]
      BY <3>1, <3>2, AdvancedPasses
    <3> QED BY <2>e, <3>2, <3>3
  <2>4. ASSUME NEW p \in Procs, ExecStatement(p)
        PROVE  KeyInv'
    <3> DEFINE s == <<proc[p].at, proc[p].stmt>>
               x == IF s[2] < Len(Script[s[1]]) THEN [proc[p] EXCEPT !.stmt = s[2] + 1]
                                                ELSE [proc[p] EXCEPT !.pc = "register"]
    <3>1. proc' = [proc EXCEPT ![p] = x]
      <4>1. CASE s[2] < Len(Script[s[1]])
        BY <2>4, <2>b, <4>1 DEF ExecStatement
      <4>2. CASE ~(s[2] < Len(Script[s[1]]))
        BY <2>4, <2>b, <4>2 DEF ExecStatement
      <4> QED BY <4>1, <4>2
    <3>2. proc[p].pc = "exec" /\ proc[p] \in Run /\ UNCHANGED <<settings, served>>
      BY <2>4, <2>b DEF ExecStatement
    <3>3. x.pc \in {"exec", "register"}
      BY <3>2 DEF Run
    <3>4. Starting(p)
      BY <3>2 DEF Starting
    <3> HIDE DEF x, s
    <3>5. Holds(p, x, settings)
      BY <3>3 DEF Holds
    <3> QED BY <2>d, <3>1, <3>2, <3>4, <3>5
  <2>5. ASSUME NEW p \in Procs, Register(p)
        PROVE  KeyInv'
    <3>1. /\ proc[p] \in Run /\ Advanced(p, proc[p], proc[p].at)
          /\ Starting(p) /\ UNCHANGED <<settings, served>>
      BY <2>5, <2>b DEF Register, Starting
    <3>2. PICK x : Passed(x, proc[p], proc[p].at, p) /\ proc' = [proc EXCEPT ![p] = x]
      BY <3>1, AdvancedPasses
    <3> QED BY <2>e, <3>1, <3>2
  <2>8. ASSUME NEW p \in Procs, GetPublic(p)
        PROVE  KeyInv'
    <3> DEFINE x == [proc[p] EXCEPT !.pc = "getpriv", !.pub = settings.pub]
    <3>1. x.pc = "getpriv" /\ x.pub = settings.pub
      BY <2>b DEF Run
    <3>2. /\ proc' = [proc EXCEPT ![p] = x] /\ proc[p].pc = "getpub" /\ Starting(p)
          /\ UNCHANGED <<settings, served>>
      BY <2>8 DEF GetPublic, Starting
    <3> HIDE DEF x
    <3>3. Holds(p, x, settings)
      BY <2>a, <3>1, <3>2 DEF Holds
    <3> QED BY <2>d, <3>2, <3>3
  <2>9. ASSUME NEW p \in Procs, GetPrivate(p)
        PROVE  KeyInv'
    <3>1. proc[p].pc = "getpriv" /\ Starting(p) /\ UNCHANGED settings
      BY <2>9 DEF GetPrivate, Starting
    <3>2. p \in Servers /\ proc[p].pub = settings.pub
      BY <2>a, <3>1 DEF Holds
    <3>3. CASE Complete(proc[p].pub, settings.priv)
      <4> DEFINE x == [proc[p] EXCEPT !.pc = "up", !.pub = proc[p].pub, !.priv = settings.priv]
      <4>1. x.pc = "up" /\ x.pub = settings.pub /\ x.priv = settings.priv
        BY <2>b, <3>2 DEF Run
      <4>2. proc' = [proc EXCEPT ![p] = x] /\ served' = served \cup {settings.pub}
        BY <2>9, <3>2, <3>3 DEF GetPrivate, Serve
      <4>3. settings.priv # NoKey
        BY <3>3 DEF Complete
      <4> HIDE DEF x
      <4>4. \A q \in Procs : Holds(q, proc'[q], settings')
        BY <2>a, <2>b, <3>1, <3>2, <4>1, <4>2, <4>3 DEF Holds
      <4>5. Paired(settings', served')
        BY <2>a, <3>1, <4>2, <4>3 DEF Paired
      <4>6. OneStarts'
        BY <2>c, <4>1, <4>2
      <4> QED BY <2>a, <4>4, <4>5, <4>6 DEF KeyInv
    <3>4. CASE ~Complete(proc[p].pub, settings.priv)
      <4> DEFINE x == [proc[p] EXCEPT !.pc = "setpub", !.pub = proc[p].run, !.priv = proc[p].run]
      <4>1. x.pc = "setpub" /\ x.pub = proc[p].run /\ x.priv = proc[p].run /\ proc[p].run \in Keys
        BY <2>a, <2>b, <3>1 DEF Run, TypeOK, RunOK
      <4>2. proc' = [proc EXCEPT ![p] = x] /\ UNCHANGED served
        BY <2>9, <3>4 DEF GetPrivate
      <4>3. settings.priv = NoKey
        BY <2>a, <3>2, <3>4 DEF Complete, Paired
      <4> HIDE DEF x
      <4>4. Holds(p, x, settings)
        BY <3>2, <4>1, <4>3 DEF Holds
      <4> QED BY <2>d, <3>1, <4>2, <4>4
    <3> QED BY <3>3, <3>4
  <2>f. ASSUME NEW p \in Servers, Starting(p), NEW q \in Procs, q # p
        PROVE  proc[q].pc \notin {"getpub", "getpriv", "setpub", "setpriv"}
    <3>1. q \in Servers => ~Starting(q)
      BY <2>a, <2>b, <2>f DEF OneStarts
    <3> QED BY <2>a, <3>1 DEF Starting, Holds
  <2>10. ASSUME NEW p \in Procs, SetPublic(p)
         PROVE  KeyInv'
    <3> DEFINE x == [proc[p] EXCEPT !.pc = "setpriv"]
    <3>1. x.pc = "setpriv" /\ x.pub = proc[p].pub /\ x.priv = proc[p].priv
      BY <2>b DEF Run
    <3>2. /\ proc' = [proc EXCEPT ![p] = x] /\ proc[p].pc = "setpub" /\ Starting(p)
          /\ settings' = [settings EXCEPT !.pub = proc[p].pub] /\ UNCHANGED served
      BY <2>10 DEF SetPublic, Starting
    <3>3. p \in Servers /\ proc[p].pub \in Keys /\ proc[p].priv = proc[p].pub /\ settings.priv = NoKey
      BY <2>a, <3>2 DEF Holds
    <3>4. settings'.pub = proc[p].pub /\ settings'.priv = NoKey
      BY <2>b, <3>2, <3>3
    <3> HIDE DEF x
    <3>5. \A q \in Procs : q # p => proc[q].pc \notin {"getpub", "getpriv", "setpub", "setpriv", "up"}
      BY <2>a, <2>f, <3>2, <3>3 DEF Holds
    <3>6. \A q \in Procs : Holds(q, proc'[q], settings')
      BY <2>b, <3>1, <3>2, <3>3, <3>4, <3>5 DEF Holds
    <3>7. Paired(settings', served')
      BY <2>a, <3>2, <3>3, <3>4 DEF Paired
    <3>8. OneStarts'
      BY <2>c, <3>2
    <3> QED BY <2>a, <3>6, <3>7, <3>8 DEF KeyInv
  <2>11. ASSUME NEW p \in Procs, SetPrivate(p)
         PROVE  KeyInv'
    <3> DEFINE x == [proc[p] EXCEPT !.pc = "up", !.pub = proc[p].pub, !.priv = proc[p].priv]
    <3>1. x.pc = "up" /\ x.pub = proc[p].pub /\ x.priv = proc[p].priv
      BY <2>b DEF Run
    <3>2. /\ proc' = [proc EXCEPT ![p] = x] /\ proc[p].pc = "setpriv" /\ Starting(p)
          /\ settings' = [settings EXCEPT !.priv = proc[p].priv] /\ served' = served \cup {proc[p].pub}
      BY <2>11 DEF SetPrivate, Serve, Starting
    <3>3. /\ p \in Servers /\ proc[p].pub \in Keys /\ proc[p].priv = proc[p].pub
          /\ settings.priv = NoKey /\ settings.pub = proc[p].pub
      BY <2>a, <3>2 DEF Holds
    <3>4. settings'.pub = proc[p].pub /\ settings'.priv = proc[p].pub /\ proc[p].pub # NoKey
      BY <2>b, <3>2, <3>3, KeyFacts
    <3> HIDE DEF x
    <3>5. \A q \in Procs : q # p => proc[q].pc \notin {"getpub", "getpriv", "setpub", "setpriv", "up"}
      BY <2>a, <2>f, <3>2, <3>3 DEF Holds
    <3>6. \A q \in Procs : Holds(q, proc'[q], settings')
      BY <2>b, <3>1, <3>2, <3>3, <3>4, <3>5 DEF Holds
    <3>7. Paired(settings', served')
      BY <2>a, <3>2, <3>3, <3>4 DEF Paired
    <3>8. OneStarts'
      BY <2>c, <3>1, <3>2
    <3> QED BY <2>a, <3>6, <3>7, <3>8 DEF KeyInv
  <2>12. ASSUME NEW p \in Procs, Report(p)
         PROVE  KeyInv'
    BY <2>12, <2>a DEF Report, KeyInv, OneStarts, Starting
  <2>13. CASE UNCHANGED vars
    BY <2>13, <2>a DEF vars, dbVars, KeyInv, OneStarts, Starting
  <2> QED
    BY <2>1, <2>2, <2>3, <2>4, <2>5, <2>8, <2>9, <2>10, <2>11, <2>12, <2>13 DEF Next, Step
<1> QED BY <1>1, <1>2, PTL DEF Spec

(* One key for all browsers, and its private half in every server and in
   app_settings, for any number of restarts and wherever they end (LoadKeys). *)
THEOREM KeysAreStable == Spec => []KeysStable
<1>1. KeyInv => KeysStable
  <2> SUFFICES ASSUME KeyInv PROVE KeysStable
    OBVIOUS
  <2>1. \A x, y \in served : x = y
    BY DEF KeyInv, Paired
  <2>2. settings = [pub |-> settings.pub, priv |-> settings.priv]
    BY DEF KeyInv, TypeOK
  <2>3. \A p \in Procs : proc[p].pc = "up" =>
            proc[p].pub = settings.pub /\ proc[p].priv = settings.priv /\ settings.pub = settings.priv
    BY DEF KeyInv, Holds, Paired
  <2> QED BY <2>1, <2>2, <2>3 DEF KeysStable
<1> QED BY <1>1, KeyInvariant, PTL

(***************************************************************************)
(* What visitors and migrations write in resources.                        *)
(***************************************************************************)

(* Reports come after the last migration, so a TRUNCATE that some run is still
   about to try finds the table that references resources. *)
ReportInv == SchemaInv /\ (reported => registered = Versions)

LEMMA ReportInvariant == Spec => []ReportInv
<1>1. Init => (reported => registered = Versions)
  BY DEF Init
<1>2. SchemaInv /\ SchemaInv' /\ ReportInv /\ [Next]_vars => ReportInv'
  <2> SUFFICES ASSUME SchemaInv, SchemaInv', ReportInv, [Next]_vars, reported'
               PROVE  registered' = Versions
    BY DEF ReportInv
  <2>1. registered \subseteq Versions /\ registered' \subseteq Versions
    BY DEF SchemaInv, TypeOK
  <2>2. registered \subseteq registered'
    BY DEF Next, Step, Start, Exit, ReadVersions, ExecStatement, Register, GetPublic, GetPrivate,
           SetPublic, SetPrivate, Report, vars, dbVars
  <2>3. CASE reported
    BY <2>1, <2>2, <2>3 DEF ReportInv
  <2>4. CASE ~reported
    <3>1. PICK p \in Procs : Report(p)
      BY <2>4 DEF Next, Step, Start, Exit, ReadVersions, ExecStatement, Register, GetPublic,
                  GetPrivate, SetPublic, SetPrivate, vars, dbVars
    <3> QED BY <3>1 DEF Report, SchemaInv, Behind, Migrated
  <2> QED BY <2>3, <2>4
<1> QED BY <1>1, <1>2, SchemaInvariant, PTL DEF Spec, ReportInv

(* No migration removes what visitors reported, though a run that read the
   versions long ago, or could not read them, may be about to try (0006). *)
THEOREM ReportsAreKept == Spec => ReportsSurvive
<1>1. ReportInv /\ [Next]_vars => [reported => reported']_reported
  <2> SUFFICES ASSUME ReportInv, Next, reported, ~reported' PROVE FALSE
    BY DEF vars, dbVars
  <2>1. PICK p \in Procs : ExecStatement(p)
    BY DEF Next, Step, Start, Exit, ReadVersions, Register, GetPublic, GetPrivate, SetPublic,
           SetPrivate, Report, dbVars
  <2>2. ~Referenced
    BY <2>1 DEF ExecStatement, CanRun
  <2>3. done = Stmts
    <3>1. registered = Versions /\ done \subseteq Stmts
      BY DEF ReportInv, SchemaInv, TypeOK
    <3>2. \A t \in Stmts : t[1] \in registered
      BY <3>1, ScriptFacts
    <3> QED BY <3>1, <3>2 DEF ReportInv, SchemaInv, RegisteredInOrder
  <2> QED BY <2>2, <2>3, ReferenceAssumption DEF Referenced
<1> QED BY <1>1, ReportInvariant, PTL DEF Spec, ReportsSurvive

(* Rows of a seed that are there once are registered, left by an interrupted run
   or about to be registered; rows that are there twice came from two runs, of
   which at most one can register. *)
CopiesInv ==
    \A s \in Seeds :
        /\ copies[s] # 0 => s[1] \in registered \/ s[1] \in interrupted \/ \E p \in Procs : Past(p, s)
        /\ copies[s] = 2 => \/ s[1] \in interrupted
                            \/ \E p, q \in Procs : p # q /\ Past(p, s) /\ Past(q, s)
                            \/ s[1] \in registered /\ \E p \in Procs : Past(p, s)

(* Every step keeps the account of the rows (Migrator.Apply). *)
LEMMA CopiesInvariant == Spec => [](TypeOK /\ CopiesInv)
<1>1. Init => CopiesInv
  <2> SUFFICES ASSUME Init, NEW s \in Seeds PROVE copies[s] \in {0, 1} /\ (copies[s] = 1 => s[1] \in registered)
    BY DEF CopiesInv
  <2>1. PICK n \in 0..Len(Script) :
          /\ registered = 1..n /\ done = {t \in Stmts : t[1] <= n}
          /\ copies = [t \in Seeds |-> IF t \in done /\ \A w \in done : Wipes(w) => ~Before(t, w)
                                       THEN 1 ELSE 0]
    BY DEF Init
  <2>2. copies[s] \in {0, 1} /\ (copies[s] = 1 => s \in done)
    BY <2>1
  <2>3. s \in done => s[1] \in registered
    BY <2>1, ScriptFacts
  <2> QED BY <2>2, <2>3
<1>2. TypeOK /\ CopiesInv /\ [Next]_vars => CopiesInv'
  <2> SUFFICES ASSUME TypeOK, CopiesInv, [Next]_vars PROVE CopiesInv'
    OBVIOUS
  <2>a. proc \in [Procs -> Run] /\ copies \in [Seeds -> 0..2] /\ \A p \in Procs : RunOK(proc[p])
    BY DEF TypeOK
  <2>b. ASSUME NEW p \in Procs, NEW x, proc' = [proc EXCEPT ![p] = x],
               NEW s \in Seeds, NEW q \in Procs, q # p
        PROVE  Past(q, s)' <=> Past(q, s)
    BY <2>a, <2>b DEF Past
  <2>c. ASSUME NEW p \in Procs, NEW x, proc' = [proc EXCEPT ![p] = x],
               \A s \in Seeds : Past(p, s) => Past(p, s)',
               UNCHANGED <<copies, registered, interrupted>>
        PROVE  CopiesInv'
    BY <2>b, <2>c DEF CopiesInv
  <2>e. ASSUME NEW p \in Procs, registered \subseteq registered', interrupted \subseteq interrupted',
               UNCHANGED copies,
               \A s \in Seeds : Past(p, s) => s[1] \in interrupted',
               \A s \in Seeds : ~Past(p, s) => \A q \in Procs : Past(q, s) => Past(q, s)'
        PROVE  CopiesInv'
    <3> SUFFICES ASSUME NEW s \in Seeds
                 PROVE  /\ copies'[s] # 0 => s[1] \in registered' \/ s[1] \in interrupted'
                                             \/ \E q \in Procs : Past(q, s)'
                        /\ copies'[s] = 2 =>
                             \/ s[1] \in interrupted'
                             \/ \E q, r \in Procs : q # r /\ Past(q, s)' /\ Past(r, s)'
                             \/ s[1] \in registered' /\ \E q \in Procs : Past(q, s)'
      BY DEF CopiesInv
    <3>1. CASE Past(p, s)
      BY <2>e, <3>1
    <3>2. CASE ~Past(p, s)
      BY <2>e, <3>2 DEF CopiesInv
    <3> QED BY <3>1, <3>2
  <2>d. ASSUME NEW p \in Procs, NEW x, proc' = [proc EXCEPT ![p] = x],
               proc[p].pc \notin {"exec", "register"}, UNCHANGED <<copies, registered, interrupted>>
        PROVE  CopiesInv'
    BY <2>c, <2>d DEF Past
  <2>1. ASSUME NEW p \in Procs, Exit(p)
        PROVE  CopiesInv'
    <3>1. /\ proc' = [proc EXCEPT ![p] = Off] /\ UNCHANGED <<copies, registered>>
          /\ interrupted' = interrupted \cup {v \in Versions : \E s \in Stmts : s[1] = v /\ Past(p, s)}
      BY <2>1 DEF Exit, dbVars
    <3>2. \A s \in Seeds : Past(p, s) => s[1] \in interrupted'
      BY <3>1, ScriptFacts DEF Seeds
    <3>3. interrupted \subseteq interrupted'
      BY <3>1
    <3>4. ASSUME NEW s \in Seeds, ~Past(p, s), NEW q \in Procs, Past(q, s)
          PROVE  Past(q, s)'
      BY <2>b, <3>1, <3>4
    <3> QED BY <2>e, <3>1, <3>2, <3>3, <3>4
  <2>2. ASSUME NEW p \in Procs, ExecStatement(p)
        PROVE  CopiesInv'
    <3>0. PICK t : t = <<proc[p].at, proc[p].stmt>>
      OBVIOUS
    <3> DEFINE x == IF t[2] < Len(Script[t[1]]) THEN [proc[p] EXCEPT !.stmt = t[2] + 1]
                                                ELSE [proc[p] EXCEPT !.pc = "register"]
               kind == Script[t[1]][t[2]]
    <3>1. t \in Stmts /\ proc[p] \in Run /\ proc[p].pc = "exec"
      BY <2>2, <2>a, <3>0 DEF ExecStatement, RunOK
    <3>2. proc' = [proc EXCEPT ![p] = x]
      <4>1. CASE t[2] < Len(Script[t[1]])
        BY <2>2, <2>a, <3>0, <4>1 DEF ExecStatement
      <4>2. CASE ~(t[2] < Len(Script[t[1]]))
        BY <2>2, <2>a, <3>0, <4>2 DEF ExecStatement
      <4> QED BY <4>1, <4>2
    <3>3. proc'[p] = x /\ t[2] \in Nat /\ proc[p].at = t[1] /\ proc[p].stmt = t[2]
      BY <2>a, <3>0, <3>1, <3>2, ScriptFacts
    <3>4. x.at = t[1] /\ (x.pc = "register" \/ (x.pc = "exec" /\ x.stmt = t[2] + 1))
      <4>1. CASE t[2] < Len(Script[t[1]])
        BY <3>0, <3>1, <4>1 DEF Run
      <4>2. CASE ~(t[2] < Len(Script[t[1]]))
        BY <3>0, <3>1, <4>2 DEF Run
      <4> QED BY <4>1, <4>2
    <3>5. \A s \in Stmts : s[2] \in Nat
      BY ScriptFacts
    <3> HIDE DEF x
    <3>6. ~Past(p, t) /\ Past(p, t)' /\ \A s \in Seeds : Past(p, s) => Past(p, s)'
      <4>1. ~Past(p, t)
        BY <3>1, <3>3 DEF Past
      <4>2. Past(p, t)'
        BY <3>3, <3>4 DEF Past
      <4>3. ASSUME NEW s \in Seeds, Past(p, s)
            PROVE  Past(p, s)'
        <5>1. s[1] = t[1] /\ s[2] < t[2] /\ s[2] \in Nat
          BY <3>1, <3>3, <3>5, <4>3 DEF Past, Seeds
        <5> QED BY <3>3, <3>4, <5>1 DEF Past
      <4> QED BY <4>1, <4>2, <4>3
    <3>7. /\ copies' = CASE kind = "seed" -> [copies EXCEPT ![t] = OneMore(@)]
                         [] kind = "wipe" -> [s \in Seeds |-> 0]
                         [] OTHER         -> copies
          /\ UNCHANGED <<registered, interrupted>>
      BY <2>2, <3>0 DEF ExecStatement
    <3>8. kind = "seed" <=> t \in Seeds
      BY <3>1 DEF Seeds
    <3> HIDE DEF kind
    <3>9. CASE kind = "wipe"
      BY <3>7, <3>9 DEF CopiesInv
    <3>10. CASE kind \notin {"seed", "wipe"}
      BY <2>c, <3>2, <3>6, <3>7, <3>10
    <3>11. CASE kind = "seed"
      <4>1. copies' = [copies EXCEPT ![t] = OneMore(@)] /\ t \in Seeds
        BY <3>7, <3>8, <3>11
      <4>2. copies'[t] = 2 => copies[t] # 0
        BY <2>a, <4>1 DEF OneMore
      <4>3. ASSUME NEW s \in Seeds, s # t
            PROVE  copies'[s] = copies[s]
        BY <2>a, <4>1, <4>3
      <4>4. \A s \in Seeds : \A q \in Procs : Past(q, s) => Past(q, s)'
        BY <2>b, <3>2, <3>6
      <4>5. ASSUME NEW q \in Procs, Past(q, t)
            PROVE  q # p /\ Past(q, t)'
        <5>1. q # p
          BY <3>6, <4>5
        <5>2. Past(q, t)'
          BY <4>1, <4>4, <4>5
        <5> QED BY <5>1, <5>2
      <4>6. ASSUME NEW s \in Seeds
            PROVE  /\ copies'[s] # 0 => s[1] \in registered' \/ s[1] \in interrupted'
                                        \/ \E q \in Procs : Past(q, s)'
                   /\ copies'[s] = 2 =>
                        \/ s[1] \in interrupted'
                        \/ \E q, r \in Procs : q # r /\ Past(q, s)' /\ Past(r, s)'
                        \/ s[1] \in registered' /\ \E q \in Procs : Past(q, s)'
        <5>1. CASE s = t
          <6>1. Past(p, t)'
            BY <3>6
          <6>2. copies[t] # 0 => t[1] \in registered \/ t[1] \in interrupted \/ \E q \in Procs : Past(q, t)
            BY <4>1 DEF CopiesInv
          <6> QED BY <3>7, <4>2, <4>5, <5>1, <6>1, <6>2
        <5>2. CASE s # t
          BY <3>7, <4>3, <4>4, <5>2 DEF CopiesInv
        <5> QED BY <5>1, <5>2
      <4> QED BY <4>6 DEF CopiesInv
    <3> QED BY <3>9, <3>10, <3>11
  <2>3. ASSUME NEW p \in Procs, Register(p)
        PROVE  CopiesInv'
    <3>1. /\ proc[p] \in Run /\ Advanced(p, proc[p], proc[p].at) /\ proc[p].at \notin registered
          /\ registered' = registered \cup {proc[p].at} /\ UNCHANGED <<copies, interrupted>>
      BY <2>3, <2>a DEF Register, CanRegister
    <3>2. PICK x : proc' = [proc EXCEPT ![p] = x]
      BY <3>1, AdvancedPasses
    <3>3. \A s \in Seeds : Past(p, s) => s[1] \in registered' /\ s[1] \notin registered
      BY <3>1 DEF Past
    <3> QED BY <2>b, <3>1, <3>2, <3>3 DEF CopiesInv
  <2>4. ASSUME NEW p \in Procs, NEW ok \in BOOLEAN, ReadVersions(p, ok)
        PROVE  CopiesInv'
    <3> DEFINE r == [proc[p] EXCEPT !.known = Known(ok)]
    <3>1. r \in Run
      <4>1. Known(ok) \in SUBSET Versions /\ proc[p] \in Run
        BY <2>a DEF Known, TypeOK
      <4> QED BY <4>1 DEF Run
    <3>2. Advanced(p, r, 0) /\ proc[p].pc = "read" /\ UNCHANGED <<copies, registered, interrupted>>
      BY <2>4 DEF ReadVersions, dbVars
    <3> HIDE DEF r
    <3>3. PICK x : proc' = [proc EXCEPT ![p] = x]
      BY <3>1, <3>2, AdvancedPasses
    <3> QED BY <2>d, <3>2, <3>3
  <2>5. ASSUME NEW p \in Procs, Start(p) \/ GetPublic(p) \/ GetPrivate(p) \/ SetPublic(p) \/ SetPrivate(p)
        PROVE  CopiesInv'
    <3>1. /\ UNCHANGED <<copies, registered, interrupted>>
          /\ proc[p].pc \in {"down", "getpub", "getpriv", "setpub", "setpriv"}
      BY <2>5 DEF Start, GetPublic, GetPrivate, SetPublic, SetPrivate, dbVars
    <3>2. \A q \in Procs : q # p => proc'[q] = proc[q]
      BY <2>5, <2>a DEF Start, GetPublic, GetPrivate, SetPublic, SetPrivate, Serve
    <3>3. \A s \in Seeds : \A q \in Procs : Past(q, s) => Past(q, s)'
      BY <3>1, <3>2 DEF Past
    <3> QED BY <3>1, <3>3 DEF CopiesInv
  <2>6. ASSUME NEW p \in Procs, Report(p)
        PROVE  CopiesInv'
    BY <2>6 DEF Report, CopiesInv, Past
  <2>7. CASE UNCHANGED vars
    BY <2>7 DEF vars, dbVars, CopiesInv, Past
  <2> QED
    BY <2>1, <2>2, <2>3, <2>4, <2>5, <2>6, <2>7 DEF Next, Step
<1> QED BY <1>1, <1>2, StartupTypeInit, StartupTypeStep, PTL DEF Spec

(* A seed is there twice only if some run was cut short between its statements
   and their registration, or will be (Migrator.Apply has no transaction). *)
THEOREM TwiceOnlyIfInterrupted == Spec => []SeededTwiceOnlyIfInterrupted
<1>1. CopiesInv => SeededTwiceOnlyIfInterrupted
  BY DEF CopiesInv, SeededTwiceOnlyIfInterrupted
<1> QED BY <1>1, CopiesInvariant, PTL
=============================================================================
