------------------------------ MODULE Startup ------------------------------
(***************************************************************************)
(* What a process does before it serves or imports: it applies the         *)
(* embedded migrations (internal/db/migrate.go) and, if it is a server,    *)
(* loads the VAPID keys or makes them (internal/push/push.go).  Neither    *)
(* runs in a transaction nor takes a lock.                                 *)
(*                                                                         *)
(* docker-compose.yml runs one server, and its first lines have the        *)
(* operator run the importers inside that container: servers start one at  *)
(* a time, though an older one may still be serving, and an importer may   *)
(* migrate while a server does.                                            *)
(***************************************************************************)
EXTENDS Naturals, Sequences, FiniteSets

CONSTANTS
    Servers,     \* processes that run "serve"
    Importers,   \* processes that run "import-data" or "import-synthesis"
    Script,      \* the migrations in order, each split into its statements
    MaxStarts,   \* bound on the processes started
    NoKey

\* "reference" creates resource_validations, whose foreign key keeps resources
\* from being truncated; "create" is any other statement that may be repeated.
Kinds == {"create", "seed", "wipe", "reference"}

ASSUME StartupAssumption ==
    /\ Servers \cap Importers = {}
    /\ Script \in Seq(Seq(Kinds) \ {<<>>})
    /\ MaxStarts \in Nat
    /\ NoKey \notin Nat

Procs    == Servers \cup Importers
Versions == DOMAIN Script
Stmts    == UNION {{<<v, k>> : k \in DOMAIN Script[v]} : v \in Versions}

\* 0008 creates resource_validations.
ASSUME ReferenceAssumption == \E s \in Stmts : Script[s[1]][s[2]] = "reference"

Seeds    == {s \in Stmts : Script[s[1]][s[2]] = "seed"}
Wipes(s) == Script[s[1]][s[2]] = "wipe"

Before(s, t) == s[1] < t[1] \/ (s[1] = t[1] /\ s[2] < t[2])

Keys     == 1..MaxStarts        \* a pair is named after the run that made it

VARIABLES
    proc,        \* process -> what its run is at
    starts,      \* runs so far
    registered,  \* table schema_migrations
    done,        \* statements that have taken effect
    copies,      \* how often the rows of each seed are in table resources
    reported,    \* table resources holds a report of a visitor
    settings,    \* table app_settings
    interrupted, \* history: migrations that some run left unregistered
    served       \* history: public keys handed to browsers

dbVars == <<registered, done, copies, reported>>
vars == <<proc, starts, dbVars, settings, interrupted, served>>

\* at and stmt say which statement is next; known is what Apply read.
Run == [pc : {"down", "read", "exec", "register", "getpub", "getpriv", "setpub",
              "setpriv", "up", "import"},
        run : 0..MaxStarts, known : SUBSET Versions, at : Nat, stmt : Nat,
        pub : Keys \cup {NoKey}, priv : Keys \cup {NoKey}]

Off == [pc |-> "down", run |-> 0, known |-> {}, at |-> 0, stmt |-> 0,
        pub |-> NoKey, priv |-> NoKey]

\* A database that an earlier release left at version n, with its seeds.  (The
\* reports that a release before 0006 took are what 0006 is there to remove.)
Init ==
    /\ proc = [p \in Procs |-> Off]
    /\ starts = 0
    /\ \E n \in 0..Len(Script) :
         /\ registered = 1..n
         /\ done = {s \in Stmts : s[1] <= n}
         /\ copies = [s \in Seeds |-> IF s \in done /\ \A w \in done : Wipes(w) => ~Before(s, w)
                                   THEN 1 ELSE 0]
    /\ reported = FALSE
    /\ settings = [pub |-> NoKey, priv |-> NoKey]
    /\ interrupted = {}
    /\ served = {}

----------------------------------------------------------------------------
(* Starting and ending *)

Starting(p) == proc[p].pc \notin {"down", "up"}

Idle(p) == IF p \in Servers THEN \A q \in Servers : ~Starting(q)
                            ELSE \A q \in Importers : ~Starting(q)

\* connectDB succeeds; what fails before the first statement is no run at all.
Start(p) ==
    /\ proc[p].pc = "down"
    /\ Idle(p)
    /\ starts < MaxStarts
    /\ starts' = starts + 1
    /\ proc' = [proc EXCEPT ![p] = [Off EXCEPT !.pc = "read", !.run = starts + 1]]
    /\ UNCHANGED <<dbVars, settings, interrupted, served>>

\* The statement s of the migration that p is at has taken effect.
Past(p, s) ==
    /\ proc[p].at = s[1]
    /\ \/ proc[p].pc = "register"
       \/ proc[p].pc = "exec" /\ proc[p].stmt > s[2]

\* An error of any call (its statement may have taken effect all the same), a
\* signal, or a crash.
Exit(p) ==
    /\ proc[p].pc # "down"
    /\ proc' = [proc EXCEPT ![p] = Off]
    /\ interrupted' = interrupted \cup {v \in Versions : \E s \in Stmts : s[1] = v /\ Past(p, s)}
    /\ UNCHANGED <<starts, dbVars, settings, served>>

----------------------------------------------------------------------------
(* Migrator.Apply *)

AfterMigrations(p) == IF p \in Servers THEN "getpub" ELSE "import"

\* Mutant: the names are not sorted.
Advanced_Unsorted(p, r, v) ==
    \/ \E w \in Versions :
         /\ w \notin registered
         /\ proc' = [proc EXCEPT ![p] = [r EXCEPT !.pc = "exec", !.at = w, !.stmt = 1]]
    \/ /\ Versions \subseteq registered
       /\ proc' = [proc EXCEPT ![p] = [r EXCEPT !.pc = AfterMigrations(p)]]

\* The loop moves past v, and past what is known to be applied.
Advanced(p, r, v) ==
    \/ \E w \in Versions :
         /\ w > v /\ w \notin r.known
         /\ \A u \in Versions : v < u /\ u < w => u \in r.known
         /\ proc' = [proc EXCEPT ![p] = [r EXCEPT !.pc = "exec", !.at = w, !.stmt = 1]]
    \/ /\ \A u \in Versions : u > v => u \in r.known
       /\ proc' = [proc EXCEPT ![p] = [r EXCEPT !.pc = AfterMigrations(p)]]

\* Mutant: an error of the SELECT counts as "all is applied".
Known_Trusting(ok) == IF ok THEN registered ELSE Versions

\* An error of the SELECT counts as "nothing is applied".
Known(ok) == IF ok THEN registered ELSE {}

ReadVersions(p, ok) ==
    /\ proc[p].pc = "read"
    /\ Advanced(p, [proc[p] EXCEPT !.known = Known(ok)], 0)
    /\ UNCHANGED <<starts, dbVars, settings, interrupted, served>>

Referenced == \E s \in done : Script[s[1]][s[2]] = "reference"

\* Mutant: 0006 says TRUNCATE ... CASCADE.
CanRun_Cascade(kind) == TRUE

\* PostgreSQL refuses to truncate a table that a foreign key references.
CanRun(kind) == kind = "wipe" => ~Referenced

OneMore(n) == IF n < 2 THEN n + 1 ELSE n

ExecStatement(p) ==
    LET s    == <<proc[p].at, proc[p].stmt>>
        kind == Script[s[1]][s[2]]
    IN  /\ proc[p].pc = "exec"
        /\ CanRun(kind)
        /\ done' = done \cup {s}
        /\ copies' = CASE kind = "seed" -> [copies EXCEPT ![s] = OneMore(@)]
                       [] kind = "wipe" -> [t \in Seeds |-> 0]
                       [] OTHER         -> copies
        /\ reported' = (reported /\ kind # "wipe")
        /\ proc' = [proc EXCEPT ![p] =
             IF s[2] < Len(Script[s[1]]) THEN [@ EXCEPT !.stmt = s[2] + 1]
                                         ELSE [@ EXCEPT !.pc = "register"]]
        /\ UNCHANGED <<starts, registered, settings, interrupted, served>>

\* Mutant: ON CONFLICT DO NOTHING.
CanRegister_Ignored(v) == TRUE

\* version is the primary key: a second INSERT is an error, which ends the run.
CanRegister(v) == v \notin registered

Register(p) ==
    /\ proc[p].pc = "register"
    /\ CanRegister(proc[p].at)
    /\ registered' = registered \cup {proc[p].at}
    /\ Advanced(p, proc[p], proc[p].at)
    /\ UNCHANGED <<starts, done, copies, reported, settings, interrupted, served>>

----------------------------------------------------------------------------
(* LoadKeys *)

\* srv.keys is set, StartSismoPolling and ListenAndServe follow.
Serve(p, pub, priv) ==
    /\ proc' = [proc EXCEPT ![p] = [@ EXCEPT !.pc = "up", !.pub = pub, !.priv = priv]]
    /\ served' = served \cup {pub}

GetPublic(p) ==
    /\ proc[p].pc = "getpub"
    /\ proc' = [proc EXCEPT ![p] = [@ EXCEPT !.pc = "getpriv", !.pub = settings.pub]]
    /\ UNCHANGED <<starts, dbVars, settings, interrupted, served>>

\* Mutant: || for &&.
Complete_Either(pub, priv) == pub # NoKey \/ priv # NoKey

Complete(pub, priv) == pub # NoKey /\ priv # NoKey

\* Both are there, or GenerateVAPIDKeys makes both anew.
GetPrivate(p) ==
    /\ proc[p].pc = "getpriv"
    /\ IF Complete(proc[p].pub, settings.priv)
       THEN Serve(p, proc[p].pub, settings.priv)
       ELSE /\ proc' = [proc EXCEPT ![p] = [@ EXCEPT !.pc = "setpub",
                                                     !.pub = proc[p].run, !.priv = proc[p].run]]
            /\ UNCHANGED served
    /\ UNCHANGED <<starts, dbVars, settings, interrupted>>

SetPublic(p) ==
    /\ proc[p].pc = "setpub"
    /\ settings' = [settings EXCEPT !.pub = proc[p].pub]
    /\ proc' = [proc EXCEPT ![p] = [@ EXCEPT !.pc = "setpriv"]]
    /\ UNCHANGED <<starts, dbVars, interrupted, served>>

SetPrivate(p) ==
    /\ proc[p].pc = "setpriv"
    /\ settings' = [settings EXCEPT !.priv = proc[p].priv]
    /\ Serve(p, proc[p].pub, proc[p].priv)
    /\ UNCHANGED <<starts, dbVars, interrupted>>

\* A visitor reports a resource to a server that is up.
Report(p) ==
    /\ proc[p].pc = "up"
    /\ reported' = TRUE
    /\ UNCHANGED <<proc, starts, registered, done, copies, settings, interrupted, served>>

Step(p) ==
    \/ Start(p)
    \/ \E ok \in BOOLEAN : ReadVersions(p, ok)
    \/ ExecStatement(p)
    \/ Register(p)
    \/ GetPublic(p)
    \/ GetPrivate(p)
    \/ SetPublic(p)
    \/ SetPrivate(p)
    \/ Report(p)

Next == \E p \in Procs : Step(p) \/ Exit(p)

Spec == Init /\ [][Next]_vars

----------------------------------------------------------------------------
(* Properties *)

\* A run is numbered, and at a statement of the script or past those of a migration.
RunOK(r) == /\ r.pc # "down" => r.run \in Keys
            /\ r.pc = "exec" => <<r.at, r.stmt>> \in Stmts
            /\ r.pc = "register" => r.at \in Versions

TypeOK ==
    /\ proc \in [Procs -> Run]
    /\ \A p \in Procs : RunOK(proc[p])
    /\ starts \in 0..MaxStarts
    /\ registered \subseteq Versions
    /\ done \subseteq Stmts
    /\ copies \in [Seeds -> 0..2]
    /\ reported \in BOOLEAN
    /\ settings \in [pub : Keys \cup {NoKey}, priv : Keys \cup {NoKey}]
    /\ interrupted \subseteq Versions
    /\ served \subseteq Keys \cup {NoKey}

\* Migrations are registered in their order, each after all its statements,
\* whoever crashes, whatever the SELECT of the versions answers and however many
\* processes migrate at once (Migrator.Apply).
RegisteredInOrder ==
    /\ \A v \in registered : \A u \in Versions : u < v => u \in registered
    /\ \A s \in Stmts : s[1] \in registered => s \in done

\* No server serves a schema that is not complete (runServe, applyMigrations).
ServesCompleteSchema ==
    \A p \in Procs : proc[p].pc = "up" => registered = Versions /\ done = Stmts

\* The rows that a migration inserts are there twice only if some process ended,
\* or is about to end, between its statements and their registration.
SeededTwiceOnlyIfInterrupted ==
    \A s \in Seeds : copies[s] = 2 => s[1] \in interrupted \/ \E p \in Procs : Past(p, s)

\* What visitors reported is not truncated by 0006, though a process that read the
\* versions long ago, or failed to read them, may still be about to run it.
ReportsSurvive == [][reported => reported']_reported

\* Every server, across restarts and interrupted starts, hands the same public key
\* to the browsers, signs with its private half, and would find both in
\* app_settings again (push.go, "estables entre reinicios").
KeysStable ==
    /\ \A x, y \in served : x = y
    /\ \A p \in Procs : proc[p].pc = "up" =>
          /\ proc[p].pub = proc[p].priv
          /\ settings = [pub |-> proc[p].pub, priv |-> proc[p].priv]
=============================================================================
