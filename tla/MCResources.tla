---------------------------- MODULE MCResources ----------------------------
(* TLC instances of Resources: who the visitors are, and what is symmetric. *)
EXTENDS Resources, TLC

CONSTANTS b1, b2, f1, f2

\* Two browsers with fingerprints of their own.
TwoPeople == [b \in Browsers |-> IF b = b1 THEN f1 ELSE f2]

\* One browser, or several behind one address with the same User-Agent.
OnePerson == [b \in Browsers |-> f1]

Described(c, n) == [desc |-> c, confirms |-> n, helping |-> 0]

\* An empty table, or a row of migration 0006, with confirmations of its own.
SeededCounters == {<<>>} \cup {<<Described(c, 5)>> : c \in Contents}

Symmetric == Permutations(Handlers) \cup Permutations(Contents)

\* Under TwoPeople the visitors can be exchanged with their fingerprints.
SymmetricPeople ==
    Symmetric \cup {b1 :> b2 @@ b2 :> b1 @@ f1 :> f2 @@ f2 :> f1}
=============================================================================
