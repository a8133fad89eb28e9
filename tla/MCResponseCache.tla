-------------------------- MODULE MCResponseCache --------------------------
(* TLC instance of ResponseCache. *)
EXTENDS ResponseCache

CONSTANTS k1, k2

TwoKeys == {k1, k2}

\* Entries of k1 live for the instant of their rendering, the others one unit.
MCTTL == [k \in Keys |-> IF k = k1 THEN 0 ELSE 1]
=============================================================================
