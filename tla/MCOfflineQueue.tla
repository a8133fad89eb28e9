--------------------------- MODULE MCOfflineQueue ---------------------------
(* TLC instances of OfflineQueue. *)
EXTENDS OfflineQueue, TLC

CONSTANTS m1, m2

\* Two measurements taken at different times.
Apart == [m \in Meas |-> IF m = m1 THEN 1 ELSE 2]

Symmetric == Permutations(Syncers)
=============================================================================
