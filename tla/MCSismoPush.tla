---------------------------- MODULE MCSismoPush ----------------------------
(* TLC instances of SismoPush. *)
EXTENDS SismoPush, TLC

Symmetric == Permutations(Strong) \cup Permutations(Endpoints) \cup Permutations(Servers)
=============================================================================
