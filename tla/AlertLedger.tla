---------------------------- MODULE AlertLedger ----------------------------
(***************************************************************************)
(* What the seismic alerts promise, whatever the number of servers, their  *)
(* restarts and the errors they meet: an event is recorded once, then once *)
(* and for all announced or kept silent, and an announced event reaches a  *)
(* subscription at most once.  SismoPush implements it.                    *)
(***************************************************************************)
EXTENDS Naturals

CONSTANTS Events, Endpoints

VARIABLES
    fate,        \* what became of each event
    deliveries   \* how many times each event went to each subscription

vars == <<fate, deliveries>>

Fates == {"unknown", "recorded", "announced", "silent"}

Init ==
    /\ fate = [e \in Events |-> "unknown"]
    /\ deliveries = [d \in Events \X Endpoints |-> 0]

Record(e) ==
    /\ fate[e] = "unknown"
    /\ fate' = [fate EXCEPT ![e] = "recorded"]
    /\ UNCHANGED deliveries

\* Recorded events are settled together: the announced ones and the others.
Settle(S, T) ==
    /\ T \subseteq S
    /\ \A e \in S : fate[e] = "recorded"
    /\ fate' = [e \in Events |-> IF e \in T THEN "announced"
                                 ELSE IF e \in S THEN "silent" ELSE fate[e]]
    /\ UNCHANGED deliveries

Deliver(e, p) ==
    /\ fate[e] = "announced"
    /\ deliveries[<<e, p>>] = 0
    /\ deliveries' = [deliveries EXCEPT ![<<e, p>>] = 1]
    /\ UNCHANGED fate

Next ==
    \/ \E e \in Events : Record(e)
    \/ \E S, T \in SUBSET Events : Settle(S, T)
    \/ \E e \in Events, p \in Endpoints : Deliver(e, p)

Spec == Init /\ [][Next]_vars
=============================================================================
