--------------------------- MODULE MCDeployment ---------------------------
(* TLC instance of Deployment. *)
EXTENDS Deployment, TLC

\* 0001, 0006, 0007 and 0008 in small.
Migrations == <<<<"create">>, <<"wipe", "seed">>, <<"seed">>, <<"reference">>>>

\* A dataset of the CRC in two batches, then an export of OpenCellID.
Datasets == <<[table |-> "official_coverage", lenient |-> FALSE, batches |-> 2],
              [table |-> "mobile_sites", lenient |-> TRUE, batches |-> 2]>>

Symmetric == Permutations(Servers)
=============================================================================
