----------------------------- MODULE MCProvider -----------------------------
(* Small instances of the whole provider for TLC. *)
EXTENDS HyperProvider, TLC

CONSTANTS m1, m2, p1, p2, ip1, ip2, c1, c2

OneCluster == [m \in Machines |-> c1]
TwoClusters == [m \in Machines |-> IF m = m1 THEN c1 ELSE c2]

(* Sound for safety, where all machines are masters in one cluster and no   *)
(* pool has an unknown OS.                                                  *)
Symmetry == Permutations(Machines) \cup Permutations(Pools)
=============================================================================
