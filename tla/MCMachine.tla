----------------------------- MODULE MCMachine -----------------------------
(* Small instances of the machine controller for TLC. *)
EXTENDS MachineController, TLC

CONSTANTS m1, m2, m3, p1, p2, p3, ip1, c1

OneCluster == [m \in Machines |-> c1]

AllFaults == FaultKinds

(* Sound for safety, where no pool has an unknown OS. *)
Symmetry == Permutations(Pools)
=============================================================================
