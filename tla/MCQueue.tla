------------------------------ MODULE MCQueue ------------------------------
(* Small instances of the HyperMachine work queue for TLC. *)
EXTENDS MachineQueue, TLC

CONSTANTS m1, m2, p1, p2, ip1, c1

OneCluster == [m \in Machines |-> c1]
=============================================================================
