-------------------------- MODULE IPPoolController --------------------------
(***************************************************************************)
(* HyperIPPoolReconciler: offers a new IP pool to the clusters by giving   *)
(* it an empty count label.  The whole reconcile is one read and one write.*)
(***************************************************************************)
EXTENDS HyperObjects

LabelIP(ip) ==
    /\ Seen(ips[ip]) = None
    /\ ips' \in Patched(ips, ip, Blank)
    /\ UNCHANGED <<machines, pools, clusters, phase, node>>
=============================================================================
