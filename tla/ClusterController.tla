-------------------------- MODULE ClusterController --------------------------
(***************************************************************************)
(* HyperClusterReconciler: one worker that gives a HyperCluster its        *)
(* control plane endpoint, the virtual IP of a free IP pool or else the    *)
(* address of a machine pool, and frees the IP pool on deletion.           *)
(***************************************************************************)
EXTENDS HyperObjects

VARIABLE cw   \* the worker of the HyperCluster queue

(* c, had: the cluster reconciled and the IP pool name it was read with.   *)
(* hip, endpoint: the IP pool taken and the endpoint found.                *)
ClusterIdle == [pc |-> "idle", c |-> None, had |-> None,
                hip |-> None, endpoint |-> None]

ClusterWorker ==
    [pc : {"idle", "pool", "closeSpec", "closeStatus", "removeFinalizer"},
     c : Clusters \cup {None}, had : IPs \cup {None},
     hip : IPs \cup {None}, endpoint : IPs \cup Pools \cup {None}]

clusterVars == <<objectVars, cw>>

-----------------------------------------------------------------------------
AddClusterFinalizer(c) ==
    LET seen == Seen(clusters[c])
        live == Live(clusters[c])
    IN  /\ cw.pc = "idle"
        /\ seen.state # "gone" /\ ~seen.finalizer
        /\ clusters' \in Patched(clusters, c,
                           Kept(live, [live EXCEPT !.finalizer = TRUE]))
        /\ UNCHANGED <<machines, pools, ips, phase, node, cw>>

(* Mutant of WantsEndpoint: only a ready cluster is skipped. *)
WantsUntilReady(c) ==
    /\ cw.pc = "idle"
    /\ Seen(clusters[c]).state = "live" /\ Seen(clusters[c]).finalizer
    /\ ~Seen(clusters[c]).ready

(* reconcileClusterNormal skips a cluster that has an endpoint or is ready.*)
WantsEndpoint(c) ==
    /\ cw.pc = "idle"
    /\ Seen(clusters[c]).state = "live" /\ Seen(clusters[c]).finalizer
    /\ Seen(clusters[c]).endpoint = None /\ ~Seen(clusters[c]).ready

(* Mutant of FreeIPs: a count of zero passes for an unused IP pool. *)
FreeOrZeroIPs == {ip \in IPs : Seen(ips[ip]) \in {Blank, 0}}

FreeIPs == {ip \in IPs : Seen(ips[ip]) = Blank}

(* getAPIEndpointfromHip: the count starts at "0"; an IP pool without an   *)
(* address is taken all the same and the search goes on.                   *)
TakeIP(c, ip) ==
    /\ WantsEndpoint(c)
    /\ ip \in FreeIPs
    /\ ips' \in Patched(ips, ip, 0)
    /\ cw' = [c |-> c, had |-> Seen(clusters[c]).hip, hip |-> ip,
              pc |-> IF ip \in BlankIPs THEN "pool" ELSE "closeSpec",
              endpoint |-> IF ip \in BlankIPs THEN None ELSE ip]
    /\ UNCHANGED <<machines, pools, clusters, phase, node>>

NoFreeIP(c) ==
    /\ WantsEndpoint(c)
    /\ FreeIPs = {}
    /\ cw' = [ClusterIdle EXCEPT !.pc = "pool", !.c = c,
                !.had = Seen(clusters[c]).hip, !.hip = Seen(clusters[c]).hip]
    /\ UNCHANGED objectVars

ValidPools == {p \in Pools : Seen(pools[p]).valid = "true"}

(* getAPIEndpointfromHmp: any valid pool, whoever uses it; the label is    *)
(* not sent when the cache already shows it.                               *)
TakePool(p) ==
    LET live == Live(pools[p])
    IN  /\ cw.pc = "pool"
        /\ p \in ValidPools
        /\ pools' \in Patched(pools, p,
             [live EXCEPT !.master = IF Seen(pools[p]).master THEN @
                                                              ELSE TRUE])
        /\ cw' = [cw EXCEPT !.pc = "closeSpec", !.endpoint = p]
        /\ UNCHANGED <<machines, ips, clusters, phase, node>>

NoEndpoint ==
    /\ cw.pc = "pool"
    /\ ValidPools = {}
    /\ cw' = [cw EXCEPT !.pc = "closeSpec"]
    /\ UNCHANGED objectVars

(* scope.Close: the label naming the IP pool and the endpoint go in one    *)
(* patch of metadata and spec, ready in a second one of the status.        *)
CloseClusterSpec ==
    LET live == Live(clusters[cw.c])
    IN  /\ cw.pc = "closeSpec"
        /\ clusters' \in Patched(clusters, cw.c, Kept(live,
             [live EXCEPT
                !.hip = IF cw.hip = cw.had THEN @ ELSE cw.hip,
                !.endpoint = IF cw.endpoint = None THEN @ ELSE cw.endpoint]))
        /\ cw' = IF cw.endpoint = None THEN ClusterIdle
                 ELSE [cw EXCEPT !.pc = "closeStatus"]
        /\ UNCHANGED <<machines, pools, ips, phase, node>>

CloseClusterStatus ==
    LET live == Live(clusters[cw.c])
    IN  /\ cw.pc = "closeStatus"
        /\ clusters' \in Patched(clusters, cw.c,
                           Kept(live, [live EXCEPT !.ready = TRUE]))
        /\ cw' = ClusterIdle
        /\ UNCHANGED <<machines, pools, ips, phase, node>>

-----------------------------------------------------------------------------
(* deleteHip: the label is emptied, unless the cache shows it empty.       *)
ReleaseIP(c) ==
    LET hip == Seen(clusters[c]).hip
    IN  /\ cw.pc = "idle"
        /\ Seen(clusters[c]).state = "deleting" /\ Seen(clusters[c]).finalizer
        /\ IF hip = None THEN UNCHANGED ips
           ELSE ips' \in Patched(ips, hip, IF Seen(ips[hip]) = Blank
                                           THEN Live(ips[hip]) ELSE Blank)
        /\ cw' = [ClusterIdle EXCEPT !.pc = "removeFinalizer", !.c = c]
        /\ UNCHANGED <<machines, pools, clusters, phase, node>>

RemoveClusterFinalizer ==
    LET live == Live(clusters[cw.c])
    IN  /\ cw.pc = "removeFinalizer"
        /\ clusters' \in Patched(clusters, cw.c, Kept(live, Gone(live)))
        /\ cw' = ClusterIdle
        /\ UNCHANGED <<machines, pools, ips, phase, node>>

ContinueCluster ==
    \/ \E p \in Pools : TakePool(p)
    \/ NoEndpoint \/ CloseClusterSpec \/ CloseClusterStatus
    \/ RemoveClusterFinalizer

ClusterStep ==
    \/ \E c \in Clusters :
          AddClusterFinalizer(c) \/ NoFreeIP(c) \/ ReleaseIP(c)
    \/ \E c \in Clusters, ip \in IPs : TakeIP(c, ip)
    \/ ContinueCluster
=============================================================================
