---------------------------- MODULE HyperProvider ----------------------------
(***************************************************************************)
(* The manager of main.go: the four controllers, one worker each, running  *)
(* side by side on the same API objects, from the moment the objects are   *)
(* created.                                                                *)
(***************************************************************************)
EXTENDS MachineController, PoolController, IPPoolController, ClusterController

providerVars == <<objectVars, mw, pw, cw>>

ProviderTypeOK ==
    /\ ObjectsTypeOK
    /\ mw \in MachineWorker /\ pw \in PoolWorker /\ cw \in ClusterWorker

Environment ==
    \/ MachineEnvironment
    \/ \E c \in Clusters : DeleteCluster(c)

Crash ==
    /\ MachineCrash
    /\ pw' = PoolIdle /\ cw' = ClusterIdle

ProviderInit ==
    /\ machines = [m \in Machines |-> <<NewMachine>>]
    /\ pools = [p \in Pools |-> <<NewPool>>]
    /\ ips = [ip \in IPs |-> <<None>>]
    /\ clusters = [c \in Clusters |-> <<NewCluster>>]
    /\ phase = [m \in Machines |-> "Pending"]
    /\ node = [p \in Pools |-> CleanedNode]
    /\ mw = MachineIdle /\ pw = PoolIdle /\ cw = ClusterIdle

ProviderNext ==
    \/ MachineStep /\ UNCHANGED <<pw, cw>>
    \/ PoolStep /\ UNCHANGED <<mw, cw>>
    \/ (\E ip \in IPs : LabelIP(ip)) /\ UNCHANGED <<mw, pw, cw>>
    \/ ClusterStep /\ UNCHANGED <<mw, pw>>
    \/ Environment /\ UNCHANGED <<mw, pw, cw>>
    \/ Crash

ProviderSpec == ProviderInit /\ [][ProviderNext]_providerVars

-----------------------------------------------------------------------------
(* With fresh reads a pool keeps the cluster it was adopted for until the  *)
(* machine controller releases it: no late patch of the pool controller,   *)
(* which resets the labels of a new pool, frees a pool in use.             *)
AdoptionKept ==
    [][\A p \in Pools :
          Live(pools[p]).cluster \in Clusters
            /\ Live(pools[p])'.cluster # Live(pools[p]).cluster
          => mw.pc = "release" /\ mw.pool = p]_providerVars

(* With fresh reads and no failure, two live clusters never have the same  *)
(* virtual IP as their control plane endpoint.                             *)
ExclusiveEndpoint ==
    \A c, d \in Clusters :
        /\ Live(clusters[c]).state = "live" /\ Live(clusters[d]).state = "live"
        /\ Live(clusters[c]).endpoint \in IPs
        /\ Live(clusters[c]).endpoint = Live(clusters[d]).endpoint
        => c = d

(* With fresh reads, the endpoint Cluster API has been told stays: no      *)
(* retry, after a crash or a lost patch, gives the cluster another one.    *)
EndpointStable ==
    [][\A c \in Clusters :
          Live(clusters[c]).endpoint # None =>
              Live(clusters[c])'.endpoint = Live(clusters[c]).endpoint
      ]_providerVars

(* The machine that has a pool, as PoolAllocation sees it.  A pool two      *)
(* machines refer to is "shared", which PoolAllocation does not know.      *)
Referring(p) == {m \in Machines : Live(machines[m]).state # "gone"
                                    /\ Live(machines[m]).poolRef = p}

PoolOwner ==
    [p \in Pools |->
        IF Live(pools[p]).valid # "true" THEN "offline"
        ELSE IF \E m \in Machines : Attempting(m) /\ mw.pool = p THEN mw.m
        ELSE IF Live(pools[p]).cluster = Blank THEN "free"
        ELSE IF Referring(p) = {} THEN "lost"
        ELSE IF \E m \in Machines : Referring(p) = {m}
             THEN CHOOSE m \in Machines : Referring(p) = {m}
             ELSE "shared"]

Allocation == INSTANCE PoolAllocation
                WITH owner <- PoolOwner, Offline <- "offline",
                     Free <- "free", Lost <- "lost"

(* With fresh reads and no crash, the four controllers together allocate   *)
(* machine pools as PoolAllocation says.                                   *)
AllocatesPools == Allocation!Spec

(* "ControlPlaneEndpoint represents the endpoint used to communicate with  *)
(* the control plane", hypercluster_types.go:36: when the endpoint is the  *)
(* address of a pool's node, a machine that node serves is one of the      *)
(* cluster's control plane.                                                *)
ControlPlaneAtEndpoint ==
    \A c \in Clusters : \A m \in Machines :
        LET endpoint == Live(clusters[c]).endpoint
        IN  endpoint \in Pools /\ node[endpoint].joined = m =>
                ClusterOf[m] = c /\ m \in Masters
=============================================================================
