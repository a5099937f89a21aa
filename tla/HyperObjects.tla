---------------------------- MODULE HyperObjects ----------------------------
(***************************************************************************)
(* The API objects the four controllers share, the bare-metal nodes behind *)
(* the machine pools, and what users and Cluster API do to the objects.    *)
(***************************************************************************)
EXTENDS ApiServer

CONSTANTS
    Machines,     \* HyperMachines, each with its owner Machine
    Pools,        \* HyperMachinePools, each naming one node reached by SSH
    IPs,          \* HyperIPPools, each naming one virtual IP
    Clusters,     \* HyperClusters
    ClusterOf,    \* the cluster of a machine
    Masters,      \* the machines whose owner carries the master label
    Unsupported,  \* the pools whose node is neither ubuntu nor centos
    BlankIPs,     \* the IP pools with an empty spec.ip
    MaxCount,     \* bound on the count kept in an IP pool's label
    None,         \* an absent label or an empty field
    Blank,        \* a label present with the value ""
    NoHost        \* the providerID "hyper:///" of a node without a host name

ASSUME ObjectsAssumption ==
    /\ ClusterOf \in [Machines -> Clusters]
    /\ Masters \subseteq Machines
    /\ Unsupported \subseteq Pools
    /\ BlankIPs \subseteq IPs
    /\ MaxCount \in Nat
    /\ None \notin Machines \cup Pools \cup IPs \cup Clusters
    /\ Blank \notin Clusters \cup {None}
    /\ NoHost \notin Pools \cup {None}

(* A count label is absent, empty or a number, and an endpoint is a virtual *)
(* IP or the address of a node: no value is two of these.                  *)
ASSUME ValuesAssumption ==
    /\ None \notin Nat /\ Blank \notin Nat
    /\ IPs \cap Pools = {}

VARIABLES
    machines,   \* the logs of the HyperMachines
    pools,      \* the logs of the HyperMachinePools
    ips,        \* the logs of the HyperIPPools' count label
    clusters,   \* the logs of the HyperClusters
    phase,      \* status.phase of the owner Machines
    node        \* what the node behind a pool runs

stores == <<machines, pools, ips, clusters>>
objectVars == <<machines, pools, ips, clusters, phase, node>>

ObjectState == {"live", "deleting", "gone"}

Machine == [state : ObjectState, finalizer : BOOLEAN,
            poolRef : Pools \cup {None},
            providerID : Pools \cup {None, NoHost}, ready : BOOLEAN]

Pool == [valid : {"unset", "false", "true"},
         cluster : Clusters \cup {None, Blank}, master : BOOLEAN,
         os : {"unset", "supported", "other"}, host : BOOLEAN]

Count == Nat \cup {None, Blank}

Cluster == [state : ObjectState, finalizer : BOOLEAN,
            hip : IPs \cup {None},
            endpoint : IPs \cup Pools \cup {None}, ready : BOOLEAN]

(* kubeadm: kubeadm may have run since it was last reset.                  *)
(* joined: the machine whose kubeadm command succeeded here last.          *)
(* vrrp: the keepalived priority last sent, Blank when it was sent empty.  *)
(* The files of a machine, the packages and kubelet's unit outlive it on   *)
(* the node; Provisioning follows them.                                    *)
Node == [kubeadm : BOOLEAN, joined : Machines \cup {None},
         vrrp : Int \cup {None, Blank}]

ObjectsTypeOK ==
    /\ machines \in [Machines -> Log(Machine)]
    /\ pools \in [Pools -> Log(Pool)]
    /\ ips \in [IPs -> Log(Count)]
    /\ clusters \in [Clusters -> Log(Cluster)]
    /\ phase \in [Machines -> {"Pending", "Provisioning"}]
    /\ node \in [Pools -> Node]

NewMachine == [state |-> "live", finalizer |-> FALSE, poolRef |-> None,
               providerID |-> None, ready |-> FALSE]

NewPool == [valid |-> "unset", cluster |-> None, master |-> FALSE,
            os |-> "unset", host |-> FALSE]

NewCluster == [state |-> "live", finalizer |-> FALSE, hip |-> None,
               endpoint |-> None, ready |-> FALSE]

(* No membership of a cluster and no keepalived: what a deletion removes.  *)
CleanedNode == [kubeadm |-> FALSE, joined |-> None, vrrp |-> None]

OSOf(p) == IF p \in Unsupported THEN "other" ELSE "supported"

Gone(object) == [object EXCEPT !.state = "gone", !.finalizer = FALSE]

(* A patch of a deleted object is answered NotFound and changes nothing. *)
Kept(old, new) == IF old.state = "gone" THEN old ELSE new

(* A deletion waits for the finalizer, if there is one. *)
Deleted(object) == IF object.finalizer
                   THEN [object EXCEPT !.state = "deleting"] ELSE Gone(object)

-----------------------------------------------------------------------------
(* Cluster API sets the phase once the infrastructure of the cluster is    *)
(* ready and the bootstrap provider has reported data.                     *)
StartProvisioning(m) ==
    /\ phase[m] = "Pending"
    /\ Live(clusters[ClusterOf[m]]).ready
    /\ phase' = [phase EXCEPT ![m] = "Provisioning"]
    /\ UNCHANGED <<stores, node>>

DeleteMachine(m) ==
    /\ Live(machines[m]).state = "live"
    /\ machines' = [machines EXCEPT
                      ![m] = Push(@, Deleted(Live(machines[m])))]
    /\ UNCHANGED <<pools, ips, clusters, phase, node>>

(* Cluster API deletes the infrastructure cluster after its machines. *)
DeleteCluster(c) ==
    /\ Live(clusters[c]).state = "live"
    /\ \A m \in Machines :
          ClusterOf[m] = c => Live(machines[m]).state = "gone"
    /\ clusters' = [clusters EXCEPT
                      ![c] = Push(@, Deleted(Live(clusters[c])))]
    /\ UNCHANGED <<machines, pools, ips, phase, node>>

DeliverMachine(m) ==
    /\ Len(machines[m]) > 1
    /\ machines' = [machines EXCEPT ![m] = Delivered(@)]
    /\ UNCHANGED <<pools, ips, clusters, phase, node>>

DeliverPool(p) ==
    /\ Len(pools[p]) > 1
    /\ pools' = [pools EXCEPT ![p] = Delivered(@)]
    /\ UNCHANGED <<machines, ips, clusters, phase, node>>

DeliverIP(ip) ==
    /\ Len(ips[ip]) > 1
    /\ ips' = [ips EXCEPT ![ip] = Delivered(@)]
    /\ UNCHANGED <<machines, pools, clusters, phase, node>>

DeliverCluster(c) ==
    /\ Len(clusters[c]) > 1
    /\ clusters' = [clusters EXCEPT ![c] = Delivered(@)]
    /\ UNCHANGED <<machines, pools, ips, phase, node>>

Deliver ==
    \/ \E m \in Machines : DeliverMachine(m)
    \/ \E p \in Pools : DeliverPool(p)
    \/ \E ip \in IPs : DeliverIP(ip)
    \/ \E c \in Clusters : DeliverCluster(c)

(* The manager process dies and starts again: the stores survive, the      *)
(* caches are listed anew.  MachineCrash says what becomes of the node.    *)
Restart ==
    /\ "crash" \in Faults
    /\ machines' = Relisted(machines)
    /\ pools' = Relisted(pools)
    /\ ips' = Relisted(ips)
    /\ clusters' = Relisted(clusters)
    /\ UNCHANGED phase
=============================================================================
