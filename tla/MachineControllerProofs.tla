----------------------- MODULE MachineControllerProofs -----------------------
(***************************************************************************)
(* Theorems about the machine controller for any number of machines, pools,*)
(* IP pools and clusters, any lag of the caches and any of the failures.   *)
(***************************************************************************)
EXTENDS MachineController, TLAPS

-----------------------------------------------------------------------------
(* What writes, watch events and restarts do to the log of an API object.  *)

(* A log has a first and a last version, both of the object's type. *)
LEMMA LogEnds ==
    ASSUME NEW V, NEW log \in Log(V)
    PROVE  /\ log \in Seq(V) /\ Len(log) \in Nat /\ Len(log) >= 1
           /\ Seen(log) \in V /\ Seen(log) = log[1] /\ Live(log) \in V
BY DEF Log, Seen, Live

(* A written version is the last one, and the log stays within its bound.  *)
LEMMA PushLive ==
    ASSUME NEW V, NEW log \in Log(V), NEW v \in V
    PROVE  Push(log, v) \in Log(V) /\ Live(Push(log, v)) = v
<1>0. MaxLag \in Nat BY ApiAssumption
<1>1. CASE v = Live(log) BY <1>1 DEF Push
<1>2. CASE v # Live(log) /\ Len(log) > MaxLag
  BY <1>0, <1>2 DEF Push, Log, Live
<1>3. CASE v # Live(log) /\ ~(Len(log) > MaxLag)
  BY <1>0, <1>3, LogEnds DEF Push, Log, Live
<1> QED BY <1>1, <1>2, <1>3

(* Every version of the new log is the one written or was there, and the   *)
(* versions kept stay in their order.                                      *)
LEMMA PushKeeps ==
    ASSUME NEW V, NEW log \in Log(V), NEW v \in V,
           NEW i \in 1 .. Len(Push(log, v)), NEW j \in i .. Len(Push(log, v))
    PROVE  \/ \E k \in 1 .. Len(log), l \in 1 .. Len(log) :
                k <= l /\ Push(log, v)[i] = log[k] /\ Push(log, v)[j] = log[l]
           \/ Push(log, v)[j] = v /\ j = Len(Push(log, v))
<1>0. MaxLag \in Nat BY ApiAssumption
<1>1. CASE v = Live(log)
  BY <1>1, LogEnds DEF Push
<1>2. CASE v # Live(log) /\ Len(log) > MaxLag
  BY <1>0, <1>2, LogEnds DEF Push, Log, Live
<1>3. CASE v # Live(log) /\ ~(Len(log) > MaxLag)
  BY <1>0, <1>3, LogEnds DEF Push, Log, Live
<1> QED BY <1>1, <1>2, <1>3

(* A watch event drops the first version of a longer log. *)
LEMMA DeliverLive ==
    ASSUME NEW V, NEW log \in Log(V)
    PROVE  /\ Delivered(log) \in Log(V)
           /\ Live(Delivered(log)) = Live(log)
           /\ \A i \in 1 .. Len(Delivered(log)) : \A j \in i .. Len(Delivered(log)) :
                \E k \in 1 .. Len(log) : \E l \in k .. Len(log) :
                   Delivered(log)[i] = log[k] /\ Delivered(log)[j] = log[l]
<1>0. MaxLag \in Nat BY ApiAssumption
<1>1. CASE Len(log) > 1
  BY <1>0, <1>1, LogEnds DEF Delivered, Log, Live
<1>2. CASE ~(Len(log) > 1)
  BY <1>2, LogEnds DEF Delivered
<1> QED BY <1>1, <1>2

(* The store after a write that the caller does not look at. *)
LEMMA PatchedStore ==
    ASSUME NEW V, NEW K, NEW store \in [K -> Log(V)], NEW k \in K, NEW v \in V,
           NEW new \in Patched(store, k, v)
    PROVE  /\ new \in [K -> Log(V)]
           /\ \A x \in K : x # k => new[x] = store[x]
           /\ new[k] = store[k] \/ new[k] = Push(store[k], v)
           /\ "api" \notin Faults => new[k] = Push(store[k], v)
BY PushLive DEF Patched

(* After a restart the caches hold what the server holds. *)
LEMMA RelistedStore ==
    ASSUME NEW V, NEW K, NEW store \in [K -> Log(V)]
    PROVE  /\ Relisted(store) \in [K -> Log(V)]
           /\ \A k \in K : Relisted(store)[k] = <<Live(store[k])>>
           /\ \A k \in K : Live(Relisted(store)[k]) = Live(store[k])
<1>1. \A k \in K : <<Live(store[k])>> \in Log(V)
  BY LogEnds, ApiAssumption DEF Log
<1> QED BY <1>1 DEF Relisted, Live

-----------------------------------------------------------------------------
(* A reconcile in progress has a machine, and a pool once it has taken one.*)
WorkerShape ==
    /\ mw.pc # "idle" => mw.m \in Machines
    /\ mw.pc \in AdoptionSteps \cup CloseSteps \cup {"release"}
         => mw.pool \in Pools

TypeInv == MachineTypeOK /\ WorkerShape

(* The initial objects and the idle worker are of their types. *)
LEMMA InitialTypes ==
    /\ NewMachine \in Machine
    /\ \A p \in Pools : ProbedPool(p) \in Pool
    /\ \A ip \in IPs : ReadyCluster(ip) \in Cluster
    /\ CleanedNode \in Node
    /\ MachineIdle \in MachineWorker
BY DEF NewMachine, Machine, ObjectState, ProbedPool, OSOf, Pool, ReadyCluster,
       Cluster, CleanedNode, Node, MachineIdle, MachineWorker, NewPool

(* One version is a log, whatever lag is allowed. *)
LEMMA SingleVersion ==
    ASSUME NEW V, NEW v \in V
    PROVE  <<v>> \in Log(V)
BY ApiAssumption DEF Log

(* The controller starts in its types. *)
LEMMA TypeInit == MachineInit => TypeInv
<1> SUFFICES ASSUME MachineInit PROVE TypeInv
  OBVIOUS
<1>1. machines \in [Machines -> Log(Machine)]
  BY InitialTypes, SingleVersion DEF MachineInit
<1>2. pools \in [Pools -> Log(Pool)]
  BY InitialTypes, SingleVersion DEF MachineInit
<1>3. /\ ips \in [IPs -> Log(Count)]
      /\ clusters \in [Clusters -> Log(Cluster)]
  <2>1. PICK own \in [Clusters -> IPs \ BlankIPs] :
          /\ clusters = [c \in Clusters |-> <<ReadyCluster(own[c])>>]
          /\ ips = [ip \in IPs |-> <<IF \E c \in Clusters : own[c] = ip
                                     THEN 0 ELSE Blank>>]
    BY DEF MachineInit
  <2>2. \A ip \in IPs : (IF \E c \in Clusters : own[c] = ip
                         THEN 0 ELSE Blank) \in Count
    BY DEF Count
  <2>3. ips \in [IPs -> Log(Count)]
    BY <2>1, <2>2, SingleVersion
  <2>4. \A c \in Clusters : ReadyCluster(own[c]) \in Cluster
    BY <2>1, InitialTypes
  <2>5. clusters \in [Clusters -> Log(Cluster)]
    BY <2>1, <2>4, SingleVersion
  <2> QED BY <2>3, <2>5
<1>4. /\ phase \in [Machines -> {"Pending", "Provisioning"}]
      /\ node \in [Pools -> Node]
      /\ mw \in MachineWorker
  BY InitialTypes DEF MachineInit
<1>5. WorkerShape
  BY DEF MachineInit, MachineIdle, WorkerShape, AdoptionSteps, CloseSteps
<1> QED BY <1>1, <1>2, <1>3, <1>4, <1>5
        DEF TypeInv, MachineTypeOK, ObjectsTypeOK

-----------------------------------------------------------------------------
(* What the steps of the controller write into a machine is a machine. *)
LEMMA MachineVersions ==
    ASSUME NEW old \in Machine,
           NEW ref \in Pools \cup {None}, NEW id \in Pools \cup {None, NoHost}
    PROVE  /\ [old EXCEPT !.finalizer = TRUE] \in Machine
           /\ [old EXCEPT !.poolRef = ref, !.providerID = id] \in Machine
           /\ [old EXCEPT !.ready = TRUE] \in Machine
           /\ Gone(old) \in Machine
           /\ Deleted(old) \in Machine
           /\ \A new \in Machine : Kept(old, new) \in Machine
<1>1. [old EXCEPT !.finalizer = TRUE] \in Machine
  BY DEF Machine
<1>2. [old EXCEPT !.poolRef = ref, !.providerID = id] \in Machine
  BY DEF Machine
<1>3. [old EXCEPT !.ready = TRUE] \in Machine
  BY DEF Machine
<1>4. Gone(old) \in Machine
  BY DEF Machine, ObjectState, Gone
<1>5. [old EXCEPT !.state = "deleting"] \in Machine
  BY DEF Machine, ObjectState
<1>6. Deleted(old) \in Machine
  BY <1>4, <1>5 DEF Deleted
<1>7. \A new \in Machine : Kept(old, new) \in Machine
  BY DEF Kept
<1> QED BY <1>1, <1>2, <1>3, <1>4, <1>6, <1>7

(* A step that only writes the log of one machine keeps the objects' types.*)
LEMMA WriteMachine ==
    ASSUME ObjectsTypeOK, NEW m \in Machines, NEW v \in Machine,
           machines' \in Patched(machines, m, v),
           UNCHANGED <<pools, ips, clusters, phase, node>>
    PROVE  ObjectsTypeOK'
<1>1. machines' \in [Machines -> Log(Machine)]
  BY PatchedStore DEF ObjectsTypeOK
<1> QED BY <1>1 DEF ObjectsTypeOK

(* The same for the log of one pool. *)
LEMMA WritePool ==
    ASSUME ObjectsTypeOK, NEW p \in Pools, NEW v \in Pool,
           pools' \in Patched(pools, p, v),
           UNCHANGED <<machines, ips, clusters, phase, node>>
    PROVE  ObjectsTypeOK'
<1>1. pools' \in [Pools -> Log(Pool)]
  BY PatchedStore DEF ObjectsTypeOK
<1> QED BY <1>1 DEF ObjectsTypeOK

(* The versions at both ends of every log are of the object's type. *)
LEMMA EndsTyped ==
    ASSUME ObjectsTypeOK
    PROVE  /\ \A m \in Machines : Seen(machines[m]) \in Machine
                                  /\ Live(machines[m]) \in Machine
           /\ \A p \in Pools : Seen(pools[p]) \in Pool /\ Live(pools[p]) \in Pool
           /\ \A ip \in IPs : Seen(ips[ip]) \in Count /\ Live(ips[ip]) \in Count
           /\ \A c \in Clusters : Seen(clusters[c]) \in Cluster
                                  /\ Live(clusters[c]) \in Cluster
BY LogEnds DEF ObjectsTypeOK

(* The environment keeps the types. *)
LEMMA EnvironmentTypes == TypeInv /\ MachineEnvironment /\ UNCHANGED mw => TypeInv'
<1> SUFFICES ASSUME TypeInv, MachineEnvironment, UNCHANGED mw PROVE TypeInv'
  OBVIOUS
<1>0. ObjectsTypeOK /\ mw \in MachineWorker /\ WorkerShape
  BY DEF TypeInv, MachineTypeOK
<1>1. WorkerShape' /\ (mw \in MachineWorker)'
  BY <1>0 DEF WorkerShape
<1>2. ASSUME NEW m \in Machines, StartProvisioning(m) PROVE ObjectsTypeOK'
  BY <1>0, <1>2 DEF StartProvisioning, ObjectsTypeOK, stores
<1>3. ASSUME NEW m \in Machines, DeleteMachine(m) PROVE ObjectsTypeOK'
  <2>1. Deleted(Live(machines[m])) \in Machine
    BY <1>0, EndsTyped, MachineVersions
  <2>2. machines' \in [Machines -> Log(Machine)]
    BY <1>0, <1>3, <2>1, PushLive DEF DeleteMachine, ObjectsTypeOK
  <2> QED BY <1>0, <1>3, <2>2 DEF DeleteMachine, ObjectsTypeOK
<1>4. ASSUME Deliver PROVE ObjectsTypeOK'
  <2>1. ASSUME NEW m \in Machines, DeliverMachine(m) PROVE ObjectsTypeOK'
    BY <1>0, <2>1, DeliverLive DEF DeliverMachine, ObjectsTypeOK
  <2>2. ASSUME NEW p \in Pools, DeliverPool(p) PROVE ObjectsTypeOK'
    BY <1>0, <2>2, DeliverLive DEF DeliverPool, ObjectsTypeOK
  <2>3. ASSUME NEW ip \in IPs, DeliverIP(ip) PROVE ObjectsTypeOK'
    BY <1>0, <2>3, DeliverLive DEF DeliverIP, ObjectsTypeOK
  <2>4. ASSUME NEW c \in Clusters, DeliverCluster(c) PROVE ObjectsTypeOK'
    BY <1>0, <2>4, DeliverLive DEF DeliverCluster, ObjectsTypeOK
  <2> QED BY <1>4, <2>1, <2>2, <2>3, <2>4 DEF Deliver
<1>5. ObjectsTypeOK' BY <1>2, <1>3, <1>4 DEF MachineEnvironment
<1> QED BY <1>1, <1>5 DEF TypeInv, MachineTypeOK

(* What a death of the manager leaves of the nodes: only the one that      *)
(* commands were sent to may have changed.                                 *)
LEMMA InterruptedNodes ==
    ASSUME node \in [Pools -> Node], node' \in Interrupted,
           mw.pc = "commands" => mw.m \in Machines /\ mw.pool \in Pools
    PROVE  /\ node' \in [Pools -> Node]
           /\ \A p \in Pools : \/ node'[p] = node[p]
                               \/ mw.pc = "commands" /\ mw.pool = p
           /\ \A p \in Pools : node'[p].vrrp = node[p].vrrp
<1>1. CASE node' = node
  BY <1>1
<1>2. CASE mw.pc = "commands"
  <2>1. PICK last \in {node[mw.pool].joined, mw.m} \cup {node[mw.pool].joined} :
          node' = node \/ node' = [node EXCEPT ![mw.pool] =
                    [node[mw.pool] EXCEPT !.kubeadm = TRUE, !.joined = last]]
    BY <1>2 DEF Interrupted
  <2> DEFINE cut == [node[mw.pool] EXCEPT !.kubeadm = TRUE, !.joined = last]
  <2>2. cut \in Node /\ cut.vrrp = node[mw.pool].vrrp
    BY <1>2, <2>1 DEF Node
  <2> HIDE DEF cut
  <2>3. node' = node \/ node' = [node EXCEPT ![mw.pool] = cut]
    BY <2>1 DEF cut
  <2> QED BY <1>2, <2>2, <2>3
<1> QED BY <1>1, <1>2 DEF Interrupted

(* A crash keeps the types. *)
LEMMA CrashTypes == TypeInv /\ MachineCrash => TypeInv'
<1> SUFFICES ASSUME TypeInv, MachineCrash PROVE TypeInv'
  OBVIOUS
<1>1. node' \in [Pools -> Node]
  BY InterruptedNodes DEF TypeInv, MachineTypeOK, ObjectsTypeOK, MachineCrash,
                          WorkerShape, AdoptionSteps, CloseSteps
<1>2. ObjectsTypeOK'
  BY <1>1, RelistedStore
     DEF TypeInv, MachineTypeOK, ObjectsTypeOK, MachineCrash, Restart
<1>3. (mw \in MachineWorker)' /\ WorkerShape'
  BY InitialTypes DEF MachineCrash, MachineIdle, WorkerShape, AdoptionSteps, CloseSteps
<1> QED BY <1>2, <1>3 DEF TypeInv, MachineTypeOK
(* Taking up a machine or a deletion keeps the types. *)
LEMMA StartTypes ==
    ASSUME TypeInv, NEW m \in Machines,
           AddFinalizer(m) \/ StartDeletion(m) \/ \E p \in Pools : AdoptPool(m, p)
    PROVE  TypeInv'
<1>0. ObjectsTypeOK /\ mw \in MachineWorker /\ WorkerShape
  BY DEF TypeInv, MachineTypeOK
<1>1. ASSUME AddFinalizer(m) PROVE TypeInv'
  <2>1. Kept(Live(machines[m]), [Live(machines[m]) EXCEPT !.finalizer = TRUE])
          \in Machine
    BY <1>0, EndsTyped, MachineVersions
  <2>2. ObjectsTypeOK'
    BY <1>0, <1>1, <2>1, WriteMachine DEF AddFinalizer
  <2> QED BY <1>0, <1>1, <2>2
          DEF AddFinalizer, TypeInv, MachineTypeOK, WorkerShape
<1>2. ASSUME LeaveNode(m) PROVE TypeInv'
  <2>1. (mw \in MachineWorker)' /\ WorkerShape'
    BY <1>2, InitialTypes
       DEF LeaveNode, MachineWorker, MachineIdle, WorkerShape,
           AdoptionSteps, CloseSteps, DeletionSteps
  <2> QED BY <1>0, <1>2, <2>1
          DEF LeaveNode, TypeInv, MachineTypeOK, ObjectsTypeOK, objectVars
<1>3. ASSUME CleanNode(m) PROVE TypeInv'
  <2>1. Seen(machines[m]).poolRef \in Pools
        /\ Seen(pools[Seen(machines[m]).poolRef]) \in Pool
    BY <1>0, <1>3, EndsTyped DEF CleanNode, Machine
  <2>2. (mw \in MachineWorker)' /\ WorkerShape'
    BY <1>3, <2>1, InitialTypes
       DEF CleanNode, MachineWorker, MachineIdle, WorkerShape,
           AdoptionSteps, CloseSteps, DeletionSteps
  <2>3. \A reset, purged \in BOOLEAN :
            Cleaned(Seen(machines[m]).poolRef, reset, purged) \in Node
    BY <1>0, <2>1 DEF ObjectsTypeOK, Node, Cleaned
  <2>4. node' \in [Pools -> Node]
    BY <1>0, <1>3, <2>3, <2>1 DEF CleanNode, ObjectsTypeOK
  <2> QED BY <1>0, <1>3, <2>2, <2>4
          DEF CleanNode, TypeInv, MachineTypeOK, ObjectsTypeOK, stores
<1>4. ASSUME NEW p \in Pools, AdoptPool(m, p) PROVE TypeInv'
  <2>1. ClusterOf[m] \in Clusters
    BY ObjectsAssumption
  <2>2. [Live(pools[p]) EXCEPT !.cluster = ClusterOf[m]] \in Pool
    BY <1>0, <2>1, EndsTyped DEF Pool
  <2>3. ObjectsTypeOK'
    BY <1>0, <1>4, <2>2, WritePool DEF AdoptPool
  <2>4. /\ Seen(machines[m]).poolRef \in Pools \cup {None}
        /\ Seen(clusters[ClusterOf[m]]).hip \in IPs \cup {None}
        /\ Seen(pools[p]) \in Pool
    BY <1>0, <2>1, EndsTyped DEF Machine, Cluster
  <2>5. (mw \in MachineWorker)' /\ WorkerShape'
    BY <1>4, <2>4 DEF AdoptPool, MachineWorker, WorkerShape,
                      AdoptionSteps, CloseSteps, DeletionSteps
  <2> QED BY <2>3, <2>5 DEF TypeInv, MachineTypeOK
<1> QED BY <1>1, <1>2, <1>3, <1>4 DEF StartDeletion

(* Going on with a reconcile keeps the types. *)
LEMMA ContinueTypes == TypeInv /\ ContinueMachine => TypeInv'
<1> SUFFICES ASSUME TypeInv, ContinueMachine PROVE TypeInv'
  OBVIOUS
<1>0. ObjectsTypeOK /\ mw \in MachineWorker /\ WorkerShape
  BY DEF TypeInv, MachineTypeOK
<1> USE DEF AdoptionSteps, CloseSteps, DeletionSteps
<1>1. CASE NoBootstrapData \/ SkipProvisioning \/ ConnectFails \/ Connect
  BY <1>0, <1>1 DEF NoBootstrapData, SkipProvisioning, ConnectFails, Connect,
       Goto, CloseWith, MachineWorker, WorkerShape, TypeInv, MachineTypeOK,
       ObjectsTypeOK, objectVars
<1>2. CASE TakePriority
  <2> DEFINE count == IF mw.hip = None THEN None ELSE Seen(ips[mw.hip])
  <2>1. mw.pool \in Pools /\ mw.hip \in IPs \cup {None}
    BY <1>0, <1>2 DEF TakePriority, WorkerShape, MachineWorker
  <2>2. ips' \in [IPs -> Log(Count)]
    <3>1. CASE count \in Nat /\ mw.hip # None
      <4>1. count + 1 \in Count BY <3>1 DEF Count
      <4>2. ips' \in Patched(ips, mw.hip, count + 1)
        BY <1>2, <3>1 DEF TakePriority
      <4> QED BY <1>0, <2>1, <3>1, <4>1, <4>2, PatchedStore DEF ObjectsTypeOK
    <3>2. CASE count \notin Nat
      BY <1>0, <1>2, <3>2 DEF TakePriority, ObjectsTypeOK
    <3>3. CASE count \in Nat /\ mw.hip = None
      <4>1. ips' \in {ips} \cup {[ips EXCEPT ![mw.hip] = Push(ips[mw.hip], count + 1)]}
        BY <1>2, <3>3 DEF TakePriority, Patched
      <4>2. mw.hip \notin IPs BY <3>3, ObjectsAssumption
      <4> QED BY <1>0, <4>1, <4>2 DEF ObjectsTypeOK
    <3> QED BY <3>1, <3>2, <3>3
  <2>3. (IF count \in Nat THEN 100 - count ELSE Blank) \in Int \cup {None, Blank}
    OBVIOUS
  <2> DEFINE pri == IF count \in Nat THEN 100 - count ELSE Blank
  <2>4. node' \in [Pools -> Node]
    <3>1. node[mw.pool] \in Node BY <1>0, <2>1 DEF ObjectsTypeOK
    <3>2. node' = [node EXCEPT ![mw.pool] =
                     [node[mw.pool] EXCEPT !.vrrp = pri]]
      BY <1>2 DEF TakePriority
    <3>3. pri \in Int \cup {None, Blank} BY <2>3
    <3> HIDE DEF pri
    <3>4. [node[mw.pool] EXCEPT !.vrrp = pri] \in Node
      BY <3>1, <3>3 DEF Node
    <3> QED BY <1>0, <3>2, <3>4 DEF ObjectsTypeOK
  <2>5. (mw \in MachineWorker)' /\ WorkerShape'
    BY <1>0, <1>2 DEF TakePriority, Goto, MachineWorker, WorkerShape
  <2> QED BY <1>0, <1>2, <2>2, <2>4, <2>5
          DEF TakePriority, TypeInv, MachineTypeOK, ObjectsTypeOK
<1>3. CASE CommandsFail \/ CommandsSucceed
  <2>1. mw.pool \in Pools /\ mw.m \in Machines
    BY <1>0, <1>3 DEF CommandsFail, CommandsSucceed, WorkerShape
  <2>2. node' \in [Pools -> Node]
    <3>1. node[mw.pool] \in Node BY <1>0, <2>1 DEF ObjectsTypeOK
    <3>2. [node[mw.pool] EXCEPT !.kubeadm = TRUE] \in Node
      BY <3>1 DEF Node
    <3>3. [node[mw.pool] EXCEPT !.kubeadm = TRUE, !.joined = mw.m] \in Node
      BY <2>1, <3>1 DEF Node
    <3>4. node' \in {[node EXCEPT ![mw.pool] = n] :
                       n \in {[node[mw.pool] EXCEPT !.kubeadm = TRUE],
                             [node[mw.pool] EXCEPT !.kubeadm = TRUE, !.joined = mw.m]}}
      BY <1>3 DEF CommandsFail, CommandsSucceed
    <3> QED BY <1>0, <3>2, <3>3, <3>4 DEF ObjectsTypeOK
  <2>3. (mw \in MachineWorker)' /\ WorkerShape'
    BY <1>0, <1>3 DEF CommandsFail, CommandsSucceed, CloseWith, MachineWorker,
                      WorkerShape
  <2> QED BY <1>0, <1>3, <2>2, <2>3
          DEF CommandsFail, CommandsSucceed, TypeInv, MachineTypeOK,
              ObjectsTypeOK, stores
<1>4. CASE CloseSpec
  <2> DEFINE live == Live(machines[mw.m])
             ref == IF mw.pool = mw.had THEN live.poolRef ELSE mw.pool
             id == IF mw.ok THEN ProviderID ELSE live.providerID
             new == [live EXCEPT !.poolRef = ref, !.providerID = id]
  <2>1. mw.pool \in Pools /\ mw.m \in Machines
    BY <1>0, <1>4 DEF CloseSpec, WorkerShape
  <2>2. live \in Machine BY <1>0, <2>1, EndsTyped
  <2>3. ref \in Pools \cup {None} /\ id \in Pools \cup {None, NoHost}
    BY <2>1, <2>2 DEF Machine, ProviderID
  <2>4. Kept(live, new) \in Machine BY <2>2, <2>3, MachineVersions
  <2>5. machines' \in Patched(machines, mw.m, Kept(live, new))
        /\ UNCHANGED <<pools, ips, clusters, phase, node>>
    BY <1>4 DEF CloseSpec
  <2>6. ObjectsTypeOK' BY <1>0, <2>1, <2>4, <2>5, WriteMachine
  <2>7. CASE mw.ok
    <3>1. mw' = [mw EXCEPT !.pc = "closeStatus"]
      BY <1>4, <2>7 DEF CloseSpec, Goto
    <3>2. (mw \in MachineWorker)' /\ WorkerShape'
      BY <1>0, <2>1, <3>1 DEF MachineWorker, WorkerShape
    <3> QED BY <2>6, <3>2 DEF TypeInv, MachineTypeOK
  <2>8. CASE ~mw.ok
    <3>1. mw' = MachineIdle
      BY <1>4, <2>8 DEF CloseSpec
    <3>2. (mw \in MachineWorker)' /\ WorkerShape'
      BY <3>1, InitialTypes DEF MachineIdle, WorkerShape
    <3> QED BY <2>6, <3>2 DEF TypeInv, MachineTypeOK
  <2> QED BY <2>7, <2>8
<1>5. CASE CloseStatus \/ RemoveFinalizer
  <2> DEFINE live == Live(machines[mw.m])
  <2>1. mw.m \in Machines
    BY <1>0, <1>5 DEF CloseStatus, RemoveFinalizer, WorkerShape
  <2>2. live \in Machine BY <1>0, <2>1, EndsTyped
  <2>3. /\ Kept(live, [live EXCEPT !.ready = TRUE]) \in Machine
        /\ Kept(live, Gone(live)) \in Machine
    BY <2>2, MachineVersions
  <2>4. ObjectsTypeOK'
    BY <1>0, <1>5, <2>1, <2>3, WriteMachine DEF CloseStatus, RemoveFinalizer
  <2>5. mw' = MachineIdle
    BY <1>5 DEF CloseStatus, RemoveFinalizer
  <2>6. (mw \in MachineWorker)' /\ WorkerShape'
    BY <2>5, InitialTypes DEF MachineIdle, WorkerShape
  <2> QED BY <2>4, <2>6 DEF TypeInv, MachineTypeOK
<1>6. CASE ReleasePool
  <2> DEFINE live == Live(pools[mw.pool])
             cluster == IF mw.snap.cluster = Blank THEN live.cluster ELSE Blank
             master == live.master /\ ~mw.snap.master
  <2>1. mw.pool \in Pools BY <1>0, <1>6 DEF ReleasePool, WorkerShape
  <2>2. live \in Pool BY <1>0, <2>1, EndsTyped
  <2>3. [live EXCEPT !.cluster = cluster, !.master = master] \in Pool
    BY <2>2 DEF Pool
  <2>4. ObjectsTypeOK'
    BY <1>0, <1>6, <2>1, <2>3, WritePool DEF ReleasePool
  <2>5. (mw \in MachineWorker)' /\ WorkerShape'
    BY <1>0, <1>6 DEF ReleasePool, Goto, MachineWorker, WorkerShape
  <2> QED BY <2>4, <2>5 DEF TypeInv, MachineTypeOK
<1> QED BY <1>1, <1>2, <1>3, <1>4, <1>5, <1>6 DEF ContinueMachine

(* Type correctness is inductive. *)
LEMMA TypeNext == TypeInv /\ [MachineNext]_machineVars => TypeInv'
<1> SUFFICES ASSUME TypeInv, [MachineNext]_machineVars PROVE TypeInv'
  OBVIOUS
<1>1. CASE MachineStep
  BY <1>1, StartTypes, ContinueTypes DEF MachineStep
<1>2. CASE MachineEnvironment /\ UNCHANGED mw
  BY <1>2, EnvironmentTypes
<1>3. CASE MachineCrash
  BY <1>3, CrashTypes
<1>4. CASE UNCHANGED machineVars
  BY <1>4 DEF machineVars, objectVars, TypeInv, MachineTypeOK, ObjectsTypeOK,
              WorkerShape
<1> QED BY <1>1, <1>2, <1>3, <1>4 DEF MachineNext

(* The objects, the nodes and the worker keep their types, whatever lags   *)
(* and whatever fails.                                                     *)
THEOREM MachineTypeCorrect == MachineSpec => []MachineTypeOK
<1>1. MachineInit => TypeInv BY TypeInit
<1>2. TypeInv /\ [MachineNext]_machineVars => TypeInv' BY TypeNext
<1>3. TypeInv => MachineTypeOK BY DEF TypeInv
<1> QED BY <1>1, <1>2, <1>3, PTL DEF MachineSpec
-----------------------------------------------------------------------------
(* Why the finalizer guards an attempt although reads are stale.  A machine*)
(* ages: no version that is live follows one that is not.  And a machine   *)
(* is guarded: while the cache may still show a version that is live and   *)
(* has the finalizer, the server's version has the finalizer too, because  *)
(* the only worker that removes it has not seen the deletion yet.          *)
Ageing(log) ==
    \A i \in 1 .. Len(log) : \A j \in i .. Len(log) :
        log[j].state = "live" => log[i].state = "live"

Adoptable(log) ==
    \E i \in 1 .. Len(log) : log[i].state = "live" /\ log[i].finalizer

Guarded(log) ==
    Adoptable(log) => Live(log).finalizer /\ Live(log).state # "gone"

GuardInv ==
    /\ TypeInv
    /\ \A m \in Machines : Ageing(machines[m]) /\ Guarded(machines[m])
    /\ mw.pc \in DeletionSteps => Seen(machines[mw.m]).state # "live"
    /\ FinalizerGuard

(* A write that neither revives a machine nor takes its finalizer while    *)
(* the machine may be adopted.                                             *)
LEMMA WriteGuards ==
    ASSUME NEW log \in Log(Machine), NEW v \in Machine,
           Ageing(log), Guarded(log),
           v.state = "live" => Live(log).state = "live",
           Adoptable(log) => v.finalizer /\ v.state # "gone"
    PROVE  /\ Ageing(Push(log, v)) /\ Guarded(Push(log, v))
           /\ Seen(log).state # "live" => Seen(Push(log, v)).state # "live"
<1> DEFINE new == Push(log, v)
<1>0. /\ new \in Log(Machine) /\ Live(new) = v
      /\ Len(new) \in Nat /\ Len(new) >= 1 /\ Seen(new) = new[1]
      /\ Len(log) \in Nat /\ Len(log) >= 1 /\ Seen(log) = log[1]
      /\ Live(log) = log[Len(log)]
  BY PushLive, LogEnds DEF Live
<1>1. \A i \in 1 .. Len(new) : \A j \in i .. Len(new) :
         \/ \E k \in 1 .. Len(log), l \in 1 .. Len(log) :
              k <= l /\ new[i] = log[k] /\ new[j] = log[l]
         \/ new[j] = v /\ j = Len(new)
  BY PushKeeps
<1> HIDE DEF new
<1>2. \A k \in 1 .. Len(log) : v.state = "live" => log[k].state = "live"
  BY <1>0 DEF Ageing
<1>3. \A i \in 1 .. Len(new) :
         new[i] = v \/ \E k \in 1 .. Len(log) : new[i] = log[k]
  BY <1>0, <1>1
<1>4. Ageing(new)
  <2> SUFFICES ASSUME NEW i \in 1 .. Len(new), NEW j \in i .. Len(new),
                      new[j].state = "live"
               PROVE  new[i].state = "live"
    BY DEF Ageing
  <2>1. CASE \E k \in 1 .. Len(log), l \in 1 .. Len(log) :
                k <= l /\ new[i] = log[k] /\ new[j] = log[l]
    BY <1>0, <2>1 DEF Ageing
  <2>2. CASE new[j] = v
    BY <1>2, <1>3, <2>2
  <2> QED BY <1>1, <2>1, <2>2
<1>5. Guarded(new)
  <2> SUFFICES ASSUME NEW i \in 1 .. Len(new),
                      new[i].state = "live", new[i].finalizer
               PROVE  v.finalizer /\ v.state # "gone"
    BY <1>0 DEF Guarded, Adoptable
  <2>1. CASE new[i] = v BY <2>1
  <2>2. CASE \E k \in 1 .. Len(log) : new[i] = log[k]
    BY <2>2 DEF Adoptable
  <2> QED BY <1>3, <2>1, <2>2
<1>6. Seen(log).state # "live" => Seen(new).state # "live"
  <2> SUFFICES ASSUME Seen(log).state # "live" PROVE new[1].state # "live"
    BY <1>0
  <2>1. \A k \in 1 .. Len(log) : log[k].state # "live"
    BY <1>0 DEF Ageing
  <2> QED BY <1>0, <1>2, <1>3, <2>1
<1> QED BY <1>4, <1>5, <1>6 DEF new

(* A watch event and a restart only forget old versions. *)
LEMMA ForgetGuards ==
    ASSUME NEW log \in Log(Machine), Ageing(log), Guarded(log)
    PROVE  /\ Ageing(Delivered(log)) /\ Guarded(Delivered(log))
           /\ Seen(log).state # "live" => Seen(Delivered(log)).state # "live"
           /\ Ageing(<<Live(log)>>) /\ Guarded(<<Live(log)>>)
<1> DEFINE new == Delivered(log)
<1>0. /\ Live(new) = Live(log)
      /\ Len(new) \in Nat /\ Len(new) >= 1 /\ Seen(new) = new[1]
      /\ Len(log) \in Nat /\ Len(log) >= 1 /\ Seen(log) = log[1]
  BY DeliverLive, LogEnds
<1>1. \A i \in 1 .. Len(new) : \A j \in i .. Len(new) :
         \E k \in 1 .. Len(log) : \E l \in k .. Len(log) :
            new[i] = log[k] /\ new[j] = log[l]
  BY DeliverLive
<1>2. Ageing(<<Live(log)>>) /\ Guarded(<<Live(log)>>)
  <2>1. Len(<<Live(log)>>) = 1 /\ <<Live(log)>>[1] = Live(log)
    OBVIOUS
  <2>2. Live(<<Live(log)>>) = Live(log)
    BY <2>1 DEF Live
  <2> HIDE DEF Live
  <2>3. Ageing(<<Live(log)>>) BY <2>1 DEF Ageing
  <2>4. Live(log).state = "live" => Live(log).state # "gone" OBVIOUS
  <2> QED BY <2>1, <2>2, <2>3, <2>4 DEF Guarded, Adoptable
<1> HIDE DEF new
<1>3. Ageing(new)
  <2> SUFFICES ASSUME NEW i \in 1 .. Len(new), NEW j \in i .. Len(new),
                      new[j].state = "live"
               PROVE  new[i].state = "live"
    BY DEF Ageing
  <2>1. PICK k \in 1 .. Len(log) : \E l \in k .. Len(log) :
           new[i] = log[k] /\ new[j] = log[l]
    BY <1>1
  <2> QED BY <2>1 DEF Ageing
<1>4. \A i \in 1 .. Len(new) : \E k \in 1 .. Len(log) : new[i] = log[k]
  BY <1>0, <1>1
<1>5. Guarded(new)
  <2>1. Adoptable(new) => Adoptable(log) BY <1>4 DEF Adoptable
  <2> QED BY <1>0, <2>1 DEF Guarded
<1>6. Seen(log).state # "live" => Seen(new).state # "live"
  BY <1>0, <1>4 DEF Ageing
<1> QED BY <1>2, <1>3, <1>5, <1>6 DEF new
(* A write of the API server that neither revives a machine nor takes its  *)
(* finalizer keeps every log ageing and guarded.                           *)
LEMMA PatchGuards ==
    ASSUME GuardInv, NEW m \in Machines, NEW v \in Machine,
           machines' \in Patched(machines, m, v),
           v.state = "live" => Live(machines[m]).state = "live",
           Adoptable(machines[m]) => v.finalizer /\ v.state # "gone"
    PROVE  /\ \A n \in Machines : Ageing(machines'[n]) /\ Guarded(machines'[n])
           /\ \A n \in Machines : Seen(machines[n]).state # "live"
                                   => Seen(machines'[n]).state # "live"
           /\ \A n \in Machines : n # m => Live(machines'[n]) = Live(machines[n])
           /\ Live(machines'[m]) \in {Live(machines[m]), v}
<1>1. machines \in [Machines -> Log(Machine)]
  BY DEF GuardInv, TypeInv, MachineTypeOK, ObjectsTypeOK
<1>2. \A n \in Machines : Ageing(machines[n]) /\ Guarded(machines[n])
  BY DEF GuardInv
<1>3. /\ \A n \in Machines : n # m => machines'[n] = machines[n]
      /\ machines'[m] = machines[m] \/ machines'[m] = Push(machines[m], v)
  BY <1>1, PatchedStore
<1>4. /\ Ageing(machines'[m]) /\ Guarded(machines'[m])
      /\ Seen(machines[m]).state # "live" => Seen(machines'[m]).state # "live"
      /\ Live(machines'[m]) \in {Live(machines[m]), v}
  BY <1>1, <1>2, <1>3, WriteGuards, PushLive
<1> QED BY <1>2, <1>3, <1>4

(* The finalizer and the state of a machine after a write that only fills  *)
(* in other fields.                                                        *)
LEMMA CalmVersions ==
    ASSUME NEW old \in Machine, NEW ref, NEW id, NEW new,
           \/ new = Kept(old, [old EXCEPT !.finalizer = TRUE])
           \/ new = Kept(old, [old EXCEPT !.poolRef = ref, !.providerID = id])
           \/ new = Kept(old, [old EXCEPT !.ready = TRUE])
    PROVE  new.state = old.state /\ (old.finalizer => new.finalizer)
BY DEF Machine, Kept

(* It holds where no machine has a finalizer yet. *)
LEMMA GuardFresh ==
    ASSUME TypeInv, mw = MachineIdle,
           \A m \in Machines : machines[m] = <<NewMachine>>
    PROVE  GuardInv
<1>1. \A m \in Machines : Ageing(machines[m]) /\ Guarded(machines[m])
  <2> TAKE m \in Machines
  <2>1. Len(machines[m]) = 1 /\ machines[m][1] = NewMachine OBVIOUS
  <2>2. ~Adoptable(machines[m]) BY <2>1 DEF Adoptable, NewMachine
  <2> QED BY <2>1, <2>2 DEF Ageing, Guarded
<1>2. mw.pc = "idle" BY DEF MachineIdle
<1>3. FinalizerGuard /\ mw.pc \notin DeletionSteps
  BY <1>2 DEF FinalizerGuard, Attempting, AdoptionSteps, CloseSteps, DeletionSteps
<1> QED BY <1>1, <1>3 DEF GuardInv

(* So it does at first. *)
LEMMA GuardInit == MachineInit => GuardInv
BY TypeInit, GuardFresh DEF MachineInit

(* Steps that leave the machines alone: the worker moves on within its     *)
(* attempt or its deletion, or ends.                                       *)
LEMMA SameMachines ==
    ASSUME GuardInv, TypeInv', machines' = machines,
           mw'.pc \in AdoptionSteps \cup CloseSteps =>
              mw.pc \in AdoptionSteps \cup CloseSteps /\ mw'.m = mw.m,
           mw'.pc \in DeletionSteps =>
              mw.pc \in DeletionSteps /\ mw'.m = mw.m
    PROVE  GuardInv'
<1>1. \A m \in Machines : Attempting(m)' => Attempting(m)
  BY DEF Attempting
<1>2. FinalizerGuard'
  BY <1>1 DEF GuardInv, FinalizerGuard
<1> QED BY <1>2 DEF GuardInv
(* A step of the environment keeps the invariant. *)
LEMMA GuardEnvironment ==
    GuardInv /\ TypeInv' /\ MachineEnvironment /\ UNCHANGED mw => GuardInv'
<1> SUFFICES ASSUME GuardInv, TypeInv', MachineEnvironment, UNCHANGED mw
             PROVE  GuardInv'
  OBVIOUS
<1>0. /\ machines \in [Machines -> Log(Machine)]
      /\ \A m \in Machines : Ageing(machines[m]) /\ Guarded(machines[m])
      /\ mw.pc # "idle" => mw.m \in Machines
  BY DEF GuardInv, TypeInv, MachineTypeOK, ObjectsTypeOK, WorkerShape
<1>1. CASE machines' = machines
  BY <1>1, SameMachines
<1>2. ASSUME NEW m \in Machines, DeleteMachine(m) PROVE GuardInv'
  <2> DEFINE live == Live(machines[m])
             v == Deleted(live)
  <2>1. live \in Machine /\ v \in Machine /\ live.state = "live"
    BY <1>0, <1>2, LogEnds, MachineVersions DEF DeleteMachine
  <2>2. machines' \in Patched(machines, m, v)
    BY <1>2 DEF DeleteMachine, Patched
  <2>3. Adoptable(machines[m]) => v.finalizer /\ v.state # "gone"
    BY <1>0, <2>1 DEF Guarded, Deleted, Machine
  <2>4. live.finalizer => v.finalizer /\ v.state # "gone"
    BY <2>1 DEF Deleted, Machine
  <2> HIDE DEF v
  <2>5. /\ \A n \in Machines : Ageing(machines'[n]) /\ Guarded(machines'[n])
        /\ \A n \in Machines : Seen(machines[n]).state # "live"
                                => Seen(machines'[n]).state # "live"
        /\ \A n \in Machines : n # m => Live(machines'[n]) = Live(machines[n])
        /\ Live(machines'[m]) \in {live, v}
    BY <2>1, <2>2, <2>3, PatchGuards
  <2>6. FinalizerGuard'
    BY <2>1, <2>4, <2>5 DEF GuardInv, FinalizerGuard, Attempting
  <2>7. mw.pc \in DeletionSteps => Seen(machines'[mw.m]).state # "live"
    BY <1>0, <2>5 DEF GuardInv, DeletionSteps
  <2> QED BY <2>5, <2>6, <2>7 DEF GuardInv
<1>3. ASSUME NEW m \in Machines, DeliverMachine(m) PROVE GuardInv'
  <2>1. machines' = [machines EXCEPT ![m] = Delivered(machines[m])]
    BY <1>3 DEF DeliverMachine
  <2>2. /\ Ageing(Delivered(machines[m])) /\ Guarded(Delivered(machines[m]))
        /\ Seen(machines[m]).state # "live"
             => Seen(Delivered(machines[m])).state # "live"
        /\ Live(Delivered(machines[m])) = Live(machines[m])
    BY <1>0, ForgetGuards, DeliverLive
  <2>3. \A n \in Machines : /\ Ageing(machines'[n]) /\ Guarded(machines'[n])
                            /\ Seen(machines[n]).state # "live"
                                 => Seen(machines'[n]).state # "live"
                            /\ Live(machines'[n]) = Live(machines[n])
    BY <1>0, <2>1, <2>2
  <2>4. FinalizerGuard'
    BY <2>3 DEF GuardInv, FinalizerGuard, Attempting
  <2>5. mw.pc \in DeletionSteps => Seen(machines'[mw.m]).state # "live"
    BY <1>0, <2>3 DEF GuardInv, DeletionSteps
  <2> QED BY <2>3, <2>4, <2>5 DEF GuardInv
<1>4. MachineEnvironment =>
        \/ machines' = machines
        \/ \E m \in Machines : DeleteMachine(m) \/ DeliverMachine(m)
  BY DEF MachineEnvironment, Deliver, StartProvisioning, DeliverPool, DeliverIP,
         DeliverCluster, stores
<1> QED BY <1>1, <1>2, <1>3, <1>4

(* A crash keeps the invariant. *)
LEMMA GuardCrash == GuardInv /\ TypeInv' /\ MachineCrash => GuardInv'
<1> SUFFICES ASSUME GuardInv, TypeInv', MachineCrash PROVE GuardInv'
  OBVIOUS
<1>0. /\ machines \in [Machines -> Log(Machine)]
      /\ \A m \in Machines : Ageing(machines[m]) /\ Guarded(machines[m])
  BY DEF GuardInv, TypeInv, MachineTypeOK, ObjectsTypeOK
<1>1. \A m \in Machines : machines'[m] = <<Live(machines[m])>>
  BY <1>0, RelistedStore DEF MachineCrash, Restart
<1>2. \A m \in Machines : Ageing(machines'[m]) /\ Guarded(machines'[m])
  BY <1>0, <1>1, ForgetGuards
<1>3. mw'.pc = "idle"
  BY DEF MachineCrash, MachineIdle
<1> QED BY <1>2, <1>3 DEF GuardInv, FinalizerGuard, Attempting,
                          AdoptionSteps, CloseSteps, DeletionSteps

(* Taking up a machine or its deletion keeps the invariant. *)
LEMMA GuardStart ==
    ASSUME GuardInv, TypeInv', NEW m \in Machines,
           AddFinalizer(m) \/ StartDeletion(m) \/ \E p \in Pools : AdoptPool(m, p)
    PROVE  GuardInv'
<1>0. /\ machines \in [Machines -> Log(Machine)]
      /\ \A n \in Machines : Ageing(machines[n]) /\ Guarded(machines[n])
      /\ mw.pc # "idle" => mw.m \in Machines
  BY DEF GuardInv, TypeInv, MachineTypeOK, ObjectsTypeOK, WorkerShape
<1>1. CASE AddFinalizer(m)
  <2> DEFINE live == Live(machines[m])
             v == Kept(live, [live EXCEPT !.finalizer = TRUE])
  <2>1. live \in Machine /\ v \in Machine
    BY <1>0, LogEnds, MachineVersions
  <2>2. v.state = live.state /\ (live.finalizer => v.finalizer)
    BY <2>1, CalmVersions
  <2>3. Adoptable(machines[m]) => v.finalizer /\ v.state # "gone"
    BY <1>0, <2>2 DEF Guarded
  <2>4. machines' \in Patched(machines, m, v) /\ mw' = mw /\ mw.pc = "idle"
    BY <1>1 DEF AddFinalizer
  <2> HIDE DEF v
  <2>5. \A n \in Machines : Ageing(machines'[n]) /\ Guarded(machines'[n])
    BY <2>1, <2>2, <2>3, <2>4, PatchGuards
  <2> QED BY <2>4, <2>5 DEF GuardInv, FinalizerGuard, Attempting,
                            AdoptionSteps, CloseSteps, DeletionSteps
<1>2. CASE StartDeletion(m)
  <2>1. /\ machines' = machines /\ mw'.m = m
        /\ mw'.pc \in DeletionSteps
        /\ Seen(machines[m]).state = "deleting"
    BY <1>2 DEF StartDeletion, LeaveNode, CleanNode, Deleting, objectVars,
                stores, MachineIdle, DeletionSteps
  <2> QED BY <2>1 DEF GuardInv, FinalizerGuard, Attempting,
                      AdoptionSteps, CloseSteps, DeletionSteps
<1>3. CASE \E p \in Pools : AdoptPool(m, p)
  <2>1. /\ machines' = machines /\ mw'.m = m /\ mw'.pc = "bootstrap"
        /\ Seen(machines[m]).state = "live" /\ Seen(machines[m]).finalizer
    BY <1>3 DEF AdoptPool, Provisionable
  <2>2. Adoptable(machines[m])
    BY <1>0, <2>1, LogEnds DEF Adoptable
  <2>3. Live(machines[m]).finalizer /\ Live(machines[m]).state # "gone"
    BY <1>0, <2>2 DEF Guarded
  <2> QED BY <2>1, <2>3 DEF GuardInv, FinalizerGuard, Attempting,
                            AdoptionSteps, CloseSteps, DeletionSteps
<1> QED BY <1>1, <1>2, <1>3

(* Going on with a reconcile keeps the invariant. *)
LEMMA GuardContinue == GuardInv /\ TypeInv' /\ ContinueMachine => GuardInv'
<1> SUFFICES ASSUME GuardInv, TypeInv', ContinueMachine PROVE GuardInv'
  OBVIOUS
<1>0. /\ machines \in [Machines -> Log(Machine)]
      /\ \A m \in Machines : Ageing(machines[m]) /\ Guarded(machines[m])
      /\ mw \in MachineWorker
      /\ mw.pc # "idle" => mw.m \in Machines
      /\ mw.pc \in CloseSteps => mw.pool \in Pools
      /\ FinalizerGuard
  BY DEF GuardInv, TypeInv, MachineTypeOK, ObjectsTypeOK, WorkerShape
<1>1. CASE \/ NoBootstrapData \/ SkipProvisioning \/ ConnectFails \/ Connect
           \/ TakePriority \/ CommandsFail \/ CommandsSucceed \/ ReleasePool
  <2>1. machines' = machines /\ mw'.m = mw.m
    BY <1>0, <1>1 DEF NoBootstrapData, SkipProvisioning, ConnectFails, Connect,
         TakePriority, CommandsFail, CommandsSucceed, ReleasePool, Goto,
         CloseWith, objectVars, stores, MachineWorker
  <2>2. /\ mw'.pc \in AdoptionSteps \cup CloseSteps =>
             mw.pc \in AdoptionSteps \cup CloseSteps
        /\ mw'.pc \in DeletionSteps => mw.pc \in DeletionSteps
    BY <1>0, <1>1 DEF NoBootstrapData, SkipProvisioning, ConnectFails, Connect,
         TakePriority, CommandsFail, CommandsSucceed, ReleasePool, Goto,
         CloseWith, MachineWorker, AdoptionSteps, CloseSteps, DeletionSteps
  <2> QED BY <2>1, <2>2, SameMachines
<1>2. CASE CloseSpec \/ CloseStatus
  <2> DEFINE live == Live(machines[mw.m])
             ref == IF mw.pool = mw.had THEN live.poolRef ELSE mw.pool
             id == IF mw.ok THEN ProviderID ELSE live.providerID
  <2>1. mw.m \in Machines /\ mw.pool \in Pools /\ Attempting(mw.m)
    BY <1>0, <1>2 DEF CloseSpec, CloseStatus, CloseSteps, Attempting
  <2>2. live \in Machine BY <1>0, <2>1, LogEnds
  <2>3. ref \in Pools \cup {None} /\ id \in Pools \cup {None, NoHost}
    BY <2>1, <2>2 DEF Machine, ProviderID
  <2>4. PICK v \in {Kept(live, [live EXCEPT !.poolRef = ref, !.providerID = id]),
                    Kept(live, [live EXCEPT !.ready = TRUE])} :
           machines' \in Patched(machines, mw.m, v)
    BY <1>2 DEF CloseSpec, CloseStatus
  <2> HIDE DEF live, ref, id
  <2>5. v \in Machine
    BY <2>2, <2>3, <2>4, MachineVersions
  <2>6. v.state = live.state /\ (live.finalizer => v.finalizer)
    <3>1. \/ v = Kept(live, [live EXCEPT !.poolRef = ref, !.providerID = id])
          \/ v = Kept(live, [live EXCEPT !.ready = TRUE])
      BY <2>4
    <3> QED BY <2>2, <3>1 DEF Machine, Kept
  <2>7. live.finalizer /\ live.state # "gone"
    BY <1>0, <2>1 DEF FinalizerGuard, live
  <2>8. /\ \A n \in Machines : Ageing(machines'[n]) /\ Guarded(machines'[n])
        /\ \A n \in Machines : n # mw.m => Live(machines'[n]) = Live(machines[n])
        /\ Live(machines'[mw.m]) \in {live, v}
    BY <2>1, <2>4, <2>5, <2>6, <2>7, PatchGuards DEF live
  <2>9. mw'.pc \in {"idle", "closeStatus"} /\ (mw'.pc = "closeStatus" => mw'.m = mw.m)
    BY <1>0, <1>2 DEF CloseSpec, CloseStatus, Goto, MachineIdle, MachineWorker
  <2>10. Live(machines'[mw.m]).finalizer /\ Live(machines'[mw.m]).state # "gone"
    BY <2>6, <2>7, <2>8
  <2>11. FinalizerGuard' /\ mw'.pc \notin DeletionSteps
    BY <2>9, <2>10 DEF FinalizerGuard, Attempting,
                       AdoptionSteps, CloseSteps, DeletionSteps
  <2> QED BY <2>8, <2>11 DEF GuardInv
<1>3. CASE RemoveFinalizer
  <2> DEFINE live == Live(machines[mw.m])
             v == Kept(live, Gone(live))
  <2>1. mw.m \in Machines /\ Seen(machines[mw.m]).state # "live"
    BY <1>0, <1>3 DEF RemoveFinalizer, GuardInv, DeletionSteps
  <2>2. live \in Machine /\ v \in Machine
    BY <1>0, <2>1, LogEnds, MachineVersions
  <2>3. v.state # "live"
    BY <2>2 DEF Kept, Gone, Machine
  <2>4. ~Adoptable(machines[mw.m])
    BY <1>0, <2>1, LogEnds DEF Ageing, Adoptable
  <2>5. machines' \in Patched(machines, mw.m, v) /\ mw'.pc = "idle"
    BY <1>3 DEF RemoveFinalizer, MachineIdle
  <2> HIDE DEF v
  <2>6. \A n \in Machines : Ageing(machines'[n]) /\ Guarded(machines'[n])
    BY <2>1, <2>2, <2>3, <2>4, <2>5, PatchGuards
  <2> QED BY <2>5, <2>6 DEF GuardInv, FinalizerGuard, Attempting,
                            AdoptionSteps, CloseSteps, DeletionSteps
<1> QED BY <1>1, <1>2, <1>3 DEF ContinueMachine

(* Whatever lags and whatever fails, a machine being provisioned exists    *)
(* and has the finalizer.                                                  *)
THEOREM AttemptsAreGuarded == MachineSpec => []FinalizerGuard
<1>1. MachineInit => GuardInv BY GuardInit
<1>2. GuardInv /\ [MachineNext]_machineVars => GuardInv'
  <2> SUFFICES ASSUME GuardInv, [MachineNext]_machineVars PROVE GuardInv'
    OBVIOUS
  <2>0. TypeInv' BY TypeNext DEF GuardInv
  <2>1. CASE MachineStep
    BY <2>0, <2>1, GuardStart, GuardContinue DEF MachineStep
  <2>2. CASE MachineEnvironment /\ UNCHANGED mw
    BY <2>0, <2>2, GuardEnvironment
  <2>3. CASE MachineCrash
    BY <2>0, <2>3, GuardCrash
  <2>4. CASE UNCHANGED machineVars
    BY <2>0, <2>4, SameMachines DEF machineVars, objectVars
  <2> QED BY <2>1, <2>2, <2>3, <2>4 DEF MachineNext
<1>3. GuardInv => FinalizerGuard BY DEF GuardInv
<1> QED BY <1>1, <1>2, <1>3, PTL DEF MachineSpec

-----------------------------------------------------------------------------
(* Spec before status.  The status is only patched by a worker whose first *)
(* patch has put the providerID into the machine, and nothing takes it     *)
(* back: only the server's version matters, so stale reads do not.         *)
Identified(m) == Live(machines[m]).providerID # None

IdentityInv ==
    /\ TypeInv
    /\ ReadyHasIdentity
    /\ mw.pc = "closeStatus" =>
          Identified(mw.m) \/ Live(machines[mw.m]).state = "gone"

(* A write that takes no providerID, makes no machine ready without one    *)
(* and lets no removed machine come back, by a worker that does not go on  *)
(* to the second patch, keeps the invariant.                               *)
LEMMA IdentityWrite ==
    ASSUME IdentityInv, TypeInv', NEW m \in Machines, NEW v \in Machine,
           machines' \in Patched(machines, m, v),
           v.ready => v.providerID # None,
           Identified(m) => v.providerID # None,
           Live(machines[m]).state = "gone" => v.state = "gone",
           mw'.pc = "closeStatus" => mw.pc = "closeStatus" /\ mw'.m = mw.m
    PROVE  IdentityInv'
<1>1. machines \in [Machines -> Log(Machine)]
      /\ (mw.pc = "closeStatus" => mw.m \in Machines)
  BY DEF IdentityInv, TypeInv, MachineTypeOK, ObjectsTypeOK, WorkerShape
<1>2. /\ \A n \in Machines : n # m => Live(machines'[n]) = Live(machines[n])
      /\ Live(machines'[m]) \in {Live(machines[m]), v}
  BY <1>1, PatchedStore, PushLive
<1>3. ReadyHasIdentity'
  BY <1>2 DEF IdentityInv, ReadyHasIdentity
<1>4. (mw.pc = "closeStatus" =>
          Identified(mw.m) \/ Live(machines[mw.m]).state = "gone")'
  BY <1>1, <1>2 DEF IdentityInv, Identified
<1> QED BY <1>3, <1>4 DEF IdentityInv

(* A step that leaves the server's machines alone keeps the invariant.     *)
LEMMA IdentitySame ==
    ASSUME IdentityInv, TypeInv',
           \A n \in Machines : Live(machines'[n]) = Live(machines[n]),
           mw'.pc = "closeStatus" => mw.pc = "closeStatus" /\ mw'.m = mw.m
    PROVE  IdentityInv'
<1>1. mw.pc = "closeStatus" => mw.m \in Machines
  BY DEF IdentityInv, TypeInv, WorkerShape
<1> QED BY <1>1 DEF IdentityInv, ReadyHasIdentity, Identified

(* Every step keeps the invariant, if patches are answered.                *)
LEMMA IdentityNext ==
    ASSUME "api" \notin Faults, IdentityInv, [MachineNext]_machineVars
    PROVE  IdentityInv'
<1>0. /\ TypeInv'
      /\ machines \in [Machines -> Log(Machine)]
      /\ mw \in MachineWorker
      /\ mw.pc # "idle" => mw.m \in Machines
      /\ mw.pc \in CloseSteps => mw.pool \in Pools
      /\ \A m \in Machines : Live(machines[m]) \in Machine
      /\ \A m \in Machines : Live(machines[m]).ready => Identified(m)
  BY TypeNext, EndsTyped DEF IdentityInv, TypeInv, MachineTypeOK,
     ObjectsTypeOK, WorkerShape, ReadyHasIdentity, Identified
<1>1. ASSUME NEW m \in Machines, AddFinalizer(m) PROVE IdentityInv'
  <2> DEFINE live == Live(machines[m])
             v == Kept(live, [live EXCEPT !.finalizer = TRUE])
  <2>1. v \in Machine /\ machines' \in Patched(machines, m, v)
    BY <1>0, <1>1, MachineVersions DEF AddFinalizer
  <2>2. /\ v.ready = live.ready /\ v.providerID = live.providerID
        /\ v.state = live.state
    BY <1>0 DEF Kept, Machine
  <2>3. mw' = mw BY <1>1 DEF AddFinalizer
  <2> HIDE DEF v
  <2> QED BY <1>0, <2>1, <2>2, <2>3, IdentityWrite DEF Identified
<1>2. ASSUME NEW m \in Machines, StartDeletion(m) PROVE IdentityInv'
  <2>1. machines' = machines /\ mw'.pc # "closeStatus"
    BY <1>2 DEF StartDeletion, LeaveNode, CleanNode, objectVars, stores,
                MachineIdle
  <2> QED BY <1>0, <2>1, IdentitySame
<1>3. ASSUME NEW m \in Machines, NEW p \in Pools, AdoptPool(m, p)
      PROVE  IdentityInv'
  <2>1. machines' = machines /\ mw'.pc # "closeStatus"
    BY <1>3 DEF AdoptPool
  <2> QED BY <1>0, <2>1, IdentitySame
<1>4. CASE \/ NoBootstrapData \/ SkipProvisioning \/ ConnectFails \/ Connect
           \/ TakePriority \/ CommandsFail \/ CommandsSucceed \/ ReleasePool
  <2>1. machines' = machines
    BY <1>4 DEF NoBootstrapData, SkipProvisioning, ConnectFails, Connect,
         TakePriority, CommandsFail, CommandsSucceed, ReleasePool, objectVars,
         stores
  <2>2. mw'.pc # "closeStatus"
    BY <1>0, <1>4 DEF NoBootstrapData, SkipProvisioning, ConnectFails, Connect,
         TakePriority, CommandsFail, CommandsSucceed, ReleasePool, Goto,
         CloseWith, MachineWorker
  <2> QED BY <1>0, <2>1, <2>2, IdentitySame
<1>5. CASE CloseSpec
  <2> DEFINE live == Live(machines[mw.m])
             ref == IF mw.pool = mw.had THEN live.poolRef ELSE mw.pool
             id == IF mw.ok THEN ProviderID ELSE live.providerID
             v == Kept(live, [live EXCEPT !.poolRef = ref, !.providerID = id])
  <2>1. mw.m \in Machines /\ mw.pool \in Pools /\ live \in Machine
    BY <1>0, <1>5 DEF CloseSpec, CloseSteps
  <2>2. /\ ref \in Pools \cup {None} /\ id \in Pools \cup {None, NoHost}
        /\ mw.ok => id # None
        /\ live.providerID # None => id # None
    BY <2>1, ObjectsAssumption DEF ProviderID, Machine
  <2>3. machines' \in Patched(machines, mw.m, v)
    BY <1>5 DEF CloseSpec
  <2> HIDE DEF ref, id
  <2>4. /\ v \in Machine /\ v.ready = live.ready
        /\ live.state # "gone" => v.state = live.state /\ v.providerID = id
        /\ live.state = "gone" => v = live
    BY <2>1, <2>2, MachineVersions DEF Kept, Machine
  <2> HIDE DEF v
  <2>5. CASE mw.ok
    <3>1. machines'[mw.m] = Push(machines[mw.m], v)
      BY <1>0, <2>1, <2>3, <2>4, PatchedStore
    <3>2. Live(machines'[mw.m]) = v
      BY <1>0, <2>1, <2>4, <3>1, PushLive
    <3>3. \A n \in Machines : n # mw.m => machines'[n] = machines[n]
      BY <1>0, <2>1, <2>3, <2>4, PatchedStore
    <3>4. mw'.m = mw.m
      BY <1>0, <1>5, <2>5 DEF CloseSpec, Goto, MachineWorker
    <3>5. ReadyHasIdentity'
      BY <1>0, <2>1, <2>2, <2>4, <2>5, <3>2, <3>3
         DEF ReadyHasIdentity, Identified
    <3>6. (Identified(mw.m) \/ Live(machines[mw.m]).state = "gone")'
      BY <2>2, <2>4, <2>5, <3>2, <3>4 DEF Identified
    <3> QED BY <1>0, <3>5, <3>6 DEF IdentityInv
  <2>6. CASE ~mw.ok
    <3>1. mw'.pc # "closeStatus"
      BY <1>5, <2>6 DEF CloseSpec, MachineIdle
    <3>2. /\ v.ready => v.providerID # None
          /\ Identified(mw.m) => v.providerID # None
          /\ live.state = "gone" => v.state = "gone"
      BY <1>0, <2>1, <2>2, <2>4 DEF Identified
    <3> QED BY <1>0, <2>1, <2>3, <2>4, <3>1, <3>2, IdentityWrite
  <2> QED BY <2>5, <2>6
<1>6. CASE CloseStatus
  <2> DEFINE live == Live(machines[mw.m])
             v == Kept(live, [live EXCEPT !.ready = TRUE])
  <2>1. mw.m \in Machines /\ live \in Machine
    BY <1>0, <1>6 DEF CloseStatus
  <2>2. Identified(mw.m) \/ live.state = "gone"
    BY <1>6 DEF CloseStatus, IdentityInv
  <2>3. /\ v \in Machine /\ machines' \in Patched(machines, mw.m, v)
        /\ mw'.pc # "closeStatus"
    BY <1>6, <2>1, MachineVersions DEF CloseStatus, MachineIdle
  <2>4. /\ v.providerID = live.providerID /\ v.state = live.state
        /\ live.state = "gone" => v = live
    BY <2>1 DEF Kept, Machine
  <2> HIDE DEF v
  <2>5. v.ready => v.providerID # None
    BY <1>0, <2>1, <2>2, <2>4 DEF Identified
  <2> QED BY <1>0, <2>1, <2>3, <2>4, <2>5, IdentityWrite DEF Identified
<1>7. CASE RemoveFinalizer
  <2> DEFINE live == Live(machines[mw.m])
             v == Kept(live, Gone(live))
  <2>1. mw.m \in Machines /\ live \in Machine
    BY <1>0, <1>7 DEF RemoveFinalizer
  <2>2. /\ v \in Machine /\ machines' \in Patched(machines, mw.m, v)
        /\ mw'.pc # "closeStatus"
    BY <1>7, <2>1, MachineVersions DEF RemoveFinalizer, MachineIdle
  <2>3. /\ v.ready = live.ready /\ v.providerID = live.providerID
        /\ v.state = "gone"
    BY <2>1 DEF Kept, Gone, Machine
  <2> HIDE DEF v
  <2> QED BY <1>0, <2>1, <2>2, <2>3, IdentityWrite DEF Identified
<1>8. CASE MachineEnvironment /\ UNCHANGED mw
  <2>1. ASSUME NEW m \in Machines, DeleteMachine(m) PROVE IdentityInv'
    <3> DEFINE live == Live(machines[m])
               v == Deleted(live)
    <3>1. v \in Machine /\ live.state # "gone"
      BY <1>0, <2>1, MachineVersions DEF DeleteMachine
    <3>2. machines' \in Patched(machines, m, v)
      BY <2>1 DEF DeleteMachine, Patched
    <3>3. v.ready = live.ready /\ v.providerID = live.providerID
      BY <1>0 DEF Deleted, Gone, Machine
    <3> HIDE DEF v
    <3> QED BY <1>0, <1>8, <3>1, <3>2, <3>3, IdentityWrite DEF Identified
  <2>2. ASSUME NEW m \in Machines, DeliverMachine(m) PROVE IdentityInv'
    <3>1. \A n \in Machines : Live(machines'[n]) = Live(machines[n])
      BY <1>0, <2>2, DeliverLive DEF DeliverMachine
    <3> QED BY <1>0, <1>8, <3>1, IdentitySame
  <2>3. CASE machines' = machines
    BY <1>0, <1>8, <2>3, IdentitySame
  <2>4. MachineEnvironment =>
          \/ machines' = machines
          \/ \E m \in Machines : DeleteMachine(m) \/ DeliverMachine(m)
    BY DEF MachineEnvironment, Deliver, StartProvisioning, DeliverPool,
           DeliverIP, DeliverCluster, stores
  <2> QED BY <1>8, <2>1, <2>2, <2>3, <2>4
<1>9. CASE MachineCrash
  <2>1. mw'.pc # "closeStatus"
    BY <1>9 DEF MachineCrash, MachineIdle
  <2>2. \A m \in Machines : Live(machines'[m]) = Live(machines[m])
    BY <1>0, <1>9, RelistedStore DEF MachineCrash, Restart
  <2> QED BY <1>0, <2>1, <2>2, IdentitySame
<1>10. CASE UNCHANGED machineVars
  BY <1>0, <1>10, IdentitySame DEF machineVars, objectVars
<1>11. CASE MachineStep
  BY <1>1, <1>2, <1>3, <1>4, <1>5, <1>6, <1>7, <1>11
     DEF MachineStep, ContinueMachine
<1> QED BY <1>8, <1>9, <1>10, <1>11 DEF MachineNext

(* When patches are answered, however stale the reads and whatever else    *)
(* fails, a ready machine has its providerID.                              *)
THEOREM ReadyMachinesIdentified ==
    ASSUME "api" \notin Faults
    PROVE  MachineSpec => []ReadyHasIdentity
<1>1. MachineInit => IdentityInv
  <2> SUFFICES ASSUME MachineInit PROVE IdentityInv
    OBVIOUS
  <2>1. \A m \in Machines : Live(machines[m]) = NewMachine
    BY DEF MachineInit, Live
  <2>2. mw.pc = "idle" BY DEF MachineInit, MachineIdle
  <2> QED BY <2>1, <2>2, TypeInit DEF IdentityInv, ReadyHasIdentity, NewMachine
<1>2. IdentityInv /\ [MachineNext]_machineVars => IdentityInv'
  BY IdentityNext
<1>3. IdentityInv => ReadyHasIdentity BY DEF IdentityInv
<1> QED BY <1>1, <1>2, <1>3, PTL DEF MachineSpec
=============================================================================
