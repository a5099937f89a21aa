-------------------------- MODULE MachinePoolProofs --------------------------
(***************************************************************************)
(* Theorems about machines, the pools they adopt and the nodes behind the  *)
(* pools: a free pool is clean, a pool has one machine, a node serves its  *)
(* machine until the machine is deleted.                                   *)
(***************************************************************************)
EXTENDS MachineControllerProofs

-----------------------------------------------------------------------------
(* The types, as the steps below need them. *)
LEMMA Typed ==
    ASSUME TypeInv
    PROVE  /\ machines \in [Machines -> Log(Machine)]
           /\ pools \in [Pools -> Log(Pool)]
           /\ ips \in [IPs -> Log(Count)]
           /\ clusters \in [Clusters -> Log(Cluster)]
           /\ node \in [Pools -> Node]
           /\ mw \in MachineWorker
           /\ mw.pc # "idle" => mw.m \in Machines
           /\ mw.pc \in AdoptionSteps \cup CloseSteps \cup {"release"}
                => mw.pool \in Pools
           /\ \A m \in Machines : Seen(machines[m]) \in Machine
                                  /\ Live(machines[m]) \in Machine
           /\ \A p \in Pools : Seen(pools[p]) \in Pool /\ Live(pools[p]) \in Pool
           /\ \A ip \in IPs : Seen(ips[ip]) \in Count /\ Live(ips[ip]) \in Count
           /\ \A c \in Clusters : Seen(clusters[c]) \in Cluster
                                  /\ Live(clusters[c]) \in Cluster
BY EndsTyped DEF TypeInv, MachineTypeOK, ObjectsTypeOK, WorkerShape

(* A patch that is answered has written the last version of its object. *)
LEMMA PatchedLive ==
    ASSUME "api" \notin Faults, NEW V, NEW K, NEW store \in [K -> Log(V)],
           NEW k \in K, NEW v \in V, NEW new \in Patched(store, k, v)
    PROVE  /\ new \in [K -> Log(V)]
           /\ new[k] = Push(store[k], v) /\ Live(new[k]) = v
           /\ \A x \in K : x # k => new[x] = store[x]
BY PatchedStore, PushLive

(* A cache that does not lag holds what the server holds. *)
LEMMA FreshReads ==
    ASSUME MaxLag = 0, NEW V, NEW log \in Log(V)
    PROVE  Seen(log) = Live(log)
BY DEF Log, Seen, Live

(* The writes of one machine, and of one pool, that a step consists of. *)
MachineBecomes(m, v) ==
    /\ Live(machines'[m]) = v
    /\ \A n \in Machines : n # m => machines'[n] = machines[n]
    /\ UNCHANGED <<pools, ips, clusters, phase, node>>

PoolBecomes(p, v) ==
    /\ pools'[p] = Push(pools[p], v) /\ Live(pools'[p]) = v
    /\ \A q \in Pools : q # p => pools'[q] = pools[q]
    /\ UNCHANGED <<machines, ips, clusters, phase, node>>

(* What the steps that patch a machine make of it, if patches are answered.*)
LEMMA MachinePatches ==
    ASSUME TypeInv, "api" \notin Faults
    PROVE  /\ \A m \in Machines : AddFinalizer(m) =>
                LET live == Live(machines[m])
                IN  /\ MachineBecomes(m, Kept(live,
                                        [live EXCEPT !.finalizer = TRUE]))
                    /\ mw' = mw
           /\ CloseStatus =>
                LET live == Live(machines[mw.m])
                IN  /\ MachineBecomes(mw.m, Kept(live,
                                        [live EXCEPT !.ready = TRUE]))
                    /\ mw' = MachineIdle
           /\ RemoveFinalizer =>
                LET live == Live(machines[mw.m])
                IN  /\ MachineBecomes(mw.m, Kept(live, Gone(live)))
                    /\ mw' = MachineIdle
           /\ \A m \in Machines : DeleteMachine(m) =>
                MachineBecomes(m, Deleted(Live(machines[m])))
<1>1. ASSUME NEW m \in Machines, AddFinalizer(m)
      PROVE  LET live == Live(machines[m])
             IN  /\ MachineBecomes(m, Kept(live,
                                     [live EXCEPT !.finalizer = TRUE]))
                 /\ mw' = mw
  <2> DEFINE live == Live(machines[m])
             v == Kept(live, [live EXCEPT !.finalizer = TRUE])
  <2>1. v \in Machine BY Typed, MachineVersions
  <2>2. machines' \in Patched(machines, m, v) BY <1>1 DEF AddFinalizer
  <2> HIDE DEF v
  <2>3. MachineBecomes(m, v)
    BY <1>1, <2>1, <2>2, Typed, PatchedLive DEF AddFinalizer, MachineBecomes
  <2> QED BY <1>1, <2>3 DEF AddFinalizer, v
<1>2. ASSUME CloseStatus
      PROVE  LET live == Live(machines[mw.m])
             IN  /\ MachineBecomes(mw.m, Kept(live,
                                     [live EXCEPT !.ready = TRUE]))
                 /\ mw' = MachineIdle
  <2> DEFINE live == Live(machines[mw.m])
             v == Kept(live, [live EXCEPT !.ready = TRUE])
  <2>1. mw.m \in Machines BY <1>2, Typed DEF CloseStatus
  <2>2. v \in Machine BY <2>1, Typed, MachineVersions
  <2>3. machines' \in Patched(machines, mw.m, v) BY <1>2 DEF CloseStatus
  <2> HIDE DEF v
  <2>4. MachineBecomes(mw.m, v)
    BY <1>2, <2>1, <2>2, <2>3, Typed, PatchedLive DEF CloseStatus, MachineBecomes
  <2> QED BY <1>2, <2>4 DEF CloseStatus, v
<1>3. ASSUME RemoveFinalizer
      PROVE  LET live == Live(machines[mw.m])
             IN  /\ MachineBecomes(mw.m, Kept(live, Gone(live)))
                 /\ mw' = MachineIdle
  <2> DEFINE live == Live(machines[mw.m])
             v == Kept(live, Gone(live))
  <2>1. mw.m \in Machines BY <1>3, Typed DEF RemoveFinalizer
  <2>2. v \in Machine BY <2>1, Typed, MachineVersions
  <2>3. machines' \in Patched(machines, mw.m, v) BY <1>3 DEF RemoveFinalizer
  <2> HIDE DEF v
  <2>4. MachineBecomes(mw.m, v)
    BY <1>3, <2>1, <2>2, <2>3, Typed, PatchedLive
       DEF RemoveFinalizer, MachineBecomes
  <2> QED BY <1>3, <2>4 DEF RemoveFinalizer, v
<1>4. ASSUME NEW m \in Machines, DeleteMachine(m)
      PROVE  MachineBecomes(m, Deleted(Live(machines[m])))
  <2> DEFINE v == Deleted(Live(machines[m]))
  <2>1. v \in Machine BY Typed, MachineVersions
  <2>2. machines' \in Patched(machines, m, v)
    BY <1>4 DEF DeleteMachine, Patched
  <2> HIDE DEF v
  <2>3. MachineBecomes(m, v)
    BY <1>4, <2>1, <2>2, Typed, PatchedLive DEF DeleteMachine, MachineBecomes
  <2> QED BY <2>3 DEF v
<1> QED BY <1>1, <1>2, <1>3, <1>4

(* The first patch of Close: poolRef and, of a success, the providerID. *)
LEMMA CloseSpecPatch ==
    ASSUME TypeInv, "api" \notin Faults, CloseSpec
    PROVE  LET live == Live(machines[mw.m])
           IN  \E ref \in Pools \cup {None}, id \in Pools \cup {None, NoHost} :
                 /\ ref = IF mw.pool = mw.had THEN live.poolRef ELSE mw.pool
                 /\ id = IF mw.ok THEN ProviderID ELSE live.providerID
                 /\ mw.ok => id # None
                 /\ MachineBecomes(mw.m, Kept(live,
                      [live EXCEPT !.poolRef = ref, !.providerID = id]))
                 /\ mw' = IF mw.ok THEN [mw EXCEPT !.pc = "closeStatus"]
                                   ELSE MachineIdle
<1> DEFINE live == Live(machines[mw.m])
           ref == IF mw.pool = mw.had THEN live.poolRef ELSE mw.pool
           id == IF mw.ok THEN ProviderID ELSE live.providerID
           v == Kept(live, [live EXCEPT !.poolRef = ref, !.providerID = id])
<1>1. mw.m \in Machines /\ mw.pool \in Pools /\ live \in Machine
  BY Typed DEF CloseSpec, CloseSteps
<1>2. /\ ref \in Pools \cup {None} /\ id \in Pools \cup {None, NoHost}
      /\ mw.ok => id # None
  BY <1>1, ObjectsAssumption DEF ProviderID, Machine
<1>3. v \in Machine BY <1>1, <1>2, MachineVersions
<1>4. machines' \in Patched(machines, mw.m, v) BY DEF CloseSpec
<1>5. mw' = IF mw.ok THEN [mw EXCEPT !.pc = "closeStatus"] ELSE MachineIdle
  BY DEF CloseSpec, Goto
<1> HIDE DEF v
<1>6. MachineBecomes(mw.m, v)
  BY <1>1, <1>3, <1>4, Typed, PatchedLive DEF CloseSpec, MachineBecomes
<1> QED BY <1>2, <1>5, <1>6 DEF v

(* What taking a pool and freeing it make of its labels. *)
LEMMA PoolPatches ==
    ASSUME TypeInv, "api" \notin Faults
    PROVE  /\ \A m \in Machines, p \in Pools : AdoptPool(m, p) =>
                LET v == [Live(pools[p]) EXCEPT !.cluster = ClusterOf[m]]
                IN  v \in Pool /\ PoolBecomes(p, v)
           /\ ReleasePool =>
                \E v \in Pool :
                   /\ PoolBecomes(mw.pool, v)
                   /\ v.valid = Live(pools[mw.pool]).valid
                   /\ v.os = Live(pools[mw.pool]).os
                   /\ v.cluster = IF mw.snap.cluster = Blank
                                  THEN Live(pools[mw.pool]).cluster ELSE Blank
<1>1. ASSUME NEW m \in Machines, NEW p \in Pools, AdoptPool(m, p)
      PROVE  LET v == [Live(pools[p]) EXCEPT !.cluster = ClusterOf[m]]
             IN  v \in Pool /\ PoolBecomes(p, v)
  <2> DEFINE v == [Live(pools[p]) EXCEPT !.cluster = ClusterOf[m]]
  <2>1. v \in Pool BY Typed, ObjectsAssumption DEF Pool
  <2>2. pools' \in Patched(pools, p, v) BY <1>1 DEF AdoptPool
  <2> HIDE DEF v
  <2>3. PoolBecomes(p, v)
    BY <1>1, <2>1, <2>2, Typed, PatchedLive DEF AdoptPool, PoolBecomes
  <2> QED BY <2>1, <2>3 DEF v
<1>2. ASSUME ReleasePool
      PROVE  \E v \in Pool :
                   /\ PoolBecomes(mw.pool, v)
                   /\ v.valid = Live(pools[mw.pool]).valid
                   /\ v.os = Live(pools[mw.pool]).os
                   /\ v.cluster = IF mw.snap.cluster = Blank
                                  THEN Live(pools[mw.pool]).cluster ELSE Blank
  <2> DEFINE live == Live(pools[mw.pool])
             cluster == IF mw.snap.cluster = Blank THEN live.cluster ELSE Blank
             master == live.master /\ ~mw.snap.master
             v == [live EXCEPT !.cluster = cluster, !.master = master]
  <2>1. mw.pool \in Pools /\ live \in Pool BY <1>2, Typed DEF ReleasePool
  <2>2. v \in Pool BY <2>1 DEF Pool
  <2>3. v.valid = live.valid /\ v.os = live.os /\ v.cluster = cluster
    BY <2>1 DEF Pool
  <2>4. pools' \in Patched(pools, mw.pool, v) BY <1>2 DEF ReleasePool
  <2> HIDE DEF v
  <2>5. PoolBecomes(mw.pool, v)
    BY <1>2, <2>1, <2>2, <2>4, Typed, PatchedLive DEF ReleasePool, PoolBecomes
  <2> QED BY <2>2, <2>3, <2>5
<1> QED BY <1>1, <1>2

-----------------------------------------------------------------------------
(* Why a free pool's node is clean, that is a CleanedNode, although reads  *)
(* are stale.  A node is only used while its pool is marked with a         *)
(* cluster, and the mark is only taken by the worker that has just cleaned *)
(* the node.  keepalived is purged from nodes whose OS is known, and it    *)
(* only runs on those: a pool's OS, once known, is in every later version. *)
Marked(p) == Live(pools[p]).cluster \in Clusters

KeepsOS(log) ==
    \A i \in 1 .. Len(log) : \A j \in i .. Len(log) :
        log[i].os = "supported" => log[j].os = "supported"

KnownOS(p) == Seen(pools[p]).os = "supported"

UnmarkedClean == \A p \in Pools : Marked(p) \/ node[p] = CleanedNode

UsedMarked == mw.pc \in AdoptionSteps => Marked(mw.pool)

ReleasedClean == mw.pc = "release" => node[mw.pool] = CleanedNode

PriorityKnown ==
    /\ \A p \in Pools : KeepsOS(pools[p])
    /\ \A p \in Pools : node[p].vrrp # None => KnownOS(p)
    /\ mw.pc = "priority" => KnownOS(mw.pool)
    /\ mw.pc = "bootstrap" /\ mw.snap.os = "supported" => KnownOS(mw.pool)

CleanInv == /\ TypeInv
            /\ UnmarkedClean /\ UsedMarked /\ ReleasedClean /\ PriorityKnown

(* The invariant says what FreeIsClean does. *)
LEMMA CleanFree == CleanInv => FreeIsClean
<1> SUFFICES ASSUME CleanInv, NEW p \in Pools, Live(pools[p]).cluster = Blank
             PROVE  node[p] = CleanedNode
  BY DEF FreeIsClean
<1>1. ~Marked(p) BY ObjectsAssumption DEF Marked
<1> QED BY <1>1 DEF CleanInv, UnmarkedClean

(* A write of a pool that does not lose its OS, a watch event and a restart*)
(* keep what is known of the OS.                                           *)
LEMMA WriteOS ==
    ASSUME NEW log \in Log(Pool), NEW v \in Pool, KeepsOS(log),
           Live(log).os = "supported" => v.os = "supported"
    PROVE  /\ KeepsOS(Push(log, v))
           /\ Seen(log).os = "supported" => Seen(Push(log, v)).os = "supported"
<1> DEFINE new == Push(log, v)
<1>0. /\ new \in Log(Pool) /\ Live(new) = v
      /\ Len(new) \in Nat /\ Len(new) >= 1 /\ Seen(new) = new[1]
      /\ Len(log) \in Nat /\ Len(log) >= 1 /\ Seen(log) = log[1]
      /\ Live(log) = log[Len(log)]
  BY PushLive, LogEnds DEF Live
<1>1. \A i \in 1 .. Len(new) : \A j \in i .. Len(new) :
         \/ \E k \in 1 .. Len(log), l \in 1 .. Len(log) :
              k <= l /\ new[i] = log[k] /\ new[j] = log[l]
         \/ new[j] = v /\ j = Len(new)
  BY PushKeeps
<1> HIDE DEF new
<1>2. \A k \in 1 .. Len(log) : log[k].os = "supported" => v.os = "supported"
  BY <1>0 DEF KeepsOS
<1>3. \A i \in 1 .. Len(new) :
         new[i] = v \/ \E k \in 1 .. Len(log) : new[i] = log[k]
  BY <1>0, <1>1
<1>4. KeepsOS(new)
  <2> SUFFICES ASSUME NEW i \in 1 .. Len(new), NEW j \in i .. Len(new),
                      new[i].os = "supported"
               PROVE  new[j].os = "supported"
    BY DEF KeepsOS
  <2>1. CASE \E k \in 1 .. Len(log), l \in 1 .. Len(log) :
                k <= l /\ new[i] = log[k] /\ new[j] = log[l]
    BY <1>0, <2>1 DEF KeepsOS
  <2>2. CASE new[j] = v
    BY <1>2, <1>3, <2>2
  <2> QED BY <1>1, <2>1, <2>2
<1>5. ASSUME Seen(log).os = "supported" PROVE Seen(new).os = "supported"
  <2>1. \A k \in 1 .. Len(log) : log[k].os = "supported"
    BY <1>0, <1>5 DEF KeepsOS
  <2> QED BY <1>0, <1>2, <1>3, <2>1
<1> QED BY <1>4, <1>5 DEF new

(* The same for a watch event and a restart, which only drop versions.     *)
LEMMA ForgetOS ==
    ASSUME NEW log \in Log(Pool), KeepsOS(log)
    PROVE  /\ KeepsOS(Delivered(log)) /\ KeepsOS(<<Live(log)>>)
           /\ Seen(log).os = "supported" =>
                /\ Seen(Delivered(log)).os = "supported"
                /\ Seen(<<Live(log)>>).os = "supported"
<1>0. /\ Delivered(log) \in Log(Pool)
      /\ Len(log) \in Nat /\ Len(log) >= 1 /\ Seen(log) = log[1]
      /\ Live(log) = log[Len(log)]
      /\ Len(Delivered(log)) >= 1 /\ Seen(Delivered(log)) = Delivered(log)[1]
  BY LogEnds, DeliverLive DEF Live
<1>1. KeepsOS(Delivered(log))
  <2> DEFINE new == Delivered(log)
  <2>1. \A i \in 1 .. Len(new) : \A j \in i .. Len(new) :
           \E k \in 1 .. Len(log) : \E l \in k .. Len(log) :
              new[i] = log[k] /\ new[j] = log[l]
    BY DeliverLive
  <2> HIDE DEF new
  <2>2. ASSUME NEW i \in 1 .. Len(new), NEW j \in i .. Len(new),
               new[i].os = "supported"
        PROVE  new[j].os = "supported"
    <3>1. PICK k \in 1 .. Len(log) : \E l \in k .. Len(log) :
             new[i] = log[k] /\ new[j] = log[l]
      BY <2>1
    <3> QED BY <2>2, <3>1 DEF KeepsOS
  <2>3. KeepsOS(new) BY <2>2 DEF KeepsOS
  <2> QED BY <2>3 DEF new
<1>2. KeepsOS(<<Live(log)>>) /\ Seen(<<Live(log)>>) = Live(log)
  <2> DEFINE one == <<Live(log)>>
  <2>1. Len(one) = 1 /\ \A i \in 1 .. 1 : one[i] = Live(log)
    OBVIOUS
  <2> QED BY <2>1 DEF KeepsOS, Seen
<1>3. ASSUME Seen(log).os = "supported"
      PROVE  Seen(Delivered(log)).os = "supported" /\ Live(log).os = "supported"
  <2>1. \A k \in 1 .. Len(log) : log[k].os = "supported"
    BY <1>0, <1>3 DEF KeepsOS
  <2>2. 1 \in 1 .. Len(Delivered(log)) /\ 1 \in 1 .. Len(Delivered(log))
    BY <1>0, LogEnds
  <2>3. \E k \in 1 .. Len(log) : Delivered(log)[1] = log[k]
    BY <2>2, DeliverLive
  <2> QED BY <1>0, <2>1, <2>3
<1> QED BY <1>1, <1>2, <1>3

(* A step that uses no node, takes no mark and starts no use of a pool.    *)
LEMMA CleanKept ==
    ASSUME CleanInv, TypeInv', node' = node,
           \A p \in Pools : Marked(p) => Live(pools'[p]).cluster \in Clusters,
           \A p \in Pools : KeepsOS(pools'[p]),
           \A p \in Pools : KnownOS(p) => Seen(pools'[p]).os = "supported",
           mw' = mw \/ mw'.pc \notin AdoptionSteps \cup {"release"}
    PROVE  CleanInv'
<1>1. UnmarkedClean' BY DEF CleanInv, UnmarkedClean, Marked
<1>2. UsedMarked'
  BY Typed DEF CleanInv, UsedMarked, Marked
<1>3. ReleasedClean' BY DEF CleanInv, ReleasedClean
<1>4. PriorityKnown'
  BY Typed DEF CleanInv, PriorityKnown, KnownOS, AdoptionSteps
<1> QED BY <1>1, <1>2, <1>3, <1>4 DEF CleanInv

(* Most steps of the controller leave the pools and nodes alone. *)
LEMMA CleanSame ==
    ASSUME CleanInv, TypeInv', node' = node, pools' = pools,
           mw' = mw \/ mw'.pc \notin AdoptionSteps \cup {"release"}
    PROVE  CleanInv'
<1>1. \A p \in Pools : KeepsOS(pools[p])
  BY DEF CleanInv, PriorityKnown
<1> QED BY <1>1, CleanKept DEF Marked, KnownOS

(* Taking up a machine or a deletion. *)
LEMMA CleanStart ==
    ASSUME "api" \notin Faults, "reset" \notin Faults, CleanInv,
           NEW m \in Machines,
           AddFinalizer(m) \/ StartDeletion(m) \/ \E p \in Pools : AdoptPool(m, p)
    PROVE  CleanInv'
<1>0. TypeInv /\ TypeInv' BY StartTypes DEF CleanInv
<1>1. CASE AddFinalizer(m)
  BY <1>0, <1>1, CleanSame DEF AddFinalizer
<1>2. CASE LeaveNode(m)
  <2>1. mw'.pc = "removeFinalizer" BY <1>2 DEF LeaveNode, MachineIdle
  <2> QED BY <1>0, <1>2, <2>1, CleanSame DEF LeaveNode, objectVars, AdoptionSteps
<1>3. CASE CleanNode(m)
  <2> DEFINE p == Seen(machines[m]).poolRef
  <2>1. p \in Pools BY <1>0, <1>3, Typed DEF CleanNode, Machine
  <2>2. PICK reset \in BOOLEAN, purged \in BOOLEAN :
          /\ (reset /\ purged) \/ "reset" \in Faults
          /\ node' = [node EXCEPT ![p] =
                        Cleaned(p, reset, purged /\ Seen(pools[p]).os = "supported")]
    BY <1>3 DEF CleanNode
  <2>3. node[p] \in Node /\ (node[p].vrrp # None => KnownOS(p))
    BY <1>0, <2>1, Typed DEF CleanInv, PriorityKnown
  <2>4. Cleaned(p, reset, purged /\ Seen(pools[p]).os = "supported") = CleanedNode
    BY <2>2, <2>3 DEF Cleaned, CleanedNode, KnownOS
  <2>5. node' = [node EXCEPT ![p] = CleanedNode]
    BY <2>2, <2>4
  <2>6. mw'.pc = "release" /\ mw'.pool = p /\ pools' = pools
    BY <1>3 DEF CleanNode, MachineIdle, stores
  <2> HIDE DEF p
  <2>7. /\ node'[p] = CleanedNode
        /\ \A q \in Pools : q # p => node'[q] = node[q]
    BY <1>0, <2>1, <2>5, Typed
  <2>8. UnmarkedClean' /\ ReleasedClean'
    BY <2>6, <2>7 DEF CleanInv, UnmarkedClean, ReleasedClean, Marked
  <2>9. UsedMarked' /\ PriorityKnown'
    BY <2>1, <2>6, <2>7
       DEF CleanInv, UsedMarked, PriorityKnown, KnownOS, AdoptionSteps, CleanedNode
  <2> QED BY <1>0, <2>8, <2>9 DEF CleanInv
<1>4. ASSUME NEW p \in Pools, AdoptPool(m, p) PROVE CleanInv'
  <2>1. PICK v \in Pool : /\ v = [Live(pools[p]) EXCEPT !.cluster = ClusterOf[m]]
                          /\ PoolBecomes(p, v)
    BY <1>0, <1>4, PoolPatches
  <2>2. v.cluster \in Clusters /\ v.os = Live(pools[p]).os
    BY <1>0, <2>1, Typed, ObjectsAssumption DEF Pool
  <2>3. pools[p] \in Log(Pool) /\ KeepsOS(pools[p])
    BY <1>0, Typed DEF CleanInv, PriorityKnown
  <2>4. /\ KeepsOS(pools'[p])
        /\ KnownOS(p) => Seen(pools'[p]).os = "supported"
    BY ZenonT(30), <2>1, <2>2, <2>3, WriteOS DEF PoolBecomes, KnownOS
  <2>5. /\ mw'.pc = "bootstrap" /\ mw'.pool = p /\ mw'.snap = Seen(pools[p])
        /\ node' = node
    BY <1>4 DEF AdoptPool
  <2>6. UnmarkedClean' /\ UsedMarked' /\ ReleasedClean'
    BY <2>1, <2>2, <2>5
       DEF CleanInv, UnmarkedClean, UsedMarked, ReleasedClean, Marked, PoolBecomes
  <2>7. PriorityKnown'
    BY <2>1, <2>4, <2>5
       DEF CleanInv, PriorityKnown, KnownOS, PoolBecomes
  <2> QED BY <1>0, <2>6, <2>7 DEF CleanInv
<1> QED BY <1>1, <1>2, <1>3, <1>4 DEF StartDeletion

(* Going on with a reconcile. *)
LEMMA CleanContinue ==
    ASSUME "api" \notin Faults, CleanInv, ContinueMachine
    PROVE  CleanInv'
<1>0. /\ TypeInv /\ TypeInv'
      /\ mw \in MachineWorker
      /\ node \in [Pools -> Node]
  BY ContinueTypes, Typed DEF CleanInv
<1>1. CASE NoBootstrapData \/ SkipProvisioning \/ ConnectFails
  <2>1. mw'.pc = "closeSpec" /\ UNCHANGED objectVars
    BY <1>0, <1>1 DEF NoBootstrapData, SkipProvisioning, ConnectFails, CloseWith,
                      MachineWorker
  <2> QED BY <1>0, <2>1, CleanSame DEF objectVars, AdoptionSteps
<1>2. CASE Connect
  <2>1. /\ mw'.pc \in {"priority", "commands"} /\ mw'.pool = mw.pool
        /\ mw.pc = "bootstrap" /\ mw.snap.os = "supported"
        /\ node' = node /\ pools' = pools
    BY <1>0, <1>2 DEF Connect, Goto, MachineWorker, objectVars
  <2>2. UnmarkedClean' /\ UsedMarked' /\ ReleasedClean'
    BY <2>1 DEF CleanInv, UnmarkedClean, UsedMarked, ReleasedClean, Marked,
                AdoptionSteps
  <2>3. PriorityKnown'
    BY <2>1 DEF CleanInv, PriorityKnown, KnownOS
  <2> QED BY <1>0, <2>2, <2>3 DEF CleanInv
<1>3. CASE TakePriority \/ CommandsFail \/ CommandsSucceed
  <2>1. /\ mw.pc \in AdoptionSteps /\ mw.pool \in Pools
        /\ mw'.pc \in {"commands", "closeSpec"} /\ mw'.pool = mw.pool
        /\ pools' = pools
    BY <1>0, <1>3, Typed
       DEF TakePriority, CommandsFail, CommandsSucceed, Goto, CloseWith,
           MachineWorker, AdoptionSteps, stores
  <2>2. \A q \in Pools : q # mw.pool => node'[q] = node[q]
    BY <1>0, <1>3, <2>1 DEF TakePriority, CommandsFail, CommandsSucceed
  <2>3. UnmarkedClean' /\ UsedMarked' /\ ReleasedClean'
    BY <2>1, <2>2 DEF CleanInv, UnmarkedClean, UsedMarked, ReleasedClean, Marked
  <2>4. node'[mw.pool].vrrp # None => KnownOS(mw.pool)
    <3>1. CASE TakePriority
      BY <2>1, <3>1 DEF TakePriority, CleanInv, PriorityKnown
    <3>2. CASE CommandsFail \/ CommandsSucceed
      <4>1. node'[mw.pool].vrrp = node[mw.pool].vrrp
        BY ZenonT(30), <1>0, <2>1, <3>2 DEF CommandsFail, CommandsSucceed, Node
      <4> QED BY <2>1, <4>1 DEF CleanInv, PriorityKnown
    <3> QED BY <1>3, <3>1, <3>2
  <2>5. PriorityKnown'
    BY <2>1, <2>2, <2>4 DEF CleanInv, PriorityKnown, KnownOS
  <2> QED BY <1>0, <2>3, <2>5 DEF CleanInv
<1>4. CASE CloseSpec \/ CloseStatus \/ RemoveFinalizer
  <2>1. /\ mw'.pc \in {"idle", "closeStatus"}
        /\ node' = node /\ pools' = pools
    BY <1>0, <1>4 DEF CloseSpec, CloseStatus, RemoveFinalizer, Goto, MachineIdle,
                      MachineWorker
  <2> QED BY <1>0, <2>1, CleanSame DEF AdoptionSteps
<1>5. CASE ReleasePool
  <2>1. PICK v \in Pool : /\ PoolBecomes(mw.pool, v)
                          /\ v.os = Live(pools[mw.pool]).os
    BY <1>0, <1>5, PoolPatches
  <2>2. /\ mw.pc = "release" /\ mw.pool \in Pools
        /\ mw'.pc = "removeFinalizer" /\ node' = node
    BY <1>0, <1>5, Typed DEF ReleasePool, Goto, MachineWorker
  <2>3. pools[mw.pool] \in Log(Pool) /\ KeepsOS(pools[mw.pool])
    BY <1>0, <2>2, Typed DEF CleanInv, PriorityKnown
  <2>4. /\ KeepsOS(pools'[mw.pool])
        /\ KnownOS(mw.pool) => Seen(pools'[mw.pool]).os = "supported"
    BY <2>1, <2>3, WriteOS DEF PoolBecomes, KnownOS
  <2>5. UnmarkedClean' /\ UsedMarked' /\ ReleasedClean'
    BY <2>1, <2>2
       DEF CleanInv, UnmarkedClean, UsedMarked, ReleasedClean, Marked,
           PoolBecomes, AdoptionSteps
  <2>6. PriorityKnown'
    BY <2>1, <2>2, <2>4 DEF CleanInv, PriorityKnown, KnownOS, PoolBecomes
  <2> QED BY <1>0, <2>5, <2>6 DEF CleanInv
<1> QED BY <1>1, <1>2, <1>3, <1>4, <1>5 DEF ContinueMachine

(* What the environment and a restart do to the pools. *)
LEMMA CleanEnvironment ==
    ASSUME CleanInv, MachineEnvironment, UNCHANGED mw
    PROVE  CleanInv'
<1>0. TypeInv /\ TypeInv' BY EnvironmentTypes DEF CleanInv
<1>1. ASSUME NEW p \in Pools, DeliverPool(p) PROVE CleanInv'
  <2>1. /\ pools'[p] = Delivered(pools[p]) /\ node' = node
        /\ \A q \in Pools : q # p => pools'[q] = pools[q]
    BY <1>0, <1>1, Typed DEF DeliverPool
  <2>2. pools[p] \in Log(Pool) /\ \A q \in Pools : KeepsOS(pools[q])
    BY <1>0, Typed DEF CleanInv, PriorityKnown
  <2>3. /\ KeepsOS(Delivered(pools[p]))
        /\ KnownOS(p) => Seen(Delivered(pools[p])).os = "supported"
        /\ Live(Delivered(pools[p])) = Live(pools[p])
    BY <2>2, ForgetOS, DeliverLive DEF KnownOS
  <2> QED BY <1>0, <2>1, <2>2, <2>3, CleanKept DEF Marked, KnownOS
<1>2. CASE pools' = pools /\ node' = node
  BY <1>0, <1>2, CleanSame
<1>3. MachineEnvironment =>
        (pools' = pools /\ node' = node) \/ \E p \in Pools : DeliverPool(p)
  BY DEF MachineEnvironment, Deliver, StartProvisioning, DeleteMachine,
         DeliverMachine, DeliverIP, DeliverCluster, stores
<1> QED BY <1>1, <1>2, <1>3

(* A restarted manager lists the pools anew and has no use of any; the one *)
(* it was sending commands to when it died is marked.                      *)
LEMMA CleanCrash ==
    ASSUME CleanInv, TypeInv', MachineCrash
    PROVE  CleanInv'
<1>1. \A p \in Pools : pools'[p] = <<Live(pools[p])>>
                       /\ Live(pools'[p]) = Live(pools[p])
  BY Typed, RelistedStore DEF CleanInv, MachineCrash, Restart
<1>2. \A p \in Pools : /\ KeepsOS(pools'[p])
                       /\ KnownOS(p) => Seen(pools'[p]).os = "supported"
  BY <1>1, Typed, ForgetOS DEF CleanInv, PriorityKnown, KnownOS
<1>3. mw'.pc = "idle"
  BY DEF MachineCrash, MachineIdle
<1>4. /\ \A p \in Pools : node'[p] = node[p] \/ Marked(p)
      /\ \A p \in Pools : node'[p].vrrp = node[p].vrrp
  <2>1. mw.pc = "commands" =>
          mw.m \in Machines /\ mw.pool \in Pools /\ Marked(mw.pool)
    BY DEF CleanInv, UsedMarked, TypeInv, WorkerShape, AdoptionSteps
  <2> QED BY <2>1, Typed, InterruptedNodes DEF CleanInv, MachineCrash
<1>5. UnmarkedClean'
  BY <1>1, <1>4 DEF CleanInv, UnmarkedClean, Marked
<1>6. PriorityKnown'
  BY <1>2, <1>3, <1>4 DEF CleanInv, PriorityKnown, KnownOS
<1> QED BY <1>3, <1>5, <1>6
        DEF CleanInv, UsedMarked, ReleasedClean, AdoptionSteps

(* Nothing has run on the nodes yet. *)
LEMMA CleanInit == MachineInit => CleanInv
<1> SUFFICES ASSUME MachineInit PROVE CleanInv
  OBVIOUS
<1>1. /\ \A p \in Pools : node[p] = CleanedNode
      /\ mw.pc = "idle"
  BY DEF MachineInit, MachineIdle
<1>2. \A p \in Pools : KeepsOS(pools[p])
  BY DEF MachineInit, KeepsOS
<1>3. PriorityKnown
  BY <1>1, <1>2 DEF PriorityKnown, CleanedNode
<1> QED BY <1>1, <1>3, TypeInit
        DEF CleanInv, UnmarkedClean, UsedMarked, ReleasedClean, AdoptionSteps

(* Every step keeps the invariant. *)
LEMMA CleanNext ==
    ASSUME "api" \notin Faults, "reset" \notin Faults
    PROVE  CleanInv /\ [MachineNext]_machineVars => CleanInv'
<1> SUFFICES ASSUME CleanInv, [MachineNext]_machineVars PROVE CleanInv'
  OBVIOUS
<1>0. TypeInv' BY TypeNext DEF CleanInv
<1>1. CASE MachineStep
  BY <1>1, CleanStart, CleanContinue DEF MachineStep
<1>2. CASE MachineEnvironment /\ UNCHANGED mw
  BY <1>2, CleanEnvironment
<1>3. CASE MachineCrash
  BY <1>0, <1>3, CleanCrash
<1>4. CASE UNCHANGED machineVars
  BY <1>0, <1>4, CleanSame DEF machineVars, objectVars
<1> QED BY <1>1, <1>2, <1>3, <1>4 DEF MachineNext

(* When patches are answered and a reset of a node does what it says, a    *)
(* free pool has a node without kubeadm state, without a joined machine    *)
(* and without keepalived, however stale the reads, whenever the manager   *)
(* dies and whichever SSH sessions fail.  Of files it says nothing.        *)
THEOREM FreePoolsClean ==
    ASSUME "api" \notin Faults, "reset" \notin Faults
    PROVE  MachineSpec => []FreeIsClean
<1>1. MachineInit => CleanInv BY CleanInit
<1>2. CleanInv /\ [MachineNext]_machineVars => CleanInv' BY CleanNext
<1>3. CleanInv => FreeIsClean BY CleanFree
<1> QED BY <1>1, <1>2, <1>3, PTL DEF MachineSpec

-----------------------------------------------------------------------------
(* Why priorities differ.  A priority is 100 minus the count of the IP pool*)
(* of the node's cluster, and the count has grown since: the priority the  *)
(* next node gets is below all that have been handed out for this count.   *)
(* The clusters are those of MachineSpec, each with an IP pool.            *)
Addressed == \A c \in Clusters : Live(clusters[c]).hip \in IPs

CountOf(p) == Live(ips[Live(clusters[Live(pools[p]).cluster]).hip])

Counted ==
    \A p \in Pools : node[p].vrrp \notin {None, Blank} =>
        Marked(p) /\ CountOf(p) \in Nat /\ 100 - node[p].vrrp < CountOf(p)

CountsOwn ==
    mw.pc \in AdoptionSteps =>
        /\ Live(pools[mw.pool]).cluster = ClusterOf[mw.m]
        /\ mw.hip = Live(clusters[ClusterOf[mw.m]]).hip

PriorityInv == CleanInv /\ Addressed /\ Counted /\ CountsOwn /\ UniquePriority

(* The clusters do not change, and the counts change only when a priority  *)
(* is taken.                                                               *)
LEMMA ClustersStay ==
    ASSUME TypeInv, [MachineNext]_machineVars
    PROVE  /\ \A c \in Clusters : Live(clusters'[c]) = Live(clusters[c])
           /\ TakePriority \/ \A ip \in IPs : Live(ips'[ip]) = Live(ips[ip])
<1>1. CASE MachineStep
  <2>1. clusters' = clusters /\ (TakePriority \/ ips' = ips)
    BY <1>1 DEF MachineStep, ContinueMachine, StartDeletion, AddFinalizer,
         LeaveNode, CleanNode, AdoptPool, NoBootstrapData, SkipProvisioning,
         ConnectFails, Connect, TakePriority, CommandsFail, CommandsSucceed,
         CloseSpec, CloseStatus, ReleasePool, RemoveFinalizer, objectVars, stores
  <2> QED BY <2>1
<1>2. CASE Deliver
  BY <1>2, Typed, DeliverLive
     DEF Deliver, DeliverMachine, DeliverPool, DeliverIP, DeliverCluster
<1>3. ASSUME NEW m \in Machines, StartProvisioning(m) \/ DeleteMachine(m)
      PROVE  clusters' = clusters /\ ips' = ips
  BY <1>3 DEF StartProvisioning, DeleteMachine, stores
<1>4. CASE MachineCrash
  BY <1>4, Typed, RelistedStore DEF MachineCrash, Restart
<1>5. CASE UNCHANGED machineVars
  BY <1>5 DEF machineVars, objectVars
<1> QED BY <1>1, <1>2, <1>3, <1>4, <1>5 DEF MachineNext, MachineEnvironment

(* A step that hands out no priority: what nodes keep, they keep under the *)
(* same mark.                                                              *)
LEMMA PriorityKept ==
    ASSUME PriorityInv, CleanInv', CountsOwn',
           \A c \in Clusters : Live(clusters'[c]) = Live(clusters[c]),
           \A ip \in IPs : Live(ips'[ip]) = Live(ips[ip]),
           \A p \in Pools :
              \/ node'[p].vrrp = None
              \/ /\ node'[p].vrrp = node[p].vrrp
                 /\ Live(pools'[p]).cluster = Live(pools[p]).cluster
    PROVE  PriorityInv'
<1>1. Addressed' BY DEF PriorityInv, Addressed
<1>2. ASSUME NEW p \in Pools, node'[p].vrrp \notin {None, Blank}
      PROVE  /\ node'[p].vrrp = node[p].vrrp
             /\ Live(pools'[p]).cluster = Live(pools[p]).cluster
             /\ Marked(p) /\ CountOf(p) \in Nat
             /\ 100 - node[p].vrrp < CountOf(p)
             /\ CountOf(p)' = CountOf(p)
  <2>1. /\ node'[p].vrrp = node[p].vrrp
        /\ Live(pools'[p]).cluster = Live(pools[p]).cluster
    BY <1>2
  <2>2. /\ Marked(p) /\ CountOf(p) \in Nat
        /\ 100 - node[p].vrrp < CountOf(p)
    BY <1>2, <2>1 DEF PriorityInv, Counted
  <2>3. CountOf(p)' = CountOf(p)
    BY <2>1, <2>2 DEF CountOf, PriorityInv, Addressed, Marked
  <2> QED BY <2>1, <2>2, <2>3
<1>3. Counted' BY <1>2 DEF Counted, Marked
<1>4. UniquePriority' BY <1>2 DEF PriorityInv, UniquePriority
<1> QED BY <1>1, <1>3, <1>4 DEF PriorityInv

(* Handing out a priority. *)
LEMMA PriorityTaken ==
    ASSUME MaxLag = 0, "api" \notin Faults, PriorityInv, CleanInv', TakePriority
    PROVE  PriorityInv'
<1> DEFINE count == Live(ips[mw.hip])
<1>0. /\ TypeInv /\ mw \in MachineWorker
      /\ mw.pc = "priority" /\ mw.m \in Machines /\ mw.pool \in Pools
      /\ ips \in [IPs -> Log(Count)] /\ node \in [Pools -> Node]
      /\ clusters' = clusters /\ pools' = pools
  BY Typed DEF PriorityInv, CleanInv, TakePriority, AdoptionSteps
<1>1. /\ ClusterOf[mw.m] \in Clusters
      /\ Live(pools[mw.pool]).cluster = ClusterOf[mw.m]
      /\ mw.hip = Live(clusters[ClusterOf[mw.m]]).hip /\ mw.hip \in IPs
  BY <1>0, ObjectsAssumption DEF PriorityInv, CountsOwn, Addressed, AdoptionSteps
<1>2. mw.hip # None /\ Seen(ips[mw.hip]) = count /\ count \in Count
  BY <1>0, <1>1, FreshReads, Typed, ObjectsAssumption
<1>3. /\ mw'.pc = "commands" /\ mw'.m = mw.m /\ mw'.pool = mw.pool
      /\ mw'.hip = mw.hip
  BY <1>0 DEF TakePriority, Goto, MachineWorker
<1>4. CountsOwn' BY <1>0, <1>1, <1>3 DEF CountsOwn
<1>5. \A q \in Pools : q # mw.pool => node'[q] = node[q]
  BY <1>0 DEF TakePriority
<1>6. CASE count \notin Nat
  <2>1. ips' = ips /\ node'[mw.pool].vrrp = Blank
    BY <1>0, <1>2, <1>6 DEF TakePriority, Node
  <2>2. Addressed' BY <1>0 DEF PriorityInv, Addressed
  <2>3. Counted'
    BY <1>0, <1>5, <2>1 DEF PriorityInv, Counted, CountOf, Marked
  <2>4. UniquePriority'
    BY <1>0, <1>5, <2>1 DEF PriorityInv, UniquePriority
  <2> QED BY <1>4, <2>2, <2>3, <2>4 DEF PriorityInv
<1>7. CASE count \in Nat
  <2>1. /\ ips' \in Patched(ips, mw.hip, count + 1)
        /\ node'[mw.pool].vrrp = 100 - count
    BY <1>0, <1>2, <1>7 DEF TakePriority, Node
  <2>2. /\ Live(ips'[mw.hip]) = count + 1
        /\ \A ip \in IPs : ip # mw.hip => ips'[ip] = ips[ip]
    <3>1. count + 1 \in Count
      BY <1>7 DEF Count
    <3> HIDE DEF count
    <3> QED BY <1>0, <1>1, <2>1, <3>1, PatchedLive
  <2>3. Addressed' BY <1>0 DEF PriorityInv, Addressed
  <2>4. \A q \in Pools : node[q].vrrp \notin {None, Blank} =>
           /\ Marked(q) /\ CountOf(q) \in Nat /\ node[q].vrrp \in Int
           /\ 100 - node[q].vrrp < CountOf(q)
           /\ CountOf(q)' \in Nat /\ CountOf(q) <= CountOf(q)'
    <3>1. SUFFICES ASSUME NEW q \in Pools, node[q].vrrp \notin {None, Blank}
                   PROVE  /\ Marked(q) /\ CountOf(q) \in Nat
                          /\ node[q].vrrp \in Int
                          /\ 100 - node[q].vrrp < CountOf(q)
                          /\ CountOf(q)' \in Nat /\ CountOf(q) <= CountOf(q)'
      OBVIOUS
    <3>2. /\ Marked(q) /\ CountOf(q) \in Nat /\ node[q].vrrp \in Int
          /\ 100 - node[q].vrrp < CountOf(q)
      BY <1>0, <3>1 DEF PriorityInv, Counted, Node
    <3> DEFINE hip == Live(clusters[Live(pools[q]).cluster]).hip
    <3>3. hip \in IPs BY <3>2 DEF PriorityInv, Addressed, Marked
    <3>4. CountOf(q) = Live(ips[hip]) /\ CountOf(q)' = Live(ips'[hip])
      BY <1>0 DEF CountOf
    <3> HIDE DEF hip
    <3>5. CountOf(q)' \in Nat /\ CountOf(q) <= CountOf(q)'
      BY <1>7, <2>2, <3>2, <3>3, <3>4
    <3> QED BY <3>2, <3>5
  <2>5. /\ CountOf(mw.pool) = count
        /\ Live(ips'[Live(clusters'[Live(pools'[mw.pool]).cluster]).hip])
             = count + 1
    BY <1>0, <1>1, <2>2 DEF CountOf
  <2>6. Counted'
    <3> SUFFICES ASSUME NEW p \in Pools, node'[p].vrrp \notin {None, Blank}
                 PROVE  /\ Marked(p)' /\ CountOf(p)' \in Nat
                        /\ 100 - node'[p].vrrp < CountOf(p)'
      BY DEF Counted
    <3>1. CASE p = mw.pool
      <4>1. CountOf(p)' = count + 1 BY <2>5, <3>1 DEF CountOf
      <4>2. Marked(p)' BY <1>0, <1>1, <3>1 DEF Marked
      <4> QED BY <1>7, <2>1, <3>1, <4>1, <4>2
    <3>2. CASE p # mw.pool
      <4>1. node'[p] = node[p] /\ (Marked(p)' <=> Marked(p))
        BY <1>0, <1>5, <3>2 DEF Marked
      <4> QED BY <2>4, <4>1
    <3> QED BY <3>1, <3>2
  <2>7. ASSUME NEW q \in Pools, q # mw.pool, node[q].vrrp \notin {None, Blank},
               Live(pools[q]).cluster = Live(pools[mw.pool]).cluster
        PROVE  node[q].vrrp # 100 - count
    <3>1. CountOf(q) = count BY <2>5, <2>7 DEF CountOf
    <3>2. node[q].vrrp \in Int /\ 100 - node[q].vrrp < count
      BY <2>4, <2>7, <3>1
    <3> QED BY <1>7, <3>2
  <2>8. UniquePriority'
    <3> SUFFICES ASSUME NEW p \in Pools, NEW q \in Pools,
                        node'[p].vrrp \notin {None, Blank},
                        node'[p].vrrp = node'[q].vrrp,
                        Live(pools[p]).cluster = Live(pools[q]).cluster
                 PROVE  p = q
      BY <1>0 DEF UniquePriority
    <3>1. CASE p # mw.pool /\ q # mw.pool
      BY <1>5, <3>1 DEF PriorityInv, UniquePriority
    <3>2. CASE p = mw.pool /\ q # mw.pool
      BY <1>5, <2>1, <2>7, <3>2
    <3>3. CASE p # mw.pool /\ q = mw.pool
      BY <1>5, <2>1, <2>7, <3>3
    <3> QED BY <3>1, <3>2, <3>3
  <2> QED BY <1>4, <2>3, <2>6, <2>8 DEF PriorityInv
<1> QED BY <1>6, <1>7

(* The other steps of the controller: no node gets a priority, and the     *)
(* label of a pool changes only while its node is clean.                   *)
LEMMA PriorityStep ==
    ASSUME MaxLag = 0, "api" \notin Faults, "reset" \notin Faults,
           PriorityInv, CleanInv', MachineStep
    PROVE  PriorityInv'
<1>0. /\ TypeInv /\ mw \in MachineWorker /\ node \in [Pools -> Node]
      /\ \A p \in Pools : node[p] \in Node
      /\ \A c \in Clusters : Live(clusters'[c]) = Live(clusters[c])
      /\ TakePriority \/ \A ip \in IPs : Live(ips'[ip]) = Live(ips[ip])
  BY Typed, ClustersStay DEF PriorityInv, CleanInv, MachineNext
<1>1. ASSUME pools' = pools, node' = node, mw'.pc \notin AdoptionSteps \/ mw' = mw,
             ~TakePriority
      PROVE  PriorityInv'
  <2>1. CountsOwn'
    BY <1>0, <1>1, Typed, ObjectsAssumption DEF PriorityInv, CountsOwn, AdoptionSteps
  <2> QED BY <1>0, <1>1, <2>1, PriorityKept
<1>2. ASSUME NEW m \in Machines, AddFinalizer(m) \/ LeaveNode(m)
      PROVE  PriorityInv'
  <2>1. ~TakePriority
    BY <1>2 DEF TakePriority, AddFinalizer, LeaveNode, Deleting
  <2>2. /\ pools' = pools /\ node' = node
        /\ mw'.pc \notin AdoptionSteps \/ mw' = mw
    BY <1>2 DEF AddFinalizer, LeaveNode, MachineIdle, AdoptionSteps, objectVars
  <2> QED BY <1>1, <2>1, <2>2
<1>3. ASSUME NEW m \in Machines, CleanNode(m) PROVE PriorityInv'
  <2> DEFINE q == Seen(machines[m]).poolRef
  <2>1. q \in Pools BY <1>0, <1>3, Typed DEF CleanNode, Machine
  <2>2. PICK reset \in BOOLEAN, purged \in BOOLEAN :
          node' = [node EXCEPT ![q] =
                     Cleaned(q, reset, purged /\ Seen(pools[q]).os = "supported")]
    BY <1>3 DEF CleanNode
  <2> HIDE DEF q
  <2>3. \A p \in Pools : node'[p].vrrp \in {None, node[p].vrrp}
    BY <1>0, <2>1, <2>2 DEF Cleaned
  <2>4. /\ ~TakePriority /\ pools' = pools /\ mw'.pc = "release"
    BY <1>3 DEF TakePriority, CleanNode, Deleting, MachineIdle, stores
  <2>5. CountsOwn' BY <2>4 DEF CountsOwn, AdoptionSteps
  <2> QED BY <1>0, <2>3, <2>4, <2>5, PriorityKept
<1>4. ASSUME NEW m \in Machines, NEW p \in Pools, AdoptPool(m, p)
      PROVE  PriorityInv'
  <2>1. PICK v \in Pool : /\ v = [Live(pools[p]) EXCEPT !.cluster = ClusterOf[m]]
                          /\ PoolBecomes(p, v)
    BY <1>0, <1>4, PoolPatches
  <2>2. /\ v.cluster = ClusterOf[m] /\ ClusterOf[m] \in Clusters
        /\ Live(pools'[p]) = v
        /\ \A q \in Pools : q # p => pools'[q] = pools[q]
    BY <1>0, <2>1, Typed, ObjectsAssumption DEF Pool, PoolBecomes
  <2>3. /\ Seen(clusters[ClusterOf[m]]) = Live(clusters[ClusterOf[m]])
        /\ Seen(pools[p]) = Live(pools[p])
    BY <1>0, <2>2, FreshReads, Typed
  <2>4. /\ ~TakePriority /\ node' = node /\ clusters' = clusters
        /\ mw'.m = m /\ mw'.pool = p
        /\ mw'.hip = Live(clusters[ClusterOf[m]]).hip
    BY <1>4, <2>3 DEF TakePriority, AdoptPool
  <2>5. CountsOwn' BY <2>2, <2>4 DEF CountsOwn
  <2>6. node[p].vrrp = None
    <3>1. Live(pools[p]).cluster = Blank
      BY <1>4, <2>3 DEF AdoptPool, Candidates, MarkedPools, FreePools
    <3> QED BY <3>1, ObjectsAssumption
            DEF PriorityInv, CleanInv, UnmarkedClean, Marked, CleanedNode
  <2> QED BY <1>0, <2>2, <2>4, <2>5, <2>6, PriorityKept
<1>5. CASE \/ NoBootstrapData \/ SkipProvisioning \/ ConnectFails
           \/ CloseSpec \/ CloseStatus \/ RemoveFinalizer
  <2>1. ~TakePriority /\ pools' = pools /\ node' = node
    BY <1>5 DEF TakePriority, NoBootstrapData, SkipProvisioning, ConnectFails,
                CloseSpec, CloseStatus, RemoveFinalizer, objectVars
  <2>2. mw'.pc \notin AdoptionSteps
    <3>1. CASE NoBootstrapData \/ SkipProvisioning \/ ConnectFails
      BY <1>0, <3>1 DEF NoBootstrapData, SkipProvisioning, ConnectFails,
                        CloseWith, MachineWorker, AdoptionSteps
    <3>2. CASE CloseSpec
      BY <1>0, <3>2 DEF CloseSpec, Goto, MachineIdle, MachineWorker, AdoptionSteps
    <3>3. CASE CloseStatus \/ RemoveFinalizer
      BY <3>3 DEF CloseStatus, RemoveFinalizer, MachineIdle, AdoptionSteps
    <3> QED BY <1>5, <3>1, <3>2, <3>3
  <2> QED BY <1>1, <2>1, <2>2
<1>6. CASE Connect \/ CommandsFail \/ CommandsSucceed
  <2>1. /\ ~TakePriority /\ pools' = pools
        /\ mw.pc \in AdoptionSteps
        /\ mw'.m = mw.m /\ mw'.pool = mw.pool /\ mw'.hip = mw.hip
    <3>1. mw.pc \in {"bootstrap", "commands"} /\ pools' = pools
      BY <1>6 DEF Connect, CommandsFail, CommandsSucceed, objectVars, stores
    <3>2. /\ mw'.m = mw.m /\ mw'.pool = mw.pool /\ mw'.hip = mw.hip
      BY <1>0, <1>6 DEF Connect, CommandsFail, CommandsSucceed, Goto, CloseWith,
                        MachineWorker
    <3> QED BY <3>1, <3>2 DEF TakePriority, AdoptionSteps
  <2>2. \A p \in Pools : node'[p].vrrp = node[p].vrrp
    <3>1. CASE Connect BY <3>1 DEF Connect, objectVars
    <3>2. CASE CommandsFail BY <1>0, <3>2 DEF CommandsFail, Node
    <3>3. CASE CommandsSucceed BY <1>0, <3>3 DEF CommandsSucceed, Node
    <3> QED BY <1>6, <3>1, <3>2, <3>3
  <2>3. ClusterOf[mw.m] \in Clusters
    BY <1>0, <2>1, Typed, ObjectsAssumption DEF AdoptionSteps
  <2>4. CountsOwn'
    BY <1>0, <2>1, <2>3 DEF PriorityInv, CountsOwn
  <2> QED BY <1>0, <2>1, <2>2, <2>4, PriorityKept
<1>7. CASE TakePriority
  BY <1>7, PriorityTaken
<1>8. CASE ReleasePool
  <2>1. /\ \A q \in Pools : q # mw.pool => pools'[q] = pools[q]
        /\ node' = node
    BY <1>0, <1>8, PoolPatches DEF PoolBecomes
  <2>2. /\ ~TakePriority /\ mw.pc = "release" /\ mw'.pc = "removeFinalizer"
    BY <1>0, <1>8 DEF TakePriority, ReleasePool, Goto, MachineWorker
  <2>3. node[mw.pool].vrrp = None
    BY <2>2 DEF PriorityInv, CleanInv, ReleasedClean, CleanedNode
  <2>4. CountsOwn' BY <2>2 DEF CountsOwn, AdoptionSteps
  <2> QED BY <1>0, <2>1, <2>2, <2>3, <2>4, PriorityKept
<1> QED BY <1>2, <1>3, <1>4, <1>5, <1>6, <1>7, <1>8
        DEF MachineStep, ContinueMachine, StartDeletion

(* With fresh reads, answered patches and resets that do what they say, no *)
(* two nodes of a cluster run keepalived with the same priority, whatever  *)
(* restarts and whichever SSH sessions fail.                               *)
THEOREM PrioritiesDiffer ==
    ASSUME MaxLag = 0, "api" \notin Faults, "reset" \notin Faults
    PROVE  MachineSpec => []UniquePriority
<1>1. MachineInit => PriorityInv
  <2> SUFFICES ASSUME MachineInit PROVE PriorityInv
    OBVIOUS
  <2>1. /\ \A p \in Pools : node[p] = CleanedNode
        /\ mw.pc = "idle"
    BY DEF MachineInit, MachineIdle
  <2>2. Addressed
    BY DEF MachineInit, Addressed, ReadyCluster, Live
  <2>3. Counted /\ CountsOwn /\ UniquePriority
    BY <2>1 DEF Counted, CountsOwn, UniquePriority, CleanedNode, AdoptionSteps
  <2> QED BY <2>2, <2>3, CleanInit DEF PriorityInv
<1>2. PriorityInv /\ [MachineNext]_machineVars => PriorityInv'
  <2> SUFFICES ASSUME PriorityInv, [MachineNext]_machineVars PROVE PriorityInv'
    OBVIOUS
  <2>0. /\ CleanInv' /\ TypeInv
        /\ \A c \in Clusters : Live(clusters'[c]) = Live(clusters[c])
        /\ TakePriority \/ \A ip \in IPs : Live(ips'[ip]) = Live(ips[ip])
    BY CleanNext, ClustersStay DEF PriorityInv, CleanInv
  <2>1. CASE MachineStep
    BY <2>0, <2>1, PriorityStep
  <2>2. CASE ~MachineStep
    <3>1. \A p \in Pools : /\ node'[p].vrrp = node[p].vrrp
                             /\ Live(pools'[p]) = Live(pools[p])
      <4>1. CASE Deliver
        BY <2>0, <4>1, Typed, DeliverLive
           DEF Deliver, DeliverMachine, DeliverPool, DeliverIP, DeliverCluster
      <4>2. CASE MachineCrash
        <5>1. mw.pc = "commands" => mw.m \in Machines /\ mw.pool \in Pools
          BY <2>0, Typed DEF AdoptionSteps
        <5> QED BY <2>0, <4>2, <5>1, Typed, RelistedStore, InterruptedNodes
                DEF MachineCrash, Restart
      <4>3. CASE UNCHANGED machineVars
        BY <4>3 DEF machineVars, objectVars
      <4>4. ASSUME NEW m \in Machines, StartProvisioning(m) \/ DeleteMachine(m)
            PROVE  node' = node /\ pools' = pools
        BY <4>4 DEF StartProvisioning, DeleteMachine, stores
      <4> QED BY <2>2, <4>1, <4>2, <4>3, <4>4 DEF MachineNext, MachineEnvironment
    <3>2. mw' = mw \/ mw' = MachineIdle
      BY <2>2 DEF MachineNext, MachineCrash, machineVars
    <3>3. ~TakePriority
      BY <2>2 DEF MachineStep, ContinueMachine
    <3>4. CountsOwn'
      BY <2>0, <3>1, <3>2, Typed, ObjectsAssumption
         DEF PriorityInv, CountsOwn, MachineIdle, AdoptionSteps
    <3> QED BY <2>0, <3>1, <3>3, <3>4, PriorityKept
  <2> QED BY <2>1, <2>2
<1>3. PriorityInv => UniquePriority BY DEF PriorityInv
<1> QED BY <1>1, <1>2, <1>3, PTL DEF MachineSpec
=============================================================================
