------------------------- MODULE HyperProviderProofs -------------------------
(***************************************************************************)
(* Theorems about the four controllers side by side.  What holds of the    *)
(* machine controller alone is carried over: the steps of the other three  *)
(* leave the machines, the nodes and the machine worker alone, and every   *)
(* pool in use its mark.                                                   *)
(***************************************************************************)
EXTENDS HyperProvider, MachineServiceProofs

-----------------------------------------------------------------------------
(* A worker that reconciles has an object. *)
ProviderTypeInv ==
    /\ TypeInv
    /\ pw \in PoolWorker /\ (pw.pc # "idle" => pw.pool \in Pools)
    /\ cw \in ClusterWorker /\ (cw.pc # "idle" => cw.c \in Clusters)

(* What the others do, next to the machine controller, its environment and *)
(* a crash.                                                                *)
OtherStep ==
    \/ PoolStep /\ UNCHANGED cw
    \/ (\E ip \in IPs : LabelIP(ip)) /\ UNCHANGED <<pw, cw>>
    \/ ClusterStep /\ UNCHANGED pw
    \/ (\E c \in Clusters : DeleteCluster(c)) /\ UNCHANGED <<pw, cw>>

(* Every step is one of the machine controller's specification, of another *)
(* controller, or a crash.                                                 *)
LEMMA ProviderSteps ==
    ASSUME [ProviderNext]_providerVars
    PROVE  \/ [MachineNext]_machineVars /\ UNCHANGED <<pw, cw>>
           \/ OtherStep /\ UNCHANGED <<machines, phase, node, mw>>
           \/ Crash
<1>1. CASE MachineStep /\ UNCHANGED <<pw, cw>>
  BY <1>1 DEF MachineNext
<1>2. CASE PoolStep /\ UNCHANGED <<mw, cw>>
  BY <1>2 DEF OtherStep, PoolStep, ContinuePool, ReadPool, ProbeFails,
              ProbeSucceeds, PatchLabels, PatchStatus, objectVars
<1>3. CASE (\E ip \in IPs : LabelIP(ip)) /\ UNCHANGED <<mw, pw, cw>>
  BY <1>3 DEF OtherStep, LabelIP
<1>4. CASE ClusterStep /\ UNCHANGED <<mw, pw>>
  BY <1>4 DEF OtherStep, ClusterStep, ContinueCluster, AddClusterFinalizer,
              NoFreeIP, ReleaseIP, TakeIP, TakePool, NoEndpoint,
              CloseClusterSpec, CloseClusterStatus, RemoveClusterFinalizer,
              objectVars
<1>5. CASE Environment /\ UNCHANGED <<mw, pw, cw>>
  BY <1>5 DEF Environment, OtherStep, DeleteCluster, MachineNext
<1>6. CASE UNCHANGED providerVars
  BY <1>6 DEF providerVars, machineVars
<1> QED BY <1>1, <1>2, <1>3, <1>4, <1>5, <1>6 DEF ProviderNext

(* What a patch leaves behind, answered or not. *)
LEMMA PatchOutcome ==
    ASSUME NEW V, NEW K, NEW store \in [K -> Log(V)], NEW k \in K, NEW v \in V,
           NEW new \in Patched(store, k, v)
    PROVE  /\ new \in [K -> Log(V)]
           /\ \A x \in K : x # k => new[x] = store[x]
           /\ \A x \in K : \/ Live(new[x]) = Live(store[x])
                           \/ x = k /\ Live(new[x]) = v
           /\ "api" \notin Faults => Live(new[k]) = v
BY PatchedStore, PushLive

(* What the pool controller writes into a pool is a pool. *)
LEMMA PoolVersions ==
    ASSUME NEW live \in Pool, NEW old \in Pool, NEW new \in Pool
    PROVE  /\ Initialised(old) \in Pool
           /\ [live EXCEPT !.valid = Merged(old.valid, new.valid, @),
                           !.cluster = Merged(old.cluster, new.cluster, @)]
                \in Pool
           /\ [live EXCEPT !.os = Merged(old.os, new.os, @),
                           !.host = Merged(old.host, new.host, @)] \in Pool
           /\ [live EXCEPT !.master = TRUE] \in Pool
           /\ [live EXCEPT !.master = @] \in Pool
<1>1. Initialised(old) \in Pool
  BY DEF Initialised, Pool
<1>2. \A a \in {"unset", "false", "true"} :
      \A b \in Clusters \cup {None, Blank} :
        [live EXCEPT !.valid = a, !.cluster = b] \in Pool
  BY DEF Pool
<1>3. \A a \in {"unset", "supported", "other"} : \A b \in BOOLEAN :
        [live EXCEPT !.os = a, !.host = b] \in Pool
  BY DEF Pool
<1>4. /\ Merged(old.valid, new.valid, live.valid) \in {"unset", "false", "true"}
      /\ Merged(old.cluster, new.cluster, live.cluster)
           \in Clusters \cup {None, Blank}
      /\ Merged(old.os, new.os, live.os) \in {"unset", "supported", "other"}
      /\ Merged(old.host, new.host, live.host) \in BOOLEAN
  BY DEF Merged, Pool
<1>5. /\ [live EXCEPT !.master = TRUE] \in Pool
      /\ [live EXCEPT !.master = @] \in Pool
  BY DEF Pool
<1> QED BY <1>1, <1>2, <1>3, <1>4, <1>5

(* What the cluster controller writes into a cluster is a cluster. *)
LEMMA ClusterVersions ==
    ASSUME NEW live \in Cluster, NEW hip \in IPs \cup {None},
           NEW endpoint \in IPs \cup Pools \cup {None}
    PROVE  /\ [live EXCEPT !.finalizer = TRUE] \in Cluster
           /\ [live EXCEPT !.hip = hip, !.endpoint = endpoint] \in Cluster
           /\ [live EXCEPT !.ready = TRUE] \in Cluster
           /\ Gone(live) \in Cluster /\ Deleted(live) \in Cluster
           /\ \A new \in Cluster : Kept(live, new) \in Cluster
<1>1. [live EXCEPT !.finalizer = TRUE] \in Cluster
  BY DEF Cluster
<1>2. [live EXCEPT !.hip = hip, !.endpoint = endpoint] \in Cluster
  BY DEF Cluster
<1>3. [live EXCEPT !.ready = TRUE] \in Cluster
  BY DEF Cluster
<1>4. Gone(live) \in Cluster /\ [live EXCEPT !.state = "deleting"] \in Cluster
  BY DEF Cluster, ObjectState, Gone
<1> QED BY <1>1, <1>2, <1>3, <1>4 DEF Kept, Deleted

(* What the steps of the pool controller do. *)
LEMMA PoolWrites ==
    ASSUME ProviderTypeInv, PoolStep
    PROVE  /\ UNCHANGED <<machines, ips, clusters, phase, node>>
           /\ pw' \in PoolWorker /\ (pw'.pc # "idle" => pw'.pool \in Pools)
           /\ pools' = pools
              \/ \E v \in Pool : pools' \in Patched(pools, pw.pool, v)
<1>0. /\ ObjectsTypeOK /\ pw \in PoolWorker
      /\ (pw.pc # "idle" => pw.pool \in Pools)
  BY DEF ProviderTypeInv, TypeInv, MachineTypeOK
<1>1. ASSUME NEW p \in Pools, ReadPool(p)
      PROVE  /\ pw' \in PoolWorker /\ pw'.pool \in Pools
             /\ UNCHANGED objectVars
  <2>1. Seen(pools[p]) \in Pool /\ Initialised(Seen(pools[p])) \in Pool
    BY <1>0, EndsTyped, PoolVersions
  <2> QED BY <1>1, <2>1 DEF ReadPool, PoolWorker
<1>2. CASE ProbeFails
  <2>1. [pw.edit EXCEPT !.valid = "false"] \in Pool
    BY <1>0 DEF PoolWorker, Pool
  <2>2. pw' = [pw EXCEPT !.pc = "patchLabels",
                         !.edit = [pw.edit EXCEPT !.valid = "false"]]
    BY <1>0, <1>2 DEF ProbeFails, PoolWorker
  <2>3. pw.pc # "idle" /\ UNCHANGED objectVars
    BY <1>2 DEF ProbeFails
  <2> QED BY <1>0, <2>1, <2>2, <2>3 DEF PoolWorker, objectVars
<1>3. CASE ProbeSucceeds
  <2>1. PICK os \in {pw.edit.os, OSOf(pw.pool)}, host \in {pw.edit.host, TRUE} :
          pw' = [pw EXCEPT !.pc = "patchLabels", !.edit.valid = "true",
                           !.edit.os = os, !.edit.host = host]
    BY <1>3 DEF ProbeSucceeds
  <2>2. os \in {"unset", "supported", "other"} /\ host \in BOOLEAN
    BY <1>0, <2>1 DEF PoolWorker, Pool, OSOf
  <2> DEFINE e == [pw.edit EXCEPT !.valid = "true", !.os = os, !.host = host]
  <2>3. e \in Pool
    BY <1>0, <2>2 DEF PoolWorker, Pool
  <2>4. pw' = [pw EXCEPT !.pc = "patchLabels", !.edit = e]
    BY <1>0, <2>1 DEF PoolWorker
  <2> HIDE DEF e
  <2>5. pw.pc # "idle" /\ UNCHANGED objectVars
    BY <1>3 DEF ProbeSucceeds
  <2> QED BY <1>0, <2>3, <2>4, <2>5 DEF PoolWorker, objectVars
<1>4. CASE PatchLabels \/ PatchStatus
  <2>1. /\ pw.pool \in Pools /\ Live(pools[pw.pool]) \in Pool
        /\ pw.snap \in Pool /\ pw.edit \in Pool
    BY <1>0, <1>4, EndsTyped DEF PatchLabels, PatchStatus, PoolWorker
  <2>2. \E v \in Pool : pools' \in Patched(pools, pw.pool, v)
    BY <1>4, <2>1, PoolVersions DEF PatchLabels, PatchStatus
  <2>3. pw' \in PoolWorker /\ (pw'.pc # "idle" => pw'.pool \in Pools)
    <3>1. NewPool \in Pool BY DEF NewPool, Pool
    <3>2. CASE PatchLabels BY <1>0, <2>1, <3>2 DEF PatchLabels, PoolWorker
    <3>3. CASE PatchStatus BY <3>1, <3>3 DEF PatchStatus, PoolIdle, PoolWorker
    <3> QED BY <1>4, <3>2, <3>3
  <2> QED BY <1>4, <2>2, <2>3 DEF PatchLabels, PatchStatus
<1> QED BY <1>1, <1>2, <1>3, <1>4 DEF PoolStep, ContinuePool, objectVars

(* What the steps of the cluster controller do. *)
LEMMA ClusterWrites ==
    ASSUME ProviderTypeInv, ClusterStep
    PROVE  /\ UNCHANGED <<machines, phase, node>>
           /\ cw' \in ClusterWorker /\ (cw'.pc # "idle" => cw'.c \in Clusters)
           /\ \/ UNCHANGED <<pools, ips, clusters>>
              \/ \E p \in Pools : \E v \in Pool :
                    /\ pools' \in Patched(pools, p, v)
                    /\ v \in {Live(pools[p]), [Live(pools[p]) EXCEPT !.master = TRUE]}
                    /\ UNCHANGED <<ips, clusters>>
              \/ \E ip \in IPs : \E v \in Count :
                    ips' \in Patched(ips, ip, v) /\ UNCHANGED <<pools, clusters>>
              \/ \E c \in Clusters : \E v \in Cluster :
                    /\ clusters' \in Patched(clusters, c, v)
                    /\ UNCHANGED <<pools, ips>>
<1>0. /\ ObjectsTypeOK /\ cw \in ClusterWorker
      /\ (cw.pc # "idle" => cw.c \in Clusters)
      /\ ClusterIdle \in ClusterWorker
      /\ \A c \in Clusters :
            Seen(clusters[c]) \in Cluster /\ Live(clusters[c]) \in Cluster
      /\ \A ip \in IPs : Live(ips[ip]) \in Count
      /\ \A p \in Pools : Live(pools[p]) \in Pool
  BY EndsTyped
     DEF ProviderTypeInv, TypeInv, MachineTypeOK, ClusterIdle, ClusterWorker
<1>1. ASSUME NEW c \in Clusters, AddClusterFinalizer(c)
      PROVE  /\ cw' = cw
             /\ \E v \in Cluster : clusters' \in Patched(clusters, c, v)
             /\ UNCHANGED <<machines, pools, ips, phase, node>>
  BY <1>0, <1>1, ClusterVersions DEF AddClusterFinalizer
<1>2. ASSUME NEW c \in Clusters, NoFreeIP(c)
      PROVE  cw' \in ClusterWorker /\ cw'.c \in Clusters /\ UNCHANGED objectVars
  <2>1. Seen(clusters[c]).hip \in IPs \cup {None}
    BY <1>0 DEF Cluster
  <2> QED BY <1>2, <2>1 DEF NoFreeIP, ClusterIdle, ClusterWorker
<1>3. ASSUME NEW c \in Clusters, NEW ip \in IPs, TakeIP(c, ip)
      PROVE  /\ cw' \in ClusterWorker /\ cw'.c \in Clusters
             /\ \E v \in Count : ips' \in Patched(ips, ip, v)
             /\ UNCHANGED <<machines, pools, clusters, phase, node>>
  <2>1. Seen(clusters[c]).hip \in IPs \cup {None} /\ 0 \in Count
    BY <1>0 DEF Cluster, Count
  <2>2. cw' \in ClusterWorker /\ cw'.c \in Clusters
    BY <1>3, <2>1 DEF TakeIP, ClusterWorker
  <2> QED BY <1>3, <2>1, <2>2 DEF TakeIP
<1>4. ASSUME NEW c \in Clusters, ReleaseIP(c)
      PROVE  /\ cw' \in ClusterWorker /\ cw'.c \in Clusters
             /\ \/ ips' = ips
                \/ \E ip \in IPs : \E v \in Count : ips' \in Patched(ips, ip, v)
             /\ UNCHANGED <<machines, pools, clusters, phase, node>>
  <2> DEFINE hip == Seen(clusters[c]).hip
  <2>1. hip \in IPs \cup {None}
    BY <1>0 DEF Cluster
  <2>2. cw' \in ClusterWorker /\ cw'.c \in Clusters
    BY <1>4 DEF ReleaseIP, ClusterIdle, ClusterWorker
  <2>3. \/ ips' = ips
        \/ \E ip \in IPs : \E v \in Count : ips' \in Patched(ips, ip, v)
    <3>1. CASE hip = None BY <1>4, <3>1 DEF ReleaseIP
    <3>2. CASE hip # None
      <4>1. (IF Seen(ips[hip]) = Blank THEN Live(ips[hip]) ELSE Blank) \in Count
        BY <1>0, <2>1, <3>2 DEF Count
      <4> QED BY <1>4, <2>1, <3>2, <4>1 DEF ReleaseIP
    <3> QED BY <3>1, <3>2
  <2> QED BY <1>4, <2>2, <2>3 DEF ReleaseIP
<1>5. ASSUME NEW p \in Pools, TakePool(p)
      PROVE  /\ cw' \in ClusterWorker /\ cw'.c \in Clusters
             /\ \E v \in Pool :
                  /\ pools' \in Patched(pools, p, v)
                  /\ v \in {Live(pools[p]), [Live(pools[p]) EXCEPT !.master = TRUE]}
             /\ UNCHANGED <<machines, ips, clusters, phase, node>>
  <2> DEFINE live == Live(pools[p])
             v == [live EXCEPT !.master = IF Seen(pools[p]).master THEN @ ELSE TRUE]
  <2>1. v \in {live, [live EXCEPT !.master = TRUE]} /\ v \in Pool
    <3>1. live \in Pool BY <1>0
    <3> HIDE DEF live
    <3> QED BY <3>1 DEF Pool
  <2>2. pools' \in Patched(pools, p, v) BY <1>5 DEF TakePool
  <2> HIDE DEF v
  <2>3. cw' \in ClusterWorker /\ cw'.c \in Clusters
    BY <1>0, <1>5 DEF TakePool, ClusterWorker
  <2> QED BY <1>5, <2>1, <2>2, <2>3 DEF TakePool
<1>6. CASE NoEndpoint
  <2>1. cw' \in ClusterWorker /\ cw'.c \in Clusters
    BY <1>0, <1>6 DEF NoEndpoint, ClusterWorker
  <2> QED BY <1>6, <2>1 DEF NoEndpoint, objectVars
<1>7. CASE CloseClusterSpec \/ CloseClusterStatus \/ RemoveClusterFinalizer
  <2> DEFINE live == Live(clusters[cw.c])
             hip == IF cw.hip = cw.had THEN live.hip ELSE cw.hip
             endpoint == IF cw.endpoint = None THEN live.endpoint
                                               ELSE cw.endpoint
  <2>1. cw.c \in Clusters /\ live \in Cluster
    BY <1>0, <1>7 DEF CloseClusterSpec, CloseClusterStatus,
                      RemoveClusterFinalizer
  <2>2. hip \in IPs \cup {None} /\ endpoint \in IPs \cup Pools \cup {None}
    BY <1>0, <2>1 DEF Cluster, ClusterWorker
  <2>3. clusters' \in Patched(clusters, cw.c,
                        Kept(live, [live EXCEPT !.hip = hip, !.endpoint = endpoint]))
        \/ clusters' \in Patched(clusters, cw.c,
                            Kept(live, [live EXCEPT !.ready = TRUE]))
        \/ clusters' \in Patched(clusters, cw.c, Kept(live, Gone(live)))
    BY <1>7 DEF CloseClusterSpec, CloseClusterStatus, RemoveClusterFinalizer
  <2> HIDE DEF live, hip, endpoint
  <2>4. \E v \in Cluster : clusters' \in Patched(clusters, cw.c, v)
    BY <2>1, <2>2, <2>3, ClusterVersions
  <2>5. cw' \in ClusterWorker /\ (cw'.pc # "idle" => cw'.c \in Clusters)
    <3>1. cw' \in {ClusterIdle, [cw EXCEPT !.pc = "closeStatus"]}
      BY <1>7 DEF CloseClusterSpec, CloseClusterStatus, RemoveClusterFinalizer
    <3> QED BY <1>0, <2>1, <3>1 DEF ClusterIdle, ClusterWorker
  <2>6. UNCHANGED <<machines, pools, ips, phase, node>>
    BY <1>7 DEF CloseClusterSpec, CloseClusterStatus, RemoveClusterFinalizer
  <2> QED BY <2>1, <2>4, <2>5, <2>6
<1>8. ASSUME NEW c \in Clusters,
             AddClusterFinalizer(c) \/ NoFreeIP(c) \/ ReleaseIP(c)
      PROVE  /\ cw' \in ClusterWorker /\ (cw'.pc # "idle" => cw'.c \in Clusters)
             /\ UNCHANGED <<machines, pools, phase, node>>
             /\ \/ UNCHANGED <<ips, clusters>>
                \/ \E ip \in IPs : \E v \in Count :
                      ips' \in Patched(ips, ip, v) /\ UNCHANGED clusters
                \/ \E v \in Cluster :
                      clusters' \in Patched(clusters, c, v) /\ UNCHANGED ips
  BY <1>0, <1>1, <1>2, <1>4, <1>8 DEF objectVars
<1>9. CASE \E c \in Clusters :
              AddClusterFinalizer(c) \/ NoFreeIP(c) \/ ReleaseIP(c)
  BY <1>8, <1>9
<1>10. CASE \E c \in Clusters, ip \in IPs : TakeIP(c, ip)
  BY <1>3, <1>10
<1>11. CASE \E p \in Pools : TakePool(p)
  BY <1>5, <1>11
<1> QED BY <1>6, <1>7, <1>9, <1>10, <1>11 DEF ClusterStep, ContinueCluster

(* The other controllers and the deletion of a cluster keep the types. *)
LEMMA OtherTypes ==
    ASSUME ProviderTypeInv, OtherStep, UNCHANGED <<machines, phase, node, mw>>
    PROVE  ProviderTypeInv'
<1>0. TypeInv /\ ObjectsTypeOK
  BY DEF ProviderTypeInv, TypeInv, MachineTypeOK
<1>1. SUFFICES /\ ObjectsTypeOK'
               /\ pw' \in PoolWorker /\ (pw'.pc # "idle" => pw'.pool \in Pools)
               /\ cw' \in ClusterWorker /\ (cw'.pc # "idle" => cw'.c \in Clusters)
  BY DEF ProviderTypeInv, TypeInv, MachineTypeOK, WorkerShape
<1>2. CASE PoolStep /\ UNCHANGED cw
  <2>1. pools' \in [Pools -> Log(Pool)]
    <3>1. CASE pools' = pools BY <1>0, <3>1 DEF ObjectsTypeOK
    <3>2. CASE \E v \in Pool : pools' \in Patched(pools, pw.pool, v) /\ pools' # pools
      <4>1. pw.pool \in Pools
        BY <1>2, <3>2 DEF ProviderTypeInv, PoolStep, ContinuePool, ReadPool,
             ProbeFails, ProbeSucceeds, PatchLabels, PatchStatus, objectVars
      <4> QED BY <1>0, <3>2, <4>1, PatchOutcome DEF ObjectsTypeOK
    <3> QED BY <1>2, <3>1, <3>2, PoolWrites
  <2> QED BY <1>0, <1>2, <2>1, PoolWrites DEF ObjectsTypeOK, ProviderTypeInv
<1>3. ASSUME NEW ip \in IPs, LabelIP(ip), UNCHANGED <<pw, cw>>
      PROVE  /\ ObjectsTypeOK' /\ pw' = pw /\ cw' = cw
  <2>1. Blank \in Count BY DEF Count
  <2>2. ips' \in [IPs -> Log(Count)]
    BY <1>0, <1>3, <2>1, PatchOutcome DEF LabelIP, ObjectsTypeOK
  <2> QED BY <1>0, <1>3, <2>2 DEF LabelIP, ObjectsTypeOK
<1>4. CASE ClusterStep /\ UNCHANGED pw
  <2>1. /\ pools' \in [Pools -> Log(Pool)]
        /\ ips' \in [IPs -> Log(Count)]
        /\ clusters' \in [Clusters -> Log(Cluster)]
    BY <1>0, <1>4, ClusterWrites, PatchOutcome DEF ObjectsTypeOK
  <2> QED BY <1>0, <1>4, <2>1, ClusterWrites DEF ObjectsTypeOK, ProviderTypeInv
<1>5. ASSUME NEW c \in Clusters, DeleteCluster(c), UNCHANGED <<pw, cw>>
      PROVE  /\ ObjectsTypeOK' /\ pw' = pw /\ cw' = cw
  <2>1. Deleted(Live(clusters[c])) \in Cluster
    BY <1>0, EndsTyped, ClusterVersions
  <2>2. clusters' \in [Clusters -> Log(Cluster)]
    BY <1>0, <1>5, <2>1, PushLive DEF DeleteCluster, ObjectsTypeOK
  <2> QED BY <1>0, <1>5, <2>2 DEF DeleteCluster, ObjectsTypeOK
<1> QED BY <1>2, <1>3, <1>4, <1>5 DEF OtherStep, ProviderTypeInv

(* Every step keeps the types. *)
LEMMA ProviderTypeNext ==
    ProviderTypeInv /\ [ProviderNext]_providerVars => ProviderTypeInv'
<1> SUFFICES ASSUME ProviderTypeInv, [ProviderNext]_providerVars
             PROVE  ProviderTypeInv'
  OBVIOUS
<1>1. CASE [MachineNext]_machineVars /\ UNCHANGED <<pw, cw>>
  BY <1>1, TypeNext DEF ProviderTypeInv
<1>2. CASE OtherStep /\ UNCHANGED <<machines, phase, node, mw>>
  BY <1>2, OtherTypes
<1>3. CASE Crash
  <2>1. MachineCrash BY <1>3 DEF Crash, MachineCrash
  <2>2. /\ pw' \in PoolWorker /\ pw'.pc = "idle"
        /\ cw' \in ClusterWorker /\ cw'.pc = "idle"
    BY <1>3 DEF Crash, PoolIdle, PoolWorker, NewPool, Pool, ClusterIdle,
                ClusterWorker
  <2> QED BY <2>1, <2>2, CrashTypes DEF ProviderTypeInv
<1> QED BY <1>1, <1>2, <1>3, ProviderSteps

(* The objects start in their types. *)
LEMMA ProviderTypeInit == ProviderInit => ProviderTypeInv
<1> SUFFICES ASSUME ProviderInit PROVE ProviderTypeInv
  OBVIOUS
<1>1. /\ NewMachine \in Machine /\ NewPool \in Pool /\ None \in Count
      /\ NewCluster \in Cluster /\ CleanedNode \in Node
  BY InitialTypes DEF NewPool, Pool, Count, NewCluster, Cluster, ObjectState
<1>2. ObjectsTypeOK
  BY <1>1, SingleVersion DEF ProviderInit, ObjectsTypeOK
<1>3. mw \in MachineWorker /\ pw \in PoolWorker /\ cw \in ClusterWorker
  BY <1>1, InitialTypes
     DEF ProviderInit, PoolIdle, PoolWorker, ClusterIdle, ClusterWorker
<1>4. mw.pc = "idle" /\ pw.pc = "idle" /\ cw.pc = "idle"
  BY DEF ProviderInit, MachineIdle, PoolIdle, ClusterIdle
<1> QED BY <1>2, <1>3, <1>4
        DEF ProviderTypeInv, TypeInv, MachineTypeOK, WorkerShape, AdoptionSteps,
            CloseSteps

(* The objects, the nodes and the three workers keep their types when the  *)
(* controllers run side by side, whatever lags and whatever fails.         *)
THEOREM ProviderTypeCorrect == ProviderSpec => []ProviderTypeOK
<1>1. ProviderTypeInv => ProviderTypeOK
  BY DEF ProviderTypeInv, TypeInv, MachineTypeOK, ProviderTypeOK
<1> QED BY <1>1, ProviderTypeInit, ProviderTypeNext, PTL DEF ProviderSpec

-----------------------------------------------------------------------------
(* Why no late patch of the pool controller frees a pool in use.  It only  *)
(* probes pools that are not valid, only valid pools are adopted, and it   *)
(* alone makes a pool valid, so the pool whose labels it patches has not   *)
(* been marked meanwhile; the patch leaves it free.                        *)
Labelled ==
    \A p \in Pools :
        LET live == Live(pools[p])
        IN  /\ live.cluster \in Clusters => live.valid = "true"
            /\ live.cluster = None => live.valid = "unset"
            /\ live.os \in {"unset", OSOf(p)}

ProbeKnown ==
    pw.pc \in {"probe", "patchLabels"} =>
        LET live == Live(pools[pw.pool])
        IN  /\ live.valid # "true" /\ live.valid = pw.snap.valid
            /\ live.cluster \in {pw.snap.cluster, Blank}
            /\ pw.edit.cluster = Blank

ProbeResult ==
    /\ pw.pc = "patchLabels" => pw.edit.valid \in {"false", "true"}
    /\ pw.pc # "idle" => /\ pw.snap.os \in {"unset", OSOf(pw.pool)}
                         /\ pw.edit.os \in {pw.snap.os, OSOf(pw.pool)}

LabelInv == ProviderTypeInv /\ Labelled /\ ProbeKnown /\ ProbeResult

(* What the machine controller, its environment and a crash make of the    *)
(* labels and the status of a pool.                                        *)
LEMMA MachinePools ==
    ASSUME TypeInv, [MachineNext]_machineVars, NEW p \in Pools
    PROVE  /\ Live(pools'[p]).valid = Live(pools[p]).valid
           /\ Live(pools'[p]).os = Live(pools[p]).os
           /\ \/ Live(pools'[p]).cluster = Live(pools[p]).cluster
              \/ \E m \in Machines : /\ AdoptPool(m, p)
                                     /\ Live(pools'[p]).cluster = ClusterOf[m]
              \/ /\ ReleasePool /\ mw.pool = p
                 /\ Live(pools'[p]).cluster = Blank
<1>0. Live(pools[p]) \in Pool BY Typed
<1>1. ASSUME NEW m \in Machines, NEW q \in Pools, AdoptPool(m, q)
      PROVE  \/ Live(pools'[p]) = Live(pools[p])
             \/ /\ AdoptPool(m, p)
                /\ Live(pools'[p]) = [Live(pools[p]) EXCEPT !.cluster = ClusterOf[m]]
  <2> DEFINE v == [Live(pools[q]) EXCEPT !.cluster = ClusterOf[m]]
  <2>1. v \in Pool BY SMTT(30), Typed, ObjectsAssumption DEF Pool
  <2>2. pools' \in Patched(pools, q, v) BY <1>1 DEF AdoptPool
  <2> HIDE DEF v
  <2>3. \/ Live(pools'[p]) = Live(pools[p])
        \/ p = q /\ Live(pools'[p]) = v
    BY <2>1, <2>2, Typed, PatchOutcome
  <2> QED BY <1>1, <2>3 DEF v
<1>2. CASE ReleasePool
  <2> DEFINE live == Live(pools[mw.pool])
             cluster == IF mw.snap.cluster = Blank THEN live.cluster ELSE Blank
             master == live.master /\ ~mw.snap.master
             v == [live EXCEPT !.cluster = cluster, !.master = master]
  <2>1. mw.pool \in Pools /\ live \in Pool BY <1>2, Typed DEF ReleasePool
  <2>2. v \in Pool BY <2>1 DEF Pool
  <2>3. v.valid = live.valid /\ v.os = live.os /\ v.cluster \in {live.cluster, Blank}
    BY <2>1 DEF Pool
  <2>4. pools' \in Patched(pools, mw.pool, v) BY <1>2 DEF ReleasePool
  <2> HIDE DEF v
  <2>5. \/ Live(pools'[p]) = Live(pools[p])
        \/ p = mw.pool /\ Live(pools'[p]) = v
    BY <2>1, <2>2, <2>4, Typed, PatchOutcome
  <2> QED BY <1>2, <2>3, <2>5
<1>3. ASSUME NEW q \in Pools, DeliverPool(q)
      PROVE  Live(pools'[p]) = Live(pools[p])
  BY <1>3, Typed, DeliverLive DEF DeliverPool
<1>4. CASE MachineCrash
  BY <1>4, Typed, RelistedStore DEF MachineCrash, Restart
<1>5. CASE pools' = pools
  BY <1>5
<1>6. [MachineNext]_machineVars =>
        \/ \E m \in Machines, q \in Pools : AdoptPool(m, q)
        \/ ReleasePool
        \/ \E q \in Pools : DeliverPool(q)
        \/ MachineCrash
        \/ pools' = pools
  BY DEF MachineNext, MachineStep, ContinueMachine, StartDeletion, AddFinalizer,
         LeaveNode, CleanNode, NoBootstrapData, SkipProvisioning, ConnectFails,
         Connect, TakePriority, CommandsFail, CommandsSucceed, CloseSpec,
         CloseStatus, RemoveFinalizer, MachineEnvironment, Deliver,
         StartProvisioning, DeleteMachine, DeliverMachine, DeliverIP,
         DeliverCluster, machineVars, objectVars, stores
<1>7. CASE \E m \in Machines, q \in Pools : AdoptPool(m, q)
  BY <1>0, <1>1, <1>7 DEF Pool
<1> QED BY <1>2, <1>3, <1>4, <1>5, <1>6, <1>7

(* What the other controllers make of a pool. *)
LEMMA OtherPools ==
    ASSUME ProviderTypeInv, OtherStep, NEW p \in Pools
    PROVE  LET old == Live(pools[p])
               new == Live(pools'[p])
           IN  \/ /\ new.valid = old.valid /\ new.os = old.os
                  /\ new.cluster = old.cluster
               \/ /\ PatchLabels /\ p = pw.pool /\ new.os = old.os
                  /\ new.valid = Merged(pw.snap.valid, pw.edit.valid, old.valid)
                  /\ new.cluster =
                       Merged(pw.snap.cluster, pw.edit.cluster, old.cluster)
               \/ /\ PatchStatus /\ p = pw.pool /\ new.valid = old.valid
                  /\ new.cluster = old.cluster
                  /\ new.os = Merged(pw.snap.os, pw.edit.os, old.os)
<1> DEFINE old == Live(pools[p])
           new == Live(pools'[p])
           Same == /\ new.valid = old.valid /\ new.os = old.os
                   /\ new.cluster = old.cluster
<1>0. /\ TypeInv /\ pools \in [Pools -> Log(Pool)]
      /\ \A q \in Pools : Live(pools[q]) \in Pool
      /\ pw \in PoolWorker /\ (pw.pc # "idle" => pw.pool \in Pools)
  BY Typed DEF ProviderTypeInv
<1>1. CASE PatchLabels
  <2> DEFINE live == Live(pools[pw.pool])
             valid == Merged(pw.snap.valid, pw.edit.valid, live.valid)
             cluster == Merged(pw.snap.cluster, pw.edit.cluster, live.cluster)
             v == [live EXCEPT !.valid = valid, !.cluster = cluster]
  <2>1. pw.pool \in Pools /\ live \in Pool /\ pw.snap \in Pool /\ pw.edit \in Pool
    BY <1>0, <1>1 DEF PatchLabels, PoolWorker
  <2>2. v \in Pool BY <2>1, PoolVersions
  <2>3. v.valid = valid /\ v.cluster = cluster /\ v.os = live.os
    BY <2>1 DEF Pool
  <2>4. pools' \in Patched(pools, pw.pool, v) BY <1>1 DEF PatchLabels
  <2> HIDE DEF v
  <2>5. new = old \/ (p = pw.pool /\ new = v)
    BY <1>0, <2>1, <2>2, <2>4, PatchOutcome
  <2> QED BY <1>1, <2>3, <2>5
<1>2. CASE PatchStatus
  <2> DEFINE live == Live(pools[pw.pool])
             os == Merged(pw.snap.os, pw.edit.os, live.os)
             host == Merged(pw.snap.host, pw.edit.host, live.host)
             v == [live EXCEPT !.os = os, !.host = host]
  <2>1. pw.pool \in Pools /\ live \in Pool /\ pw.snap \in Pool /\ pw.edit \in Pool
    BY <1>0, <1>2 DEF PatchStatus, PoolWorker
  <2>2. v \in Pool BY <2>1, PoolVersions
  <2>3. v.os = os /\ v.valid = live.valid /\ v.cluster = live.cluster
    BY <2>1 DEF Pool
  <2>4. pools' \in Patched(pools, pw.pool, v) BY <1>2 DEF PatchStatus
  <2> HIDE DEF v
  <2>5. new = old \/ (p = pw.pool /\ new = v)
    BY <1>0, <2>1, <2>2, <2>4, PatchOutcome
  <2> QED BY <1>2, <2>3, <2>5
<1>3. CASE ClusterStep
  <2>1. CASE pools' = pools
    BY <2>1
  <2>2. ASSUME NEW q \in Pools, NEW v \in Pool,
               pools' \in Patched(pools, q, v),
               v \in {Live(pools[q]), [Live(pools[q]) EXCEPT !.master = TRUE]}
        PROVE  Same
    <3>1. new = old \/ (p = q /\ new = v)
      BY <1>0, <2>2, PatchOutcome
    <3> QED BY <1>0, <2>2, <3>1 DEF Pool
  <2> QED BY <1>3, <2>1, <2>2, ClusterWrites
<1>4. CASE pools' = pools
  BY <1>4
<1>5. OtherStep => PatchLabels \/ PatchStatus \/ ClusterStep \/ pools' = pools
  BY DEF OtherStep, PoolStep, ContinuePool, ReadPool, ProbeFails, ProbeSucceeds,
         LabelIP, DeleteCluster, objectVars
<1> QED BY <1>1, <1>2, <1>3, <1>4, <1>5

(* The other controllers take no pool from its cluster and forget no OS.   *)
LEMMA OthersKeepPools ==
    ASSUME LabelInv, OtherStep, NEW p \in Pools
    PROVE  /\ Marked(p) => Live(pools'[p]).cluster = Live(pools[p]).cluster
           /\ Live(pools[p]).os = "supported" => Live(pools'[p]).os = "supported"
<1>0. ProviderTypeInv BY DEF LabelInv
<1>1. CASE PatchLabels /\ p = pw.pool
  <2>1. ~Marked(p)
    BY <1>1 DEF LabelInv, Labelled, ProbeKnown, PatchLabels, Marked
  <2> QED BY <1>0, <1>1, <2>1, OtherPools DEF PatchLabels, PatchStatus
<1>2. CASE PatchStatus /\ p = pw.pool
  <2>1. /\ pw.snap.os \in {"unset", OSOf(p)}
        /\ pw.edit.os \in {pw.snap.os, OSOf(p)}
        /\ Live(pools[p]).os \in {"unset", OSOf(p)}
    BY <1>2 DEF LabelInv, Labelled, ProbeResult, PatchStatus
  <2>2. Live(pools'[p]).os = Merged(pw.snap.os, pw.edit.os, Live(pools[p]).os)
        \/ Live(pools'[p]).os = Live(pools[p]).os
    BY <1>0, OtherPools
  <2>3. Live(pools'[p]).cluster = Live(pools[p]).cluster
    BY <1>0, <1>2, OtherPools DEF PatchLabels, PatchStatus
  <2> QED BY <2>1, <2>2, <2>3 DEF Merged
<1>3. CASE ~(PatchLabels /\ p = pw.pool) /\ ~(PatchStatus /\ p = pw.pool)
  BY <1>0, <1>3, OtherPools
<1> QED BY <1>1, <1>2, <1>3

(* The labels stay as they should under the machine controller, its        *)
(* environment and a crash.                                                *)
LEMMA LabelMachine ==
    ASSUME MaxLag = 0, LabelInv, ProviderTypeInv', [MachineNext]_machineVars,
           pw' = pw \/ pw' = PoolIdle
    PROVE  LabelInv'
<1>0. /\ TypeInv
      /\ \A p \in Pools : Seen(pools[p]) = Live(pools[p])
      /\ pw.pc # "idle" => pw.pool \in Pools
  BY FreshReads, Typed DEF LabelInv, ProviderTypeInv
<1>1. ASSUME NEW p \in Pools
      PROVE  LET old == Live(pools[p])
                 new == Live(pools'[p])
             IN  /\ new.valid = old.valid /\ new.os = old.os
                 /\ \/ new.cluster \in {old.cluster, Blank}
                    \/ old.valid = "true" /\ new.cluster \in Clusters
  <2>1. ASSUME NEW m \in Machines, AdoptPool(m, p)
        PROVE  Live(pools[p]).valid = "true" /\ ClusterOf[m] \in Clusters
    BY <1>0, <2>1, ObjectsAssumption
       DEF AdoptPool, Candidates, MarkedPools, FreePools
  <2> QED BY <1>0, <2>1, MachinePools
<1>2. Labelled'
  BY <1>1, ObjectsAssumption DEF LabelInv, Labelled
<1>3. ProbeKnown' /\ ProbeResult'
  <2>1. CASE pw' = PoolIdle
    BY <2>1 DEF PoolIdle, ProbeKnown, ProbeResult
  <2>2. CASE pw' = pw
    <3>1. ProbeResult' BY <2>2 DEF LabelInv, ProbeResult
    <3>2. ProbeKnown'
      BY <1>0, <1>1, <2>2 DEF LabelInv, ProbeKnown
    <3> QED BY <3>1, <3>2
  <2> QED BY <2>1, <2>2
<1> QED BY <1>2, <1>3 DEF LabelInv

(* ... and under the other controllers. *)
LEMMA LabelOther ==
    ASSUME MaxLag = 0, LabelInv, ProviderTypeInv', OtherStep
    PROVE  LabelInv'
<1>0. /\ ProviderTypeInv /\ TypeInv
      /\ pw \in PoolWorker /\ (pw.pc # "idle" => pw.pool \in Pools)
      /\ \A p \in Pools : /\ Seen(pools[p]) = Live(pools[p])
                          /\ Live(pools[p]) \in Pool
  BY FreshReads, Typed DEF LabelInv, ProviderTypeInv
<1>1. CASE PatchLabels
  <2>1. /\ pw.pool \in Pools /\ pw'.pc = "patchStatus" /\ pw'.pool = pw.pool
        /\ pw'.snap = pw.snap /\ pw'.edit = pw.edit
    BY <1>0, <1>1 DEF PatchLabels, PoolWorker
  <2>2. \A p \in Pools :
          LET old == Live(pools[p])
              new == Live(pools'[p])
          IN  /\ new.os = old.os
              /\ \/ new.valid = old.valid /\ new.cluster = old.cluster
                 \/ new.valid \in {"false", "true"} /\ new.cluster = Blank
    <3> SUFFICES ASSUME NEW p \in Pools, p = pw.pool
                 PROVE  /\ Merged(pw.snap.valid, pw.edit.valid,
                                  Live(pools[p]).valid) \in {"false", "true"}
                        /\ Merged(pw.snap.cluster, pw.edit.cluster,
                                  Live(pools[p]).cluster) = Blank
      BY <1>0, <1>1, OtherPools DEF PatchLabels, PatchStatus
    <3> QED BY <1>1 DEF PatchLabels, LabelInv, ProbeKnown, ProbeResult, Merged
  <2>3. Labelled'
    BY <2>2, ObjectsAssumption DEF LabelInv, Labelled
  <2>4. ProbeKnown' /\ ProbeResult'
    BY <1>1, <2>1 DEF PatchLabels, LabelInv, ProbeKnown, ProbeResult
  <2> QED BY <2>3, <2>4 DEF LabelInv
<1>2. CASE PatchStatus
  <2>1. pw'.pc = "idle" /\ pw.pc = "patchStatus"
    BY <1>2 DEF PatchStatus, PoolIdle
  <2>2. \A p \in Pools :
          LET old == Live(pools[p])
              new == Live(pools'[p])
          IN  /\ new.os \in {"unset", OSOf(p)}
              /\ new.valid = old.valid /\ new.cluster = old.cluster
    <3> SUFFICES ASSUME NEW p \in Pools
                 PROVE  p = pw.pool =>
                          Merged(pw.snap.os, pw.edit.os, Live(pools[p]).os)
                            \in {"unset", OSOf(p)}
      BY <1>0, <1>2, OtherPools DEF PatchLabels, PatchStatus, LabelInv, Labelled
    <3> QED BY <2>1 DEF LabelInv, Labelled, ProbeResult, Merged
  <2>3. Labelled'
    BY <2>2 DEF LabelInv, Labelled
  <2> QED BY <2>1, <2>3 DEF LabelInv, ProbeKnown, ProbeResult
<1>3. CASE ~PatchLabels /\ ~PatchStatus
  <2>1. \A p \in Pools : /\ Live(pools'[p]).valid = Live(pools[p]).valid
                         /\ Live(pools'[p]).os = Live(pools[p]).os
                         /\ Live(pools'[p]).cluster = Live(pools[p]).cluster
    BY <1>0, <1>3, OtherPools
  <2>2. Labelled'
    BY <2>1 DEF LabelInv, Labelled
  <2>3. ASSUME NEW p \in Pools, ReadPool(p) PROVE ProbeKnown' /\ ProbeResult'
    <3> DEFINE old == Live(pools[p])
    <3>1. /\ pw'.pc = "probe" /\ pw'.pool = p
          /\ pw'.snap = old /\ pw'.edit = Initialised(old)
          /\ old.valid # "true" /\ old \in Pool
      BY <1>0, <2>3 DEF ReadPool
    <3>2. old.valid = "false" => old.cluster = Blank
      BY <3>1 DEF LabelInv, Labelled, Pool
    <3>3. /\ Initialised(old).cluster = Blank
          /\ Initialised(old).os = old.os
      BY <3>1, <3>2 DEF Initialised, Pool
    <3>4. old.os \in {"unset", OSOf(p)}
      BY DEF LabelInv, Labelled
    <3>5. /\ Live(pools'[p]).valid = old.valid
          /\ Live(pools'[p]).cluster = old.cluster
      BY <2>1
    <3> HIDE DEF old
    <3> QED BY <3>1, <3>3, <3>4, <3>5 DEF ProbeKnown, ProbeResult
  <2>4. CASE ProbeFails
    <3>1. /\ pw.pc = "probe" /\ pw'.pc = "patchLabels" /\ pw'.pool = pw.pool
          /\ pw'.snap = pw.snap /\ pw'.edit.valid = "false"
          /\ pw'.edit.cluster = pw.edit.cluster /\ pw'.edit.os = pw.edit.os
      BY <1>0, <2>4 DEF ProbeFails, PoolWorker, Pool
    <3> QED BY <1>0, <2>1, <2>2, <3>1 DEF LabelInv, ProbeKnown, ProbeResult
  <2>5. CASE ProbeSucceeds
    <3>1. /\ pw.pc = "probe" /\ pw'.pc = "patchLabels" /\ pw'.pool = pw.pool
          /\ pw'.snap = pw.snap /\ pw'.edit.valid = "true"
          /\ pw'.edit.cluster = pw.edit.cluster
          /\ pw'.edit.os \in {pw.edit.os, OSOf(pw.pool)}
      <4>1. PICK os \in {pw.edit.os, OSOf(pw.pool)}, host \in {pw.edit.host, TRUE} :
              pw' = [pw EXCEPT !.pc = "patchLabels", !.edit.valid = "true",
                               !.edit.os = os, !.edit.host = host]
        BY <2>5 DEF ProbeSucceeds
      <4>2. pw.edit \in Pool BY <1>0 DEF PoolWorker
      <4>3. pw' = [pw EXCEPT !.pc = "patchLabels",
                     !.edit = [pw.edit EXCEPT !.valid = "true", !.os = os,
                                              !.host = host]]
        BY <1>0, <4>1 DEF PoolWorker
      <4>4. /\ [pw.edit EXCEPT !.valid = "true", !.os = os,
                               !.host = host].valid = "true"
            /\ [pw.edit EXCEPT !.valid = "true", !.os = os,
                               !.host = host].cluster = pw.edit.cluster
            /\ [pw.edit EXCEPT !.valid = "true", !.os = os,
                               !.host = host].os = os
        BY <4>2 DEF Pool
      <4> QED BY <1>0, <2>5, <4>1, <4>3, <4>4 DEF ProbeSucceeds, PoolWorker
    <3> QED BY <1>0, <2>1, <2>2, <3>1 DEF LabelInv, ProbeKnown, ProbeResult
  <2>6. CASE pw' = pw
    BY <1>0, <2>1, <2>2, <2>6 DEF LabelInv, ProbeKnown, ProbeResult
  <2>7. \/ \E p \in Pools : ReadPool(p)
        \/ ProbeFails \/ ProbeSucceeds \/ pw' = pw
    BY <1>3 DEF OtherStep, PoolStep, ContinuePool
  <2> QED BY <2>2, <2>3, <2>4, <2>5, <2>6, <2>7 DEF LabelInv
<1> QED BY <1>1, <1>2, <1>3

(* The labels are right from the start and stay so. *)
LEMMA LabelInit == ProviderInit => LabelInv
<1> SUFFICES ASSUME ProviderInit PROVE LabelInv
  OBVIOUS
<1>1. /\ \A p \in Pools : Live(pools[p]) = NewPool
      /\ pw.pc = "idle"
  BY DEF ProviderInit, PoolIdle, Live
<1> QED BY <1>1, ProviderTypeInit, ObjectsAssumption
        DEF LabelInv, Labelled, ProbeKnown, ProbeResult, NewPool

(* Every step of the four controllers keeps the labels in order: only the  *)
(* probe of a pool that is not valid yet makes it valid.                   *)
LEMMA LabelNext ==
    ASSUME MaxLag = 0
    PROVE  LabelInv /\ [ProviderNext]_providerVars => LabelInv'
<1> SUFFICES ASSUME LabelInv, [ProviderNext]_providerVars PROVE LabelInv'
  OBVIOUS
<1>0. ProviderTypeInv' BY ProviderTypeNext DEF LabelInv
<1>1. CASE [MachineNext]_machineVars /\ UNCHANGED <<pw, cw>>
  BY <1>0, <1>1, LabelMachine
<1>2. CASE OtherStep
  BY <1>0, <1>2, LabelOther
<1>3. CASE Crash
  <2>1. [MachineNext]_machineVars /\ pw' = PoolIdle
    BY <1>3 DEF Crash, MachineCrash, MachineNext
  <2> QED BY <1>0, <2>1, LabelMachine
<1> QED BY <1>1, <1>2, <1>3, ProviderSteps

(* With fresh reads a pool keeps the cluster it was adopted for until the  *)
(* machine controller releases it, whatever fails.                         *)
THEOREM AdoptionsKept ==
    ASSUME MaxLag = 0
    PROVE  ProviderSpec => AdoptionKept
<1> DEFINE A == \A p \in Pools :
                   Live(pools[p]).cluster \in Clusters
                     /\ Live(pools[p])'.cluster # Live(pools[p]).cluster
                   => mw.pc = "release" /\ mw.pool = p
<1>1. LabelInv /\ [ProviderNext]_providerVars => [A]_providerVars
  <2> SUFFICES ASSUME LabelInv, [ProviderNext]_providerVars, NEW p \in Pools,
                      Live(pools[p]).cluster \in Clusters,
                      Live(pools'[p]).cluster # Live(pools[p]).cluster
               PROVE  mw.pc = "release" /\ mw.pool = p
    OBVIOUS
  <2>1. CASE [MachineNext]_machineVars
    <3>1. ASSUME NEW m \in Machines, AdoptPool(m, p) PROVE FALSE
      <4>1. Seen(pools[p]).cluster = Blank
        BY <3>1 DEF AdoptPool, Candidates, MarkedPools, FreePools
      <4>2. Seen(pools[p]) = Live(pools[p])
        BY FreshReads, Typed DEF LabelInv, ProviderTypeInv
      <4> QED BY <4>1, <4>2, ObjectsAssumption
    <3> QED BY <2>1, <3>1, MachinePools
            DEF LabelInv, ProviderTypeInv, ReleasePool
  <2>2. CASE OtherStep
    BY <2>2, OthersKeepPools DEF Marked
  <2>3. CASE Crash
    BY <2>1, <2>3 DEF Crash, MachineCrash, MachineNext
  <2> QED BY <2>1, <2>2, <2>3, ProviderSteps
<1>2. LabelInv /\ [ProviderNext]_providerVars => LabelInv' BY LabelNext
<1> QED BY <1>1, <1>2, LabelInit, PTL DEF ProviderSpec, AdoptionKept

-----------------------------------------------------------------------------
(* What is carried over: the invariants of the machine controller speak of *)
(* machines, nodes, its worker and the marks of the pools.                 *)
LEMMA StartedFresh ==
    ASSUME ProviderInit
    PROVE  /\ TypeInv /\ mw = MachineIdle
           /\ \A m \in Machines : machines[m] = <<NewMachine>>
           /\ \A m \in Machines : Live(machines[m]) = NewMachine
           /\ \A p \in Pools : pools[p] = <<NewPool>>
           /\ \A p \in Pools : node[p] = CleanedNode
BY ProviderTypeInit DEF ProviderInit, ProviderTypeInv, Live

(* A step of another controller uses no node and takes no mark. *)
LEMMA CleanOthers ==
    ASSUME MaxLag = 0, LabelInv, CleanInv, TypeInv', OtherStep,
           UNCHANGED <<machines, phase, node, mw>>
    PROVE  CleanInv'
<1>0. /\ \A p \in Pools : pools[p] \in Log(Pool) /\ pools'[p] \in Log(Pool)
      /\ \A p \in Pools : Seen(pools[p]) = Live(pools[p])
                          /\ Seen(pools'[p]) = Live(pools'[p])
  BY FreshReads, Typed DEF CleanInv, TypeInv, MachineTypeOK, ObjectsTypeOK
<1>1. \A p \in Pools : KeepsOS(pools'[p])
  <2> SUFFICES ASSUME NEW p \in Pools PROVE KeepsOS(pools'[p])
    OBVIOUS
  <2>1. Len(pools'[p]) = 1 BY <1>0 DEF Log
  <2> QED BY <2>1 DEF KeepsOS
<1>2. \A p \in Pools : /\ Marked(p) => Live(pools'[p]).cluster \in Clusters
                       /\ KnownOS(p) => Seen(pools'[p]).os = "supported"
  BY <1>0, OthersKeepPools DEF Marked, KnownOS
<1> QED BY <1>1, <1>2, CleanKept

(* With fresh reads, when patches are answered and a reset does what it    *)
(* says, a pool that any of the four controllers leaves free has a node    *)
(* without kubeadm state, without a joined machine and without keepalived, *)
(* whenever the manager dies and whichever SSH sessions fail.  Of files it *)
(* says nothing.                                                           *)
THEOREM OfferedPoolsClean ==
    ASSUME MaxLag = 0, "api" \notin Faults, "reset" \notin Faults
    PROVE  ProviderSpec => []FreeIsClean
<1> DEFINE Inv == LabelInv /\ CleanInv
<1>1. ProviderInit => Inv
  <2> SUFFICES ASSUME ProviderInit PROVE CleanInv
    BY LabelInit
  <2>1. mw.pc = "idle" BY StartedFresh DEF MachineIdle
  <2>2. \A p \in Pools : KeepsOS(pools[p])
    BY StartedFresh DEF KeepsOS
  <2>3. PriorityKnown
    BY <2>1, <2>2, StartedFresh DEF PriorityKnown, CleanedNode
  <2> QED BY <2>1, <2>3, StartedFresh
          DEF CleanInv, UnmarkedClean, UsedMarked, ReleasedClean, AdoptionSteps
<1>2. Inv /\ [ProviderNext]_providerVars => Inv'
  <2> SUFFICES ASSUME Inv, [ProviderNext]_providerVars PROVE CleanInv'
    BY LabelNext
  <2>0. TypeInv' BY ProviderTypeNext DEF LabelInv, ProviderTypeInv
  <2>1. CASE [MachineNext]_machineVars
    BY <2>1, CleanNext
  <2>2. CASE OtherStep /\ UNCHANGED <<machines, phase, node, mw>>
    BY <2>0, <2>2, CleanOthers
  <2>3. CASE Crash
    BY <2>1, <2>3 DEF Crash, MachineCrash, MachineNext
  <2> QED BY <2>1, <2>2, <2>3, ProviderSteps
<1>3. Inv => FreeIsClean BY CleanFree
<1> QED BY <1>1, <1>2, <1>3, PTL DEF ProviderSpec

(* The service invariant of the machine controller, among the others. *)
ProviderServiceInv == LabelInv /\ ServiceInv

(* Every step keeps it: the other controllers leave every pool in use its  *)
(* mark.                                                                   *)
LEMMA ProviderServiceNext ==
    ASSUME MaxLag = 0, "api" \notin Faults, "crash" \notin Faults,
           ProviderServiceInv, [ProviderNext]_providerVars
    PROVE  ProviderServiceInv'
<1>0. /\ LabelInv' /\ TypeInv'
  BY LabelNext DEF ProviderServiceInv, LabelInv, ProviderTypeInv
<1>1. CASE [MachineNext]_machineVars
  BY <1>0, <1>1, ServiceNext DEF ProviderServiceInv
<1>2. CASE OtherStep /\ UNCHANGED <<machines, phase, node, mw>>
  <2>1. \A p \in Pools : Marked(p) => Live(pools'[p]).cluster \in Clusters
    BY <1>2, OthersKeepPools DEF ProviderServiceInv, Marked
  <2> QED BY <1>0, <1>2, <2>1, ServiceSame DEF ProviderServiceInv
<1>3. ~Crash BY DEF Crash, MachineCrash, Restart
<1> QED BY <1>1, <1>2, <1>3, ProviderSteps

(* No machine has a pool at first. *)
LEMMA ProviderServiceInit == ProviderInit => ProviderServiceInv
BY LabelInit, StartedFresh, ServiceFresh DEF ProviderServiceInv

(* With fresh reads, answered patches and no restart no two machines have  *)
(* the same pool, although the pool and the cluster controller patch the   *)
(* labels of the pools too.                                                *)
THEOREM ProviderPoolsExclusive ==
    ASSUME MaxLag = 0, "api" \notin Faults, "crash" \notin Faults
    PROVE  ProviderSpec => []ExclusiveAdoption
<1>1. ProviderServiceInv => ExclusiveAdoption
  BY ServiceExclusive DEF ProviderServiceInv
<1>2. ProviderServiceInv /\ [ProviderNext]_providerVars => ProviderServiceInv'
  BY ProviderServiceNext
<1> QED BY <1>1, <1>2, ProviderServiceInit, PTL DEF ProviderSpec

(* With fresh reads and when nothing fails, a machine that is gone has left*)
(* no node joined, whatever the other controllers do in between.           *)
THEOREM ProviderLeavesNothing ==
    ASSUME MaxLag = 0, Faults = {}
    PROVE  ProviderSpec => []GoneLeavesNothing
<1> DEFINE Inv == LabelInv /\ GoneInv
<1>1. ProviderInit => Inv
  <2> SUFFICES ASSUME ProviderInit PROVE GoneInv
    BY LabelInit
  <2>1. /\ mw.pc = "idle" /\ ServiceInv
    BY ProviderServiceInit, StartedFresh DEF ProviderServiceInv, MachineIdle
  <2>2. GuardInv
    BY StartedFresh, GuardFresh
  <2> QED BY <2>1, <2>2, StartedFresh, GoneFresh
<1>2. Inv /\ [ProviderNext]_providerVars => Inv'
  <2> SUFFICES ASSUME Inv, [ProviderNext]_providerVars PROVE GoneInv'
    BY LabelNext
  <2>0. ServiceInv' /\ TypeInv'
    BY ProviderServiceNext DEF ProviderServiceInv, GoneInv, ServiceInv
  <2>1. CASE [MachineNext]_machineVars
    BY <2>1, GoneNext
  <2>2. CASE OtherStep /\ UNCHANGED <<machines, phase, node, mw>>
    BY <2>0, <2>2, GoneSame
  <2>3. ~Crash BY DEF Crash, MachineCrash, Restart
  <2> QED BY <2>1, <2>2, <2>3, ProviderSteps
<1>3. Inv => GoneLeavesNothing
  BY DEF GoneInv, JoinedGuarded, GoneLeavesNothing
<1> QED BY <1>1, <1>2, <1>3, PTL DEF ProviderSpec

(* With fresh reads the providerID of a machine is written once, although  *)
(* the clusters may be deleted and any of the failures happen.             *)
THEOREM ProviderIdentitiesStable ==
    ASSUME MaxLag = 0
    PROVE  ProviderSpec => IdentityStable
<1> DEFINE Inv == ProviderTypeInv /\ FirstIdentity
           A == \A m \in Machines :
                   Live(machines[m]).providerID # None =>
                     Live(machines[m])'.providerID = Live(machines[m]).providerID
<1>1. ProviderInit => Inv
  BY ProviderTypeInit
     DEF ProviderInit, MachineIdle, FirstIdentity, AdoptionSteps
<1>2. Inv /\ [ProviderNext]_providerVars => Inv' /\ [A]_machineVars
  <2> SUFFICES ASSUME Inv, [ProviderNext]_providerVars
               PROVE  FirstIdentity' /\ A
    BY ProviderTypeNext
  <2>0. TypeInv BY DEF ProviderTypeInv
  <2>1. CASE MachineStep
    BY <2>0, <2>1, FirstIdentityStep, IdentityStays
  <2>2. CASE MachineEnvironment /\ UNCHANGED mw
    BY <2>0, <2>2, FirstIdentityOthers, IdentityStays
  <2>3. CASE Restart /\ mw' = MachineIdle
    BY <2>0, <2>3, FirstIdentityOthers, IdentityStays
  <2>4. CASE machines' = machines /\ mw' = mw
    BY <2>0, <2>4, FirstIdentityOthers, IdentityStays
  <2>5. \/ MachineStep \/ (MachineEnvironment /\ UNCHANGED mw)
        \/ (Restart /\ mw' = MachineIdle)
        \/ (machines' = machines /\ mw' = mw)
    BY ProviderSteps
       DEF MachineNext, MachineCrash, Crash, machineVars, objectVars
  <2> QED BY <2>1, <2>2, <2>3, <2>4, <2>5
<1> QED BY <1>1, <1>2, PTL DEF ProviderSpec, IdentityStable

-----------------------------------------------------------------------------
(* Most writes of a cluster keep its IP pool and its endpoint. *)
LEMMA CalmClusters ==
    ASSUME NEW live \in Cluster
    PROVE  /\ LET v == Kept(live, [live EXCEPT !.finalizer = TRUE])
              IN  /\ v \in Cluster /\ v.state = live.state
                  /\ v.hip = live.hip /\ v.endpoint = live.endpoint
           /\ LET v == Kept(live, [live EXCEPT !.ready = TRUE])
              IN  /\ v \in Cluster /\ v.state = live.state
                  /\ v.hip = live.hip /\ v.endpoint = live.endpoint
           /\ LET v == Kept(live, Gone(live))
              IN  /\ v \in Cluster /\ v.state = "gone"
                  /\ v.hip = live.hip /\ v.endpoint = live.endpoint
           /\ LET v == Deleted(live)
              IN  /\ v \in Cluster
                  /\ v.hip = live.hip /\ v.endpoint = live.endpoint
<1>1. LET v == [live EXCEPT !.finalizer = TRUE]
      IN  /\ v \in Cluster /\ v.state = live.state
          /\ v.hip = live.hip /\ v.endpoint = live.endpoint
  BY DEF Cluster
<1>2. LET v == [live EXCEPT !.ready = TRUE]
      IN  /\ v \in Cluster /\ v.state = live.state
          /\ v.hip = live.hip /\ v.endpoint = live.endpoint
  BY DEF Cluster
<1>3. LET v == Gone(live)
      IN  /\ v \in Cluster /\ v.state = "gone"
          /\ v.hip = live.hip /\ v.endpoint = live.endpoint
  BY DEF Cluster, ObjectState, Gone
<1>4. LET v == [live EXCEPT !.state = "deleting"]
      IN  /\ v \in Cluster
          /\ v.hip = live.hip /\ v.endpoint = live.endpoint
  BY DEF Cluster, ObjectState
<1> QED BY <1>1, <1>2, <1>3, <1>4 DEF Kept, Deleted

(* What the cluster controller and Cluster API make of a cluster: only the *)
(* first patch of Close writes the IP pool's name and the endpoint.        *)
LEMMA ClusterChanges ==
    ASSUME ProviderTypeInv, NEW d \in Clusters,
           ClusterStep \/ \E c \in Clusters : DeleteCluster(c)
    PROVE  LET old == Live(clusters[d])
               new == Live(clusters'[d])
           IN  /\ old.state = "gone" => new.state = "gone"
               /\ new.state = "live" => old.state = "live"
               /\ \/ new.hip = old.hip /\ new.endpoint = old.endpoint
                  \/ /\ CloseClusterSpec /\ d = cw.c /\ old.state # "gone"
                     /\ new.hip = IF cw.hip = cw.had THEN old.hip ELSE cw.hip
                     /\ new.endpoint = IF cw.endpoint = None THEN old.endpoint
                                                             ELSE cw.endpoint
<1> DEFINE old == Live(clusters[d])
           new == Live(clusters'[d])
           Calm == /\ old.state = "gone" => new.state = "gone"
                   /\ new.state = "live" => old.state = "live"
                   /\ new.hip = old.hip /\ new.endpoint = old.endpoint
<1>0. /\ clusters \in [Clusters -> Log(Cluster)]
      /\ \A c \in Clusters : Live(clusters[c]) \in Cluster
      /\ old \in Cluster
      /\ cw \in ClusterWorker /\ (cw.pc # "idle" => cw.c \in Clusters)
  BY Typed DEF ProviderTypeInv
<1>1. ASSUME NEW c \in Clusters, NEW v \in Cluster,
             clusters' \in Patched(clusters, c, v),
             LET live == Live(clusters[c])
             IN  /\ live.state = "gone" => v.state = "gone"
                 /\ v.state = "live" => live.state = "live"
                 /\ v.hip = live.hip /\ v.endpoint = live.endpoint
      PROVE  Calm
  <2>1. new = old \/ (d = c /\ new = v)
    BY <1>0, <1>1, PatchOutcome
  <2> QED BY <1>1, <2>1
<1>3. ASSUME NEW c \in Clusters, AddClusterFinalizer(c) PROVE Calm
  <2> DEFINE live == Live(clusters[c])
             edit == [live EXCEPT !.finalizer = TRUE]
             v == Kept(live, edit)
  <2>1. clusters' \in Patched(clusters, c, v)
    BY <1>3 DEF AddClusterFinalizer
  <2>2. live \in Cluster BY <1>0
  <2> HIDE DEF live
  <2>3. /\ v \in Cluster /\ v.state = live.state
        /\ v.hip = live.hip /\ v.endpoint = live.endpoint
    BY <2>2, CalmClusters
  <2> HIDE DEF v
  <2> QED BY <1>1, <2>1, <2>3 DEF live
<1>4. ASSUME NEW c \in Clusters, DeleteCluster(c) PROVE Calm
  <2> DEFINE live == Live(clusters[c])
             v == Deleted(live)
  <2>1. clusters' \in Patched(clusters, c, v) /\ live.state = "live"
    BY <1>4 DEF DeleteCluster, Patched
  <2>2. live \in Cluster BY <1>0
  <2> HIDE DEF live
  <2>3. /\ v \in Cluster /\ v.hip = live.hip /\ v.endpoint = live.endpoint
    BY <2>2, CalmClusters
  <2> HIDE DEF v
  <2> QED BY <1>1, <2>1, <2>3 DEF live
<1>5. CASE CloseClusterStatus \/ RemoveClusterFinalizer
  <2> DEFINE live == Live(clusters[cw.c])
             ready == [live EXCEPT !.ready = TRUE]
  <2>1. cw.c \in Clusters
    BY <1>0, <1>5 DEF CloseClusterStatus, RemoveClusterFinalizer
  <2>2. PICK edit \in {ready, Gone(live)} :
          clusters' \in Patched(clusters, cw.c, Kept(live, edit))
    BY <1>5 DEF CloseClusterStatus, RemoveClusterFinalizer
  <2> DEFINE v == Kept(live, edit)
  <2>3. live \in Cluster BY <1>0, <2>1
  <2> HIDE DEF live
  <2>4. /\ v \in Cluster /\ v.state \in {live.state, "gone"}
        /\ v.hip = live.hip /\ v.endpoint = live.endpoint
    BY <2>2, <2>3, CalmClusters
  <2>5. clusters' \in Patched(clusters, cw.c, v) BY <2>2
  <2> HIDE DEF v
  <2> QED BY <1>1, <2>1, <2>4, <2>5 DEF live
<1>6. CASE CloseClusterSpec
  <2> DEFINE live == Live(clusters[cw.c])
             hip == IF cw.hip = cw.had THEN live.hip ELSE cw.hip
             endpoint == IF cw.endpoint = None THEN live.endpoint
                                               ELSE cw.endpoint
             v == Kept(live, [live EXCEPT !.hip = hip, !.endpoint = endpoint])
  <2>1. cw.c \in Clusters /\ live \in Cluster
    BY <1>0, <1>6 DEF CloseClusterSpec
  <2>2. hip \in IPs \cup {None} /\ endpoint \in IPs \cup Pools \cup {None}
    BY <1>0, <2>1 DEF Cluster, ClusterWorker
  <2>3. v \in Cluster BY <2>1, <2>2, ClusterVersions
  <2>4. /\ v.state = live.state
        /\ \/ v = live
           \/ live.state # "gone" /\ v.hip = hip /\ v.endpoint = endpoint
    <3> HIDE DEF live, hip, endpoint
    <3> QED BY <2>1, <2>2 DEF Kept, Cluster
  <2>5. clusters' \in Patched(clusters, cw.c, v)
    BY <1>6 DEF CloseClusterSpec
  <2> HIDE DEF v
  <2>6. new = old \/ (d = cw.c /\ new = v)
    BY <1>0, <2>1, <2>3, <2>5, PatchOutcome
  <2> QED BY <1>6, <2>4, <2>6
<1>7. CASE clusters' = clusters
  BY <1>7
<1>8. ClusterStep =>
        \/ \E c \in Clusters : AddClusterFinalizer(c)
        \/ CloseClusterSpec \/ CloseClusterStatus \/ RemoveClusterFinalizer
        \/ clusters' = clusters
  BY DEF ClusterStep, ContinueCluster, NoFreeIP, ReleaseIP, TakeIP, TakePool,
         NoEndpoint, objectVars
<1> QED BY <1>3, <1>4, <1>5, <1>6, <1>7, <1>8

(* ... and the others make nothing of it. *)
LEMMA ClustersElse ==
    ASSUME ProviderTypeInv, [ProviderNext]_providerVars,
           ~ClusterStep, ~(\E c \in Clusters : DeleteCluster(c)),
           NEW d \in Clusters
    PROVE  Live(clusters'[d]) = Live(clusters[d])
<1>1. CASE [MachineNext]_machineVars
  BY <1>1, ClustersStay DEF ProviderTypeInv
<1>2. CASE OtherStep
  BY <1>2, PoolWrites DEF OtherStep, LabelIP
<1>3. CASE Crash
  BY <1>1, <1>3 DEF Crash, MachineCrash, MachineNext
<1> QED BY <1>1, <1>2, <1>3, ProviderSteps

(* Why the endpoint stays: the worker only looks for one for a cluster     *)
(* that has none, and no one else gives it one meanwhile.                  *)
Taking == cw.pc \in {"pool", "closeSpec"}

EndpointInv ==
    /\ ProviderTypeInv
    /\ Taking => Live(clusters[cw.c]).endpoint = None

(* At the start no cluster has an endpoint or takes one.                   *)
LEMMA EndpointInit == ProviderInit => EndpointInv
BY ProviderTypeInit DEF ProviderInit, EndpointInv, Taking, ClusterIdle

(* Every step keeps the invariant. *)
LEMMA EndpointNext ==
    ASSUME MaxLag = 0, EndpointInv, [ProviderNext]_providerVars
    PROVE  EndpointInv'
<1>0. /\ ProviderTypeInv /\ ProviderTypeInv'
      /\ cw \in ClusterWorker /\ (cw.pc # "idle" => cw.c \in Clusters)
      /\ \A c \in Clusters : Seen(clusters[c]) = Live(clusters[c])
  BY ProviderTypeNext, FreshReads, Typed DEF EndpointInv, ProviderTypeInv
<1> SUFFICES ASSUME Taking' PROVE Live(clusters'[cw'.c]).endpoint = None
  BY <1>0 DEF EndpointInv
<1>1. ASSUME NEW c \in Clusters, WantsEndpoint(c), clusters' = clusters, cw'.c = c
      PROVE  Live(clusters'[cw'.c]).endpoint = None
  BY <1>0, <1>1 DEF WantsEndpoint
<1>2. ASSUME Taking, cw'.c = cw.c, ~CloseClusterSpec
      PROVE  Live(clusters'[cw'.c]).endpoint = None
  <2>1. cw.c \in Clusters /\ Live(clusters[cw.c]).endpoint = None
    BY <1>0, <1>2 DEF EndpointInv, Taking
  <2> QED BY <1>0, <1>2, <2>1, ClusterChanges, ClustersElse
<1>3. ~CloseClusterSpec
  BY <1>0 DEF Taking, CloseClusterSpec, ClusterIdle, ClusterWorker
<1>4. CASE ClusterStep
  <2>1. ASSUME NEW c \in Clusters, NoFreeIP(c)
        PROVE  WantsEndpoint(c) /\ clusters' = clusters /\ cw'.c = c
    BY <2>1 DEF NoFreeIP, ClusterIdle, objectVars
  <2>2. ASSUME NEW c \in Clusters, NEW ip \in IPs, TakeIP(c, ip)
        PROVE  WantsEndpoint(c) /\ clusters' = clusters /\ cw'.c = c
    BY <2>2 DEF TakeIP
  <2>3. \A c \in Clusters : AddClusterFinalizer(c) => cw' = cw
    BY DEF AddClusterFinalizer
  <2>4. \A c \in Clusters : ~ReleaseIP(c)
    BY DEF ReleaseIP, ClusterIdle, Taking
  <2>5. ASSUME (\E p \in Pools : TakePool(p)) \/ NoEndpoint
        PROVE  Taking /\ cw'.c = cw.c
    BY <1>0, <2>5 DEF TakePool, NoEndpoint, Taking, ClusterWorker
  <2>6. ~CloseClusterStatus /\ ~RemoveClusterFinalizer
    BY DEF CloseClusterStatus, RemoveClusterFinalizer, ClusterIdle, Taking
  <2> QED BY <1>1, <1>2, <1>3, <1>4, <2>1, <2>2, <2>3, <2>4, <2>5, <2>6
          DEF ClusterStep, ContinueCluster, Taking
<1>5. CASE ~ClusterStep
  <2>1. cw' = cw \/ cw' = ClusterIdle
    BY <1>5, ProviderSteps DEF OtherStep, Crash
  <2>2. cw' = cw BY <2>1 DEF Taking, ClusterIdle
  <2> QED BY <1>2, <1>3, <2>2 DEF Taking
<1> QED BY <1>4, <1>5

(* With fresh reads the endpoint of a cluster, once it has one, stays,     *)
(* whatever patches are lost and however often the manager restarts.       *)
THEOREM EndpointsStable ==
    ASSUME MaxLag = 0
    PROVE  ProviderSpec => EndpointStable
<1> DEFINE A == \A c \in Clusters :
                   Live(clusters[c]).endpoint # None =>
                     Live(clusters[c])'.endpoint = Live(clusters[c]).endpoint
<1>1. EndpointInv /\ [ProviderNext]_providerVars => [A]_providerVars
  <2> SUFFICES ASSUME EndpointInv, [ProviderNext]_providerVars,
                      NEW c \in Clusters, Live(clusters[c]).endpoint # None
               PROVE  Live(clusters'[c]).endpoint = Live(clusters[c]).endpoint
    OBVIOUS
  <2>1. ~(CloseClusterSpec /\ c = cw.c)
    BY DEF CloseClusterSpec, EndpointInv, Taking
  <2> QED BY <2>1, ClusterChanges, ClustersElse DEF EndpointInv
<1>2. EndpointInv /\ [ProviderNext]_providerVars => EndpointInv'
  BY EndpointNext
<1> QED BY <1>1, <1>2, EndpointInit, PTL DEF ProviderSpec, EndpointStable

(* Why no two clusters have the same virtual IP.  A cluster claims the IP  *)
(* pool it names, until the worker that deletes it has emptied the label,  *)
(* and the one the worker is about to give it.  A pool that is claimed has *)
(* a count, so it is not free, and the worker takes only free ones.        *)
ClaimsIP(c, ip) ==
    \/ /\ Live(clusters[c]).state # "gone" /\ Live(clusters[c]).hip = ip
       /\ ~(cw.pc = "removeFinalizer" /\ cw.c = c)
    \/ Taking /\ cw.c = c /\ cw.hip = ip

ClaimsCounted ==
    \A c \in Clusters : \A ip \in IPs : ClaimsIP(c, ip) => Live(ips[ip]) \in Nat

ClaimOnce ==
    \A c, d \in Clusters : \A ip \in IPs :
        ClaimsIP(c, ip) /\ ClaimsIP(d, ip) => c = d

(* The virtual IP of a cluster is that of the IP pool it names. *)
EndpointNamed ==
    /\ \A c \in Clusters :
          Live(clusters[c]).endpoint \in IPs =>
              Live(clusters[c]).hip = Live(clusters[c]).endpoint
    /\ Taking => Live(clusters[cw.c]).hip = cw.had
    /\ Taking /\ cw.endpoint \in IPs => cw.endpoint = cw.hip
    /\ cw.pc = "pool" => cw.endpoint = None

ReleasesDeleted ==
    cw.pc = "removeFinalizer" => Live(clusters[cw.c]).state # "live"

ClaimInv ==
    /\ EndpointInv
    /\ ClaimsCounted /\ ClaimOnce /\ EndpointNamed /\ ReleasesDeleted

(* The invariant says what ExclusiveEndpoint does. *)
LEMMA ClaimsExclude == ClaimInv => ExclusiveEndpoint
<1> SUFFICES ASSUME ClaimInv, NEW c \in Clusters, NEW d \in Clusters,
                    Live(clusters[c]).state = "live",
                    Live(clusters[d]).state = "live",
                    Live(clusters[c]).endpoint \in IPs,
                    Live(clusters[c]).endpoint = Live(clusters[d]).endpoint
             PROVE  c = d
  BY DEF ExclusiveEndpoint
<1> DEFINE ip == Live(clusters[c]).endpoint
<1>1. ClaimsIP(c, ip) /\ ClaimsIP(d, ip)
  BY DEF ClaimInv, EndpointNamed, ReleasesDeleted, ClaimsIP
<1> QED BY <1>1 DEF ClaimInv, ClaimOnce

(* A step that gives no cluster an IP pool and empties none in use. *)
LEMMA ClaimsSame ==
    ASSUME ClaimInv, EndpointInv', cw' = cw,
           \A c \in Clusters :
              LET old == Live(clusters[c])
                  new == Live(clusters'[c])
              IN  /\ old.state = "gone" => new.state = "gone"
                  /\ new.state = "live" => old.state = "live"
                  /\ new.hip = old.hip /\ new.endpoint = old.endpoint,
           \A ip \in IPs : Live(ips[ip]) \in Nat => Live(ips'[ip]) \in Nat
    PROVE  ClaimInv'
<1>0. cw.pc # "idle" => cw.c \in Clusters
  BY DEF ClaimInv, EndpointInv, ProviderTypeInv
<1>1. \A c \in Clusters : \A ip \in IPs : ClaimsIP(c, ip)' => ClaimsIP(c, ip)
  BY DEF ClaimsIP, Taking
<1>2. ClaimsCounted' /\ ClaimOnce'
  BY <1>1 DEF ClaimInv, ClaimsCounted, ClaimOnce
<1>3. EndpointNamed' /\ ReleasesDeleted'
  BY <1>0 DEF ClaimInv, EndpointNamed, ReleasesDeleted, Taking
<1> QED BY <1>2, <1>3 DEF ClaimInv

(* The steps of the cluster controller keep the invariant. *)
LEMMA ClaimsCluster ==
    ASSUME MaxLag = 0, "api" \notin Faults, ClaimInv, EndpointInv', ClusterStep
    PROVE  ClaimInv'
<1>0. /\ ProviderTypeInv /\ TypeInv /\ Faults \in SUBSET FaultKinds
      /\ cw \in ClusterWorker /\ (cw.pc # "idle" => cw.c \in Clusters)
      /\ \A c \in Clusters : /\ Seen(clusters[c]) = Live(clusters[c])
                             /\ Live(clusters[c]) \in Cluster
      /\ \A ip \in IPs : Seen(ips[ip]) = Live(ips[ip])
      /\ ips \in [IPs -> Log(Count)] /\ clusters \in [Clusters -> Log(Cluster)]
  BY FreshReads, Typed, ApiAssumption DEF ClaimInv, EndpointInv, ProviderTypeInv
<1>1. ASSUME NEW c \in Clusters, AddClusterFinalizer(c) PROVE ClaimInv'
  <2>1. ~CloseClusterSpec
    BY <1>0, <1>1 DEF AddClusterFinalizer, CloseClusterSpec
  <2> QED BY <1>0, <1>1, <2>1, ClusterChanges, ClaimsSame DEF AddClusterFinalizer
<1>2. ASSUME NEW c \in Clusters, NoFreeIP(c) PROVE ClaimInv'
  <2>1. /\ cw.pc = "idle" /\ Live(clusters[c]).state = "live"
        /\ Live(clusters[c]).endpoint = None
        /\ cw'.pc = "pool" /\ cw'.c = c /\ cw'.endpoint = None
        /\ cw'.had = Live(clusters[c]).hip /\ cw'.hip = Live(clusters[c]).hip
        /\ clusters' = clusters /\ ips' = ips
    BY <1>0, <1>2 DEF NoFreeIP, WantsEndpoint, ClusterIdle, objectVars
  <2>2. \A d \in Clusters : \A ip \in IPs : ClaimsIP(d, ip)' => ClaimsIP(d, ip)
    BY <2>1 DEF ClaimsIP, Taking
  <2>3. ClaimsCounted' /\ ClaimOnce'
    BY <2>1, <2>2 DEF ClaimInv, ClaimsCounted, ClaimOnce
  <2>4. EndpointNamed' /\ ReleasesDeleted'
    BY <2>1, ObjectsAssumption
       DEF ClaimInv, EndpointNamed, ReleasesDeleted, Taking
  <2> QED BY <2>3, <2>4 DEF ClaimInv
<1>3. ASSUME NEW c \in Clusters, NEW ip \in IPs, TakeIP(c, ip) PROVE ClaimInv'
  <2>1. /\ cw.pc = "idle" /\ Live(clusters[c]).endpoint = None
        /\ Live(ips[ip]) = Blank
        /\ cw'.pc \in {"pool", "closeSpec"} /\ cw'.c = c
        /\ cw'.had = Live(clusters[c]).hip /\ cw'.hip = ip
        /\ cw'.endpoint \in {None, ip} /\ (cw'.pc = "pool" => cw'.endpoint = None)
        /\ clusters' = clusters
    BY <1>0, <1>3 DEF TakeIP, WantsEndpoint, FreeIPs
  <2>2. /\ Live(ips'[ip]) = 0
        /\ \A x \in IPs : x # ip => ips'[x] = ips[x]
    <3>1. 0 \in Count /\ ips' \in Patched(ips, ip, 0)
      BY <1>3 DEF TakeIP, Count
    <3> QED BY <1>0, <3>1, PatchOutcome
  <2>3. \A d \in Clusters : ~ClaimsIP(d, ip)
    BY <2>1, ValuesAssumption DEF ClaimInv, ClaimsCounted
  <2>4. \A d \in Clusters : \A x \in IPs :
           ClaimsIP(d, x)' => IF x = ip THEN d = c ELSE ClaimsIP(d, x)
    <3>1. ASSUME NEW d \in Clusters, Live(clusters[d]).state # "gone",
                 Live(clusters[d]).hip = ip
          PROVE  FALSE
      BY <2>1, <2>3, <3>1 DEF ClaimsIP
    <3> QED BY <2>1, <3>1 DEF ClaimsIP, Taking
  <2>5. ClaimsCounted'
    BY <2>2, <2>4 DEF ClaimInv, ClaimsCounted
  <2>6. ClaimOnce'
    BY <2>4 DEF ClaimInv, ClaimOnce
  <2>7. EndpointNamed' /\ ReleasesDeleted'
    BY <2>1, ObjectsAssumption
       DEF ClaimInv, EndpointNamed, ReleasesDeleted, Taking
  <2> QED BY <2>5, <2>6, <2>7 DEF ClaimInv
<1>4. ASSUME NEW p \in Pools, TakePool(p) PROVE ClaimInv'
  <2>1. /\ cw.pc = "pool" /\ cw'.pc = "closeSpec" /\ cw'.c = cw.c
        /\ cw'.had = cw.had /\ cw'.hip = cw.hip
        /\ cw'.endpoint = p
        /\ clusters' = clusters /\ ips' = ips
    BY <1>0, <1>4 DEF TakePool, ClusterWorker
  <2>2. cw'.endpoint \notin IPs
    BY <2>1, ValuesAssumption
  <2>3. \A d \in Clusters : \A ip \in IPs : ClaimsIP(d, ip)' => ClaimsIP(d, ip)
    BY <2>1 DEF ClaimsIP, Taking
  <2>4. ClaimsCounted' /\ ClaimOnce'
    BY <2>1, <2>3 DEF ClaimInv, ClaimsCounted, ClaimOnce
  <2>5. EndpointNamed' /\ ReleasesDeleted'
    BY <2>1, <2>2 DEF ClaimInv, EndpointNamed, ReleasesDeleted, Taking
  <2> QED BY <2>4, <2>5 DEF ClaimInv
<1>5. CASE CloseClusterSpec
  <2>1. /\ cw.pc = "closeSpec" /\ cw.c \in Clusters /\ Taking
        /\ cw'.pc \in {"idle", "closeStatus"} /\ ips' = ips
    BY <1>0, <1>5 DEF CloseClusterSpec, ClusterIdle, ClusterWorker, Taking
  <2>2. \A d \in Clusters :
           LET old == Live(clusters[d])
               new == Live(clusters'[d])
           IN  /\ old.state = "gone" => new.state = "gone"
               /\ \/ new.hip = old.hip /\ new.endpoint = old.endpoint
                  \/ /\ d = cw.c
                     /\ new.hip = IF cw.hip = cw.had THEN old.hip ELSE cw.hip
                     /\ new.endpoint = IF cw.endpoint = None THEN old.endpoint
                                                             ELSE cw.endpoint
    BY <1>0, ClusterChanges
  <2>3. \A d \in Clusters : \A ip \in IPs : ClaimsIP(d, ip)' => ClaimsIP(d, ip)
    BY <2>1, <2>2 DEF ClaimsIP, Taking
  <2>4. ClaimsCounted' /\ ClaimOnce'
    BY <2>1, <2>3 DEF ClaimInv, ClaimsCounted, ClaimOnce
  <2>5. EndpointNamed' /\ ReleasesDeleted'
    <3> SUFFICES ASSUME NEW d \in Clusters, Live(clusters'[d]).endpoint \in IPs
                 PROVE  Live(clusters'[d]).hip = Live(clusters'[d]).endpoint
      BY <2>1 DEF EndpointNamed, ReleasesDeleted, Taking
    <3>1. CASE d = cw.c
      BY <2>1, <2>2, <3>1, ObjectsAssumption
         DEF ClaimInv, EndpointNamed, EndpointInv
    <3>2. CASE d # cw.c
      BY <2>2, <3>2 DEF ClaimInv, EndpointNamed
    <3> QED BY <3>1, <3>2
  <2> QED BY <2>4, <2>5 DEF ClaimInv
<1>6. CASE CloseClusterStatus \/ RemoveClusterFinalizer
  <2>1. /\ ~Taking /\ cw.c \in Clusters /\ cw'.pc = "idle" /\ ips' = ips
        /\ ~CloseClusterSpec
    BY <1>0, <1>6 DEF CloseClusterStatus, RemoveClusterFinalizer, ClusterIdle,
                      Taking, CloseClusterSpec
  <2>2. \A d \in Clusters :
           LET old == Live(clusters[d])
               new == Live(clusters'[d])
           IN  /\ old.state = "gone" => new.state = "gone"
               /\ new.hip = old.hip /\ new.endpoint = old.endpoint
    BY <1>0, <2>1, ClusterChanges
  <2>3. cw.pc = "removeFinalizer" => Live(clusters'[cw.c]).state = "gone"
    <3> SUFFICES ASSUME cw.pc = "removeFinalizer"
                 PROVE  Live(clusters'[cw.c]).state = "gone"
      OBVIOUS
    <3> DEFINE live == Live(clusters[cw.c])
               v == Kept(live, Gone(live))
    <3>1. clusters' \in Patched(clusters, cw.c, v)
      BY <1>6 DEF CloseClusterStatus, RemoveClusterFinalizer
    <3>2. live \in Cluster BY <1>0, <2>1
    <3> HIDE DEF live
    <3>3. v \in Cluster /\ v.state = "gone" BY <3>2, CalmClusters
    <3> HIDE DEF v
    <3> QED BY <1>0, <2>1, <3>1, <3>3, PatchOutcome
  <2>4. \A d \in Clusters : \A ip \in IPs : ClaimsIP(d, ip)' => ClaimsIP(d, ip)
    BY <2>1, <2>2, <2>3 DEF ClaimsIP, Taking
  <2>5. ClaimsCounted' /\ ClaimOnce'
    BY <2>1, <2>4 DEF ClaimInv, ClaimsCounted, ClaimOnce
  <2>6. EndpointNamed' /\ ReleasesDeleted'
    BY <2>1, <2>2 DEF ClaimInv, EndpointNamed, ReleasesDeleted, Taking
  <2> QED BY <2>5, <2>6 DEF ClaimInv
<1>7. ASSUME NEW c \in Clusters, ReleaseIP(c) PROVE ClaimInv'
  <2> DEFINE hip == Live(clusters[c]).hip
  <2>1. /\ cw.pc = "idle" /\ Live(clusters[c]).state = "deleting"
        /\ cw'.pc = "removeFinalizer" /\ cw'.c = c /\ clusters' = clusters
    BY <1>0, <1>7 DEF ReleaseIP, ClusterIdle
  <2>2. \A ip \in IPs : ip # hip => ips'[ip] = ips[ip]
    <3>1. CASE hip = None BY <1>0, <1>7, <3>1 DEF ReleaseIP
    <3>2. CASE hip # None
      <4>1. hip \in IPs BY <1>0, <3>2 DEF Cluster
      <4>2. (IF Seen(ips[hip]) = Blank THEN Live(ips[hip]) ELSE Blank) \in Count
        BY <1>0, <4>1, Typed DEF Count
      <4> QED BY <1>0, <1>7, <3>2, <4>1, <4>2, PatchOutcome DEF ReleaseIP
    <3> QED BY <3>1, <3>2
  <2>3. ClaimsIP(c, hip) BY <2>1 DEF ClaimsIP
  <2>4. \A d \in Clusters : \A ip \in IPs :
           ClaimsIP(d, ip)' => d # c /\ ClaimsIP(d, ip)
    BY <2>1 DEF ClaimsIP, Taking
  <2>5. ClaimsCounted' /\ ClaimOnce'
    BY <2>2, <2>3, <2>4 DEF ClaimInv, ClaimsCounted, ClaimOnce
  <2>6. EndpointNamed' /\ ReleasesDeleted'
    BY <2>1 DEF ClaimInv, EndpointNamed, ReleasesDeleted, Taking
  <2> QED BY <2>5, <2>6 DEF ClaimInv
<1>8. CASE NoEndpoint
  <2>1. /\ cw.pc = "pool" /\ cw'.pc = "closeSpec" /\ cw'.c = cw.c
        /\ cw'.had = cw.had /\ cw'.hip = cw.hip /\ cw'.endpoint = cw.endpoint
        /\ clusters' = clusters /\ ips' = ips
    BY <1>0, <1>8 DEF NoEndpoint, ClusterWorker, objectVars
  <2>2. \A d \in Clusters : \A ip \in IPs : ClaimsIP(d, ip)' => ClaimsIP(d, ip)
    BY <2>1 DEF ClaimsIP, Taking
  <2>3. ClaimsCounted' /\ ClaimOnce'
    BY <2>1, <2>2 DEF ClaimInv, ClaimsCounted, ClaimOnce
  <2>4. EndpointNamed' /\ ReleasesDeleted'
    BY <2>1 DEF ClaimInv, EndpointNamed, ReleasesDeleted, Taking
  <2> QED BY <2>3, <2>4 DEF ClaimInv
<1> QED BY <1>1, <1>2, <1>3, <1>4, <1>5, <1>6, <1>7, <1>8
        DEF ClusterStep, ContinueCluster

(* So do the others: a priority is counted from a count, and only an IP    *)
(* pool without the label gets an empty one.                               *)
LEMMA ClaimsNext ==
    ASSUME MaxLag = 0, "api" \notin Faults, "crash" \notin Faults,
           ClaimInv, [ProviderNext]_providerVars
    PROVE  ClaimInv'
<1>0. /\ EndpointInv' /\ ProviderTypeInv /\ TypeInv
      /\ ips \in [IPs -> Log(Count)]
      /\ \A ip \in IPs : Seen(ips[ip]) = Live(ips[ip])
      /\ cw \in ClusterWorker
  BY EndpointNext, FreshReads, Typed DEF ClaimInv, EndpointInv, ProviderTypeInv
<1>1. CASE ClusterStep
  BY <1>0, <1>1, ClaimsCluster
<1>2. CASE ~ClusterStep
  <2>1. cw' = cw
    BY <1>2, ProviderSteps DEF OtherStep, Crash, MachineCrash, Restart
  <2>2. ~CloseClusterSpec
    BY <1>0, <2>1 DEF CloseClusterSpec, ClusterIdle, ClusterWorker
  <2>3. \A c \in Clusters :
           LET old == Live(clusters[c])
               new == Live(clusters'[c])
           IN  /\ old.state = "gone" => new.state = "gone"
               /\ new.state = "live" => old.state = "live"
               /\ new.hip = old.hip /\ new.endpoint = old.endpoint
    <3>1. CASE \E c \in Clusters : DeleteCluster(c)
      BY <1>0, <2>2, <3>1, ClusterChanges
    <3>2. CASE ~(\E c \in Clusters : DeleteCluster(c))
      BY <1>0, <1>2, <3>2, ClustersElse
    <3> QED BY <3>1, <3>2
  <2>4. \A ip \in IPs : Live(ips[ip]) \in Nat => Live(ips'[ip]) \in Nat
    <3>1. CASE TakePriority
      <4> DEFINE count == IF mw.hip = None THEN None ELSE Seen(ips[mw.hip])
      <4>1. CASE count \in Nat /\ mw.hip # None
        <5>1. mw.hip \in IPs
          BY <1>0, <4>1, Typed DEF MachineWorker
        <5>2. count + 1 \in Count /\ count + 1 \in Nat
          BY <4>1 DEF Count
        <5>3. ips' \in Patched(ips, mw.hip, count + 1)
          BY <3>1, <4>1 DEF TakePriority
        <5> HIDE DEF count
        <5> QED BY <1>0, <5>1, <5>2, <5>3, PatchOutcome
      <4>2. CASE count \notin Nat
        BY <3>1, <4>2 DEF TakePriority
      <4> QED BY <4>1, <4>2, ValuesAssumption
    <3>2. ASSUME NEW x \in IPs, LabelIP(x), NEW ip \in IPs,
                 Live(ips[ip]) \in Nat
          PROVE  Live(ips'[ip]) \in Nat
      <4>1. ip # x
        BY <1>0, <3>2, ValuesAssumption DEF LabelIP
      <4>2. ips' \in Patched(ips, x, Blank) /\ Blank \in Count
        BY <3>2 DEF LabelIP, Count
      <4> QED BY <1>0, <3>2, <4>1, <4>2, PatchOutcome
    <3>3. CASE [MachineNext]_machineVars /\ ~TakePriority
      BY <1>0, <3>3, ClustersStay
    <3>4. CASE \/ PoolStep
               \/ \E c \in Clusters : DeleteCluster(c)
      BY <1>0, <3>4, PoolWrites DEF DeleteCluster
    <3>5. ~Crash BY DEF Crash, MachineCrash, Restart
    <3> QED BY <1>2, <3>1, <3>2, <3>3, <3>4, <3>5, ProviderSteps DEF OtherStep
  <2> QED BY <1>0, <2>1, <2>3, <2>4, ClaimsSame
<1> QED BY <1>1, <1>2

(* With fresh reads, answered patches and no restart two live clusters     *)
(* never have the same virtual IP, whatever becomes of the nodes.          *)
THEOREM EndpointsExclusive ==
    ASSUME MaxLag = 0, "api" \notin Faults, "crash" \notin Faults
    PROVE  ProviderSpec => []ExclusiveEndpoint
<1>1. ProviderInit => ClaimInv
  <2> SUFFICES ASSUME ProviderInit PROVE ClaimInv
    OBVIOUS
  <2>1. /\ \A c \in Clusters : Live(clusters[c]) = NewCluster
        /\ cw.pc = "idle"
    BY DEF ProviderInit, ClusterIdle, Live
  <2>2. \A c \in Clusters : \A ip \in IPs : ~ClaimsIP(c, ip)
    BY <2>1, ObjectsAssumption DEF ClaimsIP, Taking, NewCluster
  <2>3. EndpointNamed /\ ReleasesDeleted
    BY <2>1, ObjectsAssumption
       DEF EndpointNamed, ReleasesDeleted, Taking, NewCluster
  <2> QED BY <2>2, <2>3, EndpointInit DEF ClaimInv, ClaimsCounted, ClaimOnce
<1>2. ClaimInv /\ [ProviderNext]_providerVars => ClaimInv'
  BY ClaimsNext
<1> QED BY <1>1, <1>2, ClaimsExclude, PTL DEF ProviderSpec
=============================================================================
