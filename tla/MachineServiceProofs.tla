------------------------- MODULE MachineServiceProofs -------------------------
(***************************************************************************)
(* Theorems about one machine, one pool, one node: with fresh reads and no *)
(* restart a pool is not shared, and its node serves the machine that      *)
(* refers to the pool until that machine is deleted.                       *)
(***************************************************************************)
EXTENDS MachinePoolProofs

-----------------------------------------------------------------------------
(* The pool of a machine is the one it refers to; while the worker is      *)
(* between taking a pool and publishing it, the reference is still to come.*)
(* A pool with a machine is marked, so the lists of free pools leave it    *)
(* out, until the worker that deletes the machine has freed it and has     *)
(* only the finalizer left to remove.                                      *)
Refers(m, p) == /\ Live(machines[m]).state # "gone"
                /\ Live(machines[m]).poolRef = p

Serving == mw.pc \in AdoptionSteps \cup CloseSteps

ReferOnce ==
    \A m, n \in Machines : \A p \in Pools : Refers(m, p) /\ Refers(n, p) => m = n

TakenAlone == Serving => \A n \in Machines : Refers(n, mw.pool) => n = mw.m

ReferredMarked ==
    \A m \in Machines : \A p \in Pools :
        Refers(m, p) => Marked(p) \/ (mw.pc = "removeFinalizer" /\ mw.m = m)

TakenMarked == Serving => Marked(mw.pool)

(* The pool that is being freed belongs to the machine that is deleted.    *)
ReleaseOwn ==
    mw.pc = "release" =>
        /\ Live(machines[mw.m]).state = "deleting"
        /\ Live(machines[mw.m]).poolRef = mw.pool

(* A node that has run the bootstrap command of a machine is the machine's,*)
(* which knows it unless the worker is about to tell it.                   *)
ServedKnown ==
    \A m \in Machines : \A p \in Pools :
        node[p].joined = m /\ Live(machines[m]).state # "gone" =>
            \/ /\ Live(machines[m]).poolRef = p
               /\ Live(machines[m]).providerID # None
            \/ mw.pc = "closeSpec" /\ mw.ok /\ mw.m = m /\ mw.pool = p

(* What the attempt was read with is still so when it patches the machine. *)
AttemptKnown ==
    mw.pc \in AdoptionSteps \cup {"closeSpec"} =>
        \/ Live(machines[mw.m]).state = "gone"
        \/ /\ Live(machines[mw.m]).poolRef = mw.had
           /\ Live(machines[mw.m]).providerID = None

ServiceInv ==
    /\ TypeInv
    /\ ReferOnce /\ TakenAlone /\ ReferredMarked /\ TakenMarked /\ ReleaseOwn
    /\ ServedKnown /\ AttemptKnown

(* The invariant says what ExclusiveAdoption does. *)
LEMMA ServiceExclusive == ServiceInv => ExclusiveAdoption
<1> SUFFICES ASSUME ServiceInv, NEW m \in Machines, NEW n \in Machines,
                    NEW p \in Pools,
                    Live(machines[m]).state = "live",
                    Live(machines[n]).state = "live",
                    Holds(m, p), Holds(n, p)
             PROVE  m = n
  BY DEF ExclusiveAdoption
<1>1. CASE Live(machines[m]).poolRef = p /\ Live(machines[n]).poolRef = p
  BY <1>1 DEF ServiceInv, ReferOnce, Refers
<1>2. CASE Attempting(m) /\ mw.pool = p
  BY <1>2 DEF ServiceInv, TakenAlone, Serving, Refers, Attempting, Holds
<1>3. CASE Attempting(n) /\ mw.pool = p
  BY <1>3 DEF ServiceInv, TakenAlone, Serving, Refers, Attempting, Holds
<1> QED BY <1>1, <1>2, <1>3 DEF Holds

(* A step that leaves the machines, the nodes and the worker alone, and    *)
(* every pool its mark.                                                    *)
LEMMA ServiceSame ==
    ASSUME ServiceInv, TypeInv', node' = node, mw' = mw,
           \A n \in Machines : Live(machines'[n]) = Live(machines[n]),
           \A p \in Pools : Marked(p) => Live(pools'[p]).cluster \in Clusters
    PROVE  ServiceInv'
<1>0. /\ mw.pc # "idle" => mw.m \in Machines
      /\ Serving => mw.pool \in Pools
      /\ mw.pc = "release" => mw.pool \in Pools
  BY Typed DEF ServiceInv, Serving
<1>1. ReferOnce' BY DEF ServiceInv, ReferOnce, Refers
<1>2. TakenAlone' BY DEF ServiceInv, TakenAlone, Serving, Refers
<1>3. ReferredMarked' BY DEF ServiceInv, ReferredMarked, Refers, Marked
<1>4. TakenMarked' BY <1>0 DEF ServiceInv, TakenMarked, Serving, Marked
<1>5. ReleaseOwn' BY <1>0 DEF ServiceInv, ReleaseOwn
<1>6. ServedKnown' BY DEF ServiceInv, ServedKnown
<1>7. AttemptKnown' BY <1>0 DEF ServiceInv, AttemptKnown, AdoptionSteps
<1> QED BY <1>1, <1>2, <1>3, <1>4, <1>5, <1>6, <1>7 DEF ServiceInv

(* A machine that gets a finalizer, becomes ready, is marked for deletion  *)
(* or goes, while the worker stays where it is or ends.                    *)
LEMMA ServiceMachine ==
    ASSUME ServiceInv, TypeInv', NEW k \in Machines, NEW v \in Machine,
           MachineBecomes(k, v),
           v.poolRef = Live(machines[k]).poolRef,
           v.providerID = Live(machines[k]).providerID,
           Live(machines[k]).state = "gone" => v.state = "gone",
           \/ /\ mw' = mw
              /\ Live(machines[k]).state = "deleting" => v.state = "deleting"
           \/ /\ mw' = MachineIdle /\ mw.pc # "closeSpec"
              /\ mw.pc = "removeFinalizer" => mw.m = k /\ v.state = "gone"
    PROVE  ServiceInv'
<1>0. /\ mw.pc # "idle" => mw.m \in Machines
      /\ mw'.pc # "idle" => mw' = mw
      /\ Live(machines'[k]) = v
      /\ \A n \in Machines : n # k => Live(machines'[n]) = Live(machines[n])
      /\ pools' = pools /\ node' = node
  BY Typed DEF ServiceInv, MachineBecomes, MachineIdle
<1>1. \A n \in Machines : \A p \in Pools : Refers(n, p)' => Refers(n, p)
  BY <1>0 DEF Refers
<1>2. ReferOnce' BY <1>1 DEF ServiceInv, ReferOnce
<1>3. TakenAlone'
  BY <1>0, <1>1, Typed DEF ServiceInv, TakenAlone, Serving, Refers,
                           AdoptionSteps, CloseSteps
<1>4. ReferredMarked'
  BY <1>0, <1>1 DEF ServiceInv, ReferredMarked, Marked, Refers, MachineIdle
<1>5. TakenMarked'
  BY <1>0 DEF ServiceInv, TakenMarked, Serving, Marked, AdoptionSteps, CloseSteps
<1>6. ReleaseOwn'
  BY <1>0 DEF ServiceInv, ReleaseOwn, MachineIdle
<1>7. ServedKnown'
  BY <1>0 DEF ServiceInv, ServedKnown, MachineIdle
<1>8. AttemptKnown'
  BY <1>0 DEF ServiceInv, AttemptKnown, AdoptionSteps
<1> QED BY <1>2, <1>3, <1>4, <1>5, <1>6, <1>7, <1>8 DEF ServiceInv

(* Taking up a machine or a deletion. *)
LEMMA ServiceStart ==
    ASSUME MaxLag = 0, "api" \notin Faults, ServiceInv, NEW m \in Machines,
           AddFinalizer(m) \/ StartDeletion(m) \/ \E p \in Pools : AdoptPool(m, p)
    PROVE  ServiceInv'
<1>0. /\ TypeInv /\ TypeInv'
      /\ Live(machines[m]) \in Machine
      /\ Seen(machines[m]) = Live(machines[m])
  BY StartTypes, Typed, FreshReads DEF ServiceInv
<1>1. CASE AddFinalizer(m)
  <2> DEFINE live == Live(machines[m])
             v == Kept(live, [live EXCEPT !.finalizer = TRUE])
  <2>1. MachineBecomes(m, v) /\ mw' = mw
    BY <1>0, <1>1, MachinePatches
  <2>2. /\ v \in Machine /\ v.poolRef = live.poolRef
        /\ v.providerID = live.providerID /\ v.state = live.state
    BY <1>0, MachineVersions DEF Kept, Machine
  <2> HIDE DEF v
  <2> QED BY <1>0, <2>1, <2>2, ServiceMachine
<1>2. CASE LeaveNode(m)
  <2>1. /\ mw.pc = "idle" /\ mw'.pc = "removeFinalizer" /\ mw'.m = m
        /\ machines' = machines /\ pools' = pools /\ node' = node
    BY <1>2 DEF LeaveNode, Deleting, MachineIdle, objectVars
  <2>2. ReferOnce' /\ TakenAlone' /\ TakenMarked' /\ ReleaseOwn' /\ AttemptKnown'
    BY <2>1 DEF ServiceInv, ReferOnce, Refers, TakenAlone, TakenMarked,
                ReleaseOwn, AttemptKnown, Serving, AdoptionSteps, CloseSteps
  <2>3. ReferredMarked' /\ ServedKnown'
    BY <2>1 DEF ServiceInv, ReferredMarked, ServedKnown, Refers, Marked
  <2> QED BY <1>0, <2>2, <2>3 DEF ServiceInv
<1>3. CASE CleanNode(m)
  <2> DEFINE p == Live(machines[m]).poolRef
  <2>1. /\ mw.pc = "idle" /\ Live(machines[m]).state = "deleting"
        /\ mw'.pc = "release" /\ mw'.m = m /\ mw'.pool = p
        /\ machines' = machines /\ pools' = pools /\ p \in Pools
    BY <1>0, <1>3 DEF CleanNode, Deleting, MachineIdle, Machine, stores
  <2>2. PICK reset \in BOOLEAN, purged \in BOOLEAN :
          node' = [node EXCEPT ![p] =
                     Cleaned(p, reset, purged /\ Seen(pools[p]).os = "supported")]
    BY <1>0, <1>3 DEF CleanNode
  <2>3. \A q \in Pools : node'[q].joined \in {node[q].joined, None}
    BY <1>0, <2>1, <2>2, Typed DEF Cleaned
  <2> HIDE DEF p
  <2>4. ReferOnce' /\ TakenAlone' /\ TakenMarked' /\ AttemptKnown'
    BY <2>1 DEF ServiceInv, ReferOnce, Refers, TakenAlone, TakenMarked,
                AttemptKnown, Serving, AdoptionSteps, CloseSteps
  <2>5. ReleaseOwn' BY <2>1 DEF ReleaseOwn, p
  <2>6. ReferredMarked'
    BY <2>1 DEF ServiceInv, ReferredMarked, Refers, Marked
  <2>7. ServedKnown'
    BY <2>1, <2>3, ObjectsAssumption DEF ServiceInv, ServedKnown
  <2> QED BY <1>0, <2>4, <2>5, <2>6, <2>7 DEF ServiceInv
<1>4. ASSUME NEW p \in Pools, AdoptPool(m, p) PROVE ServiceInv'
  <2>0. PICK v \in Pool : /\ v = [Live(pools[p]) EXCEPT !.cluster = ClusterOf[m]]
                          /\ PoolBecomes(p, v)
    BY <1>0, <1>4, PoolPatches
  <2>1. /\ \A q \in Pools : q # p => pools'[q] = pools[q]
        /\ Live(pools'[p]).cluster \in Clusters
        /\ machines' = machines /\ node' = node
    BY <1>0, <2>0, Typed, ObjectsAssumption DEF PoolBecomes, Pool
  <2>2. /\ mw.pc = "idle" /\ mw'.pc = "bootstrap" /\ mw'.m = m /\ mw'.pool = p
        /\ mw'.had = Live(machines[m]).poolRef
        /\ Live(machines[m]).providerID = None
    BY <1>0, <1>4 DEF AdoptPool, Provisionable
  <2>3. ~Marked(p)
    <3>1. Seen(pools[p]).cluster = Blank
      BY <1>4 DEF AdoptPool, Candidates, MarkedPools, FreePools
    <3>2. Seen(pools[p]) = Live(pools[p])
      BY <1>0, FreshReads, Typed
    <3> QED BY <3>1, <3>2, ObjectsAssumption DEF Marked
  <2>4. \A n \in Machines : ~Refers(n, p)
    BY <2>2, <2>3 DEF ServiceInv, ReferredMarked
  <2>5. ReferOnce' /\ ReleaseOwn' /\ ServedKnown' /\ AttemptKnown'
    BY <2>1, <2>2 DEF ServiceInv, ReferOnce, Refers, ReleaseOwn, ServedKnown,
                      AttemptKnown
  <2>6. TakenAlone' /\ TakenMarked' /\ ReferredMarked'
    BY <2>1, <2>2, <2>4
       DEF ServiceInv, TakenAlone, TakenMarked, ReferredMarked, Refers, Marked
  <2> QED BY <1>0, <2>5, <2>6 DEF ServiceInv
<1> QED BY <1>1, <1>2, <1>3, <1>4 DEF StartDeletion

(* What a success puts into its machine: the pool and a providerID. *)
LEMMA ServicePublish ==
    ASSUME "api" \notin Faults, ServiceInv, TypeInv', CloseSpec
    PROVE  ServiceInv'
<1> DEFINE live == Live(machines[mw.m])
<1>0. /\ mw \in MachineWorker /\ mw.pc = "closeSpec"
      /\ mw.m \in Machines /\ mw.pool \in Pools /\ live \in Machine
  BY Typed DEF ServiceInv, CloseSpec, CloseSteps
<1>1. PICK ref \in Pools \cup {None}, id \in Pools \cup {None, NoHost} :
        /\ ref = IF mw.pool = mw.had THEN live.poolRef ELSE mw.pool
        /\ id = IF mw.ok THEN ProviderID ELSE live.providerID
        /\ mw.ok => id # None
        /\ MachineBecomes(mw.m, Kept(live,
             [live EXCEPT !.poolRef = ref, !.providerID = id]))
        /\ mw' = IF mw.ok THEN [mw EXCEPT !.pc = "closeStatus"]
                          ELSE MachineIdle
  BY CloseSpecPatch DEF ServiceInv
<1> DEFINE v == Kept(live, [live EXCEPT !.poolRef = ref, !.providerID = id])
<1>2. /\ v.state = live.state
      /\ live.state # "gone" => /\ v.poolRef = mw.pool /\ v.providerID = id
                                /\ live.providerID = None
  <2>1. v.state = live.state BY <1>0 DEF Kept, Machine
  <2>2. ASSUME live.state # "gone"
        PROVE  v.poolRef = mw.pool /\ v.providerID = id /\ live.providerID = None
    <3>1. live.poolRef = mw.had /\ live.providerID = None
      BY <1>0, <2>2 DEF ServiceInv, AttemptKnown
    <3>2. ref = mw.pool BY <1>1, <3>1
    <3> QED BY <1>0, <2>2, <3>1, <3>2 DEF Kept, Machine
  <2> QED BY <2>1, <2>2
<1> HIDE DEF v
<1>3. /\ Live(machines'[mw.m]) = v
      /\ \A n \in Machines : n # mw.m => machines'[n] = machines[n]
      /\ pools' = pools /\ node' = node
  BY <1>1 DEF MachineBecomes, v
<1>4. /\ mw'.pc \in {"idle", "closeStatus"}
      /\ mw'.pc = "closeStatus" => mw'.m = mw.m /\ mw'.pool = mw.pool
  BY <1>0, <1>1 DEF MachineIdle, MachineWorker
<1>5. \A n \in Machines : \A p \in Pools :
         Refers(n, p)' => IF n = mw.m THEN p = mw.pool ELSE Refers(n, p)
  BY <1>2, <1>3 DEF Refers
<1>6. \A n \in Machines : Refers(n, mw.pool) => n = mw.m
  BY <1>0 DEF ServiceInv, TakenAlone, Serving, CloseSteps
<1>7. Marked(mw.pool)
  BY <1>0 DEF ServiceInv, TakenMarked, Serving, CloseSteps
<1>8. ReferOnce'
  BY <1>5, <1>6 DEF ServiceInv, ReferOnce
<1>9. TakenAlone' /\ TakenMarked'
  <2>1. Serving' => mw'.m = mw.m /\ mw'.pool = mw.pool
    BY <1>4 DEF Serving, AdoptionSteps, CloseSteps
  <2>2. TakenAlone' BY <1>3, <1>5, <1>6, <2>1 DEF TakenAlone, Refers
  <2> QED BY <1>3, <1>7, <2>1, <2>2 DEF TakenMarked, Marked
<1>10. ReferredMarked'
  BY <1>0, <1>3, <1>5, <1>7 DEF ServiceInv, ReferredMarked, Marked
<1>11. ReleaseOwn' /\ AttemptKnown'
  BY <1>4 DEF ReleaseOwn, AttemptKnown, AdoptionSteps
<1>12. ServedKnown'
  <2> SUFFICES ASSUME NEW m \in Machines, NEW p \in Pools, node[p].joined = m,
                      Live(machines'[m]).state # "gone"
               PROVE  /\ Live(machines'[m]).poolRef = p
                      /\ Live(machines'[m]).providerID # None
    BY <1>3 DEF ServedKnown
  <2>1. CASE m = mw.m
    <3>1. live.state # "gone" /\ live.providerID = None
      BY <1>2, <1>3, <2>1
    <3>2. mw.ok /\ mw.pool = p
      BY <2>1, <3>1 DEF ServiceInv, ServedKnown
    <3> QED BY <1>1, <1>2, <1>3, <2>1, <3>1, <3>2
  <2>2. CASE m # mw.m
    BY <1>3, <2>2 DEF ServiceInv, ServedKnown
  <2> QED BY <2>1, <2>2
<1> QED BY <1>8, <1>9, <1>10, <1>11, <1>12 DEF ServiceInv

(* Going on with a reconcile. *)
LEMMA ServiceContinue ==
    ASSUME MaxLag = 0, "api" \notin Faults, ServiceInv, ContinueMachine
    PROVE  ServiceInv'
<1>0. /\ TypeInv /\ TypeInv'
      /\ mw \in MachineWorker
      /\ node \in [Pools -> Node]
      /\ mw.pc # "idle" => mw.m \in Machines /\ Live(machines[mw.m]) \in Machine
  BY ContinueTypes, Typed DEF ServiceInv
<1>1. ASSUME mw.pc \in AdoptionSteps, mw'.pc \in AdoptionSteps \cup {"closeSpec"},
             mw'.m = mw.m, mw'.pool = mw.pool, mw'.had = mw.had,
             machines' = machines, pools' = pools,
             \A p \in Pools :
                \/ node'[p].joined = node[p].joined
                \/ /\ p = mw.pool /\ node'[p].joined = mw.m
                   /\ mw'.pc = "closeSpec" /\ mw'.ok
      PROVE  ServiceInv'
  <2>1. ReferOnce' /\ TakenAlone' /\ TakenMarked'
    BY <1>1 DEF ServiceInv, ReferOnce, TakenAlone, TakenMarked, Refers, Serving,
                Marked, AdoptionSteps, CloseSteps
  <2>2. ReferredMarked' /\ ReleaseOwn' /\ AttemptKnown'
    BY <1>1 DEF ServiceInv, ReferredMarked, ReleaseOwn, AttemptKnown, Refers,
                Marked, AdoptionSteps
  <2>3. ServedKnown'
    BY <1>1 DEF ServiceInv, ServedKnown, AdoptionSteps
  <2> QED BY <1>0, <2>1, <2>2, <2>3 DEF ServiceInv
<1>2. CASE NoBootstrapData \/ SkipProvisioning \/ ConnectFails \/ Connect
  BY <1>0, <1>1, <1>2
     DEF NoBootstrapData, SkipProvisioning, ConnectFails, Connect, Goto,
         CloseWith, MachineWorker, AdoptionSteps, objectVars
<1>3. CASE TakePriority \/ CommandsFail \/ CommandsSucceed
  <2>0. mw.pool \in Pools /\ \A p \in Pools : node[p] \in Node
    BY <1>0, <1>3, Typed
       DEF TakePriority, CommandsFail, CommandsSucceed, AdoptionSteps
  <2>1. /\ mw.pc \in AdoptionSteps
        /\ mw'.pc \in AdoptionSteps \cup {"closeSpec"}
        /\ mw'.m = mw.m /\ mw'.pool = mw.pool /\ mw'.had = mw.had
        /\ machines' = machines /\ pools' = pools
    BY <1>0, <1>3
       DEF TakePriority, CommandsFail, CommandsSucceed, Goto, CloseWith,
           MachineWorker, AdoptionSteps, stores
  <2>2. CASE TakePriority \/ CommandsFail
    <3>1. \A p \in Pools : node'[p].joined = node[p].joined
      <4>1. CASE TakePriority
        BY <1>0, <2>0, <4>1 DEF TakePriority, Node
      <4>2. CASE CommandsFail
        BY <1>0, <2>0, <4>2 DEF CommandsFail, Node
      <4> QED BY <2>2, <4>1, <4>2
    <3> QED BY <1>1, <2>1, <3>1
  <2>3. CASE CommandsSucceed
    <3>1. \A p \in Pools : \/ node'[p].joined = node[p].joined
                           \/ p = mw.pool /\ node'[p].joined = mw.m
      BY <1>0, <2>3 DEF CommandsSucceed, Node
    <3>2. mw'.pc = "closeSpec" /\ mw'.ok
      BY <1>0, <2>3 DEF CommandsSucceed, CloseWith, MachineWorker
    <3> QED BY <1>1, <2>1, <3>1, <3>2
  <2> QED BY <1>3, <2>2, <2>3
<1>4. CASE CloseSpec
  BY <1>0, <1>4, ServicePublish
<1>5. CASE CloseStatus
  <2> DEFINE live == Live(machines[mw.m])
             v == Kept(live, [live EXCEPT !.ready = TRUE])
  <2>1. mw.pc = "closeStatus" BY <1>5 DEF CloseStatus
  <2>2. MachineBecomes(mw.m, v) /\ mw' = MachineIdle
    BY <1>0, <1>5, MachinePatches
  <2>3. /\ v \in Machine /\ v.poolRef = live.poolRef
        /\ v.providerID = live.providerID /\ v.state = live.state
    BY <1>0, <2>1, MachineVersions DEF Kept, Machine
  <2> HIDE DEF v
  <2> QED BY <1>0, <2>1, <2>2, <2>3, ServiceMachine
<1>6. CASE RemoveFinalizer
  <2> DEFINE live == Live(machines[mw.m])
             v == Kept(live, Gone(live))
  <2>1. mw.pc = "removeFinalizer" BY <1>6 DEF RemoveFinalizer
  <2>2. MachineBecomes(mw.m, v) /\ mw' = MachineIdle
    BY <1>0, <1>6, MachinePatches
  <2>3. /\ v \in Machine /\ v.poolRef = live.poolRef
        /\ v.providerID = live.providerID /\ v.state = "gone"
    BY <1>0, <2>1, MachineVersions DEF Kept, Gone, Machine
  <2> HIDE DEF v
  <2> QED BY <1>0, <2>1, <2>2, <2>3, ServiceMachine
<1>7. CASE ReleasePool
  <2>1. /\ mw.pc = "release" /\ mw'.pc = "removeFinalizer" /\ mw'.m = mw.m
        /\ machines' = machines /\ node' = node
    BY <1>0, <1>7 DEF ReleasePool, Goto, MachineWorker
  <2>2. \A p \in Pools : p # mw.pool => pools'[p] = pools[p]
    BY <1>0, <1>7, PoolPatches DEF PoolBecomes
  <2>3. \A n \in Machines : Refers(n, mw.pool) => n = mw.m
    BY <1>0, <2>1, Typed DEF ServiceInv, ReferOnce, ReleaseOwn, Refers
  <2>4. ReferOnce' /\ TakenAlone' /\ TakenMarked' /\ ReleaseOwn' /\ AttemptKnown'
    BY <2>1 DEF ServiceInv, ReferOnce, Refers, TakenAlone, TakenMarked,
                ReleaseOwn, AttemptKnown, Serving, AdoptionSteps, CloseSteps
  <2>5. ReferredMarked'
    BY <2>1, <2>2, <2>3 DEF ServiceInv, ReferredMarked, Refers, Marked
  <2>6. ServedKnown'
    BY <2>1 DEF ServiceInv, ServedKnown
  <2> QED BY <1>0, <2>4, <2>5, <2>6 DEF ServiceInv
<1> QED BY <1>2, <1>3, <1>4, <1>5, <1>6, <1>7 DEF ContinueMachine

(* What the environment does. *)
LEMMA ServiceEnvironment ==
    ASSUME "api" \notin Faults, ServiceInv, MachineEnvironment, UNCHANGED mw
    PROVE  ServiceInv'
<1>0. TypeInv /\ TypeInv' BY EnvironmentTypes DEF ServiceInv
<1>1. ASSUME NEW m \in Machines, DeleteMachine(m) PROVE ServiceInv'
  <2> DEFINE live == Live(machines[m])
             v == Deleted(live)
  <2>1. MachineBecomes(m, v) BY <1>0, <1>1, MachinePatches
  <2>2. live \in Machine /\ live.state = "live" /\ v \in Machine
    BY <1>0, <1>1, Typed, MachineVersions DEF DeleteMachine
  <2>3. v.poolRef = live.poolRef /\ v.providerID = live.providerID
    BY <2>2 DEF Deleted, Gone, Machine
  <2> HIDE DEF v
  <2> QED BY <1>0, <2>1, <2>2, <2>3, ServiceMachine
<1>2. ASSUME Deliver PROVE ServiceInv'
  <2>1. \A m \in Machines : Live(machines'[m]) = Live(machines[m])
    BY <1>0, <1>2, Typed, DeliverLive
       DEF Deliver, DeliverMachine, DeliverPool, DeliverIP, DeliverCluster
  <2>2. \A p \in Pools : Live(pools'[p]) = Live(pools[p])
    BY <1>0, <1>2, Typed, DeliverLive
       DEF Deliver, DeliverMachine, DeliverPool, DeliverIP, DeliverCluster
  <2>3. node' = node
    BY <1>2 DEF Deliver, DeliverMachine, DeliverPool, DeliverIP, DeliverCluster
  <2> QED BY <1>0, <2>1, <2>2, <2>3, ServiceSame DEF Marked
<1>3. ASSUME NEW m \in Machines, StartProvisioning(m) PROVE ServiceInv'
  BY <1>0, <1>3, ServiceSame DEF StartProvisioning, stores, Marked
<1> QED BY <1>1, <1>2, <1>3 DEF MachineEnvironment

(* A machine starts without a pool. *)
LEMMA ServiceFresh ==
    ASSUME TypeInv, mw = MachineIdle,
           \A m \in Machines : Live(machines[m]) = NewMachine,
           \A p \in Pools : node[p] = CleanedNode
    PROVE  ServiceInv
<1>1. /\ \A m \in Machines : \A p \in Pools : ~Refers(m, p)
      /\ \A m \in Machines : \A p \in Pools : node[p].joined # m
      /\ mw.pc = "idle"
  BY ObjectsAssumption DEF Refers, NewMachine, CleanedNode, MachineIdle
<1>2. ReferOnce /\ TakenAlone /\ ReferredMarked /\ TakenMarked
  BY <1>1 DEF ReferOnce, TakenAlone, ReferredMarked, TakenMarked, Serving,
              AdoptionSteps, CloseSteps
<1>3. ReleaseOwn /\ ServedKnown /\ AttemptKnown
  BY <1>1 DEF ReleaseOwn, ServedKnown, AttemptKnown, AdoptionSteps
<1> QED BY <1>2, <1>3 DEF ServiceInv

(* The machines of MachineSpec start without a pool. *)
LEMMA ServiceInit == MachineInit => ServiceInv
<1> SUFFICES ASSUME MachineInit PROVE ServiceInv
  OBVIOUS
<1>1. /\ \A m \in Machines : Live(machines[m]) = NewMachine
      /\ \A p \in Pools : node[p] = CleanedNode
      /\ mw = MachineIdle
  BY DEF MachineInit, Live
<1> QED BY <1>1, TypeInit, ServiceFresh

(* Every step keeps the invariant, if no restart comes between freeing a   *)
(* pool and removing the finalizer.                                        *)
LEMMA ServiceNext ==
    ASSUME MaxLag = 0, "api" \notin Faults, "crash" \notin Faults
    PROVE  ServiceInv /\ [MachineNext]_machineVars => ServiceInv'
<1> SUFFICES ASSUME ServiceInv, [MachineNext]_machineVars PROVE ServiceInv'
  OBVIOUS
<1>0. TypeInv' BY TypeNext DEF ServiceInv
<1>1. CASE MachineStep
  BY <1>1, ServiceStart, ServiceContinue DEF MachineStep
<1>2. CASE MachineEnvironment /\ UNCHANGED mw
  BY <1>2, ServiceEnvironment
<1>3. CASE MachineCrash
  BY <1>3 DEF MachineCrash, Restart
<1>4. CASE UNCHANGED machineVars
  BY <1>0, <1>4, ServiceSame DEF machineVars, objectVars, Marked
<1> QED BY <1>1, <1>2, <1>3, <1>4 DEF MachineNext

(* With fresh reads, answered patches and no restart, no two machines have *)
(* the same pool, whatever SSH sessions and resets fail.                   *)
THEOREM PoolsAreExclusive ==
    ASSUME MaxLag = 0, "api" \notin Faults, "crash" \notin Faults
    PROVE  MachineSpec => []ExclusiveAdoption
<1>1. MachineInit => ServiceInv BY ServiceInit
<1>2. ServiceInv /\ [MachineNext]_machineVars => ServiceInv' BY ServiceNext
<1>3. ServiceInv => ExclusiveAdoption BY ServiceExclusive
<1> QED BY <1>1, <1>2, <1>3, PTL DEF MachineSpec

(* A node that serves a live machine: the steps that change it are the     *)
(* success of another machine's attempt, and the cleaning of the node of a *)
(* deleted machine.                                                        *)
LEMMA ServingStep ==
    ASSUME MaxLag = 0, "api" \notin Faults, ServiceInv,
           MachineStep \/ node' = node,
           NEW p \in Pools, NEW m \in Machines,
           node[p].joined = m, node'[p].joined # m
    PROVE  Live(machines[m]).state # "live"
<1> SUFFICES ASSUME Live(machines[m]).state = "live" PROVE FALSE
  OBVIOUS
<1>0. /\ TypeInv /\ node \in [Pools -> Node] /\ MachineStep
      /\ mw \in MachineWorker
  BY Typed DEF ServiceInv
<1>1. CASE TakePriority \/ CommandsFail \/ CommandsSucceed
  <2>1. mw.pool \in Pools /\ mw.pc \in AdoptionSteps
    BY <1>0, <1>1, Typed
       DEF TakePriority, CommandsFail, CommandsSucceed, AdoptionSteps
  <2>2. p = mw.pool /\ m # mw.m
    <3>1. \A q \in Pools : node[q] \in Node
      BY <1>0
    <3>2. CASE TakePriority
      BY <1>0, <2>1, <3>1, <3>2 DEF TakePriority, Node
    <3>3. CASE CommandsFail
      BY <1>0, <2>1, <3>1, <3>3 DEF CommandsFail, Node
    <3>4. CASE CommandsSucceed
      BY <1>0, <2>1, <3>1, <3>4 DEF CommandsSucceed, Node
    <3> QED BY <1>1, <3>2, <3>3, <3>4
  <2>3. Refers(m, p)
    BY <2>1 DEF ServiceInv, ServedKnown, Refers, AdoptionSteps
  <2> QED BY <2>1, <2>2, <2>3 DEF ServiceInv, TakenAlone, Serving
<1>2. ASSUME NEW n \in Machines, CleanNode(n) PROVE FALSE
  <2>1. /\ mw.pc = "idle" /\ Live(machines[n]).state = "deleting"
        /\ p = Live(machines[n]).poolRef
    BY <1>0, <1>2, Typed, FreshReads DEF CleanNode, Deleting
  <2>2. Refers(m, p)
    BY <2>1 DEF ServiceInv, ServedKnown, Refers
  <2> QED BY <2>1, <2>2 DEF ServiceInv, ReferOnce, Refers
<1>3. CASE node' = node
  BY <1>3
<1>4. MachineStep =>
        \/ TakePriority \/ CommandsFail \/ CommandsSucceed
        \/ \E n \in Machines : CleanNode(n)
        \/ node' = node
  BY DEF MachineStep, ContinueMachine, StartDeletion, AddFinalizer, LeaveNode,
         AdoptPool, NoBootstrapData, SkipProvisioning, ConnectFails, Connect,
         CloseSpec, CloseStatus, ReleasePool, RemoveFinalizer, objectVars
<1> QED BY <1>0, <1>1, <1>2, <1>3, <1>4

(* Under the same assumptions the node that serves a machine is neither    *)
(* cleaned nor given to another one before the machine's deletion begins.  *)
THEOREM ServingNodesStay ==
    ASSUME MaxLag = 0, "api" \notin Faults, "crash" \notin Faults
    PROVE  MachineSpec => ServingNodeKept
<1> DEFINE A == \A p \in Pools : \A m \in Machines :
                   node[p].joined = m /\ node'[p].joined # m =>
                       Live(machines[m]).state # "live"
<1>1. MachineInit => ServiceInv BY ServiceInit
<1>2. ServiceInv /\ [MachineNext]_machineVars => ServiceInv' BY ServiceNext
<1>3. ServiceInv /\ [MachineNext]_machineVars => [A]_machineVars
  <2> SUFFICES ASSUME ServiceInv, MachineNext PROVE A
    OBVIOUS
  <2>1. MachineStep \/ node' = node
    BY DEF MachineNext, MachineEnvironment, MachineCrash, Restart, Deliver,
           StartProvisioning, DeleteMachine, DeliverMachine, DeliverPool,
           DeliverIP, DeliverCluster
  <2> QED BY <2>1, ServingStep
<1> QED BY <1>1, <1>2, <1>3, PTL DEF MachineSpec, ServingNodeKept

-----------------------------------------------------------------------------
(* What may change in a machine, whatever lags and whatever fails: only    *)
(* the first patch of Close writes the reference to the pool and, after a  *)
(* success, the providerID; a machine is not revived, and one that has a   *)
(* finalizer goes when the worker removes it.                              *)
LEMMA ReferenceChanges ==
    ASSUME TypeInv, NEW n \in Machines,
           MachineStep \/ MachineEnvironment \/ Restart
             \/ \E c \in Clusters : DeleteCluster(c)
    PROVE  LET old == Live(machines[n])
               new == Live(machines'[n])
           IN  /\ old.state = "gone" => new.state = "gone"
               /\ new.state = "live" => old.state = "live"
               /\ \/ new.poolRef = old.poolRef /\ new.providerID = old.providerID
                  \/ CloseSpec /\ n = mw.m /\ old.state # "gone"
               /\ new.providerID # old.providerID => mw.ok
               /\ \/ RemoveFinalizer /\ n = mw.m
                  \/ old.finalizer /\ old.state # "gone" =>
                        new.finalizer /\ new.state # "gone"
<1> DEFINE old == Live(machines[n])
           new == Live(machines'[n])
           Goal == /\ old.state = "gone" => new.state = "gone"
                   /\ new.state = "live" => old.state = "live"
                   /\ \/ /\ new.poolRef = old.poolRef
                         /\ new.providerID = old.providerID
                      \/ CloseSpec /\ n = mw.m /\ old.state # "gone"
                   /\ new.providerID # old.providerID => mw.ok
                   /\ \/ RemoveFinalizer /\ n = mw.m
                      \/ old.finalizer /\ old.state # "gone" =>
                            new.finalizer /\ new.state # "gone"
<1>0. /\ machines \in [Machines -> Log(Machine)]
      /\ \A m \in Machines : Live(machines[m]) \in Machine
      /\ mw.pc # "idle" => mw.m \in Machines
  BY Typed
<1>1. ASSUME NEW k \in Machines, NEW v \in Machine,
             machines' \in Patched(machines, k, v)
      PROVE  new = old \/ (n = k /\ new = v)
  BY <1>0, <1>1, PatchedStore, PushLive
<1>2. ASSUME NEW m \in Machines, AddFinalizer(m) PROVE Goal
  <2> DEFINE live == Live(machines[m])
             v == Kept(live, [live EXCEPT !.finalizer = TRUE])
  <2>1. v \in Machine /\ machines' \in Patched(machines, m, v)
    BY <1>0, <1>2, MachineVersions DEF AddFinalizer
  <2>2. /\ v.state = live.state /\ v.poolRef = live.poolRef
        /\ v.providerID = live.providerID /\ (live.finalizer => v.finalizer)
    BY <1>0 DEF Kept, Machine
  <2> HIDE DEF v
  <2> QED BY <1>1, <2>1, <2>2
<1>3. ASSUME CloseStatus PROVE Goal
  <2> DEFINE live == Live(machines[mw.m])
             v == Kept(live, [live EXCEPT !.ready = TRUE])
  <2>1. /\ mw.m \in Machines /\ live \in Machine
        /\ v \in Machine /\ machines' \in Patched(machines, mw.m, v)
    BY <1>0, <1>3, MachineVersions DEF CloseStatus
  <2>2. /\ v.state = live.state /\ v.poolRef = live.poolRef
        /\ v.providerID = live.providerID /\ (live.finalizer => v.finalizer)
    BY <2>1 DEF Kept, Machine
  <2> HIDE DEF v
  <2> QED BY <1>1, <2>1, <2>2
<1>4. ASSUME RemoveFinalizer PROVE Goal
  <2> DEFINE live == Live(machines[mw.m])
             v == Kept(live, Gone(live))
  <2>1. /\ mw.m \in Machines /\ live \in Machine
        /\ v \in Machine /\ machines' \in Patched(machines, mw.m, v)
    BY <1>0, <1>4, MachineVersions DEF RemoveFinalizer
  <2>2. /\ v.state = "gone" /\ v.poolRef = live.poolRef
        /\ v.providerID = live.providerID
    BY <2>1 DEF Kept, Gone, Machine
  <2> HIDE DEF v
  <2> QED BY <1>1, <1>4, <2>1, <2>2
<1>5. ASSUME CloseSpec PROVE Goal
  <2> DEFINE live == Live(machines[mw.m])
             ref == IF mw.pool = mw.had THEN live.poolRef ELSE mw.pool
             id == IF mw.ok THEN ProviderID ELSE live.providerID
             v == Kept(live, [live EXCEPT !.poolRef = ref, !.providerID = id])
  <2>1. mw.m \in Machines /\ mw.pool \in Pools /\ live \in Machine
    BY <1>5, Typed DEF CloseSpec, CloseSteps
  <2>2. ref \in Pools \cup {None} /\ id \in Pools \cup {None, NoHost}
    BY <2>1 DEF ProviderID, Machine
  <2>3. v \in Machine /\ machines' \in Patched(machines, mw.m, v)
    BY <1>5, <2>1, <2>2, MachineVersions DEF CloseSpec
  <2>4. /\ v.state = live.state /\ v.finalizer = live.finalizer
        /\ live.state = "gone" => v = live
        /\ v.providerID # live.providerID => mw.ok
    BY <2>1 DEF Kept, Machine
  <2> HIDE DEF v
  <2> QED BY <1>1, <1>5, <2>1, <2>3, <2>4
<1>6. ASSUME NEW m \in Machines, DeleteMachine(m) PROVE Goal
  <2> DEFINE live == Live(machines[m])
             v == Deleted(live)
  <2>1. /\ v \in Machine /\ live.state = "live"
        /\ machines' \in Patched(machines, m, v)
    BY <1>0, <1>6, MachineVersions DEF DeleteMachine, Patched
  <2>2. /\ v.poolRef = live.poolRef /\ v.providerID = live.providerID
        /\ live.finalizer => v.finalizer /\ v.state # "gone"
    BY <1>0 DEF Deleted, Gone, Machine
  <2> HIDE DEF v
  <2> QED BY <1>1, <2>1, <2>2
<1>7. ASSUME NEW m \in Machines, DeliverMachine(m) PROVE Goal
  <2>1. new = old BY <1>0, <1>7, DeliverLive DEF DeliverMachine
  <2> QED BY <2>1
<1>8. ASSUME Restart PROVE Goal
  <2>1. new = old BY <1>0, <1>8, RelistedStore DEF Restart
  <2> QED BY <2>1
<1>9. ASSUME machines' = machines PROVE Goal
  BY <1>9
<1>10. MachineStep =>
         \/ machines' = machines
         \/ \E m \in Machines : AddFinalizer(m)
         \/ CloseSpec \/ CloseStatus \/ RemoveFinalizer
  BY DEF MachineStep, ContinueMachine, StartDeletion, LeaveNode, CleanNode,
         AdoptPool, NoBootstrapData, SkipProvisioning, ConnectFails, Connect,
         TakePriority, CommandsFail, CommandsSucceed, ReleasePool, objectVars,
         stores
<1>11. MachineEnvironment =>
         \/ machines' = machines
         \/ \E m \in Machines : DeleteMachine(m) \/ DeliverMachine(m)
  BY DEF MachineEnvironment, Deliver, StartProvisioning, DeliverPool, DeliverIP,
         DeliverCluster, stores
<1>12. ASSUME NEW c \in Clusters, DeleteCluster(c) PROVE machines' = machines
  BY <1>12 DEF DeleteCluster
<1> HIDE DEF Goal
<1>13. Goal
  BY <1>2, <1>3, <1>4, <1>5, <1>6, <1>7, <1>8, <1>9, <1>10, <1>11, <1>12
<1> QED BY <1>13 DEF Goal

(* While an attempt runs its machine has no providerID, whatever fails:    *)
(* with fresh reads the one that has is not provisioned again.             *)
FirstIdentity ==
    mw.pc \in AdoptionSteps \cup {"closeSpec"} =>
        \/ Live(machines[mw.m]).state = "gone"
        \/ Live(machines[mw.m]).providerID = None

(* The worker takes up a machine without a providerID, and publishes last. *)
LEMMA FirstIdentityStep ==
    ASSUME MaxLag = 0, TypeInv, FirstIdentity, MachineStep
    PROVE  FirstIdentity'
<1> SUFFICES ASSUME mw'.pc \in AdoptionSteps \cup {"closeSpec"}
             PROVE  \/ Live(machines'[mw'.m]).state = "gone"
                    \/ Live(machines'[mw'.m]).providerID = None
  BY DEF FirstIdentity
<1>0. mw \in MachineWorker /\ (mw.pc # "idle" => mw.m \in Machines)
  BY Typed
<1>1. ASSUME NEW m \in Machines, NEW p \in Pools, AdoptPool(m, p)
      PROVE  Live(machines'[mw'.m]).providerID = None
  BY <1>1, FreshReads, Typed DEF AdoptPool, Provisionable
<1>2. CASE \/ NoBootstrapData \/ SkipProvisioning \/ ConnectFails \/ Connect
           \/ TakePriority \/ CommandsFail \/ CommandsSucceed
  <2>1. /\ mw.pc \in AdoptionSteps \cup {"closeSpec"} /\ mw'.m = mw.m
        /\ machines' = machines
    BY <1>0, <1>2
       DEF NoBootstrapData, SkipProvisioning, ConnectFails, Connect,
           TakePriority, CommandsFail, CommandsSucceed, Goto, CloseWith,
           MachineWorker, AdoptionSteps, objectVars, stores
  <2> QED BY <2>1 DEF FirstIdentity
<1>3. MachineStep =>
        \/ \E m \in Machines, p \in Pools : AdoptPool(m, p)
        \/ NoBootstrapData \/ SkipProvisioning \/ ConnectFails \/ Connect
        \/ TakePriority \/ CommandsFail \/ CommandsSucceed
        \/ mw'.pc \in {"idle", "closeStatus", "release", "removeFinalizer"}
  <2>1. ASSUME NEW m \in Machines, AddFinalizer(m) \/ StartDeletion(m)
        PROVE  mw'.pc \in {"idle", "release", "removeFinalizer"}
    BY <2>1 DEF AddFinalizer, StartDeletion, LeaveNode, CleanNode, MachineIdle
  <2>2. CASE CloseSpec \/ CloseStatus \/ ReleasePool \/ RemoveFinalizer
    BY <1>0, <2>2 DEF CloseSpec, CloseStatus, ReleasePool, RemoveFinalizer, Goto,
                      MachineIdle, MachineWorker
  <2> QED BY <2>1, <2>2 DEF MachineStep, ContinueMachine
<1> QED BY <1>1, <1>2, <1>3 DEF AdoptionSteps

(* No one else writes a providerID. *)
LEMMA FirstIdentityOthers ==
    ASSUME TypeInv, FirstIdentity,
           \/ MachineEnvironment \/ Restart
           \/ \E c \in Clusters : DeleteCluster(c)
           \/ machines' = machines,
           mw' = mw \/ mw' = MachineIdle
    PROVE  FirstIdentity'
<1>1. mw \in MachineWorker /\ (mw.pc # "idle" => mw.m \in Machines)
  BY Typed
<1>2. CASE mw' = MachineIdle
  BY <1>2 DEF FirstIdentity, MachineIdle, AdoptionSteps
<1>3. CASE mw' = mw
  <2>1. ~CloseSpec
    BY <1>1, <1>3 DEF CloseSpec, Goto, MachineIdle, MachineWorker
  <2>2. \A n \in Machines :
           /\ Live(machines[n]).state = "gone" => Live(machines'[n]).state = "gone"
           /\ Live(machines'[n]).providerID = Live(machines[n]).providerID
    BY <2>1, ReferenceChanges
  <2> QED BY <1>1, <1>3, <2>2 DEF FirstIdentity, AdoptionSteps
<1> QED BY <1>2, <1>3

(* So a providerID that is there is not written again. *)
LEMMA IdentityStays ==
    ASSUME TypeInv, FirstIdentity, NEW m \in Machines,
           \/ MachineStep \/ MachineEnvironment \/ Restart
           \/ \E c \in Clusters : DeleteCluster(c)
           \/ machines' = machines,
           Live(machines[m]).providerID # None
    PROVE  Live(machines'[m]).providerID = Live(machines[m]).providerID
<1>1. CASE machines' = machines
  BY <1>1
<1>2. CASE CloseSpec /\ m = mw.m /\ Live(machines[m]).state # "gone"
  BY <1>2 DEF CloseSpec, FirstIdentity
<1> QED BY <1>1, <1>2, ReferenceChanges

(* With fresh reads the providerID of a machine is written once, whatever  *)
(* fails: patches, SSH sessions, resets, the manager itself.               *)
THEOREM IdentitiesStable ==
    ASSUME MaxLag = 0
    PROVE  MachineSpec => IdentityStable
<1> DEFINE Inv == TypeInv /\ FirstIdentity
           A == \A m \in Machines :
                   Live(machines[m]).providerID # None =>
                     Live(machines[m])'.providerID = Live(machines[m]).providerID
<1>1. MachineInit => Inv
  BY TypeInit DEF MachineInit, MachineIdle, FirstIdentity, AdoptionSteps
<1>2. Inv /\ [MachineNext]_machineVars => Inv'
  <2> SUFFICES ASSUME Inv, [MachineNext]_machineVars PROVE Inv'
    OBVIOUS
  <2>0. TypeInv' BY TypeNext
  <2>1. CASE MachineStep
    BY <2>0, <2>1, FirstIdentityStep
  <2>2. CASE MachineEnvironment /\ UNCHANGED mw
    BY <2>0, <2>2, FirstIdentityOthers
  <2>3. CASE MachineCrash
    BY <2>0, <2>3, FirstIdentityOthers DEF MachineCrash
  <2>4. CASE UNCHANGED machineVars
    BY <2>0, <2>4, FirstIdentityOthers DEF machineVars, objectVars
  <2> QED BY <2>1, <2>2, <2>3, <2>4 DEF MachineNext
<1>3. Inv /\ [MachineNext]_machineVars => [A]_machineVars
  BY IdentityStays DEF MachineNext, MachineCrash
<1> QED BY <1>1, <1>2, <1>3, PTL DEF MachineSpec, IdentityStable

-----------------------------------------------------------------------------
(* Why a ready machine has been joined.  Ready means identified; and       *)
(* identified, that the node of the machine's pool has run its bootstrap   *)
(* command: the worker publishes the identity only after a success.        *)
PoolsKnown == /\ \A p \in Pools : Live(pools[p]).os = "supported"
              /\ mw.pc = "bootstrap" => mw.snap.os = "supported"

IdentifiedJoined ==
    \A m \in Machines :
        LET live == Live(machines[m])
        IN  live.state = "live" /\ live.providerID # None =>
                live.poolRef \in Pools /\ node[live.poolRef].joined = m

SuccessJoined == mw.pc = "closeSpec" /\ mw.ok => node[mw.pool].joined = mw.m

JoinedInv == /\ ServiceInv /\ IdentityInv
             /\ PoolsKnown /\ IdentifiedJoined /\ SuccessJoined

(* A pool whose probe has ended keeps its OS, and attempts read it.        *)
LEMMA KnownNext ==
    ASSUME MaxLag = 0, "api" \notin Faults, "crash" \notin Faults,
           TypeInv, PoolsKnown, [MachineNext]_machineVars
    PROVE  PoolsKnown'
<1>0. mw \in MachineWorker BY Typed
<1>1. ASSUME NEW m \in Machines, NEW p \in Pools, AdoptPool(m, p)
      PROVE  PoolsKnown'
  <2>1. PICK v \in Pool : /\ v = [Live(pools[p]) EXCEPT !.cluster = ClusterOf[m]]
                          /\ PoolBecomes(p, v)
    BY <1>1, PoolPatches
  <2>2. v.os = "supported"
    BY <2>1, Typed DEF PoolsKnown, Pool
  <2>3. Seen(pools[p]) = Live(pools[p]) BY FreshReads, Typed
  <2>4. mw'.snap = Seen(pools[p]) BY <1>1 DEF AdoptPool
  <2> QED BY ZenonT(30), <2>1, <2>2, <2>3, <2>4 DEF PoolsKnown, PoolBecomes
<1>2. CASE ReleasePool
  <2>1. PICK v \in Pool : /\ PoolBecomes(mw.pool, v)
                          /\ v.os = Live(pools[mw.pool]).os
    BY <1>2, PoolPatches
  <2>2. mw.pool \in Pools /\ mw'.pc # "bootstrap"
    BY <1>0, <1>2, Typed DEF ReleasePool, Goto, MachineWorker
  <2> QED BY <2>1, <2>2 DEF PoolsKnown, PoolBecomes
<1>3. CASE Deliver /\ UNCHANGED mw
  <2>1. \A p \in Pools : Live(pools'[p]) = Live(pools[p])
    BY <1>3, Typed, DeliverLive
       DEF Deliver, DeliverMachine, DeliverPool, DeliverIP, DeliverCluster
  <2> QED BY <1>3, <2>1 DEF PoolsKnown
<1>4. CASE pools' = pools /\ (mw' = mw \/ mw'.pc # "bootstrap")
  BY <1>4 DEF PoolsKnown
<1>5. ASSUME NEW m \in Machines, AddFinalizer(m) \/ StartDeletion(m)
      PROVE  pools' = pools /\ (mw' = mw \/ mw'.pc # "bootstrap")
  BY <1>5 DEF AddFinalizer, StartDeletion, LeaveNode, CleanNode, MachineIdle,
              objectVars, stores
<1>6. CASE \/ NoBootstrapData \/ SkipProvisioning \/ ConnectFails \/ Connect
           \/ TakePriority \/ CommandsFail \/ CommandsSucceed
           \/ CloseSpec \/ CloseStatus \/ RemoveFinalizer
  <2>1. pools' = pools
    BY <1>6
       DEF NoBootstrapData, SkipProvisioning, ConnectFails, Connect,
           TakePriority, CommandsFail, CommandsSucceed, CloseSpec, CloseStatus,
           RemoveFinalizer, objectVars, stores
  <2>2. CASE CloseSpec \/ CloseStatus \/ RemoveFinalizer
    <3>1. mw'.pc # "bootstrap"
      BY <1>0, <2>2 DEF CloseSpec, CloseStatus, RemoveFinalizer, Goto,
                        MachineIdle, MachineWorker
    <3> QED BY <1>4, <2>1, <3>1
  <2>3. CASE \/ NoBootstrapData \/ SkipProvisioning \/ ConnectFails \/ Connect
             \/ TakePriority \/ CommandsFail \/ CommandsSucceed
    <3>1. mw'.pc # "bootstrap"
      BY <1>0, <2>3 DEF NoBootstrapData, SkipProvisioning, ConnectFails, Connect,
           TakePriority, CommandsFail, CommandsSucceed, Goto, CloseWith,
           MachineWorker
    <3> QED BY <1>4, <2>1, <3>1
  <2> QED BY <1>6, <2>2, <2>3
<1>7. CASE MachineStep
  BY <1>1, <1>2, <1>4, <1>5, <1>6, <1>7 DEF MachineStep, ContinueMachine
<1>8. CASE MachineEnvironment /\ UNCHANGED mw
  BY <1>3, <1>4, <1>8
     DEF MachineEnvironment, StartProvisioning, DeleteMachine, stores
<1>9. CASE MachineCrash
  BY <1>9 DEF MachineCrash, Restart
<1>10. CASE UNCHANGED machineVars
  BY <1>4, <1>10 DEF machineVars, objectVars
<1> QED BY <1>7, <1>8, <1>9, <1>10 DEF MachineNext

(* Every step keeps the invariant. *)
LEMMA JoinedNext ==
    ASSUME MaxLag = 0, "api" \notin Faults, "crash" \notin Faults,
           JoinedInv, [MachineNext]_machineVars
    PROVE  JoinedInv'
<1>0. /\ ServiceInv /\ ServiceInv' /\ IdentityInv' /\ PoolsKnown'
      /\ TypeInv /\ TypeInv'
      /\ mw \in MachineWorker /\ node \in [Pools -> Node]
  BY ServiceNext, IdentityNext, KnownNext, Typed DEF JoinedInv, ServiceInv
<1>1. MachineStep \/ node' = node
  BY DEF MachineNext, MachineEnvironment, MachineCrash, Restart, Deliver,
         StartProvisioning, DeleteMachine, DeliverMachine, DeliverPool,
         DeliverIP, DeliverCluster, machineVars, objectVars
<1>2. IdentifiedJoined'
  <2> SUFFICES ASSUME NEW m \in Machines,
                      Live(machines'[m]).state = "live",
                      Live(machines'[m]).providerID # None
               PROVE  /\ Live(machines'[m]).poolRef \in Pools
                      /\ node'[Live(machines'[m]).poolRef].joined = m
    BY DEF IdentifiedJoined
  <2> DEFINE old == Live(machines[m])
             new == Live(machines'[m])
  <2>1. /\ old.state = "live"
        /\ \/ new.poolRef = old.poolRef /\ new.providerID = old.providerID
           \/ CloseSpec /\ m = mw.m
        /\ new.providerID # old.providerID => mw.ok
    <3>1. CASE UNCHANGED machineVars
      BY <3>1 DEF machineVars, objectVars
    <3>2. CASE MachineNext
      BY <1>0, <3>2, ReferenceChanges DEF MachineNext, MachineCrash
    <3> QED BY <3>1, <3>2
  <2>2. CASE new.poolRef = old.poolRef /\ new.providerID = old.providerID
    <3>1. old.poolRef \in Pools /\ node[old.poolRef].joined = m
      BY <2>1, <2>2 DEF JoinedInv, IdentifiedJoined
    <3>2. node'[old.poolRef].joined = m
      BY <1>0, <1>1, <2>1, <3>1, ServingStep
    <3> QED BY <2>2, <3>1, <3>2
  <2>3. CASE CloseSpec /\ m = mw.m /\ new.providerID # old.providerID
    <3>1. /\ mw.pc = "closeSpec" /\ mw.ok /\ mw.pool \in Pools
          /\ mw'.pc # "closeSpec" /\ node' = node
      BY <1>0, <2>1, <2>3, Typed
         DEF CloseSpec, Goto, MachineIdle, MachineWorker, CloseSteps
    <3>2. node'[mw.pool].joined = m
      BY <2>3, <3>1 DEF JoinedInv, SuccessJoined
    <3>3. new.poolRef = mw.pool
      BY <1>0, <3>1, <3>2 DEF ServiceInv, ServedKnown
    <3> QED BY <3>1, <3>2, <3>3
  <2>4. CASE CloseSpec /\ m = mw.m /\ new.providerID = old.providerID
    BY <1>0, <2>1, <2>4 DEF CloseSpec, ServiceInv, AttemptKnown
  <2> QED BY <2>1, <2>2, <2>3, <2>4
<1>3. SuccessJoined'
  <2> SUFFICES ASSUME mw'.pc = "closeSpec", mw'.ok
               PROVE  node'[mw'.pool].joined = mw'.m
    BY DEF SuccessJoined
  <2>1. CASE CommandsSucceed
    <3>1. mw.pool \in Pools /\ mw.m \in Machines /\ node[mw.pool] \in Node
      BY <1>0, <2>1, Typed DEF CommandsSucceed, AdoptionSteps
    <3>2. mw'.pool = mw.pool /\ mw'.m = mw.m
      BY <1>0, <2>1 DEF CommandsSucceed, CloseWith, MachineWorker
    <3> QED BY <1>0, <2>1, <3>1, <3>2 DEF CommandsSucceed, Node
  <2>2. CASE mw' = mw /\ node' = node
    BY <2>2 DEF JoinedInv, SuccessJoined
  <2>3. CASE MachineStep
    <3>1. \A m \in Machines : ~StartDeletion(m)
      BY DEF StartDeletion, LeaveNode, CleanNode, MachineIdle
    <3>2. \A m \in Machines, p \in Pools : ~AdoptPool(m, p)
      BY DEF AdoptPool
    <3>3. \A m \in Machines : AddFinalizer(m) => mw' = mw /\ node' = node
      BY DEF AddFinalizer
    <3>4. ~SkipProvisioning
      BY DEF JoinedInv, PoolsKnown, SkipProvisioning
    <3>5. ~NoBootstrapData /\ ~ConnectFails /\ ~Connect
      BY <1>0 DEF NoBootstrapData, ConnectFails, Connect, Goto, CloseWith,
                  MachineWorker
    <3>6. ~TakePriority /\ ~CommandsFail /\ ~ReleasePool
      BY <1>0 DEF TakePriority, CommandsFail, ReleasePool, Goto, CloseWith,
                  MachineWorker
    <3>7. ~CloseSpec /\ ~CloseStatus /\ ~RemoveFinalizer
      BY <1>0 DEF CloseSpec, CloseStatus, RemoveFinalizer, Goto, MachineIdle,
                  MachineWorker
    <3> QED BY <2>1, <2>2, <2>3, <3>1, <3>2, <3>3, <3>4, <3>5, <3>6, <3>7
            DEF MachineStep, ContinueMachine
  <2>4. CASE MachineEnvironment /\ UNCHANGED mw
    BY <2>2, <2>4
       DEF MachineEnvironment, Deliver, StartProvisioning, DeleteMachine,
           DeliverMachine, DeliverPool, DeliverIP, DeliverCluster
  <2>5. CASE MachineCrash
    BY <2>5 DEF MachineCrash, MachineIdle
  <2>6. CASE UNCHANGED machineVars
    BY <2>2, <2>6 DEF machineVars, objectVars
  <2> QED BY <2>3, <2>4, <2>5, <2>6 DEF MachineNext
<1> QED BY <1>0, <1>2, <1>3 DEF JoinedInv

(* With fresh reads, answered patches, no restart and pools of known OS, a *)
(* ready machine refers to the pool whose node has run its bootstrap       *)
(* command and no other's since, however often attempts and resets fail.   *)
THEOREM ReadyMachinesJoined ==
    ASSUME MaxLag = 0, "api" \notin Faults, "crash" \notin Faults,
           Unsupported = {}
    PROVE  MachineSpec => []ReadyNodeJoined
<1>1. MachineInit => JoinedInv
  <2> SUFFICES ASSUME MachineInit PROVE JoinedInv
    OBVIOUS
  <2>1. /\ \A m \in Machines : Live(machines[m]) = NewMachine
        /\ \A p \in Pools : Live(pools[p]) = ProbedPool(p)
        /\ mw.pc = "idle"
    BY DEF MachineInit, MachineIdle, Live
  <2>2. IdentityInv
    BY <2>1, TypeInit DEF IdentityInv, ReadyHasIdentity, NewMachine
  <2>3. PoolsKnown /\ IdentifiedJoined /\ SuccessJoined
    BY <2>1 DEF PoolsKnown, IdentifiedJoined, SuccessJoined, NewMachine,
                ProbedPool, OSOf
  <2> QED BY <2>2, <2>3, ServiceInit DEF JoinedInv
<1>2. JoinedInv /\ [MachineNext]_machineVars => JoinedInv' BY JoinedNext
<1>3. JoinedInv => ReadyNodeJoined
  BY ObjectsAssumption
     DEF JoinedInv, IdentityInv, ReadyHasIdentity, IdentifiedJoined,
         ReadyNodeJoined
<1> QED BY <1>1, <1>2, <1>3, PTL DEF MachineSpec

-----------------------------------------------------------------------------
(* Why a machine does not go before its node is left.  The finalizer that  *)
(* the attempt found keeps the machine there as long as a node is joined   *)
(* for it, and the deletion, which knows that node from poolRef, cleans it *)
(* before the finalizer is removed.                                        *)
JoinedGuarded ==
    \A p \in Pools : \A m \in Machines :
        node[p].joined = m =>
            Live(machines[m]).finalizer /\ Live(machines[m]).state # "gone"

DeletedUnjoined ==
    mw.pc \in DeletionSteps => \A p \in Pools : node[p].joined # mw.m

GoneInv == ServiceInv /\ GuardInv /\ JoinedGuarded /\ DeletedUnjoined

(* The steps of the worker and of the environment keep the invariant.      *)
LEMMA GoneStep ==
    ASSUME MaxLag = 0, Faults = {}, GoneInv, ServiceInv', GuardInv',
           MachineStep \/ (MachineEnvironment /\ UNCHANGED mw)
    PROVE  GoneInv'
<1>0. /\ TypeInv /\ mw \in MachineWorker /\ node \in [Pools -> Node]
      /\ \A p \in Pools : node[p] \in Node
      /\ mw.pc # "idle" => mw.m \in Machines
  BY Typed DEF GoneInv, ServiceInv
<1>1. \A m \in Machines : \A p \in Pools :
         node'[p].joined = m =>
           \/ node[p].joined = m
           \/ CommandsSucceed /\ m = mw.m
  <2>1. ASSUME NEW m \in Machines, CleanNode(m)
        PROVE  \A p \in Pools : node'[p].joined \in {node[p].joined, None}
    <3> DEFINE q == Seen(machines[m]).poolRef
    <3>1. q \in Pools BY <1>0, <2>1, Typed DEF CleanNode, Machine
    <3>2. PICK reset \in BOOLEAN, purged \in BOOLEAN :
            node' = [node EXCEPT ![q] =
                       Cleaned(q, reset, purged /\ Seen(pools[q]).os = "supported")]
      BY <2>1 DEF CleanNode
    <3> HIDE DEF q
    <3> QED BY <1>0, <3>1, <3>2 DEF Cleaned
  <2>2. CASE TakePriority
    BY <1>0, <2>2, Typed DEF TakePriority, Node, AdoptionSteps
  <2>3. CASE CommandsSucceed
    BY <1>0, <2>3, Typed DEF CommandsSucceed, Node, AdoptionSteps
  <2>4. CASE node' = node
    BY <2>4
  <2>5. ~CommandsFail BY DEF CommandsFail
  <2>6. MachineStep \/ MachineEnvironment =>
          \/ TakePriority \/ CommandsFail \/ CommandsSucceed
          \/ \E m \in Machines : CleanNode(m)
          \/ node' = node
    BY DEF MachineStep, ContinueMachine, StartDeletion, AddFinalizer, LeaveNode,
           AdoptPool, NoBootstrapData, SkipProvisioning, ConnectFails, Connect,
           CloseSpec, CloseStatus, ReleasePool, RemoveFinalizer, objectVars,
           MachineEnvironment, Deliver, StartProvisioning, DeleteMachine,
           DeliverMachine, DeliverPool, DeliverIP, DeliverCluster
  <2> QED BY <2>1, <2>2, <2>3, <2>4, <2>5, <2>6, ObjectsAssumption
<1>2. JoinedGuarded'
  <2> SUFFICES ASSUME NEW p \in Pools, NEW m \in Machines, node'[p].joined = m
               PROVE  /\ Live(machines'[m]).finalizer
                      /\ Live(machines'[m]).state # "gone"
    BY DEF JoinedGuarded
  <2>1. CASE node[p].joined = m
    <3>1. Live(machines[m]).finalizer /\ Live(machines[m]).state # "gone"
      BY <2>1 DEF GoneInv, JoinedGuarded
    <3>2. ~(RemoveFinalizer /\ m = mw.m)
      BY <2>1 DEF GoneInv, DeletedUnjoined, RemoveFinalizer, DeletionSteps
    <3> QED BY <1>0, <3>1, <3>2, ReferenceChanges
  <2>2. CASE CommandsSucceed /\ m = mw.m
    <3>1. mw'.pc = "closeSpec" /\ mw'.m = m
      BY <1>0, <2>2 DEF CommandsSucceed, CloseWith, MachineWorker
    <3> QED BY <3>1 DEF GuardInv, FinalizerGuard, Attempting, CloseSteps
  <2> QED BY <1>1, <2>1, <2>2
<1>3. DeletedUnjoined'
  <2> SUFFICES ASSUME mw'.pc \in DeletionSteps, NEW p \in Pools
               PROVE  node'[p].joined # mw'.m
    BY DEF DeletedUnjoined
  <2>1. ASSUME NEW m \in Machines, LeaveNode(m) PROVE node'[p].joined # mw'.m
    <3>1. /\ mw.pc = "idle" /\ mw'.m = m /\ node' = node
          /\ Live(machines[m]).state = "deleting"
          /\ Live(machines[m]).poolRef = None
      BY <1>0, <2>1, Typed, FreshReads
         DEF LeaveNode, Deleting, MachineIdle, objectVars
    <3>2. node[p].joined # m
      BY <3>1, ObjectsAssumption DEF GoneInv, ServiceInv, ServedKnown
    <3> QED BY <3>1, <3>2
  <2>2. ASSUME NEW m \in Machines, CleanNode(m) PROVE node'[p].joined # mw'.m
    <3> DEFINE q == Seen(machines[m]).poolRef
    <3>1. /\ mw.pc = "idle" /\ mw'.m = m /\ q \in Pools
          /\ Live(machines[m]).state = "deleting"
          /\ Live(machines[m]).poolRef = q
      BY <1>0, <2>2, Typed, FreshReads
         DEF CleanNode, Deleting, MachineIdle, Machine
    <3>2. PICK purged \in BOOLEAN :
            node' = [node EXCEPT ![q] =
                       Cleaned(q, TRUE, purged /\ Seen(pools[q]).os = "supported")]
      BY <2>2 DEF CleanNode
    <3> HIDE DEF q
    <3>3. p = q => node'[p].joined = None
      BY <1>0, <3>1, <3>2 DEF Cleaned
    <3>4. p # q => node'[p] = node[p] /\ node[p].joined # m
      BY <1>0, <3>1, <3>2 DEF GoneInv, ServiceInv, ServedKnown
    <3> QED BY <3>1, <3>3, <3>4, ObjectsAssumption
  <2>3. CASE ReleasePool
    <3>1. mw.pc = "release" /\ mw'.m = mw.m /\ node' = node
      BY <1>0, <2>3 DEF ReleasePool, Goto, MachineWorker
    <3> QED BY <3>1 DEF GoneInv, DeletedUnjoined, DeletionSteps
  <2>4. CASE mw' = mw /\ node' = node
    BY <2>4 DEF GoneInv, DeletedUnjoined
  <2>5. CASE MachineEnvironment /\ UNCHANGED mw
    BY <2>4, <2>5
       DEF MachineEnvironment, Deliver, StartProvisioning, DeleteMachine,
           DeliverMachine, DeliverPool, DeliverIP, DeliverCluster
  <2>6. CASE MachineStep
    <3>1. \A m \in Machines, q \in Pools : ~AdoptPool(m, q)
      BY DEF AdoptPool, DeletionSteps
    <3>2. \A m \in Machines : AddFinalizer(m) => mw' = mw /\ node' = node
      BY DEF AddFinalizer
    <3>3. ~NoBootstrapData /\ ~SkipProvisioning /\ ~ConnectFails /\ ~Connect
      BY <1>0 DEF NoBootstrapData, SkipProvisioning, ConnectFails, Connect, Goto,
                  CloseWith, MachineWorker, DeletionSteps
    <3>4. ~TakePriority /\ ~CommandsFail /\ ~CommandsSucceed
      BY <1>0 DEF TakePriority, CommandsFail, CommandsSucceed, Goto, CloseWith,
                  MachineWorker, DeletionSteps
    <3>5. ~CloseSpec /\ ~CloseStatus /\ ~RemoveFinalizer
      BY <1>0 DEF CloseSpec, CloseStatus, RemoveFinalizer, Goto, MachineIdle,
                  MachineWorker, DeletionSteps
    <3> QED BY <2>1, <2>2, <2>3, <2>4, <2>6, <3>1, <3>2, <3>3, <3>4, <3>5
            DEF MachineStep, ContinueMachine, StartDeletion
  <2> QED BY <2>5, <2>6
<1> QED BY <1>2, <1>3 DEF GoneInv

(* Nothing is joined at first. *)
LEMMA GoneFresh ==
    ASSUME ServiceInv, GuardInv, mw.pc = "idle",
           \A p \in Pools : node[p] = CleanedNode
    PROVE  GoneInv
BY ObjectsAssumption
   DEF GoneInv, JoinedGuarded, DeletedUnjoined, CleanedNode, DeletionSteps

(* A step that leaves the machines, the nodes and the worker alone.        *)
LEMMA GoneSame ==
    ASSUME GoneInv, ServiceInv', machines' = machines, node' = node, mw' = mw
    PROVE  GoneInv'
<1>1. GuardInv'
  BY SameMachines DEF GoneInv, ServiceInv
<1>2. JoinedGuarded' /\ DeletedUnjoined'
  BY DEF GoneInv, JoinedGuarded, DeletedUnjoined
<1> QED BY <1>1, <1>2 DEF GoneInv

(* Every step keeps the invariant. *)
LEMMA GoneNext ==
    ASSUME MaxLag = 0, Faults = {}
    PROVE  GoneInv /\ [MachineNext]_machineVars => GoneInv'
<1> SUFFICES ASSUME GoneInv, [MachineNext]_machineVars PROVE GoneInv'
  OBVIOUS
<1>0. ServiceInv' /\ TypeInv'
  BY ServiceNext DEF GoneInv, ServiceInv
<1>1. CASE MachineStep
  <2>1. GuardInv'
    BY <1>0, <1>1, GuardStart, GuardContinue DEF MachineStep, GoneInv
  <2> QED BY <1>0, <1>1, <2>1, GoneStep
<1>2. CASE MachineEnvironment /\ UNCHANGED mw
  <2>1. GuardInv' BY <1>0, <1>2, GuardEnvironment DEF GoneInv
  <2> QED BY <1>0, <1>2, <2>1, GoneStep
<1>3. CASE MachineCrash
  BY <1>3 DEF MachineCrash, Restart
<1>4. CASE UNCHANGED machineVars
  BY <1>0, <1>4, GoneSame DEF machineVars, objectVars
<1> QED BY <1>1, <1>2, <1>3, <1>4 DEF MachineNext

(* With fresh reads and when nothing fails, a machine that is gone has left*)
(* no node joined to its cluster.                                          *)
THEOREM GoneMachinesLeaveNothing ==
    ASSUME MaxLag = 0, Faults = {}
    PROVE  MachineSpec => []GoneLeavesNothing
<1>1. MachineInit => GoneInv
  <2>1. MachineInit => mw.pc = "idle" /\ \A p \in Pools : node[p] = CleanedNode
    BY DEF MachineInit, MachineIdle
  <2> QED BY <2>1, ServiceInit, GuardInit, GoneFresh
<1>2. GoneInv /\ [MachineNext]_machineVars => GoneInv' BY GoneNext
<1>3. GoneInv => GoneLeavesNothing
  BY DEF GoneInv, JoinedGuarded, GoneLeavesNothing
<1> QED BY <1>1, <1>2, <1>3, PTL DEF MachineSpec
=============================================================================
