--------------------------- MODULE AllocationProofs ---------------------------
(***************************************************************************)
(* The four controllers implement PoolAllocation: every step of theirs     *)
(* offers, acquires, releases or loses one pool, or leaves all of them     *)
(* with their owners.                                                      *)
(***************************************************************************)
EXTENDS HyperProviderProofs

-----------------------------------------------------------------------------
(* The finalizer guards an attempt among the other controllers too. *)
LEMMA ProviderGuardNext ==
    ASSUME GuardInv, TypeInv', [ProviderNext]_providerVars
    PROVE  GuardInv'
<1>1. CASE MachineStep
  BY <1>1, GuardStart, GuardContinue DEF MachineStep
<1>2. CASE MachineEnvironment /\ UNCHANGED mw
  BY <1>2, GuardEnvironment
<1>3. CASE MachineCrash
  BY <1>3, GuardCrash
<1>4. CASE machines' = machines /\ mw' = mw
  BY <1>4, SameMachines
<1> QED BY <1>1, <1>2, <1>3, <1>4, ProviderSteps
        DEF MachineNext, MachineCrash, Crash, machineVars, objectVars

(* However far the caches lag and whatever fails, a machine that is being  *)
(* provisioned exists and carries the finalizer, although clusters are     *)
(* deleted next to it.                                                     *)
THEOREM ProviderAttemptsGuarded == ProviderSpec => []FinalizerGuard
<1> DEFINE Inv == ProviderTypeInv /\ GuardInv
<1>1. ProviderInit => Inv
  BY ProviderTypeInit, StartedFresh, GuardFresh
<1>2. Inv /\ [ProviderNext]_providerVars => Inv'
  BY ProviderTypeNext, ProviderGuardNext DEF ProviderTypeInv
<1>3. Inv => FinalizerGuard BY DEF GuardInv
<1> QED BY <1>1, <1>2, <1>3, PTL DEF ProviderSpec

-----------------------------------------------------------------------------
(* Between the two patches of Close the reference has been published: the  *)
(* pool keeps its owner when the attempt ends.                             *)
PublishedRefers ==
    mw.pc = "closeStatus" => Live(machines[mw.m]).poolRef = mw.pool

AllocInv == ProviderServiceInv /\ GuardInv /\ PublishedRefers

(* What the first patch of Close does to its machine: the machine is there,*)
(* and refers to the pool the worker has taken from now on.                *)
LEMMA Published ==
    ASSUME "api" \notin Faults, AllocInv, CloseSpec
    PROVE  /\ mw.m \in Machines /\ mw.pool \in Pools
           /\ Live(machines[mw.m]).state # "gone"
           /\ Live(machines'[mw.m]).state # "gone"
           /\ Live(machines'[mw.m]).poolRef = mw.pool
           /\ \A n \in Machines : n # mw.m => machines'[n] = machines[n]
           /\ pools' = pools
           /\ \/ mw'.pc = "idle"
              \/ mw'.pc = "closeStatus" /\ mw'.m = mw.m /\ mw'.pool = mw.pool
<1> DEFINE live == Live(machines[mw.m])
<1>0. /\ TypeInv /\ mw \in MachineWorker /\ mw.pc = "closeSpec"
      /\ mw.m \in Machines /\ mw.pool \in Pools /\ live \in Machine
  BY Typed DEF AllocInv, ProviderServiceInv, ServiceInv, CloseSpec, CloseSteps
<1>1. PICK ref \in Pools \cup {None}, id \in Pools \cup {None, NoHost} :
        /\ ref = IF mw.pool = mw.had THEN live.poolRef ELSE mw.pool
        /\ MachineBecomes(mw.m, Kept(live,
             [live EXCEPT !.poolRef = ref, !.providerID = id]))
        /\ mw' = IF mw.ok THEN [mw EXCEPT !.pc = "closeStatus"]
                          ELSE MachineIdle
  BY <1>0, CloseSpecPatch
<1>2. live.state # "gone"
  BY <1>0 DEF AllocInv, GuardInv, FinalizerGuard, Attempting, CloseSteps
<1>3. ref = mw.pool
  BY <1>0, <1>1, <1>2 DEF AllocInv, ProviderServiceInv, ServiceInv, AttemptKnown
<1>4. LET v == [live EXCEPT !.poolRef = ref, !.providerID = id]
      IN  /\ Kept(live, v) = v
          /\ v.poolRef = mw.pool /\ v.state = live.state
  BY <1>0, <1>2, <1>3 DEF Kept, Machine
<1>5. \/ mw'.pc = "idle"
      \/ mw'.pc = "closeStatus" /\ mw'.m = mw.m /\ mw'.pool = mw.pool
  BY <1>0, <1>1 DEF MachineIdle, MachineWorker
<1> QED BY ZenonT(30), <1>0, <1>1, <1>2, <1>4, <1>5 DEF MachineBecomes

(* Every step keeps the invariant. *)
LEMMA AllocNext ==
    ASSUME MaxLag = 0, "api" \notin Faults, "crash" \notin Faults,
           AllocInv, [ProviderNext]_providerVars
    PROVE  AllocInv'
<1>0. /\ ProviderServiceInv' /\ TypeInv /\ TypeInv'
  BY ProviderServiceNext DEF AllocInv, ProviderServiceInv, ServiceInv
<1>1. GuardInv'
  BY <1>0, ProviderGuardNext DEF AllocInv
<1>2. PublishedRefers'
  <2> SUFFICES ASSUME mw'.pc = "closeStatus"
               PROVE  Live(machines'[mw'.m]).poolRef = mw'.pool
    BY DEF PublishedRefers
  <2>1. CASE CloseSpec
    BY <2>1, Published
  <2>2. CASE mw' = mw
    <3>1. mw.m \in Machines /\ ~CloseSpec
      BY <1>0, <2>2, Typed DEF CloseSpec
    <3>2. CASE machines' = machines
      BY <2>2, <3>2 DEF AllocInv, PublishedRefers
    <3>3. CASE MachineStep \/ MachineEnvironment
      <4>1. Live(machines'[mw.m]).poolRef = Live(machines[mw.m]).poolRef
        BY <1>0, <3>1, <3>3, ReferenceChanges
      <4> QED BY <2>2, <4>1 DEF AllocInv, PublishedRefers
    <3>4. ~Restart BY DEF Restart
    <3> QED BY <3>2, <3>3, <3>4, ProviderSteps
            DEF MachineNext, MachineCrash, Crash, machineVars, objectVars
  <2>3. CASE MachineStep /\ mw' # mw /\ ~CloseSpec
    <3>1. mw \in MachineWorker BY <1>0, Typed
    <3>2. ASSUME NEW m \in Machines,
                 StartDeletion(m) \/ \E p \in Pools : AdoptPool(m, p)
          PROVE  FALSE
      <4>1. CASE LeaveNode(m)
        BY <4>1 DEF LeaveNode, MachineIdle
      <4>2. CASE CleanNode(m)
        BY <4>2 DEF CleanNode, MachineIdle
      <4>3. CASE \E p \in Pools : AdoptPool(m, p)
        BY <4>3 DEF AdoptPool
      <4> QED BY <3>2, <4>1, <4>2, <4>3 DEF StartDeletion
    <3>3. ASSUME NoBootstrapData \/ SkipProvisioning \/ ConnectFails \/ Connect
          PROVE  FALSE
      BY <3>1, <3>3 DEF NoBootstrapData, SkipProvisioning, ConnectFails, Connect,
                        Goto, CloseWith, MachineWorker
    <3>4. ASSUME TakePriority \/ CommandsFail \/ CommandsSucceed \/ ReleasePool
          PROVE  FALSE
      BY <3>1, <3>4 DEF TakePriority, CommandsFail, CommandsSucceed, ReleasePool,
                        Goto, CloseWith, MachineWorker
    <3>5. ASSUME CloseStatus \/ RemoveFinalizer PROVE FALSE
      BY <3>5 DEF CloseStatus, RemoveFinalizer, MachineIdle
    <3>6. ASSUME NEW m \in Machines, AddFinalizer(m) PROVE FALSE
      BY <2>3, <3>6 DEF AddFinalizer
    <3> QED BY <2>3, <3>2, <3>3, <3>4, <3>5, <3>6
            DEF MachineStep, ContinueMachine
  <2>4. ~Restart BY DEF Restart
  <2> QED BY <2>1, <2>2, <2>3, <2>4, ProviderSteps
          DEF MachineNext, MachineCrash, Crash, machineVars
<1> QED BY <1>0, <1>1, <1>2 DEF AllocInv

(* At first nothing is taken. *)
LEMMA AllocInit == ProviderInit => AllocInv
<1> SUFFICES ASSUME ProviderInit PROVE AllocInv
  OBVIOUS
<1>1. GuardInv BY StartedFresh, GuardFresh
<1>2. mw.pc = "idle" BY StartedFresh DEF MachineIdle
<1> QED BY <1>1, <1>2, ProviderServiceInit DEF AllocInv, PublishedRefers

-----------------------------------------------------------------------------
(* The owner of a pool, case by case. *)
OwnerFact(p) ==
    LET live == Live(pools[p])
        taken == Serving /\ mw.pool = p
    IN  /\ live.valid # "true" => PoolOwner[p] = "offline" /\ ~taken
        /\ live.valid = "true" /\ ~Marked(p) =>
              PoolOwner[p] = "free" /\ ~taken
        /\ taken => PoolOwner[p] = mw.m /\ mw.m \in Machines
        /\ \A m \in Machines : Refers(m, p) /\ Marked(p) => PoolOwner[p] = m
        /\ Marked(p) /\ ~taken /\ (\A m \in Machines : ~Refers(m, p)) =>
              PoolOwner[p] = "lost"

OwnersKnown == \A p \in Pools : OwnerFact(p)

(* Each of these facts is one case of the refinement mapping.              *)
LEMMA OwnerCases == AllocInv => OwnersKnown
<1> SUFFICES ASSUME AllocInv, NEW p \in Pools PROVE OwnerFact(p)
  BY DEF OwnersKnown
<1> DEFINE live == Live(pools[p])
           taken == Serving /\ mw.pool = p
<1>0. /\ live.cluster \in Clusters \cup {None, Blank}
      /\ mw.pc # "idle" => mw.m \in Machines
  <2>1. TypeInv BY DEF AllocInv, ProviderServiceInv, ServiceInv
  <2> QED BY <2>1, Typed DEF Pool
<1>1. /\ Marked(p) => live.valid = "true" /\ live.cluster # Blank
      /\ live.valid = "true" /\ ~Marked(p) => live.cluster = Blank
  BY <1>0, ObjectsAssumption
     DEF AllocInv, ProviderServiceInv, LabelInv, Labelled, Marked
<1>2. taken => Marked(p) /\ mw.m \in Machines
  BY <1>0 DEF AllocInv, ProviderServiceInv, ServiceInv, TakenMarked, Serving,
              AdoptionSteps, CloseSteps
<1>3. (\E m \in Machines : Attempting(m) /\ mw.pool = p) <=> taken
  BY <1>2 DEF Attempting, Serving
<1>4. PoolOwner[p] =
        IF live.valid # "true" THEN "offline"
        ELSE IF taken THEN mw.m
        ELSE IF live.cluster = Blank THEN "free"
        ELSE IF Referring(p) = {} THEN "lost"
        ELSE IF \E m \in Machines : Referring(p) = {m}
             THEN CHOOSE m \in Machines : Referring(p) = {m}
             ELSE "shared"
  BY <1>3 DEF PoolOwner
<1>5. ASSUME NEW m \in Machines, Refers(m, p)
      PROVE  /\ Referring(p) = {m}
             /\ (CHOOSE n \in Machines : Referring(p) = {n}) = m
             /\ taken => m = mw.m
  <2>1. Referring(p) = {m}
    BY <1>5 DEF AllocInv, ProviderServiceInv, ServiceInv, ReferOnce, Refers,
                Referring
  <2>2. taken => m = mw.m
    BY <1>5 DEF AllocInv, ProviderServiceInv, ServiceInv, TakenAlone
  <2> QED BY <2>1, <2>2
<1>6. (\A m \in Machines : ~Refers(m, p)) => Referring(p) = {}
  BY DEF Refers, Referring
<1> QED BY <1>1, <1>2, <1>4, <1>5, <1>6 DEF OwnerFact

(* A step that leaves a pool its labels, the machines that refer to it and *)
(* the worker that has taken it, leaves it its owner.                      *)
LEMMA OwnerStays ==
    ASSUME AllocInv, AllocInv', NEW p \in Pools,
           Live(pools'[p]).valid = Live(pools[p]).valid,
           Live(pools'[p]).cluster = Live(pools[p]).cluster,
           \A m \in Machines : Refers(m, p)' <=> Refers(m, p),
           Serving' /\ mw'.pool = p <=> Serving /\ mw.pool = p,
           Serving /\ mw.pool = p => mw'.m = mw.m
    PROVE  PoolOwner'[p] = PoolOwner[p]
<1>0. OwnerFact(p) /\ OwnerFact(p)'
  <2>1. OwnersKnown' BY OwnerCases, PTL
  <2> QED BY <2>1, OwnerCases DEF OwnersKnown
<1>1. Marked(p)' <=> Marked(p) BY DEF Marked
<1>2. Marked(p) => Live(pools[p]).valid = "true"
  BY DEF AllocInv, ProviderServiceInv, LabelInv, Labelled, Marked
<1>3. CASE Serving /\ mw.pool = p
  BY <1>0, <1>3 DEF OwnerFact
<1>4. CASE ~(Serving /\ mw.pool = p) /\ Marked(p)
  BY <1>0, <1>1, <1>4 DEF OwnerFact
<1>5. CASE ~Marked(p)
  BY <1>0, <1>1, <1>5 DEF OwnerFact
<1> QED BY <1>3, <1>4, <1>5

-----------------------------------------------------------------------------
(* One pool changes its owner as PoolAllocation allows, or none does. *)
Allocates ==
    \/ \A p \in Pools : PoolOwner'[p] = PoolOwner[p]
    \/ \E p \in Pools :
          /\ \A q \in Pools : q # p => PoolOwner'[q] = PoolOwner[q]
          /\ \/ PoolOwner[p] = "offline" /\ PoolOwner'[p] = "free"
             \/ PoolOwner[p] = "free" /\ PoolOwner'[p] \in Machines
             \/ PoolOwner[p] \in Machines /\ PoolOwner'[p] \in {"free", "lost"}

(* Such a change is a step of PoolAllocation, or none.                     *)
LEMMA AllocatesSteps == Allocates => [Allocation!Next]_PoolOwner
<1> SUFFICES ASSUME Allocates PROVE [Allocation!Next]_PoolOwner
  OBVIOUS
<1>0. /\ PoolOwner = [p \in Pools |-> PoolOwner[p]]
      /\ PoolOwner' = [p \in Pools |-> PoolOwner'[p]]
  BY DEF PoolOwner
<1>1. CASE \A p \in Pools : PoolOwner'[p] = PoolOwner[p]
  BY <1>0, <1>1
<1>2. ASSUME NEW p \in Pools,
             \A q \in Pools : q # p => PoolOwner'[q] = PoolOwner[q],
             \/ PoolOwner[p] = "offline" /\ PoolOwner'[p] = "free"
             \/ PoolOwner[p] = "free" /\ PoolOwner'[p] \in Machines
             \/ PoolOwner[p] \in Machines /\ PoolOwner'[p] \in {"free", "lost"}
      PROVE  Allocation!Next
  <2>1. PoolOwner' = [PoolOwner EXCEPT ![p] = PoolOwner'[p]]
    BY <1>0, <1>2
  <2>2. CASE PoolOwner[p] = "offline" /\ PoolOwner'[p] = "free"
    BY <2>1, <2>2 DEF Allocation!Next, Allocation!Offer, Allocation!Become
  <2>3. CASE PoolOwner[p] = "free" /\ PoolOwner'[p] \in Machines
    BY <2>1, <2>3 DEF Allocation!Next, Allocation!Acquire, Allocation!Become
  <2>4. CASE PoolOwner[p] \in Machines /\ PoolOwner'[p] = "free"
    BY <2>1, <2>4 DEF Allocation!Next, Allocation!Release, Allocation!Become
  <2>5. CASE PoolOwner[p] \in Machines /\ PoolOwner'[p] = "lost"
    BY <2>1, <2>5 DEF Allocation!Next, Allocation!Lose, Allocation!Become
  <2> QED BY <1>2, <2>2, <2>3, <2>4, <2>5
<1> QED BY <1>1, <1>2 DEF Allocates

(* A machine that keeps its reference or goes: the pool it referred to is  *)
(* lost, unless it has been freed.                                         *)
LEMMA OwnerForgotten ==
    ASSUME AllocInv, AllocInv', NEW k \in Machines,
           \A n \in Machines : n # k => Live(machines'[n]) = Live(machines[n]),
           Live(machines'[k]).poolRef = Live(machines[k]).poolRef,
           Live(machines[k]).state = "gone" => Live(machines'[k]).state = "gone",
           \A p \in Pools :
              /\ Live(pools'[p]).valid = Live(pools[p]).valid
              /\ Live(pools'[p]).cluster = Live(pools[p]).cluster,
           Serving' <=> Serving,
           Serving => mw'.m = mw.m /\ mw'.pool = mw.pool
    PROVE  Allocates
<1>0. \A q \in Pools : OwnerFact(q) /\ OwnerFact(q)'
  <2>1. OwnersKnown' BY OwnerCases, PTL
  <2> QED BY <2>1, OwnerCases DEF OwnersKnown
<1>1. ASSUME NEW q \in Pools, ~Refers(k, q) \/ Refers(k, q)'
      PROVE  PoolOwner'[q] = PoolOwner[q]
  <2>1. \A m \in Machines : Refers(m, q)' <=> Refers(m, q)
    BY <1>1 DEF Refers
  <2> QED BY <2>1, OwnerStays
<1>2. ASSUME NEW p \in Pools, Refers(k, p), ~Refers(k, p)'
      PROVE  Allocates
  <2>1. \A q \in Pools : q # p => PoolOwner'[q] = PoolOwner[q]
    BY <1>1, <1>2 DEF Refers
  <2>2. ~Serving \/ mw.pool # p
    <3> SUFFICES ASSUME Serving, mw.pool = p PROVE FALSE
      OBVIOUS
    <3>1. k = mw.m
      BY <1>2 DEF AllocInv, ProviderServiceInv, ServiceInv, TakenAlone
    <3>2. Live(machines'[k]).state # "gone"
      BY <3>1 DEF AllocInv, GuardInv, FinalizerGuard, Attempting, Serving
    <3> QED BY <1>2, <3>2 DEF Refers
  <2>3. \A m \in Machines : ~Refers(m, p)'
    BY <1>2 DEF AllocInv, ProviderServiceInv, ServiceInv, ReferOnce, Refers
  <2>4. CASE Marked(p)
    <3>1. Marked(p)' BY <2>4 DEF Marked
    <3>2. PoolOwner[p] = k BY <1>0, <1>2, <2>4 DEF OwnerFact
    <3>3. PoolOwner'[p] = "lost" BY <1>0, <2>2, <2>3, <3>1 DEF OwnerFact
    <3> QED BY <2>1, <3>2, <3>3 DEF Allocates
  <2>5. CASE ~Marked(p)
    <3>1. ~Marked(p)' BY <2>5 DEF Marked
    <3>2. PoolOwner'[p] = PoolOwner[p] BY <1>0, <2>5, <3>1 DEF OwnerFact
    <3> QED BY <2>1, <3>2 DEF Allocates
  <2> QED BY <2>4, <2>5
<1> QED BY <1>1, <1>2 DEF Allocates

(* Taking a pool acquires it, and freeing it releases it. *)
LEMMA OwnerOfPool ==
    ASSUME MaxLag = 0, "api" \notin Faults, AllocInv, AllocInv',
           \/ ReleasePool
           \/ \E m \in Machines, p \in Pools : AdoptPool(m, p)
    PROVE  Allocates
<1>0. /\ TypeInv /\ mw \in MachineWorker
      /\ \A q \in Pools : OwnerFact(q) /\ OwnerFact(q)'
      /\ \A q \in Pools : Seen(pools[q]) = Live(pools[q])
  <2>1. OwnersKnown' BY OwnerCases, PTL
  <2>2. TypeInv BY DEF AllocInv, ProviderServiceInv, ServiceInv
  <2> QED BY <2>1, <2>2, OwnerCases, Typed, FreshReads DEF OwnersKnown
<1>1. CASE ReleasePool
  <2>0. PICK p \in Pools : p = mw.pool
    BY <1>0, <1>1, Typed DEF ReleasePool
  <2>1. /\ mw.pc = "release" /\ mw'.pc = "removeFinalizer"
        /\ mw.m \in Machines /\ machines' = machines
    BY <1>0, <1>1, Typed DEF ReleasePool, Goto, MachineWorker
  <2>2. PICK v \in Pool :
          /\ PoolBecomes(p, v)
          /\ v.valid = Live(pools[p]).valid
          /\ v.cluster = IF mw.snap.cluster = Blank THEN Live(pools[p]).cluster
                                                    ELSE Blank
    BY <1>0, <1>1, <2>0, PoolPatches
  <2>3. /\ ~Serving /\ ~Serving'
        /\ \A n \in Machines : \A q \in Pools : Refers(n, q)' <=> Refers(n, q)
    BY <2>1 DEF Serving, AdoptionSteps, CloseSteps, Refers
  <2>4. \A q \in Pools : q # p => PoolOwner'[q] = PoolOwner[q]
    BY <2>2, <2>3, OwnerStays DEF PoolBecomes
  <2>5. PoolOwner[p] = mw.m /\ Live(pools[p]).valid = "true"
    <3>1. Refers(mw.m, p)
      BY <2>0, <2>1 DEF AllocInv, ProviderServiceInv, ServiceInv, ReleaseOwn, Refers
    <3>2. Marked(p)
      BY <2>1, <3>1 DEF AllocInv, ProviderServiceInv, ServiceInv, ReferredMarked
    <3> QED BY <1>0, <2>1, <3>1, <3>2
            DEF OwnerFact, AllocInv, ProviderServiceInv, LabelInv, Labelled, Marked
  <2>6. CASE v.cluster = Blank
    <3>1. Live(pools'[p]).valid = "true" /\ ~Marked(p)'
      BY <2>2, <2>5, <2>6, ObjectsAssumption DEF PoolBecomes, Marked
    <3>2. PoolOwner'[p] = "free" BY <1>0, <2>1, <3>1 DEF OwnerFact
    <3> QED BY <2>1, <2>4, <2>5, <3>2 DEF Allocates
  <2>7. CASE v.cluster # Blank
    <3>1. PoolOwner'[p] = PoolOwner[p]
      BY <2>1, <2>2, <2>3, <2>7, OwnerStays DEF PoolBecomes
    <3> QED BY <2>4, <3>1 DEF Allocates
  <2> QED BY <2>6, <2>7
<1>2. ASSUME NEW m \in Machines, NEW p \in Pools, AdoptPool(m, p)
      PROVE  Allocates
  <2>1. /\ mw.pc = "idle" /\ mw'.pc = "bootstrap"
        /\ mw'.m = m /\ mw'.pool = p /\ machines' = machines
    BY <1>2 DEF AdoptPool
  <2>2. ~Serving /\ Serving'
    BY <2>1 DEF Serving, AdoptionSteps, CloseSteps
  <2>3. \A q \in Pools : q # p => pools'[q] = pools[q]
    BY <1>0, <1>2, PoolPatches DEF PoolBecomes
  <2>4. \A q \in Pools : q # p => PoolOwner'[q] = PoolOwner[q]
    <3> TAKE q \in Pools
    <3>1. \A n \in Machines : Refers(n, q)' <=> Refers(n, q)
      BY <2>1 DEF Refers
    <3> QED BY <2>1, <2>2, <2>3, <3>1, OwnerStays
  <2>5. PoolOwner[p] = "free"
    <3>1. Live(pools[p]).valid = "true" /\ Live(pools[p]).cluster = Blank
      BY <1>0, <1>2 DEF AdoptPool, Candidates, MarkedPools, FreePools
    <3> QED BY <1>0, <3>1, ObjectsAssumption DEF OwnerFact, Marked
  <2>6. PoolOwner'[p] = m
    BY <1>0, <2>1, <2>2 DEF OwnerFact
  <2> QED BY <2>4, <2>5, <2>6 DEF Allocates
<1> QED BY <1>1, <1>2

(* Publishing the reference to the pool loses the one referred to before.  *)
LEMMA OwnerPublished ==
    ASSUME "api" \notin Faults, AllocInv, AllocInv', CloseSpec
    PROVE  Allocates
<1>k. PICK k \in Machines, p \in Pools : k = mw.m /\ p = mw.pool
  BY Published
<1>0. \A q \in Pools : OwnerFact(q) /\ OwnerFact(q)'
  <2>1. OwnersKnown' BY OwnerCases, PTL
  <2> QED BY <2>1, OwnerCases DEF OwnersKnown
<1>1. /\ pools' = pools
      /\ Refers(k, p)'
      /\ Live(machines[k]).state # "gone"
      /\ \A q \in Pools : q # p => ~Refers(k, q)'
      /\ \A n \in Machines : n # k => \A q \in Pools :
            Refers(n, q)' <=> Refers(n, q)
  BY <1>k, Published DEF Refers
<1>2. mw.pool = p /\ mw.m = k /\ Serving /\ (Serving' => mw'.m = k /\ mw'.pool = p)
  BY <1>k, Published DEF CloseSpec, Serving, AdoptionSteps, CloseSteps
<1>3. Marked(p) /\ Marked(p)'
  BY <1>1, <1>2 DEF AllocInv, ProviderServiceInv, ServiceInv, TakenMarked, Marked
<1>4. PoolOwner[p] = k /\ PoolOwner'[p] = k
  BY <1>0, <1>1, <1>2, <1>3 DEF OwnerFact
<1>5. ASSUME NEW q \in Pools, q # p, ~Refers(k, q)
      PROVE  PoolOwner'[q] = PoolOwner[q]
  BY <1>1, <1>2, <1>5, OwnerStays
<1>6. CASE \A q \in Pools : q # p => ~Refers(k, q)
  BY <1>4, <1>5, <1>6 DEF Allocates
<1>7. ASSUME NEW r \in Pools, r # p, Refers(k, r) PROVE Allocates
  <2>1. \A q \in Pools : q # r => PoolOwner'[q] = PoolOwner[q]
    BY <1>4, <1>5, <1>7 DEF Refers
  <2>2. Marked(r) /\ Marked(r)'
    BY <1>1, <1>7 DEF AllocInv, ProviderServiceInv, ServiceInv, ReferredMarked,
                      CloseSpec, Marked
  <2>3. PoolOwner[r] = k
    BY <1>0, <1>1, <1>7, <2>2 DEF OwnerFact
  <2>4. \A n \in Machines : ~Refers(n, r)'
    BY <1>1, <1>7 DEF AllocInv, ProviderServiceInv, ServiceInv, ReferOnce
  <2>5. PoolOwner'[r] = "lost"
    BY <1>0, <1>2, <1>7, <2>2, <2>4 DEF OwnerFact
  <2> QED BY <1>1, <2>1, <2>3, <2>5 DEF Allocates
<1> QED BY <1>6, <1>7

(* The steps that patch a machine otherwise. *)
LEMMA OwnerOfMachine ==
    ASSUME "api" \notin Faults, AllocInv, AllocInv',
           \/ CloseStatus \/ RemoveFinalizer
           \/ \E m \in Machines : AddFinalizer(m)
           \/ (\E m \in Machines : DeleteMachine(m)) /\ UNCHANGED mw
    PROVE  Allocates
<1>0. /\ TypeInv
      /\ mw.pc # "idle" => mw.m \in Machines
      /\ \A m \in Machines : Live(machines[m]) \in Machine
  <2>1. TypeInv BY DEF AllocInv, ProviderServiceInv, ServiceInv
  <2> QED BY <2>1, Typed
<1>1. ASSUME NEW k \in Machines, NEW v, MachineBecomes(k, v),
             v.poolRef = Live(machines[k]).poolRef,
             Live(machines[k]).state = "gone" => v.state = "gone",
             mw' = mw \/ (mw' = MachineIdle /\ ~Serving)
      PROVE  Allocates
  <2>1. (Serving' <=> Serving) /\ (Serving => mw' = mw)
    BY <1>1 DEF Serving, MachineIdle, AdoptionSteps, CloseSteps
  <2> QED BY <1>1, <2>1, OwnerForgotten DEF MachineBecomes
<1>2. ASSUME NEW m \in Machines, AddFinalizer(m) PROVE Allocates
  <2> DEFINE live == Live(machines[m])
             v == Kept(live, [live EXCEPT !.finalizer = TRUE])
  <2>1. MachineBecomes(m, v) /\ mw' = mw BY <1>0, <1>2, MachinePatches
  <2>2. v.poolRef = live.poolRef /\ v.state = live.state
    BY <1>0 DEF Kept, Machine
  <2> HIDE DEF v
  <2> QED BY <1>1, <2>1, <2>2
<1>3. ASSUME NEW m \in Machines, DeleteMachine(m), UNCHANGED mw PROVE Allocates
  <2> DEFINE live == Live(machines[m])
             v == Deleted(live)
  <2>1. MachineBecomes(m, v) /\ live.state = "live"
    BY <1>0, <1>3, MachinePatches DEF DeleteMachine
  <2>2. v.poolRef = live.poolRef
    BY <1>0 DEF Deleted, Gone, Machine
  <2> HIDE DEF v
  <2> QED BY <1>1, <1>3, <2>1, <2>2
<1>4. CASE RemoveFinalizer
  <2> DEFINE live == Live(machines[mw.m])
             v == Kept(live, Gone(live))
  <2>1. MachineBecomes(mw.m, v) /\ mw' = MachineIdle
    BY <1>0, <1>4, MachinePatches
  <2>2. mw.m \in Machines /\ ~Serving
    BY <1>0, <1>4 DEF RemoveFinalizer, Serving, AdoptionSteps, CloseSteps
  <2>3. v.poolRef = live.poolRef /\ (live.state = "gone" => v.state = "gone")
    BY <1>0, <2>2 DEF Kept, Gone, Machine
  <2> HIDE DEF v
  <2> QED BY <1>1, <2>1, <2>2, <2>3
<1>5. CASE CloseStatus
  <2>0. PICK k \in Machines, p \in Pools : k = mw.m /\ p = mw.pool
    BY <1>0, <1>5, Typed DEF CloseStatus, CloseSteps
  <2> DEFINE live == Live(machines[k])
             v == Kept(live, [live EXCEPT !.ready = TRUE])
  <2>1. MachineBecomes(k, v) /\ mw' = MachineIdle
    BY <1>0, <1>5, <2>0, MachinePatches
  <2>2. v.poolRef = live.poolRef /\ v.state = live.state
    BY <1>0, <2>0 DEF Kept, Machine
  <2> HIDE DEF v
  <2>3. Serving /\ ~Serving'
    BY <1>5, <2>1 DEF CloseStatus, Serving, AdoptionSteps, CloseSteps, MachineIdle
  <2>4. Refers(k, p) /\ \A n \in Machines : \A q \in Pools :
                           Refers(n, q)' <=> Refers(n, q)
    <3>1. live.state # "gone" /\ live.poolRef = p
      BY <1>5, <2>0 DEF CloseStatus, AllocInv, PublishedRefers, GuardInv,
                        FinalizerGuard, Attempting, CloseSteps
    <3> QED BY <2>1, <2>2, <3>1 DEF MachineBecomes, Refers
  <2>5. Marked(p) /\ Marked(p)'
    BY <2>0, <2>1, <2>3
       DEF AllocInv, ProviderServiceInv, ServiceInv, TakenMarked, Marked,
           MachineBecomes
  <2>6. PoolOwner'[p] = PoolOwner[p]
    <3>1. OwnersKnown' BY OwnerCases, PTL
    <3>2. OwnerFact(p) /\ OwnerFact(p)' BY <3>1, OwnerCases DEF OwnersKnown
    <3> QED BY <2>4, <2>5, <3>2 DEF OwnerFact
  <2>7. \A q \in Pools : q # p => PoolOwner'[q] = PoolOwner[q]
    BY <2>0, <2>1, <2>3, <2>4, OwnerStays DEF MachineBecomes
  <2> QED BY <2>6, <2>7 DEF Allocates
<1> QED BY <1>2, <1>3, <1>4, <1>5

(* The other controllers offer a pool, once, or leave the owners alone. *)
LEMMA OwnerOfOthers ==
    ASSUME AllocInv, AllocInv', OtherStep, machines' = machines, mw' = mw
    PROVE  Allocates
<1>0. /\ ProviderTypeInv
      /\ \A q \in Pools : OwnerFact(q) /\ OwnerFact(q)'
      /\ \A n \in Machines : \A q \in Pools : Refers(n, q)' <=> Refers(n, q)
      /\ Serving' <=> Serving
  <2>1. OwnersKnown' BY OwnerCases, PTL
  <2> QED BY <2>1, OwnerCases
          DEF OwnersKnown, AllocInv, ProviderServiceInv, LabelInv, Refers, Serving
<1>1. ASSUME NEW q \in Pools, ~(PatchLabels /\ q = pw.pool)
      PROVE  PoolOwner'[q] = PoolOwner[q]
  <2>1. /\ Live(pools'[q]).valid = Live(pools[q]).valid
        /\ Live(pools'[q]).cluster = Live(pools[q]).cluster
    BY <1>0, <1>1, OtherPools
  <2> QED BY <1>0, <2>1, OwnerStays
<1>2. CASE PatchLabels
  <2>1. PICK p \in Pools : p = pw.pool
    BY <1>0, <1>2 DEF ProviderTypeInv, PatchLabels
  <2>2. \A q \in Pools : q # p => PoolOwner'[q] = PoolOwner[q]
    BY <1>1, <2>1
  <2>3. PoolOwner[p] = "offline"
    BY <1>0, <1>2, <2>1
       DEF AllocInv, ProviderServiceInv, LabelInv, ProbeKnown, PatchLabels,
           OwnerFact
  <2>4. Live(pools'[p]).cluster \notin Clusters
    <3>1. ~(Live(pools[p]).cluster \in Clusters)
          /\ Merged(pw.snap.cluster, pw.edit.cluster, Live(pools[p]).cluster)
               \notin Clusters
      BY <1>2, <2>1, ObjectsAssumption
         DEF AllocInv, ProviderServiceInv, LabelInv, Labelled, ProbeKnown,
             PatchLabels, Merged
    <3> QED BY <1>0, <2>1, <3>1, OtherPools
  <2>5. PoolOwner'[p] \in {"offline", "free"}
    BY <1>0, <2>4 DEF OwnerFact, Marked
  <2> QED BY <2>2, <2>3, <2>5 DEF Allocates
<1> QED BY <1>1, <1>2 DEF Allocates

(* Every step is one of PoolAllocation. *)
LEMMA AllocStep ==
    ASSUME MaxLag = 0, "api" \notin Faults, "crash" \notin Faults,
           AllocInv, AllocInv', [ProviderNext]_providerVars
    PROVE  Allocates
<1>0. TypeInv /\ mw \in MachineWorker
  <2>1. TypeInv BY DEF AllocInv, ProviderServiceInv, ServiceInv
  <2> QED BY <2>1, Typed
<1>1. ASSUME machines' = machines, pools' = pools, Serving' <=> Serving,
             Serving => mw'.m = mw.m /\ mw'.pool = mw.pool
      PROVE  Allocates
  <2>1. \A n \in Machines : \A q \in Pools : Refers(n, q)' <=> Refers(n, q)
    BY <1>1 DEF Refers
  <2> QED BY <1>1, <2>1, OwnerStays DEF Allocates
<1>2. CASE MachineStep
  <2>1. ASSUME NEW m \in Machines, StartDeletion(m) PROVE Allocates
    <3>1. /\ mw.pc = "idle" /\ mw'.pc \in DeletionSteps
          /\ machines' = machines /\ pools' = pools
      BY <2>1 DEF StartDeletion, LeaveNode, CleanNode, Deleting, MachineIdle,
                  DeletionSteps, objectVars, stores
    <3> QED BY <1>1, <3>1
            DEF Serving, AdoptionSteps, CloseSteps, DeletionSteps
  <2>2. CASE \/ NoBootstrapData \/ SkipProvisioning \/ ConnectFails \/ Connect
             \/ TakePriority \/ CommandsFail \/ CommandsSucceed
    <3>1. /\ mw.pc \in AdoptionSteps
          /\ mw'.pc \in AdoptionSteps \cup CloseSteps
          /\ mw'.m = mw.m /\ mw'.pool = mw.pool
          /\ machines' = machines /\ pools' = pools
      BY <1>0, <2>2
         DEF NoBootstrapData, SkipProvisioning, ConnectFails, Connect,
             TakePriority, CommandsFail, CommandsSucceed, Goto, CloseWith,
             MachineWorker, AdoptionSteps, CloseSteps, objectVars, stores
    <3> QED BY <1>1, <3>1 DEF Serving
  <2> QED BY <1>2, <2>1, <2>2, OwnerOfPool, OwnerPublished, OwnerOfMachine
          DEF MachineStep, ContinueMachine
<1>3. CASE MachineEnvironment /\ UNCHANGED mw
  <2>1. CASE \E m \in Machines : DeleteMachine(m)
    BY <1>3, <2>1, OwnerOfMachine
  <2>2. CASE Deliver \/ \E m \in Machines : StartProvisioning(m)
    <3>1. /\ \A m \in Machines : Live(machines'[m]) = Live(machines[m])
          /\ \A p \in Pools : Live(pools'[p]) = Live(pools[p])
      BY <1>0, <2>2, Typed, DeliverLive
         DEF Deliver, DeliverMachine, DeliverPool, DeliverIP, DeliverCluster,
             StartProvisioning, stores
    <3>2. /\ \A n \in Machines : \A q \in Pools : Refers(n, q)' <=> Refers(n, q)
          /\ Serving' <=> Serving
      BY <1>3, <3>1 DEF Refers, Serving
    <3> QED BY <1>3, <3>1, <3>2, OwnerStays DEF Allocates
  <2> QED BY <1>3, <2>1, <2>2 DEF MachineEnvironment
<1>4. CASE OtherStep /\ UNCHANGED <<machines, phase, node, mw>>
  BY <1>4, OwnerOfOthers
<1>5. CASE UNCHANGED machineVars
  BY <1>1, <1>5 DEF machineVars, objectVars, Serving
<1>6. ~Restart BY DEF Restart
<1> QED BY <1>2, <1>3, <1>4, <1>5, <1>6, ProviderSteps
        DEF MachineNext, MachineCrash, Crash

(* With fresh reads, answered patches and no restart, the four controllers *)
(* side by side allocate pools as PoolAllocation says: a pool is offered   *)
(* once its node has been probed, goes to one machine at a time, comes     *)
(* back from the machine that had it, and once lost is not offered again.  *)
THEOREM PoolsAllocated ==
    ASSUME MaxLag = 0, "api" \notin Faults, "crash" \notin Faults
    PROVE  ProviderSpec => AllocatesPools
<1>1. ProviderInit => Allocation!Init
  <2> SUFFICES ASSUME ProviderInit PROVE PoolOwner = [p \in Pools |-> "offline"]
    BY DEF Allocation!Init
  <2>1. \A p \in Pools : Live(pools[p]).valid = "unset"
    BY StartedFresh DEF Live, NewPool
  <2> QED BY <2>1 DEF PoolOwner
<1>2. AllocInv /\ [ProviderNext]_providerVars => AllocInv'
  BY AllocNext
<1>3. AllocInv /\ AllocInv' /\ [ProviderNext]_providerVars
        => [Allocation!Next]_PoolOwner
  BY AllocStep, AllocatesSteps
<1> QED BY <1>1, <1>2, <1>3, AllocInit, PTL
        DEF ProviderSpec, AllocatesPools, Allocation!Spec
=============================================================================
