-------------------------- MODULE MachineQueueProofs --------------------------
(***************************************************************************)
(* Theorems about the queue of the machine controller: it only restrains   *)
(* the controller, and no event a machine depends on is lost, for any      *)
(* number of machines and pools and any lag of the caches.                 *)
(***************************************************************************)
EXTENDS MachineQueue, MachineControllerProofs, SequenceTheorems

-----------------------------------------------------------------------------
(* A step of the queue is a step of the controller, or its machine has     *)
(* nothing to do.                                                          *)
LEMMA QueueRefines == [QueueNext]_queueVars => [MachineNext]_machineVars
<1> SUFFICES ASSUME [QueueNext]_queueVars PROVE [MachineNext]_machineVars
  OBVIOUS
<1>1. ASSUME NEW m \in Machines, Reconcile(m)
      PROVE  [MachineNext]_machineVars
  BY <1>1 DEF Reconcile, NothingToDo, MachineNext, MachineStep
<1>2. CASE ReturnError
  BY <1>2 DEF ReturnError, MachineNext, MachineStep, ContinueMachine
<1>3. CASE Proceed
  BY <1>3 DEF Proceed, MachineNext, MachineStep, ContinueMachine
<1>4. CASE Observe
  BY <1>4 DEF Observe, MachineNext
<1>5. CASE RestartQueue
  BY <1>5 DEF RestartQueue, MachineNext
<1>6. CASE UNCHANGED queueVars
  BY <1>6 DEF queueVars
<1> QED BY <1>1, <1>2, <1>3, <1>4, <1>5, <1>6 DEF QueueNext, QueueWork

(* The controller with its queue behaves like the controller that may      *)
(* reconcile any machine at any time: all that is proved of MachineSpec    *)
(* holds with the queue.                                                   *)
THEOREM QueueRestrains == QueueSpec => MachineSpec
<1>1. QueueInit => MachineInit BY DEF QueueInit
<1>2. [QueueNext]_queueVars => [MachineNext]_machineVars BY QueueRefines
<1> QED BY <1>1, <1>2, PTL DEF QueueSpec, MachineSpec

-----------------------------------------------------------------------------
(* Why no event is lost.  An event of a machine is in the queue, or still  *)
(* to come; a version is an event because it differs from the one before.  *)
Stirred(m) == m \in queue \/ Len(machines[m]) > 1

Distinct(log) == \A i \in 1 .. Len(log) - 1 : log[i] # log[i + 1]

Removing(m) == mw.m = m /\ mw.pc \in DeletionSteps

(* The attempt has not patched the poolRef yet. *)
Referring(m) == mw.m = m /\ mw.pc \in AdoptionSteps \cup {"closeSpec"}

QueueInv ==
    /\ TypeInv
    /\ \A m \in Machines : Distinct(machines[m])
    /\ mw.pc = "idle" => mw.m = None
    /\ \A m \in Machines :
          Live(machines[m]).state = "deleting" => Stirred(m) \/ Removing(m)
    /\ \A m \in Machines :
          Referring(m) => Stirred(m) \/ Live(machines[m]).poolRef = mw.had

(* A write is the head's event, an event to come, or no change.            *)
LEMMA PushStirs ==
    ASSUME NEW V, NEW log \in Log(V), NEW v \in V, Distinct(log)
    PROVE  /\ Distinct(Push(log, v))
           /\ \/ Push(log, v) = log
              \/ Len(Push(log, v)) > 1
              \/ Seen(Push(log, v)) # Seen(log)
           /\ Len(Push(log, v)) >= Len(log)
<1>0. MaxLag \in Nat BY ApiAssumption
<1>1. CASE v = Live(log) BY <1>1, LogEnds DEF Push
<1>2. CASE v # Live(log) /\ Len(log) > MaxLag
  <2>1. Push(log, v) = Append(Tail(log), v) /\ Len(log) = MaxLag + 1
    BY <1>0, <1>2 DEF Push, Log
  <2>2. Len(Append(Tail(log), v)) = Len(log)
    BY <2>1, LogEnds
  <2>3. Distinct(Append(Tail(log), v))
    <3> SUFFICES ASSUME NEW i \in 1 .. Len(log) - 1
                 PROVE  Append(Tail(log), v)[i] # Append(Tail(log), v)[i + 1]
      BY <2>2 DEF Distinct
    <3>0. Tail(log) \in Seq(V) /\ Len(Tail(log)) = Len(log) - 1
      BY LogEnds
    <3>1. Append(Tail(log), v)[i] = log[i + 1]
      BY <3>0, LogEnds
    <3>2. CASE i + 1 < Len(log)
      <4>1. i \in Nat /\ i + 1 \in 1 .. Len(log) - 1 BY <3>2, LogEnds
      <4>2. \A j \in 1 .. Len(log) - 1 : log[j] # log[j + 1] BY DEF Distinct
      <4>3. log[i + 1] # log[(i + 1) + 1] BY <4>1, <4>2
      <4>4. Append(Tail(log), v)[i + 1] = log[(i + 1) + 1]
        <5>1. Tail(log)[i + 1] = log[(i + 1) + 1]
          BY <3>0, <3>2, <4>1, HeadTailProperties, LogEnds
        <5> QED BY <3>0, <3>2, <4>1, <5>1, AppendProperties
      <4> QED BY <3>1, <4>3, <4>4
    <3>3. CASE ~(i + 1 < Len(log))
      <4>1. i + 1 = Len(log) BY <3>3, LogEnds
      <4>2. Append(Tail(log), v)[i + 1] = v BY <3>0, <4>1
      <4> QED BY <1>2, <3>1, <4>1, <4>2 DEF Live
    <3> QED BY <3>2, <3>3
  <2>4. CASE MaxLag = 0
    <3>1. Len(log) = 1 /\ Tail(log) \in Seq(V) /\ Len(Tail(log)) = 0
      BY <2>1, <2>4, LogEnds
    <3>2. Seen(Push(log, v)) = v
      <4>1. Append(Tail(log), v)[1] = v
        <5>1. Append(Tail(log), v)[Len(Tail(log)) + 1] = v
          BY ZenonT(30), <3>1, AppendProperties
        <5>2. Len(Tail(log)) + 1 = 1 BY <3>1
        <5> QED BY <5>1, <5>2
      <4>2. Seen(Push(log, v)) = Push(log, v)[1] BY PushLive, LogEnds
      <4> QED BY <2>1, <4>1, <4>2
    <3>3. Seen(log) = Live(log) BY <3>1, LogEnds DEF Live
    <3> QED BY <1>2, <2>1, <2>2, <2>3, <3>2, <3>3
  <2> QED BY <1>0, <2>1, <2>2, <2>3, <2>4
<1>3. CASE v # Live(log) /\ ~(Len(log) > MaxLag)
  <2>1. Push(log, v) = Append(log, v) BY <1>3 DEF Push
  <2>2. Len(Append(log, v)) = Len(log) + 1 BY LogEnds
  <2>3. Distinct(Append(log, v))
    BY <1>3, LogEnds DEF Distinct, Live
  <2> QED BY <2>1, <2>2, <2>3, LogEnds
<1> QED BY <1>1, <1>2, <1>3

(* A watch event that leaves none to come shows the cache another version. *)
LEMMA DeliverStirs ==
    ASSUME NEW V, NEW log \in Log(V), Distinct(log), Len(log) > 1
    PROVE  /\ Distinct(Delivered(log))
           /\ Len(Delivered(log)) > 1 \/ Seen(Delivered(log)) # Seen(log)
BY LogEnds DEF Delivered, Distinct, Seen

(* A cache without an event to come shows the last version. *)
LEMMA LastVersion ==
    ASSUME NEW V, NEW log \in Log(V)
    PROVE  Len(log) > 1 \/ (Len(log) = 1 /\ Seen(log) = Live(log))
<1>1. Len(log) \in Nat /\ Len(log) >= 1 /\ Seen(log) = log[1] BY LogEnds
<1>2. \A n \in Nat : n >= 1 => n > 1 \/ n = 1 OBVIOUS
<1>3. Len(log) > 1 \/ Len(log) = 1 BY <1>1, <1>2
<1> QED BY <1>1, <1>3 DEF Live

(* What one step does to the logs of the machines, if patches are          *)
(* answered.                                                               *)
LEMMA MachineWrites ==
    ASSUME "api" \notin Faults, TypeInv,
           [MachineStep \/ MachineEnvironment]_machineVars
    PROVE  \/ machines' = machines
           \/ \E m \in Machines : DeliverMachine(m)
           \/ \E m \in Machines : \E v \in Machine :
                machines' = [machines EXCEPT ![m] = Push(machines[m], v)]
<1>0. /\ machines \in [Machines -> Log(Machine)]
      /\ \A m \in Machines : Live(machines[m]) \in Machine
      /\ mw.pc # "idle" => mw.m \in Machines
      /\ mw.pc \in CloseSteps => mw.pool \in Pools
  BY EndsTyped DEF TypeInv, MachineTypeOK, ObjectsTypeOK, WorkerShape
<1>a. \A m \in Machines : \A v : machines' \in Patched(machines, m, v) =>
         machines' = [machines EXCEPT ![m] = Push(machines[m], v)]
  BY DEF Patched
<1>1. ASSUME NEW m \in Machines, AddFinalizer(m)
      PROVE  \E v \in Machine :
                machines' = [machines EXCEPT ![m] = Push(machines[m], v)]
  BY <1>0, <1>1, <1>a, MachineVersions DEF AddFinalizer
<1>2. ASSUME NEW m \in Machines,
             StartDeletion(m) \/ \E p \in Pools : AdoptPool(m, p)
      PROVE  machines' = machines
  BY <1>2 DEF StartDeletion, LeaveNode, CleanNode, AdoptPool, objectVars, stores
<1>3. CASE \/ NoBootstrapData \/ SkipProvisioning \/ ConnectFails \/ Connect
           \/ TakePriority \/ CommandsFail \/ CommandsSucceed \/ ReleasePool
  BY <1>3 DEF NoBootstrapData, SkipProvisioning, ConnectFails, Connect,
     TakePriority, CommandsFail, CommandsSucceed, ReleasePool, objectVars, stores
<1>4. CASE CloseSpec
  <2> DEFINE live == Live(machines[mw.m])
             ref == IF mw.pool = mw.had THEN live.poolRef ELSE mw.pool
             id == IF mw.ok THEN ProviderID ELSE live.providerID
             v == Kept(live, [live EXCEPT !.poolRef = ref, !.providerID = id])
  <2>1. mw.m \in Machines /\ mw.pool \in Pools /\ live \in Machine
    BY <1>0, <1>4 DEF CloseSpec, CloseSteps
  <2>2. ref \in Pools \cup {None} /\ id \in Pools \cup {None, NoHost}
    BY <2>1 DEF ProviderID, Machine
  <2>3. machines' \in Patched(machines, mw.m, v)
    BY <1>4 DEF CloseSpec
  <2> HIDE DEF ref, id
  <2>4. v \in Machine BY <2>1, <2>2, MachineVersions
  <2> QED BY <1>a, <2>1, <2>3, <2>4
<1>5. CASE CloseStatus \/ RemoveFinalizer
  <2>1. mw.m \in Machines /\ Live(machines[mw.m]) \in Machine
    BY <1>0, <1>5 DEF CloseStatus, RemoveFinalizer
  <2> QED BY ZenonT(30), <1>5, <1>a, <2>1, MachineVersions
      DEF CloseStatus, RemoveFinalizer
<1>6. CASE MachineEnvironment
  <2>1. ASSUME NEW m \in Machines, DeleteMachine(m)
        PROVE  \E v \in Machine :
                  machines' = [machines EXCEPT ![m] = Push(machines[m], v)]
    BY <1>0, <2>1, MachineVersions DEF DeleteMachine
  <2> QED BY <1>6, <2>1 DEF MachineEnvironment, Deliver, StartProvisioning,
             DeliverPool, DeliverIP, DeliverCluster, stores
<1>7. CASE UNCHANGED machineVars
  BY <1>7 DEF machineVars, objectVars
<1> QED BY <1>1, <1>2, <1>3, <1>4, <1>5, <1>6, <1>7
        DEF MachineStep, ContinueMachine

(* Every step but a restart queues what it wakes. *)
LEMMA QueueSteps ==
    ASSUME QueueNext
    PROVE  \/ RestartQueue
           \/ /\ [MachineStep \/ MachineEnvironment]_machineVars
              /\ Woken \subseteq queue'
<1>1. ASSUME NEW m \in Machines, Reconcile(m)
      PROVE  [MachineStep \/ MachineEnvironment]_machineVars
             /\ Woken \subseteq queue'
  BY <1>1 DEF Reconcile, NothingToDo, MachineStep
<1>2. CASE ReturnError
  BY <1>2 DEF ReturnError, MachineStep, ContinueMachine
<1>3. CASE Proceed
  BY <1>3 DEF Proceed, MachineStep, ContinueMachine
<1>4. CASE Observe
  BY <1>4 DEF Observe
<1> QED BY <1>1, <1>2, <1>3, <1>4 DEF QueueNext, QueueWork

(* Whatever changes a machine puts its key in the queue, at once or when   *)
(* the cache sees the change; only a restart shows the last version        *)
(* without an event, and queues what is left.                              *)
LEMMA ChangesStir ==
    ASSUME "api" \notin Faults, QueueInv, QueueNext, NEW m \in Machines
    PROVE  /\ Distinct(machines[m])'
           /\ ~RestartQueue => machines'[m] = machines[m] \/ Stirred(m)'
<1>0. /\ machines \in [Machines -> Log(Machine)] /\ TypeInv
      /\ Distinct(machines[m])
  BY DEF QueueInv, TypeInv, MachineTypeOK, ObjectsTypeOK
<1>1. CASE RestartQueue
  <2>1. machines'[m] = <<Live(machines[m])>>
    BY <1>0, <1>1, RelistedStore DEF RestartQueue, MachineCrash, Restart
  <2> QED BY <1>1, <2>1 DEF Distinct
<1>2. CASE ~RestartQueue
  <2>1. /\ [MachineStep \/ MachineEnvironment]_machineVars
        /\ Seen(machines'[m]) # Seen(machines[m]) => m \in queue'
    BY <1>2, QueueSteps DEF Woken, Passes
  <2>2. CASE machines' = machines
    BY <1>0, <2>2 DEF Distinct
  <2>3. ASSUME NEW n \in Machines, DeliverMachine(n)
        PROVE  /\ Distinct(machines'[m])
               /\ \/ machines'[m] = machines[m] \/ Len(machines'[m]) > 1
                  \/ Seen(machines'[m]) # Seen(machines[m])
    <3>1. machines'[m] = IF m = n THEN Delivered(machines[m]) ELSE machines[m]
      BY <1>0, <2>3 DEF DeliverMachine
    <3> QED BY <1>0, <2>3, <3>1, DeliverStirs DEF DeliverMachine
  <2>4. ASSUME NEW n \in Machines, NEW v \in Machine,
               machines' = [machines EXCEPT ![n] = Push(machines[n], v)]
        PROVE  /\ Distinct(machines'[m])
               /\ \/ machines'[m] = machines[m] \/ Len(machines'[m]) > 1
                  \/ Seen(machines'[m]) # Seen(machines[m])
    <3>1. machines'[m] = IF m = n THEN Push(machines[m], v) ELSE machines[m]
      BY <1>0, <2>4
    <3> QED BY <1>0, <3>1, PushStirs
  <2> QED BY <1>0, <2>1, <2>2, <2>3, <2>4, MachineWrites DEF Stirred
<1> QED BY <1>1, <1>2

(* A key leaves the queue, or the last event of a machine is seen, only    *)
(* for a reconcile of that machine that reads its last version.            *)
LEMMA StirredStays ==
    ASSUME "api" \notin Faults, QueueInv, QueueNext, NEW m \in Machines,
           Stirred(m)
    PROVE  \/ Stirred(m)'
           \/ Reconcile(m) /\ Seen(machines[m]) = Live(machines[m])
                           /\ machines'[m] = machines[m]
           \/ RestartQueue
<1> SUFFICES ASSUME ~Stirred(m)', ~RestartQueue
             PROVE  Reconcile(m) /\ Seen(machines[m]) = Live(machines[m])
                                 /\ machines'[m] = machines[m]
  OBVIOUS
<1>1. machines'[m] = machines[m] BY ChangesStir
<1>2. Len(machines[m]) = 1 /\ Seen(machines[m]) = Live(machines[m])
  <2>1. machines[m] \in Log(Machine)
    BY DEF QueueInv, TypeInv, MachineTypeOK, ObjectsTypeOK
  <2>2. ~(Len(machines[m]) > 1) BY <1>1 DEF Stirred
  <2> QED BY <2>1, <2>2, LastVersion
<1>3. m \in queue /\ m \notin queue'
  BY <1>1, <1>2 DEF Stirred
<1>4. Reconcile(m)
  BY <1>3 DEF QueueNext, QueueWork, Reconcile, ReturnError, Proceed, Observe
<1> QED BY <1>1, <1>2, <1>4

(* The key of a machine that is left is in the queue after a restart.      *)
LEMMA RestartStirs ==
    ASSUME QueueInv, RestartQueue, NEW m \in Machines
    PROVE  /\ Live(machines'[m]) = Live(machines[m])
           /\ Live(machines'[m]).state # "gone" => Stirred(m)'
           /\ mw' = MachineIdle
<1>1. machines \in [Machines -> Log(Machine)]
  BY DEF QueueInv, TypeInv, MachineTypeOK, ObjectsTypeOK
<1>2. Live(machines'[m]) = Live(machines[m])
  BY <1>1, RelistedStore DEF RestartQueue, MachineCrash, Restart
<1> QED BY <1>2 DEF RestartQueue, Refill, MachineCrash, Stirred

(* How the worker's record changes.                                        *)
LEMMA WorkerSteps ==
    ASSUME QueueInv, QueueNext
    PROVE  \/ mw' = mw
           \/ /\ mw' = MachineIdle
              /\ CloseSpec \/ CloseStatus \/ RemoveFinalizer \/ RestartQueue
           \/ \E m \in Machines : /\ StartDeletion(m) /\ mw.pc = "idle"
                                  /\ mw'.pc \in DeletionSteps /\ mw'.m = m
           \/ \E m \in Machines, p \in Pools :
                /\ AdoptPool(m, p) /\ mw.pc = "idle"
                /\ mw'.pc = "bootstrap" /\ mw'.m = m
           \/ /\ mw.pc \in AdoptionSteps
              /\ mw'.pc \in AdoptionSteps \cup {"closeSpec"}
              /\ mw'.m = mw.m /\ mw'.had = mw.had
           \/ CloseSpec /\ mw'.pc = "closeStatus" /\ mw'.m = mw.m
           \/ /\ mw.pc = "release" /\ mw'.pc = "removeFinalizer"
              /\ mw'.m = mw.m
<1>0. mw \in MachineWorker
  BY DEF QueueInv, TypeInv, MachineTypeOK
<1>1. ASSUME NEW m \in Machines, Reconcile(m)
      PROVE  \/ mw' = mw
             \/ /\ StartDeletion(m) /\ mw.pc = "idle"
                /\ mw'.pc \in DeletionSteps /\ mw'.m = m
             \/ \E p \in Pools : /\ AdoptPool(m, p) /\ mw.pc = "idle"
                                  /\ mw'.pc = "bootstrap" /\ mw'.m = m
  <2>1. CASE StartDeletion(m)
    BY <2>1 DEF StartDeletion, LeaveNode, CleanNode, Deleting, MachineIdle,
                DeletionSteps
  <2>2. CASE \E p \in Pools : AdoptPool(m, p)
    <3>1. PICK p \in Pools : AdoptPool(m, p) BY <2>2
    <3>2. mw.pc = "idle" /\ mw'.pc = "bootstrap" /\ mw'.m = m
      BY <3>1 DEF AdoptPool
    <3> QED BY <3>1, <3>2
  <2>3. CASE NothingToDo(m) \/ AddFinalizer(m)
    BY <2>3 DEF NothingToDo, machineVars, AddFinalizer
  <2> QED BY <1>1, <2>1, <2>2, <2>3 DEF Reconcile
<1>2. CASE \/ NoBootstrapData \/ SkipProvisioning \/ ConnectFails \/ Connect
           \/ TakePriority \/ CommandsFail \/ CommandsSucceed
  <2>1. CASE Connect \/ TakePriority
    <3>1. mw.pc \in AdoptionSteps /\ (Goto("priority") \/ Goto("commands"))
      BY <2>1 DEF Connect, TakePriority, AdoptionSteps
    <3> QED BY <1>0, <3>1 DEF Goto, AdoptionSteps, MachineWorker
  <2>2. CASE ~(Connect \/ TakePriority)
    <3>1. mw.pc \in AdoptionSteps /\ (CloseWith(FALSE) \/ CloseWith(TRUE))
      BY <1>2, <2>2 DEF NoBootstrapData, SkipProvisioning, ConnectFails,
         CommandsFail, CommandsSucceed, AdoptionSteps
    <3> QED BY <1>0, <3>1 DEF CloseWith, MachineWorker
  <2> QED BY <2>1, <2>2
<1>3. CASE CloseSpec
  BY <1>0, <1>3 DEF CloseSpec, Goto, MachineWorker
<1>4. CASE CloseStatus \/ RemoveFinalizer
  BY <1>4 DEF CloseStatus, RemoveFinalizer
<1>5. CASE ReleasePool
  BY <1>0, <1>5 DEF ReleasePool, Goto, MachineWorker
<1>6. CASE Observe
  BY <1>6 DEF Observe
<1>7. CASE RestartQueue
  BY <1>7 DEF RestartQueue, MachineCrash
<1> QED BY <1>1, <1>2, <1>3, <1>4, <1>5, <1>6, <1>7
        DEF QueueNext, QueueWork, ReturnError, Proceed

(* Where the queue starts, no machine is deleted and the worker is idle.   *)
LEMMA QueueStart == QueueInit => QueueInv
<1> SUFFICES ASSUME QueueInit PROVE QueueInv
  OBVIOUS
<1>1. TypeInv BY TypeInit DEF QueueInit
<1>2. \A m \in Machines : machines[m] = <<NewMachine>>
  BY DEF QueueInit, MachineInit
<1>3. mw = MachineIdle BY DEF QueueInit, MachineInit
<1>4. \A m \in Machines : Distinct(machines[m]) /\ m \in queue
  BY <1>2 DEF Distinct, QueueInit
<1> QED BY <1>1, <1>3, <1>4 DEF QueueInv, MachineIdle, Stirred

(* Every step keeps the invariant, if patches are answered. *)
LEMMA QueueKeeps ==
    ASSUME "api" \notin Faults, QueueInv, [QueueNext]_queueVars
    PROVE  QueueInv'
<1> USE DEF AdoptionSteps, CloseSteps, DeletionSteps
<1>0. /\ TypeInv /\ TypeInv'
      /\ machines \in [Machines -> Log(Machine)]
      /\ \A m \in Machines : Live(machines[m]) \in Machine
      /\ mw \in MachineWorker
      /\ mw.pc # "idle" => mw.m \in Machines
      /\ None \notin Machines
  BY QueueRefines, TypeNext, EndsTyped, ObjectsAssumption
     DEF QueueInv, TypeInv, MachineTypeOK, ObjectsTypeOK, WorkerShape
<1>1. CASE UNCHANGED queueVars
  BY <1>0, <1>1 DEF queueVars, machineVars, objectVars, QueueInv, Stirred,
     Removing, Referring
<1>2. CASE QueueNext
  <2>1. \A m \in Machines : Distinct(machines'[m])
    BY <1>2, ChangesStir
  <2>2. mw'.pc = "idle" => mw'.m = None
    BY <1>2, WorkerSteps DEF QueueInv, MachineIdle
  <2>3. ASSUME NEW m \in Machines, Live(machines'[m]).state = "deleting",
               ~Stirred(m)'
        PROVE  Removing(m)'
    <3>1. ~RestartQueue BY <1>2, <2>3, RestartStirs
    <3>2. machines'[m] = machines[m] BY <1>2, <2>3, <3>1, ChangesStir
    <3>3. CASE Stirred(m)
      <4>1. Reconcile(m) /\ Seen(machines[m]) = Live(machines[m])
        BY <1>2, <2>3, <3>1, <3>3, StirredStays
      <4>2. StartDeletion(m)
        BY <2>3, <3>2, <4>1 DEF Reconcile, NothingToDo, AddFinalizer, AdoptPool,
           Provisionable
      <4> QED BY <4>2 DEF StartDeletion, LeaveNode, CleanNode, MachineIdle, Removing
    <3>4. CASE ~Stirred(m)
      <4>1. Removing(m) BY <2>3, <3>2, <3>4 DEF QueueInv
      <4>2. ASSUME RemoveFinalizer PROVE FALSE
        <5>1. Live(machines[m]) \in Machine BY <1>0
        <5>2. Kept(Live(machines[m]), Gone(Live(machines[m]))) \in Machine
          BY <5>1, MachineVersions
        <5>3. machines' \in Patched(machines, m,
                  Kept(Live(machines[m]), Gone(Live(machines[m]))))
          BY <4>1, <4>2 DEF Removing, RemoveFinalizer
        <5>4. Live(machines'[m]) = Kept(Live(machines[m]), Gone(Live(machines[m])))
          BY <1>0, <5>2, <5>3, PatchedStore, PushLive
        <5> QED BY <2>3, <5>1, <5>4 DEF Kept, Gone, Machine
      <4> QED BY <1>2, <3>1, <4>1, <4>2, WorkerSteps
              DEF Removing, CloseSpec, CloseStatus
    <3> QED BY <3>3, <3>4
  <2>4. ASSUME NEW m \in Machines, Referring(m)', ~Stirred(m)'
        PROVE  Live(machines'[m]).poolRef = mw'.had
    <3>1. ~RestartQueue
      BY <2>4, RestartStirs DEF MachineIdle, Referring
    <3>2. machines'[m] = machines[m] BY <1>2, <2>4, <3>1, ChangesStir
    <3>3. CASE mw.pc = "idle"
      <4>1. \E n \in Machines, p \in Pools : AdoptPool(n, p) /\ mw'.m = n
        BY <1>0, <1>2, <2>4, <3>3, WorkerSteps
           DEF QueueInv, Referring, MachineIdle
      <4>2. PICK p \in Pools : AdoptPool(m, p)
        BY <2>4, <4>1 DEF Referring
      <4>3. mw'.had = Seen(machines[m]).poolRef
        BY <4>2 DEF AdoptPool
      <4>4. ~(Len(machines[m]) > 1)
        BY <2>4, <3>2 DEF Stirred
      <4>5. Seen(machines[m]) = Live(machines[m])
        BY <1>0, <4>4, LastVersion
      <4> QED BY <3>2, <4>3, <4>5
    <3>4. CASE mw.pc # "idle"
      <4>1. Referring(m) /\ mw'.had = mw.had
        BY <1>2, <2>4, <3>1, <3>4, WorkerSteps
           DEF Referring, MachineIdle, CloseSpec
      <4>2. ~Reconcile(m)
        BY <3>4 DEF Reconcile, NothingToDo, AddFinalizer, AdoptPool,
           StartDeletion, LeaveNode, CleanNode, Deleting
      <4>3. ~Stirred(m) BY <1>2, <2>4, <3>1, <4>2, StirredStays
      <4> QED BY <3>2, <4>1, <4>3 DEF QueueInv
    <3> QED BY <3>3, <3>4
  <2> QED BY <1>0, <2>1, <2>2, <2>3, <2>4 DEF QueueInv
<1> QED BY <1>1, <1>2

(* When patches are answered, however the caches lag, whatever nodes do    *)
(* and however often the manager restarts, the event of a deletion waits   *)
(* in the queue or is still to come until the removal has begun.           *)
THEOREM DeletionsRemembered ==
    ASSUME "api" \notin Faults
    PROVE  QueueSpec => []DeletionRemembered
<1>1. QueueInit => QueueInv BY QueueStart
<1>2. QueueInv /\ [QueueNext]_queueVars => QueueInv' BY QueueKeeps
<1>3. QueueInv => DeletionRemembered
  BY DEF QueueInv, DeletionRemembered, Stirred, Removing
<1> QED BY <1>1, <1>2, <1>3, PTL DEF QueueSpec

-----------------------------------------------------------------------------
(* The phase of a Machine only ever leaves Pending. *)
LEMMA PhaseSteps ==
    ASSUME QueueInv, [MachineStep \/ MachineEnvironment]_machineVars,
           NEW m \in Machines
    PROVE  phase'[m] = phase[m] \/ phase[m] = "Pending"
<1>0. phase \in [Machines -> {"Pending", "Provisioning"}]
  BY DEF QueueInv, TypeInv, MachineTypeOK, ObjectsTypeOK
<1>1. CASE MachineStep
  BY <1>1 DEF MachineStep, ContinueMachine, AddFinalizer, StartDeletion,
     LeaveNode, CleanNode, AdoptPool, NoBootstrapData, SkipProvisioning,
     ConnectFails, Connect, TakePriority, CommandsFail, CommandsSucceed,
     CloseSpec, CloseStatus, ReleasePool, RemoveFinalizer, objectVars
<1>2. CASE MachineEnvironment
  BY <1>0, <1>2 DEF MachineEnvironment, StartProvisioning, DeleteMachine, Deliver,
     DeliverMachine, DeliverPool, DeliverIP, DeliverCluster
<1>3. CASE UNCHANGED machineVars
  BY <1>3 DEF machineVars, objectVars
<1> QED BY <1>1, <1>2, <1>3

(* A machine that falls asleep does so in the step that ends its reconcile:*)
(* nothing of it changes, and its last event has been seen.                *)
LEMMA FallsAsleep ==
    ASSUME "api" \notin Faults, QueueInv, QueueNext, NEW m \in Machines,
           ~Asleep(m), Asleep(m)'
    PROVE  \/ Candidates = {}
           \/ mw.m = m /\ mw.pool = mw.had
<1>0. /\ machines \in [Machines -> Log(Machine)]
      /\ \A n \in Machines : Live(machines[n]) \in Machine
      /\ mw.pc # "idle" => mw.m \in Machines
      /\ mw.pc \in CloseSteps => mw.pool \in Pools
      /\ None \notin Machines
  BY EndsTyped, ObjectsAssumption
     DEF QueueInv, TypeInv, MachineTypeOK, ObjectsTypeOK, WorkerShape
<1>1. Unfinished(m)' /\ ~Stirred(m)' /\ mw'.m # m
  BY DEF Asleep, Stirred
<1>2. ~RestartQueue
  BY <1>1, RestartStirs DEF Unfinished
<1>3. machines'[m] = machines[m] BY <1>1, <1>2, ChangesStir
<1>4. Len(machines[m]) = 1 /\ Seen(machines[m]) = Live(machines[m])
  BY <1>0, <1>1, <1>3, LastVersion DEF Stirred
<1>5. Unfinished(m)
  <2>1. phase'[m] = "Provisioning" /\ Live(machines[m]).state = "live"
        /\ ~Live(machines[m]).ready
    BY <1>1, <1>3 DEF Unfinished
  <2>2. phase'[m] = phase[m] \/ phase[m] = "Pending"
    BY <1>2, QueueSteps, PhaseSteps
  <2>3. phase[m] # "Pending"
    BY <1>1, <1>2, <1>4, <2>1, QueueSteps DEF Woken, Mapped, Stirred
  <2> QED BY <1>1, <1>3, <2>1, <2>2, <2>3 DEF Unfinished
<1>6. Stirred(m) \/ mw.m = m
  BY <1>4, <1>5 DEF Asleep, Stirred
<1>7. CASE Stirred(m)
  <2>1. Reconcile(m) BY <1>1, <1>2, <1>7, StirredStays
  <2>2. Seen(machines[m]).state = "live" /\ Provisionable(m)
    BY <1>4, <1>5 DEF Unfinished, Provisionable
  <2>3. ~AddFinalizer(m)
    BY <2>2 DEF AddFinalizer, Provisionable
  <2>4. ~StartDeletion(m)
    BY <2>2 DEF StartDeletion, LeaveNode, CleanNode, Deleting
  <2>5. \A p \in Pools : ~AdoptPool(m, p)
    BY <1>1 DEF AdoptPool
  <2>6. NothingToDo(m) BY <2>1, <2>3, <2>4, <2>5 DEF Reconcile
  <2> QED BY <2>2, <2>6 DEF NothingToDo, Provisionable
<1>8. CASE mw.m = m /\ ~Stirred(m)
  <2>1. mw.pc # "idle" BY <1>0, <1>8 DEF QueueInv
  <2>2. CloseSpec \/ CloseStatus \/ RemoveFinalizer
    BY <1>1, <1>2, <1>8, <2>1, WorkerSteps
  <2> DEFINE live == Live(machines[m])
             ref == IF mw.pool = mw.had THEN live.poolRef ELSE mw.pool
             id == IF mw.ok THEN ProviderID ELSE live.providerID
  <2>3. /\ live \in Machine /\ live.state = "live" /\ ~live.ready
        /\ Live(machines'[m]) = live
    BY <1>0, <1>3, <1>5 DEF Unfinished
  <2>4. ASSUME NEW v \in Machine, machines' \in Patched(machines, m, Kept(live, v))
        PROVE  v = live
    <3>1. Kept(live, v) = v BY <2>3 DEF Kept
    <3>2. Live(machines'[m]) = v
      BY <1>0, <2>4, <3>1, PatchedStore, PushLive
    <3> QED BY <2>3, <3>2
  <2>5. CASE RemoveFinalizer
    <3>1. Gone(live) \in Machine BY <2>3, MachineVersions
    <3>2. Gone(live) = live
      BY <1>8, <2>4, <2>5, <3>1 DEF RemoveFinalizer
    <3> QED BY <2>3, <3>2 DEF Gone, Machine
  <2>6. CASE CloseStatus
    <3>1. [live EXCEPT !.ready = TRUE] \in Machine BY <2>3, MachineVersions
    <3>2. [live EXCEPT !.ready = TRUE] = live
      BY <1>8, <2>4, <2>6, <3>1 DEF CloseStatus
    <3> QED BY <2>3, <3>2 DEF Machine
  <2>7. CASE CloseSpec
    <3>1. ref \in Pools \cup {None} /\ id \in Pools \cup {None, NoHost}
      BY <1>0, <2>3, <2>7 DEF CloseSpec, CloseSteps, ProviderID, Machine
    <3>2. machines' \in Patched(machines, m, Kept(live,
                [live EXCEPT !.poolRef = ref, !.providerID = id]))
      BY <1>8, <2>7 DEF CloseSpec
    <3> HIDE DEF id, ref
    <3>3. [live EXCEPT !.poolRef = ref, !.providerID = id] = live
      BY <2>3, <2>4, <3>1, <3>2, MachineVersions
    <3>4. live.poolRef = ref BY <2>3, <3>3 DEF Machine
    <3>5. live.poolRef = mw.had
      BY <1>8, <2>7 DEF CloseSpec, QueueInv, Referring
    <3> QED BY <1>8, <3>4, <3>5 DEF ref
  <2> QED BY <2>2, <2>5, <2>6, <2>7
<1> QED BY <1>6, <1>7, <1>8

(* When patches are answered, a machine is forgotten only for want of a    *)
(* free pool or after taking again the pool it already refers to.          *)
THEOREM SleepersWantPools ==
    ASSUME "api" \notin Faults
    PROVE  QueueSpec => SleepsForWantOfPools
<1>1. QueueInit => QueueInv BY QueueStart
<1>2. QueueInv /\ [QueueNext]_queueVars => QueueInv' BY QueueKeeps
<1>3. QueueInv /\ [QueueNext]_queueVars =>
        [\A m \in Machines :
            ~Asleep(m) /\ Asleep(m)' =>
                \/ Candidates = {}
                \/ mw.m = m /\ mw.pool = mw.had]_queueVars
  BY FallsAsleep
<1> QED BY <1>1, <1>2, <1>3, PTL DEF QueueSpec, SleepsForWantOfPools
=============================================================================
