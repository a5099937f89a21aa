---------------------------- MODULE MachineQueue ----------------------------
(***************************************************************************)
(* The work queue of the HyperMachine controller: a reconcile runs because *)
(* an event has put the machine's key in the queue, and a machine whose    *)
(* key is not there waits until the next event, however much there is to   *)
(* do for it.                                                              *)
(*                                                                         *)
(* The queue holds a key once.  A key added while its machine is           *)
(* reconciled waits for the end of that reconcile, so a set is enough.     *)
(***************************************************************************)
EXTENDS MachineController

VARIABLE queue   \* the machines whose key waits for the worker

queueVars == <<machineVars, queue>>

(* Mutant of Passes: the filter compares the specifications. *)
SpecDiffers(old, new) ==
    \/ old.poolRef # new.poolRef
    \/ old.providerID # new.providerID

(* UpdateFunc compares the objects without their status.  Every write      *)
(* changes the resourceVersion, so every version passes, also one that     *)
(* differs in its status alone; only a resync, which changes nothing, is   *)
(* filtered out.  Creations and deletions pass unseen by UpdateFunc.       *)
Passes(old, new) == old # new

(* requeueHyperMachinesForBootStrapData: the one update of a Machine that  *)
(* passes is from Pending to Provisioning, unless the machine is deleted   *)
(* or the cached HyperMachine is ready.                                    *)
Mapped(m) == /\ phase[m] = "Pending" /\ phase'[m] = "Provisioning"
             /\ Live(machines[m]).state = "live"
             /\ ~Seen(machines[m]).ready

(* The keys the watch events of a step put in the queue.  No event of a    *)
(* machine pool or of a Secret is watched.                                 *)
Woken == {m \in Machines : \/ Passes(Seen(machines[m]), Seen(machines'[m]))
                           \/ Mapped(m)}

-----------------------------------------------------------------------------
(* A reconcile that returns at once: the object is gone, there is nothing  *)
(* to do for it yet, or no pool is free.                                   *)
NothingToDo(m) ==
    LET seen == Seen(machines[m])
    IN  /\ mw.pc = "idle"
        /\ \/ seen.state = "gone"
           \/ seen.state = "live" /\ seen.finalizer /\ ~Provisionable(m)
           \/ Provisionable(m) /\ Candidates = {}
        /\ UNCHANGED machineVars

(* The worker takes the key of m out of the queue. *)
Reconcile(m) ==
    /\ m \in queue
    /\ \/ NothingToDo(m)
       \/ AddFinalizer(m)
       \/ \E p \in Pools : AdoptPool(m, p)
       \/ StartDeletion(m)
    /\ queue' = (queue \ {m}) \cup Woken

(* Of all returns after the first read, only the failure of a node returns *)
(* an error, and only an error puts the key back.                          *)
ReturnError ==
    /\ ConnectFails \/ CommandsFail
    /\ queue' = queue \cup {mw.m} \cup Woken

Proceed ==
    /\ \/ NoBootstrapData \/ SkipProvisioning \/ Connect
       \/ TakePriority \/ CommandsSucceed
       \/ CloseSpec \/ CloseStatus \/ ReleasePool \/ RemoveFinalizer
    /\ queue' = queue \cup Woken

Observe ==
    /\ MachineEnvironment /\ UNCHANGED mw
    /\ queue' = queue \cup Woken

(* The queue is in memory: a restarted manager lists the HyperMachines and *)
(* gets a creation event for each.                                         *)
Refill == {m \in Machines : Live(machines[m]).state # "gone"}

RestartQueue ==
    /\ MachineCrash
    /\ queue' = Refill

QueueInit == MachineInit /\ queue = Machines

QueueWork ==
    \/ \E m \in Machines : Reconcile(m)
    \/ ReturnError \/ Proceed
    \/ Observe

QueueNext == QueueWork \/ RestartQueue

QueueSpec == QueueInit /\ [][QueueNext]_queueVars

(* The manager does not die again and again, the caches catch up, the      *)
(* queue, which is first-in first-out, reaches every key it holds, and a   *)
(* reconcile in progress goes on.  The last is an assumption on the nodes: *)
(* a command sent to one ends or fails.  The code does not see to it, only *)
(* the dial of SSHConnect has a timeout.                                   *)
QueueFairSpec ==
    /\ QueueSpec
    /\ <>[][QueueWork]_queueVars
    /\ WF_queueVars(ReturnError \/ Proceed)
    /\ \A m \in Machines :
          /\ WF_queueVars(DeliverMachine(m) /\ Observe)
          /\ SF_queueVars(Reconcile(m))
    /\ \A p \in Pools : WF_queueVars(DeliverPool(p) /\ Observe)

-----------------------------------------------------------------------------
(* The event of a deletion is not lost, although the reconcile that sees   *)
(* it may be busy with an attempt on the same machine: as long as the      *)
(* finalizer keeps a deleted machine, its key is in the queue, its removal *)
(* is in progress, or its cache has an event to come.                      *)
DeletionRemembered ==
    \A m \in Machines :
        Live(machines[m]).state = "deleting" =>
            \/ m \in queue
            \/ mw.m = m
            \/ Len(machines[m]) > 1

(* A machine that waits for a node. *)
Unfinished(m) ==
    LET live == Live(machines[m])
    IN  /\ live.state = "live" /\ live.finalizer
        /\ ~live.ready /\ live.providerID = None
        /\ phase[m] = "Provisioning"

(* ... and that no key, no reconcile and no event of its own will bring on.*)
Asleep(m) ==
    /\ Unfinished(m)
    /\ m \notin queue /\ mw.m # m /\ Len(machines[m]) = 1

(* A machine is forgotten in two cases only: no pool is free, or a retry   *)
(* has taken again the pool the machine already refers to.  Every other    *)
(* attempt that ends without bootstrap data is repeated, although          *)
(* reconcileMachineNormal returns no error then: its own change of poolRef *)
(* is the event that wakes it.                                             *)
SleepsForWantOfPools ==
    [][\A m \in Machines :
          ~Asleep(m) /\ Asleep(m)' =>
              \/ Candidates = {}
              \/ mw.m = m /\ mw.pool = mw.had]_queueVars

(* Retries come to an end: a machine that waits for a node is given one,   *)
(* is deleted, or has used up the free pools and sleeps.                   *)
AttemptsSettle ==
    \A m \in Machines : Unfinished(m) ~> (~Unfinished(m) \/ Asleep(m))

(* "BootStrap Controller has not yet set bootstrap data",                  *)
(* hypermachine_controller.go:153: where nodes do not fail, the data is    *)
(* all a machine with a pool is waiting for, and it is looked at again.    *)
DataAwaited ==
    \A m \in Machines : Asleep(m) => Live(machines[m]).poolRef = None
=============================================================================
