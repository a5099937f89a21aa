-------------------------- MODULE MachineController --------------------------
(***************************************************************************)
(* HyperMachineReconciler: one worker that adopts a free machine pool for  *)
(* a HyperMachine, provisions its node over SSH, publishes the result, and *)
(* on deletion cleans the node and frees the pool.                         *)
(*                                                                         *)
(* A reconcile is a sequence of actions, one for each stretch between two  *)
(* calls that another controller, a watch event or a crash can separate.   *)
(* What it read from the cache at its start stays in mw until it ends.     *)
(***************************************************************************)
EXTENDS HyperObjects, FiniteSets

VARIABLE mw   \* the worker of the HyperMachine queue

(* m, had, hip: the machine reconciled, the poolRef and the cluster's IP   *)
(* pool name it was read with.  pool, snap: the pool taken and the copy of *)
(* it the code keeps.  ok: doProvisioning returned no error.               *)
MachineIdle == [pc |-> "idle", m |-> None, had |-> None, hip |-> None,
                pool |-> None, snap |-> NewPool, ok |-> FALSE]

AdoptionSteps == {"bootstrap", "priority", "commands"}
CloseSteps == {"closeSpec", "closeStatus"}
DeletionSteps == {"release", "removeFinalizer"}

MachineWorker ==
    [pc : {"idle"} \cup AdoptionSteps \cup CloseSteps \cup DeletionSteps,
     m : Machines \cup {None}, had : Pools \cup {None},
     hip : IPs \cup {None}, pool : Pools \cup {None}, snap : Pool,
     ok : BOOLEAN]

machineVars == <<objectVars, mw>>

Goto(pc) == mw' = [mw EXCEPT !.pc = pc]

(* Mutant of CloseWith: the status is published first. *)
CloseStatusFirst(ok) ==
    mw' = [mw EXCEPT !.pc = IF ok THEN "closeStatus" ELSE "closeSpec",
                     !.ok = ok]

(* The worker ends its attempt: deferred scope.Close, with or without the  *)
(* fields SetReady and SetProviderID have set.                             *)
CloseWith(ok) == mw' = [mw EXCEPT !.pc = "closeSpec", !.ok = ok]

-----------------------------------------------------------------------------
(* A reconcile of a live machine without our finalizer only adds it.  The  *)
(* deletion timestamp is fixed once set, so the patch of an object already *)
(* deleted finds nothing.                                                  *)
AddFinalizer(m) ==
    LET seen == Seen(machines[m])
        live == Live(machines[m])
    IN  /\ mw.pc = "idle"
        /\ seen.state = "live" /\ ~seen.finalizer
        /\ machines' \in Patched(machines, m,
                           Kept(live, [live EXCEPT !.finalizer = TRUE]))
        /\ UNCHANGED <<pools, ips, clusters, phase, node, mw>>

(* Mutant of FreePools: a list that forgets the cluster label. *)
ValidPoolsOnly == {p \in Pools : Seen(pools[p]).valid = "true"}

(* The two lists of getHyperMachinePool: pools a cluster has marked with   *)
(* the master label are preferred, for any machine.                        *)
FreePools == {p \in Pools : /\ Seen(pools[p]).valid = "true"
                            /\ Seen(pools[p]).cluster = Blank}

(* Mutant of MarkedPools: only the second list asks for a free pool. *)
MarkedOrTaken == {p \in Pools : /\ Seen(pools[p]).valid = "true"
                                /\ Seen(pools[p]).master}

MarkedPools == {p \in FreePools : Seen(pools[p]).master}

Candidates == IF MarkedPools # {} THEN MarkedPools ELSE FreePools

(* Mutants of Provisionable: without the check of the deletion timestamp,  *)
(* of the finalizer, of the providerID.                                    *)
ProvisionableDeleting(m) ==
    /\ Seen(machines[m]).finalizer /\ ~Seen(machines[m]).ready
    /\ Seen(machines[m]).providerID = None
    /\ phase[m] = "Provisioning"

ProvisionableUnguarded(m) ==
    /\ Seen(machines[m]).state = "live" /\ ~Seen(machines[m]).ready
    /\ Seen(machines[m]).providerID = None
    /\ phase[m] = "Provisioning"

ProvisionableUntilReady(m) ==
    /\ Seen(machines[m]).state = "live" /\ Seen(machines[m]).finalizer
    /\ ~Seen(machines[m]).ready
    /\ phase[m] = "Provisioning"

Provisionable(m) ==
    /\ Seen(machines[m]).state = "live" /\ Seen(machines[m]).finalizer
    /\ ~Seen(machines[m]).ready
    /\ Seen(machines[m]).providerID = None
    /\ phase[m] = "Provisioning"

(* The count of an IP pool a master's attempt may still raise. *)
CountLeft(hip) ==
    hip # None => (Live(ips[hip]) \in Nat => Live(ips[hip]) < MaxCount)

(* Mutant of AdoptPool: the label gets the name of the machine, not of its *)
(* cluster.                                                                *)
AdoptPoolByName(m, p) ==
    LET hip == Seen(clusters[ClusterOf[m]]).hip
    IN  /\ mw.pc = "idle"
        /\ Provisionable(m)
        /\ m \in Masters => CountLeft(hip)
        /\ p \in Candidates
        /\ pools' \in Patched(pools, p, [Live(pools[p]) EXCEPT !.cluster = m])
        /\ mw' = [pc |-> "bootstrap", m |-> m,
                  had |-> Seen(machines[m]).poolRef, hip |-> hip,
                  pool |-> p, snap |-> Seen(pools[p]), ok |-> FALSE]
        /\ UNCHANGED <<machines, ips, clusters, phase, node>>

AdoptPool(m, p) ==
    LET hip == Seen(clusters[ClusterOf[m]]).hip
    IN  /\ mw.pc = "idle"
        /\ Provisionable(m)
        /\ m \in Masters => CountLeft(hip)
        /\ p \in Candidates
        /\ pools' \in Patched(pools, p,
                        [Live(pools[p]) EXCEPT !.cluster = ClusterOf[m]])
        /\ mw' = [pc |-> "bootstrap", m |-> m,
                  had |-> Seen(machines[m]).poolRef, hip |-> hip,
                  pool |-> p, snap |-> Seen(pools[p]), ok |-> FALSE]
        /\ UNCHANGED <<machines, ips, clusters, phase, node>>

(* The Secret comes from another cache than the Machine, so it may be      *)
(* missing although the phase is Provisioning.                             *)
NoBootstrapData ==
    /\ mw.pc = "bootstrap"
    /\ CloseWith(FALSE)
    /\ UNCHANGED objectVars

(* doProvisioning knows two values of status.os and reports success for    *)
(* every other one.                                                        *)
SkipProvisioning ==
    /\ mw.pc = "bootstrap"
    /\ mw.snap.os # "supported"
    /\ CloseWith(TRUE)
    /\ UNCHANGED objectVars

ConnectFails ==
    /\ "ssh" \in Faults
    /\ mw.pc = "bootstrap"
    /\ mw.snap.os = "supported"
    /\ CloseWith(FALSE)
    /\ UNCHANGED objectVars

Connect ==
    /\ mw.pc = "bootstrap"
    /\ mw.snap.os = "supported"
    /\ Goto(IF mw.m \in Masters THEN "priority" ELSE "commands")
    /\ UNCHANGED objectVars

(* Mutant of TakePriority: the count is not written back. *)
PriorityNotCounted ==
    LET count == IF mw.hip = None THEN None ELSE Seen(ips[mw.hip])
    IN  /\ mw.pc = "priority"
        /\ node' = [node EXCEPT
                      ![mw.pool].vrrp = IF count \in Nat THEN 100 - count
                                                         ELSE Blank]
        /\ Goto("commands")
        /\ UNCHANGED <<stores, phase>>

(* hipNum2Pri: the count is read from the cache and written back one       *)
(* higher; keepalived gets what is left of 100, or an empty string.        *)
TakePriority ==
    LET count == IF mw.hip = None THEN None ELSE Seen(ips[mw.hip])
    IN  /\ mw.pc = "priority"
        /\ IF count \in Nat
           THEN ips' \in Patched(ips, mw.hip, count + 1)
           ELSE UNCHANGED ips
        /\ node' = [node EXCEPT
                      ![mw.pool].vrrp = IF count \in Nat THEN 100 - count
                                                         ELSE Blank]
        /\ Goto("commands")
        /\ UNCHANGED <<machines, pools, clusters, phase>>

(* Mutant of CommandsFail: the error of a command is not returned. *)
CommandsFailUnseen ==
    /\ "ssh" \in Faults
    /\ mw.pc = "commands"
    /\ CloseWith(TRUE)
    /\ UNCHANGED objectVars

(* Writing a file or running the bootstrap command failed half way. *)
CommandsFail ==
    /\ "ssh" \in Faults
    /\ mw.pc = "commands"
    /\ node' = [node EXCEPT ![mw.pool].kubeadm = TRUE]
    /\ CloseWith(FALSE)
    /\ UNCHANGED <<stores, phase>>

CommandsSucceed ==
    /\ mw.pc = "commands"
    /\ node' = [node EXCEPT ![mw.pool] =
                  [@ EXCEPT !.kubeadm = TRUE, !.joined = mw.m]]
    /\ CloseWith(TRUE)
    /\ UNCHANGED <<stores, phase>>

ProviderID == IF mw.snap.host THEN mw.pool ELSE NoHost

(* Mutant of CloseSpec: a failed attempt returns without its patch. *)
CloseSpecOfSuccess ==
    LET live == Live(machines[mw.m])
    IN  /\ mw.pc = "closeSpec"
        /\ machines' \in IF ~mw.ok THEN {machines}
              ELSE Patched(machines, mw.m, Kept(live,
                     [live EXCEPT !.poolRef = mw.pool,
                                  !.providerID = ProviderID]))
        /\ IF mw.ok THEN Goto("closeStatus") ELSE mw' = MachineIdle
        /\ UNCHANGED <<pools, ips, clusters, phase, node>>

(* scope.Close patches metadata and spec first: the fields that differ     *)
(* from the version the machine was read with.                             *)
CloseSpec ==
    LET live == Live(machines[mw.m])
    IN  /\ mw.pc = "closeSpec"
        /\ machines' \in Patched(machines, mw.m, Kept(live,
             [live EXCEPT
                !.poolRef = IF mw.pool = mw.had THEN @ ELSE mw.pool,
                !.providerID = IF mw.ok THEN ProviderID ELSE @]))
        /\ IF mw.ok THEN Goto("closeStatus") ELSE mw' = MachineIdle
        /\ UNCHANGED <<pools, ips, clusters, phase, node>>

(* ... and the status in a second call, whatever became of the first. *)
CloseStatus ==
    LET live == Live(machines[mw.m])
    IN  /\ mw.pc = "closeStatus"
        /\ machines' \in Patched(machines, mw.m,
                           Kept(live, [live EXCEPT !.ready = TRUE]))
        /\ mw' = MachineIdle
        /\ UNCHANGED <<pools, ips, clusters, phase, node>>

-----------------------------------------------------------------------------
(* reconcileMachineDelete: without a poolRef, or when the node cannot be   *)
(* reached, the finalizer is all that is left to remove.                   *)
Deleting(m) == /\ mw.pc = "idle"
               /\ Seen(machines[m]).state = "deleting"

(* Mutant of LeaveNode: the pool is freed although its node was not        *)
(* reached.                                                                *)
ReleaseUnreached(m) ==
    LET p == Seen(machines[m]).poolRef
    IN  /\ Deleting(m)
        /\ p # None /\ "ssh" \in Faults
        /\ mw' = [MachineIdle EXCEPT !.pc = "release", !.m = m, !.pool = p,
                                     !.snap = Seen(pools[p])]
        /\ UNCHANGED objectVars

LeaveNode(m) ==
    /\ Deleting(m)
    /\ Seen(machines[m]).poolRef = None \/ "ssh" \in Faults
    /\ mw' = [MachineIdle EXCEPT !.pc = "removeFinalizer", !.m = m]
    /\ UNCHANGED objectVars

(* kubeadm reset and the purge of keepalived: their errors are dropped,    *)
(* and keepalived is only purged from a node of a known OS.                *)
Cleaned(p, reset, purged) ==
    [kubeadm |-> node[p].kubeadm /\ ~reset,
     joined |-> IF reset THEN None ELSE node[p].joined,
     vrrp |-> IF purged THEN None ELSE node[p].vrrp]

CleanNode(m) ==
    LET p == Seen(machines[m]).poolRef
    IN  /\ Deleting(m)
        /\ p # None
        /\ \E reset, purged \in BOOLEAN :
              /\ (reset /\ purged) \/ "reset" \in Faults
              /\ node' = [node EXCEPT ![p] = Cleaned(p, reset,
                            purged /\ Seen(pools[p]).os = "supported")]
        /\ mw' = [MachineIdle EXCEPT !.pc = "release", !.m = m,
                                     !.pool = p, !.snap = Seen(pools[p])]
        /\ UNCHANGED <<stores, phase>>

(* The labels are cleared by their difference to the copy of the pool that *)
(* was read before the node was cleaned.                                   *)
ReleasePool ==
    LET live == Live(pools[mw.pool])
    IN  /\ mw.pc = "release"
        /\ pools' \in Patched(pools, mw.pool,
             [live EXCEPT
                !.cluster = IF mw.snap.cluster = Blank THEN @ ELSE Blank,
                !.master = @ /\ ~mw.snap.master])
        /\ Goto("removeFinalizer")
        /\ UNCHANGED <<machines, ips, clusters, phase, node>>

(* Mutant of RemoveFinalizer: the early return of a machine without a pool *)
(* skips the finalizer too.                                                *)
RemoveFinalizerOfAdopters ==
    LET live == Live(machines[mw.m])
    IN  /\ mw.pc = "removeFinalizer"
        /\ machines' \in IF mw.pool = None THEN {machines}
                         ELSE Patched(machines, mw.m, Kept(live, Gone(live)))
        /\ mw' = MachineIdle
        /\ UNCHANGED <<pools, ips, clusters, phase, node>>

RemoveFinalizer ==
    LET live == Live(machines[mw.m])
    IN  /\ mw.pc = "removeFinalizer"
        /\ machines' \in Patched(machines, mw.m, Kept(live, Gone(live)))
        /\ mw' = MachineIdle
        /\ UNCHANGED <<pools, ips, clusters, phase, node>>

-----------------------------------------------------------------------------
(* The steps that end a reconcile already begun. *)
ContinueMachine ==
    \/ NoBootstrapData \/ SkipProvisioning \/ ConnectFails \/ Connect
    \/ TakePriority \/ CommandsFail \/ CommandsSucceed
    \/ CloseSpec \/ CloseStatus \/ ReleasePool \/ RemoveFinalizer

StartDeletion(m) == LeaveNode(m) \/ CleanNode(m)

MachineStep ==
    \/ \E m \in Machines : AddFinalizer(m) \/ StartDeletion(m)
    \/ \E m \in Machines, p \in Pools : AdoptPool(m, p)
    \/ ContinueMachine

MachineEnvironment ==
    \/ \E m \in Machines : StartProvisioning(m) \/ DeleteMachine(m)
    \/ Deliver

(* What was sent to a node may still have run, to any point, when the      *)
(* manager dies while the commands are sent.                               *)
Interrupted ==
    {node} \cup
    IF mw.pc # "commands" THEN {}
    ELSE {[node EXCEPT ![mw.pool] =
             [@ EXCEPT !.kubeadm = TRUE, !.joined = last]] :
             last \in {node[mw.pool].joined, mw.m}}

MachineCrash == Restart /\ node' \in Interrupted /\ mw' = MachineIdle

(* The state the other controllers leave behind before the first machine   *)
(* is reconciled: every cluster has its own IP pool, counted from zero,    *)
(* and every pool has been probed.                                         *)
ReadyCluster(ip) == [state |-> "live", finalizer |-> TRUE, hip |-> ip,
                     endpoint |-> ip, ready |-> TRUE]

ProbedPool(p) == [valid |-> "true", cluster |-> Blank, master |-> FALSE,
                  os |-> OSOf(p), host |-> TRUE]

MachineInit ==
    /\ machines = [m \in Machines |-> <<NewMachine>>]
    /\ pools = [p \in Pools |-> <<ProbedPool(p)>>]
    /\ \E own \in [Clusters -> IPs \ BlankIPs] :
          /\ \A c, d \in Clusters : own[c] = own[d] => c = d
          /\ clusters = [c \in Clusters |-> <<ReadyCluster(own[c])>>]
          /\ ips = [ip \in IPs |->
                      <<IF \E c \in Clusters : own[c] = ip
                        THEN 0 ELSE Blank>>]
    /\ phase = [m \in Machines |-> "Pending"]
    /\ node = [p \in Pools |-> CleanedNode]
    /\ mw = MachineIdle

MachineNext ==
    \/ MachineStep
    \/ MachineEnvironment /\ UNCHANGED mw
    \/ MachineCrash

MachineSpec == MachineInit /\ [][MachineNext]_machineVars

-----------------------------------------------------------------------------
(* Types of the objects, the nodes and the worker's record. *)
MachineTypeOK == ObjectsTypeOK /\ mw \in MachineWorker

Attempting(m) == mw.pc \in AdoptionSteps \cup CloseSteps /\ mw.m = m

(* However far the cache lags and whatever fails, while the worker adopts  *)
(* a pool for a machine, provisions it or publishes the result, the        *)
(* machine still exists and carries the finalizer: "Add finalizer first"   *)
(* keeps a deletion from overtaking an attempt.                            *)
FinalizerGuard ==
    \A m \in Machines : Attempting(m) =>
        Live(machines[m]).state # "gone" /\ Live(machines[m]).finalizer

(* The pools a machine has a claim on: the one it refers to and the one    *)
(* its running attempt has taken.                                          *)
Holds(m, p) == \/ Live(machines[m]).poolRef = p
               \/ Attempting(m) /\ mw.pool = p

(* With fresh reads and no restart, two live machines never hold the same  *)
(* pool, although attempts fail and are repeated with another pool.        *)
ExclusiveAdoption ==
    \A m, n \in Machines : \A p \in Pools :
        /\ Live(machines[m]).state = "live"
        /\ Live(machines[n]).state = "live"
        /\ Holds(m, p) /\ Holds(n, p)
        => m = n

(* While patches are answered and resets work, a pool offered to the next  *)
(* machine has a node on which kubeadm has not run since its last reset,   *)
(* which is no member of a cluster and runs no keepalived: a node that     *)
(* could not be reached when its machine was deleted, or whose attempt     *)
(* failed, is not offered.  Files may be left on it: RunsOnOwnFiles of     *)
(* Provisioning is about those.                                            *)
FreeIsClean ==
    \A p \in Pools :
        Live(pools[p]).valid = "true" /\ Live(pools[p]).cluster = Blank
            => node[p] = CleanedNode

(* With fresh reads, no two nodes of a cluster run keepalived with the     *)
(* same priority, so that one of them is elected to hold the virtual IP.   *)
UniquePriority ==
    \A p, q \in Pools :
        /\ node[p].vrrp \notin {None, Blank} /\ node[p].vrrp = node[q].vrrp
        /\ Live(pools[p]).cluster = Live(pools[q]).cluster
        => p = q

(* Spec before status: however stale the reads, a machine reported ready   *)
(* has its providerID, unless the first patch of scope.Close was lost.     *)
ReadyHasIdentity ==
    \A m \in Machines :
        Live(machines[m]).ready => Live(machines[m]).providerID # None

(* With fresh reads, the providerID of a machine is written once: no retry *)
(* after a crash or a lost patch gives the machine to another node.        *)
IdentityStable ==
    [][\A m \in Machines :
          Live(machines[m]).providerID # None =>
              Live(machines[m])'.providerID = Live(machines[m]).providerID
      ]_machineVars

(* With fresh reads and pools whose probe has ended, a ready machine refers*)
(* to the pool whose node has run its bootstrap command and no other's     *)
(* since: the error of a failed command is not lost on its way to Close.   *)
ReadyNodeJoined ==
    \A m \in Machines :
        LET live == Live(machines[m])
        IN  live.state = "live" /\ live.ready =>
                live.poolRef # None /\ node[live.poolRef].joined = m

(* With fresh reads and no restart, the node that serves a machine is      *)
(* neither reset nor given to another machine before the machine's         *)
(* deletion has begun.                                                     *)
ServingNodeKept ==
    [][\A p \in Pools : \A m \in Machines :
          node[p].joined = m /\ node'[p].joined # m =>
              Live(machines[m]).state # "live"]_machineVars

(* With fresh reads and no failure, a machine that is gone has left no     *)
(* node joined to its cluster.                                             *)
GoneLeavesNothing ==
    \A p \in Pools : \A m \in Machines :
        node[p].joined = m => Live(machines[m]).state # "gone"

(* A deletion comes to its end, whatever the node answers, as long as it   *)
(* answers every command.                                                  *)
DeletionCompletes ==
    \A m \in Machines :
        Live(machines[m]).state = "deleting" ~> Live(machines[m]).state = "gone"
-----------------------------------------------------------------------------
(* "number of hypermachine using this ip", hyperippool_types.go:37: between *)
(* two reconciles, the label counts the nodes that run keepalived for it.  *)
HipCountsUsers ==
    \A c \in Clusters :
        LET hip == Live(clusters[c]).hip
            users == {p \in Pools : /\ node[p].vrrp # None
                                    /\ Live(pools[p]).cluster = c}
        IN  mw.pc = "idle" /\ hip # None => Live(ips[hip]) = Cardinality(users)
=============================================================================
