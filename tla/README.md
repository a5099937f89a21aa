# cluster-api-provider-hyper in TLA+

A model of the Cluster API infrastructure provider for bare-metal ("hyper")
machines: four Kubernetes controllers that share their objects through the API
server and reach the nodes by SSH. The modules model what the controllers do to
the objects and to the nodes, step by step; TLC checks small instances and TLAPS
proves the theorems named below for every value of the constants.

## The system

| part | state it keeps | operations |
|---|---|---|
| HyperMachine controller (`controllers/infrastructure/hypermachine_controller.go`, `utils/scope/machine.go`) | HyperMachine: finalizer, `spec.hyperMachinePoolRef`, `spec.providerID`, `status.ready` | add the finalizer; pick and label a free pool; provision its node; publish ready and providerID; on deletion clean the node, free the pool, drop the finalizer |
| HyperMachinePool controller (`controllers/exp.infrastructure/hypermachinepool_controller.go`) | HyperMachinePool: labels valid, cluster name, master; `status.os`, `status.hostname` | label a new pool, probe its node until a login succeeds, record what it says |
| HyperIPPool controller (`hyperippool_controller.go`) | the count label of a HyperIPPool | label a new IP pool with an empty count |
| HyperCluster controller (`hypercluster_controller.go`, `utils/scope/cluster.go`) | HyperCluster: finalizer, IP pool name, `spec.controlPlaneEndpoint`, `status.ready` | take a free IP pool, or mark a machine pool, as the endpoint; free the IP pool on deletion |
| Node provisioning (`utils/provisioning.go`, `utils/sshClient.go`, `scripts/`) | the node's kubeadm and keepalived state | connect, take a priority, write files, run the bootstrap command |
| Cloud-config parser (`utils/cloudConfig.go`) | none | bootstrap data to files and commands |
| Manager (`main.go`) | work queues and caches | run the controllers, one worker each |
| API types (`apis/`) | | fields and labels |

How they interact: only through objects. The cluster controller's endpoint makes
the HyperCluster ready; Cluster API then moves a Machine to Provisioning; the
machine controller picks a pool the pool controller has labelled valid and no
cluster has labelled as its own, and raises the count in the cluster's IP pool.
Two controllers write a pool's labels (a third one adds the master label), two
write an IP pool's count, and none uses a resourceVersion: every write is a merge
patch computed from a cached copy.

What is hard, and hard to test: reads are cached and may be stale; a reconcile
makes several writes with SSH sessions of unbounded length between them, and the
manager may die between any two; patch errors are ignored or only logged; an
attempt that fails is repeated with another pool; Close is two patches; a reconcile
runs because of an event, and most returns ask for no other; an attempt writes to a
node with commands that append, some of whose errors are dropped. The tests
of the repository (`suite_test.go`) only start an API server. `PROJECT.json` lists
these hazards at their lines, each with the properties that catch it or the reason why none does.

What makes each component correct:
* machine controller: one machine per pool, no node offered that is still joined, ready only
  after provisioning, identity written once, deletion finishes and leaves nothing;
* its work queue: no deletion and no attempt that can be repeated is forgotten;
* pool controller: its late patches disturb nobody's adoption;
* IP pool and cluster controllers: exclusive and stable endpoints;
* provisioning: distinct keepalived priorities; the bootstrap command runs on the
  machine's own files and under the providerID; success means it ran;
* cloud-config parser: it gives back the files and the command that were written;
* all together: pools are allocated as `PoolAllocation` says.

## Modules

| module | models |
|---|---|
| `ApiServer` | an object as the log of its versions from the cache to the server: `Seen` (cached read), `Live` (server), `Push`, `Patched` (a patch whose error is dropped), `Delivered` (watch event), `Relisted` (restart) |
| `HyperObjects` | the objects, the nodes, and what Cluster API, users and the informers do |
| `MachineController` | HyperMachineReconciler, its properties and their mutants |
| `MachineQueue` | which events make it run: its work queue, the filters of SetupWithManager, fairness; extends `MachineController` |
| `CloudConfig` | FromBytes, and the bootstrap data it reads |
| `Provisioning` | the commands of UbuntuProvisioning and CentosProvisioning, the node's files, failures between and in them; extends `CloudConfig` |
| `NodeAttempt` | the abstract attempt `MachineController` takes for granted, which `Provisioning` implements |
| `PoolController`, `IPPoolController`, `ClusterController` | the other three reconcilers |
| `HyperProvider` | the four side by side, the properties that relate them, the refinement mapping |
| `PoolAllocation` | the abstract promise about machine pools |
| `MachineControllerProofs` | theorems about the machine controller under any lag, and what a write, a watch event and a restart do to a log |
| `MachineQueueProofs` | theorems about its work queue |
| `MachinePoolProofs`, `MachineServiceProofs` | theorems about the pools and nodes it uses, and about the machines it serves |
| `HyperProviderProofs`, `AllocationProofs` | theorems about the four controllers side by side; the refinement of `PoolAllocation` |
| `CloudConfigProofs`, `ProvisioningProofs` | theorems about the parser and about an attempt; the refinement of `NodeAttempt` |
| `MCMachine`, `MCQueue`, `MCProvider`, `MCProvisioning` | constants for TLC |

Each worker is a record with a `pc`: a reconcile is cut into one action per stretch
between two calls that another controller, a watch event or a crash can separate.
What the code read at the start of a reconcile (`had`, `hip`, `snap`, `edit`) stays in
the record until the reconcile ends, as it does in Go's local variables. One
worker per controller is controller-runtime's default (MaxConcurrentReconciles 1),
which `main.go` does not change.

| action | code |
|---|---|
| `AddFinalizer` | Reconcile 123-134 and its deferred Close |
| `AdoptPool` (`Provisionable`, `Candidates`) | reconcileMachineNormal 139-151, getHyperMachinePool, adoptOrphan |
| `NoBootstrapData` | 152-154: the Secret is not in the cache yet |
| `SkipProvisioning` | doProvisioning 243: neither ubuntu nor centos |
| `ConnectFails`, `Connect`, `TakePriority`, `CommandsFail`, `CommandsSucceed` | UbuntuProvisioning and CentosProvisioning, hipNum2Pri |
| `CloseSpec`, `CloseStatus` | the two patches of `scope.Close`: metadata with spec, then status |
| `LeaveNode`, `CleanNode`, `ReleasePool`, `RemoveFinalizer` | reconcileMachineDelete, doCleanHyperMachinePool |
| `ReadPool`, `ProbeFails`, `ProbeSucceeds`, `PatchLabels`, `PatchStatus` | HyperMachinePoolReconciler |
| `LabelIP` | HyperIPPoolReconciler |
| `AddClusterFinalizer`, `TakeIP`, `NoFreeIP`, `TakePool`, `NoEndpoint`, `CloseClusterSpec`, `CloseClusterStatus` | HyperClusterReconciler, live cluster |
| `ReleaseIP`, `RemoveClusterFinalizer` | reconcileClusterDelete, deleteHip |
| `Reconcile(m)` (`NothingToDo`) | Reconcile 62-137 for a key of the queue; returns that do nothing: 66-75, 139-151 |
| `ReturnError`, `Proceed` | the two ways a reconcile ends: only 164 returns an error, and only an error puts the key back |
| `Woken` (`Passes`, `Mapped`) | SetupWithManager 337-388, requeueHyperMachinesForBootStrapData |
| `FromBytes` (`Headed`, `StopOf`, `Contents`, `FirstCommand`) | the loops of FromBytes |
| `Connect`, `SendRemove`, `SendPut`, `SendExec`, `SendProviderID`, `SendRun` of `Provisioning` | the commands of UbuntuProvisioning in their order (`Commands`), one SSH session each |
| `SendFails`, `Drop`, `ConnectFails` of `Provisioning` | the errors of SendCommands, its log.Fatal, SSHConnect |

A node is three fields: `kubeadm` (it may have run since its last reset),
`joined` (the machine whose bootstrap command succeeded there last), `vrrp` (the
keepalived priority last sent). These are what a deletion undoes: it runs `kubeadm reset`
and purges keepalived (`hypermachine_controller.go:279-286`). Everything else a machine
leaves, the files in `/tmp` and its own, the packages, kubelet's edited unit, stays on the
node; FreeIsClean does not speak of it, and `Provisioning` shows what the next attempt
makes of it. A manager that dies while commands are sent leaves the node with any part of
them done (`Interrupted`). An address, a host name or a text is never
spelled out: the endpoint is the IP pool or machine pool it comes from, a providerID
the pool it names, or `NoHost` when the host name was never read.

`Provisioning` looks at one node more closely: `files` holds the lines of each file an
attempt writes, `kubelet` whether its unit names the providerID, `todo` the commands the
attempt has still to send. A line is its kind, which is what the parser and the echo
tell apart, and a text; no line is spelled out. Scripts are files too, because
ScpFile appends like every other write; of what they do on the node only k8s.sh's new
unit file matters to a property. `mkdir` and `chmod` are left out. The CentOS commands
are the same in the same order; the paths of kubelet's unit differ.

In the work queue a key is held once, and a key added while its machine is reconciled
waits for the end, so the queue is a set. An event reaches a controller when its cache
does: `Woken` compares what the cache shows before and after a step.

Abstractions a reader should know: the pool, IP pool and cluster controllers may
reconcile whenever a guard holds, and so may the machine controller except in the two
runs of `MCQueue`; creation of objects happens before the start; pools
and IP pools are not deleted; Machine.status.phase is Pending or Provisioning;
HyperMachines have their owner and cluster from the start, and each master is
recognised by its label. Resyncs, which would wake everything every ten hours, are
left out: no property should rest on them, and UpdateFunc drops them.

## Bounds and faults

`MaxLag` is how many versions a cache may be behind its object; 0 is a fresh read.
`MaxCount` bounds the count an IP pool's label can reach, by a guard on `AdoptPool`.
`Faults` names the failures that may happen, at any time and any number of times:
`"api"` a patch is lost and its error dropped; `"ssh"` a node cannot be reached or a
command fails; `"reset"` kubeadm reset or the purge fails unnoticed; `"crash"` the
manager dies and restarts. A new pool's probe may always fail.

In `Provisioning`, `Failures` names the commands that may fail, with or without the
effect of a write, and `"drop"`, the connection or the manager lost between two
commands. `MaxLines` bounds the lines of a file an attempt may find when it connects:
enough for two full attempts before it. `DataSet` is the bootstrap data a machine may
have and `Samples` more data that is read and not provisioned: up to three files of up to
two lines each, the lines of every kind a file can hold.

The properties hold under different faults, and this is part of the result: a run
names the weakest assumptions TLC confirms. Trying each property with one more
fault or with lag showed what it depends on (`x`: violated):

| property | lag 1 | api | ssh | reset | crash |
|---|---|---|---|---|---|
| FinalizerGuard | proved | proved | proved | proved | proved |
| ReadyHasIdentity | proved | x | proved | proved | proved |
| ExclusiveAdoption | x | x | proved | proved | x |
| FreeIsClean (machine controller alone) | proved | x | proved | x | proved |
| FreeIsClean (four controllers) | | x | proved | x | proved |
| ServingNodeKept | | x | proved | proved | x |
| UniquePriority | x | x | proved | x | proved |
| ReadyNodeJoined (machine controller alone) | x | x | proved | proved | x |
| GoneLeavesNothing | x (lag 2) | | x | x | x |
| AllocatesPools | x | x | proved | proved | x |
| AdoptionKept | x | proved | proved | proved | proved |
| ExclusiveEndpoint | x | x | proved | proved | x |
| IdentityStable, EndpointStable | x | proved | proved | proved | proved |
| DeletionCompletes | holds | x | holds | | holds |
| DeletionRemembered, SleepsForWantOfPools | proved | x | proved | proved | proved |
| AttemptsSettle | holds | | holds | | holds |

An empty cell was not tried. `proved` is for any number of objects, with all the
faults of its row that are proved at the same time, and at lag 0 unless the row says
proved under lag. GoneLeavesNothing is proved when nothing fails. DeletionCompletes and AttemptsSettle hold with restarts as
long as there is a last one: a manager that dies in every reconcile repeats it for ever.
RunsOnOwnFiles and JoinsIdentified hold as
long as `rm` and the edit of kubelet's unit succeed: the code drops their results, and
with `"rm"` or `"kubelet"` among the `Failures` TLC finds the file written twice and the
node joined without its providerID. Everything else may fail, and SucceedsOnlyJoined holds
with both: all three are proved so. The crashes that break ExclusiveAdoption and
ServingNodeKept come after the pool was released and before the finalizer is gone
(`hypermachine_controller.go:251-254`): the deletion runs again on a pool that may
serve another machine. The same order in `reconcileClusterDelete`
(`hypercluster_controller.go:116-118`) breaks ExclusiveEndpoint: the deleted cluster frees
its IP pool, the manager dies, another cluster takes the pool, the deletion runs again and
frees it once more, and a third cluster takes it. Two clusters are too few to show this, and one is too few to
show UniquePriority without a working reset: a node that kept the priority of its last
cluster is given to another, where the same priority is taken.

## Runs

| run | instance | question |
|---|---|---|
| `machine_lag` | 1 machine, 2 pools (one of an unknown OS), lag 2, all faults | types and `FinalizerGuard` under everything that can go wrong |
| `machine_fresh` | 3 machines (2 masters), 3 pools, fresh, ssh | competition for pools, retries after failures, freeing |
| `machine_fair` | work queue; 2 machines, 1 pool, lag 1, ssh and crash, fairness | deletions are remembered and complete; attempts settle; who is forgotten; ready implies a providerID |
| `node_provisioning` | 1 node, 2 machines (1 master), 5 pieces of data, all failures but rm and the edit of kubelet's unit | the bootstrap command runs on the machine's own files and providerID, success implements `NodeAttempt`; the reader on 9,723 samples |
| `provider_fresh` | 2 masters, 2 pools, 1 IP pool, fresh, ssh | the four controllers implement `PoolAllocation`; late pool patches; what is left on the node of a free pool |
| `provider_quiet` | 2 clusters, 1 machine each, 1 pool, 2 IP pools (one without an address), no faults | endpoints and what a deleted machine leaves |
| `provider_crash` | 1 machine, 1 pool, 2 IP pools, api and crash | what was published is never rewritten |
| `stale_delete` | 1 machine, lag 2, no faults | violation: see below |
| `hip_count` | 2 masters, 2 pools, fresh, no faults | violation |
| `unprobed_ready` | 1 machine, 1 pool, fresh, no faults | violation |
| `borrowed_endpoint` | 2 clusters, 1 pool, 1 IP pool, fresh, no faults | violation |
| `data_awaited` | work queue; 1 machine, 1 pool, fresh, no faults | violation |

Why the sizes are enough: a machine competes with at most one other for a given pool
because one worker serialises attempts, and the third machine and pool let an attempt
be repeated while two others are in service; a single pool makes every machine reuse
the node of the one before it; two clusters and one usable IP pool make the second
fall back on a machine pool. With one pool and two machines a deletion arrives while the
worker is busy with the same or the other machine, and a machine is left without a
pool. Two machines on one node are enough for what an attempt finds to be its own or
another's. Lag 2 is needed for `stale_delete`: Close writes two
versions, and the cache has to be behind both. Deadlock is not checked: when every object is gone, or no pool is free and
nothing is deleted, the system rightly rests. A node never rests: `node_provisioning`
checks deadlock.

Fairness (`machine_fair`, `QueueFairSpec`). `WF(ReturnError \/ Proceed)`: a reconcile that
has begun goes on. This is an assumption on the nodes: every command sent to one ends or
fails. Nothing in the code sees to it: the 2000 seconds of `SSHConnect` limit the dial,
`session.Output` (`sshClient.go:67`) waits without limit, and a bootstrap command that hangs
keeps the only worker for ever.
`<>[][QueueWork]`: the manager may die any number of times, in any reconcile, but not for
ever; nothing the code does could help then.
`WF(DeliverMachine)`, `WF(DeliverPool)`: informers catch up. `SF(Reconcile(m))`: the queue
is first-in first-out, so a key it holds is reached although others keep the worker busy
in between; strong, because the worker is not idle all the time. A machine whose key is
not in the queue is promised nothing. Nothing is assumed of Cluster API or of users, and
of a node nothing but that it answers: it may refuse every connection and every command.

Symmetry is used in the two runs without liveness whose constants are interchangeable
(pools in `machine_fresh`; masters of one cluster and pools in `provider_fresh`).

Each property has a mutant: a definition of the controllers changed the way a plausible
bug would change it, under which TLC finds the property violated. The mutated forms
stand before the definitions they replace, marked "Mutant of".

## What the violations show

* `stale_delete`: the finalizer orders a deletion after an attempt, but the deletion
  reads `poolRef` from the cache. A machine is deleted while its node is being
  provisioned; Close then writes `poolRef` into a version after the one that has the
  timestamp. The next reconcile starts at once and the cache may still show the
  version in between: deleting, without a `poolRef`. Nothing is cleaned, the node
  stays joined and its pool labelled for ever.
* `hip_count`: the count shown as "number of hypermachine using this ip" is never
  lowered; after a hundred masters the priority is zero.
* `unprobed_ready`: valid is published before the OS, and an unknown OS counts as
  provisioned.
* `borrowed_endpoint`: without a free IP pool, the endpoint is the first valid machine
  pool, whoever has adopted it.
* `data_awaited`: the log says that the bootstrap data is not there yet, but nothing will
  look again. The attempt that finds no data has already taken a pool; the update of
  its poolRef happens to wake the machine once, and each repetition takes another pool,
  until none is free. Then the machine sleeps, with a pool of its own and its data there.

A comment the code contradicts without a run of its own: `hypermachine_controller.go:342`
says the filter keeps status updates from causing a reconcile, but the objects compared
differ in their resourceVersion after every write. The model has it so (`Passes`). A
filter that did compare less would have to let the deletion timestamp through: under one
that compares the specifications (the mutant `SpecDiffers`) DeletionRemembered fails.

What ReadsAsWritten says of the parser: it stays within the lines and finds the command if
every file has an owner and lines as long as their indentation, the last file holds no
END line and there is one command (`Runnable`); it gives back every file if besides every
file but the last ends with an END line, as certificates and keys do (`KubeadmShaped`). A
file of the user's in between is swallowed with its successor, a second command is
dropped, and data outside `Runnable` panics or joins nothing: these limits are read off
the code and stated in the conditions, not repaired.

## Proofs

`MachineControllerProofs` proves, for any number of machines, pools, IP pools and
clusters and any lag:

* `MachineTypeCorrect`: `MachineSpec => []MachineTypeOK`. `TypeInv` adds
  `WorkerShape` (a reconcile in progress has a machine and, once it took one, a
  pool), without which the writes of `CloseSpec` and `ReleasePool` have no target.
* `AttemptsAreGuarded`: `MachineSpec => []FinalizerGuard`, under every fault.
  FinalizerGuard is not inductive: an attempt starts from a cached copy. `GuardInv`
  adds that a log ages (`Ageing`: no live version follows one that is not), that
  while the cache may still show an adoptable version the server's has the
  finalizer (`Guarded`), and that the worker in a deletion has seen it
  (so the removal of the finalizer finds nothing adoptable left in the log).
* `ReadyMachinesIdentified`: `"api" \notin Faults` implies
  `MachineSpec => []ReadyHasIdentity`. `IdentityInv` adds that the worker before its
  second patch has a machine with a providerID, or one that is gone.

`MachineQueueProofs` proves, for any number of machines and pools and any lag:

* `QueueRestrains`: `QueueSpec => MachineSpec`, so the theorems above hold with the queue.
* `DeletionsRemembered`: `"api" \notin Faults` implies `QueueSpec => []DeletionRemembered`,
  restarts included. `QueueInv` adds that neighbouring versions of a log differ
  (`Distinct`, or a watch event would be none) and that a deletion is in the queue, on
  its way, or in the hands of the worker (`Stirred`, `Removing`). The argument: whatever
  changes a machine stirs it (`ChangesStir`), and only a reconcile that reads the last
  version ends that (`StirredStays`).
* `SleepersWantPools`: under the same assumption `QueueSpec => SleepsForWantOfPools`.
  `QueueInv` adds that an attempt that has not patched poolRef yet knows its last value,
  unless there is an event to come (`Referring`): so a patch that changes nothing is one
  of the pool the machine had.

The other theorems have hypotheses, because the properties fail without them (the table
above). "Fresh" is `MaxLag = 0`, "answered" `"api" \notin Faults`, "no restart" `"crash" \notin Faults`,
"working resets" `"reset" \notin Faults`; what is not named may happen, at any time and any
number of times.

| theorem | property | of | hypotheses |
|---|---|---|---|
| `FreePoolsClean` | FreeIsClean | MachineSpec | answered, working resets |
| `PrioritiesDiffer` | UniquePriority | MachineSpec | fresh, answered, working resets |
| `PoolsAreExclusive` | ExclusiveAdoption | MachineSpec | fresh, answered, no restart |
| `ServingNodesStay` | ServingNodeKept | MachineSpec | the same |
| `ReadyMachinesJoined` | ReadyNodeJoined | MachineSpec | the same, `Unsupported = {}` |
| `IdentitiesStable` | IdentityStable | MachineSpec | fresh |
| `GoneMachinesLeaveNothing` | GoneLeavesNothing | MachineSpec | fresh, `Faults = {}` |
| `ProviderTypeCorrect` | ProviderTypeOK | ProviderSpec | none |
| `ProviderAttemptsGuarded` | FinalizerGuard | ProviderSpec | none |
| `AdoptionsKept` | AdoptionKept | ProviderSpec | fresh |
| `OfferedPoolsClean` | FreeIsClean | ProviderSpec | fresh, answered, working resets |
| `ProviderPoolsExclusive` | ExclusiveAdoption | ProviderSpec | fresh, answered, no restart |
| `ProviderIdentitiesStable` | IdentityStable | ProviderSpec | fresh |
| `ProviderLeavesNothing` | GoneLeavesNothing | ProviderSpec | fresh, `Faults = {}` |
| `EndpointsStable` | EndpointStable | ProviderSpec | fresh |
| `EndpointsExclusive` | ExclusiveEndpoint | ProviderSpec | fresh, answered, no restart |
| `PoolsAllocated` | AllocatesPools | ProviderSpec | fresh, answered, no restart |
| `WhatIsWrittenIsRead` | ReadsBack | any `BootstrapData` | none |
| `AttemptsJoin` | SucceedsOnlyJoined | Spec of Provisioning | none |
| `MachinesJoinIdentified` | JoinsIdentified | Spec of Provisioning | `"kubelet" \notin Failures` |
| `MachinesRunOnOwnFiles` | RunsOnOwnFiles | Spec of Provisioning | `"rm" \notin Failures` |

Why each holds, by its inductive invariant:

* `CleanInv`: on the server, a pool that is not marked with a cluster has a clean node,
  one without kubeadm state, joined machine and keepalived
  (`UnmarkedClean`), the pool of an attempt is marked (`UsedMarked`), and a pool about to be
  released has been cleaned (`ReleasedClean`). The mark is also why a restart in the middle
  of the commands does no harm. A stale read may give a pool in use to a second
  machine, but the mark stays until some deletion has cleaned the node, so no freshness is
  needed. `PriorityKnown` adds that only nodes of a known OS were given a priority and that
  a known OS is in every later version, so that the cleaning, which depends on the OS the
  cache shows, purges keepalived.
* `PriorityInv`: every priority in use is above 100 minus the count of the IP pool of its
  cluster (`Counted`), so the one handed out next is below all of them; the attempt counts in
  the IP pool of the cluster its pool is marked with (`CountsOwn`). `CleanInv` is needed for
  the pool that goes to another cluster: its priority is gone.
* `ServiceInv`: a pool is referred to by one machine (`ReferOnce`), the one the worker has
  taken by none but its own (`TakenAlone`), and both are marked, until the deletion has only
  the finalizer left to remove (`ReferredMarked`, `TakenMarked`, `ReleaseOwn`); a joined node
  is that of the machine that refers to it, or is about to (`ServedKnown`); what the worker read
  of its machine when it began is still so when it patches it (`AttemptKnown`). None of
  these is inductive alone: adoption needs the mark, publishing needs that nobody else
  refers to the pool, release needs all of them.
* `JoinedInv` adds that whoever has a providerID is joined (`IdentifiedJoined`) and that a
  success not yet published joined the node. `FirstIdentity`: an attempt is only for a
  machine without a providerID, or one that is gone.
* `GoneInv`: a node is joined for a machine that has its finalizer (`JoinedGuarded`), and a
  machine in deletion has none (`DeletedUnjoined`).
* `LabelInv`, for the pool controller: a pool with a cluster is valid (`Labelled`), and
  between its read and its patch of the labels the pool is not valid and still as it was
  read (`ProbeKnown`), because only this controller makes pools valid and only valid ones are
  adopted. The machine controller's invariants are then carried over: the steps of the
  other three leave machines, nodes and the machine worker alone and every marked pool
  its mark.
* `EndpointInv`, `ClaimInv`: a cluster whose endpoint is being taken has none. A cluster
  claims an IP pool that its label names, until its deletion has freed it, or that the
  worker is about to give it; a claimed pool has a count, so it is not free
  (`ClaimsCounted`), and one claimant (`ClaimOnce`); an endpoint that is an IP pool is the
  one the label names (`EndpointNamed`).
* `AllocInv`, for the refinement: between the two patches of Close the reference has been
  published (`PublishedRefers`), so the pool keeps its owner when the attempt ends.
  `OwnerCases` says what the refinement mapping makes of every pool; each step of the
  system then changes the owner of one pool, as `PoolAllocation` allows, or of none.
* Reading: `FilesPlaced` says where each file is in the text that is rendered from the
  data, `FilesAreRead` that the reader is at the start of a file whenever it has read the
  ones before, `CommandIsRead` what follows the last one. The induction is over the lines of a
  file, then over the files, by the least index at which the claim fails
  (`NatLessThanWellFounded`); the recursion in `StopOf`, `Contents`, `Solid` and the others
  is a recursive function, shown to exist in the same way.
* `TodoInv`: what is left to send is the end of `Commands(attempt)`; `CommandsLaidOut` says which
  command stands where, counted from the end. `AttemptsJoin`, the refinement of
  `NodeAttempt`, follows: the last command is `Run`, and whatever fails before it without
  ending the attempt leaves it to be sent.
* `KubeletInv`: with one command left, kubelet's unit names the providerID.
* `FilesInv`: with the first k files of the data written, every path below pki and
  the two configurations hold what these k say and nothing else (`NodeFiles`). An attempt
  inherits any files from the one before; the two removals make the invariant true.

The theorems rest on named assumptions about the constants: `ApiAssumption` (MaxLag is a
natural number, Faults are of the four kinds), `ObjectsAssumption` (the types, and that
`None`, `Blank`, `NoHost` are not objects), `ValuesAssumption` (nor numbers; an IP
pool is not a machine pool); in Provisioning `ProvisioningAssumption` (types, and that the
data of machines is `Runnable`: other data panics the manager or never runs a command, see
above), `DataAssumption` (the data consists of the lines files have), `PathsAssumption`
(kubeadm gives each file a path of its own). TLC evaluates all of them in the runs. Steps
are proved one action at a time; the theorems close with PTL.

Only model-checked: liveness under fairness (`DeletionCompletes`, `AttemptsSettle`), which is out of
the prover's reach, as is ENABLED. The violations, of course, are TLC's too.

## Not modelled, and the plan

Done: the objects, the four controllers, their composition, the abstract allocation, the
machine controller's queue, the provisioning of a node, the parser, the theorems above.

What is left to prove: every safety property of the runs is proved under the faults
of the table; the cells that say neither proved nor x are open. `FreeIsClean` of the four
controllers under lag, `UniquePriority`, `ServingNodeKept` and `ReadyNodeJoined` of the four
controllers, and `ExclusiveEndpoint` with a restart that is not in a deletion come first.

What is left to check: the hazards that no property catches because it is stated for fresh
reads, answered patches, working resets or data that is `Runnable` (their notes in
`PROJECT.json` say so). The table above shows what then goes wrong, not a property that
holds in spite of it.

What is left to model: the queues of the other three controllers. Their hazards are
listed (a pool whose probe failed, a cluster without an endpoint): both wait for an
event of their own object, because nothing else is watched.

Not modelled, with the reason: deletion of pools and IP pools under a running machine or
cluster, and a Machine without a version, because the code answers each with a panic
(`hypermachine_controller.go:272`, `hypercluster_controller.go:130`, `provisioning.go:126`)
that the next start repeats: no state follows, and every liveness property is false from
there on. A crash at these places is among the crashes of the models.

Left out for good: generated deep copies, manifests, the HyperMachineTemplate type (no
controller), what the node scripts do beyond kubelet's unit and keepalived, and the parts
of `sshClient.go` nothing calls (ScriptFile and remoteScript).
