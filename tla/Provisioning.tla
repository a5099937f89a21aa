---------------------------- MODULE Provisioning ----------------------------
(***************************************************************************)
(* UbuntuProvisioning and CentosProvisioning: the commands one attempt     *)
(* sends to a node over SSH, and what they leave in its files, from the    *)
(* bootstrap data to the command that joins the node to the cluster.       *)
(*                                                                         *)
(* A node is used by one attempt after the other: of the same machine,     *)
(* when the manager died, and of the next machine after a reset.           *)
(***************************************************************************)
EXTENDS CloudConfig

CONSTANTS
    Machines,    \* the machines provisioned on the node, in any order
    Masters,     \* those that run keepalived
    DataSet,     \* the bootstrap data a machine may have
    Samples,     \* more of it, which is read and not provisioned
    Paths,       \* the paths of the files in it
    PkiPaths,    \* those under /etc/kubernetes/pki
    TmpPaths,    \* /tmp/kubeadm.yaml and /tmp/kubeadm-join-config.yaml
    MaxLines,    \* bound on the lines of a file an attempt may find
    Failures,    \* the commands that may fail, and "drop", of FailureKinds
    None

FailureKinds == {"connect", "rm", "put", "exec", "kubelet", "run", "drop"}

ASSUME ProvisioningAssumption ==
    /\ Masters \subseteq Machines /\ None \notin Machines
    /\ PkiPaths \cup TmpPaths \subseteq Paths
    /\ Failures \subseteq FailureKinds
    /\ MaxLines \in Nat
    /\ \A d \in DataSet : Runnable(d)

ASSUME DataAssumption == DataSet \cup Samples \subseteq BootstrapData

(* kubeadm gives each certificate and configuration a path of its own.     *)
ASSUME PathsAssumption ==
    \A d \in DataSet :
        KubeadmShaped(d) =>
            \A i, j \in DOMAIN d.files :
                d.files[i].path = d.files[j].path => i = j

Scripts == {"keepalived.sh", "docker.sh", "k8s.sh"}

VARIABLES
    data,      \* the bootstrap data of each machine
    files,     \* the lines of the node's files, none for a missing file
    kubelet,   \* whether kubelet's unit names the node's providerID
    joined,    \* the machine whose bootstrap command succeeded last
    attempt,   \* the machine the node is provisioned for
    todo,      \* the commands it has still to send
    outcome    \* what the last attempt returned

nodeVars == <<files, kubelet, joined>>
vars == <<data, nodeVars, attempt, todo, outcome>>

-----------------------------------------------------------------------------
(* The commands, and whether the code returns when one of them fails. *)
Command(op, paths, lines, checked) ==
    [op |-> op, paths |-> paths, lines |-> lines, checked |-> checked]

Delete(paths) == Command("rm", paths, <<>>, FALSE)

Write(file, echoed) == Command("put", {file.path}, echoed, TRUE)

(* ScpFile appends to the remote file like every other write. *)
Script(name) ==
    <<Delete({name}), Command("put", {name}, <<Line("text", name)>>, FALSE),
      Command("exec", {name}, <<>>, FALSE)>>

(* Mutant of Clear: the second of the two files in /tmp is forgotten. *)
ClearPki == <<Delete(PkiPaths)>>

Clear == <<Delete(PkiPaths), Delete(TmpPaths)>>

(* One line the shell prints: the name of the node is sent without a line  *)
(* break, so the next line is glued to it.                                 *)
Echoed(lines, line) ==
    IF lines # <<>> /\ Last(lines).kind = "name"
    THEN Append(Front(lines), Line("other", "glued"))
    ELSE Append(lines, line)

(* The loop over the lines of a file, which passes over the blank ones. *)
Echo(contents) ==
    LET lines == Solid(contents)
        Sent[i \in 0 .. Len(lines)] ==
          IF i = 0 THEN <<>> ELSE Echoed(Sent[i - 1], lines[i])
    IN  Sent[Len(lines)]

SetProviderID == Command("kubelet", {}, <<>>, FALSE)

(* Mutant of Run: its error is dropped. *)
RunUnchecked == Command("run", {}, <<>>, FALSE)

Run == Command("run", {}, <<>>, TRUE)

Parsed(m) == FromBytes(Render(data[m]))

Prelude(m) == (IF m \in Masters THEN Script("keepalived.sh") ELSE <<>>)
                  \o Script("docker.sh") \o Script("k8s.sh")

Writes(m) ==
    [i \in DOMAIN Parsed(m).files |->
        Write(Parsed(m).files[i], Echo(Parsed(m).files[i].contents))]

(* Mutant of Commands: the providerID is set before kubelet is installed. *)
CommandsIdentifiedFirst(m) ==
    <<SetProviderID>> \o Prelude(m) \o Clear \o Writes(m)
        \o [i \in DOMAIN Parsed(m).cmds |-> Run]

Commands(m) ==
    Prelude(m) \o Clear \o Writes(m) \o <<SetProviderID>>
        \o [i \in DOMAIN Parsed(m).cmds |-> Run]

-----------------------------------------------------------------------------
Finish(result) ==
    /\ attempt' = None /\ todo' = <<>> /\ outcome' = result
    /\ UNCHANGED data

GoOn == IF Len(todo) > 1
        THEN todo' = Tail(todo) /\ UNCHANGED <<data, attempt, outcome>>
        ELSE Finish("ok")

(* The data is parsed before the connection is made.  DataSet bounds the   *)
(* attempts.                                                               *)
Connect(m) ==
    /\ attempt = None
    /\ data[m] \in DataSet
    /\ \A p \in DOMAIN files : Len(files[p]) <= MaxLines
    /\ ~Parsed(m).panics
    /\ attempt' = m /\ todo' = Commands(m) /\ outcome' = "none"
    /\ UNCHANGED <<data, nodeVars>>

ConnectFails(m) ==
    /\ "connect" \in Failures
    /\ attempt = None
    /\ data[m] \in DataSet
    /\ ~Parsed(m).panics
    /\ Finish("error")
    /\ UNCHANGED nodeVars

Sends(op) == attempt # None /\ Head(todo).op = op

Removed(paths) ==
    [p \in DOMAIN files |-> IF p \in paths THEN <<>> ELSE files[p]]

SendRemove ==
    /\ Sends("rm")
    /\ files' = Removed(Head(todo).paths)
    /\ GoOn
    /\ UNCHANGED <<kubelet, joined>>

(* echo -e "..." >> path *)
Appended(paths, lines) ==
    [p \in DOMAIN files |-> IF p \in paths THEN files[p] \o lines
                                            ELSE files[p]]

SendPut ==
    /\ Sends("put")
    /\ files' = Appended(Head(todo).paths, Head(todo).lines)
    /\ GoOn
    /\ UNCHANGED <<kubelet, joined>>

(* k8s.sh purges kubelet and installs it anew, unit file included. *)
SendExec ==
    /\ Sends("exec")
    /\ kubelet' = (kubelet /\ ~("k8s.sh" \in Head(todo).paths
                                  /\ files["k8s.sh"] # <<>>))
    /\ GoOn
    /\ UNCHANGED <<files, joined>>

SendProviderID ==
    /\ Sends("kubelet")
    /\ kubelet' = TRUE
    /\ GoOn
    /\ UNCHANGED <<files, joined>>

SendRun ==
    /\ Sends("run")
    /\ joined' = attempt
    /\ GoOn
    /\ UNCHANGED <<files, kubelet>>

(* SendCommands returns an error, with or without the effect of a write:   *)
(* the code returns it or goes on.                                         *)
SendFails ==
    /\ attempt # None
    /\ Head(todo).op \in Failures
    /\ files' \in {files, Appended(Head(todo).paths, Head(todo).lines)}
    /\ IF Head(todo).checked THEN Finish("error") ELSE GoOn
    /\ UNCHANGED <<kubelet, joined>>

(* The connection is lost between two commands: NewSession fails and       *)
(* log.Fatal ends the manager, or the manager dies by itself.              *)
Drop ==
    /\ "drop" \in Failures
    /\ attempt # None
    /\ Finish("none")
    /\ UNCHANGED nodeVars

(* kubeadm reset, from doCleanHyperMachinePool: the certificates go, the   *)
(* files in /tmp and the packages stay.                                    *)
Reset ==
    /\ attempt = None
    /\ files' = Removed(PkiPaths)
    /\ joined' = None
    /\ UNCHANGED <<data, kubelet, attempt, todo, outcome>>

-----------------------------------------------------------------------------
Init ==
    /\ data \in [Machines -> DataSet]
                 \cup {[m \in Machines |-> sample] : sample \in Samples}
    /\ files = [p \in Paths \cup Scripts |-> <<>>]
    /\ kubelet = FALSE /\ joined = None
    /\ attempt = None /\ todo = <<>> /\ outcome = "none"

Next ==
    \/ \E m \in Machines : Connect(m) \/ ConnectFails(m)
    \/ SendRemove \/ SendPut \/ SendExec \/ SendProviderID \/ SendRun
    \/ SendFails \/ Drop
    \/ Reset

Spec == Init /\ [][Next]_vars

-----------------------------------------------------------------------------
(* The reader goes by the form of the lines, and gives back the data a     *)
(* machine was given all the same: ReadsBack says how much of it.          *)
ReadsAsWritten == \A m \in Machines : ReadsBack(data[m])

(* What kubeadm is to find at a path: the lines of the machine's own file. *)
Intended(m, p) ==
    LET at == {i \in DOMAIN data[m].files : data[m].files[i].path = p}
    IN  IF at = {} THEN <<>>
        ELSE Solid(data[m].files[CHOOSE i \in at : TRUE].body)

(* Although every write appends and the node keeps the files of earlier    *)
(* attempts, of this machine and of others, the bootstrap command finds    *)
(* each file of the machine's data once, complete and in order, and no     *)
(* other machine's certificate or configuration.                           *)
RunsOnOwnFiles ==
    Sends("run") /\ KubeadmShaped(data[attempt]) =>
        \A p \in PkiPaths \cup TmpPaths : files[p] = Intended(attempt, p)

(* kubelet starts with the providerID that the HyperMachine publishes, or  *)
(* Cluster API never finds the node of a ready machine.                    *)
JoinsIdentified == Sends("run") => kubelet

(* The commands implement what the machine controller relies on: no error  *)
(* on the way and no reading of the data makes an attempt succeed without  *)
(* the machine's bootstrap command.                                        *)
Attempts == INSTANCE NodeAttempt

SucceedsOnlyJoined == Attempts!Spec
=============================================================================
