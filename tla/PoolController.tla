--------------------------- MODULE PoolController ---------------------------
(***************************************************************************)
(* HyperMachinePoolReconciler: one worker that labels a new machine pool,  *)
(* probes its node over SSH until a login succeeds, and records what the   *)
(* node says about itself.                                                 *)
(***************************************************************************)
EXTENDS HyperObjects

VARIABLE pw   \* the worker of the HyperMachinePool queue

(* snap: the pool as it was read; edit: the pool as the code has changed   *)
(* it in memory.                                                           *)
PoolIdle == [pc |-> "idle", pool |-> None, snap |-> NewPool, edit |-> NewPool]

PoolWorker == [pc : {"idle", "probe", "patchLabels", "patchStatus"},
               pool : Pools \cup {None}, snap : Pool, edit : Pool]

poolVars == <<objectVars, pw>>

(* Mutant of Initialised: the new label is empty. *)
InitialisedEmpty(pool) == IF pool.valid = "unset"
                          THEN [pool EXCEPT !.valid = Blank, !.cluster = Blank]
                          ELSE pool

(* initHyperMachinePool: without the valid label both labels are reset, in *)
(* memory.                                                                 *)
Initialised(pool) == IF pool.valid = "unset"
                     THEN [pool EXCEPT !.valid = "false", !.cluster = Blank]
                     ELSE pool

(* A pool labelled valid is left alone. *)
ReadPool(p) ==
    /\ pw.pc = "idle"
    /\ Seen(pools[p]).valid # "true"
    /\ pw' = [pc |-> "probe", pool |-> p, snap |-> Seen(pools[p]),
              edit |-> Initialised(Seen(pools[p]))]
    /\ UNCHANGED objectVars

ProbeFails ==
    /\ pw.pc = "probe"
    /\ pw' = [pw EXCEPT !.pc = "patchLabels", !.edit.valid = "false"]
    /\ UNCHANGED objectVars

(* The login makes the pool valid; each command that fails afterwards      *)
(* leaves its field as it was.                                             *)
ProbeSucceeds ==
    /\ pw.pc = "probe"
    /\ \E os \in {pw.edit.os, OSOf(pw.pool)}, host \in {pw.edit.host, TRUE} :
          pw' = [pw EXCEPT !.pc = "patchLabels", !.edit.valid = "true",
                           !.edit.os = os, !.edit.host = host]
    /\ UNCHANGED objectVars

(* The value a patch leaves in a field: the field is only sent when it     *)
(* differs from the copy that was read.                                    *)
Merged(old, new, live) == IF new = old THEN live ELSE new

(* Close patches the metadata, with the labels, first ... *)
PatchLabels ==
    LET live == Live(pools[pw.pool])
    IN  /\ pw.pc = "patchLabels"
        /\ pools' \in Patched(pools, pw.pool,
             [live EXCEPT
                !.valid = Merged(pw.snap.valid, pw.edit.valid, @),
                !.cluster = Merged(pw.snap.cluster, pw.edit.cluster, @)])
        /\ pw' = [pw EXCEPT !.pc = "patchStatus"]
        /\ UNCHANGED <<machines, ips, clusters, phase, node>>

(* Mutant of PatchStatus: an update of the whole object, labels included. *)
UpdateStatus ==
    /\ pw.pc = "patchStatus"
    /\ pools' \in Patched(pools, pw.pool,
         [pw.edit EXCEPT !.master = Live(pools[pw.pool]).master])
    /\ pw' = PoolIdle
    /\ UNCHANGED <<machines, ips, clusters, phase, node>>

(* ... and the status in a second call. *)
PatchStatus ==
    LET live == Live(pools[pw.pool])
    IN  /\ pw.pc = "patchStatus"
        /\ pools' \in Patched(pools, pw.pool,
             [live EXCEPT
                !.os = Merged(pw.snap.os, pw.edit.os, @),
                !.host = Merged(pw.snap.host, pw.edit.host, @)])
        /\ pw' = PoolIdle
        /\ UNCHANGED <<machines, ips, clusters, phase, node>>

ContinuePool == ProbeFails \/ ProbeSucceeds \/ PatchLabels \/ PatchStatus

PoolStep == (\E p \in Pools : ReadPool(p)) \/ ContinuePool
=============================================================================
