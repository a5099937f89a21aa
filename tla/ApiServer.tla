------------------------------ MODULE ApiServer ------------------------------
(***************************************************************************)
(* The Kubernetes API server and the informer caches the controllers read  *)
(* from, as this repository uses them (external code).                     *)
(*                                                                         *)
(* An API object is its log: the nonempty sequence of its versions that    *)
(* the controllers' cache has not moved past.  The head is what Get and    *)
(* List return, the last one is what the server holds.  client.Patch and   *)
(* patch.Helper send a merge patch without a resourceVersion, so a write   *)
(* computed from a stale head still lands on the last version.             *)
(***************************************************************************)
EXTENDS Integers, Sequences

CONSTANTS
    MaxLag,   \* how many versions a cache may be behind; 0 is a fresh read
    Faults    \* the failures that may happen, of FaultKinds

FaultKinds == {"api", "ssh", "reset", "crash"}

ASSUME ApiAssumption == MaxLag \in Nat /\ Faults \subseteq FaultKinds

Log(Version) == {log \in Seq(Version) : Len(log) \in 1 .. (MaxLag + 1)}

Seen(log) == Head(log)

Live(log) == log[Len(log)]

(* A write that changes nothing makes no version and no watch event. *)
Push(log, version) ==
    IF version = Live(log) THEN log
    ELSE IF Len(log) > MaxLag THEN Append(Tail(log), version)
    ELSE Append(log, version)

(* The stores a write of object k may leave behind: every caller here      *)
(* ignores or only logs the error of its patch and goes on.                *)
Patched(store, k, version) ==
    {[store EXCEPT ![k] = Push(store[k], version)]}
        \cup (IF "api" \in Faults THEN {store} ELSE {})

(* A watch event moves the cache one version on. *)
Delivered(log) == IF Len(log) > 1 THEN Tail(log) ELSE log

(* A restarted manager lists every kind before a worker runs. *)
Relisted(store) == [k \in DOMAIN store |-> <<Live(store[k])>>]
=============================================================================
