----------------------------- MODULE NodeAttempt -----------------------------
(***************************************************************************)
(* What the machine controller relies on when it hands a node to           *)
(* doProvisioning: one attempt at a time, which ends in success only when  *)
(* the bootstrap command of its machine was the last one to succeed there. *)
(***************************************************************************)
CONSTANTS Machines, None

VARIABLES attempt,   \* the machine the node is provisioned for
          outcome,   \* what the last attempt returned
          joined     \* the machine whose bootstrap command succeeded last

attemptVars == <<attempt, outcome, joined>>

Init == attempt = None /\ outcome = "none" /\ joined = None

Begin == /\ attempt = None
         /\ attempt' \in Machines /\ outcome' = "none"
         /\ UNCHANGED joined

Succeed == /\ attempt # None
           /\ joined' = attempt /\ outcome' = "ok" /\ attempt' = None

(* An attempt may fail before it begins, and end without an answer. *)
Fail == /\ outcome' \in {"error", "none"} /\ attempt' = None
        /\ UNCHANGED joined

Reset == attempt = None /\ joined' = None /\ UNCHANGED <<attempt, outcome>>

Next == Begin \/ Succeed \/ Fail \/ Reset

Spec == Init /\ [][Next]_attemptVars
=============================================================================
