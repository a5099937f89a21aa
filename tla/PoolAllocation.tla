--------------------------- MODULE PoolAllocation ---------------------------
(***************************************************************************)
(* What the provider promises about its machine pools: a pool is handed to *)
(* one machine at a time, a pool goes to another machine only after it was *)
(* released, and one that was lost is never handed out again.              *)
(***************************************************************************)
CONSTANTS Machines, Pools,
          Offline,   \* a pool that is not offered yet
          Free,      \* offered to any machine
          Lost       \* taken by a machine that no longer knows it

VARIABLE owner

Init == owner = [p \in Pools |-> Offline]

Become(p, from, to) == owner[p] \in from /\ owner' = [owner EXCEPT ![p] = to]

(* The pool has been probed and is offered. *)
Offer(p) == Become(p, {Offline}, Free)
Acquire(m, p) == Become(p, {Free}, m)
Release(p) == Become(p, Machines, Free)
Lose(p) == Become(p, Machines, Lost)

Next == \E p \in Pools :
           \/ Offer(p) \/ Release(p) \/ Lose(p)
           \/ \E m \in Machines : Acquire(m, p)

Spec == Init /\ [][Next]_owner
=============================================================================
