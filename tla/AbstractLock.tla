---------------------------- MODULE AbstractLock ----------------------------
(***************************************************************************)
(* What the locks of src/src/util/spinlock.h promise: each acquisition and *)
(* each release takes effect in one instant, and no thread acquires a lock *)
(* that another one has acquired more often than it has released it.       *)
(***************************************************************************)
EXTENDS Naturals

CONSTANTS
  Threads,
  Reentrant  \* whether a thread that has acquired the lock may do so again

VARIABLE depth  \* how many acquisitions each thread has to release

Init == depth = [t \in Threads |-> 0]

Acquire(t) ==
  /\ \A u \in Threads \ {t} : depth[u] = 0
  /\ Reentrant \/ depth[t] = 0
  /\ depth' = [depth EXCEPT ![t] = @ + 1]

Release(t) ==
  /\ depth[t] > 0
  /\ depth' = [depth EXCEPT ![t] = @ - 1]

Next == \E t \in Threads : Acquire(t) \/ Release(t)

Spec == Init /\ [][Next]_depth
=============================================================================
