---------------------------- MODULE MCJobSystem ----------------------------
(* The instances of JobSystem that TLC checks: two or three workers and     *)
(* one client.                                                              *)
EXTENDS JobSystem

CONSTANTS c1, j1, j2, j3

MCWorks == 1..Cardinality(Jobs)
MCPins == {NULL, 1}
NoPins == {NULL}

(* Fresh blocks are alike: while nothing is freed, one choice stands for all. *)
AnyBlock(free) == free
OneBlock(free) == IF free = {} THEN {} ELSE {CHOOSE j \in free : TRUE}

(* To keep three workers small: no client waits, and nothing is chained. *)
NoWaiter == \A c \in Clients : pc[c] = "ready"
NoChain == \A k \in Works : task[k].after = NULL
=============================================================================
