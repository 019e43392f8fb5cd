----------------------------- MODULE MCJobQueue -----------------------------
(* The instance of JobQueue that TLC checks: two threads, each with a      *)
(* thread_local bin, and one shared queue.                                 *)
EXTENDS JobQueue, TLC

CONSTANTS t1, t2, b1, b2

MCOwner == (b1 :> t1) @@ (b2 :> t2)
=============================================================================
