-------------------------- MODULE MCJobSystemStart --------------------------
(* The instance of JobSystemStart that TLC checks: two threads construct    *)
(* and schedule, and the pool has one, two or three workers.                *)
EXTENDS JobSystemStart

MCRequests == {NULL, 0, 2}
=============================================================================
