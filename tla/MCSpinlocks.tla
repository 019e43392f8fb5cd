---------------------------- MODULE MCSpinlocks ----------------------------
(* The instance of Spinlocks that TLC checks: three threads. *)
EXTENDS Spinlocks
=============================================================================
