----------------------------- MODULE MCLibrary -----------------------------
(***************************************************************************)
(* A small instance of Library for TLC: the callables of the test, and the *)
(* calls of range with numbers of two bits.                                *)
(***************************************************************************)
EXTENDS Library, TLC

CONSTANTS square, double, ping

(* The types of the callables of the test: two lambdas and a function pointer. *)
MCTypeOf == (square :> "lambda") @@ (double :> "lambda2") @@ (ping :> "pointer")

(* Sums that wrap and step 0 included. *)
MCRanges == {0, 1} \X {0, 2, MaxI} \X {0, 1, 2, MaxI}
=============================================================================
