---------------------------- MODULE MCFinalizer ----------------------------
(* Symmetry for Finalizer: requests are interchangeable. *)
EXTENDS Finalizer, TLC

RequestSymmetry == Permutations(Requests)
=============================================================================
