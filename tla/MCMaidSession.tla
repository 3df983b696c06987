---------------------------- MODULE MCMaidSession ----------------------------
EXTENDS MaidSession, TLC

(* Cameras, and pictures that are not films, are interchangeable. *)
SessionSymmetry == Permutations(Sources) \cup Permutations(Items \ Movies)
=============================================================================
