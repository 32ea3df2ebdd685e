----------------------------- MODULE MCLearners -----------------------------
(***************************************************************************)
(* Learners on a small instance.                                           *)
(***************************************************************************)
EXTENDS Learners, TLC

Symmetry == Permutations(Reqs) \cup Permutations(Refs)
=============================================================================
