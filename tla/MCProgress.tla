----------------------------- MODULE MCProgress -----------------------------
(***************************************************************************)
(* Progress on a small instance: a course that grows to two lessons while  *)
(* one learner completes them and starts the exam, one attempt allowed.    *)
(***************************************************************************)
EXTENDS Progress, TLC

(* All properties are safety properties.                                   *)
Symmetry == Permutations(Reqs) \cup Permutations(Lessons) \cup Permutations(AttemptIds)
=============================================================================
