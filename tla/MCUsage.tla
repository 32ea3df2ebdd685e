------------------------------ MODULE MCUsage ------------------------------
(***************************************************************************)
(* Usage on a small instance.  One learner, seen by her enrollment and by  *)
(* her attempt.                                                            *)
(***************************************************************************)
EXTENDS Usage, TLC

MCLearnerOf == [ref \in Refs |-> "learner"]

(* All properties are safety properties.                                   *)
Symmetry ==
  Permutations(Calls) \cup Permutations(Flights) \cup Permutations(Runners)
    \cup Permutations(Tenants)
=============================================================================
