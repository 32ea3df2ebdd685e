----------------------------- MODULE MCKeyCache -----------------------------
(***************************************************************************)
(* KeyCache on a small instance: one key, two workers, two requests at a   *)
(* time, and a clock that outlives the time to live and a lookup.  A key   *)
(* that is cached at time 1 expires before its record does.                *)
(***************************************************************************)
EXTENDS KeyCache, TLC

MCExpiries == {NULL, 1}
MCPrefix == [k \in Keys |-> "slug_0123456"]

(* All properties are safety properties.                                   *)
Symmetry == Permutations(Reqs) \cup Permutations(Workers)
=============================================================================
