----------------------------- MODULE MCAttempts -----------------------------
(***************************************************************************)
(* Attempts on a small instance: one attempt at one single item q and one  *)
(* constructed item k of one point each, both needed to pass, so that the  *)
(* answers decide whether a submit scores or parks the attempt and the     *)
(* grade decides whether it passes.  Requests are as many as Reqs at any   *)
(* one time and unboundedly many over time.                                *)
(***************************************************************************)
EXTENDS AttemptView, TLC

CONSTANTS q, k

MCItems  == {q, k}
MCKind   == q :> "single" @@ k :> "constructed"
MCKey    == q :> <<"right">> @@ k :> <<>>
MCPoints == q :> 1 @@ k :> 1

MCResponses == {<<"right">>, <<"wrong">>}
MCGrades    == {0, 1}
MCAnswerBodies == {q :> <<"right">>, q :> <<"wrong">>, k :> <<"right">>}
MCGradeBodies  == {k :> 0, k :> 1}

(* Requests, credential rows and reasons are interchangeable, and none of  *)
(* the properties is a liveness property.                                  *)
Symmetry == Permutations(Reqs) \cup Permutations(Creds) \cup Permutations(Reasons)
=============================================================================
