---------------------------- MODULE MCIdempotency ----------------------------
(***************************************************************************)
(* Idempotency on a small instance.  The keys are alike for the protocol,  *)
(* so one key is enough beside requests without a key; two fingerprints    *)
(* make a mismatch possible.  No symmetry: liveness is checked.            *)
(***************************************************************************)
EXTENDS Idempotency
=============================================================================
