---------------------------- MODULE MCIdempotency ----------------------------
(***************************************************************************)
(* Idempotency on a small instance: three requests in flight, two bodies.  *)
(***************************************************************************)
EXTENDS Idempotency, TLC

CONSTANTS b1, b2, w1, w2, w3

Symmetry == Permutations(Worker) \cup Permutations(Body)
=============================================================================
