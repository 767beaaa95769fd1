----------------------------- MODULE MCPayments -----------------------------
(***************************************************************************)
(* Payments on small instances: one ride with racing requests, or two      *)
(* rides, one of them with an amount that always fails.                    *)
(***************************************************************************)
EXTENDS Payments, TLC

CONSTANTS r1, r2, a, b, c, d, w1, w2, w3

Symmetry == Permutations(Ref) \cup Permutations(Worker)
=============================================================================
