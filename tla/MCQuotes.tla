------------------------------ MODULE MCQuotes ------------------------------
(***************************************************************************)
(* Quotes on a small instance: two quotes in the making, a window of two   *)
(* minutes of two ticks.                                                   *)
(***************************************************************************)
EXTENDS Quotes, TLC

CONSTANTS w1, w2

Symmetry == Permutations(Worker)
=============================================================================
