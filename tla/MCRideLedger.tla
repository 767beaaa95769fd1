---------------------------- MODULE MCRideLedger ----------------------------
(***************************************************************************)
(* RideLedger on a small instance: two riders, two drivers, two requests   *)
(* in flight.                                                              *)
(***************************************************************************)
EXTENDS RideLedger, TLC

CONSTANTS p1, p2, d1, d2, r1, r2, w1, w2

Symmetry == Permutations(Rider) \cup Permutations(Driver)
              \cup Permutations(Ride) \cup Permutations(Worker)
=============================================================================
