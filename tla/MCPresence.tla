----------------------------- MODULE MCPresence -----------------------------
(***************************************************************************)
(* Presence on a small instance: one driver, the rides he can be given, two *)
(* requests and his ping in flight.                                        *)
(***************************************************************************)
EXTENDS Presence, TLC

CONSTANTS p1, p2, d1, r1, r2, w1, w2

Symmetry == Permutations(Rider) \cup Permutations(Ride) \cup Permutations(Worker)
=============================================================================
