---------------------------- MODULE MCEventStream ----------------------------
(***************************************************************************)
(* EventStream on a small instance: three requests that publish, two       *)
(* clients, four transitions.                                              *)
(***************************************************************************)
EXTENDS EventStream, TLC

CONSTANTS w1, w2, w3, c1, c2

Symmetry == Permutations(Worker) \cup Permutations(Client)

=============================================================================
