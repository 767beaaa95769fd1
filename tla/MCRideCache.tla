----------------------------- MODULE MCRideCache -----------------------------
(***************************************************************************)
(* RideCache on a small instance: three requests in flight, two            *)
(* transitions, entries and requests that live two ticks.                  *)
(***************************************************************************)
EXTENDS RideCache, TLC

CONSTANTS w1, w2, w3
=============================================================================
