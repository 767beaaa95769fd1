------------------------------- MODULE MCTrips -------------------------------
(***************************************************************************)
(* Trips on a small instance: one ride, two requests of its driver in      *)
(* flight.  The rates are those of the tier mini.                           *)
(***************************************************************************)
EXTENDS Trips, TLC

CONSTANTS p1, d1, r1, w1, w2

MCRates == Tiers.mini

MCQuote == [distance |-> 300, duration |-> 60, surge |-> 120, fare |-> 4200]

Symmetry == Permutations(Worker)

\* What can still be told of a ride whose requests overlapped or left a pause
\* behind, is the same for both, and whatever else went wrong: mishaps are only
\* ever added, and only read by PausesInOrder and as none at all.
View ==
  <<status, owners, driver_status, trip_status, payments, proc,
    otp_hash, bill, trip_dist, paused_at, ping, now,
    [r \in Ride |-> IF PausesInOrder(r) THEN history[r]
                                        ELSE [history[r] EXCEPT !.mishaps = {"overlap"}]]>>
=============================================================================
