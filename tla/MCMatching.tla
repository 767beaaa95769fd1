----------------------------- MODULE MCMatching -----------------------------
(***************************************************************************)
(* Matching on a small instance: one rider, two rides, one driver, a       *)
(* handler and a sweeper.                                                  *)
(***************************************************************************)
EXTENDS Matching, TLC

CONSTANTS p1, d1, r1, r2, w1, s1

\* The rides are interchangeable, so it is no matter which one comes first:
\* symmetry written out, as TLC's own is not sound for liveness.
NumberedInOrder == status[r2] # Absent => status[r1] # Absent

\* A bound: nothing goes on once the last ride has left matching.
InMatching == \E r \in Ride : status[r] \in {Absent, "REQUESTED", "MATCHING"}

MCNext ==
  \/ InMatching /\ MatchingNext /\ NumberedInOrder'
  \/ ~InMatching /\ UNCHANGED matchVars

MCSpec == MatchingInit /\ [][MCNext]_matchVars /\ MatchingFairness
=============================================================================
