--------------------------- MODULE RideAllocation ---------------------------
(***************************************************************************)
(* What the ride ledger promises, without statuses, trips or requests:     *)
(* a rider has at most one open ride, a ride is given to at most one       *)
(* driver in its life, a driver works on at most one open ride, and a      *)
(* closed ride stays as it was when it closed.                             *)
(***************************************************************************)
CONSTANTS Rider, Driver, Ride, None

VARIABLES owner,    \* Ride -> the rider who booked it, None before that
          holder,   \* Ride -> the driver it was given to, None before that
          phase     \* Ride -> "new", "open" or "closed"

vars == <<owner, holder, phase>>

OpenRidesOf(who, column) == {r \in Ride : phase[r] = "open" /\ column[r] = who}

Init ==
  /\ owner = [r \in Ride |-> None]
  /\ holder = [r \in Ride |-> None]
  /\ phase = [r \in Ride |-> "new"]

Book(r, p) ==
  /\ phase[r] = "new"
  /\ OpenRidesOf(p, owner) = {}
  /\ owner' = [owner EXCEPT ![r] = p]
  /\ phase' = [phase EXCEPT ![r] = "open"]
  /\ UNCHANGED holder

Give(r, d) ==
  /\ phase[r] = "open"
  /\ holder[r] = None
  /\ OpenRidesOf(d, holder) = {}
  /\ holder' = [holder EXCEPT ![r] = d]
  /\ UNCHANGED <<owner, phase>>

Close(r) ==
  /\ phase[r] = "open"
  /\ phase' = [phase EXCEPT ![r] = "closed"]
  /\ UNCHANGED <<owner, holder>>

Next == \E r \in Ride :
  \/ \E p \in Rider : Book(r, p)
  \/ \E d \in Driver : Give(r, d)
  \/ Close(r)

Spec == Init /\ [][Next]_vars
=============================================================================
