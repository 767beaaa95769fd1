----------------------------- MODULE RideLedger -----------------------------
(***************************************************************************)
(* The Postgres side of GoRide: the rides, drivers, trips and payments     *)
(* rows, and the transactions the services commit on them.                 *)
(*                                                                         *)
(* A committed transaction is one step: its guarded UPDATEs take the row   *)
(* locks that make it atomic.  What is NOT atomic is a request that reads  *)
(* a row first and opens its transaction later, or that commits two        *)
(* transactions in a row; such a request is a worker between two steps,    *)
(* and proc[w] holds exactly what the goroutine remembers in between.      *)
(***************************************************************************)
EXTENDS RideStates, Naturals

CONSTANTS Rider, Driver, Ride,
          Worker,   \* request goroutines alive at the same time (a bound)
          None      \* NULL, and the idle goroutine

ASSUME LedgerAssumption == None \notin (Rider \cup Driver \cup Ride)

VARIABLES
  status, rider_id, driver_id,   \* Ride -> column of the ride's rides row
  driver_status,                 \* Driver -> status column of the drivers row
  trip_status,                   \* Ride -> status column of its trips row
  payments,                      \* Ride -> number of its payments rows
  proc                           \* Worker -> the request it is serving

owners     == <<rider_id, driver_id>>
ledgerVars == <<status, rider_id, driver_id, driver_status, trip_status, payments>>
vars       == <<status, rider_id, driver_id, driver_status, trip_status, payments, proc>>

TripStatus == {Absent, "STARTED", "PAUSED", "ENDED"}

Idle == [op |-> "idle"]

\* What a request remembers between its steps.
Request ==
  {Idle}
    \cup [op : {"create", "start"}, ride : Ride]
    \cup [op : {"cancel"}, ride : Ride, to : Cancelled, seen : Driver \cup {None}]
    \cup [op : {"end"}, ride : Ride, driver : Driver]
    \cup [op : {"toggle"}, driver : Driver, to : {"offline", "available"},
          seen : DriverStatus, busy : BOOLEAN]

TypeOK ==
  /\ status \in [Ride -> RideStatus \cup {Absent}]
  /\ rider_id \in [Ride -> Rider \cup {None}]
  /\ driver_id \in [Ride -> Driver \cup {None}]
  /\ driver_status \in [Driver -> DriverStatus]
  /\ trip_status \in [Ride -> TripStatus]
  /\ payments \in [Ride -> Nat]
  /\ proc \in [Worker -> Request]

(***************************************************************************)
(* Row operations.                                                         *)
(***************************************************************************)

\* The partial unique indexes rides_active_rider_uq and rides_active_driver_uq.
RiderActive(p)  == \E r \in Ride : rider_id[r] = p /\ status[r] \in ActiveStatus
DriverActive(d) == \E r \in Ride : driver_id[r] = d /\ status[r] \in ActiveStatus

SetStatus(r, to) == status' = [status EXCEPT ![r] = to] /\ UNCHANGED owners

\* UPDATE rides SET status = to WHERE id = r AND status = ANY(from).
UpdateStatus(r, from, to) == status[r] \in from /\ SetStatus(r, to)

\* UPDATE drivers SET status = 'available' WHERE id = d AND status = 'on_trip';
\* d may be NULL.
FreeDriver(d) ==
  driver_status' = [e \in Driver |-> IF e = d /\ driver_status[e] = "on_trip"
                               THEN "available" ELSE driver_status[e]]

\* The WHERE clause of the availability UPDATE, on a driver status and on the
\* result of the NOT EXISTS subquery over rides.
AvailabilityGuard(was, busy) ==
  was \in {"offline", "available"} \/ (was = "on_trip" /\ ~busy)

Become(w, request) == proc[w] = Idle /\ proc' = [proc EXCEPT ![w] = request]
Serving(w, op)     == proc[w].op = op
Done(w)            == proc' = [proc EXCEPT ![w] = Idle]

(***************************************************************************)
(* rides.Service: Create, Cancel, Expire, Arriving, Arrived.               *)
(***************************************************************************)

\* Mutant: no unique index on the rider's active rides.
CreateGuard_NoIndex(p, r) == status[r] = Absent

\* A fresh id, and no unique violation (which is ErrAlreadyActive).
CreateGuard(p, r) == status[r] = Absent /\ ~RiderActive(p)

\* The rider holds a valid quote of his own.
CreateInsert(w, p, r) ==
  /\ CreateGuard(p, r)
  /\ status' = [status EXCEPT ![r] = "REQUESTED"]
  /\ rider_id' = [rider_id EXCEPT ![r] = p]
  /\ Become(w, [op |-> "create", ride |-> r])
  /\ UNCHANGED <<driver_id, driver_status, trip_status, payments>>

MatchingRows(w) ==
  /\ Serving(w, "create")
  /\ UpdateStatus(proc[w].ride, {"REQUESTED"}, "MATCHING")
  /\ UNCHANGED <<driver_status, trip_status, payments>>

CreateMatching(w) == MatchingRows(w) /\ Done(w)

\* The authorization read: the actor is the ride's rider, or its driver.
CancelRead(w, r, to) ==
  /\ status[r] # Absent
  /\ to = "CANCELLED_BY_DRIVER" => driver_id[r] # None
  /\ Become(w, [op |-> "cancel", ride |-> r, to |-> to, seen |-> driver_id[r]])
  /\ UNCHANGED ledgerVars

\* Mutant: frees the driver of the authorization snapshot.
CancelTx_FreesSeen(w) ==
  /\ Serving(w, "cancel")
  /\ UpdateStatus(proc[w].ride, sourcesFor(proc[w].to), proc[w].to)
  /\ FreeDriver(proc[w].seen)
  /\ Done(w)
  /\ UNCHANGED <<trip_status, payments>>

\* The driver to free is read again under the row lock, not taken from `seen`.
CancelTx(w) ==
  /\ Serving(w, "cancel")
  /\ UpdateStatus(proc[w].ride, sourcesFor(proc[w].to), proc[w].to)
  /\ FreeDriver(driver_id[proc[w].ride])
  /\ Done(w)
  /\ UNCHANGED <<trip_status, payments>>

\* Mutants: the sweeper trusts its snapshot and expires any active ride; a
\* status the schema does not know.
Expire_Misspelt(r) ==
  /\ UpdateStatus(r, {"MATCHING"}, "TIMED_OUT")
  /\ UNCHANGED <<driver_status, trip_status, payments, proc>>

Expire_Unguarded(r) ==
  /\ UpdateStatus(r, ActiveStatus, "EXPIRED")
  /\ UNCHANGED <<driver_status, trip_status, payments, proc>>

Expire(r) ==
  /\ UpdateStatus(r, {"MATCHING"}, "EXPIRED")
  /\ UNCHANGED <<driver_status, trip_status, payments, proc>>

\* driver_id is written once, so its read and the guarded UPDATE are one step.
driverProgress(r, from, to) ==
  /\ driver_id[r] # None
  /\ UpdateStatus(r, from, to)
  /\ UNCHANGED <<driver_status, trip_status, payments, proc>>

Arriving(r) == driverProgress(r, {"DRIVER_ASSIGNED"}, "DRIVER_ARRIVING")
Arrived(r)  == driverProgress(r, {"DRIVER_ARRIVING"}, "ARRIVED")

(***************************************************************************)
(* matching.Engine: the assignment transaction of an accept.               *)
(***************************************************************************)

\* Mutants: no unique index on the driver's active rides; no test that the
\* ride is still MATCHING.
AssignGuard_NoIndex(r, d)   == status[r] = "MATCHING" /\ driver_status[d] = "available"
AssignGuard_AnyActive(r, d) == /\ status[r] \in ActiveStatus
                               /\ ~DriverActive(d)
                               /\ driver_status[d] = "available"

\* The WHERE clauses of both UPDATEs; writing driver_id is subject to the
\* unique index.  Either failing rolls the transaction back.
AssignGuard(r, d) == /\ status[r] = "MATCHING"
                     /\ ~DriverActive(d)
                     /\ driver_status[d] = "available"

AssignRows(r, d) ==
  /\ AssignGuard(r, d)
  /\ status' = [status EXCEPT ![r] = "DRIVER_ASSIGNED"]
  /\ driver_id' = [driver_id EXCEPT ![r] = d]
  /\ driver_status' = [driver_status EXCEPT ![d] = "on_trip"]
  /\ UNCHANGED <<rider_id, trip_status, payments>>

assignTx(r, d) == AssignRows(r, d) /\ UNCHANGED proc

(***************************************************************************)
(* trips.Service: Start, Pause, Resume, End.                               *)
(***************************************************************************)

\* The assigned driver's call, the ride ARRIVED, the OTP correct.
StartRead(w, r) ==
  /\ driver_id[r] # None
  /\ status[r] = "ARRIVED"
  /\ Become(w, [op |-> "start", ride |-> r])
  /\ UNCHANGED ledgerVars

StartTx(w) ==
  /\ Serving(w, "start")
  /\ UpdateStatus(proc[w].ride, {"ARRIVED"}, "IN_PROGRESS")
  /\ trip_status[proc[w].ride] = Absent
  /\ trip_status' = [trip_status EXCEPT ![proc[w].ride] = "STARTED"]
  /\ Done(w)
  /\ UNCHANGED <<driver_status, payments>>

UpdateTrip(r, from, to) == trip_status[r] \in from /\ trip_status' = [trip_status EXCEPT ![r] = to]

\* The assigned driver's calls.
Pause(r) ==
  /\ driver_id[r] # None
  /\ UpdateTrip(r, {"STARTED"}, "PAUSED")
  /\ UNCHANGED <<status, owners, driver_status, payments, proc>>

Resume(r) ==
  /\ driver_id[r] # None
  /\ UpdateTrip(r, {"PAUSED"}, "STARTED")
  /\ UNCHANGED <<status, owners, driver_status, payments, proc>>

EndRead(w, r) ==
  /\ driver_id[r] # None
  /\ status[r] = "IN_PROGRESS"
  /\ trip_status[r] # Absent
  /\ Become(w, [op |-> "end", ride |-> r, driver |-> driver_id[r]])
  /\ UNCHANGED ledgerVars

\* Mutant: End relies on the statuses it read before its transaction.
EndRows_Unguarded(r) ==
  /\ SetStatus(r, "COMPLETED")
  /\ trip_status' = [trip_status EXCEPT ![r] = "ENDED"]

\* Both guarded UPDATEs must hit a row, or the transaction rolls back.
EndRows(r) ==
  /\ UpdateStatus(r, {"IN_PROGRESS"}, "COMPLETED")
  /\ UpdateTrip(r, {"STARTED", "PAUSED"}, "ENDED")

EndTx(w) ==
  /\ Serving(w, "end")
  /\ EndRows(proc[w].ride)
  /\ FreeDriver(proc[w].driver)
  /\ payments' = [payments EXCEPT ![proc[w].ride] = @ + 1]
  /\ Done(w)

(***************************************************************************)
(* drivers.Service: SetAvailability.                                       *)
(*                                                                         *)
(* The UPDATE of drivers is one statement, but two points in time under    *)
(* READ COMMITTED: its snapshot, and the moment it holds the row lock.  If *)
(* the drivers row changed in between, Postgres evaluates the WHERE clause *)
(* again on the new row, with the subquery over rides still reading the    *)
(* statement's snapshot.                                                   *)
(***************************************************************************)

ToggleSnapshot(w, d, to) ==
  /\ Become(w, [op |-> "toggle", driver |-> d, to |-> to,
                seen |-> driver_status[d], busy |-> DriverActive(d)])
  /\ UNCHANGED ledgerVars

AvailabilityRows(w) ==
  /\ Serving(w, "toggle")
  /\ AvailabilityGuard(proc[w].seen, proc[w].busy)
  /\ AvailabilityGuard(driver_status[proc[w].driver], proc[w].busy)
  /\ driver_status' = [driver_status EXCEPT ![proc[w].driver] = proc[w].to]
  /\ UNCHANGED <<status, owners, trip_status, payments>>

ToggleRow(w) == AvailabilityRows(w) /\ Done(w)

\* A guard that matches no row, a database error, a client that goes away, a
\* crash of the process: the request ends and nothing more is written.
Abandon(w) ==
  /\ proc[w] # Idle
  /\ Done(w)
  /\ UNCHANGED ledgerVars

Init ==
  /\ status = [r \in Ride |-> Absent]
  /\ rider_id = [r \in Ride |-> None]
  /\ driver_id = [r \in Ride |-> None]
  /\ driver_status \in [Driver -> {"offline", "available"}]
  /\ trip_status = [r \in Ride |-> Absent]
  /\ payments = [r \in Ride |-> 0]
  /\ proc = [w \in Worker |-> Idle]

RideStep(r) ==
  \/ Expire(r) \/ Arriving(r) \/ Arrived(r) \/ Pause(r) \/ Resume(r)
  \/ \E d \in Driver : assignTx(r, d)

Read(w) ==
  \/ \E r \in Ride :
       \/ \E p \in Rider : CreateInsert(w, p, r)
       \/ \E to \in Cancelled : CancelRead(w, r, to)
       \/ StartRead(w, r)
       \/ EndRead(w, r)
  \/ \E d \in Driver, to \in {"offline", "available"} : ToggleSnapshot(w, d, to)

Commit(w) ==
  CreateMatching(w) \/ CancelTx(w) \/ StartTx(w) \/ EndTx(w) \/ ToggleRow(w)

Next ==
  \/ \E r \in Ride : RideStep(r)
  \/ \E w \in Worker : Read(w) \/ Commit(w) \/ Abandon(w)

Spec == Init /\ [][Next]_vars

(***************************************************************************)
(* Properties.                                                             *)
(***************************************************************************)

\* A rider never has two active rides, whatever requests race: the partial
\* unique index on insert, and no move of any handler that revives a ride.
RiderHasOneRide ==
  \A r, s \in Ride :
    /\ status[r] \in ActiveStatus /\ status[s] \in ActiveStatus
    /\ rider_id[r] = rider_id[s]
    => r = s

\* No double assignment: a driver is never the driver of two active rides,
\* also when an availability toggle puts a driver back to 'available' in the
\* middle of an assignment.
DriverHasOneRide ==
  \A r, s \in Ride :
    /\ status[r] \in ActiveStatus /\ status[s] \in ActiveStatus
    /\ driver_id[r] = driver_id[s] /\ driver_id[r] # None
    => r = s

\* The driver column and the status of a ride tell the same story: no driver
\* before an assignment, one from the assignment on.
DriverRecorded ==
  \A r \in Ride :
    /\ status[r] \in {Absent, "REQUESTED", "MATCHING", "EXPIRED"} => driver_id[r] = None
    /\ status[r] \in assignedOrLater => driver_id[r] # None

\* No orphaned driver: a driver marked on_trip is the driver of an active ride,
\* so whichever of Cancel and End closes the ride also frees its driver, even
\* one assigned after the cancelling request looked.
OnTripHasRide ==
  \A d \in Driver : driver_status[d] = "on_trip" => DriverActive(d)

\* The trips and payments rows follow the ride: a trip from IN_PROGRESS on,
\* ended exactly with the ride, and one payment per completed ride, also when
\* the driver's app ends the trip twice.
TripMatchesRide ==
  \A r \in Ride :
    /\ trip_status[r] # Absent <=> status[r] \in {"IN_PROGRESS", "COMPLETED"}
    /\ trip_status[r] = "ENDED" <=> status[r] = "COMPLETED"
    /\ payments[r] = IF status[r] = "COMPLETED" THEN 1 ELSE 0

\* Every write of a ride status, by the funnel of the rides service or by the
\* literal SQL of matching and trips, is an edge of the transition table.
LegalMove(r) ==
  status'[r] = status[r]
    \/ (status[r] = Absent /\ status'[r] = "REQUESTED")
    \/ (status[r] \in RideStatus /\ Transition(status[r], status'[r]))

LegalMoves == [][\A r \in Ride : LegalMove(r)]_vars

\* Of the accepts of one ride the first to commit wins, for good, whatever is in
\* flight beside them.  Two drivers can hold a live offer for one ride, as the
\* claim on offer:driver does not look at offer:ride, and an accept keeps
\* nothing between its GETDEL and its transaction but whom it is of: assignTx
\* is the commit of any accept in flight, and its guards decide, not the offer.
AssignedOnce ==
  [][\A r \in Ride : driver_id[r] # None => driver_id'[r] = driver_id[r]]_vars

\* An end request remembers the driver of its ride.
EndKnowsDriver ==
  \A w \in Worker : proc[w].op = "end" => driver_id[proc[w].ride] = proc[w].driver

\* The inductive invariant of the ledger.
LedgerInv ==
  /\ TypeOK
  /\ RiderHasOneRide
  /\ DriverHasOneRide
  /\ DriverRecorded
  /\ OnTripHasRide
  /\ TripMatchesRide
  /\ EndKnowsDriver

\* A driver with an active ride is on_trip: a driver on a ride must not be able
\* to toggle to offline or available.
BusyDriverOnTrip ==
  \A d \in Driver : DriverActive(d) => driver_status[d] = "on_trip"

(***************************************************************************)
(* The abstract allocation the ledger implements.                          *)
(***************************************************************************)

PhaseOf(r) == IF status[r] = Absent THEN "new"
              ELSE IF status[r] \in ActiveStatus THEN "open" ELSE "closed"

Allocation == INSTANCE RideAllocation WITH
                owner  <- rider_id,
                holder <- driver_id,
                phase  <- [r \in Ride |-> PhaseOf(r)]

\* The ledger implements the allocation: each committed transaction books a
\* ride, gives it to a driver, closes it, or leaves the allocation alone.
ImplementsAllocation == Allocation!Spec
=============================================================================
