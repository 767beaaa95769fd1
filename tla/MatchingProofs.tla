--------------------------- MODULE MatchingProofs ---------------------------
(***************************************************************************)
(* The ledger and the matching engine that runs on it, for any number of   *)
(* riders, drivers, rides, requests and sweepers.                          *)
(*                                                                         *)
(* The ledger: its invariants, the transition table, and that it           *)
(* implements the abstract allocation.  The engine: who is assigned gave   *)
(* an offer of that ride, for good; what expires was overdue, unassigned;  *)
(* it writes the rows by the transactions of the ledger only, and the      *)
(* ledger's guarantees are its own.                                        *)
(***************************************************************************)
EXTENDS Matching, TLAPS

(***************************************************************************)
(* The ledger: type correctness and the safety invariants.                 *)
(***************************************************************************)

\* What a request of each kind carries.
LEMMA RequestFields ==
  ASSUME NEW q \in Request
  PROVE  /\ q.op \in {"idle", "create", "start", "cancel", "end", "toggle"}
         /\ q.op \in {"create", "start"} => q.ride \in Ride
         /\ q.op = "cancel" => q.ride \in Ride /\ q.to \in Cancelled
         /\ q.op = "end" => q.ride \in Ride /\ q.driver \in Driver
         /\ q.op = "toggle" => /\ q.driver \in Driver
                               /\ q.to \in {"offline", "available"}
BY DEF Request, Idle

\* Cancellation is legal exactly before the trip starts.
LEMMA CancelSources ==
  ASSUME NEW to \in Cancelled
  PROVE  sourcesFor(to) = {"REQUESTED", "MATCHING", "DRIVER_ASSIGNED",
                           "DRIVER_ARRIVING", "ARRIVED"}
BY DEF sourcesFor, Transition, transitions, Cancelled, RideStatus

\* Ending a request keeps proc well typed.
LEMMA DoneType ==
  ASSUME proc \in [Worker -> Request], NEW w \in Worker, Done(w)
  PROVE  /\ proc' \in [Worker -> Request]
         /\ \A v \in Worker : proc'[v].op = "end" => proc'[v] = proc[v]
BY DEF Done, Request, Idle

\* Freeing a driver writes that driver's row only, and takes it off on_trip.
LEMMA FreeDriverType ==
  ASSUME driver_status \in [Driver -> DriverStatus], NEW d, FreeDriver(d)
  PROVE  /\ driver_status' \in [Driver -> DriverStatus]
         /\ \A e \in Driver : driver_status'[e] = "on_trip"
                                => driver_status[e] = "on_trip" /\ e # d
BY DEF FreeDriver, DriverStatus

LEMMA InitInv == Init => LedgerInv
BY LedgerAssumption
   DEF Init, LedgerInv, TypeOK, RiderHasOneRide, DriverHasOneRide, DriverRecorded,
       OnTripHasRide, TripMatchesRide, EndKnowsDriver, ActiveStatus, Absent,
       assignedOrLater, TripStatus, DriverStatus, Request, Idle

(***************************************************************************)
(* Every step keeps the invariant, one step of the proof per action.       *)
(***************************************************************************)
LEMMA StepInv == LedgerInv /\ [Next]_vars => LedgerInv'
<1> SUFFICES ASSUME LedgerInv, [Next]_vars PROVE LedgerInv'
  OBVIOUS
<1> USE LedgerAssumption
    DEF LedgerInv, TypeOK, RiderHasOneRide, DriverHasOneRide, DriverRecorded,
        OnTripHasRide, TripMatchesRide, EndKnowsDriver, DriverActive, RideStatus,
        ActiveStatus, Cancelled, Absent, assignedOrLater, owners
<1>1. ASSUME NEW r \in Ride, Expire(r) PROVE LedgerInv'
  BY <1>1 DEF Expire, UpdateStatus, SetStatus
<1>2. ASSUME NEW r \in Ride, Arriving(r) PROVE LedgerInv'
  BY <1>2 DEF Arriving, driverProgress, UpdateStatus, SetStatus
<1>3. ASSUME NEW r \in Ride, Arrived(r) PROVE LedgerInv'
  BY <1>3 DEF Arrived, driverProgress, UpdateStatus, SetStatus
<1>4. ASSUME NEW r \in Ride, Pause(r) PROVE LedgerInv'
  BY <1>4 DEF Pause, UpdateTrip, TripStatus
<1>5. ASSUME NEW r \in Ride, Resume(r) PROVE LedgerInv'
  BY <1>5 DEF Resume, UpdateTrip, TripStatus
<1>6. ASSUME NEW r \in Ride, NEW d \in Driver, assignTx(r, d) PROVE LedgerInv'
  <2> USE <1>6 DEF assignTx, AssignRows, AssignGuard
  <2>1. driver_id[r] = None
    OBVIOUS
  <2>2. TypeOK'
    BY DEF DriverStatus
  <2>3. RiderHasOneRide'
    OBVIOUS
  <2>4. DriverHasOneRide'
    OBVIOUS
  <2>5. DriverRecorded'
    OBVIOUS
  <2>6. OnTripHasRide'
    BY <2>1
  <2>7. TripMatchesRide'
    OBVIOUS
  <2>8. EndKnowsDriver'
    BY <2>1, RequestFields
  <2> QED BY <2>2, <2>3, <2>4, <2>5, <2>6, <2>7, <2>8
<1>7. ASSUME NEW w \in Worker, NEW p \in Rider, NEW r \in Ride, CreateInsert(w, p, r)
      PROVE  LedgerInv'
  <2> USE <1>7 DEF CreateInsert, CreateGuard, RiderActive, Become
  <2>1. proc' \in [Worker -> Request]
    BY DEF Request
  <2>2. EndKnowsDriver'
    OBVIOUS
  <2>3. RiderHasOneRide'
    OBVIOUS
  <2> QED BY <2>1, <2>2, <2>3
<1>8. ASSUME NEW w \in Worker, CreateMatching(w) PROVE LedgerInv'
  <2>1. proc[w].ride \in Ride
    BY <1>8, RequestFields DEF CreateMatching, MatchingRows, Serving
  <2> QED BY <1>8, <2>1, DoneType DEF CreateMatching, MatchingRows, UpdateStatus, SetStatus
<1>9. ASSUME NEW w \in Worker, NEW r \in Ride, NEW to \in Cancelled, CancelRead(w, r, to)
      PROVE  LedgerInv'
  <2>1. proc' \in [Worker -> Request]
    BY <1>9 DEF CancelRead, Become, Request
  <2>2. EndKnowsDriver'
    BY <1>9 DEF CancelRead, Become, ledgerVars
  <2> QED BY <1>9, <2>1, <2>2 DEF CancelRead, ledgerVars
<1>10. ASSUME NEW w \in Worker, CancelTx(w) PROVE LedgerInv'
  <2>1. proc[w].ride \in Ride /\ proc[w].to \in Cancelled
    BY <1>10, RequestFields DEF CancelTx, Serving
  <2>2. /\ driver_status' \in [Driver -> DriverStatus]
        /\ \A e \in Driver : driver_status'[e] = "on_trip"
             => driver_status[e] = "on_trip" /\ e # driver_id[proc[w].ride]
    BY <1>10, FreeDriverType DEF CancelTx
  <2>3. status[proc[w].ride] \in {"REQUESTED", "MATCHING", "DRIVER_ASSIGNED",
                                  "DRIVER_ARRIVING", "ARRIVED"}
    BY <1>10, <2>1, CancelSources DEF CancelTx, UpdateStatus
  <2> QED BY <1>10, <2>1, <2>2, <2>3, DoneType DEF CancelTx, UpdateStatus, SetStatus
<1>11. ASSUME NEW w \in Worker, NEW r \in Ride, StartRead(w, r) PROVE LedgerInv'
  <2>1. proc' \in [Worker -> Request]
    BY <1>11 DEF StartRead, Become, Request
  <2>2. EndKnowsDriver'
    BY <1>11 DEF StartRead, Become, ledgerVars
  <2> QED BY <1>11, <2>1, <2>2 DEF StartRead, ledgerVars
<1>12. ASSUME NEW w \in Worker, StartTx(w) PROVE LedgerInv'
  <2>1. proc[w].ride \in Ride
    BY <1>12, RequestFields DEF StartTx, Serving
  <2> QED BY <1>12, <2>1, DoneType DEF StartTx, UpdateStatus, SetStatus, TripStatus
<1>13. ASSUME NEW w \in Worker, NEW r \in Ride, EndRead(w, r) PROVE LedgerInv'
  <2>1. proc' \in [Worker -> Request]
    BY <1>13 DEF EndRead, Become, Request
  <2>2. EndKnowsDriver'
    BY <1>13 DEF EndRead, Become, ledgerVars
  <2> QED BY <1>13, <2>1, <2>2 DEF EndRead, ledgerVars
<1>14. ASSUME NEW w \in Worker, EndTx(w) PROVE LedgerInv'
  <2>1. proc[w].ride \in Ride /\ proc[w].driver = driver_id[proc[w].ride]
    BY <1>14, RequestFields DEF EndTx, Serving
  <2>2. /\ driver_status' \in [Driver -> DriverStatus]
        /\ \A e \in Driver : driver_status'[e] = "on_trip"
             => driver_status[e] = "on_trip" /\ e # driver_id[proc[w].ride]
    BY <1>14, <2>1, FreeDriverType DEF EndTx
  <2> QED BY <1>14, <2>1, <2>2, DoneType
          DEF EndTx, EndRows, UpdateStatus, SetStatus, UpdateTrip, TripStatus
<1>15. ASSUME NEW w \in Worker, NEW d \in Driver, NEW to \in {"offline", "available"},
              ToggleSnapshot(w, d, to)
       PROVE  LedgerInv'
  <2>1. proc' \in [Worker -> Request]
    BY <1>15 DEF ToggleSnapshot, Become, Request, DriverStatus
  <2>2. EndKnowsDriver'
    BY <1>15 DEF ToggleSnapshot, Become, ledgerVars
  <2> QED BY <1>15, <2>1, <2>2 DEF ToggleSnapshot, ledgerVars
<1>16. ASSUME NEW w \in Worker, ToggleRow(w) PROVE LedgerInv'
  <2>1. proc[w].driver \in Driver /\ proc[w].to \in {"offline", "available"}
    BY <1>16, RequestFields DEF ToggleRow, AvailabilityRows, Serving
  <2> QED BY <1>16, <2>1, DoneType DEF ToggleRow, AvailabilityRows, DriverStatus
<1>17. ASSUME NEW w \in Worker, Abandon(w) PROVE LedgerInv'
  BY <1>17, DoneType DEF Abandon, ledgerVars
<1>18. CASE UNCHANGED vars
  BY <1>18 DEF vars
<1> QED
  BY <1>1, <1>2, <1>3, <1>4, <1>5, <1>6, <1>7, <1>8, <1>9, <1>10, <1>11, <1>12,
     <1>13, <1>14, <1>15, <1>16, <1>17, <1>18
  DEF Next, RideStep, Read, Commit

\* Every reachable state of the ledger satisfies the inductive invariant.
THEOREM LedgerInvariance == Spec => []LedgerInv
<1>1. Init => LedgerInv
  BY InitInv
<1>2. LedgerInv /\ [Next]_vars => LedgerInv'
  BY StepInv
<1> QED BY <1>1, <1>2, PTL DEF Spec

\* Rows, columns and in-flight requests keep their types.
THEOREM LedgerTypes == Spec => []TypeOK
<1>1. LedgerInv => TypeOK
  BY DEF LedgerInv
<1> QED BY <1>1, LedgerInvariance, PTL

\* A driver is never the driver of two active rides, for any number of racing
\* accept, cancel and availability requests.
THEOREM NoDoubleAssignment == Spec => []DriverHasOneRide
<1>1. LedgerInv => DriverHasOneRide
  BY DEF LedgerInv
<1> QED BY <1>1, LedgerInvariance, PTL

\* A rider never has two active rides, for any number of racing create requests.
THEOREM NoDoubleBooking == Spec => []RiderHasOneRide
<1>1. LedgerInv => RiderHasOneRide
  BY DEF LedgerInv
<1> QED BY <1>1, LedgerInvariance, PTL

\* A ride has a driver from its assignment on and none before.
THEOREM DriversAreRecorded == Spec => []DriverRecorded
<1>1. LedgerInv => DriverRecorded
  BY DEF LedgerInv
<1> QED BY <1>1, LedgerInvariance, PTL

\* A driver is on_trip only while a ride of his is active: no request leaves
\* him orphaned behind a closed ride.
THEOREM NoOrphanedDriver == Spec => []OnTripHasRide
<1>1. LedgerInv => OnTripHasRide
  BY DEF LedgerInv
<1> QED BY <1>1, LedgerInvariance, PTL

\* The trip row, the payment rows and the ride row move together.
THEOREM TripsFollowRides == Spec => []TripMatchesRide
<1>1. LedgerInv => TripMatchesRide
  BY DEF LedgerInv
<1> QED BY <1>1, LedgerInvariance, PTL

(***************************************************************************)
(* Action properties: the transition table, and the abstract allocation.   *)
(***************************************************************************)

\* A guarded status write from legal sources is a legal move of that ride and
\* no move of the others.
LEMMA GuardedWrite ==
  ASSUME TypeOK, NEW s \in Ride, NEW from \in SUBSET RideStatus, NEW to \in RideStatus,
         \A a \in from : Transition(a, to), UpdateStatus(s, from, to)
  PROVE  \A r \in Ride : LegalMove(r)
BY DEF TypeOK, UpdateStatus, SetStatus, LegalMove

LEMMA StepLegal == LedgerInv /\ Next => \A r \in Ride : LegalMove(r)
<1> SUFFICES ASSUME LedgerInv, Next PROVE \A r \in Ride : LegalMove(r)
  OBVIOUS
<1>a. TypeOK
  BY DEF LedgerInv
<1> USE <1>a
<1>1. ASSUME NEW s \in Ride, Expire(s) PROVE \A r \in Ride : LegalMove(r)
  BY <1>1, GuardedWrite DEF Expire, Transition, transitions, RideStatus
<1>2. ASSUME NEW s \in Ride, Arriving(s) \/ Arrived(s) PROVE \A r \in Ride : LegalMove(r)
  BY <1>2, GuardedWrite
     DEF Arriving, Arrived, driverProgress, Transition, transitions, RideStatus
<1>3. ASSUME NEW s \in Ride, NEW d \in Driver, assignTx(s, d)
      PROVE  \A r \in Ride : LegalMove(r)
  BY <1>3
     DEF assignTx, AssignRows, AssignGuard, LegalMove, TypeOK, Transition,
         transitions, RideStatus
<1>4. ASSUME NEW w \in Worker, NEW p \in Rider, NEW s \in Ride, CreateInsert(w, p, s)
      PROVE  \A r \in Ride : LegalMove(r)
  BY <1>4 DEF CreateInsert, CreateGuard, LegalMove, TypeOK
<1>5. ASSUME NEW w \in Worker, CreateMatching(w) PROVE \A r \in Ride : LegalMove(r)
  BY <1>5, RequestFields, GuardedWrite
     DEF CreateMatching, MatchingRows, Serving, TypeOK, Transition, transitions, RideStatus
<1>6. ASSUME NEW w \in Worker, CancelTx(w) PROVE \A r \in Ride : LegalMove(r)
  <2>1. proc[w].ride \in Ride /\ proc[w].to \in Cancelled
    BY <1>6, RequestFields DEF CancelTx, Serving, TypeOK
  <2>2. \A a \in sourcesFor(proc[w].to) : a \in RideStatus /\ Transition(a, proc[w].to)
    BY DEF sourcesFor
  <2> QED BY <1>6, <2>1, <2>2, GuardedWrite DEF CancelTx, Cancelled, RideStatus
<1>7. ASSUME NEW w \in Worker, StartTx(w) PROVE \A r \in Ride : LegalMove(r)
  BY <1>7, RequestFields, GuardedWrite
     DEF StartTx, Serving, TypeOK, Transition, transitions, RideStatus
<1>8. ASSUME NEW w \in Worker, EndTx(w) PROVE \A r \in Ride : LegalMove(r)
  BY <1>8, RequestFields, GuardedWrite
     DEF EndTx, EndRows, Serving, TypeOK, Transition, transitions, RideStatus
<1>9. ASSUME UNCHANGED status PROVE \A r \in Ride : LegalMove(r)
  BY <1>9 DEF LegalMove
<1> QED
  BY <1>1, <1>2, <1>3, <1>4, <1>5, <1>6, <1>7, <1>8, <1>9
  DEF Next, RideStep, Read, Commit, Pause, Resume, CancelRead, StartRead, EndRead,
      ToggleSnapshot, ToggleRow, AvailabilityRows, Abandon, ledgerVars

\* No write of a ride status, in any service, leaves the transition table.
THEOREM StatusesFollowTheTable == Spec => LegalMoves
<1>1. LedgerInv /\ [Next]_vars => [\A r \in Ride : LegalMove(r)]_vars
  BY StepLegal
<1> QED BY <1>1, LedgerInvariance, PTL DEF Spec, LegalMoves

\* The commits of the accepts, in any order and beside any request: the first
\* one wins the ride for good.
THEOREM FirstCommitWins == Spec => AssignedOnce
<1> DEFINE Kept == \A r \in Ride : driver_id[r] # None => driver_id'[r] = driver_id[r]
<1>1. LedgerInv /\ Next => Kept
  <2> SUFFICES ASSUME LedgerInv, Next PROVE Kept
    OBVIOUS
  <2> USE DEF LedgerInv, TypeOK
  <2>1. ASSUME NEW s \in Ride, NEW d \in Driver, assignTx(s, d) PROVE Kept
    BY <2>1 DEF assignTx, AssignRows, AssignGuard, DriverRecorded
  <2>2. ASSUME NEW s \in Ride, Expire(s) \/ Arriving(s) \/ Arrived(s) \/ Pause(s) \/ Resume(s)
        PROVE  Kept
    BY <2>2 DEF Expire, Arriving, Arrived, driverProgress, Pause, Resume, UpdateStatus,
                SetStatus, owners
  <2>3. ASSUME NEW w \in Worker, Read(w) \/ Abandon(w) PROVE Kept
    BY <2>3 DEF Read, CreateInsert, CancelRead, StartRead, EndRead, ToggleSnapshot, Abandon,
                ledgerVars
  <2>4. ASSUME NEW w \in Worker, Commit(w) PROVE Kept
    BY <2>4 DEF Commit, CreateMatching, MatchingRows, CancelTx, StartTx, EndTx, EndRows,
                ToggleRow, AvailabilityRows, UpdateStatus, SetStatus, owners
  <2> QED BY <2>1, <2>2, <2>3, <2>4 DEF Next, RideStep
<1>2. LedgerInv /\ [Next]_vars => [Kept]_vars
  BY <1>1
<1> QED BY <1>2, LedgerInvariance, PTL DEF Spec, AssignedOnce

\* A write between two active statuses is invisible to the allocation.
LEMMA WriteWithinOpen ==
  ASSUME TypeOK, NEW s \in Ride, NEW from \in SUBSET ActiveStatus,
         NEW to \in ActiveStatus, UpdateStatus(s, from, to)
  PROVE  UNCHANGED Allocation!vars
BY DEF TypeOK, UpdateStatus, SetStatus, owners, Allocation!vars, PhaseOf,
       ActiveStatus, Absent

\* A write from an active to a terminal status closes the ride.
LEMMA WriteCloses ==
  ASSUME TypeOK, NEW s \in Ride, NEW from \in SUBSET ActiveStatus,
         NEW to \in RideStatus \ ActiveStatus, UpdateStatus(s, from, to)
  PROVE  Allocation!Close(s)
BY DEF TypeOK, UpdateStatus, SetStatus, owners, Allocation!Close, PhaseOf,
       ActiveStatus, RideStatus, Absent

\* The ledger implements the allocation: its steps book, give or close one ride,
\* or are steps the allocation does not see.
THEOREM LedgerImplementsAllocation == Spec => ImplementsAllocation
<1>1. Init => Allocation!Init
  BY DEF Init, Allocation!Init, PhaseOf
<1>2. LedgerInv /\ [Next]_vars => [Allocation!Next]_(Allocation!vars)
  <2> SUFFICES ASSUME LedgerInv, [Next]_vars
               PROVE  Allocation!Next \/ UNCHANGED Allocation!vars
    BY DEF Allocation!vars
  <2>a. TypeOK
    BY DEF LedgerInv
  <2>1. ASSUME NEW s \in Ride, Expire(s) PROVE Allocation!Next
    <3>1. Allocation!Close(s)
      BY <2>1, <2>a, WriteCloses DEF Expire, ActiveStatus, RideStatus
    <3> QED BY <3>1 DEF Allocation!Next
  <2>2. ASSUME NEW s \in Ride, Arriving(s) \/ Arrived(s) PROVE UNCHANGED Allocation!vars
    BY <2>2, <2>a, WriteWithinOpen DEF Arriving, Arrived, driverProgress, ActiveStatus
  <2>3. ASSUME NEW s \in Ride, NEW d \in Driver, assignTx(s, d) PROVE Allocation!Next
    <3>1. Allocation!Give(s, d)
      BY <2>3, <2>a DEF LedgerInv, assignTx, AssignRows, AssignGuard, DriverActive,
         DriverRecorded, TypeOK, PhaseOf, ActiveStatus, Absent, Allocation!Give,
         Allocation!OpenRidesOf
    <3> QED BY <3>1 DEF Allocation!Next
  <2>4. ASSUME NEW w \in Worker, NEW p \in Rider, NEW s \in Ride, CreateInsert(w, p, s)
        PROVE  Allocation!Next
    <3>1. Allocation!Book(s, p)
      BY <2>4, <2>a DEF CreateInsert, CreateGuard, RiderActive, TypeOK, PhaseOf,
         ActiveStatus, Absent, Allocation!Book, Allocation!OpenRidesOf
    <3> QED BY <3>1 DEF Allocation!Next
  <2>5. ASSUME NEW w \in Worker, CreateMatching(w) PROVE UNCHANGED Allocation!vars
    BY <2>5, <2>a, RequestFields, WriteWithinOpen
       DEF CreateMatching, MatchingRows, Serving, TypeOK, ActiveStatus
  <2>6. ASSUME NEW w \in Worker, CancelTx(w) PROVE Allocation!Next
    <3>1. proc[w].ride \in Ride /\ proc[w].to \in Cancelled
      BY <2>6, <2>a, RequestFields DEF CancelTx, Serving, TypeOK
    <3>2. Allocation!Close(proc[w].ride)
      BY <2>6, <2>a, <3>1, CancelSources, WriteCloses
         DEF CancelTx, ActiveStatus, RideStatus, Cancelled
    <3> QED BY <3>1, <3>2 DEF Allocation!Next
  <2>7. ASSUME NEW w \in Worker, StartTx(w) PROVE UNCHANGED Allocation!vars
    BY <2>7, <2>a, RequestFields, WriteWithinOpen
       DEF StartTx, Serving, TypeOK, ActiveStatus
  <2>8. ASSUME NEW w \in Worker, EndTx(w) PROVE Allocation!Next
    <3>1. proc[w].ride \in Ride
      BY <2>8, <2>a, RequestFields DEF EndTx, Serving, TypeOK
    <3>2. Allocation!Close(proc[w].ride)
      BY <2>8, <2>a, <3>1, WriteCloses DEF EndTx, EndRows, ActiveStatus, RideStatus
    <3> QED BY <3>1, <3>2 DEF Allocation!Next
  <2>9. ASSUME UNCHANGED <<status, owners>> PROVE UNCHANGED Allocation!vars
    BY <2>9 DEF owners, Allocation!vars, PhaseOf
  <2> QED
    BY <2>1, <2>2, <2>3, <2>4, <2>5, <2>6, <2>7, <2>8, <2>9
    DEF Next, RideStep, Read, Commit, Pause, Resume, CancelRead, StartRead, EndRead,
        ToggleSnapshot, ToggleRow, AvailabilityRows, Abandon, ledgerVars, owners, vars
<1> QED BY <1>1, <1>2, LedgerInvariance, PTL
        DEF Spec, ImplementsAllocation, Allocation!Spec

(***************************************************************************)
(* The engine: requests and goroutines.                                    *)
(***************************************************************************)

AnyRequest == Request \cup MatchRequest

\* What a goroutine of each kind carries.
LEMMA MatchFields ==
  ASSUME NEW q \in AnyRequest
  PROVE  /\ q.op \in {"create", "cancel", "request", "search", "claim", "record",
                      "accept", "decline", "unmark"} => q.ride \in Ride
         /\ q.op \in {"search", "claim", "record", "sweep"} => q.rest \in SUBSET Ride
         /\ q.op = "claim" => q.cands \in SUBSET Driver
         /\ q.op \in {"record", "accept", "decline", "unmark", "offline", "toggle"}
              => q.driver \in Driver
         /\ q.op = "sweep" => q.expire \in SUBSET Ride
         /\ q.op = "cancel" => q.to \in Cancelled
         /\ q.op = "toggle" => q.to \in {"offline", "available"}
BY DEF AnyRequest, MatchRequest, Request, Idle

\* A goroutine that goes on changes its own request only.
LEMMA GoType ==
  ASSUME proc \in [Worker -> AnyRequest], NEW w \in Worker, NEW q \in AnyRequest, Go(w, q)
  PROVE  /\ proc' \in [Worker -> AnyRequest]
         /\ proc'[w] = q
         /\ \A v \in Worker : v # w => proc'[v] = proc[v]
BY DEF Go

\* The next request of a sweeper's batch.
LEMMA ContinueType ==
  ASSUME NEW w \in Worker, NEW rest \in SUBSET Ride, Continue(w, rest)
  PROVE  \E q \in AnyRequest : /\ Go(w, q)
                               /\ q.op \in {"idle", "sweep"}
                               /\ q.op = "sweep" => q.expire = {}
<1>1. CASE rest = {}
  BY <1>1 DEF Continue, AnyRequest, Request, Idle
<1>2. CASE rest # {}
  <2>1. [op |-> "sweep", expire |-> {}, rest |-> rest] \in AnyRequest
    BY DEF AnyRequest, MatchRequest
  <2> QED BY <1>2, <2>1 DEF Continue
<1> QED BY <1>1, <1>2

LEMMA IdleType == Idle \in AnyRequest /\ Idle.op = "idle"
BY DEF AnyRequest, Request, Idle

\* A step that changes nothing but what one goroutine is about.
LEMMA OnlyRequest ==
  ASSUME MatchingInv, NEW w \in Worker, NEW q \in AnyRequest, Go(w, q),
         q.op # "accept", q.op = "sweep" => q.expire \subseteq overdue,
         UNCHANGED <<ledgerVars, offerVars, overdue>>
  PROVE  MatchingInv'
BY GoType
   DEF MatchingInv, MatchingTypeOK, DriverRecorded, ExpiredWasOverdue, RequestsAreBacked, AnyRequest, ledgerVars, offerVars

\* A step that also consumes the offer a driver holds.
LEMMA OnlyTakesOffer ==
  ASSUME MatchingInv, NEW w \in Worker, NEW q \in AnyRequest, Go(w, q), NEW d \in Driver,
         takeOffer(d), q.op \in {"idle", "decline", "unmark"},
         UNCHANGED <<ledgerVars, offer_ride, tried, overdue>>
  PROVE  MatchingInv'
BY GoType
   DEF MatchingInv, MatchingTypeOK, DriverRecorded, ExpiredWasOverdue, RequestsAreBacked, AnyRequest, ledgerVars, takeOffer

\* A step that writes no driver of a ride and leaves the offers alone: a status
\* that is written is not EXPIRED, and no ride comes to MATCHING from beyond it.
LEMMA OnlyStatus ==
  ASSUME MatchingInv, NEW w \in Worker, NEW q \in AnyRequest, Go(w, q),
         q.op \in {"idle", "create", "request"},
         status' \in [Ride -> RideStatus \cup {Absent}],
         \A r \in Ride :
           \/ status'[r] = status[r]
           \/ status'[r] \in Cancelled
           \/ /\ status[r] \in {Absent, "REQUESTED"}
              /\ status'[r] \in {"REQUESTED", "MATCHING"},
         driver_status' \in [Driver -> DriverStatus],
         UNCHANGED <<driver_id, offerVars, overdue>>
  PROVE  MatchingInv'
<1>1. MatchingTypeOK'
  BY GoType DEF MatchingInv, MatchingTypeOK, AnyRequest, offerVars
<1>2. DriverRecorded' /\ ExpiredWasOverdue'
  BY DEF MatchingInv, MatchingTypeOK, DriverRecorded, ExpiredWasOverdue, assignedOrLater,
         Cancelled, Absent, RideStatus
<1>3. RequestsAreBacked'
  BY GoType DEF MatchingInv, MatchingTypeOK, RequestsAreBacked, AnyRequest
<1> QED BY <1>1, <1>2, <1>3 DEF MatchingInv

LEMMA MatchingInitInv == MatchingInit => MatchingInv
BY LedgerAssumption, MatchingAssumption, IdleType
   DEF MatchingInit, Init, MatchingInv, MatchingTypeOK, DriverRecorded, ExpiredWasOverdue,
       RequestsAreBacked, assignedOrLater, Absent,
       DriverStatus, AnyRequest, Idle

(***************************************************************************)
(* The goroutines of an offer step, of a request and of a sweep.           *)
(***************************************************************************)
LEMMA OfferStepInv ==
  ASSUME MatchingInv, NEW w \in Worker, OfferStep(w)
  PROVE  MatchingInv'
<1> USE DEF MatchingInv, MatchingTypeOK, Serving
<1>1. ASSUME NEW found \in SUBSET Driver, offerSearch(w, found) PROVE MatchingInv'
  <2> DEFINE q == [op |-> "claim", ride |-> proc[w].ride,
                   cands |-> found \ tried[proc[w].ride], rest |-> proc[w].rest]
  <2>1. proc[w].ride \in Ride /\ proc[w].rest \in SUBSET Ride
    BY <1>1, MatchFields DEF offerSearch, AnyRequest
  <2>2. q \in AnyRequest
    BY <2>1 DEF AnyRequest, MatchRequest
  <2>3. Go(w, q) /\ q.op = "claim"
    BY <1>1 DEF offerSearch
  <2> HIDE DEF q
  <2> QED BY <1>1, <2>2, <2>3, OnlyRequest DEF offerSearch
<1>2. ASSUME NEW d \in Driver, offerClaim(w, d) PROVE MatchingInv'
  <2> DEFINE r == proc[w].ride
             q == [op |-> "record", ride |-> r, driver |-> d, rest |-> proc[w].rest]
  <2>1. r \in Ride /\ proc[w].rest \in SUBSET Ride
    BY <1>2, MatchFields DEF offerClaim, AnyRequest
  <2>2. q \in AnyRequest
    BY <2>1 DEF AnyRequest, MatchRequest
  <2>3. Go(w, q) /\ q.op = "record"
    BY <1>2 DEF offerClaim
  <2>4. /\ offer_driver' = [offer_driver EXCEPT ![d] = r]
        /\ UNCHANGED <<ledgerVars, offer_ride, tried, overdue>>
    BY <1>2 DEF offerClaim
  <2> HIDE DEF q, r
  <2>5. /\ proc' \in [Worker -> AnyRequest] /\ proc'[w] = q
        /\ \A v \in Worker : v # w => proc'[v] = proc[v]
    BY <2>2, <2>3, GoType DEF AnyRequest
  <2>6. RequestsAreBacked'
    BY <2>3, <2>4, <2>5 DEF RequestsAreBacked
  <2>7. DriverRecorded' /\ ExpiredWasOverdue'
    BY <2>4 DEF DriverRecorded, ExpiredWasOverdue, ledgerVars
  <2>8. MatchingTypeOK'
    BY <2>1, <2>4, <2>5 DEF ledgerVars, AnyRequest
  <2> QED BY <2>4, <2>6, <2>7, <2>8 DEF ledgerVars
<1>3. ASSUME NEW d \in Driver, offerSkip(w, d) PROVE MatchingInv'
  <2> DEFINE q == [proc[w] EXCEPT !.cands = @ \ {d}]
  <2>1. q \in AnyRequest /\ q.op = "claim"
    BY <1>3 DEF offerSkip, AnyRequest, MatchRequest, Request, Idle
  <2>2. Go(w, q)
    BY <1>3 DEF offerSkip
  <2> HIDE DEF q
  <2> QED BY <1>3, <2>1, <2>2, OnlyRequest DEF offerSkip
<1>4. ASSUME offerNone(w) PROVE MatchingInv'
  <2>1. proc[w].rest \in SUBSET Ride
    BY <1>4, MatchFields DEF offerNone, AnyRequest
  <2>2. PICK q \in AnyRequest : /\ Go(w, q) /\ q.op \in {"idle", "sweep"}
                                /\ q.op = "sweep" => q.expire = {}
    BY <1>4, <2>1, ContinueType DEF offerNone
  <2> QED BY <1>4, <2>2, OnlyRequest DEF offerNone
<1>5. ASSUME recordOffer(w) PROVE MatchingInv'
  <2>1. proc[w].ride \in Ride /\ proc[w].driver \in Driver /\ proc[w].rest \in SUBSET Ride
    BY <1>5, MatchFields DEF recordOffer, AnyRequest
  <2>2. PICK q \in AnyRequest : /\ Go(w, q) /\ q.op \in {"idle", "sweep"}
                                /\ q.op = "sweep" => q.expire = {}
    BY <1>5, <2>1, ContinueType DEF recordOffer
  <2>3. /\ proc' \in [Worker -> AnyRequest] /\ proc'[w] = q
        /\ \A v \in Worker : v # w => proc'[v] = proc[v]
    BY <2>2, GoType DEF AnyRequest
  <2>4. MatchingTypeOK'
    BY <1>5, <2>1, <2>3 DEF recordOffer, ledgerVars, AnyRequest
  <2>5. RequestsAreBacked'
    BY <1>5, <2>2, <2>3 DEF recordOffer, RequestsAreBacked
  <2> QED BY <1>5, <2>4, <2>5
          DEF recordOffer, ledgerVars, DriverRecorded, ExpiredWasOverdue
<1> QED BY <1>1, <1>2, <1>3, <1>4, <1>5 DEF OfferStep

LEMMA HandlerStepInv ==
  ASSUME MatchingInv, NEW w \in Worker, HandlerStep(w)
  PROVE  MatchingInv'
<1> USE DEF MatchingInv, MatchingTypeOK, Serving
<1>1. ASSUME LedgerStep(w) PROVE MatchingInv'
  <2>1. ASSUME NEW r \in Ride, NEW p \in Rider, CreateInsert(w, p, r) PROVE MatchingInv'
    <3> DEFINE q == [op |-> "create", ride |-> r]
    <3>1. q \in AnyRequest
      BY DEF AnyRequest, Request
    <3>2. Go(w, q) /\ q.op = "create"
      BY <2>1 DEF CreateInsert, Become, Go
    <3> HIDE DEF q
    <3>3. /\ status' = [status EXCEPT ![r] = "REQUESTED"] /\ status[r] = Absent
          /\ UNCHANGED <<driver_id, driver_status>>
      BY <2>1 DEF CreateInsert, CreateGuard
    <3> QED BY <1>1, <3>1, <3>2, <3>3, OnlyStatus DEF LedgerStep, RideStatus
  <2>2. ASSUME NEW r \in Ride, NEW to \in Cancelled, CancelRead(w, r, to) PROVE MatchingInv'
    <3> DEFINE q == [op |-> "cancel", ride |-> r, to |-> to, seen |-> driver_id[r]]
    <3>1. q \in AnyRequest
      BY DEF AnyRequest, Request
    <3>2. Go(w, q) /\ q.op = "cancel"
      BY <2>2 DEF CancelRead, Become, Go
    <3> HIDE DEF q
    <3> QED BY <1>1, <2>2, <3>1, <3>2, OnlyRequest DEF LedgerStep, CancelRead
  <2>3. ASSUME NEW d \in Driver, NEW to \in {"offline", "available"}, ToggleSnapshot(w, d, to)
        PROVE  MatchingInv'
    <3> DEFINE q == [op |-> "toggle", driver |-> d, to |-> to,
                     seen |-> driver_status[d], busy |-> DriverActive(d)]
    <3>1. DriverActive(d) \in BOOLEAN
      BY DEF DriverActive
    <3>2. q \in AnyRequest
      BY <3>1 DEF AnyRequest, Request
    <3>3. Go(w, q) /\ q.op = "toggle"
      BY <2>3 DEF ToggleSnapshot, Become, Go
    <3> HIDE DEF q
    <3> QED BY <1>1, <2>3, <3>2, <3>3, OnlyRequest DEF LedgerStep, ToggleSnapshot
  <2>4. ASSUME CancelTx(w) PROVE MatchingInv'
    <3>1. proc[w].ride \in Ride /\ proc[w].to \in Cancelled
      BY <2>4, MatchFields DEF CancelTx, AnyRequest
    <3>2. driver_status' \in [Driver -> DriverStatus]
      BY <2>4, FreeDriverType DEF CancelTx
    <3>3. Go(w, Idle)
      BY <2>4 DEF CancelTx, Done, Go
    <3>4. /\ status' = [status EXCEPT ![proc[w].ride] = proc[w].to]
          /\ UNCHANGED driver_id
      BY <2>4 DEF CancelTx, UpdateStatus, SetStatus, owners
    <3> QED BY <1>1, <3>1, <3>2, <3>3, <3>4, IdleType, OnlyStatus
            DEF LedgerStep, Cancelled, RideStatus
  <2> QED BY <1>1, <2>1, <2>2, <2>3, <2>4 DEF LedgerStep
<1>2. ASSUME CreateMatched(w) PROVE MatchingInv'
  <2> DEFINE r == proc[w].ride
             q == [op |-> "request", ride |-> r]
  <2>1. r \in Ride
    BY <1>2, MatchFields DEF CreateMatched, MatchingRows, AnyRequest
  <2>2. q \in AnyRequest
    BY <2>1 DEF AnyRequest, MatchRequest
  <2>3. Go(w, q) /\ q.op = "request"
    BY <1>2 DEF CreateMatched
  <2>4. /\ status[r] = "REQUESTED" /\ status' = [status EXCEPT ![r] = "MATCHING"]
        /\ UNCHANGED <<driver_id, driver_status>>
    BY <1>2 DEF CreateMatched, MatchingRows, UpdateStatus, SetStatus, owners
  <2> HIDE DEF q, r
  <2> QED BY <1>2, <2>1, <2>2, <2>3, <2>4, OnlyStatus DEF CreateMatched, RideStatus
<1>3. ASSUME SetAvailability(w) PROVE MatchingInv'
  <2> DEFINE q == IF proc[w].to = "offline"
                  THEN [op |-> "offline", driver |-> proc[w].driver] ELSE Idle
  <2>1. proc[w].driver \in Driver /\ proc[w].to \in {"offline", "available"}
    BY <1>3, MatchFields DEF SetAvailability, AvailabilityRows, AnyRequest
  <2>2. q \in AnyRequest /\ q.op \in {"offline", "idle"}
    BY <2>1, IdleType DEF AnyRequest, MatchRequest
  <2>3. Go(w, q)
    BY <1>3 DEF SetAvailability
  <2> HIDE DEF q
  <2>4. /\ driver_status' \in [Driver -> DriverStatus]
        /\ UNCHANGED <<status, driver_id>>
    BY <1>3, <2>1 DEF SetAvailability, AvailabilityRows, DriverStatus, owners
  <2>5. /\ proc' \in [Worker -> AnyRequest] /\ proc'[w] = q
        /\ \A v \in Worker : v # w => proc'[v] = proc[v]
    BY <2>2, <2>3, GoType DEF AnyRequest
  <2>6. RequestsAreBacked'
    BY <1>3, <2>2, <2>5 DEF SetAvailability, RequestsAreBacked
  <2> QED BY <1>3, <2>4, <2>5, <2>6
          DEF SetAvailability, offerVars, DriverRecorded, ExpiredWasOverdue, AnyRequest
<1>4. ASSUME clearOutstandingOffer(w) PROVE MatchingInv'
  <2> DEFINE held == offer_driver[proc[w].driver]
             q == IF held = None THEN Idle
                  ELSE [op |-> "unmark", ride |-> held, driver |-> proc[w].driver,
                        advance |-> FALSE]
  <2>1. proc[w].driver \in Driver
    BY <1>4, MatchFields DEF clearOutstandingOffer, AnyRequest
  <2>2. q \in AnyRequest /\ q.op \in {"unmark", "idle"}
    BY <2>1, IdleType DEF AnyRequest, MatchRequest
  <2>3. Go(w, q)
    BY <1>4 DEF clearOutstandingOffer
  <2> HIDE DEF q
  <2> QED BY <1>4, <2>1, <2>2, <2>3, OnlyTakesOffer DEF clearOutstandingOffer
<1>5. ASSUME loadRideCtx(w) PROVE MatchingInv'
  <2> DEFINE q == IF status[proc[w].ride] = "MATCHING"
                  THEN [op |-> "search", ride |-> proc[w].ride, rest |-> {}] ELSE Idle
  <2>1. proc[w].ride \in Ride
    BY <1>5, MatchFields DEF loadRideCtx, AnyRequest
  <2>2. q \in AnyRequest /\ q.op \in {"search", "idle"}
    BY <2>1, IdleType DEF AnyRequest, MatchRequest
  <2>3. Go(w, q)
    BY <1>5 DEF loadRideCtx, Done, Go
  <2> HIDE DEF q
  <2> QED BY <1>5, <2>2, <2>3, OnlyRequest DEF loadRideCtx
<1>6. ASSUME AcceptAssign(w) PROVE MatchingInv'
  <2> DEFINE r == proc[w].ride
             d == proc[w].driver
             q == [op |-> "unmark", ride |-> r, driver |-> d, advance |-> FALSE]
  <2>1. r \in Ride /\ d \in Driver
    BY <1>6, MatchFields DEF AcceptAssign, AnyRequest
  <2>2. q \in AnyRequest /\ q.op = "unmark"
    BY <2>1 DEF AnyRequest, MatchRequest
  <2>3. Go(w, q)
    BY <1>6 DEF AcceptAssign
  <2>4. /\ status[r] = "MATCHING" /\ driver_id[r] = None
        /\ status' = [status EXCEPT ![r] = "DRIVER_ASSIGNED"]
        /\ driver_id' = [driver_id EXCEPT ![r] = d]
        /\ driver_status' = [driver_status EXCEPT ![d] = "on_trip"]
    BY <1>6, <2>1 DEF AcceptAssign, AssignRows, AssignGuard, DriverRecorded
  <2>5. UNCHANGED <<offerVars, overdue>>
    BY <1>6 DEF AcceptAssign
  <2> HIDE DEF q, r, d
  <2>6. /\ proc' \in [Worker -> AnyRequest] /\ proc'[w] = q
        /\ \A v \in Worker : v # w => proc'[v] = proc[v]
    BY <2>2, <2>3, GoType DEF AnyRequest
  <2>7. RequestsAreBacked'
    BY <2>2, <2>5, <2>6 DEF RequestsAreBacked
  <2>8. DriverRecorded' /\ ExpiredWasOverdue'
    BY <2>1, <2>4, <2>5, LedgerAssumption
       DEF DriverRecorded, ExpiredWasOverdue, assignedOrLater, Absent
  <2>9. MatchingTypeOK' /\ driver_status' \in [Driver -> DriverStatus]
    BY <2>1, <2>4, <2>5, <2>6 DEF RideStatus, DriverStatus, offerVars, AnyRequest
  <2> QED BY <2>5, <2>7, <2>8, <2>9
<1>7. ASSUME DeclinePeek(w) PROVE MatchingInv'
  <2> DEFINE q == IF offer_ride[proc[w].ride] = proc[w].driver
                  THEN [op |-> "unmark", ride |-> proc[w].ride, driver |-> proc[w].driver,
                        advance |-> TRUE]
                  ELSE [op |-> "request", ride |-> proc[w].ride]
  <2>1. proc[w].ride \in Ride /\ proc[w].driver \in Driver
    BY <1>7, MatchFields DEF DeclinePeek, AnyRequest
  <2>2. q \in AnyRequest /\ q.op \in {"unmark", "request"}
    BY <2>1 DEF AnyRequest, MatchRequest
  <2>3. Go(w, q)
    BY <1>7 DEF DeclinePeek
  <2> HIDE DEF q
  <2> QED BY <1>7, <2>2, <2>3, OnlyRequest DEF DeclinePeek
<1>8. ASSUME Unmark(w) PROVE MatchingInv'
  <2> DEFINE q == IF proc[w].advance THEN [op |-> "request", ride |-> proc[w].ride] ELSE Idle
  <2>1. proc[w].ride \in Ride
    BY <1>8, MatchFields DEF Unmark, AnyRequest
  <2>2. q \in AnyRequest /\ q.op \in {"request", "idle"}
    BY <2>1, IdleType DEF AnyRequest, MatchRequest
  <2>3. Go(w, q)
    BY <1>8 DEF Unmark, Done, Go
  <2> HIDE DEF q
  <2>4. /\ proc' \in [Worker -> AnyRequest] /\ proc'[w] = q
        /\ \A v \in Worker : v # w => proc'[v] = proc[v]
    BY <2>2, <2>3, GoType DEF AnyRequest
  <2>5. RequestsAreBacked'
    BY <1>8, <2>2, <2>4 DEF Unmark, RequestsAreBacked
  <2> QED BY <1>8, <2>1, <2>4, <2>5
          DEF Unmark, ledgerVars, DriverRecorded, ExpiredWasOverdue, AnyRequest
<1>9. ASSUME NEW d \in Driver, NEW r \in Ride, Accept(w, d, r) PROVE MatchingInv'
  <2>1. CASE offer_driver[d] = r
    <3> DEFINE q == [op |-> "accept", ride |-> r, driver |-> d, held |-> offer_driver[d]]
    <3>1. q \in AnyRequest
      BY DEF AnyRequest, MatchRequest
    <3>2. Go(w, q)
      BY <1>9, <2>1 DEF Accept, offerMatches
    <3>3. /\ proc' \in [Worker -> AnyRequest] /\ proc'[w] = q
          /\ \A v \in Worker : v # w => proc'[v] = proc[v]
      BY <3>1, <3>2, GoType DEF AnyRequest
    <3>4. RequestsAreBacked'
      BY <1>9, <2>1, <3>3 DEF Accept, RequestsAreBacked
    <3> QED BY <1>9, <3>3, <3>4
            DEF Accept, takeOffer, ledgerVars, DriverRecorded, ExpiredWasOverdue, AnyRequest
  <2>2. CASE offer_driver[d] # r
    <3>1. UNCHANGED proc
      BY <1>9, <2>2 DEF Accept, offerMatches
    <3> QED BY <1>9, <3>1
            DEF Accept, takeOffer, ledgerVars, DriverRecorded, ExpiredWasOverdue, RequestsAreBacked
  <2> QED BY <2>1, <2>2
<1>10. ASSUME NEW d \in Driver, NEW r \in Ride, Decline(w, d, r) PROVE MatchingInv'
  <2> DEFINE q == [op |-> "decline", ride |-> r, driver |-> d]
  <2>1. q \in AnyRequest /\ q.op = "decline"
    BY DEF AnyRequest, MatchRequest
  <2>2. Go(w, q)
    BY <1>10 DEF Decline
  <2> HIDE DEF q
  <2> QED BY <1>10, <2>1, <2>2, OnlyTakesOffer DEF Decline
<1> QED BY <1>1, <1>2, <1>3, <1>4, <1>5, <1>6, <1>7, <1>8, <1>9, <1>10 DEF HandlerStep

LEMMA SweepStepInv ==
  ASSUME MatchingInv, NEW w \in Worker, SweepStep(w)
  PROVE  MatchingInv'
<1> USE DEF MatchingInv, MatchingTypeOK, Serving
<1>1. ASSUME claimMatchingBatch(w) PROVE MatchingInv'
  <2> DEFINE q == [op |-> "sweep", expire |-> MatchingRides \cap overdue,
                   rest |-> MatchingRides \ overdue]
  <2>1. q \in AnyRequest /\ q.expire \subseteq overdue /\ q.op = "sweep"
    BY DEF AnyRequest, MatchRequest, MatchingRides
  <2>2. Go(w, q)
    BY <1>1 DEF claimMatchingBatch
  <2> HIDE DEF q
  <2> QED BY <1>1, <2>1, <2>2, OnlyRequest DEF claimMatchingBatch
<1>2. ASSUME NEW r \in Ride, sweepExpire(w, r) PROVE MatchingInv'
  <2> DEFINE q == IF proc[w].expire = {r} /\ proc[w].rest = {}
                  THEN Idle ELSE [proc[w] EXCEPT !.expire = @ \ {r}]
  <2>1. proc[w].expire \subseteq overdue /\ r \in overdue
    BY <1>2 DEF sweepExpire, RequestsAreBacked
  <2>2. /\ q \in AnyRequest /\ q.op \in {"idle", "sweep"}
        /\ q.op = "sweep" => q.expire \subseteq overdue
    BY <1>2, <2>1 DEF sweepExpire, AnyRequest, MatchRequest, Request, Idle
  <2>3. Go(w, q)
    BY <1>2 DEF sweepExpire
  <2> HIDE DEF q
  <2>4. /\ proc' \in [Worker -> AnyRequest] /\ proc'[w] = q
        /\ \A v \in Worker : v # w => proc'[v] = proc[v]
    BY <2>2, <2>3, GoType DEF AnyRequest
  <2>5. RequestsAreBacked'
    BY <1>2, <2>2, <2>4 DEF sweepExpire, RequestsAreBacked
  <2>6. /\ UNCHANGED <<driver_id, driver_status>>
        /\ \/ UNCHANGED status
           \/ /\ status[r] = "MATCHING"
              /\ status' = [status EXCEPT ![r] = "EXPIRED"]
    BY <1>2 DEF sweepExpire, SetStatus, owners
  <2>7. DriverRecorded' /\ ExpiredWasOverdue'
    BY <1>2, <2>1, <2>6
       DEF sweepExpire, DriverRecorded, ExpiredWasOverdue, assignedOrLater, Absent
  <2>8. MatchingTypeOK'
    BY <1>2, <2>4, <2>6 DEF sweepExpire, offerVars, RideStatus, AnyRequest
  <2> QED BY <1>2, <2>5, <2>6, <2>7, <2>8
          DEF sweepExpire, offerVars
<1>3. ASSUME NEW r \in Ride, sweepOffer(w, r) PROVE MatchingInv'
  <2>1. proc[w].rest \in SUBSET Ride
    BY <1>3, MatchFields DEF sweepOffer, AnyRequest
  <2>2. CASE offer_ride[r] = None
    <3> DEFINE q == [op |-> "search", ride |-> r, rest |-> proc[w].rest \ {r}]
    <3>1. q \in AnyRequest /\ q.op = "search"
      BY <2>1 DEF AnyRequest, MatchRequest
    <3>2. Go(w, q)
      BY <1>3, <2>2 DEF sweepOffer
    <3> HIDE DEF q
    <3> QED BY <1>3, <3>1, <3>2, OnlyRequest DEF sweepOffer
  <2>3. CASE offer_ride[r] # None
    <3>1. PICK q \in AnyRequest : /\ Go(w, q) /\ q.op \in {"idle", "sweep"}
                                  /\ q.op = "sweep" => q.expire = {}
      BY <1>3, <2>1, <2>3, ContinueType DEF sweepOffer
    <3> QED BY <1>3, <3>1, OnlyRequest DEF sweepOffer
  <2> QED BY <2>2, <2>3
<1> QED BY <1>1, <1>2, <1>3 DEF SweepStep

\* Every step keeps the invariant.
LEMMA MatchingStepInv == MatchingInv /\ [MatchingNext]_matchVars => MatchingInv'
<1> SUFFICES ASSUME MatchingInv, [MatchingNext]_matchVars PROVE MatchingInv'
  OBVIOUS
<1> USE DEF MatchingInv, MatchingTypeOK
<1>1. ASSUME NEW w \in Worker, Abort(w) PROVE MatchingInv'
  <2>1. Go(w, Idle)
    BY <1>1 DEF Abort, Done, Go
  <2> QED BY <1>1, <2>1, IdleType, OnlyRequest DEF Abort
<1>2. ASSUME NEW d \in Driver, OfferLapses(d) PROVE MatchingInv'
  BY <1>2 DEF OfferLapses, takeOffer, vars, DriverRecorded, ExpiredWasOverdue, RequestsAreBacked
<1>3. ASSUME NEW r \in Ride, MarkerLapses(r) PROVE MatchingInv'
  BY <1>3 DEF MarkerLapses, vars, DriverRecorded, ExpiredWasOverdue, RequestsAreBacked
<1>4. ASSUME NEW r \in Ride, DeadlinePasses(r) PROVE MatchingInv'
  BY <1>4 DEF DeadlinePasses, vars, offerVars, DriverRecorded, ExpiredWasOverdue, RequestsAreBacked
<1>5. CASE UNCHANGED matchVars
  BY <1>5 DEF matchVars, vars, offerVars, DriverRecorded, ExpiredWasOverdue, RequestsAreBacked
<1> QED BY <1>1, <1>2, <1>3, <1>4, <1>5, OfferStepInv, HandlerStepInv, SweepStepInv,
           MatchingAssumption
        DEF MatchingNext, Handler

\* The inductive invariant holds in every reachable state.
THEOREM MatchingInvariance == MatchingSpec => []MatchingInv
BY MatchingInitInv, MatchingStepInv, PTL DEF MatchingSpec

\* The keys, the batch and the requests keep their types.
THEOREM MatchingTypes == MatchingSpec => []MatchingTypeOK
<1>1. MatchingInv => MatchingTypeOK
  BY DEF MatchingInv
<1> QED BY <1>1, MatchingInvariance, PTL

\* The sweeper, whose batch is stale when it acts, expires no ride early and
\* none that was assigned.
THEOREM OnlyOverdueRidesExpire == MatchingSpec => []ExpiredWasOverdue
<1>1. MatchingInv => ExpiredWasOverdue
  BY DEF MatchingInv
<1> QED BY <1>1, MatchingInvariance, PTL

\* Only the commit of an accept writes the driver of a ride, of one that has none.
LEMMA OnlyAcceptsAssign ==
  ASSUME MatchingInv, MatchingNext
  PROVE  \/ UNCHANGED driver_id
         \/ \E w \in Worker : /\ AcceptAssign(w)
                             /\ proc[w].ride \in Ride
                             /\ driver_id[proc[w].ride] = None
                             /\ driver_id' = [driver_id EXCEPT ![proc[w].ride] = proc[w].driver]
<1>1. ASSUME NEW w \in Worker, AcceptAssign(w)
      PROVE  /\ proc[w].ride \in Ride
             /\ driver_id[proc[w].ride] = None
             /\ driver_id' = [driver_id EXCEPT ![proc[w].ride] = proc[w].driver]
  <2>1. proc[w].ride \in Ride
    BY <1>1, MatchFields
       DEF AcceptAssign, Serving, MatchingInv, MatchingTypeOK, AnyRequest
  <2> QED BY <1>1, <2>1
          DEF AcceptAssign, AssignRows, AssignGuard, MatchingInv, MatchingTypeOK, DriverRecorded
<1>2. ASSUME NEW w \in Worker, OfferStep(w) PROVE UNCHANGED driver_id
  BY <1>2
     DEF OfferStep, offerSearch, offerClaim, offerSkip, offerNone, recordOffer, ledgerVars
<1>3. ASSUME NEW w \in Worker, LedgerStep(w) PROVE UNCHANGED driver_id
  BY <1>3
     DEF LedgerStep, CreateInsert, CancelRead, ToggleSnapshot, CancelTx, UpdateStatus,
         SetStatus, owners, ledgerVars
<1>4. ASSUME NEW w \in Worker, CreateMatched(w) \/ SetAvailability(w)
      PROVE  UNCHANGED driver_id
  BY <1>4
     DEF CreateMatched, MatchingRows, UpdateStatus, SetStatus, SetAvailability,
         AvailabilityRows, owners
<1>5. ASSUME NEW w \in Worker, clearOutstandingOffer(w) \/ loadRideCtx(w) \/ DeclinePeek(w)
                                \/ Unmark(w)
      PROVE  UNCHANGED driver_id
  BY <1>5 DEF clearOutstandingOffer, loadRideCtx, DeclinePeek, Unmark, ledgerVars
<1>6. ASSUME NEW w \in Worker, NEW d \in Driver, NEW r \in Ride,
             Accept(w, d, r) \/ Decline(w, d, r)
      PROVE  UNCHANGED driver_id
  BY <1>6 DEF Accept, Decline, ledgerVars
<1>7. ASSUME NEW w \in Worker, SweepStep(w) PROVE UNCHANGED driver_id
  BY <1>7
     DEF SweepStep, claimMatchingBatch, sweepExpire, sweepOffer, SetStatus, owners, ledgerVars
<1>8. ASSUME \/ \E w \in Worker : Abort(w)
             \/ \E d \in Driver : OfferLapses(d)
             \/ \E r \in Ride : MarkerLapses(r) \/ DeadlinePasses(r)
      PROVE  UNCHANGED driver_id
  BY <1>8 DEF Abort, OfferLapses, MarkerLapses, DeadlinePasses, ledgerVars, vars
<1> QED BY <1>1, <1>2, <1>3, <1>4, <1>5, <1>6, <1>7, <1>8, MatchingAssumption
        DEF MatchingNext, HandlerStep, Handler

\* A late accept, or one for another ride, assigns nothing: the driver of a ride
\* is written on an offer of that very ride, which the accept took from him.
THEOREM OnlyOfferedDriversAssigned == MatchingSpec => AssignedWasOffered
<1> DEFINE Backed ==
      \A r \in Ride :
        driver_id'[r] # driver_id[r] =>
          \E w \in Worker :
            /\ proc[w].op = "accept"
            /\ proc[w].ride = r
            /\ proc[w].held = r
            /\ proc[w].driver = driver_id'[r]
<1>1. MatchingInv /\ [MatchingNext]_matchVars => [Backed]_matchVars
  <2> SUFFICES ASSUME MatchingInv, MatchingNext, NEW r \in Ride, driver_id'[r] # driver_id[r]
               PROVE  \E w \in Worker :
                        /\ proc[w].op = "accept"
                        /\ proc[w].ride = r
                        /\ proc[w].held = r
                        /\ proc[w].driver = driver_id'[r]
    OBVIOUS
  <2>1. PICK w \in Worker :
          /\ AcceptAssign(w)
          /\ driver_id' = [driver_id EXCEPT ![proc[w].ride] = proc[w].driver]
    BY OnlyAcceptsAssign
  <2>2. proc[w].op = "accept" /\ proc[w].held = proc[w].ride
    BY <2>1 DEF AcceptAssign, Serving, MatchingInv, RequestsAreBacked
  <2>3. proc[w].ride = r /\ proc[w].driver = driver_id'[r]
    BY <2>1 DEF MatchingInv, MatchingTypeOK
  <2> QED BY <2>2, <2>3
<1>2. MatchingSpec => [][Backed]_matchVars
  BY <1>1, MatchingInvariance, PTL DEF MatchingSpec
<1> QED BY <1>2 DEF AssignedWasOffered

\* Of any number of accepts in flight the first to commit wins for good.
THEOREM FirstAcceptWins == MatchingSpec => AssignedOnce
<1> DEFINE Kept == \A r \in Ride : driver_id[r] # None => driver_id'[r] = driver_id[r]
<1>1. MatchingInv /\ [MatchingNext]_matchVars => [Kept]_vars
  <2> SUFFICES ASSUME MatchingInv, [MatchingNext]_matchVars PROVE [Kept]_vars
    OBVIOUS
  <2>1. CASE MatchingNext
    BY <2>1, OnlyAcceptsAssign DEF MatchingInv, MatchingTypeOK
  <2>2. CASE UNCHANGED matchVars
    BY <2>2 DEF matchVars
  <2> QED BY <2>1, <2>2
<1> QED BY <1>1, MatchingInvariance, PTL DEF MatchingSpec, AssignedOnce

(***************************************************************************)
(* The engine writes the rows as RideLedger says.                          *)
(***************************************************************************)

\* The requests of the ledger among those of the engine.
Seen == [w \in Worker |-> IF proc[w].op \in {"create", "cancel", "toggle"} THEN proc[w] ELSE Idle]

\* A goroutine that goes on shows its new request, if the ledger knows it.
LEMMA SeenGo ==
  ASSUME proc \in [Worker -> AnyRequest], NEW w \in Worker, NEW q, Go(w, q)
  PROVE  Seen' = [Seen EXCEPT ![w] = IF q.op \in {"create", "cancel", "toggle"} THEN q ELSE Idle]
BY DEF Seen, Go

\* What the ledger does not see.
LEMMA SeenSame ==
  ASSUME proc \in [Worker -> AnyRequest], NEW w \in Worker, NEW q, Go(w, q),
         proc[w].op \notin {"create", "cancel", "toggle"},
         q.op \notin {"create", "cancel", "toggle"}
  PROVE  Seen' = Seen
BY DEF Seen, Go

LEMMA Unseen ==
  ASSUME proc \in [Worker -> AnyRequest], NEW w \in Worker, NEW q, Go(w, q),
         proc[w].op \notin {"create", "cancel", "toggle"},
         q.op \notin {"create", "cancel", "toggle"},
         UNCHANGED ledgerVars
  PROVE  UNCHANGED Ledger!vars
BY SeenSame DEF Seen, Ledger!vars, ledgerVars

\* A request of the ledger that ends, or goes on as one the ledger does not know.
LEMMA SeenDone ==
  ASSUME proc \in [Worker -> AnyRequest], NEW w \in Worker, NEW q, Go(w, q),
         q.op \notin {"create", "cancel", "toggle"}
  PROVE  Ledger!Done(w)
BY SeenGo DEF Seen, Ledger!Done, Idle, Ledger!Idle

\* The definitions the ledger and the engine both import mean the same.
LEMMA SameTerms ==
  /\ Ledger!Idle = Idle
  /\ Ledger!Absent = Absent
  /\ Ledger!ActiveStatus = ActiveStatus
  /\ Ledger!Cancelled = Cancelled
  /\ \A to : Ledger!sourcesFor(to) = sourcesFor(to)
  /\ \A d : Ledger!DriverActive(d) <=> DriverActive(d)
  /\ \A p : Ledger!RiderActive(p) <=> RiderActive(p)
BY DEF Ledger!Idle, Idle, Ledger!Absent, Absent, Ledger!ActiveStatus, ActiveStatus,
       Ledger!Cancelled, Cancelled, Ledger!sourcesFor, sourcesFor, Ledger!DriverActive,
       DriverActive, Ledger!RiderActive, RiderActive, Ledger!RideStatus, RideStatus,
       Ledger!Transition, Transition, Ledger!transitions, transitions

LEMMA StepLedger == MatchingInv /\ [MatchingNext]_matchVars => [Ledger!Next]_(Ledger!vars)
<1> SUFFICES ASSUME MatchingInv, [MatchingNext]_matchVars
             PROVE  Ledger!Next \/ UNCHANGED Ledger!vars
  OBVIOUS
<1>0. proc \in [Worker -> AnyRequest]
  BY DEF MatchingInv, MatchingTypeOK, AnyRequest
<1>1. ASSUME NEW w \in Worker, NEW r \in Ride, NEW p \in Rider, CreateInsert(w, p, r)
      PROVE  Ledger!CreateInsert(w, p, r)
  <2>1. Ledger!Become(w, [op |-> "create", ride |-> r])
    BY <1>0, <1>1, SeenGo
       DEF CreateInsert, Become, Go, Ledger!Become, Ledger!Idle, Seen, Idle
  <2> QED BY <1>1, <2>1, SameTerms
          DEF CreateInsert, CreateGuard, Ledger!CreateInsert, Ledger!CreateGuard
<1>2. ASSUME NEW w \in Worker, NEW r \in Ride, NEW to \in Cancelled, CancelRead(w, r, to)
      PROVE  Ledger!CancelRead(w, r, to)
  <2>1. Ledger!Become(w, [op |-> "cancel", ride |-> r, to |-> to, seen |-> driver_id[r]])
    BY <1>0, <1>2, SeenGo
       DEF CancelRead, Become, Go, Ledger!Become, Ledger!Idle, Seen, Idle
  <2> QED BY <1>2, <2>1, SameTerms DEF CancelRead, Ledger!CancelRead, ledgerVars, Ledger!ledgerVars
<1>3. ASSUME NEW w \in Worker, NEW d \in Driver, NEW to \in {"offline", "available"},
             ToggleSnapshot(w, d, to)
      PROVE  Ledger!ToggleSnapshot(w, d, to)
  <2>1. Ledger!Become(w, [op |-> "toggle", driver |-> d, to |-> to,
                          seen |-> driver_status[d], busy |-> Ledger!DriverActive(d)])
    <3> DEFINE q(busy) == [op |-> "toggle", driver |-> d, to |-> to,
                           seen |-> driver_status[d], busy |-> busy]
    <3>1. PICK b : b = DriverActive(d)
      OBVIOUS
    <3>2. b = Ledger!DriverActive(d)
      BY <3>1, SameTerms, Zenon DEF DriverActive, Ledger!DriverActive
    <3>3. Become(w, q(b))
      BY <1>3, <3>1, Zenon DEF ToggleSnapshot
    <3>4. Ledger!Become(w, q(b))
      BY <1>0, <3>3, SeenGo DEF Become, Go, Ledger!Become, Ledger!Idle, Seen, Idle
    <3> QED BY <3>2, <3>4, Zenon DEF Ledger!Become
  <2> QED BY <1>3, <2>1 DEF ToggleSnapshot, Ledger!ToggleSnapshot, ledgerVars, Ledger!ledgerVars
<1>4. ASSUME NEW w \in Worker, CancelTx(w) PROVE Ledger!CancelTx(w)
  <2>1. Ledger!Done(w)
    BY <1>0, <1>4, SeenDone DEF CancelTx, Done, Go, Idle
  <2>2. Seen[w] = proc[w] /\ proc[w].op = "cancel"
    BY <1>4 DEF CancelTx, Serving, Seen
  <2> QED BY <1>4, <2>1, <2>2, SameTerms
          DEF CancelTx, Ledger!CancelTx, Serving, Ledger!Serving, Seen, UpdateStatus,
              Ledger!UpdateStatus, SetStatus, Ledger!SetStatus, owners, Ledger!owners,
              FreeDriver, Ledger!FreeDriver
<1>5. ASSUME NEW w \in Worker, CreateMatched(w) PROVE Ledger!CreateMatching(w)
  <2>1. Ledger!Done(w)
    <3> DEFINE q == [op |-> "request", ride |-> proc[w].ride]
    <3>1. Go(w, q) /\ q.op = "request"
      BY <1>5 DEF CreateMatched
    <3> HIDE DEF q
    <3> QED BY <1>0, <3>1, SeenDone
  <2>2. Seen[w] = proc[w] /\ proc[w].op = "create"
    BY <1>5 DEF CreateMatched, MatchingRows, Serving, Seen
  <2> QED BY <1>5, <2>1, <2>2
          DEF CreateMatched, MatchingRows, Ledger!CreateMatching, Ledger!MatchingRows, Serving,
              Ledger!Serving, Seen, UpdateStatus, Ledger!UpdateStatus, SetStatus,
              Ledger!SetStatus, owners, Ledger!owners
<1>6. ASSUME NEW w \in Worker, SetAvailability(w) PROVE Ledger!ToggleRow(w)
  <2>1. Ledger!Done(w)
    <3> DEFINE q == IF proc[w].to = "offline"
                    THEN [op |-> "offline", driver |-> proc[w].driver] ELSE Idle
    <3>1. Go(w, q) /\ q.op \in {"offline", "idle"}
      BY <1>6 DEF SetAvailability, Idle
    <3> HIDE DEF q
    <3> QED BY <1>0, <3>1, SeenDone
  <2>2. Seen[w] = proc[w] /\ proc[w].op = "toggle"
    BY <1>6 DEF SetAvailability, AvailabilityRows, Serving, Seen
  <2> QED BY <1>6, <2>1, <2>2
          DEF SetAvailability, AvailabilityRows, Ledger!ToggleRow, Ledger!AvailabilityRows,
              Serving, Ledger!Serving, Seen, AvailabilityGuard, Ledger!AvailabilityGuard,
              owners, Ledger!owners
<1>7. ASSUME NEW w \in Worker, AcceptAssign(w)
      PROVE  Ledger!assignTx(proc[w].ride, proc[w].driver)
  <2>1. Seen' = Seen
    <3> DEFINE q == [op |-> "unmark", ride |-> proc[w].ride, driver |-> proc[w].driver,
                     advance |-> FALSE]
    <3>1. Go(w, q) /\ q.op = "unmark" /\ proc[w].op = "accept"
      BY <1>7 DEF AcceptAssign, Serving
    <3> HIDE DEF q
    <3> QED BY <1>0, <3>1, SeenSame
  <2> QED BY <1>7, <2>1, SameTerms
          DEF AcceptAssign, AssignRows, AssignGuard, Ledger!assignTx,
              Ledger!AssignRows, Ledger!AssignGuard, Seen
<1>8. ASSUME NEW w \in Worker, NEW r \in Ride, sweepExpire(w, r)
      PROVE  Ledger!Expire(r) \/ UNCHANGED Ledger!vars
  <2>1. Seen' = Seen
    <3> DEFINE q == IF proc[w].expire = {r} /\ proc[w].rest = {}
                    THEN Idle ELSE [proc[w] EXCEPT !.expire = @ \ {r}]
    <3>1. Go(w, q) /\ proc[w].op = "sweep"
      BY <1>8 DEF sweepExpire, Serving
    <3>2. q.op \in {"idle", "sweep"}
      BY <1>0, <3>1 DEF AnyRequest, MatchRequest, Request, Idle
    <3> HIDE DEF q
    <3> QED BY <1>0, <3>1, <3>2, SeenSame
  <2>2. CASE status[r] = "MATCHING"
    BY <1>8, <2>1, <2>2
       DEF sweepExpire, SetStatus, owners, Ledger!Expire, Ledger!UpdateStatus,
           Ledger!SetStatus, Ledger!owners, Seen
  <2>3. CASE status[r] # "MATCHING"
    BY <1>8, <2>1, <2>3 DEF sweepExpire, owners, Ledger!vars, Seen
  <2> QED BY <2>2, <2>3
<1>9. ASSUME NEW w \in Worker, Abort(w) PROVE Ledger!Abandon(w) \/ UNCHANGED Ledger!vars
  <2>1. Go(w, Idle) /\ UNCHANGED ledgerVars
    BY <1>9 DEF Abort, Done, Go
  <2>2. CASE proc[w].op \in {"create", "cancel", "toggle"}
    <3>1. Ledger!Done(w)
      BY <1>0, <2>1, SeenDone DEF Idle
    <3> QED BY <2>1, <2>2, <3>1
            DEF Ledger!Abandon, Ledger!Idle, Idle, ledgerVars, Ledger!ledgerVars
  <2>3. CASE proc[w].op \notin {"create", "cancel", "toggle"}
    BY <1>0, <2>1, <2>3, Unseen DEF Idle
  <2> QED BY <2>2, <2>3
<1>10. ASSUME NEW w \in Worker, NEW rest \in SUBSET Ride, Continue(w, rest),
              proc[w].op \notin {"create", "cancel", "toggle"}, UNCHANGED ledgerVars
       PROVE  UNCHANGED Ledger!vars
  BY <1>0, <1>10, ContinueType, Unseen
<1>11. ASSUME NEW w \in Worker, OfferStep(w) PROVE UNCHANGED Ledger!vars
  <2>1. ASSUME NEW found \in SUBSET Driver, offerSearch(w, found) PROVE UNCHANGED Ledger!vars
    BY <1>0, <2>1, Unseen DEF offerSearch, Serving
  <2>2. ASSUME NEW d \in Driver, offerClaim(w, d) PROVE UNCHANGED Ledger!vars
    BY <1>0, <2>2, Unseen DEF offerClaim, Serving
  <2>3. ASSUME NEW d \in Driver, offerSkip(w, d) PROVE UNCHANGED Ledger!vars
    <3> DEFINE q == [proc[w] EXCEPT !.cands = @ \ {d}]
    <3>1. q.op = "claim"
      BY <1>0, <2>3 DEF offerSkip, Serving, AnyRequest, MatchRequest, Request, Idle
    <3>2. Go(w, q) /\ proc[w].op = "claim" /\ UNCHANGED ledgerVars
      BY <2>3 DEF offerSkip, Serving
    <3> HIDE DEF q
    <3> QED BY <1>0, <3>1, <3>2, Unseen
  <2>4. ASSUME offerNone(w) \/ recordOffer(w) PROVE UNCHANGED Ledger!vars
    BY <1>0, <1>10, <2>4, MatchFields DEF offerNone, recordOffer, Serving
  <2> QED BY <1>11, <2>1, <2>2, <2>3, <2>4 DEF OfferStep
<1>12. ASSUME NEW w \in Worker, clearOutstandingOffer(w) \/ loadRideCtx(w) \/ DeclinePeek(w)
       PROVE  UNCHANGED Ledger!vars
  BY <1>0, <1>12, Unseen
     DEF clearOutstandingOffer, loadRideCtx, DeclinePeek, Serving, Idle, Done, Go
<1>13. ASSUME NEW w \in Worker, Unmark(w) PROVE UNCHANGED Ledger!vars
  BY <1>0, <1>13, Unseen DEF Unmark, Serving, Idle, Done, Go
<1>14. ASSUME NEW w \in Worker, NEW d \in Driver, NEW r \in Ride,
              Accept(w, d, r) \/ Decline(w, d, r)
       PROVE  UNCHANGED Ledger!vars
  <2>1. CASE UNCHANGED proc
    BY <1>14, <2>1 DEF Accept, Decline, ledgerVars, Ledger!vars
  <2>2. CASE ~UNCHANGED proc
    BY <1>0, <1>14, <2>2, Unseen DEF Accept, Decline, Idle
  <2> QED BY <2>1, <2>2
<1>15. ASSUME NEW w \in Worker, claimMatchingBatch(w) PROVE UNCHANGED Ledger!vars
  BY <1>0, <1>15, Unseen DEF claimMatchingBatch, Idle
<1>16. ASSUME NEW w \in Worker, NEW r \in Ride, sweepOffer(w, r) PROVE UNCHANGED Ledger!vars
  <2>1. proc[w].rest \in SUBSET Ride
    BY <1>0, <1>16, MatchFields DEF sweepOffer, Serving
  <2>2. CASE offer_ride[r] = None
    BY <1>0, <1>16, <2>2, Unseen DEF sweepOffer, Serving
  <2>3. CASE offer_ride[r] # None
    BY <1>10, <1>16, <2>1, <2>3 DEF sweepOffer, Serving
  <2> QED BY <2>2, <2>3
<1>17. ASSUME UNCHANGED vars PROVE UNCHANGED Ledger!vars
  BY <1>17 DEF vars, Ledger!vars
<1>18. ASSUME NEW w \in Worker, HandlerStep(w) PROVE Ledger!Next \/ UNCHANGED Ledger!vars
  <2>1. CASE LedgerStep(w)
    BY <1>1, <1>2, <1>3, <1>4, <2>1, SameTerms
       DEF LedgerStep, Ledger!Next, Ledger!Read, Ledger!Commit
  <2>2. CASE CreateMatched(w) \/ SetAvailability(w)
    BY <1>5, <1>6, <2>2 DEF Ledger!Next, Ledger!Commit
  <2>3. CASE AcceptAssign(w)
    <3>1. proc[w].ride \in Ride /\ proc[w].driver \in Driver
      BY <1>0, <2>3, MatchFields DEF AcceptAssign, Serving
    <3> QED BY <1>7, <2>3, <3>1 DEF Ledger!Next, Ledger!RideStep
  <2> QED BY <1>12, <1>13, <1>14, <1>18, <2>1, <2>2, <2>3 DEF HandlerStep
<1>19. ASSUME NEW w \in Worker, SweepStep(w) PROVE Ledger!Next \/ UNCHANGED Ledger!vars
  BY <1>8, <1>15, <1>16, <1>19 DEF SweepStep, Ledger!Next, Ledger!RideStep
<1>20. ASSUME NEW w \in Worker, Abort(w) PROVE Ledger!Next \/ UNCHANGED Ledger!vars
  BY <1>9, <1>20 DEF Ledger!Next
<1>21. ASSUME \/ \E d \in Driver : OfferLapses(d)
              \/ \E r \in Ride : MarkerLapses(r) \/ DeadlinePasses(r)
              \/ UNCHANGED matchVars
       PROVE  UNCHANGED vars
  BY <1>21 DEF OfferLapses, MarkerLapses, DeadlinePasses, matchVars
<1> QED BY <1>11, <1>17, <1>18, <1>19, <1>20, <1>21, MatchingAssumption
        DEF MatchingNext, Handler

\* Offers, sweeps and restarts touch the rows by ledger transactions only, so
\* whatever holds of every behaviour of the ledger holds of the engine's rows.
THEOREM EngineImplementsLedger == MatchingSpec => ImplementsLedger
<1>1. MatchingInit => Ledger!Init
  BY SameTerms DEF MatchingInit, Init, Ledger!Init, Idle
<1> QED BY <1>1, MatchingInvariance, StepLedger, PTL
        DEF MatchingSpec, ImplementsLedger, Ledger!Spec

(***************************************************************************)
(* What the ledger promises of its rows holds of the rows the engine       *)
(* writes: each of its transactions keeps it.                              *)
(***************************************************************************)

RowsTypes ==
  /\ status \in [Ride -> RideStatus \cup {Absent}]
  /\ rider_id \in [Ride -> Rider \cup {None}]
  /\ driver_id \in [Ride -> Driver \cup {None}]
  /\ driver_status \in [Driver -> DriverStatus]
  /\ trip_status \in [Ride -> TripStatus]
  /\ payments \in [Ride -> Nat]

\* The ledger's invariant, without the requests.
RowsInv ==
  /\ RowsTypes
  /\ RiderHasOneRide
  /\ DriverHasOneRide
  /\ DriverRecorded
  /\ OnTripHasRide
  /\ TripMatchesRide

LEMMA UntouchedRows ==
  ASSUME RowsInv, UNCHANGED ledgerVars
  PROVE  RowsInv'
BY DEF RowsInv, RowsTypes, RiderHasOneRide, DriverHasOneRide, DriverRecorded,
       OnTripHasRide, DriverActive, TripMatchesRide, ledgerVars

LEMMA InsertKeepsRows ==
  ASSUME RowsInv, NEW p \in Rider, NEW r \in Ride, CreateGuard(p, r),
         status' = [status EXCEPT ![r] = "REQUESTED"],
         rider_id' = [rider_id EXCEPT ![r] = p],
         UNCHANGED <<driver_id, driver_status, trip_status, payments>>
  PROVE  RowsInv'
BY LedgerAssumption
   DEF RowsInv, RowsTypes, RiderHasOneRide, DriverHasOneRide, DriverRecorded,
       OnTripHasRide, DriverActive, RiderActive, TripMatchesRide, CreateGuard,
       RideStatus, ActiveStatus, Absent, assignedOrLater

\* Before an assignment a status write is of no driver's concern.
LEMMA EarlyWriteKeepsRows ==
  ASSUME RowsInv, NEW r \in Ride,
         NEW from \in {"REQUESTED", "MATCHING"}, NEW to \in {"MATCHING", "EXPIRED"},
         UpdateStatus(r, {from}, to), UNCHANGED <<driver_status, trip_status, payments>>
  PROVE  RowsInv'
BY LedgerAssumption
   DEF RowsInv, RowsTypes, RiderHasOneRide, DriverHasOneRide, DriverRecorded,
       OnTripHasRide, DriverActive, TripMatchesRide, UpdateStatus, SetStatus, owners,
       RideStatus, ActiveStatus, Absent, assignedOrLater

LEMMA CancelKeepsRows ==
  ASSUME RowsInv, NEW r \in Ride, NEW to \in Cancelled,
         UpdateStatus(r, sourcesFor(to), to), FreeDriver(driver_id[r]),
         UNCHANGED <<trip_status, payments>>
  PROVE  RowsInv'
<1>1. /\ driver_status' \in [Driver -> DriverStatus]
      /\ \A e \in Driver : driver_status'[e] = "on_trip"
                             => driver_status[e] = "on_trip" /\ e # driver_id[r]
  BY FreeDriverType DEF RowsInv, RowsTypes
<1>2. status[r] \in {"REQUESTED", "MATCHING", "DRIVER_ASSIGNED", "DRIVER_ARRIVING",
                     "ARRIVED"}
  BY CancelSources DEF UpdateStatus
<1> QED
  BY <1>1, <1>2, LedgerAssumption
     DEF RowsInv, RowsTypes, RiderHasOneRide, DriverHasOneRide, DriverRecorded,
         OnTripHasRide, DriverActive, TripMatchesRide, UpdateStatus, SetStatus, owners,
         RideStatus, ActiveStatus, Cancelled, Absent, assignedOrLater

LEMMA AssignKeepsRows ==
  ASSUME RowsInv, NEW r \in Ride, NEW d \in Driver, AssignRows(r, d)
  PROVE  RowsInv'
<1> USE LedgerAssumption
    DEF RowsInv, RowsTypes, AssignRows, AssignGuard, DriverActive, RideStatus,
        ActiveStatus, Absent, assignedOrLater
<1>1. driver_id[r] = None
  BY DEF DriverRecorded
<1>2. RowsTypes'
  BY DEF DriverStatus
<1>3. RiderHasOneRide'
  BY DEF RiderHasOneRide
<1>4. DriverHasOneRide'
  BY DEF DriverHasOneRide
<1>5. DriverRecorded'
  BY DEF DriverRecorded
<1>6. OnTripHasRide'
  BY <1>1 DEF OnTripHasRide
<1>7. TripMatchesRide'
  BY DEF TripMatchesRide
<1> QED  BY <1>2, <1>3, <1>4, <1>5, <1>6, <1>7

LEMMA AvailabilityKeepsRows ==
  ASSUME RowsInv, NEW d \in Driver, NEW to \in {"offline", "available"},
         driver_status' = [driver_status EXCEPT ![d] = to],
         UNCHANGED <<status, owners, trip_status, payments>>
  PROVE  RowsInv'
BY DEF RowsInv, RowsTypes, RiderHasOneRide, DriverHasOneRide, DriverRecorded,
       OnTripHasRide, DriverActive, TripMatchesRide, DriverStatus, owners

(***************************************************************************)
(* Which rows a step of the engine writes.                                 *)
(***************************************************************************)

InsertWrite ==
  \E p \in Rider, r \in Ride :
    /\ CreateGuard(p, r)
    /\ status' = [status EXCEPT ![r] = "REQUESTED"]
    /\ rider_id' = [rider_id EXCEPT ![r] = p]
    /\ UNCHANGED <<driver_id, driver_status, trip_status, payments>>

EarlyWrite ==
  \E r \in Ride :
    /\ \/ UpdateStatus(r, {"REQUESTED"}, "MATCHING")
       \/ UpdateStatus(r, {"MATCHING"}, "EXPIRED")
    /\ UNCHANGED <<driver_status, trip_status, payments>>

CancelWrite ==
  \E r \in Ride, to \in Cancelled :
    /\ UpdateStatus(r, sourcesFor(to), to)
    /\ FreeDriver(driver_id[r])
    /\ UNCHANGED <<trip_status, payments>>

AvailabilityWrite ==
  \E d \in Driver, to \in {"offline", "available"} :
    /\ driver_status' = [driver_status EXCEPT ![d] = to]
    /\ UNCHANGED <<status, owners, trip_status, payments>>

AssignWrite == \E r \in Ride, d \in Driver : AssignRows(r, d)

RowWrite == InsertWrite \/ EarlyWrite \/ CancelWrite \/ AvailabilityWrite \/ AssignWrite

LEMMA LedgerStepWrites ==
  ASSUME MatchingInv, NEW w \in Worker, LedgerStep(w)
  PROVE  RowWrite \/ UNCHANGED ledgerVars
<1>1. ASSUME NEW r \in Ride, NEW p \in Rider, CreateInsert(w, p, r) PROVE RowWrite
  BY <1>1 DEF CreateInsert, InsertWrite, RowWrite
<1>2. ASSUME CancelTx(w) PROVE RowWrite
  <2>1. proc[w].ride \in Ride /\ proc[w].to \in Cancelled
    BY <1>2, MatchFields
       DEF CancelTx, Serving, MatchingInv, MatchingTypeOK, AnyRequest
  <2> QED  BY <1>2, <2>1 DEF CancelTx, CancelWrite, RowWrite
<1> QED  BY <1>1, <1>2 DEF LedgerStep, CancelRead, ToggleSnapshot

LEMMA HandlerStepWrites ==
  ASSUME MatchingInv, NEW w \in Worker, HandlerStep(w)
  PROVE  RowWrite \/ UNCHANGED ledgerVars
<1> USE DEF MatchingInv, MatchingTypeOK, Serving, AnyRequest
<1>1. ASSUME CreateMatched(w) PROVE RowWrite
  <2>1. proc[w].ride \in Ride
    BY <1>1, MatchFields DEF CreateMatched, MatchingRows
  <2> QED  BY <1>1, <2>1 DEF CreateMatched, MatchingRows, EarlyWrite, RowWrite
<1>2. ASSUME SetAvailability(w) PROVE RowWrite
  <2>1. proc[w].driver \in Driver /\ proc[w].to \in {"offline", "available"}
    BY <1>2, MatchFields DEF SetAvailability, AvailabilityRows
  <2> QED
    BY <1>2, <2>1 DEF SetAvailability, AvailabilityRows, AvailabilityWrite, RowWrite
<1>3. ASSUME AcceptAssign(w) PROVE RowWrite
  <2>1. proc[w].ride \in Ride /\ proc[w].driver \in Driver
    BY <1>3, MatchFields DEF AcceptAssign
  <2> QED  BY <1>3, <2>1 DEF AcceptAssign, AssignWrite, RowWrite
<1>4. ASSUME \/ clearOutstandingOffer(w) \/ loadRideCtx(w) \/ DeclinePeek(w) \/ Unmark(w)
             \/ \E d \in Driver, r \in Ride : Accept(w, d, r) \/ Decline(w, d, r)
      PROVE  UNCHANGED ledgerVars
  BY <1>4 DEF clearOutstandingOffer, loadRideCtx, DeclinePeek, Unmark, Accept, Decline
<1> QED  BY <1>1, <1>2, <1>3, <1>4, LedgerStepWrites DEF HandlerStep

LEMMA EngineWrites ==
  ASSUME MatchingInv, [MatchingNext]_matchVars
  PROVE  RowWrite \/ UNCHANGED ledgerVars
<1>1. ASSUME NEW w \in Worker, OfferStep(w) \/ Abort(w) PROVE UNCHANGED ledgerVars
  BY <1>1
     DEF OfferStep, offerSearch, offerClaim, offerSkip, offerNone, recordOffer, Abort
<1>2. ASSUME NEW w \in Sweeper, SweepStep(w) PROVE RowWrite \/ UNCHANGED ledgerVars
  <2>1. ASSUME NEW r \in Ride, sweepExpire(w, r) PROVE RowWrite \/ UNCHANGED ledgerVars
    <3>1. CASE status[r] = "MATCHING"
      <4>1. UpdateStatus(r, {"MATCHING"}, "EXPIRED")
        BY <2>1, <3>1 DEF sweepExpire, UpdateStatus
      <4> QED  BY <2>1, <4>1 DEF sweepExpire, EarlyWrite, RowWrite
    <3>2. CASE status[r] # "MATCHING"
      BY <2>1, <3>2 DEF sweepExpire, owners, ledgerVars
    <3> QED  BY <3>1, <3>2
  <2> QED  BY <1>2, <2>1 DEF SweepStep, claimMatchingBatch, sweepOffer
<1>3. ASSUME \/ \E d \in Driver : OfferLapses(d)
             \/ \E r \in Ride : MarkerLapses(r) \/ DeadlinePasses(r)
             \/ UNCHANGED matchVars
      PROVE  UNCHANGED ledgerVars
  BY <1>3 DEF OfferLapses, MarkerLapses, DeadlinePasses, matchVars, vars, ledgerVars
<1> QED  BY <1>1, <1>2, <1>3, HandlerStepWrites DEF MatchingNext, Handler

LEMMA WritesKeepRows == RowsInv /\ RowWrite => RowsInv'
<1> SUFFICES ASSUME RowsInv, RowWrite PROVE RowsInv'
  OBVIOUS
<1>1. CASE InsertWrite
  BY <1>1, InsertKeepsRows DEF InsertWrite
<1>2. CASE EarlyWrite
  BY <1>2, EarlyWriteKeepsRows DEF EarlyWrite
<1>3. CASE CancelWrite
  BY <1>3, CancelKeepsRows DEF CancelWrite
<1>4. CASE AvailabilityWrite
  BY <1>4, AvailabilityKeepsRows DEF AvailabilityWrite
<1>5. CASE AssignWrite
  BY <1>5, AssignKeepsRows DEF AssignWrite
<1> QED  BY <1>1, <1>2, <1>3, <1>4, <1>5 DEF RowWrite

LEMMA WritesAreLegal == RowsInv /\ RowWrite => \A r \in Ride : LegalMove(r)
<1> SUFFICES ASSUME RowsInv, RowWrite PROVE \A r \in Ride : LegalMove(r)
  OBVIOUS
<1> USE DEF RowsInv, RowsTypes
<1>1. CASE InsertWrite
  BY <1>1 DEF InsertWrite, CreateGuard, LegalMove
<1>2. CASE EarlyWrite
  BY <1>2
     DEF EarlyWrite, UpdateStatus, SetStatus, LegalMove, Transition, transitions, RideStatus
<1>3. CASE CancelWrite
  <2>1. PICK s \in Ride, to \in Cancelled : UpdateStatus(s, sourcesFor(to), to)
    BY <1>3 DEF CancelWrite
  <2>2. status[s] \in RideStatus /\ Transition(status[s], to)
    BY <2>1 DEF UpdateStatus, sourcesFor
  <2> QED  BY <2>1, <2>2 DEF UpdateStatus, SetStatus, LegalMove
<1>4. CASE AvailabilityWrite
  BY <1>4 DEF AvailabilityWrite, LegalMove
<1>5. CASE AssignWrite
  BY <1>5
     DEF AssignWrite, AssignRows, AssignGuard, LegalMove, Transition, transitions, RideStatus
<1> QED  BY <1>1, <1>2, <1>3, <1>4, <1>5 DEF RowWrite

\* With offers, accepts, sweeps and toggles interleaved at will, the rows keep
\* what the ledger promises of them.
THEOREM EngineKeepsRows == MatchingSpec => []RowsInv
<1>1. MatchingInit => RowsInv
  BY LedgerAssumption
     DEF MatchingInit, Init, RowsInv, RowsTypes, RiderHasOneRide, DriverHasOneRide,
         DriverRecorded, OnTripHasRide, TripMatchesRide, ActiveStatus, Absent,
         assignedOrLater, TripStatus, DriverStatus
<1>2. MatchingInv /\ RowsInv /\ [MatchingNext]_matchVars => RowsInv'
  BY EngineWrites, WritesKeepRows, UntouchedRows
<1> QED  BY <1>1, <1>2, MatchingInvariance, PTL DEF MatchingSpec

\* No double assignment and no orphaned driver: two drivers can hold an offer
\* for a ride and one driver can accept two, and still a driver is on at most
\* one active ride, and is on_trip only if he is on one.
THEOREM EngineNeverDoubleAssigns == MatchingSpec => [](DriverHasOneRide /\ OnTripHasRide)
<1>1. RowsInv => DriverHasOneRide /\ OnTripHasRide
  BY DEF RowsInv
<1> QED  BY <1>1, EngineKeepsRows, PTL

\* The engine's own SQL, the sweeper's expiry and the assignment, moves a ride
\* along the transition table only.
THEOREM EngineFollowsTheTable == MatchingSpec => LegalMoves
<1>1. MatchingInv /\ RowsInv /\ [MatchingNext]_matchVars => [\A r \in Ride : LegalMove(r)]_vars
  <2> SUFFICES ASSUME MatchingInv, RowsInv, [MatchingNext]_matchVars
               PROVE  \A r \in Ride : LegalMove(r)
    OBVIOUS
  <2>1. ASSUME UNCHANGED ledgerVars PROVE \A r \in Ride : LegalMove(r)
    BY <2>1 DEF ledgerVars, LegalMove
  <2> QED  BY <2>1, EngineWrites, WritesAreLegal
<1> QED  BY <1>1, MatchingInvariance, EngineKeepsRows, PTL DEF MatchingSpec, LegalMoves

=============================================================================
