--------------------------- MODULE PresenceProofs ---------------------------
(***************************************************************************)
(* The Redis mirrors of any number of drivers follow their rows wherever   *)
(* the last request for a driver ran alone to its end.                     *)
(***************************************************************************)
EXTENDS Presence, TLAPS

\* What a request of each kind carries.
LEMMA RequestFields ==
  ASSUME NEW q \in Request
  PROVE  /\ q.op \in {"idle", "create", "start", "cancel", "end", "toggle"}
         /\ q.op \in {"create", "start"} => q.ride \in Ride
         /\ q.op = "cancel" => q.ride \in Ride /\ q.to \in Cancelled
         /\ q.op = "end" => q.ride \in Ride /\ q.driver \in Driver
         /\ q.op = "toggle" => /\ q.driver \in Driver
                               /\ q.to \in {"offline", "available"}
BY DEF Request, Idle

\* Cancellation is legal exactly before the trip starts.
LEMMA CancelSources ==
  ASSUME NEW to \in Cancelled
  PROVE  sourcesFor(to) = {"REQUESTED", "MATCHING", "DRIVER_ASSIGNED",
                           "DRIVER_ARRIVING", "ARRIVED"}
BY DEF sourcesFor, Transition, transitions, Cancelled, RideStatus

\* Freeing a driver writes that driver's row only, and takes it off on_trip.
LEMMA FreeDriverType ==
  ASSUME driver_status \in [Driver -> DriverStatus], NEW d, FreeDriver(d)
  PROVE  /\ driver_status' \in [Driver -> DriverStatus]
         /\ \A e \in Driver : driver_status'[e] = "on_trip"
                                => driver_status[e] = "on_trip" /\ e # d
BY DEF FreeDriver, DriverStatus

AnyRequest == Request \cup AfterCommit

\* What a request of each kind carries.
LEMMA AfterFields ==
  ASSUME NEW q \in AnyRequest
  PROVE  /\ q.op \in {"idle", "create", "start", "cancel", "end", "toggle"} => q \in Request
         /\ q.op \in AfterOps => q.driver \in Driver
         /\ q.op = "mark" => q.ride \in Ride
         /\ q.op = "restore" => q.read \in DriverStatus
BY DEF AnyRequest, Request, AfterCommit, AfterOps, Idle

LEMMA IdleType == Idle \in Request /\ Idle \in AnyRequest /\ Idle.op = "idle" /\ Idle.op \notin AfterOps
BY DEF AnyRequest, Request, Idle, AfterOps

LEMMA OpType ==
  ASSUME NEW name \in AfterOps \ {"mark", "restore"}, NEW d \in Driver
  PROVE  Op(name, d) \in AnyRequest /\ Op(name, d).op = name /\ Op(name, d).driver = d
BY DEF Op, AnyRequest, AfterCommit, AfterOps

(***************************************************************************)
(* What one driver needs: his writers are backed, and his mirror follows   *)
(* his row when he is settled.                                             *)
(***************************************************************************)
Kept(d) ==
  d \notin clashed =>
    /\ \A v, w \in Writing(d) : v = w /\ Backed(w)
    /\ Writing(d) = {} => MirrorFollowsRow(d)

LEMMA KeptNext ==
  ASSUME \A d \in Driver : Kept(d)'
  PROVE  WritersAreBacked' /\ MirrorsFollowRows'
BY DEF WritersAreBacked, MirrorsFollowRows, Settled, Kept

\* A driver keeps what he has in a step that touches neither his keys nor his
\* row nor his writers, and leaves his rides with him.
LEMMA KeptElsewhere ==
  ASSUME PresenceInv, NEW d \in Driver,
         d \in clashed => d \in clashed',
         Writing(d)' = Writing(d),
         \A w \in Writing(d) : proc'[w] = proc[w],
         mirror'[d] = mirror[d], ride_key'[d] = ride_key[d],
         driver_status'[d] = driver_status[d],
         \A r \in Ride : RidesWith(r, d) => RidesWith(r, d)'
  PROVE  Kept(d)'
<1> USE DEF PresenceInv, PresenceTypeOK
<1> SUFFICES ASSUME d \notin clashed' 
             PROVE  /\ \A v, w \in Writing(d) : v = w /\ Backed(w)'
                    /\ Writing(d) = {} => MirrorFollowsRow(d)'
  BY DEF Kept
<1>1. /\ \A v, w \in Writing(d) : v = w /\ Backed(w)
      /\ Writing(d) = {} => MirrorFollowsRow(d)
  BY DEF WritersAreBacked, MirrorsFollowRows, Settled
<1>2. ASSUME NEW w \in Writing(d), Backed(w) PROVE Backed(w)'
  <2>1. proc[w].driver = d /\ w \in Worker
    BY DEF Writing
  <2>2. proc[w].op = "mark" => proc[w].ride \in Ride
    BY <2>1, AfterFields DEF AnyRequest
  <2> QED BY <1>2, <2>1, <2>2 DEF Backed
<1>3. MirrorFollowsRow(d) => MirrorFollowsRow(d)'
  BY DEF MirrorFollowsRow
<1> QED BY <1>1, <1>2, <1>3

\* A commit that goes on to write for a driver makes it his writer; elsewhere
\* nothing changes.
LEMMA ThenWrites ==
  ASSUME proc \in [Worker -> AnyRequest], NEW w \in Worker, NEW q \in AnyRequest, Then(w, q),
         proc[w].op \notin AfterOps, q.op \in AfterOps, NEW d \in Driver, q.driver = d
  PROVE  /\ proc' \in [Worker -> AnyRequest]
         /\ proc'[w] = q
         /\ d \notin clashed' => Writing(d)' = {w}
         /\ \A e \in Driver \ {d} :
              /\ e \in clashed <=> e \in clashed'
              /\ Writing(e)' = Writing(e)
              /\ \A v \in Writing(e) : proc'[v] = proc[v]
<1>1. /\ proc' \in [Worker -> AnyRequest]
      /\ proc'[w] = q
      /\ \A v \in Worker \ {w} : proc'[v] = proc[v]
  BY DEF Then
<1>2. Writing(d)' = Writing(d) \cup {w}
  BY <1>1 DEF Writing
<1>3. d \notin clashed' => Writing(d) = {}
  BY DEF Then
<1>4. \A e \in Driver \ {d} : e \in clashed <=> e \in clashed'
  BY DEF Then
<1>5. ASSUME NEW e \in Driver \ {d}
      PROVE  /\ Writing(e)' = Writing(e)
             /\ \A v \in Writing(e) : proc'[v] = proc[v]
  BY <1>1, <1>5 DEF Writing
<1> QED BY <1>1, <1>2, <1>3, <1>4, <1>5

\* A later step of a request changes what its driver's writers are, and no
\* other's.
LEMMA GoOn ==
  ASSUME proc \in [Worker -> AnyRequest], NEW w \in Worker, NEW q \in AnyRequest,
         Proceed(w, q), proc[w].op \in AfterOps, NEW d \in Driver, proc[w].driver = d,
         q.op \in AfterOps => q.driver = d
  PROVE  /\ proc' \in [Worker -> AnyRequest]
         /\ proc'[w] = q
         /\ Writing(d)' = IF q.op \in AfterOps THEN Writing(d) ELSE Writing(d) \ {w}
         /\ w \in Writing(d)
         /\ \A e \in Driver \ {d} :
              /\ Writing(e)' = Writing(e)
              /\ \A v \in Writing(e) : proc'[v] = proc[v]
<1>1. /\ proc' \in [Worker -> AnyRequest]
      /\ proc'[w] = q
      /\ \A v \in Worker \ {w} : proc'[v] = proc[v]
  BY DEF Proceed
<1>2. ASSUME NEW e \in Driver \ {d}
      PROVE  /\ Writing(e)' = Writing(e)
             /\ \A v \in Writing(e) : proc'[v] = proc[v]
  BY <1>1, <1>2 DEF Writing
<1>3. Writing(d)' = IF q.op \in AfterOps THEN Writing(d) ELSE Writing(d) \ {w}
  BY <1>1 DEF Writing
<1>4. w \in Writing(d)
  BY DEF Writing
<1> QED BY <1>1, <1>2, <1>3, <1>4

LEMMA PresenceInitInv == PresenceInit => PresenceInv
<1> SUFFICES ASSUME PresenceInit PROVE PresenceInv
  OBVIOUS
<1>1. \A w \in Worker : proc[w] = Idle
  BY DEF PresenceInit
<1>2. \A d \in Driver : Writing(d) = {}
  BY <1>1, IdleType DEF Writing
<1>3. PresenceTypeOK
  BY IdleType DEF PresenceInit, PresenceTypeOK, AnyRequest, DriverStatus
<1>4. MirrorsFollowRows
  BY DEF PresenceInit, MirrorsFollowRows, MirrorFollowsRow
<1> QED BY <1>1, <1>2, <1>3, <1>4, IdleType
        DEF PresenceInit, PresenceInv, RideStatus, Absent, DriverStatus, DriverRecorded,
            EndKnowsDriver, WritersAreBacked, assignedOrLater

(***************************************************************************)
(* The commits.                                                            *)
(***************************************************************************)

\* A commit that rewrites the row of one driver, and writes Redis for him next.
LEMMA CommitKeeps ==
  ASSUME PresenceInv, NEW w \in Worker, NEW q \in AnyRequest, Then(w, q),
         proc[w].op \notin AfterOps, q.op \in {"mark", "release", "offline", "forget"},
         NEW d \in Driver, q.driver = d,
         q.op = "mark" => driver_status'[d] = "on_trip" /\ RidesWith(q.ride, d)',
         q.op = "release" => driver_status'[d] # "on_trip",
         q.op = "offline" => driver_status'[d] = "offline",
         q.op = "forget" => driver_status'[d] = "available",
         \A e \in Driver \ {d} : /\ driver_status'[e] = driver_status[e]
                                 /\ \A r \in Ride : RidesWith(r, e) => RidesWith(r, e)'
  PROVE  /\ WritersAreBacked' /\ MirrorsFollowRows'
         /\ PresenceTypeOK'
         /\ \A v \in Worker : proc'[v].op = "end" => proc'[v] = proc[v]
<1> USE DEF PresenceInv, PresenceTypeOK
<1>0. q.op \in AfterOps /\ proc \in [Worker -> AnyRequest]
  BY DEF AfterOps, AnyRequest
<1>1. UNCHANGED redisVars /\ UNCHANGED ping
  BY DEF Then
<1>2. ASSUME NEW e \in Driver \ {d} PROVE Kept(e)'
  BY <1>0, <1>1, <1>2, ThenWrites, KeptElsewhere DEF redisVars
<1>3. Kept(d)'
  <2>1. proc'[w] = q /\ (d \notin clashed' => Writing(d)' = {w})
    BY <1>0, ThenWrites
  <2>2. Backed(w)'
    BY <2>1 DEF Backed
  <2> QED BY <2>1, <2>2 DEF Kept
<1>4. PresenceTypeOK'
  BY <1>0, <1>1, ThenWrites DEF redisVars, AnyRequest
<1>5. \A v \in Worker : proc'[v].op = "end" => proc'[v] = proc[v]
  BY DEF Then
<1> QED BY <1>2, <1>3, <1>4, <1>5, KeptNext

\* A step of a request that writes Redis for nobody, before or after.
LEMMA NoWriteInv ==
  ASSUME PresenceInv, NEW w \in Worker, NEW q \in Request, Proceed(w, q),
         proc[w].op \notin AfterOps,
         q.op = "end" => driver_id'[q.ride] = q.driver,
         UNCHANGED <<redisVars, ping, clashed, driver_id, driver_status>>,
         status' \in [Ride -> RideStatus \cup {Absent}], DriverRecorded',
         \A d \in Driver, r \in Ride : RidesWith(r, d) => RidesWith(r, d)'
  PROVE  PresenceInv'
<1> USE DEF PresenceInv, PresenceTypeOK
<1>1. /\ proc' \in [Worker -> Request \cup AfterCommit]
      /\ proc'[w] = q
      /\ \A v \in Worker \ {w} : proc'[v] = proc[v]
  BY DEF Proceed
<1>2. q.op \notin AfterOps
  BY RequestFields DEF AfterOps
<1>3. ASSUME NEW d \in Driver PROVE Kept(d)'
  <2>1. Writing(d)' = Writing(d) /\ \A v \in Writing(d) : proc'[v] = proc[v]
    BY <1>1, <1>2 DEF Writing
  <2> QED BY <2>1, KeptElsewhere DEF redisVars
<1>4. EndKnowsDriver'
  BY <1>1 DEF EndKnowsDriver
<1> QED BY <1>1, <1>3, <1>4, KeptNext DEF redisVars

LEMMA AssignInv ==
  ASSUME PresenceInv, NEW w \in Worker, NEW r \in Ride, NEW d \in Driver, Assign(w, r, d)
  PROVE  PresenceInv'
<1> DEFINE q == [op |-> "mark", ride |-> r, driver |-> d]
<1> USE DEF PresenceInv
<1>1. q \in AnyRequest /\ q.op = "mark" /\ q.driver = d /\ q.ride = r
  BY DEF AnyRequest, AfterCommit
<1>2. Then(w, q) /\ AssignRows(r, d) /\ proc[w].op \notin AfterOps
  BY IdleType DEF Assign
<1> HIDE DEF q
<1>3. status[r] = "MATCHING" /\ driver_id[r] = None
  BY <1>2 DEF AssignRows, AssignGuard, DriverRecorded
<1>4. /\ driver_status'[d] = "on_trip"
      /\ RidesWith(r, d)'
      /\ \A e \in Driver \ {d} : /\ driver_status'[e] = driver_status[e]
                                /\ \A s \in Ride : RidesWith(s, e) => RidesWith(s, e)'
  BY <1>2, <1>3 DEF AssignRows, RidesWith, OnRide, ActiveStatus, assignedOrLater
<1>5. /\ WritersAreBacked' /\ MirrorsFollowRows'
      /\ PresenceTypeOK'
      /\ \A v \in Worker : proc'[v].op = "end" => proc'[v] = proc[v]
  BY <1>1, <1>2, <1>4, CommitKeeps
<1>6. EndKnowsDriver'
  <2> SUFFICES ASSUME NEW v \in Worker, proc'[v].op = "end"
               PROVE  driver_id'[proc[v].ride] = proc[v].driver
    BY <1>5 DEF EndKnowsDriver
  <2>1. proc[v].op = "end" /\ proc[v] \in Request
    BY <1>5, AfterFields DEF PresenceTypeOK, AnyRequest
  <2> QED BY <1>2, <1>3, <2>1, RequestFields, LedgerAssumption DEF AssignRows, EndKnowsDriver
<1>7. DriverRecorded'
  BY <1>2, LedgerAssumption DEF AssignRows, DriverRecorded, Absent, assignedOrLater
<1> QED BY <1>2, <1>5, <1>6, <1>7 DEF AssignRows, RideStatus, DriverStatus

LEMMA CancelInv ==
  ASSUME PresenceInv, NEW w \in Worker, Cancel(w)
  PROVE  PresenceInv'
<1> USE DEF PresenceInv
<1>1. PICK r \in Ride, to \in Cancelled : r = proc[w].ride /\ to = proc[w].to
  BY AfterFields, RequestFields DEF Cancel, Serving, PresenceTypeOK, AnyRequest
<1>2. /\ proc[w].op \notin AfterOps
      /\ status[r] \in {"REQUESTED", "MATCHING", "DRIVER_ASSIGNED", "DRIVER_ARRIVING", "ARRIVED"}
      /\ SetStatus(r, to)
      /\ FreeDriver(driver_id[r])
  BY <1>1, CancelSources DEF Cancel, Serving, UpdateStatus, AfterOps
<1>3. /\ status' \in [Ride -> RideStatus \cup {Absent}]
      /\ driver_id' = driver_id
      /\ driver_status' \in [Driver -> DriverStatus]
      /\ DriverRecorded'
  BY <1>2, FreeDriverType
     DEF SetStatus, owners, RideStatus, Cancelled, DriverRecorded, Absent, assignedOrLater
<1>4. CASE driver_id[r] = None
  <2>1. Proceed(w, Idle) /\ UNCHANGED <<redisVars, ping, clashed>>
    BY <1>1, <1>4 DEF Cancel, Done, Proceed
  <2>2. /\ driver_status' = driver_status
        /\ \A d \in Driver, s \in Ride : RidesWith(s, d) => RidesWith(s, d)'
    BY <1>2, <1>3, <1>4, LedgerAssumption DEF FreeDriver, RidesWith, SetStatus
  <2> QED BY <1>2, <1>3, <2>1, <2>2, IdleType, NoWriteInv
<1>5. CASE driver_id[r] # None
  <2>1. PICK d \in Driver : d = driver_id[r]
    BY <1>5
  <2>2. PICK q \in AnyRequest : q = Op("release", d) /\ q.op = "release" /\ q.driver = d
    BY OpType DEF AfterOps
  <2>3. Then(w, q)
    BY <1>1, <1>5, <2>1, <2>2 DEF Cancel
  <2>4. /\ driver_status'[d] # "on_trip"
        /\ \A e \in Driver \ {d} : /\ driver_status'[e] = driver_status[e]
                                  /\ \A s \in Ride : RidesWith(s, e) => RidesWith(s, e)'
    BY <1>2, <1>3, <2>1 DEF FreeDriver, RidesWith, SetStatus
  <2>5. /\ WritersAreBacked' /\ MirrorsFollowRows'
        /\ PresenceTypeOK'
        /\ \A v \in Worker : proc'[v].op = "end" => proc'[v] = proc[v]
    BY <1>2, <2>2, <2>3, <2>4, CommitKeeps
  <2> QED BY <1>3, <2>5 DEF EndKnowsDriver
<1> QED BY <1>4, <1>5

LEMMA EndInv ==
  ASSUME PresenceInv, NEW w \in Worker, End(w)
  PROVE  PresenceInv'
<1> USE DEF PresenceInv
<1>1. PICK r \in Ride, d \in Driver : r = proc[w].ride /\ d = proc[w].driver
  BY AfterFields, RequestFields DEF End, Serving, PresenceTypeOK, AnyRequest
<1>2. /\ proc[w].op \notin AfterOps
      /\ driver_id[r] = d
      /\ status[r] = "IN_PROGRESS"
      /\ SetStatus(r, "COMPLETED")
      /\ FreeDriver(d)
  BY <1>1 DEF End, EndRows, Serving, UpdateStatus, AfterOps, EndKnowsDriver
<1>3. /\ status' \in [Ride -> RideStatus \cup {Absent}]
      /\ driver_id' = driver_id
      /\ driver_status' \in [Driver -> DriverStatus]
      /\ DriverRecorded'
  BY <1>2, FreeDriverType
     DEF SetStatus, owners, RideStatus, DriverRecorded, Absent, assignedOrLater
<1>4. PICK q \in AnyRequest : q = Op("release", d) /\ q.op = "release" /\ q.driver = d
  BY OpType DEF AfterOps
<1>5. Then(w, q)
  BY <1>1, <1>4 DEF End
<1>6. /\ driver_status'[d] # "on_trip"
      /\ \A e \in Driver \ {d} : /\ driver_status'[e] = driver_status[e]
                                /\ \A s \in Ride : RidesWith(s, e) => RidesWith(s, e)'
  BY <1>2, <1>3 DEF FreeDriver, RidesWith, SetStatus
<1>7. /\ WritersAreBacked' /\ MirrorsFollowRows'
      /\ PresenceTypeOK'
      /\ \A v \in Worker : proc'[v].op = "end" => proc'[v] = proc[v]
  BY <1>2, <1>4, <1>5, <1>6, CommitKeeps
<1> QED BY <1>3, <1>7 DEF EndKnowsDriver

LEMMA SetAvailabilityInv ==
  ASSUME PresenceInv, NEW w \in Worker, SetAvailability(w)
  PROVE  PresenceInv'
<1> USE DEF PresenceInv
<1>1. PICK d \in Driver, to \in {"offline", "available"} : d = proc[w].driver /\ to = proc[w].to
  BY AfterFields, RequestFields
     DEF SetAvailability, AvailabilityRows, Serving, PresenceTypeOK, AnyRequest
<1>2. /\ proc[w].op \notin AfterOps
      /\ driver_status' = [driver_status EXCEPT ![d] = to]
      /\ UNCHANGED <<status, driver_id>>
  BY <1>1 DEF SetAvailability, AvailabilityRows, Serving, AfterOps, owners
<1>3. PICK q \in AnyRequest :
        /\ q = Op(IF to = "available" THEN "forget" ELSE "offline", d)
        /\ q.op = IF to = "available" THEN "forget" ELSE "offline"
        /\ q.driver = d
  BY OpType DEF AfterOps
<1>4. Then(w, q)
  BY <1>1, <1>3 DEF SetAvailability
<1>5. \A e \in Driver \ {d} : /\ driver_status'[e] = driver_status[e]
                             /\ \A s \in Ride : RidesWith(s, e) => RidesWith(s, e)'
  BY <1>2 DEF RidesWith
<1>6. /\ WritersAreBacked' /\ MirrorsFollowRows'
      /\ PresenceTypeOK'
      /\ \A v \in Worker : proc'[v].op = "end" => proc'[v] = proc[v]
  BY <1>1, <1>2, <1>3, <1>4, <1>5, CommitKeeps
<1> QED BY <1>2, <1>6 DEF EndKnowsDriver, DriverRecorded, DriverStatus

(***************************************************************************)
(* The ledger's steps beside it.                                           *)
(***************************************************************************)

\* A status written among those of a ride under way moves no ride away.
LEMMA RideKeepsDriver ==
  ASSUME PresenceInv, NEW r \in Ride, NEW from \in OnRide, NEW to \in OnRide,
         UpdateStatus(r, {from}, to)
  PROVE  /\ status' \in [Ride -> RideStatus \cup {Absent}]
         /\ DriverRecorded'
         /\ \A d \in Driver, s \in Ride : RidesWith(s, d) => RidesWith(s, d)'
BY DEF PresenceInv, UpdateStatus, SetStatus, owners, OnRide, ActiveStatus, assignedOrLater,
       DriverRecorded, Absent, RideStatus, RidesWith

LEMMA RideMovesInv ==
  ASSUME PresenceInv, RideMoves
  PROVE  PresenceInv'
<1> USE DEF PresenceInv
<1>1. ASSUME NEW r \in Ride, Arriving(r) \/ Arrived(r) PROVE PresenceInv'
  <2>1. /\ UNCHANGED <<redisVars, ping, clashed, proc, driver_id, driver_status>>
        /\ status' \in [Ride -> RideStatus \cup {Absent}]
        /\ DriverRecorded'
        /\ \A d \in Driver, s \in Ride : RidesWith(s, d) => RidesWith(s, d)'
    BY <1>1, RideKeepsDriver
       DEF RideMoves, Arriving, Arrived, driverProgress, UpdateStatus, SetStatus, owners,
           OnRide, ActiveStatus, assignedOrLater
  <2>2. ASSUME NEW d \in Driver PROVE Kept(d)'
    <3>1. Writing(d)' = Writing(d) /\ \A v \in Writing(d) : proc'[v] = proc[v]
      BY <2>1 DEF Writing
    <3> QED BY <2>1, <3>1, KeptElsewhere DEF redisVars
  <2> QED BY <2>1, <2>2, KeptNext DEF redisVars, PresenceTypeOK, EndKnowsDriver
<1>2. ASSUME NEW w \in Worker, NEW q \in Request, Become(w, q), UNCHANGED ledgerVars,
             q.op = "end" => driver_id[q.ride] = q.driver
      PROVE  PresenceInv'
  <2>1. Proceed(w, q) /\ proc[w].op \notin AfterOps
    BY <1>2, IdleType DEF Become, Proceed
  <2>2. /\ UNCHANGED <<redisVars, ping, clashed, driver_id, driver_status, status>>
        /\ DriverRecorded'
        /\ \A d \in Driver, r \in Ride : RidesWith(r, d) => RidesWith(r, d)'
    BY <1>2 DEF RideMoves, ledgerVars, DriverRecorded, RidesWith
  <2> QED BY <1>2, <2>1, <2>2, NoWriteInv
<1>3. ASSUME NEW w \in Worker, NEW r \in Ride,
             \/ \E to \in Cancelled : CancelRead(w, r, to)
             \/ StartRead(w, r)
             \/ EndRead(w, r)
      PROVE  PresenceInv'
  <2>1. ASSUME NEW to \in Cancelled, CancelRead(w, r, to) PROVE PresenceInv'
    <3>0. [op |-> "cancel", ride |-> r, to |-> to, seen |-> driver_id[r]] \in Request
      BY DEF Request
    <3>1. PICK q \in Request : q = [op |-> "cancel", ride |-> r, to |-> to, seen |-> driver_id[r]]
      BY <3>0
    <3> QED BY <1>2, <2>1, <3>1 DEF CancelRead
  <2>2. ASSUME StartRead(w, r) PROVE PresenceInv'
    <3>0. [op |-> "start", ride |-> r] \in Request
      BY DEF Request
    <3>1. PICK q \in Request : q = [op |-> "start", ride |-> r]
      BY <3>0
    <3> QED BY <1>2, <2>2, <3>1 DEF StartRead
  <2>3. ASSUME EndRead(w, r) PROVE PresenceInv'
    <3>1. PICK q \in Request : /\ q = [op |-> "end", ride |-> r, driver |-> driver_id[r]]
                               /\ q.ride = r /\ q.driver = driver_id[r]
      BY <2>3 DEF Request, EndRead
    <3> QED BY <1>2, <2>3, <3>1 DEF EndRead
  <2> QED BY <1>3, <2>1, <2>2, <2>3
<1>4. ASSUME NEW w \in Worker, NEW d \in Driver, NEW to \in {"offline", "available"},
             ToggleSnapshot(w, d, to)
      PROVE  PresenceInv'
  <2>1. PICK busy \in BOOLEAN : busy = DriverActive(d)
    BY DEF DriverActive
  <2>0. [op |-> "toggle", driver |-> d, to |-> to, seen |-> driver_status[d], busy |-> busy]
          \in Request
    BY DEF Request
  <2>2. PICK q \in Request : q = [op |-> "toggle", driver |-> d, to |-> to,
                                 seen |-> driver_status[d], busy |-> busy]
    BY <2>0
  <2>3. Become(w, [op |-> "toggle", driver |-> d, to |-> to,
                   seen |-> driver_status[d], busy |-> busy])
    BY <1>4, <2>1, Zenon DEF ToggleSnapshot, Become
  <2> QED BY <1>2, <1>4, <2>2, <2>3 DEF ToggleSnapshot
<1>5. ASSUME NEW w \in Worker, StartTx(w) PROVE PresenceInv'
  <2>1. PICK r \in Ride : r = proc[w].ride
    BY <1>5, AfterFields, RequestFields DEF StartTx, Serving, PresenceTypeOK, AnyRequest
  <2>2. UpdateStatus(r, {"ARRIVED"}, "IN_PROGRESS")
    BY <1>5, <2>1 DEF StartTx
  <2>3. /\ status' \in [Ride -> RideStatus \cup {Absent}]
        /\ DriverRecorded'
        /\ \A d \in Driver, s \in Ride : RidesWith(s, d) => RidesWith(s, d)'
    BY <2>2, RideKeepsDriver DEF OnRide, ActiveStatus, assignedOrLater
  <2>4. /\ Proceed(w, Idle) /\ proc[w].op \notin AfterOps
        /\ UNCHANGED <<redisVars, ping, clashed, driver_id, driver_status>>
    BY <1>5, <2>2
       DEF RideMoves, StartTx, Done, Proceed, Serving, AfterOps, UpdateStatus, SetStatus, owners
  <2> QED BY <2>3, <2>4, IdleType, NoWriteInv
<1> QED BY <1>1, <1>3, <1>4, <1>5 DEF RideMoves

(***************************************************************************)
(* The writes of Redis.                                                    *)
(***************************************************************************)

\* A later write of a request: what it leaves is backed by the rows and keys, or
\* the driver's mirror follows his row.
LEMMA RedisKeeps ==
  ASSUME PresenceInv, NEW w \in Worker, NEW d \in Driver, NEW q \in AnyRequest,
         proc[w].op \in AfterOps, proc[w].driver = d, Proceed(w, q),
         q.op \in AfterOps \cup {"idle"}, q.op \in AfterOps => q.driver = d,
         UNCHANGED <<ledgerVars, ping, clashed>>,
         mirror' \in [Driver -> DriverStatus \cup {None}],
         ride_key' \in [Driver -> Ride \cup {None}],
         last' \subseteq Driver, geo' \subseteq Driver,
         \A e \in Driver \ {d} : mirror'[e] = mirror[e] /\ ride_key'[e] = ride_key[e],
         Backed(w) /\ proc'[w] = q => IF q.op \in AfterOps THEN Backed(w)'
                                                           ELSE MirrorFollowsRow(d)'
  PROVE  PresenceInv'
<1>1. proc \in [Worker -> AnyRequest] /\ (q.op \in AfterOps => q.driver = d)
  BY DEF AnyRequest, PresenceInv, PresenceTypeOK
<1>2. /\ proc' \in [Worker -> AnyRequest]
      /\ proc'[w] = q
      /\ Writing(d)' = IF q.op \in AfterOps THEN Writing(d) ELSE Writing(d) \ {w}
      /\ w \in Writing(d)
      /\ \A e \in Driver \ {d} : Writing(e)' = Writing(e)
                                /\ \A v \in Writing(e) : proc'[v] = proc[v]
  BY <1>1, GoOn
<1> USE DEF PresenceInv, PresenceTypeOK
<1>3. ASSUME NEW e \in Driver \ {d} PROVE Kept(e)'
  BY <1>2, <1>3, KeptElsewhere DEF ledgerVars, RidesWith
<1>4. Kept(d)'
  BY <1>2 DEF Kept, WritersAreBacked
<1>5. EndKnowsDriver'
  BY <1>1 DEF EndKnowsDriver, Proceed, AfterOps, ledgerVars
<1> QED BY <1>2, <1>3, <1>4, <1>5, KeptNext DEF ledgerVars, DriverRecorded, AnyRequest

LEMMA RedisStepInv ==
  ASSUME PresenceInv, NEW w \in Worker, RedisStep(w)
  PROVE  PresenceInv'
<1>0. PICK d \in Driver : proc[w].op \in AfterOps /\ proc[w].driver = d
  <2>1. proc[w].op \in AfterOps
    BY DEF RedisStep, MarkOnTrip, ReleaseRead, Release, ForgetRide, writeMirror, Locate, GeoAdd,
           goOffline, Serving, AfterOps
  <2> QED BY <2>1, AfterFields DEF PresenceInv, PresenceTypeOK, AnyRequest
<1>a. /\ driver_status[d] \in DriverStatus
      /\ mirror \in [Driver -> DriverStatus \cup {None}]
      /\ ride_key \in [Driver -> Ride \cup {None}]
      /\ last \subseteq Driver /\ geo \subseteq Driver
      /\ proc[w].op = "mark" => proc[w].ride \in Ride
      /\ proc[w].op = "restore" => proc[w].read \in DriverStatus
  BY AfterFields DEF PresenceInv, PresenceTypeOK, AnyRequest
<1>1. CASE MarkOnTrip(w)
  <2>1. Proceed(w, Idle)
    BY <1>1 DEF MarkOnTrip, Done, Proceed
  <2>2. Backed(w) => MirrorFollowsRow(d)'
    BY <1>0, <1>1, <1>a, LedgerAssumption
       DEF MarkOnTrip, Serving, Backed, MirrorFollowsRow, RidesWith, ledgerVars
  <2> QED BY <1>0, <1>1, <1>a, <2>1, <2>2, IdleType, RedisKeeps
          DEF MarkOnTrip, Serving, DriverStatus
<1>2. CASE ReleaseRead(w)
  <2>0. [op |-> "restore", driver |-> d, read |-> driver_status[d]] \in AnyRequest
    BY <1>a DEF AnyRequest, AfterCommit
  <2>1. PICK q \in AnyRequest : q = [op |-> "restore", driver |-> d, read |-> driver_status[d]]
    BY <2>0
  <2>2. Proceed(w, q) /\ UNCHANGED <<ledgerVars, redisVars, ping, clashed>>
    BY <1>0, <1>2, <2>1 DEF ReleaseRead
  <2>3. Backed(w) /\ proc'[w] = q => Backed(w)'
    BY <1>0, <1>2, <2>1, <2>2 DEF ReleaseRead, Serving, Backed, ledgerVars
  <2> QED BY <1>0, <1>a, <2>1, <2>2, <2>3, RedisKeeps DEF AfterOps, redisVars
<1>3. CASE Release(w)
  <2>1. PICK q \in AnyRequest :
          /\ q = IF proc[w].read = "available" /\ d \in last THEN Op("pool", d) ELSE Idle
          /\ q.op \in {"pool", "idle"}
          /\ q.op = "pool" => q.driver = d
    BY IdleType, OpType DEF AfterOps
  <2>2. Proceed(w, q)
    BY <1>0, <1>3, <2>1 DEF Release, Done, Proceed
  <2>3. Backed(w) /\ proc'[w] = q =>
          IF q.op \in AfterOps THEN Backed(w)' ELSE MirrorFollowsRow(d)'
    BY <1>0, <1>3, <1>a, <2>1
       DEF Release, Serving, Backed, MirrorFollowsRow, ledgerVars, AfterOps
  <2> QED BY <1>0, <1>3, <1>a, <2>1, <2>2, <2>3, RedisKeeps DEF Release, Serving, AfterOps
<1>4. CASE ForgetRide(w)
  <2>1. PICK q \in AnyRequest : q = Op("announce", d) /\ q.op = "announce" /\ q.driver = d
    BY OpType DEF AfterOps
  <2>2. Proceed(w, q)
    BY <1>0, <1>4, <2>1 DEF ForgetRide
  <2>3. Backed(w) /\ proc'[w] = q => Backed(w)'
    BY <1>0, <1>4, <1>a, <2>1 DEF ForgetRide, Serving, Backed, ledgerVars
  <2> QED BY <1>0, <1>4, <1>a, <2>1, <2>2, <2>3, RedisKeeps DEF ForgetRide, AfterOps
<1>5. CASE writeMirror(w)
  <2>1. PICK q \in AnyRequest : q = Op("locate", d) /\ q.op = "locate" /\ q.driver = d
    BY OpType DEF AfterOps
  <2>2. Proceed(w, q)
    BY <1>0, <1>5, <2>1 DEF writeMirror
  <2>3. Backed(w) /\ proc'[w] = q => Backed(w)'
    BY <1>0, <1>5, <1>a, <2>1 DEF writeMirror, Serving, Backed, ledgerVars
  <2> QED BY <1>0, <1>5, <1>a, <2>1, <2>2, <2>3, RedisKeeps
          DEF writeMirror, AfterOps, DriverStatus
<1>6. CASE Locate(w)
  <2>1. PICK q \in AnyRequest :
          /\ q = IF d \in last THEN Op("pool", d) ELSE Idle
          /\ q.op \in {"pool", "idle"}
          /\ q.op = "pool" => q.driver = d
    BY IdleType, OpType DEF AfterOps
  <2>2. Proceed(w, q) /\ UNCHANGED <<ledgerVars, redisVars, ping, clashed>>
    BY <1>0, <1>6, <2>1 DEF Locate, Done, Proceed
  <2>3. Backed(w) /\ proc'[w] = q =>
          IF q.op \in AfterOps THEN Backed(w)' ELSE MirrorFollowsRow(d)'
    BY <1>0, <1>6, <2>1, <2>2
       DEF Locate, Serving, Backed, MirrorFollowsRow, ledgerVars, redisVars, AfterOps
  <2> QED BY <1>0, <1>a, <2>1, <2>2, <2>3, RedisKeeps DEF AfterOps, redisVars
<1>7. CASE GeoAdd(w)
  <2>1. Proceed(w, Idle)
    BY <1>7 DEF GeoAdd, Done, Proceed
  <2>2. Backed(w) => MirrorFollowsRow(d)'
    BY <1>0, <1>7, <1>a DEF GeoAdd, Serving, Backed, MirrorFollowsRow, ledgerVars
  <2> QED BY <1>0, <1>7, <1>a, <2>1, <2>2, IdleType, RedisKeeps DEF GeoAdd, Serving
<1>8. CASE goOffline(w)
  <2>1. Proceed(w, Idle)
    BY <1>8 DEF goOffline, Done, Proceed
  <2>2. Backed(w) => MirrorFollowsRow(d)'
    BY <1>0, <1>8, <1>a DEF goOffline, Serving, Backed, MirrorFollowsRow, ledgerVars
  <2> QED BY <1>0, <1>8, <1>a, <2>1, <2>2, IdleType, RedisKeeps
          DEF goOffline, Serving, DriverStatus
<1> QED BY <1>1, <1>2, <1>3, <1>4, <1>5, <1>6, <1>7, <1>8 DEF RedisStep

(***************************************************************************)
(* A request cut short, pings, expiry and a flush.                         *)
(***************************************************************************)

\* Whoever ends early or fails on the way takes his driver out of account.
LEMMA ClashKeeps ==
  ASSUME PresenceInv, NEW w \in Worker, NEW d \in Driver, NEW q \in AnyRequest,
         proc[w].op \in AfterOps, proc[w].driver = d, Proceed(w, q),
         q.op \in AfterOps \cup {"idle"}, q.op \in AfterOps => q.driver = d,
         clashed' = clashed \cup {d}, UNCHANGED <<ledgerVars, redisVars, ping>>
  PROVE  PresenceInv'
<1> USE DEF PresenceInv, PresenceTypeOK
<1>1. /\ proc' \in [Worker -> AnyRequest]
      /\ \A e \in Driver \ {d} : Writing(e)' = Writing(e)
                                /\ \A v \in Writing(e) : proc'[v] = proc[v]
  <2>1. proc \in [Worker -> AnyRequest]
    BY DEF AnyRequest
  <2> QED BY <2>1, GoOn
<1>2. ASSUME NEW e \in Driver PROVE Kept(e)'
  <2>1. CASE e = d
    BY <2>1 DEF Kept
  <2>2. CASE e # d
    BY <1>1, <2>2, KeptElsewhere DEF ledgerVars, redisVars, RidesWith
  <2> QED BY <2>1, <2>2
<1>3. EndKnowsDriver'
  BY DEF EndKnowsDriver, Proceed, AfterOps, ledgerVars
<1> QED BY <1>1, <1>2, <1>3, KeptNext DEF ledgerVars, redisVars, DriverRecorded, AnyRequest

LEMMA ForgetFailsInv ==
  ASSUME PresenceInv, NEW w \in Worker, ForgetFails(w)
  PROVE  PresenceInv'
<1>1. PICK d \in Driver : proc[w].op \in AfterOps /\ proc[w].driver = d
  BY AfterFields DEF ForgetFails, Serving, AfterOps, PresenceInv, PresenceTypeOK, AnyRequest
<1>2. PICK q \in AnyRequest : q = Op("announce", d) /\ q.op = "announce" /\ q.driver = d
  BY OpType DEF AfterOps
<1> QED BY <1>1, <1>2, ClashKeeps DEF ForgetFails, AfterOps

LEMMA CutShortInv ==
  ASSUME PresenceInv, NEW w \in Worker, CutShort(w)
  PROVE  PresenceInv'
<1> USE DEF PresenceInv, PresenceTypeOK
<1>1. CASE proc[w].op \notin AfterOps
  <2>1. Proceed(w, Idle) /\ UNCHANGED <<ledgerVars, redisVars, ping, clashed>>
    BY <1>1 DEF CutShort, Done, Proceed
  <2>2. DriverRecorded' /\ \A d \in Driver, r \in Ride : RidesWith(r, d) => RidesWith(r, d)'
    BY <2>1 DEF DriverRecorded, RidesWith, ledgerVars
  <2> QED BY <1>1, <2>1, <2>2, IdleType, NoWriteInv DEF ledgerVars
<1>2. CASE proc[w].op \in AfterOps
  <2>1. PICK d \in Driver : proc[w].driver = d
    BY <1>2, AfterFields DEF AnyRequest
  <2>2. /\ Proceed(w, Idle)
        /\ clashed' = clashed \cup {d}
        /\ UNCHANGED <<ledgerVars, redisVars, ping>>
    BY <1>2, <2>1 DEF CutShort, Done, Proceed
  <2> QED BY <1>2, <2>1, <2>2, IdleType, ClashKeeps
<1> QED BY <1>1, <1>2

\* Pings and expiry touch neither the mirror nor the marker.
LEMMA PingInv ==
  ASSUME PresenceInv, NEW d \in Driver, PingRead(d) \/ PingWrite(d) \/ LastLapses(d)
  PROVE  PresenceInv'
<1>1. UNCHANGED <<vars, mirror, ride_key, clashed>>
  BY DEF PingRead, PingWrite, LastLapses, redisVars
<1>2. PresenceTypeOK'
  BY <1>1 DEF PresenceInv, PresenceTypeOK, PingRead, PingWrite, LastLapses, vars, redisVars
<1> QED BY <1>1, <1>2
        DEF PresenceInv, vars, DriverRecorded, EndKnowsDriver, WritersAreBacked, Writing,
            MirrorsFollowRows, Settled, MirrorFollowsRow, RidesWith, Backed

LEMMA FlushInv ==
  ASSUME PresenceInv, Flush
  PROVE  PresenceInv'
BY DEF Flush, PresenceInv, PresenceTypeOK, vars, DriverRecorded, EndKnowsDriver,
       WritersAreBacked, MirrorsFollowRows, Settled

LEMMA PresenceStepInv == PresenceInv /\ [PresenceNext]_presenceVars => PresenceInv'
<1> SUFFICES ASSUME PresenceInv, [PresenceNext]_presenceVars PROVE PresenceInv'
  OBVIOUS
<1>1. CASE UNCHANGED presenceVars
  BY <1>1 DEF presenceVars, redisVars, vars, PresenceInv, PresenceTypeOK, DriverRecorded,
              EndKnowsDriver, WritersAreBacked, Writing, MirrorsFollowRows, Settled,
              MirrorFollowsRow, RidesWith, Backed
<1> QED BY <1>1, RideMovesInv, AssignInv, CancelInv, EndInv, SetAvailabilityInv, RedisStepInv,
           ForgetFailsInv, CutShortInv, PingInv, FlushInv
        DEF PresenceNext, RowStep

\* The inductive invariant holds in every reachable state.
THEOREM PresenceInvariance == PresenceSpec => []PresenceInv
BY PresenceInitInv, PresenceStepInv, PTL DEF PresenceSpec

\* Mirrors, markers, pings and the requests after their commits keep their types.
THEOREM PresenceTypes == PresenceSpec => []PresenceTypeOK
<1>1. PresenceInv => PresenceTypeOK
  BY DEF PresenceInv
<1> QED BY <1>1, PresenceInvariance, PTL

\* However many requests, pings, expiries, crashes and flushes there are: once
\* the last request for a driver has run alone to its end, the mirror of that
\* driver is his row and his marker names the ride he is on.
THEOREM SettledMirrorsFollowRows == PresenceSpec => []MirrorsFollowRows
<1>1. PresenceInv => MirrorsFollowRows
  BY DEF PresenceInv
<1> QED BY <1>1, PresenceInvariance, PTL
=============================================================================
