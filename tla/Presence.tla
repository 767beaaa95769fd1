------------------------------ MODULE Presence ------------------------------
(***************************************************************************)
(* What Redis knows about a driver: the mirror of his drivers row, the     *)
(* ride he is on, his last position and his place in the city's geo set,   *)
(* kept by every request that changes his row, on top of RideLedger.       *)
(*                                                                         *)
(* A request commits its rows and then writes Redis; each command or       *)
(* pipeline is one step, so two requests for one driver, his location      *)
(* pings, expiry, crashes and a flush of Redis fall between any two.       *)
(* Tier, city and coordinates never differ between these writes and are    *)
(* left out.  The offer keys of going offline are in Matching, the metered *)
(* distance of a ping in Trips.                                            *)
(***************************************************************************)
EXTENDS RideLedger

CONSTANTS MaxFlushes,  \* bound on flushes of Redis
          CutsShort    \* whether a request may fail between its commit and its last write

ASSUME PresenceAssumption == MaxFlushes \in Nat /\ CutsShort \in BOOLEAN

VARIABLES
  mirror,     \* Driver -> driver:status, no expiry; None when missing
  ride_key,   \* Driver -> driver:ride, no expiry
  last,       \* drivers with a driver:last key (30s)
  geo,        \* members of geo:drivers, which leave by ZREM only
  ping,       \* Driver -> what his location ping in flight read of the mirror
  clashed,    \* drivers whose last requests overlapped or were cut short (history)
  flushes

redisVars    == <<mirror, ride_key, last, geo>>
presenceVars == <<vars, redisVars, ping, clashed, flushes>>

NoPing == "no ping"

\* What a request still has to do for its driver once its rows are committed.
AfterCommit ==
  [op : {"mark"}, ride : Ride, driver : Driver]
    \cup [op : {"release", "offline", "forget", "announce", "locate", "pool"}, driver : Driver]
    \cup [op : {"restore"}, driver : Driver, read : DriverStatus]

PresenceTypeOK ==
  /\ proc \in [Worker -> Request \cup AfterCommit]
  /\ mirror \in [Driver -> DriverStatus \cup {None}]
  /\ ride_key \in [Driver -> Ride \cup {None}]
  /\ last \subseteq Driver /\ geo \subseteq Driver
  /\ ping \in [Driver -> DriverStatus \cup {None, NoPing}]

AfterOps == {"mark", "release", "offline", "forget", "announce", "locate", "pool", "restore"}

\* The requests that have not finished writing Redis for d.
Writing(d) == {w \in Worker : proc[w].op \in AfterOps /\ proc[w].driver = d}

\* The commit of worker w goes on to write Redis for d.
Then(w, request) ==
  /\ proc' = [proc EXCEPT ![w] = request]
  /\ clashed' = IF Writing(request.driver) = {}
                THEN clashed \ {request.driver} ELSE clashed \cup {request.driver}
  /\ UNCHANGED <<redisVars, ping, flushes>>

\* A later step of the same request.
Proceed(w, request) == proc' = [proc EXCEPT ![w] = request]

Op(name, d) == [op |-> name, driver |-> d]

(***************************************************************************)
(* The commits that change a drivers row, and what they go on to do.       *)
(***************************************************************************)

\* matching.Accept goes on to MarkOnTrip.
Assign(w, r, d) ==
  /\ proc[w] = Idle
  /\ AssignRows(r, d)
  /\ Then(w, [op |-> "mark", ride |-> r, driver |-> d])

\* The hook OnDriverReleased fires for the driver read under the row lock.
Cancel(w) ==
  /\ Serving(w, "cancel")
  /\ UpdateStatus(proc[w].ride, sourcesFor(proc[w].to), proc[w].to)
  /\ FreeDriver(driver_id[proc[w].ride])
  /\ IF driver_id[proc[w].ride] = None
     THEN Done(w) /\ UNCHANGED <<redisVars, ping, clashed, flushes>>
     ELSE Then(w, Op("release", driver_id[proc[w].ride]))
  /\ UNCHANGED <<trip_status, payments>>

End(w) ==
  /\ Serving(w, "end")
  /\ EndRows(proc[w].ride)
  /\ FreeDriver(proc[w].driver)
  /\ payments' = [payments EXCEPT ![proc[w].ride] = @ + 1]
  /\ Then(w, Op("release", proc[w].driver))

SetAvailability(w) ==
  /\ AvailabilityRows(w)
  /\ Then(w, Op(IF proc[w].to = "available" THEN "forget" ELSE "offline", proc[w].driver))

(***************************************************************************)
(* drivers.Service: the writes after the commit.                           *)
(***************************************************************************)

\* Mutant: the marker of the ride is forgotten.
MarkOnTrip_NoRide(w) ==
  /\ Serving(w, "mark")
  /\ geo' = geo \ {proc[w].driver}
  /\ mirror' = [mirror EXCEPT ![proc[w].driver] = "on_trip"]
  /\ Done(w)
  /\ UNCHANGED <<ledgerVars, ride_key, last, ping, clashed, flushes>>

MarkOnTrip(w) ==
  /\ Serving(w, "mark")
  /\ geo' = geo \ {proc[w].driver}
  /\ ride_key' = [ride_key EXCEPT ![proc[w].driver] = proc[w].ride]
  /\ mirror' = [mirror EXCEPT ![proc[w].driver] = "on_trip"]
  /\ Done(w)
  /\ UNCHANGED <<ledgerVars, last, ping, clashed, flushes>>

\* Mutant: reads the mirror instead of the row.
ReleaseRead_Mirror(w) ==
  /\ Serving(w, "release")
  /\ Proceed(w, [op |-> "restore", driver |-> proc[w].driver,
                 read |-> mirror[proc[w].driver]])
  /\ UNCHANGED <<ledgerVars, redisVars, ping, clashed, flushes>>

ReleaseRead(w) ==
  /\ Serving(w, "release")
  /\ Proceed(w, [op |-> "restore", driver |-> proc[w].driver,
                 read |-> driver_status[proc[w].driver]])
  /\ UNCHANGED <<ledgerVars, redisVars, ping, clashed, flushes>>

\* One pipeline: DEL driver:ride, SET driver:status, GET driver:last.
Release(w) ==
  LET d == proc[w].driver IN
  /\ Serving(w, "restore")
  /\ ride_key' = [ride_key EXCEPT ![d] = None]
  /\ mirror' = [mirror EXCEPT ![d] = proc[w].read]
  /\ IF proc[w].read = "available" /\ d \in last THEN Proceed(w, Op("pool", d)) ELSE Done(w)
  /\ UNCHANGED <<ledgerVars, last, geo, ping, clashed, flushes>>

\* goAvailable: DEL driver:ride, SET driver:status, GET driver:last, GEOADD.
ForgetRide(w) ==
  /\ Serving(w, "forget")
  /\ ride_key' = [ride_key EXCEPT ![proc[w].driver] = None]
  /\ Proceed(w, Op("announce", proc[w].driver))
  /\ UNCHANGED <<ledgerVars, mirror, last, geo, ping, clashed, flushes>>

writeMirror(w) ==
  /\ Serving(w, "announce")
  /\ mirror' = [mirror EXCEPT ![proc[w].driver] = "available"]
  /\ Proceed(w, Op("locate", proc[w].driver))
  /\ UNCHANGED <<ledgerVars, ride_key, last, geo, ping, clashed, flushes>>

Locate(w) ==
  /\ Serving(w, "locate")
  /\ IF proc[w].driver \in last THEN Proceed(w, Op("pool", proc[w].driver)) ELSE Done(w)
  /\ UNCHANGED <<ledgerVars, redisVars, ping, clashed, flushes>>

GeoAdd(w) ==
  /\ Serving(w, "pool")
  /\ geo' = geo \cup {proc[w].driver}
  /\ Done(w)
  /\ UNCHANGED <<ledgerVars, mirror, ride_key, last, ping, clashed, flushes>>

goOffline(w) ==
  /\ Serving(w, "offline")
  /\ geo' = geo \ {proc[w].driver}
  /\ ride_key' = [ride_key EXCEPT ![proc[w].driver] = None]
  /\ mirror' = [mirror EXCEPT ![proc[w].driver] = "offline"]
  /\ Done(w)
  /\ UNCHANGED <<ledgerVars, last, ping, clashed, flushes>>

(***************************************************************************)
(* drivers.UpdateLocation: two pipelines and no Postgres.                  *)
(***************************************************************************)

PingRead(d) ==
  /\ ping[d] = NoPing
  /\ ping' = [ping EXCEPT ![d] = mirror[d]]
  /\ UNCHANGED <<vars, redisVars, clashed, flushes>>

\* Mutant: a ping never adds the driver to the geo set.
PingWrite_NoGeo(d) ==
  /\ ping[d] # NoPing
  /\ last' = last \cup {d}
  /\ ping' = [ping EXCEPT ![d] = NoPing]
  /\ UNCHANGED <<vars, mirror, ride_key, geo, clashed, flushes>>

PingWrite(d) ==
  /\ ping[d] # NoPing
  /\ last' = last \cup {d}
  /\ geo' = IF ping[d] = "available" THEN geo \cup {d} ELSE geo
  /\ ping' = [ping EXCEPT ![d] = NoPing]
  /\ UNCHANGED <<vars, mirror, ride_key, clashed, flushes>>

(***************************************************************************)
(* Time, failure, and the ledger beside it.                                *)
(***************************************************************************)

\* Thirty seconds without a ping.
LastLapses(d) ==
  /\ d \in last
  /\ last' = last \ {d}
  /\ UNCHANGED <<vars, mirror, ride_key, geo, ping, clashed, flushes>>

\* The request ends early; Redis may be left as the previous request wrote it.
CutShort(w) ==
  /\ proc[w] # Idle
  /\ proc[w].op \in AfterOps => CutsShort
  /\ Done(w)
  /\ clashed' = IF proc[w].op \in AfterOps THEN clashed \cup {proc[w].driver} ELSE clashed
  /\ UNCHANGED <<ledgerVars, redisVars, ping, flushes>>

\* goAvailable: a DEL of driver:ride that fails is only logged.
ForgetFails(w) ==
  /\ Serving(w, "forget")
  /\ CutsShort
  /\ Proceed(w, Op("announce", proc[w].driver))
  /\ clashed' = clashed \cup {proc[w].driver}
  /\ UNCHANGED <<ledgerVars, redisVars, ping, flushes>>

\* The mirrors, markers, positions and the geo set are gone.
Flush ==
  /\ flushes < MaxFlushes
  /\ mirror' = [d \in Driver |-> None]
  /\ ride_key' = [d \in Driver |-> None]
  /\ last' = {}
  /\ geo' = {}
  /\ clashed' = Driver
  /\ flushes' = flushes + 1
  /\ UNCHANGED <<vars, ping>>

\* The rides find themselves in MATCHING; a driver has gone online or offline
\* before.
PresenceInit ==
  /\ status = [r \in Ride |-> "MATCHING"]
  /\ rider_id \in [Ride -> Rider] /\ RiderHasOneRide
  /\ driver_id = [r \in Ride |-> None]
  /\ driver_status \in [Driver -> {"offline", "available"}]
  /\ trip_status = [r \in Ride |-> Absent]
  /\ payments = [r \in Ride |-> 0]
  /\ proc = [w \in Worker |-> Idle]
  /\ mirror = driver_status
  /\ ride_key = [d \in Driver |-> None]
  /\ last \in {{}, {d \in Driver : driver_status[d] = "available"}}
  /\ geo = last
  /\ ping = [d \in Driver |-> NoPing]
  /\ clashed = {}
  /\ flushes = 0

\* The ledger's steps that change no drivers row.
RideMoves ==
  /\ \/ \E r \in Ride : Arriving(r) \/ Arrived(r)
     \/ \E w \in Worker :
          \/ \E r \in Ride :
               \/ \E to \in Cancelled : CancelRead(w, r, to)
               \/ StartRead(w, r)
               \/ EndRead(w, r)
          \/ \E d \in Driver, to \in {"offline", "available"} : ToggleSnapshot(w, d, to)
          \/ StartTx(w)
  /\ UNCHANGED <<redisVars, ping, clashed, flushes>>

RowStep(w) ==
  \/ Cancel(w) \/ End(w) \/ SetAvailability(w)
  \/ \E r \in Ride, d \in Driver : Assign(w, r, d)

RedisStep(w) ==
  \/ MarkOnTrip(w) \/ ReleaseRead(w) \/ Release(w)
  \/ ForgetRide(w) \/ writeMirror(w) \/ Locate(w) \/ GeoAdd(w)
  \/ goOffline(w)

PresenceNext ==
  \/ RideMoves
  \/ \E w \in Worker : RowStep(w) \/ RedisStep(w) \/ ForgetFails(w) \/ CutShort(w)
  \/ \E d \in Driver : PingRead(d) \/ PingWrite(d) \/ LastLapses(d)
  \/ Flush

PresenceSpec == PresenceInit /\ [][PresenceNext]_presenceVars

\* A request that is running goes on; a driver's app keeps sending pings.
PresenceFairness ==
  /\ \A w \in Worker : WF_presenceVars(RedisStep(w))
  /\ \A d \in Driver : WF_presenceVars(PingRead(d)) /\ WF_presenceVars(PingWrite(d))

FairPresenceSpec == PresenceSpec /\ PresenceFairness

(***************************************************************************)
(* Properties.                                                             *)
(***************************************************************************)

\* No request for d is at work, and the last one ran alone and to its end.
Settled(d) == Writing(d) = {} /\ d \notin clashed

\* The statuses of a ride its driver is on.
OnRide == ActiveStatus \cap assignedOrLater

RidesWith(r, d) == driver_id[r] = d /\ status[r] \in OnRide

\* The Redis mirrors follow the rows: once the last request for a driver has
\* run alone to its end, his mirror is his row and driver:ride is his active
\* ride, whatever overlapped, crashed or was flushed before it, and however
\* pings and expiry fall between its steps.
MirrorFollowsRow(d) ==
  /\ mirror[d] = driver_status[d]
  /\ IF driver_status[d] = "on_trip"
     THEN ride_key[d] # None /\ RidesWith(ride_key[d], d)
     ELSE ride_key[d] = None

MirrorsFollowRows == \A d \in Driver : Settled(d) => MirrorFollowsRow(d)

\* What findCandidates asks of a driver.
Findable(d) == d \in geo /\ mirror[d] = "available" /\ d \in last

\* A driver who is available and keeps sending his position comes to be found
\* by the candidate search: after his ride, after a flush of Redis and a new
\* go-available, when a ping read the mirror before he went online.  Only
\* requests that overlap, or one cut short, can keep him out.
AvailableIsFound ==
  \A d \in Driver :
    driver_status[d] = "available" /\ d \notin clashed
      ~> Findable(d) \/ driver_status[d] # "available" \/ d \in clashed

\* Release re-adds a driver to the available pool after his ride ends or is
\* cancelled: when the requests for him have all run to their end, an
\* available driver is not still mirrored as on_trip.
ReleasedIsNotBusy ==
  \A d \in Driver :
    Writing(d) = {} /\ driver_status[d] = "available" => mirror[d] # "on_trip"

(***************************************************************************)
(* The inductive invariant.                                                *)
(***************************************************************************)

\* What the rows and the keys already written say to a request that has still
\* to write for its driver.
Backed(w) ==
  LET d == proc[w].driver
      op == proc[w].op
  IN
    /\ op = "mark" => driver_status[d] = "on_trip" /\ RidesWith(proc[w].ride, d)
    /\ op \in {"release", "restore", "pool"} => driver_status[d] # "on_trip"
    /\ op = "restore" => proc[w].read = driver_status[d]
    /\ op = "offline" => driver_status[d] = "offline"
    /\ op \in {"forget", "announce", "locate"} => driver_status[d] = "available"
    /\ op \in {"announce", "locate", "pool"} => ride_key[d] = None
    /\ op \in {"locate", "pool"} => mirror[d] = driver_status[d]

\* Where nothing overlapped, one request writes and the rows are as it left them.
WritersAreBacked ==
  \A d \in Driver \ clashed : \A v, w \in Writing(d) : v = w /\ Backed(w)

PresenceInv ==
  /\ PresenceTypeOK
  /\ status \in [Ride -> RideStatus \cup {Absent}]
  /\ driver_id \in [Ride -> Driver \cup {None}]
  /\ driver_status \in [Driver -> DriverStatus]
  /\ DriverRecorded
  /\ EndKnowsDriver
  /\ WritersAreBacked
  /\ MirrorsFollowRows
=============================================================================
