-------------------------------- MODULE Trips --------------------------------
(***************************************************************************)
(* The trip from the waiting car to the bill, on top of RideLedger: the    *)
(* OTP, the metered distance and the pauses kept in Redis, and the fare.   *)
(*                                                                         *)
(* Each read, Redis command and transaction of Start, Pause, Resume and    *)
(* End is a step of the request; the driver's pings meter the distance     *)
(* beside them.  A Redis command that fails is only logged: the request    *)
(* carries on without its result.  Requests are short and trips long: the  *)
(* clock only moves while no request is in flight, and the two hours the   *)
(* two Redis keys live are not reached.  Who may call was checked before   *)
(* (RideLedger), cancellation is left to RideLedger, and the driver        *)
(* carries the marker of his ride (Presence) until its trip has ended.     *)
(***************************************************************************)
EXTENDS RideLedger, Fares

CONSTANTS
  Rates, Quote,   \* the rates of the tier; the quote: distance, duration, surge, fare
  Second,         \* seconds from one tick of the clock to the next
  Delta,          \* metres from one ping to the next
  MaxTime, MaxMetres, MaxCodes    \* bounds on the clock, on the way, on OTPs

ASSUME TripsAssumption ==
  /\ Second \in Nat \ {0} /\ Delta \in Nat \ {0}
  /\ MaxTime \in Nat /\ MaxMetres \in Nat /\ MaxCodes \in Nat \ {0}
  /\ None \notin 0 .. MaxTime
  /\ Rates \in RatesType
  /\ Quote.distance \in Nat /\ Quote.duration \in Nat /\ Quote.surge \in SurgeX100
  /\ Quote.fare \in Fare(Rates, Quote.distance, Quote.duration, Quote.surge)

VARIABLES
  otp_hash,    \* Ride -> the OTP whose hash its row holds; OTPs are numbered
  bill,        \* Ride -> the columns of the trip's row, and fare_total of the ride's
  trip_dist,   \* Ride -> trip:dist, in metres; 0 when there is no such key
  paused_at,   \* Ride -> trip:paused_at; None when there is no such key
  ping,        \* Ride -> the way a ping has read and not metered yet: "pickup", "trip"
  now,         \* the clock
  history      \* Ride -> what really happened, see History

tripVars == <<vars, otp_hash, bill, trip_dist, paused_at, ping, now, history>>

Bill == [started_at : Nat, ended_at : Nat, paused_seconds : Nat, distance_m : Nat,
         fare_total : Int]

\* What went wrong with the requests of a ride: one overlapped another; one was
\* cut short, or a Redis command of it failed and it carried on; and when that
\* was the GETDEL of a pause, which left the pause where it was.
Mishap == {"overlap", "fault", "kept"}

\* driven, rolling: metres of pings that read during the trip, metered outside
\* and during Start and End; strayed: metres of pings that read on the way to
\* the pickup and metered after Start had reset the meter; rested: seconds the
\* trip's row was PAUSED; shown: the OTPs that were current while the ride was
\* ARRIVED, forgotten when it starts; entered: whether the one it
\* started with was one of them.
History == [driven : Nat, rolling : Nat, strayed : Nat, rested : Nat,
            shown : SUBSET (1 .. MaxCodes), entered : {"none", "shown", "other"},
            mishaps : SUBSET Mishap]

\* What a request of the driver's app remembers between its steps.
TripRequest ==
  [op : {"start"}, ride : Ride, code : 1 .. MaxCodes]
    \cup [op : {"reset", "clear", "pause", "end"}, ride : Ride]
    \cup [op : {"resume", "meter"}, ride : Ride, paused : Nat]
    \cup [op : {"drain", "bill"}, ride : Ride, paused : Nat, metres : Nat]

TripsTypeOK ==
  /\ proc \in [Worker -> {Idle} \cup TripRequest]
  /\ otp_hash \in [Ride -> 1 .. MaxCodes]
  /\ bill \in [Ride -> Bill]
  /\ trip_dist \in [Ride -> Nat]
  /\ paused_at \in [Ride -> 0 .. MaxTime \cup {None}]
  /\ ping \in [Ride -> {"none", "pickup", "trip"}]
  /\ now \in 0 .. MaxTime
  /\ history \in [Ride -> History]

\* The requests at work on the trip of r.
Busy(r) == {w \in Worker : proc[w] # Idle /\ proc[w].ride = r}

\* What went wrong with a request of the ride, if anything.
Suffers(r, mishaps) == history' = [history EXCEPT ![r].mishaps = @ \cup mishaps]

\* A request of the ride begins, and overlaps those that are at work.
Begin(w, request, mishaps) ==
  /\ Become(w, request)
  /\ Suffers(request.ride,
             mishaps \cup IF Busy(request.ride) = {} THEN {} ELSE {"overlap"})

Proceed(w, request) == proc' = [proc EXCEPT ![w] = request]

(***************************************************************************)
(* RegenerateOTP, Arrived; Start: the row is read and the OTP compared,    *)
(* the transaction, and the reset of the meter.                            *)
(***************************************************************************)

RegenerateOTP(r) ==
  /\ status[r] \in {"DRIVER_ASSIGNED", "DRIVER_ARRIVING", "ARRIVED"}
  /\ otp_hash[r] < MaxCodes
  /\ otp_hash' = [otp_hash EXCEPT ![r] = @ + 1]
  /\ history' = IF status[r] = "ARRIVED"
                THEN [history EXCEPT ![r].shown = @ \cup {otp_hash[r] + 1}] ELSE history
  /\ UNCHANGED <<vars, bill, trip_dist, paused_at, ping, now>>

Arrive(r) ==
  /\ Arrived(r)
  /\ history' = [history EXCEPT ![r].shown = {otp_hash[r]}]
  /\ UNCHANGED <<otp_hash, bill, trip_dist, paused_at, ping, now>>

\* Mutant: the OTP is not compared.
StartCompare_Any(w, r, code) ==
  /\ status[r] = "ARRIVED"
  /\ Begin(w, [op |-> "start", ride |-> r, code |-> code], {})
  /\ UNCHANGED <<ledgerVars, otp_hash, bill, trip_dist, paused_at, ping, now>>

StartCompare(w, r, code) ==
  /\ status[r] = "ARRIVED"
  /\ otp_hash[r] = code
  /\ Begin(w, [op |-> "start", ride |-> r, code |-> code], {})
  /\ UNCHANGED <<ledgerVars, otp_hash, bill, trip_dist, paused_at, ping, now>>

StartRows(w) ==
  LET r == proc[w].ride IN
  /\ Serving(w, "start")
  /\ UpdateStatus(r, {"ARRIVED"}, "IN_PROGRESS")
  /\ trip_status[r] = Absent
  /\ trip_status' = [trip_status EXCEPT ![r] = "STARTED"]
  /\ bill' = [bill EXCEPT ![r].started_at = now]
  /\ history' = [history EXCEPT
                   ![r].entered = IF proc[w].code \in history[r].shown THEN "shown" ELSE "other",
                   ![r].shown = {}]
  /\ Proceed(w, [op |-> "reset", ride |-> r])
  /\ UNCHANGED <<driver_status, payments, otp_hash, trip_dist, paused_at, ping, now>>

\* Mutant: the metres to the pickup stay on the meter.
ResetMeter_Kept(w) ==
  /\ Serving(w, "reset") \/ Serving(w, "clear")
  /\ Done(w)
  /\ UNCHANGED <<ledgerVars, otp_hash, bill, trip_dist, paused_at, ping, now, history>>

\* ReadAndClearTripDistance: GET, then DEL if there was something to get; if
\* one of them fails, the metres to the pickup stay.
ResetMeter(w) ==
  LET r == proc[w].ride IN
  /\ \/ /\ Serving(w, "reset")
        /\ IF trip_dist[r] = 0 THEN Done(w) ELSE Proceed(w, [op |-> "clear", ride |-> r])
        /\ UNCHANGED <<trip_dist, history>>
     \/ /\ Serving(w, "clear")
        /\ trip_dist' = [trip_dist EXCEPT ![r] = 0]
        /\ Done(w)
        /\ UNCHANGED history
     \/ /\ Serving(w, "reset") \/ Serving(w, "clear")
        /\ Done(w)
        /\ Suffers(r, {"fault"})
        /\ UNCHANGED trip_dist
  /\ UNCHANGED <<ledgerVars, otp_hash, bill, paused_at, ping, now>>

(***************************************************************************)
(* Pause and Resume.                                                       *)
(***************************************************************************)

PauseRow(w, r) ==
  /\ UpdateTrip(r, {"STARTED"}, "PAUSED")
  /\ Begin(w, [op |-> "pause", ride |-> r], {})
  /\ UNCHANGED <<status, owners, driver_status, payments,
                 otp_hash, bill, trip_dist, paused_at, ping, now>>

\* SET trip:paused_at; if it fails, Pause answers all the same.
PauseMark(w) ==
  LET r == proc[w].ride IN
  /\ Serving(w, "pause")
  /\ \/ paused_at' = [paused_at EXCEPT ![r] = now] /\ UNCHANGED history
     \/ Suffers(r, {"fault"}) /\ UNCHANGED paused_at
  /\ Done(w)
  /\ UNCHANGED <<ledgerVars, otp_hash, bill, trip_dist, ping, now>>

\* Mutant: the difference the wrong way round.
Elapsed_Swapped(r) == IF paused_at[r] = None THEN 0 ELSE (paused_at[r] - now) * Second

\* The seconds since trip:paused_at.
Elapsed(r) == IF paused_at[r] = None THEN 0 ELSE (now - paused_at[r]) * Second

\* Mutant: the pause is read and not consumed.
consumePause_Kept(r, elapsed, mishaps) ==
  /\ elapsed = Elapsed(r)
  /\ mishaps = {}
  /\ UNCHANGED paused_at

\* GETDEL trip:paused_at.  An error counts as no pause, whether Redis has
\* carried the command out or not.
consumePause(r, elapsed, mishaps) ==
  \/ /\ elapsed = Elapsed(r) /\ mishaps = {}
     /\ paused_at' = [paused_at EXCEPT ![r] = None]
  \/ /\ elapsed = 0 /\ mishaps = {"fault"}
     /\ paused_at' = [paused_at EXCEPT ![r] = None]
  \/ /\ elapsed = 0 /\ mishaps = {"fault", "kept"}
     /\ UNCHANGED paused_at

\* The pause is consumed before the guard of the UPDATE is known to hold.
ResumeConsume(w, r) ==
  /\ trip_status[r] # Absent
  /\ \E elapsed \in {0, Elapsed(r)}, mishaps \in SUBSET Mishap :
       /\ consumePause(r, elapsed, mishaps)
       /\ Begin(w, [op |-> "resume", ride |-> r, paused |-> elapsed], mishaps)
  /\ UNCHANGED <<ledgerVars, otp_hash, bill, trip_dist, ping, now>>

ResumeRow(w) ==
  LET r == proc[w].ride IN
  /\ Serving(w, "resume")
  /\ \/ /\ UpdateTrip(r, {"PAUSED"}, "STARTED")
        /\ bill' = [bill EXCEPT ![r].paused_seconds = @ + proc[w].paused]
     \/ /\ trip_status[r] # "PAUSED"
        /\ UNCHANGED <<trip_status, bill>>
  /\ Done(w)
  /\ UNCHANGED <<status, owners, driver_status, payments,
                 otp_hash, trip_dist, paused_at, ping, now, history>>

(***************************************************************************)
(* End: the rides row, the trips row and the pause in flight, the meter    *)
(* (GET, then DEL), the transaction.                                       *)
(***************************************************************************)

EndLoad(w, r) ==
  /\ status[r] = "IN_PROGRESS"
  /\ Begin(w, [op |-> "end", ride |-> r], {})
  /\ UNCHANGED <<ledgerVars, otp_hash, bill, trip_dist, paused_at, ping, now>>

\* Mutant: a pause in flight is not folded in.
EndFold_Open(w) ==
  LET r == proc[w].ride IN
  /\ Serving(w, "end")
  /\ Proceed(w, [op |-> "meter", ride |-> r, paused |-> bill[r].paused_seconds])
  /\ UNCHANGED <<ledgerVars, otp_hash, bill, trip_dist, paused_at, ping, now, history>>

EndFold(w) ==
  LET r == proc[w].ride IN
  /\ Serving(w, "end")
  /\ \E elapsed \in {0, Elapsed(r)}, mishaps \in SUBSET Mishap :
       /\ \/ trip_status[r] = "PAUSED" /\ consumePause(r, elapsed, mishaps)
          \/ trip_status[r] # "PAUSED" /\ elapsed = 0 /\ mishaps = {} /\ UNCHANGED paused_at
       /\ Proceed(w, [op |-> "meter", ride |-> r,
                      paused |-> bill[r].paused_seconds + elapsed])
       /\ Suffers(r, mishaps)
  /\ UNCHANGED <<ledgerVars, otp_hash, bill, trip_dist, ping, now>>

\* GET of the meter.  Nothing metered, or nothing to be read: the estimate.
EndMeter(w) ==
  LET r == proc[w].ride
      metered == [op |-> "drain", ride |-> r, paused |-> proc[w].paused,
                  metres |-> trip_dist[r]]
      estimated == [op |-> "bill", ride |-> r, paused |-> proc[w].paused,
                    metres |-> Quote.distance] IN
  /\ Serving(w, "meter")
  /\ \/ trip_dist[r] # 0 /\ Proceed(w, metered) /\ UNCHANGED history
     \/ trip_dist[r] = 0 /\ Proceed(w, estimated) /\ UNCHANGED history
     \/ Proceed(w, estimated) /\ Suffers(r, {"fault"})
  /\ UNCHANGED <<ledgerVars, otp_hash, bill, trip_dist, paused_at, ping, now>>

\* DEL of the meter, for what it is worth.
EndDrain(w) ==
  LET r == proc[w].ride IN
  /\ Serving(w, "drain")
  /\ \/ trip_dist' = [trip_dist EXCEPT ![r] = 0] /\ UNCHANGED history
     \/ Suffers(r, {"fault"}) /\ UNCHANGED trip_dist
  /\ Proceed(w, [proc[w] EXCEPT !.op = "bill"])
  /\ UNCHANGED <<ledgerVars, otp_hash, bill, paused_at, ping, now>>

\* Never negative.
Duration(from, to, paused) ==
  LET seconds == (to - from) * Second - paused IN
    IF seconds < 0 THEN 0 ELSE seconds

EndRowsAndFare(w) ==
  LET r == proc[w].ride IN
  /\ Serving(w, "bill")
  /\ EndRows(r)
  /\ FreeDriver(driver_id[r])
  /\ payments' = [payments EXCEPT ![r] = @ + 1]
  /\ \E total \in FinalFare(Rates, proc[w].metres,
                             Duration(bill[r].started_at, now, proc[w].paused), Quote.surge) :
       bill' = [bill EXCEPT ![r] = [started_at |-> bill[r].started_at, ended_at |-> now,
                                    paused_seconds |-> proc[w].paused,
                                    distance_m |-> proc[w].metres, fare_total |-> total]]
  /\ Done(w)
  /\ UNCHANGED <<otp_hash, trip_dist, paused_at, ping, now, history>>

(***************************************************************************)
(* The driver's pings, the clock, failures.                                *)
(***************************************************************************)

\* A ping reads the ride's marker and the last fix, and meters the way between
\* in a second round trip: way that lies before the read, whatever comes after
\* (that of the first ping of a trip since the car last stood at the pickup).
PingRead(r) ==
  /\ status[r] \in {"DRIVER_ARRIVING", "ARRIVED", "IN_PROGRESS"}
  /\ ping[r] = "none"
  /\ ping' = [ping EXCEPT ![r] = IF status[r] = "IN_PROGRESS" THEN "trip" ELSE "pickup"]
  /\ UNCHANGED <<vars, otp_hash, bill, trip_dist, paused_at, now, history>>

\* Some request of the ride is at one of these steps.
At(r, ops) == \E w \in Busy(r) : proc[w].op \in ops

AtReset(r) == At(r, {"reset", "clear"})
AtEnds(r) == AtReset(r) \/ At(r, {"end", "meter", "drain", "bill"})

PingMeter(r) ==
  /\ ping[r] # "none"
  /\ trip_dist[r] < MaxMetres /\ history[r].driven + history[r].rolling < MaxMetres
  /\ ping' = [ping EXCEPT ![r] = "none"]
  /\ trip_dist' = [trip_dist EXCEPT ![r] = @ + Delta]
  /\ \/ status[r] # "IN_PROGRESS" /\ UNCHANGED history
     \/ /\ status[r] = "IN_PROGRESS" /\ ping[r] = "pickup"
        /\ IF AtReset(r) THEN UNCHANGED history
           ELSE history' = [history EXCEPT ![r].strayed = @ + Delta]
     \/ /\ status[r] = "IN_PROGRESS" /\ ping[r] = "trip"
        /\ IF AtEnds(r) THEN history' = [history EXCEPT ![r].rolling = @ + Delta]
           ELSE history' = [history EXCEPT ![r].driven = @ + Delta]
  /\ UNCHANGED <<vars, otp_hash, bill, paused_at, now>>

\* The clock runs as long as a ride is of interest.
Tick ==
  /\ now < MaxTime
  /\ \E r \in Ride : status[r] # "COMPLETED"
  /\ \A w \in Worker : proc[w] = Idle
  /\ now' = now + 1
  /\ history' = [r \in Ride |-> IF trip_status[r] = "PAUSED"
                                THEN [history[r] EXCEPT !.rested = @ + Second] ELSE history[r]]
  /\ UNCHANGED <<vars, otp_hash, bill, trip_dist, paused_at, ping>>

\* A guard of a transaction that fails rolls it back and ends the request.
Refused(w) ==
  /\ \/ Serving(w, "start") /\ status[proc[w].ride] # "ARRIVED"
     \/ Serving(w, "bill") /\ status[proc[w].ride] # "IN_PROGRESS"
  /\ Done(w)
  /\ UNCHANGED <<ledgerVars, otp_hash, bill, trip_dist, paused_at, ping, now, history>>

\* A client that goes away, an error of a database, a crash.
Cut(w) ==
  /\ proc[w] # Idle
  /\ Done(w)
  /\ Suffers(proc[w].ride, {"fault"})
  /\ UNCHANGED <<ledgerVars, otp_hash, bill, trip_dist, paused_at, ping, now>>

\* The driver is on his way to the pickup.
TripsInit ==
  /\ status = [r \in Ride |-> "DRIVER_ARRIVING"]
  /\ rider_id \in [Ride -> Rider] /\ RiderHasOneRide
  /\ driver_id \in [Ride -> Driver] /\ DriverHasOneRide
  /\ driver_status = [d \in Driver |-> IF DriverActive(d) THEN "on_trip" ELSE "offline"]
  /\ trip_status = [r \in Ride |-> Absent]
  /\ payments = [r \in Ride |-> 0]
  /\ proc = [w \in Worker |-> Idle]
  /\ otp_hash = [r \in Ride |-> 1]
  /\ bill = [r \in Ride |-> [started_at |-> 0, ended_at |-> 0, paused_seconds |-> 0,
                             distance_m |-> 0, fare_total |-> Quote.fare]]
  /\ trip_dist = [r \in Ride |-> 0]
  /\ paused_at = [r \in Ride |-> None]
  /\ ping = [r \in Ride |-> "none"]
  /\ now = 0
  /\ history = [r \in Ride |-> [driven |-> 0, rolling |-> 0, strayed |-> 0, rested |-> 0,
                                shown |-> {}, entered |-> "none", mishaps |-> {}]]

Call(w, r) ==
  \/ \E code \in 1 .. MaxCodes : StartCompare(w, r, code)
  \/ PauseRow(w, r) \/ ResumeConsume(w, r) \/ EndLoad(w, r)

Step(w) ==
  \/ StartRows(w) \/ ResetMeter(w)
  \/ PauseMark(w) \/ ResumeRow(w)
  \/ EndFold(w) \/ EndMeter(w) \/ EndDrain(w) \/ EndRowsAndFare(w)
  \/ Refused(w) \/ Cut(w)

TripsNext ==
  \/ \E r \in Ride :
       \/ RegenerateOTP(r) \/ Arrive(r) \/ PingRead(r) \/ PingMeter(r)
       \/ \E w \in Worker : Call(w, r)
  \/ \E w \in Worker : Step(w)
  \/ Tick

TripsSpec == TripsInit /\ [][TripsNext]_tripVars

(***************************************************************************)
(* Properties.                                                             *)
(***************************************************************************)

Completed(r) == status[r] = "COMPLETED"

\* Metres of the trip: all that was metered on it and, of what was metered while
\* Start reset or End read the meter, any part.  Of the way to the pickup there
\* is nothing in them but what strayed: the last ping of that way, if it read
\* before the trip and metered after the reset.
OfTheTrip(r, metres) ==
  /\ history[r].driven <= metres
  /\ metres <= history[r].driven + history[r].rolling + history[r].strayed

\* The estimate stands in for them only if the trip has metered nothing.
ByTheMeter(r, metres) ==
  \/ OfTheTrip(r, metres)
  \/ history[r].driven = 0 /\ metres = Quote.distance

\* The bill goes by the metered way, unless requests overlapped, were cut short
\* or missed the result of a Redis command: an End that cannot read the meter
\* bills the estimate, whatever was driven, and a Start that cannot reset it
\* leaves the way to the pickup on it.
MeteredIsBilled ==
  \A r \in Ride :
    Completed(r) /\ history[r].mishaps = {} => ByTheMeter(r, bill[r].distance_m)

\* The booked pauses are the pauses taken, one still open at the end included,
\* and their time is not charged: the fare is that of the billed distance and
\* of the time the trip was not paused.  Again for trips whose requests neither
\* overlapped nor were cut short, and whose Redis commands succeeded.
PausesAreFree ==
  \A r \in Ride :
    Completed(r) /\ history[r].mishaps = {} =>
      /\ bill[r].paused_seconds = history[r].rested
      /\ bill[r].fare_total \in
           FinalFare(Rates, bill[r].distance_m,
                     (bill[r].ended_at - bill[r].started_at) * Second - history[r].rested,
                     Quote.surge)

\* Requests do not overlap, and no failed GETDEL has left a pause behind that
\* is over: it would count as the next one, should that one's SET fail.
PausesInOrder(r) == history[r].mishaps \cap {"overlap", "kept"} = {}

\* A request cut short, a SET that fails and a GETDEL whose reply is lost may
\* lose a pause, they never invent one: no more is deducted than was paused, and
\* a retried Resume or End does not count a pause twice.  Overlapping requests,
\* and a GETDEL that fails and leaves the key, can (PausesInOrder).
NoPauseInvented ==
  \A r \in Ride : PausesInOrder(r) => bill[r].paused_seconds <= history[r].rested

\* A trip is started with an OTP that was the current one while the car was
\* waiting: one replaced before does not start it, whoever races whom.
StartedWithItsOTP ==
  \A r \in Ride : trip_status[r] # Absent => history[r].entered = "shown"

\* The rider is billed what he was quoted, to a rupee, when the trip is what
\* was estimated: the quoted surge, and rounding once or in components.
QuoteIsKept ==
  \A r \in Ride :
    /\ Completed(r)
    /\ bill[r].distance_m = Quote.distance
    /\ (bill[r].ended_at - bill[r].started_at) * Second - bill[r].paused_seconds = Quote.duration
    => bill[r].fare_total \in Quote.fare - 100 .. Quote.fare + 100

(***************************************************************************)
(* The inductive invariant, ride by ride.                                  *)
(***************************************************************************)

RowsAgree(r) ==
  /\ trip_status[r] # Absent => status[r] \in {"IN_PROGRESS", "COMPLETED"}
  /\ Completed(r) => trip_status[r] = "ENDED"
  /\ paused_at[r] # None => paused_at[r] <= now

\* A start under way goes by an OTP that was shown to the waiting rider.
OtpsWereShown(r) ==
  /\ status[r] = "ARRIVED" => otp_hash[r] \in history[r].shown
  /\ trip_status[r] # Absent => history[r].entered = "shown"
  /\ \A w \in Busy(r) : proc[w].op = "start" =>
       /\ status[r] # "DRIVER_ARRIVING"
       /\ status[r] = "ARRIVED" => proc[w].code \in history[r].shown

FareIsComputed(r) ==
  Completed(r) =>
    bill[r].fare_total \in
      FinalFare(Rates, bill[r].distance_m,
                Duration(bill[r].started_at, bill[r].ended_at, bill[r].paused_seconds),
                Quote.surge)

\* Every second of a pause is on the trip's row, in a request at work, or in the
\* key of an open pause, and only once.
PausesAreCounted(r) ==
  PausesInOrder(r) =>
    /\ paused_at[r] # None => trip_status[r] = "PAUSED"
    /\ bill[r].paused_seconds + Elapsed(r) <= history[r].rested
    /\ \A v, w \in Busy(r) : v = w
    /\ \A w \in Busy(r) :
         /\ proc[w].op = "pause" => trip_status[r] = "PAUSED"
         /\ proc[w].op \in {"pause", "resume", "meter", "drain", "bill"} => paused_at[r] = None
         /\ proc[w].op = "resume" => bill[r].paused_seconds + proc[w].paused <= history[r].rested
         /\ proc[w].op \in {"meter", "drain", "bill"} => proc[w].paused <= history[r].rested

RideInv(r) ==
  /\ RowsAgree(r)
  /\ OtpsWereShown(r)
  /\ FareIsComputed(r)
  /\ PausesAreCounted(r)

TripsInv ==
  /\ TripsTypeOK
  /\ status \in [Ride -> RideStatus]
  /\ trip_status \in [Ride -> TripStatus]
  /\ \A r \in Ride : RideInv(r)

(***************************************************************************)
(* What the bill rests on, on top of TripsInv: as long as no request of    *)
(* the ride overlaps another, is cut short or misses the result of a Redis *)
(* command, the meter and the pauses are exact at every step of Start,     *)
(* Pause, Resume and End.                                                  *)
(***************************************************************************)

Undisturbed(r) == history[r].mishaps = {}

\* No request of the ride is at one of these steps.
NoneAt(r, ops) == ~At(r, ops)

RowsGoTogether(r) ==
  /\ status[r] = "IN_PROGRESS" <=> trip_status[r] \in {"STARTED", "PAUSED"}
  /\ Completed(r) <=> trip_status[r] = "ENDED"

\* A trip does not rest longer than it takes.
RestWithinTrip(r) ==
  /\ trip_status[r] = Absent => history[r].rested = 0
  /\ status[r] = "IN_PROGRESS" =>
       /\ bill[r].started_at <= now
       /\ history[r].rested <= (now - bill[r].started_at) * Second
  /\ Completed(r) => history[r].rested <= (bill[r].ended_at - bill[r].started_at) * Second

WorkIsOnTrip(r) ==
  status[r] # "IN_PROGRESS" =>
    NoneAt(r, {"reset", "clear", "pause", "end", "meter", "drain", "bill"})

MeterIsExact(r) ==
  /\ trip_status[r] = Absent =>
       history[r].driven = 0 /\ history[r].rolling = 0 /\ history[r].strayed = 0
  /\ status[r] = "IN_PROGRESS" /\ NoneAt(r, {"reset", "clear", "drain", "bill"}) =>
       OfTheTrip(r, trip_dist[r])
  /\ \A w \in Busy(r) :
       /\ proc[w].op \in {"reset", "clear"} => history[r].driven = 0
       /\ proc[w].op = "drain" => OfTheTrip(r, proc[w].metres)
       /\ proc[w].op = "bill" => ByTheMeter(r, proc[w].metres)
  /\ Completed(r) => ByTheMeter(r, bill[r].distance_m)

PausesAreExact(r) ==
  /\ trip_status[r] = Absent => bill[r].paused_seconds = 0
  /\ trip_status[r] = "PAUSED" /\ NoneAt(r, {"pause", "resume", "meter", "drain", "bill"}) =>
       paused_at[r] # None
  /\ NoneAt(r, {"resume", "meter", "drain", "bill"}) =>
       bill[r].paused_seconds + Elapsed(r) = history[r].rested
  /\ \A w \in Busy(r) :
       /\ proc[w].op = "resume" =>
            /\ bill[r].paused_seconds + proc[w].paused = history[r].rested
            /\ trip_status[r] # "PAUSED" => proc[w].paused = 0
       /\ proc[w].op \in {"meter", "drain", "bill"} => proc[w].paused = history[r].rested

BillInv(r) ==
  /\ RowsGoTogether(r)
  /\ RestWithinTrip(r)
  /\ Undisturbed(r) => WorkIsOnTrip(r) /\ MeterIsExact(r) /\ PausesAreExact(r)

BillsInv == \A r \in Ride : BillInv(r)
=============================================================================
