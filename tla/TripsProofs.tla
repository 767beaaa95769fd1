----------------------------- MODULE TripsProofs -----------------------------
(***************************************************************************)
(* OTPs, pauses, meter and fare for any rates, quote, way and number of    *)
(* rides and requests.                                                     *)
(***************************************************************************)
EXTENDS Trips, TLAPS

(***************************************************************************)
(* The fare arithmetic, for every rate, distance and duration: how far     *)
(* rounding goes, and that a final fare computed from rounded components   *)
(* stays within a rupee of the quote's single rounding.                    *)
(***************************************************************************)

\* Rounding goes half a unit at most.
LEMMA RoundIsNear ==
  ASSUME NEW a \in Nat, NEW b \in Nat \ {0}, NEW n \in Round(a, b)
  PROVE  n \in Nat /\ 2 * a - 2 * b * n <= b /\ 2 * b * n - 2 * a <= b
BY SMTT(60) DEF Round

LEMMA RoundIsTotal ==
  ASSUME NEW a \in Nat, NEW b \in Nat \ {0}
  PROVE  \E n \in Nat : n \in Round(a, b)
BY SMTT(60) DEF Round

\* FinalFare, which rounds distance and time to paise first, is within one
\* rupee of what Fare gives for the same trip, and whole rupees like it.
THEOREM FinalFareNearFare ==
  ASSUME NEW rates \in RatesType, NEW distanceM \in Nat, NEW durationS \in Nat,
         NEW surge \in SurgeX100,
         NEW quoted \in Fare(rates, distanceM, durationS, surge),
         NEW billed \in FinalFare(rates, distanceM, durationS, surge)
  PROVE  /\ quoted \in Nat /\ billed \in Nat
         /\ billed - quoted \in {-100, 0, 100}
<1> DEFINE x == distanceM * rates.perKm
           y == durationS * rates.perMin
<1>1. rates.base \in Nat /\ x \in Nat /\ y \in Nat /\ surge \in Nat
  BY SMT DEF RatesType, SurgeX100
<1>2. PICK q \in Round((3000 * rates.base + 3 * distanceM * rates.perKm
                          + 50 * durationS * rates.perMin) * surge, 30000000) :
        quoted = 100 * q
  BY SMT DEF Fare
<1>3. 3 * distanceM * rates.perKm = 3 * x /\ 50 * durationS * rates.perMin = 50 * y
  BY SMT DEF RatesType
<1>4. PICK d \in Round(x, 1000), t \in Round(y, 60) :
        billed \in Total(rates.base, d, t, surge)
  BY SMT DEF FinalFare, DistanceComponent, TimeComponent
<1>5. PICK f \in Round((rates.base + d + t) * surge, 10000) : billed = 100 * f
  BY SMT, <1>4 DEF Total
<1> HIDE DEF x, y
<1>6. d \in Nat /\ 2 * x - 2000 * d <= 1000 /\ 2000 * d - 2 * x <= 1000
  BY SMT, <1>1, <1>4, RoundIsNear
<1>7. t \in Nat /\ 2 * y - 120 * t <= 60 /\ 120 * t - 2 * y <= 60
  BY SMT, <1>1, <1>4, RoundIsNear
<1>8. /\ q \in Nat
      /\ 2 * ((3000 * rates.base + 3 * x + 50 * y) * surge) - 60000000 * q <= 30000000
      /\ 60000000 * q - 2 * ((3000 * rates.base + 3 * x + 50 * y) * surge) <= 30000000
  <2> DEFINE a == (3000 * rates.base + 3 * x + 50 * y) * surge
  <2>1. a \in Nat
    BY SMT, <1>1
  <2>2. q \in Round(a, 30000000)
    BY SMT, <1>2, <1>3
  <2> HIDE DEF a
  <2>3. q \in Nat /\ 2 * a - 60000000 * q <= 30000000 /\ 60000000 * q - 2 * a <= 30000000
    BY SMT, <2>1, <2>2, RoundIsNear
  <2> QED BY SMT, <2>3 DEF a
<1>9. /\ f \in Nat
      /\ 2 * ((rates.base + d + t) * surge) - 20000 * f <= 10000
      /\ 20000 * f - 2 * ((rates.base + d + t) * surge) <= 10000
  <2> DEFINE a == (rates.base + d + t) * surge
  <2>1. a \in Nat
    BY SMT, <1>1, <1>6, <1>7
  <2>2. f \in Round(a, 10000)
    BY SMT, <1>5
  <2> HIDE DEF a
  <2>3. f \in Nat /\ 2 * a - 20000 * f <= 10000 /\ 20000 * f - 2 * a <= 10000
    BY SMT, <2>1, <2>2, RoundIsNear
  <2> QED BY SMT, <2>3 DEF a
<1>10. f - q <= 1 /\ q - f <= 1
  <2>1. CASE surge = 100
    BY SMT, <1>1, <1>6, <1>7, <1>8, <1>9, <2>1
  <2>2. CASE surge = 120
    BY SMT, <1>1, <1>6, <1>7, <1>8, <1>9, <2>2
  <2>3. CASE surge = 150
    BY SMT, <1>1, <1>6, <1>7, <1>8, <1>9, <2>3
  <2>4. CASE surge = 200
    BY SMT, <1>1, <1>6, <1>7, <1>8, <1>9, <2>4
  <2> QED BY SMT, <2>1, <2>2, <2>3, <2>4 DEF SurgeX100
<1> QED BY SMT, <1>2, <1>5, <1>8, <1>9, <1>10

\* Every trip has a final fare, and every quote a fare: rounding is total.
THEOREM FinalFareExists ==
  ASSUME NEW rates \in RatesType, NEW distanceM \in Nat, NEW durationS \in Nat,
         NEW surge \in SurgeX100
  PROVE  \E total \in Nat : total \in FinalFare(rates, distanceM, durationS, surge)
<1> DEFINE x == distanceM * rates.perKm
           y == durationS * rates.perMin
<1>1. rates.base \in Nat /\ x \in Nat /\ y \in Nat /\ surge \in Nat
  BY DEF RatesType, SurgeX100
<1> HIDE DEF x, y
<1>2. PICK d \in Nat : d \in Round(x, 1000)
  BY <1>1, RoundIsTotal
<1>3. PICK t \in Nat : t \in Round(y, 60)
  BY <1>1, RoundIsTotal
<1> DEFINE a == (rates.base + d + t) * surge
<1>4. a \in Nat
  BY <1>1
<1>5. PICK f \in Nat : f \in Round(a, 10000)
  <2> HIDE DEF a
  <2> QED BY <1>4, RoundIsTotal
<1>6. 100 * f \in Nat /\ 100 * f \in Total(rates.base, d, t, surge)
  BY <1>5 DEF Total
<1> QED BY <1>2, <1>3, <1>6 DEF FinalFare, DistanceComponent, TimeComponent, x, y

(***************************************************************************)
(* Requests.                                                               *)
(***************************************************************************)

AnyRequest == {Idle} \cup TripRequest

TripOps == {"start", "reset", "clear", "pause", "end", "resume", "meter", "drain", "bill"}

\* What a request of each kind carries.
LEMMA TripFields ==
  ASSUME NEW q \in AnyRequest
  PROVE  /\ q.op = "idle" <=> q = Idle
         /\ q.op \in TripOps \cup {"idle"}
         /\ q # Idle => q.ride \in Ride
         /\ q.op = "start" => q.code \in 1 .. MaxCodes
         /\ q.op \in {"resume", "meter", "drain", "bill"} => q.paused \in Nat
         /\ q.op \in {"drain", "bill"} => q.metres \in Nat
BY DEF AnyRequest, TripRequest, Idle, TripOps

LEMMA IdleType == Idle \in AnyRequest /\ Idle.op = "idle"
BY DEF AnyRequest, Idle

(***************************************************************************)
(* Fares are whole numbers.                                                *)
(***************************************************************************)
LEMMA FinalFareType ==
  ASSUME NEW rates \in RatesType, NEW distanceM \in Nat, NEW durationS \in Nat,
         NEW surge \in SurgeX100, NEW total \in FinalFare(rates, distanceM, durationS, surge)
  PROVE  total \in Nat
<1> DEFINE x == distanceM * rates.perKm
           y == durationS * rates.perMin
<1>1. rates.base \in Nat /\ x \in Nat /\ y \in Nat /\ surge \in Nat
  BY DEF RatesType, SurgeX100
<1>2. PICK d \in Round(x, 1000), t \in Round(y, 60) : total \in Total(rates.base, d, t, surge)
  BY SMT DEF FinalFare, DistanceComponent, TimeComponent
<1> HIDE DEF x, y
<1>3. d \in Nat /\ t \in Nat
  BY <1>1, <1>2, RoundIsNear, SMT
<1> DEFINE a == (rates.base + d + t) * surge
<1>4. a \in Nat
  BY <1>1, <1>3
<1>5. PICK f \in Round(a, 10000) : total = 100 * f
  BY <1>2, SMT DEF Total
<1> HIDE DEF a
<1>6. f \in Nat
  BY <1>4, <1>5, RoundIsNear, SMT
<1> QED BY <1>5, <1>6

LEMMA DurationType ==
  ASSUME NEW from \in Nat, NEW to \in Nat, NEW paused \in Nat
  PROVE  Duration(from, to, paused) \in Nat
<1>1. (to - from) * Second \in Int
  BY TripsAssumption, SMT
<1> QED BY <1>1, SMT DEF Duration

LEMMA ElapsedType ==
  ASSUME TripsTypeOK, NEW r \in Ride, RowsAgree(r)
  PROVE  Elapsed(r) \in Nat
<1>1. CASE paused_at[r] = None
  BY <1>1 DEF Elapsed
<1>2. CASE paused_at[r] # None
  <2>1. now - paused_at[r] \in Nat
    BY <1>2, TripsAssumption DEF TripsTypeOK, RowsAgree
  <2> QED BY <1>2, <2>1, TripsAssumption DEF Elapsed
<1> QED BY <1>1, <1>2

(***************************************************************************)
(* The initial states.                                                     *)
(***************************************************************************)
LEMMA TripsInitInv == TripsInit => TripsInv
<1> SUFFICES ASSUME TripsInit PROVE TripsInv
  OBVIOUS
<1>0. Quote.fare \in Int
  <2>1. PICK n \in Int : Quote.fare = 100 * n
    BY TripsAssumption DEF Fare, Round
  <2> QED BY <2>1
<1>1. TripsTypeOK
  <2>1. /\ proc \in [Worker -> {Idle} \cup TripRequest]
        /\ otp_hash \in [Ride -> 1 .. MaxCodes]
        /\ trip_dist \in [Ride -> Nat]
        /\ paused_at \in [Ride -> 0 .. MaxTime \cup {None}]
        /\ ping \in [Ride -> {"none", "pickup", "trip"}]
        /\ now \in 0 .. MaxTime
    BY TripsAssumption DEF TripsInit
  <2>2. bill \in [Ride -> Bill]
    BY <1>0 DEF TripsInit, Bill
  <2>3. history \in [Ride -> History]
    BY TripsAssumption DEF TripsInit, History
  <2> QED BY <2>1, <2>2, <2>3 DEF TripsTypeOK
<1>2. ASSUME NEW r \in Ride PROVE RideInv(r)
  <2>1. Busy(r) = {}
    BY DEF TripsInit, Busy
  <2>2. Elapsed(r) = 0
    BY DEF TripsInit, Elapsed
  <2> QED BY <2>1, <2>2
          DEF TripsInit, RideInv, RowsAgree, Absent, OtpsWereShown, FareIsComputed, Completed,
              PausesAreCounted, PausesInOrder
<1> QED BY <1>1, <1>2 DEF TripsInit, TripsInv, RideStatus, TripStatus, Absent

(***************************************************************************)
(* Frames: what a step does to a ride it does not serve.                   *)
(***************************************************************************)

\* OTPs: a shown OTP stays shown, and no new start goes by one that was not.
LEMMA OtpsKept ==
  ASSUME NEW r \in Ride, OtpsWereShown(r),
         status'[r] = status[r], trip_status'[r] = trip_status[r], otp_hash'[r] = otp_hash[r],
         history'[r].shown = history[r].shown, history'[r].entered = history[r].entered,
         \A w \in Busy(r)' : proc'[w].op = "start" => w \in Busy(r) /\ proc'[w] = proc[w]
  PROVE  OtpsWereShown(r)'
BY DEF OtpsWereShown

\* Pauses: nothing of them moves, and a request that goes on takes its sum along.
LEMMA PausesKept ==
  ASSUME NEW r \in Ride, PausesAreCounted(r), now' = now,
         trip_status'[r] = trip_status[r], paused_at'[r] = paused_at[r],
         bill'[r].paused_seconds = bill[r].paused_seconds,
         history'[r].rested = history[r].rested,
         PausesInOrder(r)' => PausesInOrder(r),
         \A w \in Busy(r)' :
           /\ w \in Busy(r)
           /\ proc'[w].op \in {"pause", "resume"} => proc'[w] = proc[w]
           /\ proc'[w].op \in {"meter", "drain", "bill"} =>
                proc[w].op \in {"meter", "drain", "bill"} /\ proc'[w].paused = proc[w].paused
  PROVE  PausesAreCounted(r)'
<1>1. Elapsed(r)' = Elapsed(r)
  BY DEF Elapsed
<1> QED BY <1>1 DEF PausesAreCounted, PausesInOrder

\* The bill of a completed ride is not written again.
LEMMA FareKept ==
  ASSUME NEW r \in Ride, FareIsComputed(r), Completed(r)' => Completed(r) /\ bill'[r] = bill[r]
  PROVE  FareIsComputed(r)'
BY DEF FareIsComputed

\* A ride keeps its invariant when its rows, its keys and the requests that
\* serve it stay, whatever ends, is metered or is cut short.
LEMMA RideKept ==
  ASSUME NEW r \in Ride, RideInv(r), now' = now,
         status'[r] = status[r], trip_status'[r] = trip_status[r],
         otp_hash'[r] = otp_hash[r], bill'[r] = bill[r], paused_at'[r] = paused_at[r],
         history'[r].shown = history[r].shown, history'[r].entered = history[r].entered,
         history'[r].rested = history[r].rested,
         PausesInOrder(r)' => PausesInOrder(r),
         \A w \in Busy(r)' : w \in Busy(r) /\ proc'[w] = proc[w]
  PROVE  RideInv(r)'
<1>1. OtpsWereShown(r)' /\ PausesAreCounted(r)'
  BY OtpsKept, PausesKept DEF RideInv
<1>2. RowsAgree(r)' /\ FareIsComputed(r)'
  BY FareKept DEF RideInv, RowsAgree, Completed
<1> QED BY <1>1, <1>2 DEF RideInv

\* The requests of a ride after one request begins, goes on or ends.
LEMMA BusyNext ==
  ASSUME proc \in [Worker -> AnyRequest], NEW w \in Worker, NEW q \in AnyRequest,
         Proceed(w, q), NEW r \in Ride
  PROVE  /\ proc' \in [Worker -> AnyRequest]
         /\ proc'[w] = q
         /\ \A v \in Worker \ {w} : proc'[v] = proc[v]
         /\ Busy(r)' = IF q # Idle /\ q.ride = r THEN Busy(r) \cup {w} ELSE Busy(r) \ {w}
BY DEF Proceed, Busy

\* What a mishap of one ride does to the histories.
LEMMA SuffersType ==
  ASSUME history \in [Ride -> History], NEW r \in Ride, NEW m \in SUBSET Mishap, Suffers(r, m)
  PROVE  /\ history' \in [Ride -> History]
         /\ \A s \in Ride \ {r} : history'[s] = history[s]
         /\ \A s \in Ride :
              /\ history'[s].driven = history[s].driven
              /\ history'[s].rolling = history[s].rolling
              /\ history'[s].strayed = history[s].strayed
              /\ history'[s].rested = history[s].rested
              /\ history'[s].shown = history[s].shown
              /\ history'[s].entered = history[s].entered
              /\ PausesInOrder(s)' => PausesInOrder(s)
         /\ history'[r].mishaps = history[r].mishaps \cup m
<1> DEFINE past == history[r]
           next == [past EXCEPT !.mishaps = @ \cup m]
<1>1. past \in History
  OBVIOUS
<1>2. /\ next \in History
      /\ next.driven = past.driven /\ next.rolling = past.rolling
      /\ next.strayed = past.strayed /\ next.rested = past.rested
      /\ next.shown = past.shown /\ next.entered = past.entered
      /\ next.mishaps = past.mishaps \cup m
  BY <1>1 DEF History
<1>3. history' = [history EXCEPT ![r] = next]
  BY DEF Suffers
<1> HIDE DEF next
<1>4. \A s \in Ride : history'[s] = IF s = r THEN next ELSE history[s]
  BY <1>3
<1> QED BY <1>2, <1>3, <1>4 DEF PausesInOrder

\* A step that goes well, or loses the result of a Redis command or the request.
LEMMA MayFault ==
  ASSUME history \in [Ride -> History], NEW r \in Ride,
         UNCHANGED history \/ Suffers(r, {"fault"})
  PROVE  /\ history' \in [Ride -> History]
         /\ \A s \in Ride \ {r} : history'[s] = history[s]
         /\ \A s \in Ride :
              /\ history'[s].driven = history[s].driven
              /\ history'[s].rolling = history[s].rolling
              /\ history'[s].strayed = history[s].strayed
              /\ history'[s].rested = history[s].rested
              /\ history'[s].shown = history[s].shown
              /\ history'[s].entered = history[s].entered
              /\ PausesInOrder(s)' => PausesInOrder(s)
<1>1. {"fault"} \in SUBSET Mishap
  BY DEF Mishap
<1>2. CASE UNCHANGED history
  BY <1>2 DEF PausesInOrder
<1>3. CASE Suffers(r, {"fault"})
  BY <1>1, <1>3, SuffersType
<1> QED BY <1>2, <1>3

\* A request that begins alone has its ride to itself, or marks the overlap.
LEMMA BeginType ==
  ASSUME TripsTypeOK, NEW w \in Worker, NEW q \in TripRequest, NEW m \in SUBSET Mishap,
         Begin(w, q, m)
  PROVE  /\ history' \in [Ride -> History]
         /\ Proceed(w, q) /\ proc[w] = Idle
         /\ q.ride \in Ride
         /\ \A r \in Ride :
              /\ history'[r].shown = history[r].shown
              /\ history'[r].entered = history[r].entered
              /\ history'[r].rested = history[r].rested
              /\ PausesInOrder(r)' => PausesInOrder(r)
         /\ PausesInOrder(q.ride)' =>
               Busy(q.ride) = {} /\ PausesInOrder(q.ride) /\ "kept" \notin m
<1>1. q.ride \in Ride
  BY TripFields DEF AnyRequest, TripRequest, Idle
<1>2. Proceed(w, q) /\ proc[w] = Idle
  BY DEF Begin, Become, Proceed
<1>3. PICK n \in SUBSET Mishap :
        /\ n = m \cup IF Busy(q.ride) = {} THEN {} ELSE {"overlap"}
        /\ Suffers(q.ride, n)
  <2>1. (m \cup IF Busy(q.ride) = {} THEN {} ELSE {"overlap"}) \in SUBSET Mishap
    BY DEF Mishap
  <2> QED BY <2>1 DEF Begin
<1>4. /\ history' \in [Ride -> History]
      /\ \A r \in Ride :
           /\ history'[r].shown = history[r].shown
           /\ history'[r].entered = history[r].entered
           /\ history'[r].rested = history[r].rested
           /\ PausesInOrder(r)' => PausesInOrder(r)
      /\ history'[q.ride].mishaps = history[q.ride].mishaps \cup n
  BY <1>1, <1>3, SuffersType DEF TripsTypeOK
<1>5. PausesInOrder(q.ride)' =>
        Busy(q.ride) = {} /\ PausesInOrder(q.ride) /\ "kept" \notin m
  BY <1>1, <1>3, <1>4 DEF PausesInOrder
<1> QED BY <1>1, <1>2, <1>4, <1>5

\* A step that serves one ride keeps the others.
LEMMA ServeKeeps ==
  ASSUME TripsInv, NEW w \in Worker, NEW q \in AnyRequest, Proceed(w, q), NEW r \in Ride,
         proc[w] # Idle => proc[w].ride = r, q # Idle => q.ride = r, now' = now,
         \A s \in Ride \ {r} :
           /\ status'[s] = status[s] /\ trip_status'[s] = trip_status[s]
           /\ otp_hash'[s] = otp_hash[s] /\ bill'[s] = bill[s]
           /\ paused_at'[s] = paused_at[s] /\ history'[s] = history[s],
         TripsTypeOK', status' \in [Ride -> RideStatus], trip_status' \in [Ride -> TripStatus],
         RideInv(r)'
  PROVE  TripsInv'
<1>1. ASSUME NEW s \in Ride \ {r} PROVE RideInv(s)'
  <2>1. \A v \in Busy(s)' : v \in Busy(s) /\ proc'[v] = proc[v]
    BY <1>1, BusyNext DEF TripsInv, TripsTypeOK, AnyRequest, Busy
  <2> QED BY <1>1, <2>1, RideKept DEF TripsInv, PausesInOrder
<1> QED BY <1>1 DEF TripsInv

\* The request that serves a ride, and what it carries.
LEMMA Serves ==
  ASSUME TripsTypeOK, NEW w \in Worker, proc[w].op \in TripOps
  PROVE  /\ proc[w] # Idle /\ proc[w].ride \in Ride
         /\ w \in Busy(proc[w].ride)
         /\ proc[w].op = "start" => proc[w].code \in 1 .. MaxCodes
         /\ proc[w].op \in {"resume", "meter", "drain", "bill"} => proc[w].paused \in Nat
         /\ proc[w].op \in {"drain", "bill"} => proc[w].metres \in Nat
BY TripFields DEF TripsTypeOK, AnyRequest, Busy, TripOps, Idle

\* The requests of a ride after one of them goes on or ends.
LEMMA GoesOn ==
  ASSUME TripsTypeOK, NEW w \in Worker, proc[w].op \in TripOps, NEW r \in Ride, proc[w].ride = r,
         NEW q \in AnyRequest, Proceed(w, q), q # Idle => q.ride = r
  PROVE  /\ proc' \in [Worker -> {Idle} \cup TripRequest]
         /\ proc'[w] = q
         /\ w \in Busy(r)
         /\ Busy(r)' = IF q = Idle THEN Busy(r) \ {w} ELSE Busy(r)
         /\ \A v \in Busy(r) \ {w} : proc'[v] = proc[v]
<1>1. proc \in [Worker -> AnyRequest] /\ w \in Busy(r)
  BY Serves DEF TripsTypeOK, AnyRequest
<1>2. /\ proc' \in [Worker -> AnyRequest]
      /\ proc'[w] = q
      /\ \A v \in Worker \ {w} : proc'[v] = proc[v]
      /\ Busy(r)' = IF q # Idle /\ q.ride = r THEN Busy(r) \cup {w} ELSE Busy(r) \ {w}
  BY <1>1, BusyNext
<1>3. Busy(r)' = IF q = Idle THEN Busy(r) \ {w} ELSE Busy(r)
  BY <1>1, <1>2
<1>4. \A v \in Busy(r) \ {w} : proc'[v] = proc[v]
  BY <1>2 DEF Busy
<1> QED BY <1>1, <1>2, <1>3, <1>4 DEF AnyRequest

(***************************************************************************)
(* OTPs and Start.                                                         *)
(***************************************************************************)

LEMMA RegenerateOTPInv ==
  ASSUME TripsInv, NEW r \in Ride, RegenerateOTP(r)
  PROVE  TripsInv'
<1> USE DEF TripsInv
<1>1. /\ UNCHANGED <<status, trip_status, proc, bill, trip_dist, paused_at, ping, now>>
      /\ otp_hash' = [otp_hash EXCEPT ![r] = @ + 1]
      /\ otp_hash'[r] \in 1 .. MaxCodes
      /\ history' = IF status[r] = "ARRIVED"
                    THEN [history EXCEPT ![r].shown = @ \cup {otp_hash[r] + 1}] ELSE history
  BY TripsAssumption DEF RegenerateOTP, vars, TripsTypeOK
<1>2. history' \in [Ride -> History]
  <2>1. CASE status[r] = "ARRIVED"
    <3> DEFINE past == history[r]
               next == [past EXCEPT !.shown = @ \cup {otp_hash[r] + 1}]
    <3>1. past \in History /\ otp_hash[r] + 1 \in 1 .. MaxCodes
      BY <1>1 DEF TripsTypeOK
    <3>2. next \in History
      BY <3>1 DEF History
    <3>3. history' = [history EXCEPT ![r] = next]
      BY <1>1, <2>1
    <3> HIDE DEF next
    <3> QED BY <3>2, <3>3 DEF TripsTypeOK
  <2> QED BY <1>1, <2>1 DEF TripsTypeOK
<1>3. TripsTypeOK'
  BY <1>1, <1>2 DEF TripsTypeOK
<1>4. ASSUME NEW s \in Ride PROVE RideInv(s)'
  <2>1. /\ history'[s].entered = history[s].entered
        /\ history'[s].rested = history[s].rested
        /\ history'[s].mishaps = history[s].mishaps
        /\ history[s].shown \subseteq history'[s].shown
        /\ s = r /\ status[r] = "ARRIVED" => otp_hash[r] + 1 \in history'[r].shown
    BY <1>1 DEF TripsTypeOK, History
  <2>2. Busy(s)' = Busy(s)
    BY <1>1 DEF Busy
  <2>3. OtpsWereShown(s)'
    BY <1>1, <2>1, <2>2 DEF TripsTypeOK, RideInv, OtpsWereShown
  <2>4. PausesAreCounted(s)'
    BY <1>1, <2>1, <2>2, PausesKept DEF RideInv, PausesInOrder
  <2> QED BY <1>1, <2>3, <2>4 DEF RideInv, RowsAgree, FareIsComputed, Completed
<1> QED BY <1>1, <1>3, <1>4

LEMMA ArriveInv ==
  ASSUME TripsInv, NEW r \in Ride, Arrive(r)
  PROVE  TripsInv'
<1> USE DEF TripsInv
<1>1. /\ UNCHANGED <<trip_status, proc, otp_hash, bill, trip_dist, paused_at, ping, now>>
      /\ status[r] = "DRIVER_ARRIVING"
      /\ status' = [status EXCEPT ![r] = "ARRIVED"]
      /\ history' = [history EXCEPT ![r].shown = {otp_hash[r]}]
  BY DEF Arrive, Arrived, driverProgress, UpdateStatus, SetStatus
<1>2. history' \in [Ride -> History]
  <2>1. {otp_hash[r]} \in SUBSET (1 .. MaxCodes)
    BY DEF TripsTypeOK
  <2> QED BY <1>1, <2>1 DEF TripsTypeOK, History
<1>3. TripsTypeOK'
  BY <1>1, <1>2 DEF TripsTypeOK
<1>4. ASSUME NEW s \in Ride PROVE RideInv(s)'
  <2>1. /\ history'[s].entered = history[s].entered
        /\ history'[s].rested = history[s].rested
        /\ history'[s].mishaps = history[s].mishaps
        /\ history'[s].shown = IF s = r THEN {otp_hash[r]} ELSE history[s].shown
    BY <1>1 DEF TripsTypeOK, History
  <2>2. Busy(s)' = Busy(s)
    BY <1>1 DEF Busy
  <2>3. OtpsWereShown(s)'
    BY <1>1, <2>1, <2>2 DEF RideInv, OtpsWereShown, RowsAgree
  <2>4. PausesAreCounted(s)'
    BY <1>1, <2>1, <2>2, PausesKept DEF RideInv, PausesInOrder
  <2> QED BY <1>1, <2>3, <2>4 DEF RideInv, RowsAgree, FareIsComputed, Completed
<1> QED BY <1>1, <1>3, <1>4 DEF RideStatus

\* A call whose first step reads only.
LEMMA BeginKeeps ==
  ASSUME TripsInv, NEW w \in Worker, NEW q \in TripRequest, Begin(w, q, {}),
         q.op \in {"start", "end"},
         q.op = "start" => status[q.ride] = "ARRIVED" /\ otp_hash[q.ride] = q.code,
         UNCHANGED <<status, trip_status, otp_hash, bill, trip_dist, paused_at, ping, now>>
  PROVE  TripsInv'
<1> USE DEF TripsInv
<1>0. PICK r \in Ride : r = q.ride
  BY BeginType
<1>1. /\ history' \in [Ride -> History]
      /\ Proceed(w, q) /\ proc[w] = Idle /\ q \in AnyRequest
      /\ \A s \in Ride :
           /\ history'[s].shown = history[s].shown
           /\ history'[s].entered = history[s].entered
           /\ history'[s].rested = history[s].rested
           /\ PausesInOrder(s)' => PausesInOrder(s)
      /\ PausesInOrder(r)' =>
            Busy(r) = {} /\ PausesInOrder(r)
  BY <1>0, BeginType DEF AnyRequest
<1>2. proc \in [Worker -> AnyRequest] /\ q # Idle
  BY DEF TripsTypeOK, AnyRequest, TripRequest, Idle
<1>3. TripsTypeOK'
  BY <1>1, <1>2, BusyNext, <1>0 DEF TripsTypeOK, AnyRequest
<1>4. ASSUME NEW s \in Ride PROVE RideInv(s)'
  <2>1. /\ proc'[w] = q
        /\ \A v \in Worker \ {w} : proc'[v] = proc[v]
        /\ Busy(s)' = IF s = r THEN Busy(s) \cup {w} ELSE Busy(s) \ {w}
    BY <1>0, <1>1, <1>2, BusyNext
  <2>2. Busy(s) \subseteq Worker /\ w \notin Busy(s)
    BY <1>1 DEF Busy
  <2>3. OtpsWereShown(s)'
    BY <1>0, <1>1, <2>1, <2>2 DEF RideInv, OtpsWereShown
  <2>4. PausesAreCounted(s)'
    <3>1. CASE s # r
      BY <1>1, <2>1, <2>2, <3>1, PausesKept DEF RideInv
    <3>2. CASE s = r
      <4>1. Elapsed(s)' = Elapsed(s)
        BY DEF Elapsed
      <4> QED BY <1>1, <2>1, <3>2, <4>1 DEF RideInv, PausesAreCounted, PausesInOrder
    <3> QED BY <3>1, <3>2
  <2> QED BY <2>3, <2>4 DEF RideInv, RowsAgree, FareIsComputed, Completed
<1> QED BY <1>3, <1>4

\* A later step that leaves the rows, the OTP and the pauses alone: the meter, a
\* refusal, a failure.
LEMMA QuietStepInv ==
  ASSUME TripsInv, NEW w \in Worker, proc[w].op \in TripOps, NEW q \in AnyRequest, Proceed(w, q),
         q.op \in {"idle", "clear", "drain", "bill"},
         q # Idle => q.ride = proc[w].ride,
         q.op \in {"drain", "bill"} =>
           proc[w].op \in {"meter", "drain"} /\ q.paused = proc[w].paused,
         UNCHANGED <<status, trip_status, otp_hash, bill, paused_at, ping, now>>,
         trip_dist' \in [Ride -> Nat], history' \in [Ride -> History],
         \A s \in Ride :
           /\ history'[s].shown = history[s].shown
           /\ history'[s].entered = history[s].entered
           /\ history'[s].rested = history[s].rested
           /\ PausesInOrder(s)' => PausesInOrder(s)
  PROVE  TripsInv'
<1> USE DEF TripsInv
<1>1. proc \in [Worker -> AnyRequest]
  BY DEF TripsTypeOK, AnyRequest
<1>2. TripsTypeOK'
  BY <1>1, BusyNext DEF TripsTypeOK, AnyRequest, Proceed
<1>3. ASSUME NEW r \in Ride PROVE RideInv(r)'
  <2>1. /\ proc'[w] = q
        /\ \A v \in Worker \ {w} : proc'[v] = proc[v]
        /\ Busy(r)' = IF q # Idle /\ q.ride = r THEN Busy(r) \cup {w} ELSE Busy(r) \ {w}
    BY <1>1, BusyNext
  <2>2. q # Idle /\ q.ride = r => w \in Busy(r)
    BY Serves
  <2>3. \A v \in Busy(r)' :
          /\ v \in Busy(r)
          /\ proc'[v].op \in {"start", "pause", "resume"} => proc'[v] = proc[v]
          /\ proc'[v].op \in {"meter", "drain", "bill"} =>
               proc[v].op \in {"meter", "drain", "bill"} /\ proc'[v].paused = proc[v].paused
    BY <2>1, <2>2 DEF Busy
  <2>4. OtpsWereShown(r)' /\ PausesAreCounted(r)'
    BY <2>3, OtpsKept, PausesKept DEF RideInv
  <2> QED BY <2>4 DEF RideInv, RowsAgree, FareIsComputed, Completed
<1> QED BY <1>2, <1>3

LEMMA ResetMeterInv ==
  ASSUME TripsInv, NEW w \in Worker, ResetMeter(w)
  PROVE  TripsInv'
<1>1. PICK r \in Ride : proc[w].op \in {"reset", "clear"} /\ proc[w].ride = r
  BY Serves DEF TripsInv, ResetMeter, Serving, TripOps
<1>2. /\ UNCHANGED <<status, trip_status, otp_hash, bill, paused_at, ping, now>>
      /\ trip_dist' \in [Ride -> Nat]
      /\ UNCHANGED history \/ Suffers(r, {"fault"})
  BY <1>1 DEF TripsInv, TripsTypeOK, ResetMeter, ledgerVars
<1>3. /\ history' \in [Ride -> History]
      /\ \A s \in Ride :
           /\ history'[s].shown = history[s].shown
           /\ history'[s].entered = history[s].entered
           /\ history'[s].rested = history[s].rested
           /\ PausesInOrder(s)' => PausesInOrder(s)
  BY <1>2, MayFault DEF TripsInv, TripsTypeOK
<1>4. CASE proc' = [proc EXCEPT ![w] = Idle]
  BY <1>1, <1>2, <1>3, <1>4, IdleType, QuietStepInv DEF Proceed, TripOps
<1>5. CASE Proceed(w, [op |-> "clear", ride |-> r])
  <2>1. [op |-> "clear", ride |-> r] \in AnyRequest
    BY DEF AnyRequest, TripRequest
  <2>2. PICK q \in AnyRequest : q = [op |-> "clear", ride |-> r]
    BY <2>1
  <2> QED BY <1>1, <1>2, <1>3, <1>5, <2>2, QuietStepInv DEF TripOps
<1> QED BY <1>1, <1>4, <1>5 DEF ResetMeter, Done

\* Start settles which OTP the ride was started with.
LEMMA StartHistory ==
  ASSUME history \in [Ride -> History], NEW r \in Ride, NEW code,
         history' = [history EXCEPT
                       ![r].entered = IF code \in history[r].shown THEN "shown" ELSE "other",
                       ![r].shown = {}]
  PROVE  /\ history' \in [Ride -> History]
         /\ code \in history[r].shown => history'[r].entered = "shown"
         /\ history'[r].driven = history[r].driven
         /\ history'[r].rolling = history[r].rolling
         /\ history'[r].strayed = history[r].strayed
         /\ history'[r].rested = history[r].rested
         /\ history'[r].mishaps = history[r].mishaps
         /\ \A s \in Ride \ {r} : history'[s] = history[s]
<1> DEFINE past == history[r]
           how == IF code \in past.shown THEN "shown" ELSE "other"
           next == [past EXCEPT !.entered = how, !.shown = {}]
<1>1. past \in History
  OBVIOUS
<1>2. /\ next \in History
      /\ code \in past.shown => next.entered = "shown"
      /\ next.driven = past.driven /\ next.rolling = past.rolling
      /\ next.strayed = past.strayed /\ next.rested = past.rested
      /\ next.mishaps = past.mishaps
  BY <1>1 DEF History
<1>3. history' = [history EXCEPT ![r] = next]
  OBVIOUS
<1> HIDE DEF next
<1> QED BY <1>2, <1>3

LEMMA StartRowsInv ==
  ASSUME TripsInv, NEW w \in Worker, StartRows(w)
  PROVE  TripsInv'
<1> USE DEF TripsInv
<1>1. PICK r \in Ride, code \in 1 .. MaxCodes :
        proc[w].op = "start" /\ proc[w].ride = r /\ proc[w].code = code /\ w \in Busy(r)
  BY Serves DEF StartRows, Serving, TripOps
<1>2. [op |-> "reset", ride |-> r] \in AnyRequest
  BY DEF AnyRequest, TripRequest
<1>3. PICK q \in AnyRequest : q = [op |-> "reset", ride |-> r]
  BY <1>2
<1>4. /\ status[r] = "ARRIVED" /\ trip_status[r] = Absent
      /\ status' = [status EXCEPT ![r] = "IN_PROGRESS"]
      /\ trip_status' = [trip_status EXCEPT ![r] = "STARTED"]
      /\ bill' = [bill EXCEPT ![r].started_at = now]
      /\ history' = [history EXCEPT
                       ![r].entered = IF code \in history[r].shown THEN "shown" ELSE "other",
                       ![r].shown = {}]
      /\ Proceed(w, q)
      /\ UNCHANGED <<otp_hash, trip_dist, paused_at, ping, now>>
  BY <1>1, <1>3 DEF StartRows, UpdateStatus, SetStatus
<1>5. /\ proc' \in [Worker -> {Idle} \cup TripRequest]
      /\ proc'[w] = q
      /\ Busy(r)' = Busy(r)
      /\ \A v \in Busy(r) \ {w} : proc'[v] = proc[v]
  <2>1. q # Idle /\ q.ride = r /\ proc[w].op \in TripOps
    BY <1>1, <1>3 DEF Idle, TripOps
  <2> QED BY <1>1, <1>4, <2>1, GoesOn
<1>6. /\ bill' \in [Ride -> Bill]
      /\ bill'[r] = [bill[r] EXCEPT !.started_at = now]
  BY <1>4, TripsAssumption DEF TripsTypeOK, Bill
<1>61. /\ history' \in [Ride -> History]
       /\ code \in history[r].shown => history'[r].entered = "shown"
       /\ history'[r].rested = history[r].rested
       /\ history'[r].mishaps = history[r].mishaps
       /\ \A s \in Ride \ {r} : history'[s] = history[s]
  BY <1>4, StartHistory DEF TripsTypeOK
<1>7. TripsTypeOK'
  BY <1>4, <1>5, <1>6, <1>61 DEF TripsTypeOK
<1>8. RowsAgree(r)' /\ FareIsComputed(r)'
  BY <1>4 DEF RideInv, RowsAgree, FareIsComputed, Completed, Absent
<1>9. OtpsWereShown(r)'
  <2>1. code \in history[r].shown
    BY <1>1, <1>4 DEF RideInv, OtpsWereShown
  <2>2. history'[r].entered = "shown"
    BY <1>61, <2>1
  <2> QED BY <1>4, <2>2 DEF OtpsWereShown
<1>10. PausesAreCounted(r)'
  <2>1. /\ history'[r].rested = history[r].rested
        /\ history'[r].mishaps = history[r].mishaps
        /\ bill'[r].paused_seconds = bill[r].paused_seconds
    BY <1>6, <1>61 DEF TripsTypeOK, Bill
  <2>2. Elapsed(r)' = Elapsed(r)
    BY <1>4 DEF Elapsed
  <2>3. \A v \in Busy(r)' : v # w => proc'[v] = proc[v]
    BY <1>5
  <2>4. proc'[w].op = "reset"
    BY <1>3, <1>5
  <2>5. PausesInOrder(r)' <=> PausesInOrder(r)
    BY <2>1 DEF PausesInOrder
  <2> QED BY <1>4, <1>5, <1>1, <2>1, <2>2, <2>3, <2>4, <2>5
          DEF RideInv, PausesAreCounted, Absent
<1>11. RideInv(r)'
  BY <1>8, <1>9, <1>10 DEF RideInv
<1>12. \A s \in Ride \ {r} :
           /\ status'[s] = status[s] /\ trip_status'[s] = trip_status[s]
           /\ otp_hash'[s] = otp_hash[s] /\ bill'[s] = bill[s]
           /\ paused_at'[s] = paused_at[s] /\ history'[s] = history[s]
  BY <1>4, <1>61 DEF TripsTypeOK
<1>13. /\ status' \in [Ride -> RideStatus] /\ trip_status' \in [Ride -> TripStatus]
      /\ q.ride = r /\ now' = now
  BY <1>3, <1>4 DEF RideStatus, TripStatus
<1> HIDE DEF TripsInv
<1> QED BY <1>1, <1>4, <1>7, <1>11, <1>12, <1>13, ServeKeeps

(***************************************************************************)
(* Pause and Resume.                                                       *)
(***************************************************************************)

\* The requests of a ride after one begins.
LEMMA BeginFrame ==
  ASSUME TripsTypeOK, NEW w \in Worker, NEW q \in TripRequest, NEW m \in SUBSET Mishap,
         Begin(w, q, m), NEW r \in Ride, q.ride = r
  PROVE  /\ Proceed(w, q) /\ proc[w] = Idle
         /\ proc' \in [Worker -> {Idle} \cup TripRequest]
         /\ proc'[w] = q
         /\ Busy(r)' = Busy(r) \cup {w}
         /\ \A v \in Busy(r) : proc'[v] = proc[v]
         /\ \A s \in Ride \ {r} : history'[s] = history[s]
<1>1. Proceed(w, q) /\ proc[w] = Idle /\ q \in AnyRequest /\ proc \in [Worker -> AnyRequest]
  BY BeginType DEF TripsTypeOK, AnyRequest
<1>2. q # Idle
  BY DEF TripRequest, Idle
<1>3. /\ proc' \in [Worker -> AnyRequest]
      /\ proc'[w] = q
      /\ \A v \in Worker \ {w} : proc'[v] = proc[v]
      /\ Busy(r)' = Busy(r) \cup {w}
  BY <1>1, <1>2, BusyNext
<1>4. w \notin Busy(r) /\ \A v \in Busy(r) : proc'[v] = proc[v]
  BY <1>1, <1>3 DEF Busy
<1>5. \A s \in Ride \ {r} : history'[s] = history[s]
  BY DEF Begin, Suffers, TripsTypeOK
<1> QED BY <1>1, <1>3, <1>4, <1>5 DEF AnyRequest

LEMMA PauseRowInv ==
  ASSUME TripsInv, NEW w \in Worker, NEW r \in Ride, PauseRow(w, r)
  PROVE  TripsInv'
<1> USE DEF TripsInv
<1>1. [op |-> "pause", ride |-> r] \in TripRequest
  BY DEF TripRequest
<1>2. PICK q \in TripRequest : q = [op |-> "pause", ride |-> r]
  BY <1>1
<1>3. /\ trip_status[r] = "STARTED"
      /\ trip_status' = [trip_status EXCEPT ![r] = "PAUSED"]
      /\ Begin(w, q, {})
      /\ UNCHANGED <<status, otp_hash, bill, trip_dist, paused_at, ping, now>>
  BY <1>2 DEF PauseRow, UpdateTrip
<1>4. /\ Proceed(w, q) /\ proc[w] = Idle
      /\ proc' \in [Worker -> {Idle} \cup TripRequest]
      /\ proc'[w] = q
      /\ Busy(r)' = Busy(r) \cup {w}
      /\ \A v \in Busy(r) : proc'[v] = proc[v]
      /\ \A s \in Ride \ {r} : history'[s] = history[s]
  BY <1>2, <1>3, BeginFrame
<1>5. /\ history' \in [Ride -> History]
      /\ history'[r].shown = history[r].shown
      /\ history'[r].entered = history[r].entered
      /\ history'[r].rested = history[r].rested
      /\ PausesInOrder(r)' =>
            Busy(r) = {} /\ PausesInOrder(r)
  BY <1>2, <1>3, BeginType
<1>6. TripsTypeOK'
  BY <1>3, <1>4, <1>5 DEF TripsTypeOK
<1>7. RowsAgree(r)' /\ FareIsComputed(r)'
  BY <1>3 DEF RideInv, RowsAgree, FareIsComputed, Completed, Absent
<1>8. OtpsWereShown(r)'
  BY <1>2, <1>3, <1>4, <1>5 DEF RideInv, OtpsWereShown, Absent
<1>9. PausesAreCounted(r)'
  <2>1. Elapsed(r)' = Elapsed(r)
    BY <1>3 DEF Elapsed
  <2> QED BY <1>2, <1>3, <1>4, <1>5, <2>1 DEF RideInv, PausesAreCounted, PausesInOrder
<1>10. RideInv(r)'
  BY <1>7, <1>8, <1>9 DEF RideInv
<1>11. \A s \in Ride \ {r} :
           /\ status'[s] = status[s] /\ trip_status'[s] = trip_status[s]
           /\ otp_hash'[s] = otp_hash[s] /\ bill'[s] = bill[s]
           /\ paused_at'[s] = paused_at[s] /\ history'[s] = history[s]
  BY <1>3, <1>4
<1>12. /\ status' \in [Ride -> RideStatus] /\ trip_status' \in [Ride -> TripStatus]
       /\ q.ride = r /\ now' = now /\ q \in AnyRequest
  BY <1>2, <1>3 DEF TripStatus, AnyRequest
<1> HIDE DEF TripsInv
<1> QED BY <1>4, <1>6, <1>10, <1>11, <1>12, ServeKeeps

LEMMA PauseMarkInv ==
  ASSUME TripsInv, NEW w \in Worker, PauseMark(w)
  PROVE  TripsInv'
<1> USE DEF TripsInv
<1>1. PICK r \in Ride : proc[w].op = "pause" /\ proc[w].ride = r /\ w \in Busy(r)
  BY Serves DEF PauseMark, Serving, TripOps
<1>0. CASE Suffers(r, {"fault"}) /\ UNCHANGED paused_at
  <2>1. /\ Proceed(w, Idle)
        /\ UNCHANGED <<status, trip_status, otp_hash, bill, trip_dist, paused_at, ping, now>>
    BY <1>0 DEF PauseMark, Done, Proceed, ledgerVars
  <2>2. /\ trip_dist' \in [Ride -> Nat] /\ history' \in [Ride -> History]
        /\ \A s \in Ride :
             /\ history'[s].shown = history[s].shown
             /\ history'[s].entered = history[s].entered
             /\ history'[s].rested = history[s].rested
             /\ PausesInOrder(s)' => PausesInOrder(s)
    BY <1>0, <2>1, MayFault DEF TripsTypeOK
  <2> HIDE DEF TripsInv
  <2> QED BY <1>1, <2>1, <2>2, IdleType, QuietStepInv DEF TripOps
<1> SUFFICES ASSUME paused_at' = [paused_at EXCEPT ![r] = now], UNCHANGED history
             PROVE  TripsInv'
  BY <1>0, <1>1 DEF PauseMark
<1>2. /\ Proceed(w, Idle)
      /\ paused_at' = [paused_at EXCEPT ![r] = now]
      /\ UNCHANGED <<status, trip_status, otp_hash, bill, trip_dist, ping, now, history>>
  BY <1>1 DEF PauseMark, Done, Proceed, ledgerVars
<1>3. /\ proc' \in [Worker -> {Idle} \cup TripRequest]
      /\ Busy(r)' = Busy(r) \ {w}
      /\ \A v \in Busy(r) \ {w} : proc'[v] = proc[v]
  BY <1>1, <1>2, GoesOn, IdleType DEF TripOps
<1>4. TripsTypeOK'
  BY <1>2, <1>3 DEF TripsTypeOK
<1>5. RowsAgree(r)' /\ FareIsComputed(r)'
  BY <1>2 DEF RideInv, RowsAgree, FareIsComputed, Completed, TripsTypeOK
<1>6. OtpsWereShown(r)'
  BY <1>2, <1>3 DEF RideInv, OtpsWereShown
<1>7. PausesAreCounted(r)'
  <2>1. Elapsed(r)' = 0
    <3>1. now - now = 0 /\ 0 * Second = 0
      BY TripsAssumption DEF TripsTypeOK
    <3> QED BY <1>2, <3>1 DEF Elapsed, TripsTypeOK
  <2>2. paused_at[r] = None => Elapsed(r) = 0
    BY DEF Elapsed
  <2>3. SUFFICES ASSUME PausesInOrder(r) PROVE PausesAreCounted(r)'
    BY <1>2 DEF PausesAreCounted, PausesInOrder
  <2>4. Busy(r)' = {} /\ trip_status[r] = "PAUSED" /\ paused_at[r] = None
    BY <1>1, <1>3, <2>3 DEF RideInv, PausesAreCounted, PausesInOrder
  <2> QED BY <1>2, <2>1, <2>2, <2>3, <2>4 DEF RideInv, PausesAreCounted, PausesInOrder
<1>8. RideInv(r)'
  BY <1>5, <1>6, <1>7 DEF RideInv
<1>9. \A s \in Ride \ {r} :
           /\ status'[s] = status[s] /\ trip_status'[s] = trip_status[s]
           /\ otp_hash'[s] = otp_hash[s] /\ bill'[s] = bill[s]
           /\ paused_at'[s] = paused_at[s] /\ history'[s] = history[s]
  BY <1>2 DEF TripsTypeOK
<1>10. status' \in [Ride -> RideStatus] /\ trip_status' \in [Ride -> TripStatus] /\ now' = now
  BY <1>2
<1> HIDE DEF TripsInv
<1> QED BY <1>1, <1>2, <1>4, <1>8, <1>9, <1>10, IdleType, ServeKeeps

LEMMA ResumeConsumeInv ==
  ASSUME TripsInv, NEW w \in Worker, NEW r \in Ride, ResumeConsume(w, r)
  PROVE  TripsInv'
<1> USE DEF TripsInv
<1>0. Elapsed(r) \in Nat
  BY ElapsedType DEF RideInv
<1>1. PICK elapsed \in {0, Elapsed(r)}, m \in SUBSET Mishap :
        /\ consumePause(r, elapsed, m)
        /\ Begin(w, [op |-> "resume", ride |-> r, paused |-> elapsed], m)
  BY DEF ResumeConsume
<1>01. elapsed \in Nat /\ elapsed <= Elapsed(r)
  BY <1>0
<1>02. [op |-> "resume", ride |-> r, paused |-> elapsed] \in TripRequest
  BY <1>01 DEF TripRequest
<1>2. PICK q \in TripRequest : q = [op |-> "resume", ride |-> r, paused |-> elapsed]
  BY <1>02
<1>3. /\ Begin(w, q, m)
      /\ \/ paused_at' = [paused_at EXCEPT ![r] = None]
         \/ paused_at' = paused_at /\ "kept" \in m
      /\ UNCHANGED <<status, trip_status, otp_hash, bill, trip_dist, ping, now>>
  BY <1>1, <1>2 DEF ResumeConsume, consumePause, ledgerVars
<1>4. /\ Proceed(w, q) /\ proc[w] = Idle
      /\ proc' \in [Worker -> {Idle} \cup TripRequest]
      /\ proc'[w] = q
      /\ Busy(r)' = Busy(r) \cup {w}
      /\ \A v \in Busy(r) : proc'[v] = proc[v]
      /\ \A s \in Ride \ {r} : history'[s] = history[s]
  BY <1>2, <1>3, BeginFrame
<1>5. /\ history' \in [Ride -> History]
      /\ history'[r].shown = history[r].shown
      /\ history'[r].entered = history[r].entered
      /\ history'[r].rested = history[r].rested
      /\ PausesInOrder(r)' =>
            Busy(r) = {} /\ PausesInOrder(r) /\ "kept" \notin m
  <2>1. q.ride = r
    BY <1>2
  <2> QED BY <1>3, <2>1, BeginType
<1>6. TripsTypeOK'
  BY <1>3, <1>4, <1>5 DEF TripsTypeOK
<1>7. RowsAgree(r)' /\ FareIsComputed(r)'
  BY <1>3 DEF RideInv, RowsAgree, FareIsComputed, Completed, TripsTypeOK
<1>8. OtpsWereShown(r)'
  BY <1>2, <1>3, <1>4, <1>5 DEF RideInv, OtpsWereShown
<1>9. PausesAreCounted(r)'
  <2>0. SUFFICES ASSUME PausesInOrder(r)' PROVE PausesAreCounted(r)'
    BY DEF PausesAreCounted
  <2>1. Elapsed(r)' = 0 /\ paused_at'[r] = None
    BY <1>3, <1>5, <2>0 DEF Elapsed, TripsTypeOK
  <2>2. bill[r].paused_seconds \in Nat
    BY DEF TripsTypeOK, Bill
  <2>3. history[r].rested \in Nat
    BY DEF TripsTypeOK, History
  <2>4. Busy(r)' = {w} /\ bill[r].paused_seconds + Elapsed(r) <= history[r].rested
    BY <1>4, <1>5, <2>0 DEF RideInv, PausesAreCounted
  <2> QED BY <1>0, <1>01, <1>2, <1>3, <1>4, <1>5, <2>1, <2>2, <2>3, <2>4 DEF PausesAreCounted
<1>10. RideInv(r)'
  BY <1>7, <1>8, <1>9 DEF RideInv
<1>11. \A s \in Ride \ {r} :
           /\ status'[s] = status[s] /\ trip_status'[s] = trip_status[s]
           /\ otp_hash'[s] = otp_hash[s] /\ bill'[s] = bill[s]
           /\ paused_at'[s] = paused_at[s] /\ history'[s] = history[s]
  BY <1>3, <1>4 DEF TripsTypeOK
<1>12. /\ status' \in [Ride -> RideStatus] /\ trip_status' \in [Ride -> TripStatus]
       /\ q.ride = r /\ now' = now /\ q \in AnyRequest
  BY <1>2, <1>3 DEF AnyRequest
<1> HIDE DEF TripsInv
<1> QED BY <1>4, <1>6, <1>10, <1>11, <1>12, ServeKeeps

LEMMA ResumeRowInv ==
  ASSUME TripsInv, NEW w \in Worker, ResumeRow(w)
  PROVE  TripsInv'
<1> USE DEF TripsInv
<1>1. PICK r \in Ride, paused \in Nat :
        /\ proc[w].op = "resume" /\ proc[w].ride = r /\ proc[w].paused = paused
        /\ w \in Busy(r)
  BY Serves DEF ResumeRow, Serving, TripOps
<1>2. /\ Proceed(w, Idle)
      /\ \/ /\ trip_status[r] = "PAUSED"
            /\ trip_status' = [trip_status EXCEPT ![r] = "STARTED"]
            /\ bill' = [bill EXCEPT ![r].paused_seconds = @ + paused]
         \/ UNCHANGED <<trip_status, bill>>
      /\ UNCHANGED <<status, otp_hash, trip_dist, paused_at, ping, now, history>>
  BY <1>1 DEF ResumeRow, Done, Proceed, UpdateTrip
<1>3. /\ proc' \in [Worker -> {Idle} \cup TripRequest]
      /\ Busy(r)' = Busy(r) \ {w}
      /\ \A v \in Busy(r) \ {w} : proc'[v] = proc[v]
  BY <1>1, <1>2, GoesOn, IdleType DEF TripOps
<1>4. bill' \in [Ride -> Bill]
  BY <1>2 DEF TripsTypeOK, Bill
<1>5. TripsTypeOK'
  BY <1>2, <1>3, <1>4 DEF TripsTypeOK
<1>6. CASE UNCHANGED <<trip_status, bill>>
  <2>1. \A v \in Busy(r)' : v \in Busy(r) /\ proc'[v] = proc[v]
    BY <1>3
  <2>2. RideInv(r)'
    BY <1>2, <1>6, <2>1, RideKept DEF PausesInOrder
  <2>3. \A s \in Ride \ {r} :
           /\ status'[s] = status[s] /\ trip_status'[s] = trip_status[s]
           /\ otp_hash'[s] = otp_hash[s] /\ bill'[s] = bill[s]
           /\ paused_at'[s] = paused_at[s] /\ history'[s] = history[s]
    BY <1>2, <1>6
  <2>4. status' \in [Ride -> RideStatus] /\ trip_status' \in [Ride -> TripStatus] /\ now' = now
    BY <1>2, <1>6
  <2> HIDE DEF TripsInv
  <2> QED BY <1>1, <1>2, <1>5, <2>2, <2>3, <2>4, IdleType, ServeKeeps
<1>7. CASE /\ trip_status[r] = "PAUSED"
           /\ trip_status' = [trip_status EXCEPT ![r] = "STARTED"]
           /\ bill' = [bill EXCEPT ![r].paused_seconds = @ + paused]
  <2>1. RowsAgree(r)' /\ FareIsComputed(r)'
    BY <1>2, <1>7 DEF RideInv, RowsAgree, FareIsComputed, Completed, Absent
  <2>2. OtpsWereShown(r)'
    BY <1>2, <1>3, <1>7 DEF RideInv, OtpsWereShown, Absent
  <2>3. PausesAreCounted(r)'
    <3>1. bill'[r].paused_seconds = bill[r].paused_seconds + paused
      BY <1>7 DEF TripsTypeOK, Bill
    <3>2. bill[r].paused_seconds \in Nat /\ history[r].rested \in Nat
      BY DEF TripsTypeOK, Bill, History
    <3>3. SUFFICES ASSUME PausesInOrder(r) PROVE PausesAreCounted(r)'
      BY <1>2 DEF PausesAreCounted, PausesInOrder
    <3>4. /\ Busy(r)' = {} /\ paused_at[r] = None
          /\ bill[r].paused_seconds + paused <= history[r].rested
      BY <1>1, <1>3, <3>3 DEF RideInv, PausesAreCounted, PausesInOrder
    <3>5. Elapsed(r)' = 0
      BY <1>2, <3>4 DEF Elapsed
    <3> QED BY <1>2, <3>1, <3>2, <3>4, <3>5 DEF PausesAreCounted, PausesInOrder
  <2>4. RideInv(r)'
    BY <2>1, <2>2, <2>3 DEF RideInv
  <2>5. \A s \in Ride \ {r} :
           /\ status'[s] = status[s] /\ trip_status'[s] = trip_status[s]
           /\ otp_hash'[s] = otp_hash[s] /\ bill'[s] = bill[s]
           /\ paused_at'[s] = paused_at[s] /\ history'[s] = history[s]
    BY <1>2, <1>7 DEF TripsTypeOK
  <2>6. status' \in [Ride -> RideStatus] /\ trip_status' \in [Ride -> TripStatus] /\ now' = now
    BY <1>2, <1>7 DEF TripStatus
  <2> HIDE DEF TripsInv
  <2> QED BY <1>1, <1>2, <1>5, <2>4, <2>5, <2>6, IdleType, ServeKeeps
<1> QED BY <1>2, <1>6, <1>7

(***************************************************************************)
(* End.                                                                    *)
(***************************************************************************)

LEMMA EndFoldInv ==
  ASSUME TripsInv, NEW w \in Worker, EndFold(w)
  PROVE  TripsInv'
<1> USE DEF TripsInv
<1>1. PICK r \in Ride : proc[w].op = "end" /\ proc[w].ride = r /\ w \in Busy(r)
  BY Serves DEF EndFold, Serving, TripOps
<1>2. Elapsed(r) \in Nat /\ bill[r].paused_seconds \in Nat /\ history[r].rested \in Nat
  BY ElapsedType DEF RideInv, TripsTypeOK, Bill, History
<1>3. PICK elapsed \in {0, Elapsed(r)}, m \in SUBSET Mishap :
        /\ \/ trip_status[r] = "PAUSED" /\ consumePause(r, elapsed, m)
           \/ trip_status[r] # "PAUSED" /\ elapsed = 0 /\ m = {} /\ UNCHANGED paused_at
        /\ Proceed(w, [op |-> "meter", ride |-> r,
                       paused |-> bill[r].paused_seconds + elapsed])
        /\ Suffers(r, m)
  BY <1>1 DEF EndFold
<1>31. PICK paused \in Nat : paused = bill[r].paused_seconds + elapsed
  BY <1>2
<1>32. elapsed \in Nat /\ elapsed <= Elapsed(r)
  BY <1>2
<1>4. [op |-> "meter", ride |-> r, paused |-> paused] \in AnyRequest
  BY DEF AnyRequest, TripRequest
<1>5. PICK q \in AnyRequest : q = [op |-> "meter", ride |-> r, paused |-> paused]
  BY <1>4
<1>6. /\ Proceed(w, q)
      /\ \/ trip_status[r] = "PAUSED" /\ paused_at' = [paused_at EXCEPT ![r] = None]
         \/ trip_status[r] # "PAUSED" /\ paused_at' = paused_at
         \/ "kept" \in m /\ paused_at' = paused_at
      /\ UNCHANGED <<status, trip_status, otp_hash, bill, trip_dist, ping, now>>
  BY <1>1, <1>3, <1>31, <1>5 DEF EndFold, consumePause, ledgerVars
<1>61. /\ history' \in [Ride -> History]
       /\ history'[r].shown = history[r].shown
       /\ history'[r].entered = history[r].entered
       /\ history'[r].rested = history[r].rested
       /\ PausesInOrder(r)' => PausesInOrder(r) /\ "kept" \notin m
       /\ \A s \in Ride \ {r} : history'[s] = history[s]
  BY <1>3, SuffersType DEF TripsTypeOK, PausesInOrder
<1>7. /\ proc' \in [Worker -> {Idle} \cup TripRequest]
      /\ proc'[w] = q
      /\ Busy(r)' = Busy(r)
      /\ \A v \in Busy(r) \ {w} : proc'[v] = proc[v]
  <2>1. q # Idle /\ q.ride = r /\ proc[w].op \in TripOps
    BY <1>1, <1>5 DEF Idle, TripOps
  <2> QED BY <1>1, <1>6, <2>1, GoesOn
<1>8. TripsTypeOK'
  BY <1>6, <1>61, <1>7 DEF TripsTypeOK
<1>9. RowsAgree(r)' /\ FareIsComputed(r)'
  BY <1>6 DEF RideInv, RowsAgree, FareIsComputed, Completed, TripsTypeOK
<1>10. OtpsWereShown(r)'
  BY <1>5, <1>6, <1>61, <1>7 DEF RideInv, OtpsWereShown
<1>11. PausesAreCounted(r)'
  <2>1. SUFFICES ASSUME PausesInOrder(r)' PROVE PausesAreCounted(r)'
    BY DEF PausesAreCounted
  <2>2. /\ paused_at[r] # None => trip_status[r] = "PAUSED"
        /\ bill[r].paused_seconds + Elapsed(r) <= history[r].rested
        /\ \A v \in Busy(r) : v = w
    BY <1>1, <1>61, <2>1 DEF RideInv, PausesAreCounted
  <2>3. paused_at'[r] = None /\ Elapsed(r)' = 0
    BY <1>6, <1>61, <2>1, <2>2 DEF Elapsed, TripsTypeOK
  <2>4. paused <= history[r].rested /\ bill[r].paused_seconds + 0 <= history[r].rested
    BY <1>2, <1>31, <1>32, <2>2
  <2> QED BY <1>1, <1>5, <1>6, <1>61, <1>7, <2>2, <2>3, <2>4 DEF PausesAreCounted
<1>12. RideInv(r)'
  BY <1>9, <1>10, <1>11 DEF RideInv
<1>13. \A s \in Ride \ {r} :
           /\ status'[s] = status[s] /\ trip_status'[s] = trip_status[s]
           /\ otp_hash'[s] = otp_hash[s] /\ bill'[s] = bill[s]
           /\ paused_at'[s] = paused_at[s] /\ history'[s] = history[s]
  BY <1>6, <1>61 DEF TripsTypeOK
<1>14. /\ status' \in [Ride -> RideStatus] /\ trip_status' \in [Ride -> TripStatus]
       /\ q.ride = r /\ now' = now
  BY <1>5, <1>6
<1> HIDE DEF TripsInv
<1> QED BY <1>1, <1>6, <1>8, <1>12, <1>13, <1>14, ServeKeeps

LEMMA EndMeterInv ==
  ASSUME TripsInv, NEW w \in Worker, EndMeter(w) \/ EndDrain(w)
  PROVE  TripsInv'
<1>1. PICK r \in Ride, paused \in Nat :
        /\ proc[w].op \in {"meter", "drain"} /\ proc[w].ride = r /\ proc[w].paused = paused
        /\ proc[w].op = "drain" => proc[w].metres \in Nat
  BY Serves DEF TripsInv, EndMeter, EndDrain, Serving, TripOps
<1>2. /\ UNCHANGED <<status, trip_status, otp_hash, bill, paused_at, ping, now>>
      /\ trip_dist' \in [Ride -> Nat]
      /\ UNCHANGED history \/ Suffers(r, {"fault"})
  BY <1>1 DEF TripsInv, TripsTypeOK, EndMeter, EndDrain, ledgerVars
<1>3. PICK metres \in Nat, op \in {"drain", "bill"} :
        Proceed(w, [op |-> op, ride |-> r, paused |-> paused, metres |-> metres])
  <2>1. CASE EndMeter(w)
    <3>1. trip_dist[r] \in Nat /\ Quote.distance \in Nat
      BY TripsAssumption DEF TripsInv, TripsTypeOK
    <3>2. \/ Proceed(w, [op |-> "bill", ride |-> r, paused |-> paused,
                         metres |-> Quote.distance])
          \/ Proceed(w, [op |-> "drain", ride |-> r, paused |-> paused,
                         metres |-> trip_dist[r]])
      BY <1>1, <2>1 DEF EndMeter
    <3>3. PICK m \in Nat : m = trip_dist[r]
      BY <3>1
    <3>4. PICK n \in Nat : n = Quote.distance
      BY <3>1
    <3> QED BY <3>2, <3>3, <3>4
  <2>2. CASE EndDrain(w)
    <3>1. PICK m \in Nat : m = proc[w].metres
      BY <1>1, <2>2 DEF EndDrain, Serving
    <3>2. proc[w] = [op |-> "drain", ride |-> r, paused |-> paused, metres |-> m]
      BY <1>1, <2>2, <3>1
         DEF EndDrain, Serving, TripsInv, TripsTypeOK, TripRequest, Idle
    <3>3. [proc[w] EXCEPT !.op = "bill"]
            = [op |-> "bill", ride |-> r, paused |-> paused, metres |-> m]
      BY <3>2
    <3> QED BY <2>2, <3>3 DEF EndDrain
  <2> QED BY <2>1, <2>2
<1>4. [op |-> op, ride |-> r, paused |-> paused, metres |-> metres] \in AnyRequest
  BY DEF AnyRequest, TripRequest
<1>5. PICK q \in AnyRequest :
        q = [op |-> op, ride |-> r, paused |-> paused, metres |-> metres]
  BY <1>4
<1>6. /\ q.op \in {"drain", "bill"} /\ q.ride = r /\ q.paused = paused
      /\ Proceed(w, q) /\ proc[w].op \in TripOps
  BY <1>1, <1>3, <1>5 DEF TripOps
<1>7. /\ history' \in [Ride -> History]
      /\ \A s \in Ride :
           /\ history'[s].shown = history[s].shown
           /\ history'[s].entered = history[s].entered
           /\ history'[s].rested = history[s].rested
           /\ PausesInOrder(s)' => PausesInOrder(s)
  BY <1>2, MayFault DEF TripsInv, TripsTypeOK
<1> QED BY <1>1, <1>2, <1>6, <1>7, QuietStepInv

LEMMA EndBillInv ==
  ASSUME TripsInv, NEW w \in Worker, EndRowsAndFare(w)
  PROVE  TripsInv'
<1> USE DEF TripsInv
<1>1. PICK r \in Ride, paused \in Nat, metres \in Nat :
        /\ proc[w].op = "bill" /\ proc[w].ride = r
        /\ proc[w].paused = paused /\ proc[w].metres = metres
        /\ w \in Busy(r)
  BY Serves DEF EndRowsAndFare, Serving, TripOps
<1>2. PICK total \in FinalFare(Rates, metres, Duration(bill[r].started_at, now, paused),
                               Quote.surge) :
        bill' = [bill EXCEPT ![r] = [started_at |-> bill[r].started_at, ended_at |-> now,
                                     paused_seconds |-> paused, distance_m |-> metres,
                                     fare_total |-> total]]
  BY <1>1 DEF EndRowsAndFare
<1>3. /\ Proceed(w, Idle)
      /\ trip_status[r] \in {"STARTED", "PAUSED"}
      /\ status' = [status EXCEPT ![r] = "COMPLETED"]
      /\ trip_status' = [trip_status EXCEPT ![r] = "ENDED"]
      /\ UNCHANGED <<otp_hash, trip_dist, paused_at, ping, now, history>>
  BY <1>1
     DEF EndRowsAndFare, EndRows, UpdateStatus, SetStatus, UpdateTrip, Done, Proceed
<1>4. /\ proc' \in [Worker -> {Idle} \cup TripRequest]
      /\ Busy(r)' = Busy(r) \ {w}
      /\ \A v \in Busy(r) \ {w} : proc'[v] = proc[v]
  BY <1>1, <1>3, GoesOn, IdleType DEF TripOps
<1>5. total \in Nat /\ now \in Nat /\ bill[r].started_at \in Nat
  <2>1. now \in Nat /\ bill[r].started_at \in Nat
    BY TripsAssumption DEF TripsTypeOK, Bill
  <2>2. Duration(bill[r].started_at, now, paused) \in Nat
    BY <2>1, DurationType
  <2>3. Rates \in RatesType /\ Quote.surge \in SurgeX100
    BY TripsAssumption
  <2> QED BY <1>2, <2>1, <2>2, <2>3, FinalFareType
<1>6. /\ bill'[r].started_at = bill[r].started_at
      /\ bill'[r].ended_at = now
      /\ bill'[r].paused_seconds = paused
      /\ bill'[r].distance_m = metres
      /\ bill'[r].fare_total = total
      /\ bill' \in [Ride -> Bill]
  <2> DEFINE b == [started_at |-> bill[r].started_at, ended_at |-> now,
                   paused_seconds |-> paused, distance_m |-> metres, fare_total |-> total]
  <2>1. total \in Int
    BY <1>5
  <2>2. /\ b \in Bill
        /\ b.started_at = bill[r].started_at /\ b.ended_at = now
        /\ b.paused_seconds = paused /\ b.distance_m = metres /\ b.fare_total = total
    BY <1>5, <2>1 DEF Bill
  <2>3. bill' = [bill EXCEPT ![r] = b]
    BY <1>2
  <2> HIDE DEF b
  <2> QED BY <2>2, <2>3 DEF TripsTypeOK
<1>7. TripsTypeOK'
  BY <1>3, <1>4, <1>6 DEF TripsTypeOK
<1>8. RowsAgree(r)'
  BY <1>3 DEF RideInv, RowsAgree, Completed
<1>9. FareIsComputed(r)'
  BY <1>2, <1>6 DEF FareIsComputed
<1>10. OtpsWereShown(r)'
  BY <1>3, <1>4 DEF RideInv, OtpsWereShown, Absent
<1>11. PausesAreCounted(r)'
  <2>1. SUFFICES ASSUME PausesInOrder(r) PROVE PausesAreCounted(r)'
    BY <1>3 DEF PausesAreCounted, PausesInOrder
  <2>2. Busy(r)' = {} /\ paused_at[r] = None /\ paused <= history[r].rested
    BY <1>1, <1>4, <2>1 DEF RideInv, PausesAreCounted, PausesInOrder
  <2>3. Elapsed(r)' = 0
    BY <1>3, <2>2 DEF Elapsed
  <2> QED BY <1>3, <1>6, <2>2, <2>3 DEF PausesAreCounted, PausesInOrder
<1>12. RideInv(r)'
  BY <1>8, <1>9, <1>10, <1>11 DEF RideInv
<1>13. \A s \in Ride \ {r} :
           /\ status'[s] = status[s] /\ trip_status'[s] = trip_status[s]
           /\ otp_hash'[s] = otp_hash[s] /\ bill'[s] = bill[s]
           /\ paused_at'[s] = paused_at[s] /\ history'[s] = history[s]
  BY <1>2, <1>3 DEF TripsTypeOK
<1>14. /\ status' \in [Ride -> RideStatus] /\ trip_status' \in [Ride -> TripStatus]
       /\ now' = now
  BY <1>3 DEF RideStatus, TripStatus
<1> HIDE DEF TripsInv
<1> QED BY <1>1, <1>3, <1>7, <1>12, <1>13, <1>14, IdleType, ServeKeeps

(***************************************************************************)
(* Calls that read, failures, pings and the clock.                         *)
(***************************************************************************)

LEMMA ReadInv ==
  ASSUME TripsInv, NEW w \in Worker, NEW r \in Ride,
         (\E code \in 1 .. MaxCodes : StartCompare(w, r, code)) \/ EndLoad(w, r)
  PROVE  TripsInv'
<1>1. ASSUME NEW code \in 1 .. MaxCodes, StartCompare(w, r, code) PROVE TripsInv'
  <2>1. [op |-> "start", ride |-> r, code |-> code] \in TripRequest
    BY DEF TripRequest
  <2>2. PICK q \in TripRequest : q = [op |-> "start", ride |-> r, code |-> code]
    BY <2>1
  <2>3. /\ Begin(w, q, {}) /\ status[r] = "ARRIVED" /\ otp_hash[r] = code
        /\ UNCHANGED <<status, trip_status, otp_hash, bill, trip_dist, paused_at, ping, now>>
    BY <1>1, <2>2 DEF StartCompare, ledgerVars
  <2>4. q.op = "start" /\ q.ride = r /\ q.code = code
    BY <2>2
  <2> QED BY <2>3, <2>4, BeginKeeps
<1>2. ASSUME EndLoad(w, r) PROVE TripsInv'
  <2>1. [op |-> "end", ride |-> r] \in TripRequest
    BY DEF TripRequest
  <2>2. PICK q \in TripRequest : q = [op |-> "end", ride |-> r]
    BY <2>1
  <2>3. /\ Begin(w, q, {}) /\ q.op = "end"
        /\ UNCHANGED <<status, trip_status, otp_hash, bill, trip_dist, paused_at, ping, now>>
    BY <1>2, <2>2 DEF EndLoad, ledgerVars
  <2> QED BY <2>3, BeginKeeps
<1> QED BY <1>1, <1>2

LEMMA RefusedInv ==
  ASSUME TripsInv, NEW w \in Worker, Refused(w)
  PROVE  TripsInv'
<1>1. /\ Proceed(w, Idle) /\ proc[w].op \in TripOps
      /\ UNCHANGED <<status, trip_status, otp_hash, bill, trip_dist, paused_at, ping, now, history>>
  BY DEF Refused, Serving, Done, Proceed, TripOps, ledgerVars
<1>2. trip_dist' \in [Ride -> Nat] /\ history' \in [Ride -> History]
  BY <1>1 DEF TripsInv, TripsTypeOK
<1> QED BY <1>1, <1>2, IdleType, QuietStepInv DEF PausesInOrder

LEMMA CutInv ==
  ASSUME TripsInv, NEW w \in Worker, Cut(w)
  PROVE  TripsInv'
<1>1. proc[w].op \in TripOps
  BY TripFields DEF Cut, TripsInv, TripsTypeOK, AnyRequest
<1>2. PICK r \in Ride : proc[w].ride = r
  BY <1>1, Serves DEF TripsInv
<1>3. /\ Proceed(w, Idle)
      /\ Suffers(r, {"fault"})
      /\ UNCHANGED <<status, trip_status, otp_hash, bill, trip_dist, paused_at, ping, now>>
  BY <1>2 DEF Cut, Done, Proceed, ledgerVars
<1>4. /\ trip_dist' \in [Ride -> Nat] /\ history' \in [Ride -> History]
      /\ \A s \in Ride :
           /\ history'[s].shown = history[s].shown
           /\ history'[s].entered = history[s].entered
           /\ history'[s].rested = history[s].rested
           /\ PausesInOrder(s)' => PausesInOrder(s)
  BY <1>3, MayFault DEF TripsInv, TripsTypeOK
<1> QED BY <1>1, <1>3, <1>4, IdleType, QuietStepInv

\* Metres driven are all that a ping adds to the history.
LEMMA HistoryMoved ==
  ASSUME history \in [Ride -> History], NEW r \in Ride, NEW d \in Nat,
         \/ history' = [history EXCEPT ![r].rolling = @ + d]
         \/ history' = [history EXCEPT ![r].driven = @ + d]
         \/ history' = [history EXCEPT ![r].strayed = @ + d]
  PROVE  /\ history' \in [Ride -> History]
         /\ \A s \in Ride :
              /\ history'[s].shown = history[s].shown
              /\ history'[s].entered = history[s].entered
              /\ history'[s].rested = history[s].rested
              /\ history'[s].mishaps = history[s].mishaps
<1>1. /\ history[r].rolling + d \in Nat
      /\ history[r].driven + d \in Nat
      /\ history[r].strayed + d \in Nat
  BY DEF History
<1>2. CASE history' = [history EXCEPT ![r].rolling = @ + d]
  BY <1>1, <1>2 DEF History
<1>3. CASE history' = [history EXCEPT ![r].driven = @ + d]
  BY <1>1, <1>3 DEF History
<1>4. CASE history' = [history EXCEPT ![r].strayed = @ + d]
  BY <1>1, <1>4 DEF History
<1> QED BY <1>2, <1>3, <1>4

LEMMA PingInv ==
  ASSUME TripsInv, NEW r \in Ride, PingRead(r) \/ PingMeter(r)
  PROVE  TripsInv'
<1> USE DEF TripsInv
<1>0. Delta \in Nat
  BY TripsAssumption
<1>1. /\ UNCHANGED <<status, trip_status, proc, otp_hash, bill, paused_at, now>>
      /\ ping' \in [Ride -> {"none", "pickup", "trip"}]
      /\ trip_dist' \in [Ride -> Nat]
  <2>1. CASE PingRead(r)
    BY <2>1 DEF PingRead, vars, TripsTypeOK
  <2>2. CASE PingMeter(r)
    <3>1. /\ UNCHANGED <<status, trip_status, proc, otp_hash, bill, paused_at, now>>
          /\ ping' = [ping EXCEPT ![r] = "none"]
          /\ trip_dist' = [trip_dist EXCEPT ![r] = @ + Delta]
      BY <2>2 DEF PingMeter, vars
    <3>2. trip_dist[r] + Delta \in Nat
      BY <1>0 DEF TripsTypeOK
    <3> QED BY <3>1, <3>2 DEF TripsTypeOK
  <2> QED BY <2>1, <2>2
<1>2. \/ history' = history
      \/ history' = [history EXCEPT ![r].rolling = @ + Delta]
      \/ history' = [history EXCEPT ![r].driven = @ + Delta]
      \/ history' = [history EXCEPT ![r].strayed = @ + Delta]
  BY DEF PingRead, PingMeter
<1>3. /\ history' \in [Ride -> History]
      /\ \A s \in Ride :
           /\ history'[s].shown = history[s].shown
           /\ history'[s].entered = history[s].entered
           /\ history'[s].rested = history[s].rested
           /\ history'[s].mishaps = history[s].mishaps
  <2>1. history \in [Ride -> History]
    BY DEF TripsTypeOK
  <2>2. CASE history' = history
    BY <2>1, <2>2
  <2>3. CASE history' = [history EXCEPT ![r].rolling = @ + Delta]
    BY <1>0, <2>1, <2>3, HistoryMoved
  <2>4. CASE history' = [history EXCEPT ![r].driven = @ + Delta]
    BY <1>0, <2>1, <2>4, HistoryMoved
  <2>5. CASE history' = [history EXCEPT ![r].strayed = @ + Delta]
    BY <1>0, <2>1, <2>5, HistoryMoved
  <2> QED BY <1>2, <2>2, <2>3, <2>4, <2>5
<1>4. TripsTypeOK'
  BY <1>1, <1>3 DEF TripsTypeOK
<1>5. ASSUME NEW s \in Ride PROVE RideInv(s)'
  <2>1. \A v \in Busy(s)' : v \in Busy(s) /\ proc'[v] = proc[v]
    BY <1>1 DEF Busy
  <2> QED BY <1>1, <1>3, <2>1, RideKept DEF PausesInOrder
<1> QED BY <1>1, <1>4, <1>5

LEMMA OneMoreTick ==
  ASSUME NEW a \in Nat, NEW b \in Nat, NEW k \in Nat
  PROVE  /\ ((a + 1) - b) * k = (a - b) * k + k
         /\ (a - b) * k \in Int
<1> DEFINE n == a - b
<1>1. n \in Int /\ (a + 1) - b = n + 1
  OBVIOUS
<1> HIDE DEF n
<1>2. (n + 1) * k = n * k + k /\ n * k \in Int
  BY <1>1
<1> QED BY <1>1, <1>2 DEF n

LEMMA TickInv ==
  ASSUME TripsInv, Tick
  PROVE  TripsInv'
<1> USE DEF TripsInv
<1>1. /\ UNCHANGED <<status, trip_status, proc, otp_hash, bill, trip_dist, paused_at, ping>>
      /\ now' = now + 1 /\ now' \in 0 .. MaxTime
      /\ \A s \in Ride : Busy(s)' = {}
  BY TripsAssumption DEF Tick, vars, Busy, TripsTypeOK
<1>2. history' = [r \in Ride |-> IF trip_status[r] = "PAUSED"
                                 THEN [history[r] EXCEPT !.rested = @ + Second] ELSE history[r]]
  BY DEF Tick
<1>3. /\ history' \in [Ride -> History]
      /\ \A s \in Ride :
           /\ history'[s].shown = history[s].shown
           /\ history'[s].entered = history[s].entered
           /\ history'[s].mishaps = history[s].mishaps
           /\ history'[s].rested =
                IF trip_status[s] = "PAUSED" THEN history[s].rested + Second ELSE history[s].rested
  <2>1. ASSUME NEW s \in Ride
        PROVE  /\ history'[s] \in History
               /\ history'[s].shown = history[s].shown
               /\ history'[s].entered = history[s].entered
               /\ history'[s].mishaps = history[s].mishaps
               /\ history'[s].rested = IF trip_status[s] = "PAUSED"
                                      THEN history[s].rested + Second ELSE history[s].rested
    <3>1. history[s] \in History /\ history[s].rested + Second \in Nat
      BY TripsAssumption DEF TripsTypeOK, History
    <3>2. CASE trip_status[s] = "PAUSED"
      <4>1. history'[s] = [history[s] EXCEPT !.rested = history[s].rested + Second]
        BY <1>2, <3>2
      <4> QED BY <3>1, <3>2, <4>1 DEF History
    <3>3. CASE trip_status[s] # "PAUSED"
      BY <1>2, <3>1, <3>3
    <3> QED BY <3>2, <3>3
  <2>2. DOMAIN history' = Ride /\ history' = [s \in Ride |-> history'[s]]
    BY <1>2
  <2> QED BY <2>1, <2>2
<1>4. TripsTypeOK'
  BY <1>1, <1>3 DEF TripsTypeOK
<1>5. ASSUME NEW s \in Ride PROVE RideInv(s)'
  <2>1. RowsAgree(s)'
    BY <1>1, TripsAssumption DEF RideInv, RowsAgree, Completed, TripsTypeOK
  <2>2. FareIsComputed(s)' /\ OtpsWereShown(s)'
    BY <1>1, <1>3 DEF RideInv, FareIsComputed, Completed, OtpsWereShown
  <2>3. PausesAreCounted(s)'
    <3>1. /\ bill[s].paused_seconds \in Nat /\ history[s].rested \in Nat
          /\ Second \in Nat /\ now \in Nat
      BY TripsAssumption DEF TripsTypeOK, Bill, History
    <3>2. CASE paused_at[s] = None
      <4>1. Elapsed(s)' = 0 /\ Elapsed(s) = 0
        BY <1>1, <3>2 DEF Elapsed
      <4> QED BY <1>1, <1>3, <3>1, <3>2, <4>1 DEF RideInv, PausesAreCounted, PausesInOrder
    <3>3. CASE paused_at[s] # None
      <4>1. Elapsed(s) = (now - paused_at[s]) * Second /\ paused_at[s] \in Nat
        BY <3>3 DEF Elapsed, TripsTypeOK
      <4>2. Elapsed(s)' = ((now + 1) - paused_at[s]) * Second
        <5>1. now' = now + 1 /\ paused_at' = paused_at
          BY <1>1
        <5> QED BY <3>3, <5>1, Zenon DEF Elapsed
      <4>3. Elapsed(s)' = Elapsed(s) + Second /\ Elapsed(s) \in Int
        <5>1. /\ ((now + 1) - paused_at[s]) * Second = (now - paused_at[s]) * Second + Second
              /\ (now - paused_at[s]) * Second \in Int
          BY <3>1, <4>1, OneMoreTick, Zenon
        <5> QED BY <4>1, <4>2, <5>1, Zenon
      <4> QED BY <1>1, <1>3, <3>1, <3>3, <4>3 DEF RideInv, PausesAreCounted, PausesInOrder
    <3> QED BY <3>2, <3>3
  <2> QED BY <2>1, <2>2, <2>3 DEF RideInv
<1> QED BY <1>1, <1>4, <1>5

LEMMA TripsStepInv == TripsInv /\ [TripsNext]_tripVars => TripsInv'
<1> SUFFICES ASSUME TripsInv, [TripsNext]_tripVars PROVE TripsInv'
  OBVIOUS
<1>1. CASE UNCHANGED tripVars
  <2>1. ASSUME NEW s \in Ride PROVE RideInv(s)'
    <3>1. \A v \in Busy(s)' : v \in Busy(s) /\ proc'[v] = proc[v]
      BY <1>1 DEF tripVars, vars, Busy
    <3> QED BY <1>1, <3>1, RideKept DEF PausesInOrder, tripVars, vars, TripsInv
  <2> QED BY <1>1, <2>1 DEF tripVars, vars, TripsInv, TripsTypeOK
<1>2. ASSUME NEW w \in Worker, Step(w) PROVE TripsInv'
  BY <1>2, StartRowsInv, ResetMeterInv, PauseMarkInv, ResumeRowInv, EndFoldInv, EndMeterInv,
     EndBillInv, RefusedInv, CutInv
  DEF Step
<1>3. ASSUME NEW w \in Worker, NEW r \in Ride, Call(w, r) PROVE TripsInv'
  BY <1>3, ReadInv, PauseRowInv, ResumeConsumeInv DEF Call
<1> QED BY <1>1, <1>2, <1>3, RegenerateOTPInv, ArriveInv, PingInv, TickInv DEF TripsNext

\* The inductive invariant holds in every reachable state.
THEOREM TripsInvariance == TripsSpec => []TripsInv
BY TripsInitInv, TripsStepInv, PTL DEF TripsSpec

\* Bills, keys, requests and the history keep their types.
THEOREM TripsTypes == TripsSpec => []TripsTypeOK
<1>1. TripsInv => TripsTypeOK
  BY DEF TripsInv
<1> QED BY <1>1, TripsInvariance, PTL

\* Whatever races, only an OTP that was current while the car waited starts a trip.
THEOREM OnlyTheShownOTPStarts == TripsSpec => []StartedWithItsOTP
<1>1. TripsInv => StartedWithItsOTP
  BY DEF TripsInv, RideInv, OtpsWereShown, StartedWithItsOTP
<1> QED BY <1>1, TripsInvariance, PTL

\* No retry, no request cut short, no SET that fails and no GETDEL whose reply is
\* lost counts a second of a pause twice or a second of driving as paused, for any
\* number of pauses and any clock.  Rides whose requests overlapped, or of which a
\* failed GETDEL left a pause behind, are not spoken of.
THEOREM PausesAreNotInvented == TripsSpec => []NoPauseInvented
<1>1. TripsInv => NoPauseInvented
  <2> SUFFICES ASSUME TripsInv, NEW r \in Ride, PausesInOrder(r)
               PROVE  bill[r].paused_seconds <= history[r].rested
    BY DEF NoPauseInvented
  <2>1. /\ bill[r].paused_seconds + Elapsed(r) <= history[r].rested
        /\ Elapsed(r) \in Nat
    BY ElapsedType DEF TripsInv, RideInv, PausesAreCounted, PausesInOrder
  <2>2. bill[r].paused_seconds \in Nat /\ history[r].rested \in Nat
    BY DEF TripsInv, TripsTypeOK, Bill, History
  <2> QED BY <2>1, <2>2
<1> QED BY <1>1, TripsInvariance, PTL

\* The rider is billed what he was quoted, to a rupee, when the trip was what was
\* estimated: for all rates, distances, durations and surges.
THEOREM TheQuoteIsKept == TripsSpec => []QuoteIsKept
<1>1. TripsInv => QuoteIsKept
  <2> SUFFICES ASSUME TripsInv, NEW r \in Ride, Completed(r),
                      bill[r].distance_m = Quote.distance,
                      (bill[r].ended_at - bill[r].started_at) * Second
                        - bill[r].paused_seconds = Quote.duration
               PROVE  bill[r].fare_total \in Quote.fare - 100 .. Quote.fare + 100
    BY DEF QuoteIsKept
  <2>1. Duration(bill[r].started_at, bill[r].ended_at, bill[r].paused_seconds) = Quote.duration
    BY TripsAssumption DEF Duration
  <2>2. bill[r].fare_total \in
          FinalFare(Rates, Quote.distance, Quote.duration, Quote.surge)
    BY <2>1 DEF TripsInv, RideInv, FareIsComputed
  <2>3. /\ Quote.fare \in Nat /\ bill[r].fare_total \in Nat
        /\ bill[r].fare_total - Quote.fare \in {-100, 0, 100}
    BY <2>2, TripsAssumption, FinalFareNearFare
  <2> QED BY <2>3, SMT
<1> QED BY <1>1, TripsInvariance, PTL

(***************************************************************************)
(* Meter and pauses, exact while the requests of a ride are undisturbed.   *)
(***************************************************************************)

\* The fields of a ride's bill and history are numbers.
LEMMA Numbers ==
  ASSUME TripsTypeOK, NEW r \in Ride
  PROVE  /\ bill[r].started_at \in Nat /\ bill[r].ended_at \in Nat
         /\ bill[r].paused_seconds \in Nat /\ bill[r].distance_m \in Nat
         /\ history[r].driven \in Nat /\ history[r].rolling \in Nat
         /\ history[r].strayed \in Nat /\ history[r].rested \in Nat
         /\ trip_dist[r] \in Nat /\ now \in Nat
         /\ Second \in Nat /\ Delta \in Nat /\ Quote.distance \in Nat
BY TripsAssumption DEF TripsTypeOK, Bill, History

\* The request at work on an undisturbed ride is the only one.
LEMMA OnlyOne ==
  ASSUME TripsInv, NEW w \in Worker, NEW q \in AnyRequest, Proceed(w, q), NEW r \in Ride,
         Undisturbed(r),
         proc[w] # Idle => proc[w].ride = r, q # Idle => q.ride = r,
         proc[w] = Idle => Busy(r) = {}
  PROVE  /\ proc'[w] = q
         /\ proc[w] \in AnyRequest
         /\ Busy(r) = IF proc[w].op = "idle" THEN {} ELSE {w}
         /\ Busy(r)' = IF q.op = "idle" THEN {} ELSE {w}
<1>1. proc \in [Worker -> AnyRequest] /\ \A u, v \in Busy(r) : u = v
  BY DEF TripsInv, TripsTypeOK, AnyRequest, RideInv, PausesAreCounted, PausesInOrder, Undisturbed
<1>2. /\ proc'[w] = q
      /\ Busy(r)' = IF q # Idle /\ q.ride = r THEN Busy(r) \cup {w} ELSE Busy(r) \ {w}
  BY <1>1, BusyNext
<1>3. proc[w] # Idle => w \in Busy(r)
  BY DEF Busy
<1>4. /\ proc[w] \in AnyRequest
      /\ proc[w].op = "idle" <=> proc[w] = Idle
      /\ q.op = "idle" <=> q = Idle
  BY <1>1, TripFields
<1>5. CASE proc[w] = Idle
  BY <1>2, <1>4, <1>5
<1>6. CASE proc[w] # Idle
  <2>1. Busy(r) = {w}
    BY <1>1, <1>3, <1>6
  <2> QED BY <1>2, <1>4, <1>6, <2>1
<1> QED BY <1>5, <1>6

\* A ride no request of which moves keeps its bill's invariant.
LEMMA BillKept ==
  ASSUME NEW r \in Ride, BillInv(r), now' = now,
         status'[r] = status[r], trip_status'[r] = trip_status[r], bill'[r] = bill[r],
         paused_at'[r] = paused_at[r], trip_dist'[r] = trip_dist[r],
         history'[r].driven = history[r].driven, history'[r].rolling = history[r].rolling,
         history'[r].strayed = history[r].strayed, history'[r].rested = history[r].rested,
         Undisturbed(r)' =>
           /\ Undisturbed(r) /\ Busy(r)' = Busy(r)
           /\ \A v \in Busy(r) : proc'[v] = proc[v]
  PROVE  BillInv(r)'
<1>1. RowsGoTogether(r)' /\ RestWithinTrip(r)'
  BY DEF BillInv, RowsGoTogether, RestWithinTrip, Completed
<1>2. SUFFICES ASSUME Undisturbed(r)'
               PROVE  WorkIsOnTrip(r)' /\ MeterIsExact(r)' /\ PausesAreExact(r)'
  BY <1>1 DEF BillInv
<1>3. /\ Busy(r)' = Busy(r) /\ \A v \in Busy(r) : proc'[v] = proc[v]
      /\ WorkIsOnTrip(r) /\ MeterIsExact(r) /\ PausesAreExact(r)
  BY <1>2 DEF BillInv
<1>4. Elapsed(r)' = Elapsed(r)
  BY DEF Elapsed
<1>5. WorkIsOnTrip(r)'
  BY <1>3 DEF WorkIsOnTrip, NoneAt, At
<1>6. MeterIsExact(r)'
  BY <1>3 DEF MeterIsExact, NoneAt, At, OfTheTrip, ByTheMeter, Completed
<1>7. PausesAreExact(r)'
  BY <1>3, <1>4 DEF PausesAreExact, NoneAt, At
<1> QED BY <1>5, <1>6, <1>7

\* A step of one request keeps the bills if it keeps that of its own ride.
LEMMA BillServes ==
  ASSUME TripsInv, BillsInv,
         NEW w \in Worker, NEW q \in AnyRequest, Proceed(w, q), NEW r \in Ride,
         proc[w] # Idle => proc[w].ride = r, q # Idle => q.ride = r, now' = now,
         \A s \in Ride \ {r} :
           /\ status'[s] = status[s] /\ trip_status'[s] = trip_status[s]
           /\ bill'[s] = bill[s] /\ paused_at'[s] = paused_at[s]
           /\ trip_dist'[s] = trip_dist[s] /\ history'[s] = history[s],
         BillInv(r)'
  PROVE  BillsInv'
<1>1. ASSUME NEW s \in Ride \ {r} PROVE BillInv(s)'
  <2>1. Busy(s)' = Busy(s) /\ \A v \in Busy(s) : proc'[v] = proc[v]
    BY <1>1, BusyNext DEF TripsInv, TripsTypeOK, AnyRequest, Busy
  <2> QED BY <1>1, <2>1, BillKept DEF BillsInv, Undisturbed
<1> QED BY <1>1 DEF BillsInv

\* A request that begins and leaves its ride undisturbed has it to itself.
LEMMA BeginsAlone ==
  ASSUME TripsTypeOK, NEW w \in Worker, NEW q \in TripRequest, NEW m \in SUBSET Mishap,
         Begin(w, q, m), NEW r \in Ride, q.ride = r
  PROVE  /\ Proceed(w, q) /\ proc[w] = Idle /\ q \in AnyRequest /\ q # Idle
         /\ \A s \in Ride \ {r} : history'[s] = history[s]
         /\ history'[r].driven = history[r].driven
         /\ history'[r].rolling = history[r].rolling
         /\ history'[r].strayed = history[r].strayed
         /\ history'[r].rested = history[r].rested
         /\ Undisturbed(r)' => Undisturbed(r) /\ Busy(r) = {} /\ m = {}
<1>1. /\ Proceed(w, q) /\ proc[w] = Idle /\ q \in AnyRequest /\ q # Idle
      /\ \A s \in Ride \ {r} : history'[s] = history[s]
  BY BeginFrame DEF AnyRequest, TripRequest, Idle
<1>2. PICK n \in SUBSET Mishap :
        n = m \cup (IF Busy(r) = {} THEN {} ELSE {"overlap"}) /\ Suffers(r, n)
  <2>1. m \cup (IF Busy(r) = {} THEN {} ELSE {"overlap"}) \in SUBSET Mishap
    BY DEF Mishap
  <2> QED BY <2>1 DEF Begin
<1>3. /\ history'[r].driven = history[r].driven
      /\ history'[r].rolling = history[r].rolling
      /\ history'[r].strayed = history[r].strayed
      /\ history'[r].rested = history[r].rested
      /\ history'[r].mishaps = history[r].mishaps \cup n
  BY <1>2, SuffersType DEF TripsTypeOK
<1>4. Undisturbed(r)' => Undisturbed(r) /\ Busy(r) = {} /\ m = {}
  BY <1>2, <1>3 DEF Undisturbed
<1> QED BY <1>1, <1>3, <1>4

(***************************************************************************)
(* Calls.                                                                  *)
(***************************************************************************)
LEMMA ReadBills ==
  ASSUME TripsInv, BillsInv, NEW w \in Worker, NEW r \in Ride,
         (\E code \in 1 .. MaxCodes : StartCompare(w, r, code)) \/ EndLoad(w, r)
  PROVE  BillsInv'
<1>1. PICK q \in TripRequest :
        /\ Begin(w, q, {}) /\ q.ride = r
        /\ q.op \in {"start", "end"}
        /\ q.op = "end" => status[r] = "IN_PROGRESS"
  <2>1. [op |-> "end", ride |-> r] \in TripRequest
    BY DEF TripRequest
  <2>2. \A code \in 1 .. MaxCodes : [op |-> "start", ride |-> r, code |-> code] \in TripRequest
    BY DEF TripRequest
  <2>3. CASE EndLoad(w, r)
    BY <2>1, <2>3 DEF EndLoad
  <2>4. CASE \E code \in 1 .. MaxCodes : StartCompare(w, r, code)
    BY <2>2, <2>4 DEF StartCompare
  <2> QED BY <2>3, <2>4
<1>2. UNCHANGED <<status, trip_status, bill, trip_dist, paused_at, now>>
  BY DEF StartCompare, EndLoad, ledgerVars
<1>3. /\ Proceed(w, q) /\ proc[w] = Idle /\ q \in AnyRequest /\ q # Idle
      /\ \A s \in Ride \ {r} : history'[s] = history[s]
      /\ history'[r].driven = history[r].driven
      /\ history'[r].rolling = history[r].rolling
      /\ history'[r].strayed = history[r].strayed
      /\ history'[r].rested = history[r].rested
      /\ Undisturbed(r)' => Undisturbed(r) /\ Busy(r) = {}
  BY <1>1, BeginsAlone DEF TripsInv
<1>4. RowsGoTogether(r)' /\ RestWithinTrip(r)'
  BY <1>2, <1>3 DEF BillsInv, BillInv, RowsGoTogether, RestWithinTrip, Completed
<1>5. ASSUME Undisturbed(r)'
      PROVE  WorkIsOnTrip(r)' /\ MeterIsExact(r)' /\ PausesAreExact(r)'
  <2>1. /\ Busy(r) = {} /\ Busy(r)' = {w} /\ proc'[w] = q
        /\ WorkIsOnTrip(r) /\ MeterIsExact(r) /\ PausesAreExact(r)
    BY <1>1, <1>3, <1>5, OnlyOne, TripFields DEF BillsInv, BillInv
  <2>2. Elapsed(r)' = Elapsed(r)
    BY <1>2 DEF Elapsed
  <2>3. WorkIsOnTrip(r)'
    BY <1>1, <1>2, <2>1 DEF WorkIsOnTrip, NoneAt, At
  <2>4. MeterIsExact(r)'
    BY <1>1, <1>2, <1>3, <2>1 DEF MeterIsExact, NoneAt, At, OfTheTrip, ByTheMeter, Completed
  <2>5. PausesAreExact(r)'
    BY <1>1, <1>2, <1>3, <2>1, <2>2 DEF PausesAreExact, NoneAt, At
  <2> QED BY <2>3, <2>4, <2>5
<1> QED BY <1>1, <1>2, <1>3, <1>4, <1>5, BillServes DEF BillInv

LEMMA PauseRowBills ==
  ASSUME TripsInv, BillsInv, NEW w \in Worker, NEW r \in Ride, PauseRow(w, r)
  PROVE  BillsInv'
<1>1. PICK q \in TripRequest : Begin(w, q, {}) /\ q.ride = r /\ q.op = "pause"
  BY DEF PauseRow, TripRequest
<1>2. /\ trip_status[r] = "STARTED"
      /\ trip_status' = [trip_status EXCEPT ![r] = "PAUSED"]
      /\ UNCHANGED <<status, bill, trip_dist, paused_at, now>>
  BY DEF PauseRow, UpdateTrip
<1>3. /\ Proceed(w, q) /\ proc[w] = Idle /\ q \in AnyRequest /\ q # Idle
      /\ \A s \in Ride \ {r} : history'[s] = history[s]
      /\ history'[r].driven = history[r].driven
      /\ history'[r].rolling = history[r].rolling
      /\ history'[r].strayed = history[r].strayed
      /\ history'[r].rested = history[r].rested
      /\ Undisturbed(r)' => Undisturbed(r) /\ Busy(r) = {}
  BY <1>1, BeginsAlone DEF TripsInv
<1>4. trip_status'[r] = "PAUSED" /\ \A s \in Ride \ {r} : trip_status'[s] = trip_status[s]
  BY <1>2 DEF TripsInv
<1>5. RowsGoTogether(r)' /\ RestWithinTrip(r)'
  BY <1>2, <1>3, <1>4 DEF BillsInv, BillInv, RowsGoTogether, RestWithinTrip, Completed, Absent
<1>6. ASSUME Undisturbed(r)'
      PROVE  WorkIsOnTrip(r)' /\ MeterIsExact(r)' /\ PausesAreExact(r)'
  <2>1. /\ Busy(r) = {} /\ Busy(r)' = {w} /\ proc'[w] = q
        /\ RowsGoTogether(r) /\ WorkIsOnTrip(r) /\ MeterIsExact(r) /\ PausesAreExact(r)
    BY <1>1, <1>3, <1>6, OnlyOne, TripFields DEF BillsInv, BillInv
  <2>2. Elapsed(r)' = Elapsed(r)
    BY <1>2 DEF Elapsed
  <2>3. WorkIsOnTrip(r)'
    BY <1>1, <1>2, <2>1 DEF WorkIsOnTrip, NoneAt, At, RowsGoTogether
  <2>4. MeterIsExact(r)'
    BY <1>1, <1>2, <1>3, <1>4, <2>1
       DEF MeterIsExact, NoneAt, At, OfTheTrip, ByTheMeter, Completed, Absent
  <2>5. PausesAreExact(r)'
    BY <1>1, <1>2, <1>3, <1>4, <2>1, <2>2 DEF PausesAreExact, NoneAt, At, Absent
  <2> QED BY <2>3, <2>4, <2>5
<1> QED BY <1>1, <1>2, <1>3, <1>4, <1>5, <1>6, BillServes DEF BillInv

LEMMA ResumeConsumeBills ==
  ASSUME TripsInv, BillsInv, NEW w \in Worker, NEW r \in Ride, ResumeConsume(w, r)
  PROVE  BillsInv'
<1>0. Elapsed(r) \in Nat
  BY ElapsedType DEF TripsInv, RideInv
<1>01. PICK elapsed \in {0, Elapsed(r)}, m \in SUBSET Mishap :
         /\ consumePause(r, elapsed, m)
         /\ Begin(w, [op |-> "resume", ride |-> r, paused |-> elapsed], m)
  BY DEF ResumeConsume
<1>1. PICK q \in TripRequest :
        Begin(w, q, m) /\ q.ride = r /\ q.op = "resume" /\ q.paused = elapsed
  <2>1. [op |-> "resume", ride |-> r, paused |-> elapsed] \in TripRequest
    BY <1>0 DEF TripRequest
  <2> QED BY <1>01, <2>1
<1>2. /\ trip_status[r] # Absent
      /\ \A s \in Ride \ {r} : paused_at'[s] = paused_at[s]
      /\ m = {} => elapsed = Elapsed(r) /\ paused_at'[r] = None
      /\ UNCHANGED <<status, trip_status, bill, trip_dist, now>>
  BY <1>01 DEF ResumeConsume, consumePause, ledgerVars, TripsInv, TripsTypeOK
<1>3. /\ Proceed(w, q) /\ proc[w] = Idle /\ q \in AnyRequest /\ q # Idle
      /\ \A s \in Ride \ {r} : history'[s] = history[s]
      /\ history'[r].driven = history[r].driven
      /\ history'[r].rolling = history[r].rolling
      /\ history'[r].strayed = history[r].strayed
      /\ history'[r].rested = history[r].rested
      /\ Undisturbed(r)' => Undisturbed(r) /\ Busy(r) = {} /\ m = {}
  BY <1>1, BeginsAlone DEF TripsInv
<1>5. RowsGoTogether(r)' /\ RestWithinTrip(r)'
  BY <1>2, <1>3 DEF BillsInv, BillInv, RowsGoTogether, RestWithinTrip, Completed
<1>6. ASSUME Undisturbed(r)'
      PROVE  WorkIsOnTrip(r)' /\ MeterIsExact(r)' /\ PausesAreExact(r)'
  <2>1. /\ Busy(r) = {} /\ Busy(r)' = {w} /\ proc'[w] = q
        /\ RowsGoTogether(r) /\ WorkIsOnTrip(r) /\ MeterIsExact(r) /\ PausesAreExact(r)
    BY <1>1, <1>3, <1>6, OnlyOne, TripFields DEF BillsInv, BillInv
  <2>2. trip_status[r] # "PAUSED" => Elapsed(r) = 0
    BY <1>3, <1>6 DEF Elapsed, TripsInv, RideInv, PausesAreCounted, PausesInOrder, Undisturbed
  <2>21. Elapsed(r)' = 0
    BY <1>2, <1>3, <1>6 DEF Elapsed
  <2>3. WorkIsOnTrip(r)'
    BY <1>1, <1>2, <2>1 DEF WorkIsOnTrip, NoneAt, At
  <2>4. MeterIsExact(r)'
    BY <1>1, <1>2, <1>3, <2>1 DEF MeterIsExact, NoneAt, At, OfTheTrip, ByTheMeter, Completed
  <2>5. PausesAreExact(r)'
    BY <1>1, <1>2, <1>3, <1>6, <2>1, <2>2, <2>21 DEF PausesAreExact, NoneAt, At
  <2> QED BY <2>3, <2>4, <2>5
<1> QED BY <1>1, <1>2, <1>3, <1>5, <1>6, BillServes DEF BillInv

(***************************************************************************)
(* Start and the steps that follow a call.                                 *)
(***************************************************************************)
LEMMA StartRowsBills ==
  ASSUME TripsInv, BillsInv, NEW w \in Worker, StartRows(w)
  PROVE  BillsInv'
<1>1. PICK r \in Ride, code \in 1 .. MaxCodes :
        proc[w].op = "start" /\ proc[w].ride = r /\ proc[w].code = code /\ w \in Busy(r)
  BY Serves DEF TripsInv, StartRows, Serving, TripOps
<1>2. PICK q \in AnyRequest : q = [op |-> "reset", ride |-> r]
  BY DEF AnyRequest, TripRequest
<1>3. /\ status[r] = "ARRIVED" /\ trip_status[r] = Absent
      /\ status' = [status EXCEPT ![r] = "IN_PROGRESS"]
      /\ trip_status' = [trip_status EXCEPT ![r] = "STARTED"]
      /\ bill' = [bill EXCEPT ![r].started_at = now]
      /\ history' = [history EXCEPT
                       ![r].entered = IF code \in history[r].shown THEN "shown" ELSE "other",
                       ![r].shown = {}]
      /\ Proceed(w, q)
      /\ UNCHANGED <<trip_dist, paused_at, now>>
  BY <1>1, <1>2 DEF StartRows, UpdateStatus, SetStatus
<1>4. /\ status'[r] = "IN_PROGRESS" /\ trip_status'[r] = "STARTED"
      /\ bill'[r].started_at = now
      /\ bill'[r].paused_seconds = bill[r].paused_seconds
      /\ history'[r].driven = history[r].driven /\ history'[r].rolling = history[r].rolling
      /\ history'[r].strayed = history[r].strayed
      /\ history'[r].rested = history[r].rested /\ history'[r].mishaps = history[r].mishaps
      /\ \A s \in Ride \ {r} :
           /\ status'[s] = status[s] /\ trip_status'[s] = trip_status[s]
           /\ bill'[s] = bill[s] /\ paused_at'[s] = paused_at[s]
           /\ trip_dist'[s] = trip_dist[s] /\ history'[s] = history[s]
  <2>1. /\ history'[r].driven = history[r].driven /\ history'[r].rolling = history[r].rolling
        /\ history'[r].strayed = history[r].strayed
        /\ history'[r].rested = history[r].rested /\ history'[r].mishaps = history[r].mishaps
        /\ \A s \in Ride \ {r} : history'[s] = history[s]
    BY <1>3, StartHistory DEF TripsInv, TripsTypeOK
  <2> QED BY <1>3, <2>1 DEF TripsInv, TripsTypeOK, Bill
<1>5. RowsGoTogether(r)' /\ RestWithinTrip(r)'
  <2>1. now - now = 0 /\ 0 * Second = 0 /\ now <= now /\ history[r].rested = 0
    BY <1>3, Numbers DEF TripsInv, BillsInv, BillInv, RestWithinTrip
  <2>2. RestWithinTrip(r)'
    BY <1>3, <1>4, <2>1 DEF RestWithinTrip, Completed, Absent
  <2> QED BY <1>4, <2>2 DEF RowsGoTogether, Completed
<1>6. q.ride = r /\ q # Idle /\ q.op = "reset"
  BY <1>2 DEF Idle
<1>7. ASSUME Undisturbed(r)'
      PROVE  WorkIsOnTrip(r)' /\ MeterIsExact(r)' /\ PausesAreExact(r)'
  <2>0. Undisturbed(r)
    BY <1>4, <1>7 DEF Undisturbed
  <2>1. /\ Busy(r) = {w} /\ Busy(r)' = {w} /\ proc'[w] = q
        /\ MeterIsExact(r) /\ PausesAreExact(r)
    BY <1>1, <1>3, <1>6, <2>0, OnlyOne, TripFields, IdleType DEF BillsInv, BillInv
  <2>2. Elapsed(r)' = Elapsed(r)
    BY <1>3 DEF Elapsed
  <2>3. WorkIsOnTrip(r)'
    BY <1>4 DEF WorkIsOnTrip
  <2>4. MeterIsExact(r)'
    BY <1>3, <1>4, <1>6, <2>1 DEF MeterIsExact, NoneAt, At, Completed, Absent
  <2>5. PausesAreExact(r)'
    BY <1>1, <1>3, <1>4, <1>6, <2>1, <2>2 DEF PausesAreExact, NoneAt, At, Absent
  <2> QED BY <2>3, <2>4, <2>5
<1> QED BY <1>1, <1>3, <1>4, <1>5, <1>6, <1>7, BillServes DEF BillInv

\* A step of the request at work that leaves the rows and the history alone.
LEMMA QuietBills ==
  ASSUME TripsInv, BillsInv, NEW w \in Worker, NEW r \in Ride,
         proc[w].op \in TripOps, proc[w].ride = r,
         NEW q \in AnyRequest, Proceed(w, q), q # Idle => q.ride = r,
         UNCHANGED <<status, trip_status, bill, now, history>>,
         \A s \in Ride \ {r} : paused_at'[s] = paused_at[s] /\ trip_dist'[s] = trip_dist[s],
         ASSUME Undisturbed(r), Undisturbed(r)',
                Busy(r) = {w}, proc'[w] = q,
                Busy(r)' = IF q.op = "idle" THEN {} ELSE {w}, RowsGoTogether(r),
                WorkIsOnTrip(r), MeterIsExact(r), PausesAreExact(r)
         PROVE  WorkIsOnTrip(r)' /\ MeterIsExact(r)' /\ PausesAreExact(r)'
  PROVE  BillsInv'
<1>1. RowsGoTogether(r)' /\ RestWithinTrip(r)'
  BY DEF BillsInv, BillInv, RowsGoTogether, RestWithinTrip, Completed
<1>2. ASSUME Undisturbed(r)'
      PROVE  WorkIsOnTrip(r)' /\ MeterIsExact(r)' /\ PausesAreExact(r)'
  <2>1. Undisturbed(r)
    BY <1>2 DEF Undisturbed
  <2>2. /\ Busy(r) = {w} /\ proc'[w] = q
        /\ Busy(r)' = IF q.op = "idle" THEN {} ELSE {w}
    BY <2>1, OnlyOne, IdleType DEF TripOps
  <2> QED BY <1>2, <2>1, <2>2 DEF BillsInv, BillInv
<1> QED BY <1>1, <1>2, BillServes DEF BillInv

\* A step that disturbs its ride keeps what the bills owe to the rows.
LEMMA FaultBills ==
  ASSUME TripsInv, BillsInv, NEW w \in Worker, NEW r \in Ride,
         proc[w] # Idle, proc[w].ride = r,
         NEW q \in AnyRequest, Proceed(w, q), q # Idle => q.ride = r,
         NEW m \in SUBSET Mishap, m # {}, Suffers(r, m),
         UNCHANGED <<status, trip_status, bill, now>>,
         \A s \in Ride \ {r} : paused_at'[s] = paused_at[s] /\ trip_dist'[s] = trip_dist[s]
  PROVE  BillsInv'
<1>1. /\ \A s \in Ride \ {r} : history'[s] = history[s]
      /\ history'[r].rested = history[r].rested
      /\ history'[r].mishaps = history[r].mishaps \cup m
  BY SuffersType DEF TripsInv, TripsTypeOK
<1>2. ~Undisturbed(r)'
  BY <1>1 DEF Undisturbed
<1>3. RowsGoTogether(r)' /\ RestWithinTrip(r)'
  BY <1>1 DEF BillsInv, BillInv, RowsGoTogether, RestWithinTrip, Completed
<1> QED BY <1>1, <1>2, <1>3, BillServes DEF BillInv

LEMMA ResetMeterBills ==
  ASSUME TripsInv, BillsInv, NEW w \in Worker, ResetMeter(w)
  PROVE  BillsInv'
<1>1. PICK r \in Ride : proc[w].op \in {"reset", "clear"} /\ proc[w].ride = r
  BY Serves DEF TripsInv, ResetMeter, Serving, TripOps
<1>0. CASE Suffers(r, {"fault"}) /\ Done(w)
  <2>1. Proceed(w, Idle) /\ Idle \in AnyRequest /\ proc[w] # Idle
    BY <1>0, <1>1, IdleType DEF Done, Proceed
  <2>2. /\ UNCHANGED <<status, trip_status, bill, paused_at, now>>
        /\ \A s \in Ride \ {r} : trip_dist'[s] = trip_dist[s]
    BY <1>1 DEF TripsInv, TripsTypeOK, ResetMeter, ledgerVars
  <2> QED BY <1>0, <1>1, <2>1, <2>2, FaultBills DEF Mishap
<1> SUFFICES ASSUME ~(Suffers(r, {"fault"}) /\ Done(w)) PROVE BillsInv'
  BY <1>0
<1>2. /\ UNCHANGED <<status, trip_status, bill, paused_at, now, history>>
      /\ \A s \in Ride \ {r} : trip_dist'[s] = trip_dist[s]
  BY <1>1 DEF TripsInv, TripsTypeOK, ResetMeter, ledgerVars
<1>3. PICK q \in AnyRequest :
        /\ Proceed(w, q)
        /\ q # Idle => q.ride = r
        /\ \/ q.op = "idle" /\ trip_dist'[r] = 0
           \/ q.op = "clear"
  <2>1. PICK c \in AnyRequest : c = [op |-> "clear", ride |-> r]
    BY DEF AnyRequest, TripRequest
  <2>2. CASE proc[w].op = "reset"
    BY <1>1, <2>1, <2>2, IdleType DEF ResetMeter, Serving, Done, Proceed
  <2>3. CASE proc[w].op = "clear"
    BY <1>1, <2>3, IdleType
       DEF ResetMeter, Serving, Done, Proceed, TripsInv, TripsTypeOK
  <2> QED BY <1>1, <2>2, <2>3
<1>4. ASSUME Undisturbed(r), Undisturbed(r)',
             Busy(r) = {w}, proc'[w] = q,
             Busy(r)' = IF q.op = "idle" THEN {} ELSE {w}, RowsGoTogether(r),
             WorkIsOnTrip(r), MeterIsExact(r), PausesAreExact(r)
      PROVE  WorkIsOnTrip(r)' /\ MeterIsExact(r)' /\ PausesAreExact(r)'
  <2>1. Elapsed(r)' = Elapsed(r)
    BY <1>2 DEF Elapsed
  <2>2. WorkIsOnTrip(r)'
    BY <1>1, <1>2, <1>3, <1>4 DEF WorkIsOnTrip, NoneAt, At
  <2>3. MeterIsExact(r)'
    <3>1. history[r].driven = 0 /\ history[r].rolling \in Nat /\ history[r].strayed \in Nat
      BY <1>1, <1>4, Numbers DEF MeterIsExact, TripsInv
    <3>2. \A metres : OfTheTrip(r, metres)' <=> OfTheTrip(r, metres)
      BY <1>2 DEF OfTheTrip
    <3>3. OfTheTrip(r, 0)
      BY <3>1 DEF OfTheTrip
    <3> QED BY <1>1, <1>2, <1>3, <1>4, <3>1, <3>3
            DEF MeterIsExact, NoneAt, At, OfTheTrip, ByTheMeter, Completed
  <2>4. PausesAreExact(r)'
    BY <1>1, <1>2, <1>3, <1>4, <2>1 DEF PausesAreExact, NoneAt, At
  <2> QED BY <2>2, <2>3, <2>4
<1> QED BY <1>1, <1>2, <1>3, <1>4, QuietBills DEF TripOps

LEMMA PauseMarkBills ==
  ASSUME TripsInv, BillsInv, NEW w \in Worker, PauseMark(w)
  PROVE  BillsInv'
<1>1. PICK r \in Ride : proc[w].op = "pause" /\ proc[w].ride = r
  BY Serves DEF TripsInv, PauseMark, Serving, TripOps
<1>2. PICK q \in AnyRequest : Proceed(w, q) /\ q = Idle /\ q.op = "idle"
  BY IdleType DEF PauseMark, Done, Proceed
<1>0. CASE Suffers(r, {"fault"}) /\ UNCHANGED paused_at
  <2>1. UNCHANGED <<status, trip_status, bill, trip_dist, now>> /\ proc[w] # Idle
    BY <1>1, IdleType DEF PauseMark, ledgerVars
  <2> QED BY <1>0, <1>1, <1>2, <2>1, FaultBills DEF Mishap
<1> SUFFICES ASSUME paused_at' = [paused_at EXCEPT ![r] = now], UNCHANGED history
             PROVE  BillsInv'
  BY <1>0, <1>1 DEF PauseMark
<1>3. /\ UNCHANGED <<status, trip_status, bill, trip_dist, now, history>>
      /\ paused_at'[r] = now /\ now # None
      /\ \A s \in Ride \ {r} : paused_at'[s] = paused_at[s]
  BY <1>1, TripsAssumption DEF TripsInv, TripsTypeOK, PauseMark, ledgerVars
<1>4. ASSUME Undisturbed(r), Undisturbed(r)',
             Busy(r) = {w}, proc'[w] = q,
             Busy(r)' = IF q.op = "idle" THEN {} ELSE {w}, RowsGoTogether(r),
             WorkIsOnTrip(r), MeterIsExact(r), PausesAreExact(r)
      PROVE  WorkIsOnTrip(r)' /\ MeterIsExact(r)' /\ PausesAreExact(r)'
  <2>1. Elapsed(r)' = 0 /\ Elapsed(r) = 0
    <3>1. now - now = 0 /\ 0 * Second = 0 /\ paused_at[r] = None
      BY <1>1, <1>4, Numbers DEF TripsInv, RideInv, PausesAreCounted, PausesInOrder, Undisturbed
    <3> QED BY <1>3, <3>1 DEF Elapsed
  <2>2. WorkIsOnTrip(r)'
    BY <1>2, <1>4 DEF WorkIsOnTrip, NoneAt, At
  <2>3. MeterIsExact(r)'
    BY <1>1, <1>2, <1>3, <1>4 DEF MeterIsExact, NoneAt, At, OfTheTrip, ByTheMeter, Completed
  <2>4. PausesAreExact(r)'
    BY <1>1, <1>2, <1>3, <1>4, <2>1 DEF PausesAreExact, NoneAt, At
  <2> QED BY <2>2, <2>3, <2>4
<1> QED BY <1>1, <1>2, <1>3, <1>4, QuietBills DEF TripOps

LEMMA ResumeRowBills ==
  ASSUME TripsInv, BillsInv, NEW w \in Worker, ResumeRow(w)
  PROVE  BillsInv'
<1>1. PICK r \in Ride, paused \in Nat :
        proc[w].op = "resume" /\ proc[w].ride = r /\ proc[w].paused = paused
  BY Serves DEF TripsInv, ResumeRow, Serving, TripOps
<1>2. PICK q \in AnyRequest : Proceed(w, q) /\ q = Idle /\ q.op = "idle"
  BY IdleType DEF ResumeRow, Done, Proceed
<1>3. UNCHANGED <<status, paused_at, trip_dist, now, history>>
  BY DEF ResumeRow
<1>4. CASE trip_status[r] # "PAUSED" /\ UNCHANGED <<trip_status, bill>>
  <2>1. ASSUME Undisturbed(r), Undisturbed(r)',
             Busy(r) = {w}, proc'[w] = q,
             Busy(r)' = IF q.op = "idle" THEN {} ELSE {w}, RowsGoTogether(r),
             WorkIsOnTrip(r), MeterIsExact(r), PausesAreExact(r)
      PROVE  WorkIsOnTrip(r)' /\ MeterIsExact(r)' /\ PausesAreExact(r)'
    <3>1. Elapsed(r)' = 0
      BY <1>1, <1>3, <2>1 DEF Elapsed, TripsInv, RideInv, PausesAreCounted, PausesInOrder, Undisturbed
    <3>2. WorkIsOnTrip(r)'
      BY <1>2, <2>1 DEF WorkIsOnTrip, NoneAt, At
    <3>3. MeterIsExact(r)'
      BY <1>1, <1>2, <1>3, <1>4, <2>1
         DEF MeterIsExact, NoneAt, At, OfTheTrip, ByTheMeter, Completed
    <3>4. PausesAreExact(r)'
      BY <1>1, <1>2, <1>3, <1>4, <2>1, <3>1 DEF PausesAreExact, NoneAt, At
    <3> QED BY <3>2, <3>3, <3>4
  <2> QED BY <1>1, <1>2, <1>3, <1>4, <2>1, QuietBills DEF TripOps
<1>5. CASE /\ trip_status[r] = "PAUSED"
           /\ trip_status' = [trip_status EXCEPT ![r] = "STARTED"]
           /\ bill' = [bill EXCEPT ![r].paused_seconds = @ + paused]
  <2>1. /\ trip_status'[r] = "STARTED"
        /\ bill'[r].started_at = bill[r].started_at
        /\ bill'[r].ended_at = bill[r].ended_at
        /\ bill'[r].paused_seconds = bill[r].paused_seconds + paused
        /\ bill'[r].distance_m = bill[r].distance_m
        /\ \A s \in Ride \ {r} : trip_status'[s] = trip_status[s] /\ bill'[s] = bill[s]
    BY <1>5 DEF TripsInv, TripsTypeOK, Bill
  <2>2. RowsGoTogether(r)' /\ RestWithinTrip(r)'
    BY <1>3, <1>5, <2>1
       DEF BillsInv, BillInv, RowsGoTogether, RestWithinTrip, Completed, Absent
  <2>3. ASSUME Undisturbed(r)'
        PROVE  WorkIsOnTrip(r)' /\ MeterIsExact(r)' /\ PausesAreExact(r)'
    <3>1. Undisturbed(r)
      BY <1>3, <2>3 DEF Undisturbed
    <3>2. /\ Busy(r) = {w} /\ Busy(r)' = {}
          /\ RowsGoTogether(r) /\ MeterIsExact(r) /\ PausesAreExact(r)
      BY <1>1, <1>2, <3>1, OnlyOne, IdleType DEF BillsInv, BillInv
    <3>3. Elapsed(r)' = 0
      BY <1>1, <1>3, <3>1, <3>2 DEF Elapsed, TripsInv, RideInv, PausesAreCounted, PausesInOrder, Undisturbed
    <3>4. WorkIsOnTrip(r)'
      BY <3>2 DEF WorkIsOnTrip, NoneAt, At
    <3>5. MeterIsExact(r)'
      BY <1>1, <1>3, <1>5, <2>1, <3>2
         DEF MeterIsExact, NoneAt, At, OfTheTrip, ByTheMeter, Completed, Absent, RowsGoTogether
    <3>6. PausesAreExact(r)'
      <4>1. bill[r].paused_seconds + paused = history[r].rested /\ history[r].rested \in Nat
        BY <1>1, <3>2, Numbers DEF PausesAreExact, TripsInv
      <4> QED BY <1>3, <2>1, <3>2, <3>3, <4>1 DEF PausesAreExact, NoneAt, At, Absent
    <3> QED BY <3>4, <3>5, <3>6
  <2>4. proc[w] # Idle => proc[w].ride = r
    BY <1>1
  <2> QED BY <1>2, <1>3, <2>1, <2>2, <2>3, <2>4, BillServes DEF BillInv
<1> QED BY <1>1, <1>4, <1>5 DEF ResumeRow, UpdateTrip

(***************************************************************************)
(* End.                                                                    *)
(***************************************************************************)
LEMMA EndFoldBills ==
  ASSUME TripsInv, BillsInv, NEW w \in Worker, EndFold(w)
  PROVE  BillsInv'
<1>1. PICK r \in Ride : proc[w].op = "end" /\ proc[w].ride = r
  BY Serves DEF TripsInv, EndFold, Serving, TripOps
<1>2. Elapsed(r) \in Nat /\ bill[r].paused_seconds \in Nat
  BY ElapsedType, Numbers DEF TripsInv, RideInv
<1>3. PICK elapsed \in {0, Elapsed(r)}, m \in SUBSET Mishap :
        /\ \/ trip_status[r] = "PAUSED" /\ consumePause(r, elapsed, m)
           \/ trip_status[r] # "PAUSED" /\ elapsed = 0 /\ m = {} /\ UNCHANGED paused_at
        /\ Proceed(w, [op |-> "meter", ride |-> r,
                       paused |-> bill[r].paused_seconds + elapsed])
        /\ Suffers(r, m)
  BY <1>1 DEF EndFold
<1>31. PICK paused \in Nat : paused = bill[r].paused_seconds + elapsed
  BY <1>2
<1>4. PICK q \in AnyRequest : q = [op |-> "meter", ride |-> r, paused |-> paused]
  BY DEF AnyRequest, TripRequest
<1>5. /\ Proceed(w, q)
      /\ \A s \in Ride \ {r} : paused_at'[s] = paused_at[s]
      /\ UNCHANGED <<status, trip_status, bill, trip_dist, now>>
  BY <1>1, <1>3, <1>31, <1>4 DEF EndFold, consumePause, ledgerVars, TripsInv, TripsTypeOK
<1>6. q.op = "meter" /\ q.ride = r /\ q.paused = paused
  BY <1>4
<1>61. CASE m # {}
  <2>1. proc[w] # Idle
    BY <1>1, IdleType
  <2> QED BY <1>1, <1>3, <1>5, <1>6, <1>61, <2>1, FaultBills
<1>62. m = {} => UNCHANGED history
  <2>1. ASSUME m = {} PROVE history' = history
    <3>1. Suffers(r, {})
      BY <1>3, <2>1
    <3> QED BY <3>1 DEF Suffers, TripsInv, TripsTypeOK, History
  <2> QED BY <2>1
<1> SUFFICES ASSUME m = {} PROVE BillsInv'
  BY <1>61
<1>63. paused = bill[r].paused_seconds + IF trip_status[r] = "PAUSED" THEN Elapsed(r) ELSE 0
  BY <1>3, <1>31 DEF consumePause
<1>7. ASSUME Undisturbed(r), Undisturbed(r)',
             Busy(r) = {w}, proc'[w] = q,
             Busy(r)' = IF q.op = "idle" THEN {} ELSE {w}, RowsGoTogether(r),
             WorkIsOnTrip(r), MeterIsExact(r), PausesAreExact(r)
      PROVE  WorkIsOnTrip(r)' /\ MeterIsExact(r)' /\ PausesAreExact(r)'
  <2>1. trip_status[r] # "PAUSED" => Elapsed(r) = 0
    BY <1>7 DEF Elapsed, TripsInv, RideInv, PausesAreCounted, PausesInOrder, Undisturbed
  <2>2. paused = history[r].rested
    BY <1>1, <1>2, <1>63, <1>7, <2>1 DEF PausesAreExact, NoneAt, At
  <2>3. WorkIsOnTrip(r)'
    BY <1>1, <1>5, <1>6, <1>7 DEF WorkIsOnTrip, NoneAt, At
  <2>4. MeterIsExact(r)'
    BY <1>1, <1>5, <1>6, <1>62, <1>7 DEF MeterIsExact, NoneAt, At, OfTheTrip, ByTheMeter, Completed
  <2>5. PausesAreExact(r)'
    BY <1>1, <1>5, <1>6, <1>62, <1>7, <2>2 DEF PausesAreExact, NoneAt, At
  <2> QED BY <2>3, <2>4, <2>5
<1> QED BY <1>1, <1>5, <1>6, <1>62, <1>7, QuietBills DEF TripOps

LEMMA EndMeterBills ==
  ASSUME TripsInv, BillsInv, NEW w \in Worker, EndMeter(w)
  PROVE  BillsInv'
<1>1. PICK r \in Ride, paused \in Nat :
        proc[w].op = "meter" /\ proc[w].ride = r /\ proc[w].paused = paused
  BY Serves DEF TripsInv, EndMeter, Serving, TripOps
<1>0. Quote.distance \in Nat /\ trip_dist[r] \in Nat
  BY Numbers DEF TripsInv
<1>01. PICK estimated \in AnyRequest :
         estimated = [op |-> "bill", ride |-> r, paused |-> paused, metres |-> Quote.distance]
  BY <1>0 DEF AnyRequest, TripRequest
<1>02. PICK metered \in AnyRequest :
         metered = [op |-> "drain", ride |-> r, paused |-> paused, metres |-> trip_dist[r]]
  BY <1>0 DEF AnyRequest, TripRequest
<1>03. UNCHANGED <<status, trip_status, bill, trip_dist, paused_at, now>>
  BY DEF EndMeter, ledgerVars
<1>04. CASE Proceed(w, estimated) /\ Suffers(r, {"fault"})
  <2>1. estimated.ride = r /\ proc[w] # Idle
    BY <1>01, <1>1, IdleType
  <2> QED BY <1>04, <1>1, <1>03, <2>1, FaultBills DEF Mishap
<1> SUFFICES ASSUME ~(Proceed(w, estimated) /\ Suffers(r, {"fault"})) PROVE BillsInv'
  BY <1>04
<1>2. PICK q \in AnyRequest :
        /\ Proceed(w, q) /\ q.ride = r /\ q.paused = paused
        /\ \/ q.op = "bill" /\ q.metres = Quote.distance /\ trip_dist[r] = 0
           \/ q.op = "drain" /\ q.metres = trip_dist[r]
  BY <1>1, <1>01, <1>02 DEF EndMeter
<1>3. UNCHANGED <<status, trip_status, bill, trip_dist, paused_at, now, history>>
  BY <1>1, <1>01, <1>03 DEF EndMeter
<1>4. ASSUME Undisturbed(r), Undisturbed(r)',
             Busy(r) = {w}, proc'[w] = q,
             Busy(r)' = IF q.op = "idle" THEN {} ELSE {w}, RowsGoTogether(r),
             WorkIsOnTrip(r), MeterIsExact(r), PausesAreExact(r)
      PROVE  WorkIsOnTrip(r)' /\ MeterIsExact(r)' /\ PausesAreExact(r)'
  <2>1. Elapsed(r)' = Elapsed(r)
    BY <1>3 DEF Elapsed
  <2>2. WorkIsOnTrip(r)'
    BY <1>1, <1>2, <1>3, <1>4 DEF WorkIsOnTrip, NoneAt, At
  <2>3. MeterIsExact(r)'
    <3>1. status[r] = "IN_PROGRESS" /\ OfTheTrip(r, trip_dist[r])
      BY <1>1, <1>4 DEF WorkIsOnTrip, MeterIsExact, NoneAt, At
    <3>2. trip_dist[r] = 0 => history[r].driven = 0
      BY <3>1, Numbers DEF OfTheTrip, TripsInv
    <3> QED BY <1>1, <1>2, <1>3, <1>4, <3>1, <3>2
            DEF MeterIsExact, NoneAt, At, OfTheTrip, ByTheMeter, Completed
  <2>4. PausesAreExact(r)'
    BY <1>1, <1>2, <1>3, <1>4, <2>1 DEF PausesAreExact, NoneAt, At
  <2> QED BY <2>2, <2>3, <2>4
<1>5. q # Idle => q.ride = r
  BY <1>2
<1> QED BY <1>1, <1>2, <1>3, <1>4, <1>5, QuietBills DEF TripOps

LEMMA EndDrainBills ==
  ASSUME TripsInv, BillsInv, NEW w \in Worker, EndDrain(w)
  PROVE  BillsInv'
<1>1. PICK r \in Ride, paused \in Nat, metres \in Nat :
        /\ proc[w].op = "drain" /\ proc[w].ride = r
        /\ proc[w].paused = paused /\ proc[w].metres = metres
  BY Serves DEF TripsInv, EndDrain, Serving, TripOps
<1>2. proc[w] = [op |-> "drain", ride |-> r, paused |-> paused, metres |-> metres]
  BY <1>1 DEF TripsInv, TripsTypeOK, TripRequest, Idle
<1>3. PICK q \in AnyRequest :
        q = [op |-> "bill", ride |-> r, paused |-> paused, metres |-> metres]
  BY DEF AnyRequest, TripRequest
<1>4. Proceed(w, q)
  BY <1>2, <1>3 DEF EndDrain
<1>5. q.op = "bill" /\ q.ride = r /\ q.paused = paused /\ q.metres = metres
  BY <1>3
<1>51. /\ UNCHANGED <<status, trip_status, bill, paused_at, now>>
       /\ \A s \in Ride \ {r} : trip_dist'[s] = trip_dist[s]
       /\ UNCHANGED history \/ Suffers(r, {"fault"})
  BY <1>1 DEF EndDrain, ledgerVars, TripsInv, TripsTypeOK
<1>52. CASE Suffers(r, {"fault"})
  <2>1. proc[w] # Idle
    BY <1>1, IdleType
  <2> QED BY <1>1, <1>4, <1>5, <1>51, <1>52, <2>1, FaultBills DEF Mishap
<1> SUFFICES ASSUME UNCHANGED history PROVE BillsInv'
  BY <1>51, <1>52
<1>6. /\ UNCHANGED <<status, trip_status, bill, paused_at, now, history>>
      /\ \A s \in Ride \ {r} : trip_dist'[s] = trip_dist[s]
  BY <1>51
<1>7. ASSUME Undisturbed(r), Undisturbed(r)',
             Busy(r) = {w}, proc'[w] = q,
             Busy(r)' = IF q.op = "idle" THEN {} ELSE {w}, RowsGoTogether(r),
             WorkIsOnTrip(r), MeterIsExact(r), PausesAreExact(r)
      PROVE  WorkIsOnTrip(r)' /\ MeterIsExact(r)' /\ PausesAreExact(r)'
  <2>1. Elapsed(r)' = Elapsed(r)
    BY <1>6 DEF Elapsed
  <2>2. WorkIsOnTrip(r)'
    BY <1>1, <1>5, <1>6, <1>7 DEF WorkIsOnTrip, NoneAt, At
  <2>3. MeterIsExact(r)'
    BY <1>1, <1>5, <1>6, <1>7 DEF MeterIsExact, NoneAt, At, OfTheTrip, ByTheMeter, Completed
  <2>4. PausesAreExact(r)'
    BY <1>1, <1>5, <1>6, <1>7, <2>1 DEF PausesAreExact, NoneAt, At
  <2> QED BY <2>2, <2>3, <2>4
<1> QED BY <1>1, <1>4, <1>5, <1>6, <1>7, QuietBills DEF TripOps

LEMMA EndBillBills ==
  ASSUME TripsInv, BillsInv, NEW w \in Worker, EndRowsAndFare(w)
  PROVE  BillsInv'
<1>1. PICK r \in Ride, paused \in Nat, metres \in Nat :
        /\ proc[w].op = "bill" /\ proc[w].ride = r
        /\ proc[w].paused = paused /\ proc[w].metres = metres
  BY Serves DEF TripsInv, EndRowsAndFare, Serving, TripOps
<1>2. PICK total :
        bill' = [bill EXCEPT ![r] = [started_at |-> bill[r].started_at, ended_at |-> now,
                                     paused_seconds |-> paused, distance_m |-> metres,
                                     fare_total |-> total]]
  BY <1>1 DEF EndRowsAndFare
<1>3. PICK q \in AnyRequest : Proceed(w, q) /\ q = Idle /\ q.op = "idle"
  BY IdleType DEF EndRowsAndFare, Done, Proceed
<1>4. /\ status[r] = "IN_PROGRESS"
      /\ status' = [status EXCEPT ![r] = "COMPLETED"]
      /\ trip_status' = [trip_status EXCEPT ![r] = "ENDED"]
      /\ UNCHANGED <<trip_dist, paused_at, now, history>>
  BY <1>1 DEF EndRowsAndFare, EndRows, UpdateStatus, SetStatus, UpdateTrip
<1>5. /\ status'[r] = "COMPLETED" /\ trip_status'[r] = "ENDED"
      /\ bill'[r].started_at = bill[r].started_at /\ bill'[r].ended_at = now
      /\ bill'[r].paused_seconds = paused /\ bill'[r].distance_m = metres
      /\ \A s \in Ride \ {r} :
           status'[s] = status[s] /\ trip_status'[s] = trip_status[s] /\ bill'[s] = bill[s]
  BY <1>2, <1>4 DEF TripsInv, TripsTypeOK
<1>6. RowsGoTogether(r)' /\ RestWithinTrip(r)'
  BY <1>4, <1>5 DEF BillsInv, BillInv, RowsGoTogether, RestWithinTrip, Completed, Absent
<1>7. ASSUME Undisturbed(r)'
      PROVE  WorkIsOnTrip(r)' /\ MeterIsExact(r)' /\ PausesAreExact(r)'
  <2>1. Undisturbed(r)
    BY <1>4, <1>7 DEF Undisturbed
  <2>2. /\ Busy(r) = {w} /\ Busy(r)' = {}
        /\ MeterIsExact(r) /\ PausesAreExact(r)
    BY <1>1, <1>3, <2>1, OnlyOne, IdleType DEF BillsInv, BillInv
  <2>3. Elapsed(r)' = 0
    BY <1>1, <1>4, <2>1, <2>2 DEF Elapsed, TripsInv, RideInv, PausesAreCounted, PausesInOrder, Undisturbed
  <2>4. WorkIsOnTrip(r)'
    BY <2>2 DEF WorkIsOnTrip, NoneAt, At
  <2>5. MeterIsExact(r)'
    BY <1>1, <1>4, <1>5, <2>2
       DEF MeterIsExact, NoneAt, At, OfTheTrip, ByTheMeter, Completed, Absent
  <2>6. PausesAreExact(r)'
    <3>1. paused = history[r].rested /\ history[r].rested \in Nat
      BY <1>1, <2>2, Numbers DEF PausesAreExact, TripsInv
    <3> QED BY <1>4, <1>5, <2>2, <2>3, <3>1 DEF PausesAreExact, NoneAt, At, Absent
  <2> QED BY <2>4, <2>5, <2>6
<1>8. proc[w] # Idle => proc[w].ride = r
  BY <1>1
<1> QED BY <1>3, <1>4, <1>5, <1>6, <1>7, <1>8, BillServes DEF BillInv

(***************************************************************************)
(* Refusals, failures, OTPs, pings and the clock.                          *)
(***************************************************************************)
LEMMA RefusedBills ==
  ASSUME TripsInv, BillsInv, NEW w \in Worker, Refused(w)
  PROVE  BillsInv'
<1>1. PICK r \in Ride :
        /\ proc[w].ride = r
        /\ \/ proc[w].op = "start"
           \/ proc[w].op = "bill" /\ status[r] # "IN_PROGRESS"
  BY Serves DEF TripsInv, Refused, Serving, TripOps
<1>2. PICK q \in AnyRequest : Proceed(w, q) /\ q = Idle /\ q.op = "idle"
  BY IdleType DEF Refused, Done, Proceed
<1>3. UNCHANGED <<status, trip_status, bill, trip_dist, paused_at, now, history>>
  BY DEF Refused, ledgerVars
<1>4. ASSUME Undisturbed(r), Undisturbed(r)',
             Busy(r) = {w}, proc'[w] = q,
             Busy(r)' = IF q.op = "idle" THEN {} ELSE {w}, RowsGoTogether(r),
             WorkIsOnTrip(r), MeterIsExact(r), PausesAreExact(r)
      PROVE  WorkIsOnTrip(r)' /\ MeterIsExact(r)' /\ PausesAreExact(r)'
  <2>1. Elapsed(r)' = Elapsed(r)
    BY <1>3 DEF Elapsed
  <2>2. proc[w].op = "start"
    BY <1>1, <1>4 DEF WorkIsOnTrip, NoneAt, At
  <2>3. WorkIsOnTrip(r)'
    BY <1>2, <1>4 DEF WorkIsOnTrip, NoneAt, At
  <2>4. MeterIsExact(r)'
    BY <1>2, <1>3, <1>4, <2>2 DEF MeterIsExact, NoneAt, At, OfTheTrip, ByTheMeter, Completed
  <2>5. PausesAreExact(r)'
    BY <1>2, <1>3, <1>4, <2>1, <2>2 DEF PausesAreExact, NoneAt, At
  <2> QED BY <2>3, <2>4, <2>5
<1> QED BY <1>1, <1>2, <1>3, <1>4, QuietBills DEF TripOps

LEMMA CutBills ==
  ASSUME TripsInv, BillsInv, NEW w \in Worker, Cut(w)
  PROVE  BillsInv'
<1>1. PICK r \in Ride : proc[w].ride = r
  BY TripFields DEF Cut, TripsInv, TripsTypeOK, AnyRequest
<1>2. /\ Proceed(w, Idle) /\ Idle \in AnyRequest /\ proc[w] # Idle
      /\ Suffers(r, {"fault"})
      /\ UNCHANGED <<status, trip_status, bill, trip_dist, paused_at, now>>
  BY <1>1, IdleType DEF Cut, Done, Proceed, ledgerVars
<1> QED BY <1>1, <1>2, FaultBills DEF Mishap

LEMMA RegenerateOTPBills ==
  ASSUME TripsInv, BillsInv, NEW r \in Ride, RegenerateOTP(r)
  PROVE  BillsInv'
<1>1. /\ UNCHANGED <<status, trip_status, proc, bill, trip_dist, paused_at, now>>
      /\ history' = IF status[r] = "ARRIVED"
                    THEN [history EXCEPT ![r].shown = @ \cup {otp_hash[r] + 1}] ELSE history
  BY DEF RegenerateOTP, vars
<1>2. ASSUME NEW s \in Ride PROVE BillInv(s)'
  <2>1. /\ history'[s].driven = history[s].driven /\ history'[s].rolling = history[s].rolling
        /\ history'[s].strayed = history[s].strayed
        /\ history'[s].rested = history[s].rested /\ history'[s].mishaps = history[s].mishaps
    BY <1>1 DEF TripsInv, TripsTypeOK, History
  <2>2. Busy(s)' = Busy(s)
    BY <1>1 DEF Busy
  <2> QED BY <1>1, <2>1, <2>2, BillKept DEF BillsInv, Undisturbed
<1> QED BY <1>2 DEF BillsInv

LEMMA ArriveBills ==
  ASSUME TripsInv, BillsInv, NEW r \in Ride, Arrive(r)
  PROVE  BillsInv'
<1>1. /\ UNCHANGED <<trip_status, proc, bill, trip_dist, paused_at, now>>
      /\ status[r] = "DRIVER_ARRIVING"
      /\ status' = [status EXCEPT ![r] = "ARRIVED"]
      /\ history' = [history EXCEPT ![r].shown = {otp_hash[r]}]
  BY DEF Arrive, Arrived, driverProgress, UpdateStatus, SetStatus
<1>2. ASSUME NEW s \in Ride PROVE BillInv(s)'
  <2>1. /\ history'[s].driven = history[s].driven /\ history'[s].rolling = history[s].rolling
        /\ history'[s].strayed = history[s].strayed
        /\ history'[s].rested = history[s].rested /\ history'[s].mishaps = history[s].mishaps
    BY <1>1 DEF TripsInv, TripsTypeOK, History
  <2>2. Busy(s)' = Busy(s)
    BY <1>1 DEF Busy
  <2>3. CASE s # r
    <3>1. status'[s] = status[s]
      BY <1>1, <2>3 DEF TripsInv
    <3> QED BY <1>1, <2>1, <2>2, <3>1, BillKept DEF BillsInv, Undisturbed
  <2>4. CASE s = r
    <3>1. /\ status'[s] = "ARRIVED" /\ BillInv(s)
          /\ status[s] = "DRIVER_ARRIVING"
      BY <1>1, <2>4 DEF TripsInv, BillsInv
    <3>2. Elapsed(s)' = Elapsed(s)
      BY <1>1 DEF Elapsed
    <3>3. RowsGoTogether(s)' /\ RestWithinTrip(s)'
      BY <1>1, <2>1, <3>1 DEF BillInv, RowsGoTogether, RestWithinTrip, Completed
    <3>4. Undisturbed(s)' => WorkIsOnTrip(s)'
      BY <1>1, <2>1, <2>2, <3>1 DEF BillInv, Undisturbed, WorkIsOnTrip, NoneAt, At
    <3>5. Undisturbed(s)' => MeterIsExact(s)'
      BY <1>1, <2>1, <2>2, <3>1
         DEF BillInv, Undisturbed, MeterIsExact, NoneAt, At, OfTheTrip, ByTheMeter, Completed
    <3>6. Undisturbed(s)' => PausesAreExact(s)'
      BY <1>1, <2>1, <2>2, <3>1, <3>2 DEF BillInv, Undisturbed, PausesAreExact, NoneAt, At
    <3> QED BY <3>3, <3>4, <3>5, <3>6 DEF BillInv
  <2> QED BY <2>3, <2>4
<1> QED BY <1>2 DEF BillsInv

\* What may be part of the trip stays so when more is metered beside it.
LEMMA MoreOfTheTrip ==
  ASSUME TripsTypeOK, NEW r \in Ride, UNCHANGED proc,
         history'[r].driven = history[r].driven,
         history'[r].rolling \in Nat, history'[r].strayed \in Nat,
         history'[r].rolling + history'[r].strayed
           >= history[r].rolling + history[r].strayed
  PROVE  \A v \in Busy(r) :
           /\ proc[v].op \in {"drain", "bill"}
           /\ OfTheTrip(r, proc[v].metres)
           => (OfTheTrip(r, proc[v].metres))'
<1> SUFFICES ASSUME NEW v \in Busy(r), proc[v].op \in {"drain", "bill"},
                    OfTheTrip(r, proc[v].metres)
             PROVE  (OfTheTrip(r, proc[v].metres))'
  OBVIOUS
<1>1. proc[v].metres \in Nat /\ proc'[v].metres = proc[v].metres
  BY TripFields DEF TripsTypeOK, AnyRequest, Busy
<1>2. /\ history[r].driven \in Nat /\ history[r].rolling \in Nat
      /\ history[r].strayed \in Nat
  BY Numbers
<1> QED BY <1>1, <1>2 DEF OfTheTrip

LEMMA PingBills ==
  ASSUME TripsInv, BillsInv, NEW r \in Ride, PingRead(r) \/ PingMeter(r)
  PROVE  BillsInv'
<1>1. UNCHANGED <<status, trip_status, proc, bill, paused_at, now>>
  BY DEF PingRead, PingMeter, vars
<1>2. \A s \in Ride : Busy(s)' = Busy(s)
  BY <1>1 DEF Busy
<1>3. CASE PingRead(r)
  <2>1. trip_dist' = trip_dist /\ history' = history
    BY <1>3 DEF PingRead
  <2> QED BY <1>1, <1>2, <2>1, BillKept DEF BillsInv, Undisturbed
<1>4. CASE PingMeter(r)
  <2>1. /\ trip_dist' = [trip_dist EXCEPT ![r] = @ + Delta]
        /\ \/ /\ status[r] # "IN_PROGRESS"
              /\ UNCHANGED history
           \/ /\ AtReset(r)
              /\ UNCHANGED history
           \/ history' = [history EXCEPT ![r].strayed = @ + Delta]
           \/ history' = [history EXCEPT ![r].rolling = @ + Delta]
           \/ /\ status[r] = "IN_PROGRESS" /\ ~AtEnds(r)
              /\ history' = [history EXCEPT ![r].driven = @ + Delta]
        /\ status[r] # "IN_PROGRESS" => UNCHANGED history
    BY <1>4 DEF PingMeter
  <2>2. \A s \in Ride \ {r} : trip_dist'[s] = trip_dist[s] /\ history'[s] = history[s]
    BY <2>1 DEF TripsInv, TripsTypeOK
  <2>3. ASSUME NEW s \in Ride \ {r} PROVE BillInv(s)'
    BY <1>1, <1>2, <2>2, BillKept DEF BillsInv, Undisturbed
  <2>4. /\ trip_dist'[r] = trip_dist[r] + Delta
        /\ history'[r].rolling \in Nat /\ history'[r].strayed \in Nat
        /\ history'[r].rested = history[r].rested /\ history'[r].mishaps = history[r].mishaps
        /\ \/ /\ status[r] # "IN_PROGRESS" \/ AtReset(r)
              /\ history'[r].driven = history[r].driven
              /\ history'[r].rolling = history[r].rolling
              /\ history'[r].strayed = history[r].strayed
           \/ /\ history'[r].driven = history[r].driven
              /\ history'[r].rolling + history'[r].strayed
                   = history[r].rolling + history[r].strayed + Delta
           \/ /\ status[r] = "IN_PROGRESS" /\ ~AtEnds(r)
              /\ history'[r].driven = history[r].driven + Delta
              /\ history'[r].rolling = history[r].rolling
              /\ history'[r].strayed = history[r].strayed
        /\ status[r] # "IN_PROGRESS" =>
              /\ history'[r].driven = history[r].driven
              /\ history'[r].rolling = history[r].rolling
              /\ history'[r].strayed = history[r].strayed
    <3>1. history[r] \in History /\ history \in [Ride -> History]
      BY DEF TripsInv, TripsTypeOK
    <3>2. /\ history[r].driven \in Nat /\ history[r].rolling \in Nat
          /\ history[r].strayed \in Nat /\ Delta \in Nat
      BY Numbers DEF TripsInv
    <3>3. trip_dist'[r] = trip_dist[r] + Delta
      BY <2>1 DEF TripsInv, TripsTypeOK
    <3>4. CASE /\ status[r] # "IN_PROGRESS" \/ AtReset(r)
               /\ UNCHANGED history
      BY <3>2, <3>3, <3>4
    <3>5. CASE history' = [history EXCEPT ![r].strayed = @ + Delta]
      <4>1. history'[r] = [history[r] EXCEPT !.strayed = @ + Delta]
        BY <3>1, <3>5
      <4>2. /\ history'[r].strayed = history[r].strayed + Delta
            /\ history'[r].rolling = history[r].rolling
            /\ history'[r].driven = history[r].driven
            /\ history'[r].rested = history[r].rested
            /\ history'[r].mishaps = history[r].mishaps
        BY <3>1, <4>1 DEF History
      <4>3. status[r] = "IN_PROGRESS" \/ history' = history
        BY <2>1
      <4> QED BY <3>2, <3>3, <4>2, <4>3
    <3>6. CASE history' = [history EXCEPT ![r].rolling = @ + Delta]
      <4>1. history'[r] = [history[r] EXCEPT !.rolling = @ + Delta]
        BY <3>1, <3>6
      <4>2. /\ history'[r].strayed = history[r].strayed
            /\ history'[r].rolling = history[r].rolling + Delta
            /\ history'[r].driven = history[r].driven
            /\ history'[r].rested = history[r].rested
            /\ history'[r].mishaps = history[r].mishaps
        BY <3>1, <4>1 DEF History
      <4>3. status[r] = "IN_PROGRESS" \/ history' = history
        BY <2>1
      <4> QED BY <3>2, <3>3, <4>2, <4>3
    <3>7. CASE /\ status[r] = "IN_PROGRESS" /\ ~AtEnds(r)
               /\ history' = [history EXCEPT ![r].driven = @ + Delta]
      <4>1. history'[r] = [history[r] EXCEPT !.driven = @ + Delta]
        BY <3>1, <3>7
      <4> QED BY <3>1, <3>3, <3>7, <4>1 DEF History
    <3> QED BY <2>1, <3>4, <3>5, <3>6, <3>7
  <2>5. RowsGoTogether(r)' /\ RestWithinTrip(r)'
    BY <1>1, <2>4 DEF BillsInv, BillInv, RowsGoTogether, RestWithinTrip, Completed
  <2>6. ASSUME Undisturbed(r)'
        PROVE  WorkIsOnTrip(r)' /\ MeterIsExact(r)' /\ PausesAreExact(r)'
    <3>1. /\ RowsGoTogether(r)
          /\ WorkIsOnTrip(r) /\ MeterIsExact(r) /\ PausesAreExact(r)
      BY <2>4, <2>6 DEF BillsInv, BillInv, Undisturbed
    <3>2. Elapsed(r)' = Elapsed(r)
      BY <1>1 DEF Elapsed
    <3>3. WorkIsOnTrip(r)' /\ PausesAreExact(r)'
      BY <1>1, <1>2, <2>4, <3>1, <3>2 DEF WorkIsOnTrip, PausesAreExact, NoneAt, At
    <3>4. MeterIsExact(r)'
      <4> DEFINE Metered(v) ==
            /\ proc[v].op \in {"reset", "clear"} => history[r].driven = 0
            /\ proc[v].op = "drain" => OfTheTrip(r, proc[v].metres)
            /\ proc[v].op = "bill" => ByTheMeter(r, proc[v].metres)
      <4>1. CASE status[r] # "IN_PROGRESS"
        BY <1>1, <1>2, <2>4, <3>1, <4>1
           DEF MeterIsExact, NoneAt, At, OfTheTrip, ByTheMeter, Completed
      <4>2. CASE status[r] = "IN_PROGRESS"
        <5>1. /\ trip_status[r] # Absent /\ ~Completed(r)
              /\ trip_status'[r] # Absent /\ ~Completed(r)'
          BY <1>1, <3>1, <4>2 DEF RowsGoTogether, Completed, Absent
        <5>2. /\ history[r].driven \in Nat /\ history[r].rolling \in Nat
              /\ history[r].strayed \in Nat /\ trip_dist[r] \in Nat /\ Delta \in Nat
          BY Numbers DEF TripsInv
        <5>3. CASE AtReset(r)
          <6>1. /\ ~(NoneAt(r, {"reset", "clear", "drain", "bill"}))'
                /\ history'[r].driven = history[r].driven
                /\ history'[r].rolling + history'[r].strayed
                     >= history[r].rolling + history[r].strayed
            <7>1. \E v \in Busy(r) : proc[v].op \in {"reset", "clear"}
              BY <5>3 DEF AtReset, At
            <7>2. AtEnds(r)
              BY <5>3 DEF AtEnds
            <7> QED BY <1>1, <1>2, <2>4, <5>2, <7>1, <7>2 DEF NoneAt, At
          <6>2. ASSUME NEW v \in Busy(r) PROVE Metered(v)'
            <7>1. proc[v].op \in {"drain", "bill"} /\ OfTheTrip(r, proc[v].metres) =>
                    (OfTheTrip(r, proc[v].metres))'
              BY <1>1, <2>4, <6>1, MoreOfTheTrip DEF TripsInv
            <7> QED BY <1>1, <3>1, <6>1, <7>1 DEF MeterIsExact, ByTheMeter
          <6> QED BY <1>1, <1>2, <5>1, <6>1, <6>2 DEF MeterIsExact
        <5>4. CASE /\ history'[r].driven = history[r].driven
                   /\ history'[r].rolling + history'[r].strayed
                        = history[r].rolling + history[r].strayed + Delta
          <6>1. OfTheTrip(r, trip_dist[r]) => (OfTheTrip(r, trip_dist[r]))'
            BY <2>4, <5>2, <5>4 DEF OfTheTrip
          <6>2. ASSUME NEW v \in Busy(r) PROVE Metered(v)'
            <7>1. proc[v].op \in {"drain", "bill"} /\ OfTheTrip(r, proc[v].metres) =>
                    (OfTheTrip(r, proc[v].metres))'
              BY <1>1, <2>4, <5>2, <5>4, MoreOfTheTrip DEF TripsInv
            <7> QED BY <1>1, <3>1, <5>4, <7>1 DEF MeterIsExact, ByTheMeter
          <6>3. NoneAt(r, {"reset", "clear", "drain", "bill"})' =>
                  NoneAt(r, {"reset", "clear", "drain", "bill"})
            BY <1>1, <1>2 DEF NoneAt, At
          <6> QED BY <1>1, <1>2, <3>1, <5>1, <6>1, <6>2, <6>3 DEF MeterIsExact
        <5>5. CASE /\ ~AtEnds(r)
                   /\ history'[r].driven = history[r].driven + Delta
                   /\ history'[r].rolling = history[r].rolling
                   /\ history'[r].strayed = history[r].strayed
          <6>1. \A v \in Busy(r) : proc[v].op \notin {"reset", "clear", "drain", "bill"}
            BY <5>5 DEF AtEnds, AtReset, At
          <6>2. NoneAt(r, {"reset", "clear", "drain", "bill"})
            BY <6>1 DEF NoneAt, At
          <6>3. OfTheTrip(r, trip_dist[r])'
            BY <2>4, <3>1, <4>2, <5>2, <5>5, <6>2 DEF MeterIsExact, OfTheTrip
          <6> QED BY <1>1, <1>2, <5>1, <6>1, <6>3 DEF MeterIsExact
        <5> QED BY <2>4, <4>2, <5>3, <5>4, <5>5
      <4> QED BY <4>1, <4>2
    <3> QED BY <3>3, <3>4
  <2> QED BY <2>3, <2>5, <2>6 DEF BillsInv, BillInv
<1> QED BY <1>3, <1>4

LEMMA TickBills ==
  ASSUME TripsInv, BillsInv, Tick
  PROVE  BillsInv'
<1>1. /\ UNCHANGED <<status, trip_status, proc, bill, trip_dist, paused_at>>
      /\ now' = now + 1
      /\ \A s \in Ride : Busy(s) = {} /\ Busy(s)' = {}
  BY DEF Tick, vars, Busy
<1>2. SUFFICES ASSUME NEW r \in Ride PROVE BillInv(r)'
  BY DEF BillsInv
<1>3. /\ history'[r].driven = history[r].driven /\ history'[r].rolling = history[r].rolling
      /\ history'[r].strayed = history[r].strayed /\ history'[r].mishaps = history[r].mishaps
      /\ history'[r].rested = IF trip_status[r] = "PAUSED" THEN history[r].rested + Second
                                                           ELSE history[r].rested
  <2>1. history[r] \in History
    BY DEF TripsInv, TripsTypeOK
  <2>2. history'[r] = IF trip_status[r] = "PAUSED"
                      THEN [history[r] EXCEPT !.rested = history[r].rested + Second]
                      ELSE history[r]
    BY DEF Tick
  <2> QED BY <2>1, <2>2 DEF History
<1>4. /\ now \in Nat /\ Second \in Nat /\ bill[r].started_at \in Nat
      /\ history[r].rested \in Nat /\ bill[r].paused_seconds \in Nat
  BY Numbers DEF TripsInv
<1>5. BillInv(r)
  BY DEF BillsInv
<1>6. RowsGoTogether(r)'
  BY <1>1, <1>5 DEF BillInv, RowsGoTogether, Completed
<1>7. RestWithinTrip(r)'
  <2>1. CASE status[r] = "IN_PROGRESS"
    <3> DEFINE long == (now - bill[r].started_at) * Second
    <3>1. /\ (now' - bill'[r].started_at) * Second = long + Second
          /\ long \in Int
      <4>1. /\ ((now + 1) - bill[r].started_at) * Second = long + Second
            /\ long \in Int
        BY <1>4, OneMoreTick, Zenon
      <4> QED BY <1>1, <4>1
    <3>2. bill[r].started_at <= now /\ history[r].rested <= long
      BY <1>5, <2>1 DEF BillInv, RestWithinTrip
    <3> HIDE DEF long
    <3>3. /\ bill'[r].started_at <= now'
          /\ history'[r].rested <= long + Second
      BY <1>1, <1>3, <1>4, <3>1, <3>2
    <3>4. trip_status'[r] # Absent /\ ~Completed(r)'
      BY <1>1, <1>5, <2>1 DEF BillInv, RowsGoTogether, Completed, Absent
    <3> QED BY <3>1, <3>3, <3>4 DEF RestWithinTrip
  <2>2. CASE status[r] # "IN_PROGRESS"
    BY <1>1, <1>3, <1>5, <2>2 DEF BillInv, RowsGoTogether, RestWithinTrip, Completed
  <2> QED BY <2>1, <2>2
<1>8. ASSUME Undisturbed(r)'
      PROVE  WorkIsOnTrip(r)' /\ MeterIsExact(r)' /\ PausesAreExact(r)'
  <2>1. WorkIsOnTrip(r) /\ MeterIsExact(r) /\ PausesAreExact(r) /\ Undisturbed(r)
    BY <1>3, <1>5, <1>8 DEF BillInv, Undisturbed
  <2>2. WorkIsOnTrip(r)' /\ MeterIsExact(r)'
    BY <1>1, <1>3, <2>1 DEF WorkIsOnTrip, MeterIsExact, NoneAt, At, OfTheTrip, ByTheMeter, Completed
  <2>3. PausesAreExact(r)'
    <3>1. bill[r].paused_seconds + Elapsed(r) = history[r].rested
      BY <1>1, <2>1 DEF PausesAreExact, NoneAt, At
    <3>2. CASE paused_at[r] = None
      <4>1. Elapsed(r)' = 0 /\ Elapsed(r) = 0 /\ trip_status[r] # "PAUSED"
        BY <1>1, <2>1, <3>2 DEF Elapsed, PausesAreExact, NoneAt, At
      <4> QED BY <1>1, <1>3, <2>1, <3>1, <4>1 DEF PausesAreExact, NoneAt, At
    <3>3. CASE paused_at[r] # None
      <4>1. Elapsed(r) = (now - paused_at[r]) * Second /\ paused_at[r] \in Nat
        BY <3>3, TripsAssumption DEF Elapsed, TripsInv, TripsTypeOK
      <4>2. Elapsed(r)' = ((now + 1) - paused_at[r]) * Second
        <5>1. now' = now + 1 /\ paused_at' = paused_at
          BY <1>1
        <5> QED BY <3>3, <5>1, Zenon DEF Elapsed
      <4>3. Elapsed(r)' = Elapsed(r) + Second /\ Elapsed(r) \in Int
        <5>1. /\ ((now + 1) - paused_at[r]) * Second = (now - paused_at[r]) * Second + Second
              /\ (now - paused_at[r]) * Second \in Int
          BY <1>4, <4>1, OneMoreTick, Zenon
        <5> QED BY <4>1, <4>2, <5>1, Zenon
      <4>4. trip_status[r] = "PAUSED"
        BY <2>1, <3>3 DEF TripsInv, RideInv, PausesAreCounted, PausesInOrder, Undisturbed
      <4>5. bill'[r].paused_seconds + Elapsed(r)' = history'[r].rested
        BY <1>1, <1>3, <1>4, <3>1, <4>3, <4>4
      <4> QED BY <1>1, <3>3, <4>4, <4>5 DEF PausesAreExact, NoneAt, At, Absent
    <3> QED BY <3>2, <3>3
  <2> QED BY <2>2, <2>3
<1> QED BY <1>6, <1>7, <1>8 DEF BillInv

LEMMA BillsInit == TripsInit => BillsInv
<1> SUFFICES ASSUME TripsInit, NEW r \in Ride PROVE BillInv(r)
  BY DEF BillsInv
<1>1. Busy(r) = {}
  BY DEF TripsInit, Busy
<1>2. Elapsed(r) = 0
  BY DEF TripsInit, Elapsed
<1> QED BY <1>1, <1>2
        DEF TripsInit, BillInv, RowsGoTogether, RestWithinTrip, WorkIsOnTrip, MeterIsExact,
            PausesAreExact, NoneAt, At, Completed, Absent

LEMMA BillsStep == TripsInv /\ BillsInv /\ [TripsNext]_tripVars => BillsInv'
<1> SUFFICES ASSUME TripsInv, BillsInv, [TripsNext]_tripVars PROVE BillsInv'
  OBVIOUS
<1>1. CASE UNCHANGED tripVars
  <2>1. \A s \in Ride : Busy(s)' = Busy(s)
    BY <1>1 DEF tripVars, vars, Busy
  <2> QED BY <1>1, <2>1, BillKept DEF tripVars, vars, BillsInv, Undisturbed
<1>2. ASSUME NEW w \in Worker, Step(w) PROVE BillsInv'
  BY <1>2, StartRowsBills, ResetMeterBills, PauseMarkBills, ResumeRowBills, EndFoldBills,
     EndMeterBills, EndDrainBills, EndBillBills, RefusedBills, CutBills
  DEF Step
<1>3. ASSUME NEW w \in Worker, NEW r \in Ride, Call(w, r) PROVE BillsInv'
  BY <1>3, ReadBills, PauseRowBills, ResumeConsumeBills DEF Call
<1> QED BY <1>1, <1>2, <1>3, RegenerateOTPBills, ArriveBills, PingBills, TickBills DEF TripsNext

\* Meter, pauses and rows stay exact along every undisturbed ride: no request of it
\* overlapped another or was cut short, and no Redis command of it failed.
THEOREM BillsInvariance == TripsSpec => []BillsInv
BY TripsInvariance, BillsInit, BillsStep, PTL DEF TripsSpec

\* An undisturbed ride is billed the metres of its trip, whatever pings race its
\* Start and its End, for any way, clock and number of rides.  Of the way to the
\* pickup only a ping that read before the trip and metered after the reset counts.
THEOREM TheMeterIsBilled == TripsSpec => []MeteredIsBilled
<1>1. BillsInv => MeteredIsBilled
  BY DEF BillsInv, BillInv, Undisturbed, MeterIsExact, MeteredIsBilled
<1> QED BY <1>1, BillsInvariance, PTL

\* An undisturbed ride is billed the time it did not rest: every pause is
\* deducted, the one still open at the end included, and nothing else.
THEOREM PausesAreNotCharged == TripsSpec => []PausesAreFree
<1>1. TripsInv /\ BillsInv => PausesAreFree
  <2> SUFFICES ASSUME TripsInv, BillsInv, NEW r \in Ride, Completed(r),
                      history[r].mishaps = {}
               PROVE  /\ bill[r].paused_seconds = history[r].rested
                      /\ bill[r].fare_total \in
                           FinalFare(Rates, bill[r].distance_m,
                             (bill[r].ended_at - bill[r].started_at) * Second
                               - history[r].rested,
                             Quote.surge)
    BY DEF PausesAreFree
  <2>1. RowsGoTogether(r) /\ RestWithinTrip(r) /\ WorkIsOnTrip(r) /\ PausesAreExact(r)
    BY DEF BillsInv, BillInv, Undisturbed
  <2>2. trip_status[r] = "ENDED" /\ status[r] # "IN_PROGRESS"
    BY <2>1 DEF RowsGoTogether, Completed
  <2>3. Elapsed(r) = 0
    BY <2>2 DEF TripsInv, RideInv, PausesAreCounted, PausesInOrder, Elapsed
  <2>4. /\ bill[r].paused_seconds \in Nat /\ history[r].rested \in Nat
    BY Numbers DEF TripsInv
  <2>5. bill[r].paused_seconds = history[r].rested
    <3>1. NoneAt(r, {"meter", "drain", "bill"})
      BY <2>1, <2>2 DEF WorkIsOnTrip, NoneAt, At
    <3>2. CASE NoneAt(r, {"resume"})
      BY <2>1, <2>3, <2>4, <3>1, <3>2 DEF PausesAreExact, NoneAt, At
    <3>3. CASE ~NoneAt(r, {"resume"})
      BY <2>1, <2>2, <2>4, <3>3 DEF PausesAreExact, NoneAt, At
    <3> QED BY <3>2, <3>3
  <2>6. Duration(bill[r].started_at, bill[r].ended_at, history[r].rested)
          = (bill[r].ended_at - bill[r].started_at) * Second - history[r].rested
    <3> DEFINE long == (bill[r].ended_at - bill[r].started_at) * Second
    <3>1. long \in Int
      BY Numbers DEF TripsInv
    <3>2. history[r].rested <= long
      BY <2>1 DEF RestWithinTrip
    <3> HIDE DEF long
    <3>3. ~(long - history[r].rested < 0)
      BY <2>4, <3>1, <3>2
    <3> QED BY <3>3 DEF Duration, long
  <2> QED BY <2>5, <2>6 DEF TripsInv, RideInv, FareIsComputed
<1> QED BY <1>1, TripsInvariance, BillsInvariance, PTL
=============================================================================
