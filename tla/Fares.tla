-------------------------------- MODULE Fares --------------------------------
(***************************************************************************)
(* The fare arithmetic of internal/pricing: integer paise, metres, seconds *)
(* and surge x100.                                                         *)
(*                                                                         *)
(* The code computes in float64 and rounds with math.Round.  On the        *)
(* amounts of the rate card the error of the floats is far below a paisa,  *)
(* so rounding gives the nearest integer; only where the exact value lies  *)
(* half-way between two integers may it give either.  The operators return *)
(* the set of the results the floats can take.                             *)
(***************************************************************************)
EXTENDS Integers

\* The rate card, in paise: base, per kilometre, per minute.
Tiers == [mini  |-> [base |-> 3000, perKm |-> 1100, perMin |-> 150],
          sedan |-> [base |-> 5000, perKm |-> 1500, perMin |-> 200],
          xl    |-> [base |-> 8000, perKm |-> 2000, perMin |-> 300]]

RatesType == [base : Nat, perKm : Nat, perMin : Nat]

SurgeX100 == {100, 120, 150, 200}

\* math.Round of the float nearest to a / b.
Round(a, b) ==
  LET below == a \div b
      rest  == a % b IN
    {n \in {below, below + 1} : IF n = below THEN 2 * rest <= b ELSE 2 * rest >= b}

\* Base, distance and time, surged; 1/1000 km and 1/60 min in units of 1/3000.
Fare(rates, distanceM, durationS, surge) ==
  {100 * rupees :
     rupees \in Round((3000 * rates.base + 3 * distanceM * rates.perKm
                         + 50 * durationS * rates.perMin) * surge, 30000000)}

DistanceComponent(rates, distanceM) == Round(distanceM * rates.perKm, 1000)

\* Mutant: the rate per minute is charged per second.
TimeComponent_PerSecond(rates, durationS) == {durationS * rates.perMin}

TimeComponent(rates, durationS) == Round(durationS * rates.perMin, 60)

\* The total is derived from the components rounded to paise.
Total(base, dist, tm, surge) == {100 * rupees : rupees \in Round((base + dist + tm) * surge, 10000)}

FinalFare(rates, distanceM, durationS, surge) ==
  UNION {Total(rates.base, dist, tm, surge) :
           dist \in DistanceComponent(rates, distanceM), tm \in TimeComponent(rates, durationS)}

\* The ratio demand/supply in steps of one.
Bucket(demand, supply) ==
  IF supply <= 0 THEN 200
  ELSE IF demand < supply THEN 100
  ELSE IF demand < 2 * supply THEN 120
  ELSE IF demand < 3 * supply THEN 150
  ELSE 200
=============================================================================
