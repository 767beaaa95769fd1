------------------------------- MODULE Quotes -------------------------------
(***************************************************************************)
(* Quotes and the surge they lock: the minute buckets of demand of one     *)
(* geohash cell in Redis, read one by one by every quote and bumped by it  *)
(* when its row is stored, while the clock runs and the buckets expire.    *)
(*                                                                         *)
(* A minute is Minute ticks.  A quote takes its time once, at its start,   *)
(* and works with it until its end; the router's timeout bounds how long   *)
(* that is.  The supply a GEOSEARCH counts is any number.  The prices of a *)
(* quote are Fares.Fare at its surge, and are left out here.               *)
(***************************************************************************)
EXTENDS Integers, FiniteSets, Fares

CONSTANTS
  Worker,      \* quotes in the making at the same time (a bound)
  Minute,      \* ticks of a minute
  Window,      \* minute buckets that are summed up (demandWindow)
  DemandTTL,   \* ticks a bucket lives after it was last bumped (demandTTL)
  Timeout,     \* ticks a request may take
  MaxSupply,   \* bound on the drivers near the pickup
  MaxQuotes,   \* bound on the quotes that are asked for
  MaxTime      \* bound on the clock

ASSUME QuotesAssumption ==
  /\ Minute \in Nat \ {0} /\ Window \in Nat \ {0}
  /\ DemandTTL = Window * Minute
  /\ Timeout \in Nat /\ MaxSupply \in Nat /\ MaxQuotes \in Nat /\ MaxTime \in Nat

VARIABLES
  now,      \* the clock
  demand,   \* minute -> surge:req of that minute: its count and when it expires;
            \* count 0 when there is no such key
  proc,     \* Worker -> the quote in the making
  asked,    \* quotes asked for so far
  bumps,    \* what was counted: its number, its minute and when (history)
  quote     \* the last quote stored: its surge and supply, and the demand it may have
            \* seen (history)

quoteVars == <<now, demand, proc, asked, bumps, quote>>

Idle == [at |-> "idle"]

MinuteOf(t) == t \div Minute

Minutes == 0 .. MinuteOf(MaxTime)

\* Mutant: one bucket too many.
InWindow_TooFar(m, t) == MinuteOf(t) - Window <= m /\ m <= MinuteOf(t)

\* The minutes a quote that started at t sums up.
InWindow(m, t) == MinuteOf(t) - Window < m /\ m <= MinuteOf(t)

\* started: its `now`; next: the bucket it reads next; sum: of the ones read;
\* before: the bumps that had been done when it started.
Making ==
  {Idle}
    \cup [at : {"read"}, started : 0 .. MaxTime, next : -Window .. MinuteOf(MaxTime),
          sum : Nat, before : Nat]
    \cup [at : {"store"}, started : 0 .. MaxTime, sum : Nat, before : Nat, supply : 0 .. MaxSupply]
    \cup [at : {"bump"}, started : 0 .. MaxTime]

Bump == [number : Nat, minute : Minutes, when : 0 .. MaxTime]

QuotesTypeOK ==
  /\ now \in 0 .. MaxTime
  /\ demand \in [Minutes -> [count : Nat, expires : 0 .. MaxTime + DemandTTL]]
  /\ proc \in [Worker -> Making]
  /\ asked \in 0 .. MaxQuotes
  /\ bumps \subseteq Bump
  /\ quote \in [surge : SurgeX100, supply : 0 .. MaxSupply, least : Nat, most : Nat]

Goto(w, making) == proc' = [proc EXCEPT ![w] = making]

(***************************************************************************)
(* quotes.Create                                                           *)
(***************************************************************************)

Ask(w) ==
  /\ proc[w] = Idle
  /\ asked < MaxQuotes
  /\ asked' = asked + 1
  /\ Goto(w, [at |-> "read", started |-> now, next |-> MinuteOf(now), sum |-> 0,
              before |-> Cardinality(bumps)])
  /\ UNCHANGED <<now, demand, bumps, quote>>

Count(m) == IF m \in Minutes THEN demand[m].count ELSE 0

\* ComputeSurge: GET the buckets of the window, from the newest to the oldest.
ReadBucket(w) ==
  /\ proc[w].at = "read"
  /\ InWindow(proc[w].next, proc[w].started)
  /\ Goto(w, [proc[w] EXCEPT !.next = @ - 1, !.sum = @ + Count(proc[w].next)])
  /\ UNCHANGED <<now, demand, asked, bumps, quote>>

\* GEOSEARCH around the pickup.
CountSupply(w) ==
  /\ proc[w].at = "read"
  /\ ~InWindow(proc[w].next, proc[w].started)
  /\ \E supply \in 0 .. MaxSupply :
       Goto(w, [at |-> "store", started |-> proc[w].started, sum |-> proc[w].sum,
                before |-> proc[w].before, supply |-> supply])
  /\ UNCHANGED <<now, demand, asked, bumps, quote>>

\* The bumps a quote that started at t and reads until now sums up at most, and
\* those of them it cannot miss: done before it, and not longer ago than the
\* buckets live.
Countable(t)      == {b \in bumps : InWindow(b.minute, t)}
Counted(t, before) == {b \in Countable(t) : b.number <= before /\ now < b.when + DemandTTL}

Store(w) ==
  LET p == proc[w] IN
  /\ p.at = "store"
  /\ quote' = [surge |-> Bucket(p.sum, p.supply), supply |-> p.supply,
               least |-> Cardinality(Counted(p.started, p.before)),
               most |-> Cardinality(Countable(p.started))]
  /\ Goto(w, [at |-> "bump", started |-> p.started])
  /\ UNCHANGED <<now, demand, asked, bumps>>

\* Mutant: the bucket lives a minute less than the window.
IncrementDemand_ShortTTL(w) ==
  LET m == MinuteOf(proc[w].started) IN
  /\ proc[w].at = "bump"
  /\ demand' = [demand EXCEPT ![m] = [count |-> @.count + 1, expires |-> now + DemandTTL - Minute]]
  /\ bumps' = bumps \cup {[number |-> Cardinality(bumps) + 1, minute |-> m, when |-> now]}
  /\ Goto(w, Idle)
  /\ UNCHANGED <<now, asked, quote>>

\* Mutant: the bucket is that of the wall clock's next minute.
IncrementDemand_Ahead(w) ==
  LET m == IF MinuteOf(now) + 1 \in Minutes THEN MinuteOf(now) + 1 ELSE MinuteOf(now) IN
  /\ proc[w].at = "bump"
  /\ demand' = [demand EXCEPT ![m] = [count |-> @.count + 1, expires |-> now + DemandTTL]]
  /\ bumps' = bumps \cup {[number |-> Cardinality(bumps) + 1, minute |-> MinuteOf(proc[w].started),
                           when |-> now]}
  /\ Goto(w, Idle)
  /\ UNCHANGED <<now, asked, quote>>

\* INCR and EXPIRE in one pipeline, in the bucket of the quote's own time.
IncrementDemand(w) ==
  LET m == MinuteOf(proc[w].started) IN
  /\ proc[w].at = "bump"
  /\ demand' = [demand EXCEPT ![m] = [count |-> @.count + 1, expires |-> now + DemandTTL]]
  /\ bumps' = bumps \cup {[number |-> Cardinality(bumps) + 1, minute |-> m, when |-> now]}
  /\ Goto(w, Idle)
  /\ UNCHANGED <<now, asked, quote>>

\* A failed read fails the quote; a failed bump is logged, and the quote stands.
Cut(w) ==
  /\ proc[w] # Idle
  /\ Goto(w, Idle)
  /\ UNCHANGED <<now, demand, asked, bumps, quote>>

\* Expiry is exact; no request outlives its timeout.
Tick ==
  /\ now < MaxTime
  /\ \A w \in Worker : proc[w] # Idle => now < proc[w].started + Timeout
  /\ now' = now + 1
  /\ demand' = [m \in Minutes |-> IF demand[m].expires <= now + 1
                                  THEN [count |-> 0, expires |-> 0] ELSE demand[m]]
  /\ UNCHANGED <<proc, asked, bumps, quote>>

QuotesInit ==
  /\ now = 0
  /\ demand = [m \in Minutes |-> [count |-> 0, expires |-> 0]]
  /\ proc = [w \in Worker |-> Idle]
  /\ asked = 0
  /\ bumps = {}
  /\ quote = [surge |-> 200, supply |-> 0, least |-> 0, most |-> 0]

QuotesNext ==
  \/ \E w \in Worker :
       \/ Ask(w) \/ ReadBucket(w) \/ CountSupply(w) \/ Store(w) \/ IncrementDemand(w)
       \/ Cut(w)
  \/ Tick

QuotesSpec == QuotesInit /\ [][QuotesNext]_quoteVars

(***************************************************************************)
(* Properties.                                                             *)
(***************************************************************************)

\* What was counted in a minute.
BumpsOf(m) == {b \in bumps : b.minute = m}

\* A bucket does not expire while a quote that starts now sums it up: what the
\* window holds in Redis is exactly what was asked for in its minutes, late
\* bumps included, although the TTL is no longer than the window.
WindowIsKept ==
  \A m \in Minutes :
    InWindow(m, now) => demand[m].count = Cardinality(BumpsOf(m))

\* A quote's surge lies between those of the demand it cannot have missed and
\* of the demand there was in its window when it was stored, whatever is
\* bumped and expires between two of its reads: a rider is not surged for
\* demand that is not there.
SurgeWithinDemand ==
  /\ Bucket(quote.least, quote.supply) <= quote.surge
  /\ quote.surge <= Bucket(quote.most, quote.supply)

(***************************************************************************)
(* The inductive invariant: bump by bump, bucket by bucket, read by read.  *)
(***************************************************************************)

BumpsAreNumbered ==
  /\ IsFiniteSet(bumps)
  /\ \A b \in bumps : b.number <= Cardinality(bumps) /\ b.when <= now

\* The bumps of a minute that are not longer ago than a bucket lives.
Live(m) == {b \in BumpsOf(m) : now < b.when + DemandTTL}

\* A bucket holds the bumps of its minute, all of them while the minute is in
\* the window of a quote that starts now, and always the recent ones: it
\* outlives each of its bumps by the TTL, and none comes before its minute.
BucketHolds(m) ==
  /\ Cardinality(Live(m)) <= demand[m].count
  /\ demand[m].count <= Cardinality(BumpsOf(m))
  /\ now < (m + Window) * Minute => demand[m].count = Cardinality(BumpsOf(m))
  /\ demand[m].count > 0 => (m + Window) * Minute <= demand[m].expires
  /\ \A b \in Live(m) : b.when + DemandTTL <= demand[m].expires

\* Those of some bumps that are later than a minute.
After(some, m) == {b \in some : b.minute > m}

\* The sum of a quote counts what it cannot have missed and only what there is,
\* in the minutes after `next` that it has read.
SumIsOfTheWindow(p, next) ==
  /\ p.before <= Cardinality(bumps)
  /\ Cardinality(After(Counted(p.started, p.before), next)) <= p.sum
  /\ p.sum <= Cardinality(After(Countable(p.started), next))

MakingInv(p) ==
  /\ p # Idle => p.started <= now
  /\ p.at = "read" => p.next <= MinuteOf(p.started) /\ SumIsOfTheWindow(p, p.next)
  /\ p.at = "store" => SumIsOfTheWindow(p, MinuteOf(p.started) - Window)

QuotesInv ==
  /\ QuotesTypeOK
  /\ BumpsAreNumbered
  /\ \A m \in Minutes : BucketHolds(m)
  /\ \A w \in Worker : MakingInv(proc[w])
  /\ SurgeWithinDemand
=============================================================================
