---------------------------- MODULE QuotesProofs ----------------------------
(***************************************************************************)
(* The demand window and the surge of a quote, for any length of a minute, *)
(* of the window and of the clock, and any number of quotes in the making. *)
(***************************************************************************)
EXTENDS Quotes, FiniteSetTheorems, TLAPS

\* More demand, or fewer drivers, never lowers the surge.
THEOREM SurgeGrowsWithDemand ==
  ASSUME NEW sought \in Nat, NEW supply \in Nat,
         NEW more \in Nat, more >= sought, NEW fewer \in Nat, fewer <= supply
  PROVE  /\ Bucket(sought, supply) \in SurgeX100
         /\ Bucket(sought, supply) <= Bucket(more, fewer)
BY DEF Bucket, SurgeX100

(***************************************************************************)
(* Minutes.                                                                *)
(***************************************************************************)
LEMMA Quotient ==
  ASSUME NEW t \in Nat, NEW k \in Nat \ {0}
  PROVE  /\ t \div k \in Nat
         /\ (t \div k) * k <= t
         /\ t < (t \div k + 1) * k
BY SMTT(60)

LEMMA Times ==
  ASSUME NEW a \in Int, NEW b \in Int, NEW k \in Nat, a <= b
  PROVE  a * k <= b * k
<1>1. PICK d \in Nat : b = a + d
  <2>1. b - a \in Nat /\ b = a + (b - a)
    OBVIOUS
  <2> QED BY <2>1
<1>2. b * k = a * k + d * k /\ d * k \in Nat
  BY <1>1
<1>3. a * k \in Int
  OBVIOUS
<1> QED BY <1>2, <1>3

\* The minute of a time, and that it contains the time.
LEMMA MinuteHolds ==
  ASSUME NEW t \in Nat
  PROVE  /\ MinuteOf(t) \in Nat
         /\ MinuteOf(t) * Minute <= t
         /\ t < (MinuteOf(t) + 1) * Minute
BY Quotient, QuotesAssumption DEF MinuteOf

LEMMA MinutesPass ==
  ASSUME NEW s \in Nat, NEW t \in Nat, s <= t
  PROVE  MinuteOf(s) <= MinuteOf(t)
<1> DEFINE a == MinuteOf(s)
           b == MinuteOf(t)
<1>1. /\ a \in Nat /\ b \in Nat /\ Minute \in Nat
      /\ a * Minute <= s /\ t < (b + 1) * Minute
  BY MinuteHolds, QuotesAssumption
<1> HIDE DEF a, b
<1>2. SUFFICES ASSUME b < a PROVE FALSE
  BY <1>1 DEF a, b
<1>3. (b + 1) * Minute <= a * Minute
  <2>1. b + 1 \in Int /\ a \in Int /\ b + 1 <= a
    BY <1>1, <1>2
  <2> QED BY <1>1, <2>1, Times
<1>4. (b + 1) * Minute \in Int /\ a * Minute \in Int
  BY <1>1
<1> QED BY <1>1, <1>3, <1>4

\* A minute in the window of a quote that starts at t has not left it at t.
LEMMA WindowLasts ==
  ASSUME NEW t \in Nat, NEW m \in Int, InWindow(m, t)
  PROVE  t < (m + Window) * Minute
<1>1. /\ MinuteOf(t) \in Nat /\ Window \in Nat /\ Minute \in Nat
      /\ t < (MinuteOf(t) + 1) * Minute
  BY MinuteHolds, QuotesAssumption
<1>2. MinuteOf(t) + 1 <= m + Window
  BY <1>1 DEF InWindow
<1>3. (MinuteOf(t) + 1) * Minute <= (m + Window) * Minute
  BY <1>1, <1>2, Times
<1>4. (MinuteOf(t) + 1) * Minute \in Int /\ (m + Window) * Minute \in Int
  BY <1>1
<1> QED BY <1>1, <1>3, <1>4

\* A bucket that is bumped in its minute or later outlives the window.
LEMMA BumpOutlives ==
  ASSUME NEW s \in Nat, NEW t \in Nat, s <= t
  PROVE  (MinuteOf(s) + Window) * Minute <= t + DemandTTL
<1> DEFINE m == MinuteOf(s)
<1>1. m \in Nat /\ Window \in Nat /\ Minute \in Nat /\ m * Minute <= s
  BY MinuteHolds, QuotesAssumption
<1>2. DemandTTL = Window * Minute /\ DemandTTL \in Nat
  BY QuotesAssumption
<1> HIDE DEF m
<1>3. (m + Window) * Minute = m * Minute + Window * Minute /\ m * Minute \in Nat
  BY <1>1
<1> QED BY <1>1, <1>2, <1>3 DEF m

(***************************************************************************)
(* Counting.                                                               *)
(***************************************************************************)
LEMMA FewerCount ==
  ASSUME NEW S, IsFiniteSet(S), NEW T, T \subseteq S
  PROVE  /\ IsFiniteSet(T) /\ Cardinality(T) \in Nat /\ Cardinality(S) \in Nat
         /\ Cardinality(T) <= Cardinality(S)
BY FS_Subset, FS_CardinalityType

\* Those of some bumps that are of a minute.
Within(some, m) == {b \in some : b.minute = m}

\* What is later than n - 1 is later than n or in n.
LEMMA OneMinuteMore ==
  ASSUME NEW S, IsFiniteSet(S), \A b \in S : b.minute \in Int, NEW n \in Int
  PROVE  /\ Cardinality(After(S, n - 1)) = Cardinality(After(S, n)) + Cardinality(Within(S, n))
         /\ Cardinality(After(S, n)) \in Nat /\ Cardinality(Within(S, n)) \in Nat
<1>1. After(S, n - 1) = After(S, n) \cup Within(S, n) /\ After(S, n) \cap Within(S, n) = {}
  BY DEF After, Within
<1>2. After(S, n) \subseteq S /\ Within(S, n) \subseteq S
  BY DEF After, Within
<1>3. /\ IsFiniteSet(After(S, n)) /\ IsFiniteSet(Within(S, n))
      /\ Cardinality(After(S, n)) \in Nat /\ Cardinality(Within(S, n)) \in Nat
  BY <1>2, FewerCount
<1>4. Cardinality(After(S, n) \cup Within(S, n))
        = Cardinality(After(S, n)) + Cardinality(Within(S, n))
            - Cardinality(After(S, n) \cap Within(S, n))
  BY <1>3, FS_Union
<1>5. Cardinality(After(S, n) \cap Within(S, n)) = 0
  BY <1>1, FS_EmptySet
<1>6. Cardinality(After(S, n - 1)) = Cardinality(After(S, n) \cup Within(S, n))
  BY <1>1
<1> QED BY <1>3, <1>4, <1>5, <1>6

\* What QuotesTypeOK says of a bump, a bucket and a quote in the making.
LEMMA BumpTypes ==
  ASSUME QuotesTypeOK, NEW b \in bumps
  PROVE  b.number \in Nat /\ b.minute \in Minutes /\ b.minute \in Int /\ b.when \in Nat
<1>1. b.number \in Nat /\ b.minute \in Minutes /\ b.when \in 0 .. MaxTime
  BY DEF QuotesTypeOK, Bump
<1> QED BY <1>1, QuotesAssumption DEF Minutes

LEMMA MakingFields ==
  ASSUME NEW p \in Making
  PROVE  /\ p.at \in {"idle", "read", "store", "bump"}
         /\ p.at = "idle" <=> p = Idle
         /\ p # Idle => p.started \in 0 .. MaxTime /\ p.started \in Nat
         /\ p.at = "read" => /\ p.next \in -Window .. MinuteOf(MaxTime)
                             /\ p.sum \in Nat /\ p.before \in Nat
         /\ p.at = "store" => p.sum \in Nat /\ p.before \in Nat /\ p.supply \in 0 .. MaxSupply
<1>1. 0 .. MaxTime \subseteq Nat
  BY QuotesAssumption
<1>2. CASE p = Idle
  BY <1>2 DEF Idle
<1>3. CASE p \in [at : {"read"}, started : 0 .. MaxTime, next : -Window .. MinuteOf(MaxTime),
                  sum : Nat, before : Nat]
  BY <1>1, <1>3 DEF Idle
<1>4. CASE p \in [at : {"store"}, started : 0 .. MaxTime, sum : Nat, before : Nat,
                  supply : 0 .. MaxSupply]
  BY <1>1, <1>4 DEF Idle
<1>5. CASE p \in [at : {"bump"}, started : 0 .. MaxTime]
  BY <1>1, <1>5 DEF Idle
<1> QED BY <1>2, <1>3, <1>4, <1>5 DEF Making

LEMMA Numbers ==
  ASSUME QuotesTypeOK
  PROVE  /\ now \in Nat /\ now \in 0 .. MaxTime
         /\ Window \in Nat /\ Minute \in Nat /\ DemandTTL \in Nat
         /\ MaxTime \in Nat /\ MaxSupply \in Nat /\ MaxQuotes \in Nat
         /\ MinuteOf(MaxTime) \in Nat /\ Minutes \subseteq Nat
         /\ \A m \in Minutes : demand[m].count \in Nat /\ demand[m].expires \in Nat
<1>1. /\ Window \in Nat /\ Minute \in Nat /\ DemandTTL \in Nat
      /\ MaxTime \in Nat /\ MaxSupply \in Nat /\ MaxQuotes \in Nat
  BY QuotesAssumption
<1>2. MinuteOf(MaxTime) \in Nat
  BY <1>1, MinuteHolds
<1> QED BY <1>1, <1>2 DEF QuotesTypeOK, Minutes

\* The minute of a time up to now has a bucket.
LEMMA MinuteIsThere ==
  ASSUME QuotesTypeOK, NEW s \in 0 .. MaxTime
  PROVE  MinuteOf(s) \in Minutes
<1>1. s \in Nat /\ MaxTime \in Nat /\ s <= MaxTime
  BY QuotesAssumption
<1> QED BY <1>1, MinuteHolds, MinutesPass DEF Minutes

\* The quotes in the making after one of them goes on or ends.
LEMMA GoesTo ==
  ASSUME QuotesTypeOK, NEW w \in Worker, NEW q \in Making, Goto(w, q)
  PROVE  /\ proc' \in [Worker -> Making] /\ proc'[w] = q
         /\ \A v \in Worker \ {w} : proc'[v] = proc[v]
BY DEF QuotesTypeOK, Goto

\* A step of one quote that leaves clock, buckets and bumps alone.
LEMMA OnlyItsOwn ==
  ASSUME QuotesInv, NEW w \in Worker, NEW q \in Making, Goto(w, q),
         UNCHANGED <<now, demand, bumps>>, asked' \in 0 .. MaxQuotes,
         MakingInv(q)', SurgeWithinDemand',
         quote' \in [surge : SurgeX100, supply : 0 .. MaxSupply, least : Nat, most : Nat]
  PROVE  QuotesInv'
<1>1. /\ proc' \in [Worker -> Making] /\ proc'[w] = q
      /\ \A v \in Worker \ {w} : proc'[v] = proc[v]
  BY GoesTo DEF QuotesInv
<1>2. QuotesTypeOK'
  BY <1>1 DEF QuotesInv, QuotesTypeOK
<1>3. BumpsAreNumbered' /\ \A m \in Minutes : BucketHolds(m)'
  BY DEF QuotesInv, BumpsAreNumbered, BucketHolds, BumpsOf, Live
<1>4. ASSUME NEW v \in Worker PROVE MakingInv(proc[v])'
  <2>1. CASE v = w
    BY <1>1, <2>1
  <2>2. CASE v # w
    <3>1. proc'[v] = proc[v] /\ MakingInv(proc[v])
      BY <1>1, <2>2 DEF QuotesInv
    <3> QED BY <3>1 DEF MakingInv, SumIsOfTheWindow, Counted, Countable
  <2> QED BY <2>1, <2>2
<1> QED BY <1>2, <1>3, <1>4 DEF QuotesInv

(***************************************************************************)
(* One step of a quote.                                                    *)
(***************************************************************************)
LEMMA AskInv ==
  ASSUME QuotesInv, NEW w \in Worker, Ask(w)
  PROVE  QuotesInv'
<1> USE DEF QuotesInv
<1>1. /\ now \in Nat /\ now \in 0 .. MaxTime /\ MinuteOf(now) \in Nat /\ MaxTime \in Nat
      /\ MinuteOf(MaxTime) \in Nat /\ MinuteOf(now) <= MinuteOf(MaxTime)
      /\ Window \in Nat
  BY Numbers, MinuteHolds, MinutesPass
<1>2. IsFiniteSet(bumps) /\ Cardinality(bumps) \in Nat
  BY FS_CardinalityType DEF BumpsAreNumbered
<1>3. PICK q \in Making :
        q = [at |-> "read", started |-> now, next |-> MinuteOf(now), sum |-> 0,
             before |-> Cardinality(bumps)]
  <2>1. MinuteOf(now) \in -Window .. MinuteOf(MaxTime)
    BY <1>1
  <2> QED BY <1>1, <1>2, <2>1 DEF Making
<1>4. /\ q.at = "read" /\ q.started = now /\ q.next = MinuteOf(now) /\ q.sum = 0
      /\ q.before = Cardinality(bumps)
  BY <1>3
<1>5. Goto(w, q) /\ UNCHANGED <<now, demand, bumps, quote>> /\ asked' \in 0 .. MaxQuotes
  BY <1>3, QuotesAssumption DEF Ask, QuotesTypeOK
<1>6. MakingInv(q)
  <2>1. \A b \in Countable(now) : ~(b.minute > MinuteOf(now))
    BY <1>1, BumpTypes DEF Countable, InWindow
  <2>2. /\ After(Countable(now), MinuteOf(now)) = {}
        /\ After(Counted(now, Cardinality(bumps)), MinuteOf(now)) = {}
    BY <2>1 DEF Counted, After
  <2>3. SumIsOfTheWindow(q, q.next)
    BY <1>2, <1>4, <2>2, FS_EmptySet DEF SumIsOfTheWindow
  <2>4. now <= now /\ MinuteOf(now) <= MinuteOf(now)
    BY <1>1
  <2> QED BY <1>4, <2>3, <2>4 DEF MakingInv
<1>7. MakingInv(q)' /\ SurgeWithinDemand'
  BY <1>5, <1>6 DEF MakingInv, SumIsOfTheWindow, Counted, Countable, SurgeWithinDemand
<1> HIDE DEF QuotesInv
<1>8. quote' \in [surge : SurgeX100, supply : 0 .. MaxSupply, least : Nat, most : Nat]
  BY <1>5 DEF QuotesInv, QuotesTypeOK
<1> QED BY <1>5, <1>7, <1>8, OnlyItsOwn

\* What a bucket of the window adds to the sum.
LEMMA BucketAdds ==
  ASSUME QuotesInv, NEW t \in Nat, NEW before \in Nat, NEW n \in Int, InWindow(n, t)
  PROVE  /\ Count(n) \in Nat
         /\ Cardinality(Within(Counted(t, before), n)) <= Count(n)
         /\ Count(n) <= Cardinality(Within(Countable(t), n))
<1> USE DEF QuotesInv
<1>1. Within(Countable(t), n) = BumpsOf(n)
  BY DEF Countable, BumpsOf, Within
<1>2. Within(Counted(t, before), n) \subseteq Live(n)
  BY DEF Counted, Countable, BumpsOf, Live, Within
<1>3. Live(n) \subseteq BumpsOf(n) /\ BumpsOf(n) \subseteq bumps /\ IsFiniteSet(bumps)
  BY DEF Live, BumpsOf, BumpsAreNumbered
<1>4. /\ IsFiniteSet(BumpsOf(n)) /\ IsFiniteSet(Live(n))
      /\ Cardinality(Live(n)) \in Nat /\ Cardinality(BumpsOf(n)) \in Nat
  BY <1>3, FewerCount
<1>5. /\ Cardinality(Within(Counted(t, before), n)) <= Cardinality(Live(n))
      /\ Cardinality(Within(Counted(t, before), n)) \in Nat
  BY <1>2, <1>4, FewerCount
<1>6. CASE n \in Minutes
  <2>1. BucketHolds(n) /\ Count(n) = demand[n].count /\ demand[n].count \in Nat
    BY <1>6, Numbers DEF Count
  <2> QED BY <1>1, <1>4, <1>5, <2>1 DEF BucketHolds
<1>7. CASE n \notin Minutes
  <2>1. BumpsOf(n) = {}
    BY <1>7, BumpTypes DEF BumpsOf
  <2>2. Cardinality(Live(n)) = 0 /\ Cardinality(BumpsOf(n)) = 0 /\ Count(n) = 0
    BY <1>3, <1>7, <2>1, FS_EmptySet DEF Count
  <2> QED BY <1>1, <1>5, <2>2
<1> QED BY <1>6, <1>7

LEMMA ReadBucketInv ==
  ASSUME QuotesInv, NEW w \in Worker, ReadBucket(w)
  PROVE  QuotesInv'
<1> USE DEF QuotesInv
<1>1. PICK p \in Making : p = proc[w] /\ p.at = "read" /\ InWindow(p.next, p.started)
  BY DEF ReadBucket, QuotesTypeOK
<1>2. /\ p.started \in Nat /\ p.next \in Int /\ p.sum \in Nat /\ p.before \in Nat
      /\ p.next \in -Window .. MinuteOf(MaxTime) /\ p.started \in 0 .. MaxTime
      /\ p # Idle
  BY <1>1, MakingFields, Numbers
<1>3. /\ Count(p.next) \in Nat
      /\ Cardinality(Within(Counted(p.started, p.before), p.next)) <= Count(p.next)
      /\ Count(p.next) <= Cardinality(Within(Countable(p.started), p.next))
  BY <1>1, <1>2, BucketAdds
<1>4. MinuteOf(p.started) \in Nat /\ MinuteOf(MaxTime) \in Nat /\ Window \in Nat
  BY <1>2, MinuteHolds, Numbers
<1>5. PICK q \in Making : q = [p EXCEPT !.next = @ - 1, !.sum = @ + Count(p.next)]
  <2>1. p \in [at : {"read"}, started : 0 .. MaxTime, next : -Window .. MinuteOf(MaxTime),
               sum : Nat, before : Nat]
    BY <1>1 DEF Making, Idle
  <2>2. p.next - 1 \in -Window .. MinuteOf(MaxTime) /\ p.sum + Count(p.next) \in Nat
    BY <1>1, <1>2, <1>3, <1>4 DEF InWindow
  <2> QED BY <2>1, <2>2 DEF Making
<1>6. /\ q.at = "read" /\ q.started = p.started /\ q.before = p.before
      /\ q.next = p.next - 1 /\ q.sum = p.sum + Count(p.next)
  BY <1>1, <1>5 DEF Making, Idle
<1>7. Goto(w, q) /\ UNCHANGED <<now, demand, asked, bumps, quote>>
  BY <1>1, <1>5 DEF ReadBucket
<1>8. MakingInv(q)
  <2>1. MakingInv(p)
    BY <1>1
  <2>2. \A b \in bumps : b.minute \in Int
    BY BumpTypes
  <2>3. /\ IsFiniteSet(Countable(p.started)) /\ IsFiniteSet(Counted(p.started, p.before))
    BY FewerCount DEF BumpsAreNumbered, Countable, Counted
  <2> DEFINE C == Countable(p.started)
             D == Counted(p.started, p.before)
             n == p.next
  <2>4. /\ C \subseteq bumps /\ D \subseteq bumps
    BY DEF Countable, Counted
  <2> HIDE DEF C, D
  <2>5. /\ Cardinality(After(C, n - 1))
             = Cardinality(After(C, n)) + Cardinality(Within(C, n))
        /\ Cardinality(After(D, n - 1))
             = Cardinality(After(D, n)) + Cardinality(Within(D, n))
        /\ Cardinality(After(C, n)) \in Nat /\ Cardinality(Within(C, n)) \in Nat
        /\ Cardinality(After(D, n)) \in Nat /\ Cardinality(Within(D, n)) \in Nat
    BY <1>2, <2>2, <2>3, <2>4, OneMinuteMore DEF C, D
  <2>6. /\ p.before <= Cardinality(bumps)
        /\ Cardinality(After(D, n)) <= p.sum
        /\ p.sum <= Cardinality(After(C, n))
    BY <1>1, <2>1 DEF MakingInv, SumIsOfTheWindow, C, D
  <2>7. /\ Cardinality(Within(D, n)) <= Count(n)
        /\ Count(n) <= Cardinality(Within(C, n))
    BY <1>3 DEF C, D
  <2>8. /\ Cardinality(After(D, n - 1)) <= p.sum + Count(n)
        /\ p.sum + Count(n) <= Cardinality(After(C, n - 1))
    <3> HIDE DEF n
    <3> QED BY <1>2, <1>3, <2>5, <2>6, <2>7 DEF n
  <2>9. SumIsOfTheWindow(q, q.next)
    BY <1>6, <2>6, <2>8 DEF SumIsOfTheWindow, C, D
  <2>10. q.next <= MinuteOf(q.started) /\ q.started <= now
    BY <1>1, <1>2, <1>4, <1>6, <2>1 DEF MakingInv
  <2> QED BY <1>6, <2>9, <2>10 DEF MakingInv
<1>9. MakingInv(q)' /\ SurgeWithinDemand'
  BY <1>7, <1>8 DEF MakingInv, SumIsOfTheWindow, Counted, Countable, SurgeWithinDemand
<1>10. /\ asked' \in 0 .. MaxQuotes
       /\ quote' \in [surge : SurgeX100, supply : 0 .. MaxSupply, least : Nat, most : Nat]
  BY <1>7 DEF QuotesTypeOK
<1> HIDE DEF QuotesInv
<1> QED BY <1>7, <1>9, <1>10, OnlyItsOwn

LEMMA CountSupplyInv ==
  ASSUME QuotesInv, NEW w \in Worker, CountSupply(w)
  PROVE  QuotesInv'
<1> USE DEF QuotesInv
<1>1. PICK p \in Making : p = proc[w] /\ p.at = "read" /\ ~InWindow(p.next, p.started)
  BY DEF CountSupply, QuotesTypeOK
<1>2. /\ p.started \in Nat /\ p.next \in Int /\ p.sum \in Nat /\ p.before \in Nat
      /\ p.started \in 0 .. MaxTime /\ p # Idle
  BY <1>1, MakingFields, Numbers
<1>3. MinuteOf(p.started) \in Nat /\ Window \in Nat
  BY <1>2, MinuteHolds, Numbers
<1>4. PICK supply \in 0 .. MaxSupply :
        Goto(w, [at |-> "store", started |-> p.started, sum |-> p.sum,
                 before |-> p.before, supply |-> supply])
  BY <1>1 DEF CountSupply
<1>5. PICK q \in Making : q = [at |-> "store", started |-> p.started, sum |-> p.sum,
                               before |-> p.before, supply |-> supply]
  BY <1>2 DEF Making
<1>6. /\ q.at = "store" /\ q.started = p.started /\ q.before = p.before /\ q.sum = p.sum
      /\ Goto(w, q) /\ UNCHANGED <<now, demand, asked, bumps, quote>>
  BY <1>4, <1>5 DEF CountSupply
<1>7. MakingInv(q)
  <2>1. MakingInv(p)
    BY <1>1
  <2>2. p.next <= MinuteOf(p.started) - Window
    BY <1>1, <1>2, <1>3, <2>1 DEF MakingInv, InWindow
  <2> DEFINE t == p.started
  <2>3. \A b \in Countable(t) : b.minute > p.next <=> b.minute > MinuteOf(t) - Window
    BY <1>2, <1>3, <2>2, BumpTypes DEF Countable, InWindow
  <2>4. After(Countable(t), p.next) = After(Countable(t), MinuteOf(t) - Window)
    BY <2>3 DEF After
  <2>5. After(Counted(t, p.before), p.next) = After(Counted(t, p.before), MinuteOf(t) - Window)
    BY <2>3 DEF After, Counted
  <2> QED BY <1>1, <1>2, <1>6, <2>1, <2>4, <2>5 DEF MakingInv, SumIsOfTheWindow
<1>8. MakingInv(q)' /\ SurgeWithinDemand'
  BY <1>6, <1>7 DEF MakingInv, SumIsOfTheWindow, Counted, Countable, SurgeWithinDemand
<1>9. /\ asked' \in 0 .. MaxQuotes
      /\ quote' \in [surge : SurgeX100, supply : 0 .. MaxSupply, least : Nat, most : Nat]
  BY <1>6 DEF QuotesTypeOK
<1> HIDE DEF QuotesInv
<1> QED BY <1>6, <1>8, <1>9, OnlyItsOwn

LEMMA StoreInv ==
  ASSUME QuotesInv, NEW w \in Worker, Store(w)
  PROVE  QuotesInv'
<1> USE DEF QuotesInv
<1>1. PICK p \in Making : p = proc[w] /\ p.at = "store"
  BY DEF Store, QuotesTypeOK
<1>2. /\ p.started \in Nat /\ p.sum \in Nat /\ p.before \in Nat /\ p.supply \in 0 .. MaxSupply
      /\ p.started \in 0 .. MaxTime /\ p # Idle
  BY <1>1, MakingFields
<1>3. PICK q \in Making : q = [at |-> "bump", started |-> p.started]
  BY <1>2 DEF Making
<1> DEFINE C == Countable(p.started)
           D == Counted(p.started, p.before)
<1>4. IsFiniteSet(C) /\ IsFiniteSet(D) /\ Cardinality(C) \in Nat /\ Cardinality(D) \in Nat
  BY FewerCount DEF BumpsAreNumbered, Countable, Counted
<1>5. Cardinality(D) <= p.sum /\ p.sum <= Cardinality(C)
  <2>1. \A b \in C : b.minute > MinuteOf(p.started) - Window
    BY DEF Countable, InWindow
  <2>2. /\ After(C, MinuteOf(p.started) - Window) = C
        /\ After(D, MinuteOf(p.started) - Window) = D
    BY <2>1 DEF After, Counted
  <2>3. SumIsOfTheWindow(p, MinuteOf(p.started) - Window)
    BY <1>1 DEF MakingInv
  <2> QED BY <2>2, <2>3 DEF SumIsOfTheWindow
<1>6. /\ quote' = [surge |-> Bucket(p.sum, p.supply), supply |-> p.supply,
                   least |-> Cardinality(D), most |-> Cardinality(C)]
      /\ Goto(w, q)
      /\ UNCHANGED <<now, demand, asked, bumps>>
  BY <1>1, <1>3 DEF Store
<1> HIDE DEF C, D
<1>7. p.supply \in Nat
  BY <1>2, QuotesAssumption
<1>8. /\ Bucket(p.sum, p.supply) \in SurgeX100
      /\ Bucket(Cardinality(D), p.supply) <= Bucket(p.sum, p.supply)
      /\ Bucket(p.sum, p.supply) <= Bucket(Cardinality(C), p.supply)
  <2>1. p.supply <= p.supply
    BY <1>7
  <2> QED BY <1>2, <1>4, <1>5, <1>7, <2>1, SurgeGrowsWithDemand
<1>9. /\ quote' \in [surge : SurgeX100, supply : 0 .. MaxSupply, least : Nat, most : Nat]
      /\ SurgeWithinDemand'
  BY <1>2, <1>4, <1>6, <1>8 DEF SurgeWithinDemand
<1>10. MakingInv(q)'
  BY <1>1, <1>2, <1>3, <1>6 DEF MakingInv
<1>11. asked' \in 0 .. MaxQuotes
  BY <1>6 DEF QuotesTypeOK
<1> HIDE DEF QuotesInv
<1> QED BY <1>6, <1>9, <1>10, <1>11, OnlyItsOwn

LEMMA CutInv ==
  ASSUME QuotesInv, NEW w \in Worker, Cut(w)
  PROVE  QuotesInv'
<1>1. /\ Idle \in Making /\ Idle.at = "idle"
      /\ Goto(w, Idle) /\ UNCHANGED <<now, demand, asked, bumps, quote>>
  BY DEF Cut, Making, Idle
<1>2. MakingInv(Idle)'
  BY <1>1 DEF MakingInv
<1>3. /\ asked' \in 0 .. MaxQuotes /\ SurgeWithinDemand'
      /\ quote' \in [surge : SurgeX100, supply : 0 .. MaxSupply, least : Nat, most : Nat]
  BY <1>1 DEF QuotesInv, QuotesTypeOK, SurgeWithinDemand
<1> QED BY <1>1, <1>2, <1>3, OnlyItsOwn

(***************************************************************************)
(* Bumps and the clock, beside the quotes in the making.                   *)
(***************************************************************************)

\* The sum of a quote stays right when others bump and time passes.
LEMMA SumKept ==
  ASSUME QuotesTypeOK, QuotesTypeOK', BumpsAreNumbered, BumpsAreNumbered',
         now <= now', bumps \subseteq bumps',
         \A b \in bumps' \ bumps : b.number > Cardinality(bumps),
         NEW p \in Making, NEW n \in Int, p # Idle, p.before \in Nat, p.sum \in Nat,
         SumIsOfTheWindow(p, n)
  PROVE  SumIsOfTheWindow(p, n)'
<1> DEFINE C == After(Countable(p.started), n)
           D == After(Counted(p.started, p.before), n)
<1>1. /\ IsFiniteSet(bumps) /\ IsFiniteSet(bumps')
      /\ Cardinality(bumps) \in Nat /\ Cardinality(bumps') \in Nat
      /\ Cardinality(bumps) <= Cardinality(bumps')
  BY FewerCount DEF BumpsAreNumbered
<1>2. C \subseteq C'
  BY DEF After, Countable
<1>3. D' \subseteq D
  <2> SUFFICES ASSUME NEW b \in D' PROVE b \in D
    OBVIOUS
  <2>1. /\ b \in bumps' /\ InWindow(b.minute, p.started) /\ b.number <= p.before
        /\ now' < b.when + DemandTTL /\ b.minute > n
    BY DEF After, Countable, Counted
  <2>2. b.number \in Nat /\ b.when \in Nat /\ now \in Nat /\ now' \in Nat /\ DemandTTL \in Nat
    BY <2>1, Numbers, QuotesAssumption DEF QuotesTypeOK, Bump
  <2>3. p.before <= Cardinality(bumps)
    BY DEF SumIsOfTheWindow
  <2>4. b \in bumps /\ now < b.when + DemandTTL
    BY <1>1, <2>1, <2>2, <2>3
  <2> QED BY <2>1, <2>4 DEF After, Countable, Counted
<1>4. IsFiniteSet(C) /\ IsFiniteSet(C') /\ IsFiniteSet(D)
  <2>1. C \subseteq bumps /\ D \subseteq bumps /\ C' \subseteq bumps'
    BY DEF After, Countable, Counted
  <2> QED BY <1>1, <2>1, FewerCount
<1>5. /\ Cardinality(C) \in Nat /\ Cardinality(C') \in Nat /\ Cardinality(C) <= Cardinality(C')
      /\ Cardinality(D) \in Nat /\ Cardinality(D') \in Nat /\ Cardinality(D') <= Cardinality(D)
  BY <1>2, <1>3, <1>4, FewerCount
<1>6. /\ p.before <= Cardinality(bumps)
      /\ Cardinality(D) <= p.sum /\ p.sum <= Cardinality(C)
  BY DEF SumIsOfTheWindow
<1> HIDE DEF C, D
<1>7. /\ p.before <= Cardinality(bumps')
      /\ Cardinality(D') <= p.sum /\ p.sum <= Cardinality(C')
  BY <1>1, <1>5, <1>6
<1> QED BY <1>7 DEF SumIsOfTheWindow, C, D

LEMMA MakingKept ==
  ASSUME QuotesTypeOK, QuotesTypeOK', BumpsAreNumbered, BumpsAreNumbered',
         now <= now', bumps \subseteq bumps',
         \A b \in bumps' \ bumps : b.number > Cardinality(bumps),
         NEW p \in Making, MakingInv(p)
  PROVE  MakingInv(p)'
<1>1. now \in Nat /\ now' \in Nat
  BY Numbers, QuotesAssumption DEF QuotesTypeOK
<1>2. CASE p.at = "read"
  <2>1. /\ p # Idle /\ p.next \in Int /\ p.before \in Nat /\ p.sum \in Nat /\ p.started \in Nat
    BY <1>2, MakingFields, Numbers
  <2>2. SumIsOfTheWindow(p, p.next)'
    BY <1>2, <2>1, SumKept DEF MakingInv
  <2> QED BY <1>1, <1>2, <2>1, <2>2 DEF MakingInv
<1>3. CASE p.at = "store"
  <2>1. /\ p # Idle /\ p.before \in Nat /\ p.sum \in Nat /\ p.started \in Nat
        /\ MinuteOf(p.started) - Window \in Int
    BY <1>3, MakingFields, Numbers, MinuteHolds
  <2>2. PICK n \in Int : n = MinuteOf(p.started) - Window
    BY <2>1
  <2>3. SumIsOfTheWindow(p, n)'
    BY <1>3, <2>1, <2>2, SumKept DEF MakingInv
  <2> QED BY <1>1, <1>3, <2>1, <2>2, <2>3 DEF MakingInv
<1>4. CASE p.at \in {"idle", "bump"}
  BY <1>1, <1>4, MakingFields DEF MakingInv
<1> QED BY <1>2, <1>3, <1>4, MakingFields

LEMMA IncrementDemandInv ==
  ASSUME QuotesInv, NEW w \in Worker, IncrementDemand(w)
  PROVE  QuotesInv'
<1> USE DEF QuotesInv
<1>1. PICK p \in Making : p = proc[w] /\ p.at = "bump"
  BY DEF IncrementDemand, QuotesTypeOK
<1>2. /\ p.started \in Nat /\ p.started \in 0 .. MaxTime /\ p.started <= now
  BY <1>1, MakingFields DEF MakingInv
<1>3. PICK m \in Minutes : m = MinuteOf(p.started)
  BY <1>2, MinuteIsThere
<1>4. /\ IsFiniteSet(bumps) /\ Cardinality(bumps) \in Nat
      /\ now \in Nat /\ now \in 0 .. MaxTime /\ DemandTTL \in Nat
      /\ m \in Nat /\ Window \in Nat /\ Minute \in Nat
      /\ demand[m].count \in Nat /\ demand[m].expires \in Nat
  BY Numbers, FS_CardinalityType DEF BumpsAreNumbered
<1>5. PICK new \in Bump : new = [number |-> Cardinality(bumps) + 1, minute |-> m, when |-> now]
  <2>1. PICK n \in Nat : n = Cardinality(bumps) + 1
    BY <1>4
  <2>2. [number |-> n, minute |-> m, when |-> now] \in Bump
    BY <1>4 DEF Bump
  <2> QED BY <2>1, <2>2
<1>6. /\ demand' = [demand EXCEPT ![m] = [count |-> demand[m].count + 1,
                                         expires |-> now + DemandTTL]]
      /\ bumps' = bumps \cup {new}
      /\ Goto(w, Idle)
      /\ UNCHANGED <<now, asked, quote>>
  BY <1>1, <1>3, <1>5 DEF IncrementDemand
<1>7. /\ new.number = Cardinality(bumps) + 1 /\ new.minute = m /\ new.when = now
      /\ new \notin bumps
  BY <1>4, <1>5 DEF BumpsAreNumbered
<1>8. /\ demand'[m].count = demand[m].count + 1 /\ demand'[m].expires = now + DemandTTL
      /\ \A k \in Minutes \ {m} : demand'[k] = demand[k]
  BY <1>6 DEF QuotesTypeOK
<1>9. IsFiniteSet(bumps') /\ Cardinality(bumps') = Cardinality(bumps) + 1
  BY <1>4, <1>6, <1>7, FS_AddElement
<1>10. QuotesTypeOK'
  <2>1. Idle \in Making
    BY DEF Making
  <2>2. proc' \in [Worker -> Making]
    BY <1>6, <2>1, GoesTo
  <2>3. [count |-> demand[m].count + 1, expires |-> now + DemandTTL]
           \in [count : Nat, expires : 0 .. MaxTime + DemandTTL]
    BY <1>4, Numbers
  <2>4. demand' \in [Minutes -> [count : Nat, expires : 0 .. MaxTime + DemandTTL]]
    BY <1>6, <2>3 DEF QuotesTypeOK
  <2> QED BY <1>5, <1>6, <2>2, <2>4 DEF QuotesTypeOK
<1>11. BumpsAreNumbered'
  <2>1. \A b \in bumps : b.number \in Nat /\ b.when \in Nat
    BY BumpTypes
  <2>2. \A b \in bumps : b.number <= Cardinality(bumps) + 1 /\ b.when <= now
    BY <1>4, <2>1 DEF BumpsAreNumbered
  <2>3. new.number <= Cardinality(bumps) + 1 /\ new.when <= now
    BY <1>4, <1>7
  <2>4. \A b \in bumps' : b.number <= Cardinality(bumps') /\ b.when <= now'
    <3>1. \A b \in bumps' : b \in bumps \/ b = new
      BY <1>6
    <3> QED BY <1>6, <1>9, <2>2, <2>3, <3>1
  <2> QED BY <1>9, <2>4 DEF BumpsAreNumbered
<1>12. ASSUME NEW k \in Minutes PROVE BucketHolds(k)'
  <2>1. CASE k # m
    <3>1. BumpsOf(k)' = BumpsOf(k) /\ Live(k)' = Live(k)
      BY <1>6, <1>7, <2>1 DEF BumpsOf, Live
    <3> QED BY <1>6, <1>8, <2>1, <3>1 DEF BucketHolds
  <2>2. CASE k = m
    <3>1. /\ BumpsOf(m)' = BumpsOf(m) \cup {new} /\ new \notin BumpsOf(m)
          /\ Live(m)' \subseteq Live(m) \cup {new} /\ new \notin Live(m)
      BY <1>6, <1>7 DEF BumpsOf, Live
    <3>2. /\ IsFiniteSet(BumpsOf(m)) /\ IsFiniteSet(Live(m))
          /\ Cardinality(BumpsOf(m)) \in Nat /\ Cardinality(Live(m)) \in Nat
      <4>1. BumpsOf(m) \subseteq bumps /\ Live(m) \subseteq bumps
        BY DEF BumpsOf, Live
      <4> QED BY <1>4, <4>1, FewerCount
    <3>3. Cardinality(BumpsOf(m)') = Cardinality(BumpsOf(m)) + 1
      BY <3>1, <3>2, FS_AddElement
    <3>4. Cardinality(Live(m)') <= Cardinality(Live(m)) + 1 /\ Cardinality(Live(m)') \in Nat
      <4>1. /\ IsFiniteSet(Live(m) \cup {new})
            /\ Cardinality(Live(m) \cup {new}) = Cardinality(Live(m)) + 1
        BY <3>1, <3>2, FS_AddElement
      <4>2. Live(m)' \subseteq Live(m) \cup {new}
        BY <3>1
      <4>3. /\ Cardinality(Live(m)') <= Cardinality(Live(m) \cup {new})
            /\ Cardinality(Live(m)') \in Nat
        BY <4>1, <4>2, FewerCount
      <4> QED BY <4>1, <4>3
    <3>5. (m + Window) * Minute <= now + DemandTTL
      BY <1>2, <1>3, <1>4, BumpOutlives
    <3>6. \A b \in Live(m)' : b.when + DemandTTL <= now + DemandTTL
      <4>1. \A b \in bumps' : b.when \in Nat /\ b.when <= now
        BY <1>6, <1>11, <1>10 DEF BumpsAreNumbered, QuotesTypeOK, Bump
      <4>2. Live(m)' \subseteq bumps'
        BY DEF Live, BumpsOf
      <4> QED BY <1>4, <4>1, <4>2
    <3>7. /\ Cardinality(Live(m)) <= demand[m].count
          /\ demand[m].count <= Cardinality(BumpsOf(m))
          /\ now < (m + Window) * Minute => demand[m].count = Cardinality(BumpsOf(m))
      BY DEF BucketHolds
    <3>8. /\ Cardinality(Live(m)') <= demand'[m].count
          /\ demand'[m].count <= Cardinality(BumpsOf(m)')
          /\ now < (m + Window) * Minute => demand'[m].count = Cardinality(BumpsOf(m)')
      BY <1>4, <1>8, <3>2, <3>3, <3>4, <3>7
    <3> QED BY <1>6, <1>8, <2>2, <3>5, <3>6, <3>8 DEF BucketHolds
  <2> QED BY <2>1, <2>2
<1>13. ASSUME NEW v \in Worker PROVE MakingInv(proc[v])'
  <2>1. Idle \in Making /\ Idle.at = "idle"
    BY DEF Making, Idle
  <2>2. CASE v = w
    <3>1. proc'[v] = Idle
      BY <1>6, <2>1, <2>2, GoesTo
    <3> QED BY <2>1, <3>1 DEF MakingInv
  <2>3. CASE v # w
    <3>1. PICK q \in Making : q = proc[v]
      BY DEF QuotesTypeOK
    <3>2. proc'[v] = q /\ MakingInv(q)
      BY <1>6, <2>1, <2>3, <3>1, GoesTo
    <3>3. /\ now <= now' /\ bumps \subseteq bumps'
          /\ \A b \in bumps' \ bumps : b.number > Cardinality(bumps)
      BY <1>4, <1>6, <1>7
    <3>4. MakingInv(q)'
      BY <1>10, <1>11, <3>2, <3>3, MakingKept
    <3> QED BY <3>2, <3>4
  <2> QED BY <2>2, <2>3
<1>14. SurgeWithinDemand'
  BY <1>6 DEF SurgeWithinDemand
<1> QED BY <1>10, <1>11, <1>12, <1>13, <1>14

LEMMA TickInv ==
  ASSUME QuotesInv, Tick
  PROVE  QuotesInv'
<1> USE DEF QuotesInv
<1>1. /\ now' = now + 1 /\ now' \in 0 .. MaxTime /\ now \in Nat /\ DemandTTL \in Nat
      /\ Window \in Nat /\ Minute \in Nat /\ Minutes \subseteq Nat
      /\ UNCHANGED <<proc, asked, bumps, quote>>
      /\ demand' = [m \in Minutes |-> IF demand[m].expires <= now + 1
                                      THEN [count |-> 0, expires |-> 0] ELSE demand[m]]
  BY Numbers DEF Tick
<1>2. QuotesTypeOK'
  <2>1. [count |-> 0, expires |-> 0] \in [count : Nat, expires : 0 .. MaxTime + DemandTTL]
    BY <1>1, QuotesAssumption
  <2> QED BY <1>1, <2>1 DEF QuotesTypeOK
<1>3. BumpsAreNumbered'
  <2>1. \A b \in bumps : b.when \in Nat
    BY BumpTypes
  <2> QED BY <1>1, <2>1 DEF BumpsAreNumbered
<1>4. ASSUME NEW m \in Minutes PROVE BucketHolds(m)'
  <2>1. /\ BumpsOf(m)' = BumpsOf(m)
        /\ Live(m)' \subseteq Live(m)
    <3>1. \A b \in bumps : now + 1 < b.when + DemandTTL => now < b.when + DemandTTL
      BY <1>1, BumpTypes
    <3> QED BY <1>1, <3>1 DEF BumpsOf, Live
  <2>2. /\ IsFiniteSet(BumpsOf(m)) /\ IsFiniteSet(Live(m))
        /\ Cardinality(BumpsOf(m)) \in Nat /\ Cardinality(Live(m)) \in Nat
    <3>1. BumpsOf(m) \subseteq bumps /\ Live(m) \subseteq bumps /\ IsFiniteSet(bumps)
      BY DEF BumpsOf, Live, BumpsAreNumbered
    <3> QED BY <3>1, FewerCount
  <2>3. Cardinality(Live(m)') <= Cardinality(Live(m)) /\ Cardinality(Live(m)') \in Nat
    BY <2>1, <2>2, FewerCount
  <2>4. demand[m].count \in Nat /\ demand[m].expires \in Nat /\ (m + Window) * Minute \in Nat
    BY <1>1, Numbers
  <2>5. BucketHolds(m)
    OBVIOUS
  <2>6. CASE demand[m].expires <= now + 1
    <3>1. demand'[m].count = 0 /\ demand'[m].expires = 0
      BY <1>1, <2>6
    <3>2. Live(m)' = {}
      <4>1. \A b \in Live(m) : b.when \in Nat /\ b.when + DemandTTL <= demand[m].expires
        BY <2>5, BumpTypes DEF BucketHolds, Live, BumpsOf
      <4>2. \A b \in Live(m) : ~(now + 1 < b.when + DemandTTL)
        BY <1>1, <2>4, <2>6, <4>1
      <4> QED BY <1>1, <2>1, <4>2 DEF Live
    <3>3. Cardinality(Live(m)') = 0
      BY <3>2, FS_EmptySet
    <3>4. now + 1 < (m + Window) * Minute => Cardinality(BumpsOf(m)) = 0
      <4>1. now + 1 < (m + Window) * Minute => demand[m].count = 0
        BY <1>1, <2>4, <2>5, <2>6 DEF BucketHolds
      <4> QED BY <1>1, <2>4, <2>5, <4>1 DEF BucketHolds
    <3> QED BY <1>1, <2>1, <2>2, <3>1, <3>2, <3>3, <3>4 DEF BucketHolds
  <2>7. CASE ~(demand[m].expires <= now + 1)
    <3>1. demand'[m] = demand[m]
      BY <1>1, <2>7
    <3>2. Cardinality(Live(m)') <= demand[m].count
      BY <2>2, <2>3, <2>4, <2>5 DEF BucketHolds
    <3>3. now + 1 < (m + Window) * Minute => demand[m].count = Cardinality(BumpsOf(m))
      BY <1>1, <2>4, <2>5 DEF BucketHolds
    <3> QED BY <1>1, <2>1, <2>5, <3>1, <3>2, <3>3 DEF BucketHolds
  <2> QED BY <2>6, <2>7
<1>5. ASSUME NEW v \in Worker PROVE MakingInv(proc[v])'
  <2>1. PICK q \in Making : q = proc[v] /\ MakingInv(q)
    BY DEF QuotesTypeOK
  <2>2. now <= now' /\ bumps \subseteq bumps' /\ bumps' \ bumps = {}
    BY <1>1
  <2>3. MakingInv(q)'
    BY <1>2, <1>3, <2>1, <2>2, MakingKept
  <2> QED BY <1>1, <2>1, <2>3
<1>6. SurgeWithinDemand'
  BY <1>1 DEF SurgeWithinDemand
<1> QED BY <1>2, <1>3, <1>4, <1>5, <1>6

(***************************************************************************)
(* The invariant, and what it says.                                        *)
(***************************************************************************)
LEMMA QuotesInitInv == QuotesInit => QuotesInv
<1> SUFFICES ASSUME QuotesInit PROVE QuotesInv
  OBVIOUS
<1>1. QuotesTypeOK
  BY QuotesAssumption DEF QuotesInit, QuotesTypeOK, Making, SurgeX100
<1>2. IsFiniteSet({}) /\ Cardinality({}) = 0
  BY FS_EmptySet
<1>3. BumpsAreNumbered
  BY <1>2 DEF QuotesInit, BumpsAreNumbered
<1>4. ASSUME NEW m \in Minutes PROVE BucketHolds(m)
  <2>1. BumpsOf(m) = {} /\ Live(m) = {}
    BY DEF QuotesInit, BumpsOf, Live
  <2>2. demand[m].count = 0 /\ demand[m].expires = 0
    BY DEF QuotesInit
  <2> QED BY <1>2, <2>1, <2>2 DEF BucketHolds
<1>5. \A w \in Worker : MakingInv(proc[w])
  BY DEF QuotesInit, MakingInv, Idle
<1>6. SurgeWithinDemand
  BY DEF QuotesInit, SurgeWithinDemand, Bucket
<1> QED BY <1>1, <1>3, <1>4, <1>5, <1>6 DEF QuotesInv

LEMMA QuotesStepInv == QuotesInv /\ [QuotesNext]_quoteVars => QuotesInv'
<1> SUFFICES ASSUME QuotesInv, [QuotesNext]_quoteVars PROVE QuotesInv'
  OBVIOUS
<1>1. CASE UNCHANGED quoteVars
  BY <1>1
     DEF quoteVars, QuotesInv, QuotesTypeOK, BumpsAreNumbered, BucketHolds, BumpsOf, Live,
         MakingInv, SumIsOfTheWindow, Counted, Countable, SurgeWithinDemand
<1> QED BY <1>1, AskInv, ReadBucketInv, CountSupplyInv, StoreInv, IncrementDemandInv, CutInv,
           TickInv
        DEF QuotesNext

\* The inductive invariant holds in every reachable state.
THEOREM QuotesInvariance == QuotesSpec => []QuotesInv
BY QuotesInitInv, QuotesStepInv, PTL DEF QuotesSpec

\* Buckets, bumps and quotes in the making keep their types.
THEOREM QuotesTypes == QuotesSpec => []QuotesTypeOK
<1>1. QuotesInv => QuotesTypeOK
  BY DEF QuotesInv
<1> QED BY <1>1, QuotesInvariance, PTL

\* No bucket of the window expires early: its TTL of one window is enough for
\* any length of the minute and of the window, however late the bumps come.
THEOREM TheWindowIsKept == QuotesSpec => []WindowIsKept
<1>1. QuotesInv => WindowIsKept
  <2> SUFFICES ASSUME QuotesInv, NEW m \in Minutes, InWindow(m, now)
               PROVE  demand[m].count = Cardinality(BumpsOf(m))
    BY DEF WindowIsKept
  <2>1. now \in Nat /\ m \in Int
    BY Numbers DEF QuotesInv
  <2> QED BY <2>1, WindowLasts DEF QuotesInv, BucketHolds
<1> QED BY <1>1, QuotesInvariance, PTL

\* However many quotes read and bump the buckets while they expire, the surge of
\* a quote is one of demand between what it cannot have missed and what there is.
THEOREM TheSurgeIsWithinDemand == QuotesSpec => []SurgeWithinDemand
<1>1. QuotesInv => SurgeWithinDemand
  BY DEF QuotesInv
<1> QED BY <1>1, QuotesInvariance, PTL
=============================================================================
