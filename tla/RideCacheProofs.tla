--------------------------- MODULE RideCacheProofs ---------------------------
(***************************************************************************)
(* The staleness bound of the ride cache for any number of requests,       *)
(* transitions and ticks, and that the reads it serves are those of the    *)
(* abstract register.                                                      *)
(***************************************************************************)
EXTENDS RideCache, TLAPS

\* What a request carries at each place.
LEMMA RequestFields ==
  ASSUME NEW q \in Request
  PROVE  /\ q.at \in {"idle", "load", "invalidate", "fill"}
         /\ q.at # "idle" => q.left \in 0 .. Timeout
         /\ q.at = "idle" => q = Idle
         /\ q.at = "fill" => q.found \in 0 .. MaxVersion
BY DEF Request, Idle

\* A tick takes one from the time a request has left, and nothing else.
LEMMA ExpiredType ==
  ASSUME NEW q \in Request
  PROVE  /\ Expired(q) \in Request
         /\ Expired(q).at = "fill" => /\ q.at = "fill"
                                      /\ Expired(q).found = q.found
                                      /\ q.left > 0 /\ Expired(q).left = q.left - 1
BY RideCacheAssumption DEF Expired, Request, Idle

LEMMA LapseType ==
  ASSUME NEW e \in {None} \cup [found : 0 .. MaxVersion, left : 1 .. TTL]
  PROVE  /\ Lapse(e) \in {None} \cup [found : 0 .. MaxVersion, left : 1 .. TTL]
         /\ Lapse(e) # None => /\ e # None
                               /\ Lapse(e).found = e.found
                               /\ Lapse(e).left = e.left - 1
BY RideCacheAssumption DEF Lapse

LEMMA InitInv == RideCacheInit => RideCacheInv
BY RideCacheAssumption
   DEF RideCacheInit, RideCacheInv, RideCacheTypeOK, EntryIsRecent, Recent, At,
       Request, Idle, MaxStale

\* Every step keeps the invariant, one step of the proof per action.
LEMMA StepInv == RideCacheInv /\ [RideCacheNext]_cacheVars => RideCacheInv'
<1> SUFFICES ASSUME RideCacheInv, [RideCacheNext]_cacheVars PROVE RideCacheInv'
  OBVIOUS
<1> USE RideCacheAssumption
    DEF RideCacheInv, RideCacheTypeOK, EntryIsRecent, Recent, At, MaxStale
<1>1. ASSUME NEW w \in Worker, GetHit(w) PROVE RideCacheInv'
  BY <1>1 DEF GetHit
<1>2. ASSUME NEW w \in Worker, GetMiss(w) PROVE RideCacheInv'
  <2>1. proc' \in [Worker -> Request]
    BY <1>2 DEF GetMiss, Goto, Request
  <2> QED BY <1>2, <2>1 DEF GetMiss, Goto
<1>3. ASSUME NEW w \in Worker, load(w) PROVE RideCacheInv'
  <2>1. proc[w].left \in 0 .. Timeout
    BY <1>3, RequestFields DEF load
  <2>2. proc' \in [Worker -> Request]
    BY <1>3, <2>1 DEF load, Goto, Request
  <2> QED BY <1>3, <2>1, <2>2 DEF load, Goto
<1>4. ASSUME NEW w \in Worker, fill(w) PROVE RideCacheInv'
  <2>1. proc[w].left \in 0 .. Timeout /\ proc[w].found \in 0 .. MaxVersion
    BY <1>4, RequestFields DEF fill
  <2>2. proc' \in [Worker -> Request]
    BY <1>4 DEF fill, Goto, Request
  <2>3. \A v \in Worker : proc'[v].at = "fill" => proc'[v] = proc[v]
    BY <1>4 DEF fill, Goto, Idle
  <2>4. Recent(proc[w].found, Timeout)
    BY <1>4, <2>1 DEF fill
  <2>5. EntryIsRecent'
    BY <1>4, <2>3, <2>4 DEF fill
  <2>6. RideCacheTypeOK'
    BY <1>4, <2>1, <2>2 DEF fill
  <2> QED BY <1>4, <2>5, <2>6 DEF fill
<1>5. ASSUME NEW w \in Worker, Commit(w) PROVE RideCacheInv'
  <2>1. proc' \in [Worker -> Request]
    BY <1>5 DEF Commit, Goto, Request
  <2>2. \A v \in Worker : proc'[v].at = "fill" => proc'[v] = proc[v]
    BY <1>5 DEF Commit, Goto
  <2>3. version' \in Nat /\ version' > version
    BY <1>5 DEF Commit
  <2>4. \A v \in version' .. MaxVersion : age'[v] = 0
    BY <1>5, <2>3 DEF Commit
  <2>5. EntryIsRecent'
    BY <1>5, <2>2, <2>3, RequestFields DEF Commit
  <2> QED BY <1>5, <2>1, <2>3, <2>4, <2>5 DEF Commit
<1>6. ASSUME NEW w \in Worker, InvalidateCache(w) PROVE RideCacheInv'
  <2>1. proc' \in [Worker -> Request]
    BY <1>6 DEF InvalidateCache, Goto, Request
  <2> QED BY <1>6, <2>1 DEF InvalidateCache, Goto, Idle
<1>7. ASSUME NEW w \in Worker, Cut(w) PROVE RideCacheInv'
  <2>1. proc' \in [Worker -> Request]
    BY <1>7 DEF Cut, Goto, Request
  <2> QED BY <1>7, <2>1 DEF Cut, Goto, Idle
<1>8. ASSUME Tick PROVE RideCacheInv'
  <2>1. \A v \in 0 .. MaxVersion : /\ age'[v] \in 0 .. MaxStale + 1
                                   /\ age'[v] <= age[v] + 1
                                   /\ v >= version => age'[v] = age[v]
    BY <1>8 DEF Tick, Older
  <2>2. RideCacheTypeOK'
    <3>1. proc' \in [Worker -> Request]
      BY <1>8, ExpiredType DEF Tick
    <3>2. cache' \in {None} \cup [found : 0 .. MaxVersion, left : 1 .. TTL]
      BY <1>8, LapseType DEF Tick
    <3>3. age' \in [0 .. MaxVersion -> 0 .. MaxStale + 1]
      BY <1>8, <2>1 DEF Tick
    <3> QED BY <1>8, <3>1, <3>2, <3>3 DEF Tick
  <2>3. ASSUME cache' # None
        PROVE  Recent(cache.found, TTL - cache.left + Timeout)'
    <3>1. /\ cache # None /\ cache'.found = cache.found
          /\ cache'.left = cache.left - 1
      BY <1>8, <2>3, LapseType DEF Tick
    <3>2. cache.found \in 0 .. MaxVersion /\ cache.left \in 1 .. TTL
      BY <3>1
    <3>3. age'[cache.found] <= age[cache.found] + 1
      BY <2>1, <3>2
    <3>4. age[cache.found] \in Nat /\ age'[cache.found] \in Nat
      BY <2>1, <3>2
    <3> QED BY <1>8, <3>1, <3>2, <3>3, <3>4 DEF Tick
  <2>4. ASSUME NEW w \in Worker, At(w, "fill")'
        PROVE  Recent(proc[w].found, Timeout - proc[w].left)'
    <3>1. /\ proc[w].at = "fill" /\ proc'[w].found = proc[w].found
          /\ proc'[w].left = proc[w].left - 1
      BY <1>8, <2>4, ExpiredType DEF Tick
    <3>2. proc[w].found \in 0 .. MaxVersion /\ proc[w].left \in 0 .. Timeout
      BY <3>1, RequestFields
    <3>3. Recent(proc[w].found, Timeout - proc[w].left)
      BY <3>1
    <3>4. age'[proc[w].found] <= age[proc[w].found] + 1
      BY <2>1, <3>2
    <3>5. age[proc[w].found] \in Nat /\ age'[proc[w].found] \in Nat
      BY <2>1, <3>2
    <3> QED BY <1>8, <3>1, <3>2, <3>3, <3>4, <3>5 DEF Tick
  <2>5. \A v \in version' .. MaxVersion : age'[v] = 0
    BY <1>8, <2>1 DEF Tick
  <2>6. EntryIsRecent'
    BY <2>3, <2>4
  <2> QED BY <2>2, <2>5, <2>6
<1>9. ASSUME Evict PROVE RideCacheInv'
  BY <1>9 DEF Evict
<1>10. CASE UNCHANGED cacheVars
  BY <1>10 DEF cacheVars
<1> QED BY <1>1, <1>2, <1>3, <1>4, <1>5, <1>6, <1>7, <1>8, <1>9, <1>10 DEF RideCacheNext

\* The inductive invariant holds in every reachable state.
THEOREM RideCacheInvariance == RideCacheSpec => []RideCacheInv
BY InitInv, StepInv, PTL DEF RideCacheSpec

\* Entries, requests and ages keep their types.
THEOREM RideCacheTypes == RideCacheSpec => []RideCacheTypeOK
<1>1. RideCacheInv => RideCacheTypeOK
  BY DEF RideCacheInv
<1> QED BY <1>1, RideCacheInvariance, PTL

\* However transitions, lost invalidations and slow fills interleave, what
\* cachedLoad stores is at most a request and an entry's life behind the row.
THEOREM StaleEntriesDieOut == RideCacheSpec => []EntryIsRecent
<1>1. RideCacheInv => EntryIsRecent
  BY DEF RideCacheInv
<1> QED BY <1>1, RideCacheInvariance, PTL

\* A step of the cache reads, writes or ages the register, or stutters.
LEMMA StepRegister ==
  RideCacheInv /\ [RideCacheNext]_cacheVars
    => [Register!Write \/ Register!Read \/ Register!TimePasses]_(Register!registerVars)
<1> SUFFICES ASSUME RideCacheInv, [RideCacheNext]_cacheVars
             PROVE  \/ Register!Write \/ Register!Read \/ Register!TimePasses
                    \/ UNCHANGED Register!registerVars
  OBVIOUS
<1> USE RideCacheAssumption
    DEF RideCacheInv, RideCacheTypeOK, EntryIsRecent, Recent, At, MaxStale,
        Register!registerVars
<1>1. ASSUME NEW w \in Worker, GetHit(w) PROVE Register!Read
  BY <1>1 DEF GetHit, Register!Read
<1>2. ASSUME NEW w \in Worker, fill(w) PROVE Register!Read
  <2>1. proc[w].left \in 0 .. Timeout /\ proc[w].found \in 0 .. MaxVersion
    BY <1>2, RequestFields DEF fill
  <2> QED BY <1>2, <2>1 DEF fill, Register!Read
<1>3. ASSUME NEW w \in Worker, Commit(w) PROVE Register!Write
  BY <1>3 DEF Commit, Register!Write
<1>4. ASSUME Tick PROVE Register!TimePasses
  BY <1>4 DEF Tick, Older, Register!TimePasses, Register!Older
<1>5. ASSUME NEW w \in Worker,
             GetMiss(w) \/ load(w) \/ InvalidateCache(w) \/ Cut(w)
      PROVE  UNCHANGED Register!registerVars
  BY <1>5 DEF GetMiss, load, InvalidateCache, Cut
<1>6. ASSUME Evict PROVE UNCHANGED Register!registerVars
  BY <1>6 DEF Evict
<1>7. CASE UNCHANGED cacheVars
  BY <1>7 DEF cacheVars
<1> QED BY <1>1, <1>2, <1>3, <1>4, <1>5, <1>6, <1>7 DEF RideCacheNext

\* The reads of a ride are those of a register that lags a bounded time.
THEOREM CacheImplementsRegister == RideCacheSpec => ImplementsRegister
<1>1. RideCacheInit => Register!RegisterInit
  BY DEF RideCacheInit, Register!RegisterInit
<1> QED BY <1>1, RideCacheInvariance, StepRegister, PTL
        DEF RideCacheSpec, ImplementsRegister, Register!RegisterSpec
=============================================================================
