------------------------------ MODULE RideCache ------------------------------
(***************************************************************************)
(* The read-through cache of one ride: cachedLoad of the rides service     *)
(* against the transitions that invalidate it.                             *)
(*                                                                         *)
(* A reader that misses loads the row and stores it later, a transition    *)
(* commits and deletes the entry later, and nothing orders the two.  What  *)
(* bounds the damage is time: the entry lives TTL, a request no longer     *)
(* than Timeout (the router's middleware).  Time is counted down, not up,  *)
(* so that it need not be bounded.                                         *)
(***************************************************************************)
EXTENDS Naturals

CONSTANTS
  Worker,       \* requests in flight at the same time (a bound)
  MaxVersion,   \* the ride's transitions; after the last one it is terminal
  TTL, Timeout, \* of a cache entry and of a request, in ticks
  None

ASSUME RideCacheAssumption ==
  /\ MaxVersion \in Nat
  /\ TTL \in Nat \ {0} /\ Timeout \in Nat

VARIABLES
  version,   \* the ride's row, by the number of its transition
  cache,     \* ride:cache: the version stored and the ticks left, or None
  proc,      \* Worker -> its request and the ticks left
  age,       \* version -> ticks since it was replaced, up to MaxStale + 1 (history)
  view       \* the view last served (history)

cacheVars == <<version, cache, proc, age, view>>

MaxStale == TTL + Timeout

Idle == [at |-> "idle"]

Request ==
  {Idle}
    \cup [at : {"load", "invalidate"}, left : 0 .. Timeout]
    \cup [at : {"fill"}, left : 0 .. Timeout, found : 0 .. MaxVersion]

RideCacheTypeOK ==
  /\ version \in 0 .. MaxVersion
  /\ cache \in {None} \cup [found : 0 .. MaxVersion, left : 1 .. TTL]
  /\ proc \in [Worker -> Request]
  /\ age \in [0 .. MaxVersion -> 0 .. MaxStale + 1]
  /\ view \in 0 .. MaxVersion

At(w, place) == proc[w].at = place

Goto(w, request) == proc' = [proc EXCEPT ![w] = request]

(***************************************************************************)
(* Get, by cachedLoad: GET the entry; if it is missing, load the row, SET  *)
(* the entry, answer.                                                      *)
(***************************************************************************)

GetHit(w) ==
  /\ proc[w] = Idle
  /\ cache # None
  /\ view' = cache.found
  /\ UNCHANGED <<version, cache, proc, age>>

GetMiss(w) ==
  /\ proc[w] = Idle
  /\ cache = None
  /\ Goto(w, [at |-> "load", left |-> Timeout])
  /\ UNCHANGED <<version, cache, age, view>>

load(w) ==
  /\ At(w, "load")
  /\ Goto(w, [at |-> "fill", left |-> proc[w].left, found |-> version])
  /\ UNCHANGED <<version, cache, age, view>>

\* A failed SET is logged, and the row served all the same.
fill(w) ==
  /\ At(w, "fill")
  /\ cache' \in {[found |-> proc[w].found, left |-> TTL], cache}
  /\ view' = proc[w].found
  /\ Goto(w, Idle)
  /\ UNCHANGED <<version, age>>

(***************************************************************************)
(* Every transition: commit, then DEL the entry (updateStatus, and by      *)
(* InvalidateCache the matching engine and the trips service).             *)
(***************************************************************************)

Commit(w) ==
  /\ proc[w] = Idle
  /\ version < MaxVersion
  /\ version' = version + 1
  /\ Goto(w, [at |-> "invalidate", left |-> Timeout])
  /\ UNCHANGED <<cache, age, view>>

InvalidateCache(w) ==
  /\ At(w, "invalidate")
  /\ cache' = None
  /\ Goto(w, Idle)
  /\ UNCHANGED <<version, age, view>>

(***************************************************************************)
(* Time and failure.                                                       *)
(***************************************************************************)

\* Mutant: the deadline of the request does not cut it off.
Expired_Never(request) == request

\* The deadline of a request's context ends it.
Expired(request) ==
  IF request = Idle THEN Idle
  ELSE IF request.left = 0 THEN Idle
  ELSE [request EXCEPT !.left = @ - 1]

\* Mutant: an entry does not expire.
Lapse_Never(entry) == entry

\* Mutant: one tick too many.
Lapse_Late(entry) ==
  IF entry = None THEN None
  ELSE IF entry.left = 0 THEN None
  ELSE [entry EXCEPT !.left = @ - 1]

Lapse(entry) ==
  IF entry = None THEN None
  ELSE IF entry.left = 1 THEN None
  ELSE [entry EXCEPT !.left = @ - 1]

Older(v) == IF v < version /\ age[v] <= MaxStale THEN age[v] + 1 ELSE age[v]

Tick ==
  /\ proc' = [w \in Worker |-> Expired(proc[w])]
  /\ cache' = Lapse(cache)
  /\ age' = [v \in 0 .. MaxVersion |-> Older(v)]
  /\ UNCHANGED <<version, view>>

\* A crash, a lost client, a DEL that fails and is only logged.
Cut(w) ==
  /\ proc[w] # Idle
  /\ Goto(w, Idle)
  /\ UNCHANGED <<version, cache, age, view>>

\* Redis loses the entry before its time.
Evict ==
  /\ cache # None
  /\ cache' = None
  /\ UNCHANGED <<version, proc, age, view>>

RideCacheInit ==
  /\ version = 0
  /\ cache = None
  /\ proc = [w \in Worker |-> Idle]
  /\ age = [v \in 0 .. MaxVersion |-> 0]
  /\ view = 0

RideCacheNext ==
  \/ \E w \in Worker :
       \/ GetHit(w) \/ GetMiss(w) \/ load(w) \/ fill(w)
       \/ Commit(w) \/ InvalidateCache(w)
       \/ Cut(w)
  \/ Tick
  \/ Evict

RideCacheSpec == RideCacheInit /\ [][RideCacheNext]_cacheVars

\* Time passes.  No request is assumed to be made or to be answered.
FairRideCacheSpec == RideCacheSpec /\ WF_cacheVars(Tick)

(***************************************************************************)
(* Properties.                                                             *)
(***************************************************************************)

Recent(v, stale) == v <= version /\ age[v] <= stale

\* However reads, transitions, lost invalidations and slow fills interleave,
\* an entry is never staler than the time it has been there and the time its
\* request took: a view from before a transition dies out.
EntryIsRecent ==
  /\ cache # None => Recent(cache.found, TTL - cache.left + Timeout)
  /\ \A w \in Worker : At(w, "fill") => Recent(proc[w].found, Timeout - proc[w].left)

\* The inductive invariant: a version that has not been replaced has no age.
RideCacheInv ==
  /\ RideCacheTypeOK
  /\ EntryIsRecent
  /\ \A v \in version .. MaxVersion : age[v] = 0

\* After the last transition of a ride the cache comes to agree with the row
\* for good, even if that transition's invalidation was lost and a reader
\* that had loaded the row before is still to store it.
CacheSettles ==
  version = MaxVersion ~> [](cache = None \/ cache.found = MaxVersion)

\* Reads of a ride are those of a register whose reads lag behind at most the
\* life of an entry and of a request.
Register == INSTANCE StaleRegister

ImplementsRegister == Register!RegisterSpec
=============================================================================
