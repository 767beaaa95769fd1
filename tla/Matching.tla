------------------------------ MODULE Matching ------------------------------
(***************************************************************************)
(* The matching engine: the offer loop, accepts and declines, the sweeper, *)
(* and the Redis keys they share (offer:driver, offer:ride and the tried   *)
(* set), on top of the rows of RideLedger.                                 *)
(*                                                                         *)
(* Each Redis command, pipeline and Postgres transaction is one step, so a *)
(* sweeper of another instance, a driver's call or the expiry of a key     *)
(* falls between any two of them.  Which drivers a candidate search finds  *)
(* (GEOSEARCH, the status mirror, freshness) is left open: any set.        *)
(* After DRIVER_ASSIGNED only cancellation is modelled here; the rest of   *)
(* the ride is RideLedger's and no code of matching looks at it.           *)
(***************************************************************************)
EXTENDS RideLedger, FiniteSets

CONSTANT Sweeper    \* the workers that run a sweeper, one per instance

ASSUME MatchingAssumption == Sweeper \subseteq Worker

VARIABLES
  offer_driver,   \* Driver -> the ride whose offer he holds (12s key)
  offer_ride,     \* Ride -> the driver of its outstanding offer (12s key)
  tried,          \* Ride -> drivers offered so far (10m key, outlives the ride's minute)
  overdue         \* unassigned rides created more than matchDeadline ago

offerVars == <<offer_driver, offer_ride, tried>>
matchVars == <<vars, offerVars, overdue>>

Handler == Worker \ Sweeper

\* What a goroutine of the engine remembers between two steps; `rest` holds the
\* rides of its batch a sweeper still has to look at.
MatchRequest ==
  [op : {"request"}, ride : Ride]
    \cup [op : {"search"}, ride : Ride, rest : SUBSET Ride]
    \cup [op : {"claim"}, ride : Ride, cands : SUBSET Driver, rest : SUBSET Ride]
    \cup [op : {"record"}, ride : Ride, driver : Driver, rest : SUBSET Ride]
    \cup [op : {"accept"}, ride : Ride, driver : Driver, held : Ride \cup {None}]
    \cup [op : {"decline"}, ride : Ride, driver : Driver]
    \cup [op : {"offline"}, driver : Driver]
    \cup [op : {"unmark"}, ride : Ride, driver : Driver, advance : BOOLEAN]
    \cup [op : {"sweep"}, expire : SUBSET Ride, rest : SUBSET Ride]

MatchingTypeOK ==
  /\ status \in [Ride -> RideStatus \cup {Absent}]
  /\ driver_id \in [Ride -> Driver \cup {None}]
  /\ proc \in [Worker -> Request \cup MatchRequest]
  /\ offer_driver \in [Driver -> Ride \cup {None}]
  /\ offer_ride \in [Ride -> Driver \cup {None}]
  /\ tried \in [Ride -> SUBSET Driver]
  /\ overdue \subseteq Ride

Go(w, request) == proc' = [proc EXCEPT ![w] = request]

\* The end of one offer step: a sweeper takes the next ride of its batch.
Continue(w, rest) ==
  Go(w, IF rest = {} THEN Idle ELSE [op |-> "sweep", expire |-> {}, rest |-> rest])

MatchingRides == {r \in Ride : status[r] = "MATCHING"}

(***************************************************************************)
(* The offer loop: loadRideCtx, offerNext, recordOffer.                    *)
(***************************************************************************)

\* RequestMatch, and the end of Decline: load the ride, go on if it is MATCHING.
loadRideCtx(w) ==
  /\ Serving(w, "request")
  /\ IF status[proc[w].ride] = "MATCHING"
     THEN Go(w, [op |-> "search", ride |-> proc[w].ride, rest |-> {}])
     ELSE Done(w)
  /\ UNCHANGED <<ledgerVars, offerVars, overdue>>

\* The candidates are fixed here: `found` near the pickup, less the tried set.
offerSearch(w, found) ==
  /\ Serving(w, "search")
  /\ Go(w, [op |-> "claim", ride |-> proc[w].ride,
            cands |-> found \ tried[proc[w].ride], rest |-> proc[w].rest])
  /\ UNCHANGED <<ledgerVars, offerVars, overdue>>

\* SET NX: a driver who holds an offer is skipped, the next candidate tried.
offerClaim(w, d) ==
  /\ Serving(w, "claim")
  /\ d \in proc[w].cands
  /\ offer_driver[d] = None
  /\ offer_driver' = [offer_driver EXCEPT ![d] = proc[w].ride]
  /\ Go(w, [op |-> "record", ride |-> proc[w].ride, driver |-> d, rest |-> proc[w].rest])
  /\ UNCHANGED <<ledgerVars, offer_ride, tried, overdue>>

offerSkip(w, d) ==
  /\ Serving(w, "claim")
  /\ d \in proc[w].cands
  /\ offer_driver[d] # None
  /\ Go(w, [proc[w] EXCEPT !.cands = @ \ {d}])
  /\ UNCHANGED <<ledgerVars, offerVars, overdue>>

offerNone(w) ==
  /\ Serving(w, "claim")
  /\ proc[w].cands = {}
  /\ Continue(w, proc[w].rest)
  /\ UNCHANGED <<ledgerVars, offerVars, overdue>>

recordOffer(w) ==
  /\ Serving(w, "record")
  /\ offer_ride' = [offer_ride EXCEPT ![proc[w].ride] = proc[w].driver]
  /\ tried' = [tried EXCEPT ![proc[w].ride] = @ \cup {proc[w].driver}]
  /\ Continue(w, proc[w].rest)
  /\ UNCHANGED <<ledgerVars, offer_driver, overdue>>

(***************************************************************************)
(* Accept, Decline.                                                        *)
(***************************************************************************)

\* GETDEL offer:driver, whatever ride it is for.
takeOffer(d) == offer_driver' = [offer_driver EXCEPT ![d] = None]

\* Mutant: any offer that was held passes, one for another ride too.
offerMatches_AnyHeld(held, r) == held # None

offerMatches(held, r) == held = r

\* A mismatch answers a replay or ErrOfferExpired, and restores nothing.
Accept(w, d, r) ==
  /\ proc[w] = Idle
  /\ status[r] # Absent
  /\ LET held == offer_driver[d] IN
       IF offerMatches(held, r)
       THEN Go(w, [op |-> "accept", ride |-> r, driver |-> d, held |-> held])
       ELSE UNCHANGED proc
  /\ takeOffer(d)
  /\ UNCHANGED <<ledgerVars, offer_ride, tried, overdue>>

AcceptAssign(w) ==
  /\ Serving(w, "accept")
  /\ AssignRows(proc[w].ride, proc[w].driver)
  /\ Go(w, [op |-> "unmark", ride |-> proc[w].ride, driver |-> proc[w].driver, advance |-> FALSE])
  /\ UNCHANGED <<offerVars, overdue>>

\* Mutant: advances the ride of the popped offer, which may be none.
Decline_Popped(w, d, r) ==
  /\ proc[w] = Idle
  /\ status[r] # Absent
  /\ takeOffer(d)
  /\ Go(w, [op |-> "decline", ride |-> offer_driver[d], driver |-> d])
  /\ UNCHANGED <<ledgerVars, offer_ride, tried, overdue>>

Decline(w, d, r) ==
  /\ proc[w] = Idle
  /\ status[r] # Absent
  /\ takeOffer(d)
  /\ Go(w, [op |-> "decline", ride |-> r, driver |-> d])
  /\ UNCHANGED <<ledgerVars, offer_ride, tried, overdue>>

\* GET offer:ride, and DEL it next if it names this driver.
DeclinePeek(w) ==
  /\ Serving(w, "decline")
  /\ Go(w, IF offer_ride[proc[w].ride] = proc[w].driver
           THEN [op |-> "unmark", ride |-> proc[w].ride, driver |-> proc[w].driver, advance |-> TRUE]
           ELSE [op |-> "request", ride |-> proc[w].ride])
  /\ UNCHANGED <<ledgerVars, offerVars, overdue>>

\* DEL offer:ride, by Accept, by Decline (which advances the offer loop next)
\* and by a driver going offline.
Unmark(w) ==
  /\ Serving(w, "unmark")
  /\ offer_ride' = [offer_ride EXCEPT ![proc[w].ride] = None]
  /\ IF proc[w].advance THEN Go(w, [op |-> "request", ride |-> proc[w].ride]) ELSE Done(w)
  /\ UNCHANGED <<ledgerVars, offer_driver, tried, overdue>>

(***************************************************************************)
(* drivers.SetAvailability: going offline gives up the offer he holds.     *)
(***************************************************************************)

SetAvailability(w) ==
  /\ AvailabilityRows(w)
  /\ Go(w, IF proc[w].to = "offline"
           THEN [op |-> "offline", driver |-> proc[w].driver] ELSE Idle)
  /\ UNCHANGED <<offerVars, overdue>>

clearOutstandingOffer(w) ==
  /\ Serving(w, "offline")
  /\ LET held == offer_driver[proc[w].driver] IN
       Go(w, IF held = None THEN Idle
             ELSE [op |-> "unmark", ride |-> held, driver |-> proc[w].driver, advance |-> FALSE])
  /\ takeOffer(proc[w].driver)
  /\ UNCHANGED <<ledgerVars, offer_ride, tried, overdue>>

(***************************************************************************)
(* The sweeper: the batch is a snapshot, the row locks are gone when the   *)
(* sweeper acts on it.                                                     *)
(***************************************************************************)

\* Mutant: forgets the deadline, every ride of the batch is offered again.
claimMatchingBatch_NoDeadline(w) ==
  /\ proc[w] = Idle
  /\ MatchingRides # {}
  /\ Go(w, [op |-> "sweep", expire |-> {}, rest |-> MatchingRides])
  /\ UNCHANGED <<ledgerVars, offerVars, overdue>>

claimMatchingBatch(w) ==
  /\ proc[w] = Idle
  /\ MatchingRides # {}
  /\ Go(w, [op |-> "sweep", expire |-> MatchingRides \cap overdue,
            rest |-> MatchingRides \ overdue])
  /\ UNCHANGED <<ledgerVars, offerVars, overdue>>

\* Mutant: trusts the batch, and expires a ride that is not MATCHING any more.
sweepExpire_Stale(w, r) ==
  /\ Serving(w, "sweep")
  /\ r \in proc[w].expire
  /\ SetStatus(r, "EXPIRED")
  /\ Go(w, IF proc[w].expire = {r} /\ proc[w].rest = {}
           THEN Idle ELSE [proc[w] EXCEPT !.expire = @ \ {r}])
  /\ UNCHANGED <<driver_status, trip_status, payments, offerVars, overdue>>

\* The batch is ordered by age: rides past the deadline come first.
sweepExpire(w, r) ==
  /\ Serving(w, "sweep")
  /\ r \in proc[w].expire
  /\ IF status[r] = "MATCHING" THEN SetStatus(r, "EXPIRED") ELSE UNCHANGED <<status, owners>>
  /\ Go(w, IF proc[w].expire = {r} /\ proc[w].rest = {}
           THEN Idle ELSE [proc[w] EXCEPT !.expire = @ \ {r}])
  /\ UNCHANGED <<driver_status, trip_status, payments, offerVars, overdue>>

\* EXISTS offer:ride decides whether the ride gets an offer step.
sweepOffer(w, r) ==
  /\ Serving(w, "sweep")
  /\ proc[w].expire = {}
  /\ r \in proc[w].rest
  /\ IF offer_ride[r] = None
     THEN Go(w, [op |-> "search", ride |-> r, rest |-> proc[w].rest \ {r}])
     ELSE Continue(w, proc[w].rest \ {r})
  /\ UNCHANGED <<ledgerVars, offerVars, overdue>>

(***************************************************************************)
(* Time and failure.                                                       *)
(***************************************************************************)

\* Its 12 seconds are over; nothing keeps the steps of a slow worker within them.
OfferLapses(d) ==
  /\ offer_driver[d] # None
  /\ takeOffer(d)
  /\ UNCHANGED <<vars, offer_ride, tried, overdue>>

\* Both keys get the same TTL and offer:ride is written second, so it does not
\* lapse before the offer it stands for.
MarkerLapses(r) ==
  /\ offer_ride[r] # None
  /\ offer_driver[offer_ride[r]] # r
  /\ offer_ride' = [offer_ride EXCEPT ![r] = None]
  /\ UNCHANGED <<vars, offer_driver, tried, overdue>>

\* The clock of the deadline is created_at.
DeadlinePasses(r) ==
  /\ status[r] \in {"REQUESTED", "MATCHING"}
  /\ r \notin overdue
  /\ overdue' = overdue \cup {r}
  /\ UNCHANGED <<vars, offerVars>>

\* A request ends early; a sweeper loses its batch when its instance restarts.
Abort(w) ==
  /\ proc[w] # Idle
  /\ Done(w)
  /\ UNCHANGED <<ledgerVars, offerVars, overdue>>

MatchingInit ==
  /\ Init
  /\ offer_driver = [d \in Driver |-> None]
  /\ offer_ride = [r \in Ride |-> None]
  /\ tried = [r \in Ride |-> {}]
  /\ overdue = {}

\* The ledger's request steps that matching runs beside.
LedgerStep(w) ==
  /\ \/ \E r \in Ride :
          \/ \E p \in Rider : CreateInsert(w, p, r)
          \/ \E to \in Cancelled : CancelRead(w, r, to)
     \/ \E d \in Driver, to \in {"offline", "available"} : ToggleSnapshot(w, d, to)
     \/ CancelTx(w)
  /\ UNCHANGED <<offerVars, overdue>>

\* Create's second transaction, which then fires MatchRequested.
CreateMatched(w) ==
  /\ MatchingRows(w)
  /\ Go(w, [op |-> "request", ride |-> proc[w].ride])
  /\ UNCHANGED <<offerVars, overdue>>

OfferStep(w) ==
  \/ \E found \in SUBSET Driver : offerSearch(w, found)
  \/ \E d \in Driver : offerClaim(w, d) \/ offerSkip(w, d)
  \/ offerNone(w)
  \/ recordOffer(w)

HandlerStep(w) ==
  \/ LedgerStep(w) \/ CreateMatched(w) \/ SetAvailability(w) \/ clearOutstandingOffer(w)
  \/ loadRideCtx(w) \/ AcceptAssign(w) \/ DeclinePeek(w) \/ Unmark(w)
  \/ \E d \in Driver, r \in Ride : Accept(w, d, r) \/ Decline(w, d, r)

SweepStep(w) ==
  \/ claimMatchingBatch(w)
  \/ \E r \in Ride : sweepExpire(w, r) \/ sweepOffer(w, r)

MatchingNext ==
  \/ \E w \in Worker : OfferStep(w) \/ Abort(w)
  \/ \E w \in Handler : HandlerStep(w)
  \/ \E w \in Sweeper : SweepStep(w)
  \/ \E d \in Driver : OfferLapses(d)
  \/ \E r \in Ride : MarkerLapses(r) \/ DeadlinePasses(r)

MatchingSpec == MatchingInit /\ [][MatchingNext]_matchVars

\* Goroutines that are running keep running, the ticker keeps ticking, time
\* passes; an instance may restart in the middle of any sweep, but not of every
\* one that has come to the ride.  No request is ever assumed to arrive.
MatchingFairness ==
  /\ \A w \in Sweeper : WF_matchVars(SweepStep(w) \/ OfferStep(w))
  /\ \A w \in Handler : WF_matchVars(OfferStep(w) \/ CreateMatched(w) \/ loadRideCtx(w))
  /\ \A w \in Sweeper, r \in Ride : SF_matchVars(sweepExpire(w, r))
  /\ \A r \in Ride : WF_matchVars(DeadlinePasses(r))

FairMatchingSpec == MatchingSpec /\ MatchingFairness

(***************************************************************************)
(* Properties.                                                             *)
(***************************************************************************)

\* A ride is only ever assigned by an accept of the driver it goes to, which
\* took an offer of that very ride from him: an accept that comes after his
\* offer lapsed, or while he holds the offer of another ride, assigns nothing,
\* also when he was offered the ride before.
AssignedWasOffered ==
  [][\A r \in Ride :
       driver_id'[r] # driver_id[r] =>
         \E w \in Worker :
           /\ proc[w].op = "accept"
           /\ proc[w].ride = r
           /\ proc[w].held = r
           /\ proc[w].driver = driver_id'[r]]_matchVars

\* Only a ride that found no driver for the whole minute expires, and never one
\* that was assigned since the sweeper read its batch.  That the candidates are
\* exhausted expires nothing: the sweeper only looks at the deadline.
ExpiredWasOverdue ==
  \A r \in Ride : status[r] = "EXPIRED" => r \in overdue /\ driver_id[r] = None

\* No ride stays in matching: it is assigned, cancelled or expired, whatever
\* offers, stalled workers and restarts do.
MatchingResolves ==
  \A r \in Ride : status[r] = "MATCHING" ~> status[r] # "MATCHING"

(***************************************************************************)
(* The inductive invariant.                                                *)
(***************************************************************************)

\* What an accept or a sweep remembers of an offer or of the deadline stays true
\* while it is under way.
RequestsAreBacked ==
  \A w \in Worker :
    /\ proc[w].op = "accept" => proc[w].held = proc[w].ride
    /\ proc[w].op = "sweep" => proc[w].expire \subseteq overdue

MatchingInv ==
  /\ MatchingTypeOK
  /\ driver_status \in [Driver -> DriverStatus]
  /\ DriverRecorded
  /\ ExpiredWasOverdue
  /\ RequestsAreBacked

(***************************************************************************)
(* The engine writes the rows as RideLedger says.                          *)
(***************************************************************************)

Ledger == INSTANCE RideLedger WITH
            proc <- [w \in Worker |-> IF proc[w].op \in {"create", "cancel", "toggle"}
                                      THEN proc[w] ELSE Idle]

\* Every row the engine writes, it writes by a transaction of the ledger.
ImplementsLedger == Ledger!Spec
=============================================================================
