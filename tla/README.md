# GoRide: a verification development

TLA+ models of the GoRide backend (`internal/`), model-checked with TLC and, for the
parts named below, proved with TLAPS. Paths are relative to the repository.

## The system

GoRide is a stateless Go API; N instances share one Postgres and one Redis. All
concurrency is between request goroutines, the sweeper goroutine of each instance,
the PSP's callback goroutines, open event streams and the expiry of Redis keys.

| component | state | operations | what makes it correct |
|---|---|---|---|
| ride rows (`rides`) | `rides.status, rider_id, driver_id` | Create, Cancel, Expire, Arriving, Arrived | statuses follow the table; one active ride per rider |
| driver rows (`drivers`) | `drivers.status` | SetAvailability; freed by Cancel and End | `on_trip` iff on an active ride |
| matching (`matching`) | `offer:driver`, `offer:ride`, tried set | RequestMatch, Accept, Decline, sweep | one assignment per ride and per driver, only after an offer; every ride leaves MATCHING |
| driver presence (`drivers`) | `driver:status`, `driver:ride`, `driver:last`, `geo:drivers` | MarkOnTrip, Release, goAvailable, goOffline, UpdateLocation | the mirrors agree with the rows once requests are done; an available driver is found |
| trips (`trips`, `rides`) | OTP hash, pause start, metered distance, the bill | Start, Pause, Resume, End, RegenerateOTP, pings | the bill is that of the distance driven and the time not paused |
| payments (`payments`) | `payments` and `receipts` rows, the PSP's charges | Trigger, HandleWebhook, PSP post | charged once, settled by the right verdict, receipt iff paid |
| ride cache (`rides`) | `ride:cache` | cachedLoad, invalidate | a view from before a transition dies out in bounded time |
| idempotency (`httpapi`) | `idempotency_keys` | wrap a POST | retries and races get one answer, and no answer lies |
| pricing, quotes | `quotes` rows, demand buckets | quote, Fare, FinalFare, Bucket | the surge is that of the demand; quote and bill agree |
| events (`events`, `httpapi`) | pub/sub channels, open streams, the page | publish, subscribe, stream, state lookup | a page that is behind missed an event for a known reason |

Interactions: `rides.Create` fires `matching.RequestMatch` in the same request;
`Cancel` and `End` call `drivers.Release` after they commit; `Accept` calls
`drivers.MarkOnTrip`; pings meter the trip that `End` bills; `End` inserts the payment
row that `payments.Trigger` picks up; every committed transition deletes the cached
ride and publishes an event. Postgres transactions are atomic, each Redis command or
pipeline is atomic, nothing spans both.

The hard behaviours, and the property that watches each, are the `hazards` of
`PROJECT.json`: requests that read, wait and then write; a commit and the Redis writes
after it, with a crash or another request between; accept, cancel, decline, sweep and
key expiry in any order; pings beside everything; lost, replayed and overtaking
messages; counters and timers at their edges.

## Modules

| module | models | builds on |
|---|---|---|
| `RideStates` | statuses, transition table, status classes (`rides/state.go`) | |
| `RideAllocation` | abstract: rides are booked, given to a driver, closed; one open ride per rider and per driver | |
| `RideLedger` | all Postgres transactions on rides, drivers, trips and the payment insert | `RideStates`; implements `RideAllocation` |
| `Matching` | the offer loop, accepts, declines, sweeper and the offer keys | extends `RideLedger`, implements it |
| `Presence` | the mirrors and the geo pool, written after the transactions of the ledger | extends `RideLedger` |
| `Fares` | fare, final fare and surge bucket as integer operators | |
| `Trips` | OTP, meter, pauses and the bill, step by step | extends `RideLedger`, `Fares` |
| `Payments` | trigger, PSP, webhook, receipts, retry cap | |
| `StaleRegister` | abstract: a register whose reads lag behind by a bounded time | |
| `RideCache` | `cachedLoad` against transitions, expiry and lost invalidations | implements `StaleRegister` |
| `Idempotency` | the Idempotency-Key middleware | |
| `Quotes` | demand buckets and the surge of a quote | extends `Fares` |
| `EventStream` | status events from commit to page | |

`XProofs` holds the theorems about `X`, `MatchingProofs` also those about `RideLedger`,
`TripsProofs` and `QuotesProofs` those about the operators of `Fares` each goes by; `MCX`
instantiates `X` for TLC.

### RideLedger

One variable per column that control depends on, indexed by ride or driver; a ride
not inserted yet has status `Absent`. A transaction is one step, because its guarded
`UPDATE ... WHERE status = ...` holds the row locks to the commit. A request that
reads before it writes (Cancel, Start, End), or commits twice (Create), is a *worker*:
`proc[w]` holds what the goroutine remembers between the two. `Abandon` ends it
anywhere, for a guard that hits no row as for a crash.

`SetAvailability` is one SQL statement, yet two steps: under READ COMMITTED an UPDATE
that waits for a row evaluates its WHERE clause again on the new row, while the
subquery over `rides` still reads the statement's snapshot. `ToggleSnapshot` takes
that snapshot, `AvailabilityRows` evaluates the guard on both rows.

### Matching

Extends the ledger's rows with the three Redis keys. Between two Redis commands or
transactions of one goroutine anything else may happen. What a candidate search finds
(geo index, status mirror, freshness, tier, distance order) is any set of drivers.
Keys expire by `OfferLapses` and `MarkerLapses`; `DeadlinePasses` marks a ride whose
`created_at` is past the deadline. One timing fact is assumed: `offer:ride`, written
second with the same TTL, does not lapse before the offer. Nothing bounds how long a
worker takes between two steps: an offer may lapse before it is recorded. An accept in
flight keeps the offer it took (`held`), so what it took is compared with what it
assigns. After assignment only cancellation goes on; the engine reads nothing of the
later phases. Left out: the batch limit, rides a sweeper skips because another sweeper's
short batch transaction holds their lock (they are in the next batch), events and
metrics.

### Presence

Rides start in MATCHING, and any driver may be assigned: offers do not matter here. The
transactions of the ledger are each followed by its Redis writes as steps of
their own: mark; release and restore; forget, announce, locate and pool for going
available; offline. A ping is two round-trips, the second of which goes by what the
first read of the mirror. `driver:last` expires; `Flush` empties Redis; `CutShort` ends
a request between its commit and its last write. `clashed` is history: the drivers
whose last requests overlapped or were cut short. It is emptied for a driver by the
next request that runs alone, so `MirrorsFollowRows` says that damage does not outlive
it.

### Fares and Trips

`Fares` gives the *set* of results float64 and `math.Round` can produce: both
neighbours where the exact value lies half-way, the nearest integer otherwise.

`Trips` splits Start, Pause, Resume and End into their reads, Redis commands and
transactions. Trips are long and requests short: the clock moves only while no request
is in flight. A Redis command may fail at every step where the code only logs it and
goes on: the SET of Pause; the GETDEL of Resume and of End, whether Redis carried it out
(its reply is lost) or not (the key stays); the GET and the DEL of the meter, by Start
and by End, which then bills the estimate whatever was driven. A ping remembers whether
it read the marker on the way to the pickup or during the trip. The history keeps the
metres by that (`driven` during the trip, `rolling` during the trip but metered while
Start or End was at the meter, `strayed` on the way to the pickup but metered after the
reset), the paused seconds as they really were, the OTPs shown while the car waited, and
what went wrong (`mishaps`: requests that overlapped, a cut or a failed command, a pause
a failed GETDEL left behind). The two hours of `trip:paused_at` and `trip:dist` are left
out.

### Payments

Starts where `trips.End` ends: a PENDING row per completed ride. A charge is a
`psp_ref`; `charge_ride` records which ride it was minted for and `verdict` what the
PSP decided. The PSP posts each verdict once (`Post`), or fails to (`PostFails`);
`Replay`, switched by the constant `Replays`, delivers a signed body again, at any
time and any number of times. Since only signed bodies pass, a delivery always carries
the PSP's verdict.

### RideCache

The row is the number of its transition. Entry and requests carry their remaining life,
counted down by `Tick`, so time is unbounded. `Cut` is a crash or a DEL that fails,
`Evict` an entry Redis drops. A request ends at its deadline (the timeout of
`router.go`), which is what bounds a slow fill.

### Idempotency

Requests with one key, some with another body, at any point between the pre-check, the
handler, the insert and the reload; `TableFails` and `Crash` at each. The handler is
any of the three wrapped, and the layer knows nothing of it: it has its effect for its
own body or not, and says ok only after its commit; it may refuse (403, 404, 409, 422) or
fail with an effect or without one. Two bodies are two rides, and each may have its
effect (`done` is the set of bodies that had).

### Quotes

Buckets per minute with their expiry, read one by one by a quote and bumped at its end,
in the bucket of its start. `least` and `most` of the last quote are history: the
demand it cannot have missed, and the demand there was.

### EventStream

A worker commits a transition and publishes it later, or never. A page looks its ride
up (`riderState`, `LoadView`), shows it, asks for the stream, and is live once the
subscription is acknowledged; a cut stream is opened again without a lookup, as
`stream.ts` does. `astray` is history: an event newer than all the page has coming went
past it.

## Runs

| run | instance | shows |
|---|---|---|
| `ledger_safety` | 2 riders, 2 drivers, 2 rides, 2 workers, accepts committing beside them at any time | row invariants, legal status edges, the first accept of a ride wins, the ledger implements `RideAllocation` |
| `ledger_toggle_race` | same | violated: an active driver can be toggled to available or offline |
| `matching_resolves` | 2 rides of one rider, 1 driver, 1 handler, 1 sweeper, any restarts, fairness | an accept assigns only what it holds the offer of; only the deadline expires; every ride leaves MATCHING; the engine implements the ledger |
| `presence` | 1 driver, 1 ride, 2 workers, 1 flush, requests cut short, fairness | mirrors follow the rows; an available driver comes to be found |
| `presence_stranded` | 1 driver, 2 rides, 2 workers, no faults | violated: a released driver can stay mirrored as `on_trip` |
| `trips` | 1 ride, 2 workers, 2 ticks, pings of 150 m, two before and two during the trip, 2 OTPs, failing Redis commands | distance, pauses, fare and OTP of the trip |
| `payments_safety` | 2 rides (one always declined), 4 charges, 3 workers, cap 3 | charges, settlement, receipts, count |
| `payments_lost_webhook` | 1 ride, 2 charges, fairness, no replays | violated: a payment whose charge the PSP was given to confirm stays PROCESSING when the one POST is lost |
| `ride_cache` | 3 workers, 2 transitions, TTL 2, timeout 2, fairness | stale entries die out, the cache settles, it implements `StaleRegister` |
| `idempotency` | 3 workers, 2 bodies, 5 requests | one answer, and a true one |
| `quotes` | 2 workers, 2 buckets of 2 ticks, 4 quotes, 8 ticks | no bucket expires in its window; surge within the demand |
| `event_stream` | 3 workers, 2 pages, 4 transitions | when a page is behind, and why |

Bounds. Two rides, drivers and riders are enough for each uniqueness property to fail
(it relates two of a kind), and two workers for each race, which is between two
requests. Where a third party matters there are three: a reader that loaded, one that
stores, and a transition (`ride_cache`); a winner, a loser and a late retry
(`idempotency`). `matching_resolves` has two rides, one after the other, so that an accept
can find the offer of the ride before; TLC stops it when the second has left matching,
and numbers the rides in their order (`MCSpec`), which is symmetry written out. Accepts
that race each other are not its question but that of `ledger_safety`: an accept keeps
nothing between its GETDEL and its transaction but the driver and the ride, so
`assignTx`, which commits there at any time, for any driver and beside two requests in
flight, is every accept that may be in flight, with or without an offer (two drivers can
hold one of the same ride). `FirstCommitWins` and `FirstAcceptWins` prove it for any
number of handlers, and `OnlyOfferedDriversAssigned` the offers for any number of rides
and drivers. `presence` has one ride, `presence_stranded`
two; `MirrorsFollowRows` is proved for any number. Four charges allow one more attempt than the cap. In `trips` a tick is 60 s and two pings
reach the quoted 300 m, so a trip can be shorter than its quote or equal to it, and a
ping before each of Start's reset and End's read can be followed by one that races it.
Its `VIEW` takes rides to be the same whose requests overlapped or left a pause behind,
whatever else went wrong with them, as no property and no action tells them apart.
`MaxFlushes` bounds flushes of Redis,
`MaxCodes`, `MaxQuotes`, `MaxRequests`, `MaxTime`, `MaxMetres` and `MaxVersion` what
their names say. In `quotes`, eight ticks see a bucket made, bumped late, expire, and
two windows after it.

`CHECK_DEADLOCK FALSE` is said where the system really may stop: a payment whose trigger
died, a trip that is billed, all requests with the key answered, the clock at its bound,
a terminal ride whose pages are closed.

The violated runs are disagreements between the code and what its comments or docs
say; `findings` in `PROJECT.json` quotes each.

Fairness. `MatchingFairness`: a running goroutine goes on, the 2 s ticker starts a new
sweep, time passes the deadline; no rider or driver is assumed to do anything. Restarts
of sweepers are not bounded. A sweeper that restarts each time it comes to an overdue
ride resolves nothing, so expiring a ride is strongly fair: of infinitely many batches
that come to it, one does not end just there. Weak fairness is enough for the rest,
because a running goroutine's step stays enabled until it is taken.
`Payments!Fairness`: a request being served goes on and a scheduled post is tried; no
trigger and no replay is assumed. `PresenceFairness`: a request that is running goes
on, and the driver's app keeps sending pings, which is what an available driver's app
is for. `RideCache`: time passes, nothing else; no read has to arrive for a stale entry
to go.

## Proofs

Each proof module proves an inductive invariant, one lemma per action or group of
actions, and then one theorem per property; `theorems` in `PROJECT.json` lists the
results. All hold for any values of the constants that meet the `ASSUME`s of the
modules.

Where there are two inductive invariants (`Trips`), the second is proved with the first
as a hypothesis. Each invariant was checked by TLC on the instance of its module's run
before it was proved.

The ledger, in `MatchingProofs`: any sets of riders, drivers, rides and workers; `None` is none of
them. `LedgerInv` is the conjunction of the checked invariants and `EndKnowsDriver` (an
end request in flight remembers the ride's driver). They need one another: that an
assignment does not give a driver two rides follows from the guard alone
(`~DriverActive`, the index), but that cancelling or ending a ride leaves no driver
`on_trip` without a ride needs `DriverHasOneRide`; that the trip's statuses match needs
the trip row's absence before IN_PROGRESS. `StatusesFollowTheTable` proves the action
property, `LedgerImplementsAllocation` the refinement.

`MatchingProofs`: `MatchingInv` adds that an accept in flight has taken an offer of its
own ride and that a sweep's expiry list goes by the deadline (`RequestsAreBacked`).
`OnlyOfferedDriversAssigned` follows step by step. `FirstCommitWins` needs of the ledger
only that a ride to be assigned is MATCHING and a MATCHING ride has no driver
(`DriverRecorded`). `EngineImplementsLedger` maps each
step of the engine to a transaction of the ledger or to a stutter. `RowsInv` is the
ledger's invariant without its requests: every row write of the engine (`RowWrite`)
keeps it and is a legal edge, so `EngineNeverDoubleAssigns` and `EngineFollowsTheTable`
carry the ledger's guarantees over to offers, accepts and sweeps, which
`matching_resolves`, with its one driver, cannot show.

`PresenceProofs`: for a driver whose requests did not clash, the one request that still
writes for him is backed by the rows and by the keys already written
(`WritersAreBacked`, `Backed`). Without it nothing says that the last write of a request
finds the row as the commit left it.

`TripsProofs`: `TripsInv` is stated ride by ride. `PausesAreCounted` accounts each paused
second to the row, to a request at work or to the open key, and to one only, through
cuts and failing commands, as long as `PausesInOrder`: requests of the ride have not
overlapped, and no failed GETDEL has left a pause behind that is over. Either breaks it
(the second when the SET of the next Pause fails too), and TLC shows both;
`OtpsWereShown` follows the OTP a Start compared; `FareIsComputed` ties the fare to the
columns, from which `TheQuoteIsKept` follows with `FinalFareNearFare`: rounding the
components first moves the fare by at most a rupee, for all rates, distances, durations
and surges.

`BillsInv` is the second invariant, and says where the metres and the paused seconds of
an undisturbed trip (no overlap, no cut, no failing command) are at each moment.
`MeterIsExact`: the metered distance is in `trip:dist`, then with the End that drained
it, then in the row, and in one place at a time, between what was driven and that plus
what `rolling` and `strayed` pings add; before Start's reset nothing of the trip has been
driven. `PausesAreExact`: the
seconds booked and the pause still open add up to the time rested, except while a Resume
or an End carries the pause it consumed. Both need `WorkIsOnTrip` (no request is at work
on a trip that is over) and `RestWithinTrip`, without which the billed time could be cut
off at zero. `TheMeterIsBilled` and `PausesAreNotCharged` are its last line for a
completed ride. `None` must not be a time (`TripsAssumption`), as no Redis value is
mistaken for a missing one.

`QuotesProofs`: any length of a minute, of the window and of a request; `DemandTTL` is one
window, as in the code. `BucketHolds` is the argument that so short a TTL is enough: a
bucket outlives each of its bumps by the TTL, and no bump comes before its minute, so it
is whole while its minute is in anyone's window, and later counts at least the bumps
younger than the TTL. `SumIsOfTheWindow` follows a sum from bucket to bucket: never
below the bumps that were there when the quote started, never above those that are there
now. The surge follows because it is monotone in the demand (`SurgeGrowsWithDemand`).

`EventStreamProofs`: any number of publishers, clients and transitions. The argument is
about `Latest`, the version a client comes to once its queue is shown: an action leaves
it alone or moves it to the event that is published, and a version leaves the flight
only in its own publication, which is in order, or marks those it went past `astray`.
`StreamInv` adds to `ViewFollows` that `Latest` is a version for every client that has
loaded (`PageShowsStatus`, and the type of the queues).

`PaymentsProofs`: any positive cap, with or without replays. `PaymentsInv` adds: every
charge of a ride but the current one has failed (`OldChargesFailed`), the row names a
charge of its own (`RowNamesItsCharge`), a request in flight knows a charge of its ride
(`RequestsKnow`), a charge is scheduled by one request (`ScheduledOnce`), and a payment
in progress is below the cap (`CountWithinCap`). Two successful charges would then both
be the current one.

`RideCacheProofs`: any TTL and timeout. `EntryIsRecent` is inductive once it also bounds
what a filling request holds, and with the fact that a version not replaced has no age.
`CacheImplementsRegister` is the refinement.

`IdempotencyProofs`: an ok on its way is that of a body that was done, no request that
came after the row gets to the handler (`RequestsAreTrue`), and the row is the answer of
all that was stored or replayed (`RowIsTheAnswer`). The handler is not restricted beyond
saying ok only after its commit.

Only model-checked: `MatchingResolves`, `AvailableIsFound` and `CacheSettles` (liveness,
out of the prover's reach, which has no ENABLED). The violated properties are refuted by
TLC. Every invariant and every other action property and refinement that a passing run
checks is a theorem. No module with a theorem reaches a recursive operator.

## Known limits of the code

What the models show and no property promises. The first five contradict a comment or a
doc, quoted in `findings`; of the others we know no text that says otherwise.

- Only the deadline expires a ride; `docs/SPEC.md:198`, `docs/SPEC.md:293` and
  `internal/rides/rides.go:258` say that exhausted candidates do, too.
- The tried set is read before the claim (`internal/matching/matching.go:150`), so a
  driver who declined a ride may be offered it again, against
  `internal/matching/matching.go:394`. Two sweepers may work on one ride (line 528).
- Reads through the ride cache may lag behind for the life of an entry and of a request
  (`EntryIsRecent` is the bound); the repository's `README.md:106` calls them current.
- A ping that read on the way to the pickup and meters after Start's reset puts its
  metres on the bill (`strayed` in `MeteredIsBilled`), against `internal/trips/trips.go:141`.
- A 409 that is stored before the answer of the racing request that booked the ride is
  that request's answer too, and every retry's: not the "benign 409" of
  `internal/httpapi/idempotency.go:22`. An idempotent retry after a crash may also find
  the effect done and store the 409 for good.
- A crash between Create's two transactions leaves a REQUESTED ride that no sweeper sees
  (`internal/rides/rides.go:162`); it blocks the rider until he cancels it.
- Decline reads and deletes `offer:ride` in two commands, and a driver who goes offline
  deletes it unread (`internal/drivers/drivers.go:213`): a newer offer loses its marker,
  and the ride is offered to a second driver early. The transaction still picks one.
- Two Ends that overlap, or an End retried after it was cut short, bill the estimate: the
  first consumed the meter (`internal/trips/trips.go:263`). A crash between Start's
  commit and the reset of the meter, or a reset that fails, bills the way to the pickup.
  An End that cannot read the meter bills the estimate whatever was driven
  (`internal/drivers/drivers.go:288`). Overlapping Pause and Resume can count a stale
  pause, and so can a GETDEL that fails and leaves its key
  (`internal/trips/trips.go:402`) when the SET of the next Pause fails, too.
  `MeteredIsBilled`, `PausesAreFree` and
  `NoPauseInvented` say so by excluding such trips by name.
- A Start that compared its OTP before RegenerateOTP replaced it may still start the trip
  with it; it was current while the car waited.
- A page does not reload on reconnect, so a status published between lookup and
  subscription, or while its stream is down, is shown only with the next event or a
  reload; an event that overtook a newer one is shown last.

## Not modelled, and the plan

Not modelled: HTTP parsing, authentication and validation (stateless; what guards a
state change is a guard of the actions), process wiring, configuration and metrics, the
migrations as such, and the web client beyond how it loads, subscribes and
reconnects. Partly modelled: events (location, OTP and payment events, and the drivers'
channel, are left out; they carry no state of their own), pricing and quotes (distances
and cells are any number; a quote's expiry is checked by Create and any there).

Next: the ledger's row guarantees under `Presence` and `Trips`, as `EngineKeepsRows` has
them under `Matching`; the drivers' channel and the offers it carries composed with
`Matching`; the candidate search of `Matching` composed with `Presence`; two rides in
`presence`.
