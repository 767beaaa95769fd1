------------------------------ MODULE Payments ------------------------------
(***************************************************************************)
(* Payments of completed rides: the rider's trigger, the mock PSP, its     *)
(* signed webhook, receipts.                                               *)
(*                                                                         *)
(* trips.End has inserted one PENDING payments row per ride (RideLedger).  *)
(* A trigger and a webhook each read the row first and change it in a      *)
(* later statement; proc[w] is what the request remembers in between.  The *)
(* PSP posts a webhook once; the endpoint must also stand replays of it.   *)
(***************************************************************************)
EXTENDS Naturals, FiniteSets

CONSTANTS Ride,
          AlwaysFails,  \* rides whose amount ends in 13 paise
          Ref,          \* psp_ref uuids (a bound on the triggers)
          Worker,       \* requests served at the same time (a bound)
          maxRetries,
          Replays,      \* whether a webhook may arrive more than once
          None          \* NULL

Verdict == {"success", "failure"}

ASSUME PaymentsAssumption == /\ AlwaysFails \subseteq Ride
                             /\ maxRetries \in Nat \ {0}
                             /\ Replays \in BOOLEAN
                             /\ None \notin Ride \cup Ref \cup Verdict

VARIABLES
  status, psp_ref, retry_count,  \* Ride -> column of its payments row
  receipts,                      \* the rides that have a receipt (ride_id is unique)
  charge_ride,                   \* Ref -> the ride it was minted for
  verdict,                       \* Ref -> the PSP's decision on the charge
  posts,                         \* the refs whose webhook the PSP has still to post
  proc                           \* Worker -> the request it is serving

rows    == <<status, psp_ref, retry_count, receipts>>
pspVars == <<verdict, posts>>
vars    == <<status, psp_ref, retry_count, receipts, charge_ride, verdict, posts, proc>>

Idle == [op |-> "idle"]

PaymentRequest ==
  {Idle}
    \cup [op : {"trigger"}, ride : Ride]
    \cup [op : {"schedule"}, ref : Ref]
    \cup [op : {"apply"}, ref : Ref, ride : Ride]

PaymentsTypeOK ==
  /\ status \in [Ride -> {"PENDING", "PROCESSING", "SUCCEEDED", "FAILED"}]
  /\ psp_ref \in [Ride -> Ref \cup {None}]
  /\ retry_count \in [Ride -> 0 .. maxRetries]
  /\ receipts \subseteq Ride
  /\ charge_ride \in [Ref -> Ride \cup {None}]
  /\ verdict \in [Ref -> Verdict \cup {None}]
  /\ posts \subseteq Ref
  /\ proc \in [Worker -> PaymentRequest]

Serving(w, op)  == proc[w].op = op
Go(w, request)  == proc' = [proc EXCEPT ![w] = request]

(***************************************************************************)
(* Trigger.                                                                *)
(***************************************************************************)

\* Mutant: one retry too many.
canTrigger_AtCap(r) ==
  status[r] = "PENDING" \/ (status[r] = "FAILED" /\ retry_count[r] <= maxRetries)

canTrigger(r) ==
  status[r] = "PENDING" \/ (status[r] = "FAILED" /\ retry_count[r] < maxRetries)

\* The rider's own, completed ride.
TriggerRead(w, r) ==
  /\ proc[w] = Idle
  /\ canTrigger(r)
  /\ Go(w, [op |-> "trigger", ride |-> r])
  /\ UNCHANGED <<rows, charge_ride, pspVars>>

\* Mutant: relies on the predicate it read.
TriggerUpdate_Unguarded(w, ref) ==
  /\ Serving(w, "trigger")
  /\ charge_ride[ref] = None
  /\ status' = [status EXCEPT ![proc[w].ride] = "PROCESSING"]
  /\ psp_ref' = [psp_ref EXCEPT ![proc[w].ride] = ref]
  /\ charge_ride' = [charge_ride EXCEPT ![ref] = proc[w].ride]
  /\ Go(w, [op |-> "schedule", ref |-> ref])
  /\ UNCHANGED <<retry_count, receipts, pspVars>>

\* The guarded UPDATE asserts the payable predicate again; the ref is fresh.
TriggerUpdate(w, ref) ==
  /\ Serving(w, "trigger")
  /\ canTrigger(proc[w].ride)
  /\ charge_ride[ref] = None
  /\ status' = [status EXCEPT ![proc[w].ride] = "PROCESSING"]
  /\ psp_ref' = [psp_ref EXCEPT ![proc[w].ride] = ref]
  /\ charge_ride' = [charge_ride EXCEPT ![ref] = proc[w].ride]
  /\ Go(w, [op |-> "schedule", ref |-> ref])
  /\ UNCHANGED <<retry_count, receipts, pspVars>>

\* The outcome of a charge is rolled when it is scheduled.
pspOutcome(r) == IF r \in AlwaysFails THEN {"failure"} ELSE Verdict

Schedule(w) ==
  /\ Serving(w, "schedule")
  /\ \E outcome \in pspOutcome(charge_ride[proc[w].ref]) :
       verdict' = [verdict EXCEPT ![proc[w].ref] = outcome]
  /\ posts' = posts \cup {proc[w].ref}
  /\ Go(w, Idle)
  /\ UNCHANGED <<rows, charge_ride>>

(***************************************************************************)
(* The PSP's goroutine, and the webhook endpoint.                          *)
(***************************************************************************)

shouldApplyWebhook(r) == status[r] = "PROCESSING"

\* The row is looked up by psp_ref; no row (404) and a row that is not
\* PROCESSING (200) both end the request.
WebhookRead(w, ref) ==
  /\ proc[w] = Idle
  /\ IF \E r \in Ride : psp_ref[r] = ref /\ shouldApplyWebhook(r)
     THEN \E r \in Ride : /\ psp_ref[r] = ref
                          /\ Go(w, [op |-> "apply", ref |-> ref, ride |-> r])
     ELSE UNCHANGED proc
  /\ UNCHANGED <<rows, charge_ride, verdict>>

\* postWebhook: one POST.
Post(w, ref) == ref \in posts /\ WebhookRead(w, ref) /\ posts' = posts \ {ref}

\* The POST fails and is only logged.
PostFails(ref) ==
  /\ ref \in posts
  /\ posts' = posts \ {ref}
  /\ UNCHANGED <<rows, charge_ride, verdict, proc>>

\* The same signed body arrives again.
Replay(w, ref) ==
  /\ Replays
  /\ verdict[ref] # None
  /\ ref \notin posts
  /\ WebhookRead(w, ref)
  /\ UNCHANGED posts

\* Mutants: the row to update is the one of the ride, whatever its psp_ref; the
\* read that found the row PROCESSING is enough.
ApplyGuard_ByRide(w)  == status[proc[w].ride] = "PROCESSING"
ApplyGuard_Read(w)    == psp_ref[proc[w].ride] = proc[w].ref /\ proc[w].op = "apply"

\* WHERE psp_ref = ref AND status = 'PROCESSING'; psp_ref is unique.
ApplyGuard(w) == psp_ref[proc[w].ride] = proc[w].ref /\ status[proc[w].ride] = "PROCESSING"

\* Mutant: the receipt is written even when no row was updated.
applySuccess_ReceiptFirst(w) ==
  /\ Serving(w, "apply")
  /\ verdict[proc[w].ref] = "success"
  /\ receipts' = receipts \cup {proc[w].ride}
  /\ Go(w, Idle)
  /\ UNCHANGED <<status, psp_ref, retry_count, charge_ride, pspVars>>

\* The status and the receipt, in one transaction.
applySuccess(w) ==
  /\ Serving(w, "apply")
  /\ verdict[proc[w].ref] = "success"
  /\ ApplyGuard(w)
  /\ status' = [status EXCEPT ![proc[w].ride] = "SUCCEEDED"]
  /\ receipts' = receipts \cup {proc[w].ride}
  /\ Go(w, Idle)
  /\ UNCHANGED <<psp_ref, retry_count, charge_ride, pspVars>>

applyFailure(w) ==
  /\ Serving(w, "apply")
  /\ verdict[proc[w].ref] = "failure"
  /\ ApplyGuard(w)
  /\ status' = [status EXCEPT ![proc[w].ride] = "FAILED"]
  /\ retry_count' = [retry_count EXCEPT ![proc[w].ride] = @ + 1]
  /\ Go(w, Idle)
  /\ UNCHANGED <<psp_ref, receipts, charge_ride, pspVars>>

\* A guarded UPDATE that hits no row, an error, a process that dies.
Abandon(w) ==
  /\ proc[w] # Idle
  /\ Go(w, Idle)
  /\ UNCHANGED <<rows, charge_ride, pspVars>>

Init ==
  /\ status = [r \in Ride |-> "PENDING"]
  /\ psp_ref = [r \in Ride |-> None]
  /\ retry_count = [r \in Ride |-> 0]
  /\ receipts = {}
  /\ charge_ride = [ref \in Ref |-> None]
  /\ verdict = [ref \in Ref |-> None]
  /\ posts = {}
  /\ proc = [w \in Worker |-> Idle]

Serve(w) ==
  \/ \E ref \in Ref : TriggerUpdate(w, ref)
  \/ Schedule(w) \/ applySuccess(w) \/ applyFailure(w)

Next ==
  \/ \E w \in Worker :
       \/ \E r \in Ride : TriggerRead(w, r)
       \/ \E ref \in Ref : Post(w, ref) \/ Replay(w, ref)
       \/ Serve(w)
       \/ Abandon(w)
  \/ \E ref \in Ref : PostFails(ref)

Spec == Init /\ [][Next]_vars

\* Requests that are being served go on, and the PSP posts what it scheduled;
\* nobody owes a trigger or a replay.
Fairness ==
  /\ \A w \in Worker : WF_vars(Serve(w))
  /\ \A ref \in Ref : WF_vars((\E w \in Worker : Post(w, ref)) \/ PostFails(ref))

FairSpec == Spec /\ Fairness

(***************************************************************************)
(* Properties.                                                             *)
(***************************************************************************)

\* A ride is charged at most once: of all the refs its triggers handed to the
\* PSP, at most one succeeds.
ChargedOnce ==
  \A a, b \in Ref :
    /\ charge_ride[a] = charge_ride[b] /\ charge_ride[a] # None
    /\ verdict[a] = "success" /\ verdict[b] = "success"
    => a = b

\* A payment's terminal status is the PSP's verdict on its current charge: a
\* late or replayed webhook of an earlier attempt never settles a later one.
SettledByItsCharge ==
  \A r \in Ride :
    /\ status[r] = "SUCCEEDED" => psp_ref[r] # None /\ verdict[psp_ref[r]] = "success"
    /\ status[r] = "FAILED" => psp_ref[r] # None /\ verdict[psp_ref[r]] = "failure"

\* A ride has a receipt exactly when its payment succeeded.
ReceiptIffPaid == \A r \in Ride : r \in receipts <=> status[r] = "SUCCEEDED"

Attempts(r) == {ref \in Ref : charge_ride[ref] = r}

\* retry_count counts every failed attempt once, however often its webhook
\* arrives: all attempts but the one still running or successful.
RetriesCounted ==
  \A r \in Ride :
    retry_count[r] = Cardinality(Attempts(r))
                       - (IF status[r] \in {"PROCESSING", "SUCCEEDED"} THEN 1 ELSE 0)

\* A payment whose charge the PSP was given to confirm ends SUCCEEDED or FAILED:
\* what Schedule's goroutine and the webhook owe it, whether or not the request
\* that triggered it lives on.
ProcessingEnds ==
  \A r \in Ride :
    (status[r] = "PROCESSING" /\ psp_ref[r] \in posts) ~> status[r] # "PROCESSING"

(***************************************************************************)
(* The inductive invariant.                                                *)
(***************************************************************************)

\* What a request remembers about a charge stays true of the charge.
RequestsKnow ==
  \A w \in Worker :
    /\ proc[w].op = "schedule" => /\ charge_ride[proc[w].ref] # None
                                  /\ verdict[proc[w].ref] = None
                                  /\ psp_ref[charge_ride[proc[w].ref]] = proc[w].ref
    /\ proc[w].op = "apply" => charge_ride[proc[w].ref] = proc[w].ride

\* A charge is scheduled by the trigger that minted it.
ScheduledOnce ==
  \A v, w \in Worker :
    proc[v].op = "schedule" /\ proc[w].op = "schedule" /\ proc[v].ref = proc[w].ref => v = w

\* Only the current charge of a ride is undecided or successful, and only while
\* the payment is not FAILED.
OldChargesFailed ==
  \A ref \in Ref : charge_ride[ref] # None =>
    LET r == charge_ride[ref] IN
      /\ psp_ref[r] # ref => verdict[ref] = "failure"
      /\ status[r] # "PENDING"

RowNamesItsCharge ==
  \A r \in Ride : IF psp_ref[r] = None THEN status[r] = "PENDING"
                  ELSE charge_ride[psp_ref[r]] = r /\ status[r] # "PENDING"

\* The PSP decides only charges that a trigger minted.
Undecided == \A ref \in Ref : charge_ride[ref] = None => verdict[ref] = None

\* A payment is only tried again below the cap.
CountWithinCap ==
  \A r \in Ride : status[r] \in {"PENDING", "PROCESSING"} => retry_count[r] < maxRetries

PaymentsInv ==
  /\ PaymentsTypeOK
  /\ SettledByItsCharge
  /\ ReceiptIffPaid
  /\ RequestsKnow
  /\ ScheduledOnce
  /\ OldChargesFailed
  /\ RowNamesItsCharge
  /\ Undecided
  /\ CountWithinCap
=============================================================================
