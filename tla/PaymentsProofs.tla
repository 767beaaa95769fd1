--------------------------- MODULE PaymentsProofs ---------------------------
(***************************************************************************)
(* The invariants of Payments for any number of rides, charges, concurrent *)
(* requests and replays, and any retry cap.                                *)
(***************************************************************************)
EXTENDS Payments, FiniteSetTheorems, TLAPS

\* What a request of each kind carries.
LEMMA RequestFields ==
  ASSUME NEW q \in PaymentRequest
  PROVE  /\ q.op \in {"idle", "trigger", "schedule", "apply"}
         /\ q.op = "trigger" => q.ride \in Ride
         /\ q.op = "schedule" => q.ref \in Ref
         /\ q.op = "apply" => q.ref \in Ref /\ q.ride \in Ride
BY DEF PaymentRequest, Idle

LEMMA InitInv == Init => PaymentsInv
BY PaymentsAssumption
DEF Init, PaymentsInv, PaymentsTypeOK, SettledByItsCharge, ReceiptIffPaid, RequestsKnow,
    ScheduledOnce, OldChargesFailed, RowNamesItsCharge, Undecided, CountWithinCap, PaymentRequest, Idle

\* A request that only takes on work about known charges, or ends, disturbs
\* nothing as long as no row, charge or verdict changes.
LEMMA QuietStep ==
  ASSUME PaymentsInv, UNCHANGED <<rows, charge_ride, verdict>>,
         posts' \subseteq Ref,
         \A v \in Worker : \/ proc'[v] = proc[v]
                           \/ proc'[v].op \in {"idle", "trigger"}
                           \/ proc'[v].op = "apply" /\ charge_ride[proc'[v].ref] = proc'[v].ride,
         proc' \in [Worker -> PaymentRequest]
  PROVE  PaymentsInv'
<1>1. PaymentsTypeOK' /\ SettledByItsCharge' /\ ReceiptIffPaid'
  BY DEF PaymentsInv, PaymentsTypeOK, SettledByItsCharge, ReceiptIffPaid, rows
<1>2. RequestsKnow' /\ ScheduledOnce'
  BY DEF PaymentsInv, RequestsKnow, ScheduledOnce, rows
<1>3. OldChargesFailed' /\ RowNamesItsCharge' /\ Undecided' /\ CountWithinCap'
  BY DEF PaymentsInv, OldChargesFailed, RowNamesItsCharge, Undecided, CountWithinCap, rows
<1> QED BY <1>1, <1>2, <1>3 DEF PaymentsInv

LEMMA TriggerReadInv ==
  ASSUME PaymentsInv, NEW w \in Worker, NEW r \in Ride, TriggerRead(w, r)
  PROVE  PaymentsInv'
<1>1. proc' \in [Worker -> PaymentRequest]
  BY DEF PaymentsInv, PaymentsTypeOK, TriggerRead, Go, PaymentRequest
<1>2. \A v \in Worker : proc'[v] = proc[v] \/ proc'[v].op \in {"idle", "trigger"}
  BY DEF PaymentsInv, PaymentsTypeOK, TriggerRead, Go
<1> QED
  BY <1>1, <1>2, QuietStep DEF TriggerRead, pspVars, PaymentsInv, PaymentsTypeOK

LEMMA AbandonInv ==
  ASSUME PaymentsInv, NEW w \in Worker, Abandon(w)
  PROVE  PaymentsInv'
<1>1. proc' \in [Worker -> PaymentRequest]
  BY DEF PaymentsInv, PaymentsTypeOK, Abandon, Go, PaymentRequest
<1>2. \A v \in Worker : proc'[v] = proc[v] \/ proc'[v].op \in {"idle", "trigger"}
  BY DEF PaymentsInv, PaymentsTypeOK, Abandon, Go, Idle
<1> QED
  BY <1>1, <1>2, QuietStep DEF Abandon, pspVars, PaymentsInv, PaymentsTypeOK

\* The endpoint's read, by whatever delivery.
LEMMA WebhookReadInv ==
  ASSUME PaymentsInv, NEW w \in Worker, NEW ref \in Ref, WebhookRead(w, ref),
         posts' \subseteq posts
  PROVE  PaymentsInv'
<1>1. proc' \in [Worker -> PaymentRequest]
  BY DEF PaymentsInv, PaymentsTypeOK, WebhookRead, Go, PaymentRequest
<1>2. ASSUME NEW v \in Worker
      PROVE  \/ proc'[v] = proc[v]
             \/ proc'[v].op = "apply" /\ charge_ride[proc'[v].ref] = proc'[v].ride
  <2>1. CASE UNCHANGED proc
    BY <2>1
  <2>2. CASE \E r \in Ride : psp_ref[r] = ref /\ Go(w, [op |-> "apply", ref |-> ref, ride |-> r])
    <3>1. PICK r \in Ride : psp_ref[r] = ref /\ Go(w, [op |-> "apply", ref |-> ref, ride |-> r])
      BY <2>2
    <3>2. charge_ride[ref] = r
      BY <3>1, PaymentsAssumption DEF PaymentsInv, RowNamesItsCharge
    <3> QED BY <3>1, <3>2 DEF Go, PaymentsInv, PaymentsTypeOK
  <2> QED BY <2>1, <2>2 DEF WebhookRead
<1> QED
  BY <1>1, <1>2, QuietStep DEF WebhookRead, PaymentsInv, PaymentsTypeOK

LEMMA PostFailsInv ==
  ASSUME PaymentsInv, NEW ref \in Ref, PostFails(ref)
  PROVE  PaymentsInv'
BY QuietStep DEF PostFails, PaymentsInv, PaymentsTypeOK

\* A trigger's UPDATE gives the ride a fresh charge; the one it replaces failed.
LEMMA TriggerUpdateInv ==
  ASSUME PaymentsInv, NEW w \in Worker, NEW ref \in Ref, TriggerUpdate(w, ref)
  PROVE  PaymentsInv'
<1> DEFINE r == proc[w].ride
<1>1. r \in Ride
  BY RequestFields DEF PaymentsInv, PaymentsTypeOK, TriggerUpdate, Serving
<1>2. /\ charge_ride[ref] = None
      /\ status' = [status EXCEPT ![r] = "PROCESSING"]
      /\ psp_ref' = [psp_ref EXCEPT ![r] = ref]
      /\ charge_ride' = [charge_ride EXCEPT ![ref] = r]
      /\ proc' = [proc EXCEPT ![w] = [op |-> "schedule", ref |-> ref]]
      /\ UNCHANGED <<retry_count, receipts, verdict, posts>>
      /\ canTrigger(r)
  BY DEF TriggerUpdate, Go, pspVars
<1>3. psp_ref[r] # None => verdict[psp_ref[r]] = "failure" /\ charge_ride[psp_ref[r]] = r
  BY <1>1, <1>2 DEF canTrigger, PaymentsInv, SettledByItsCharge, RowNamesItsCharge
<1>4. /\ \A q \in Ride : psp_ref[q] # ref
      /\ verdict[ref] = None
  BY <1>1, <1>2, PaymentsAssumption DEF PaymentsInv, RowNamesItsCharge, Undecided
<1>5. PaymentsTypeOK'
  BY <1>1, <1>2 DEF PaymentsInv, PaymentsTypeOK, PaymentRequest
<1>6. SettledByItsCharge' /\ ReceiptIffPaid' /\ Undecided'
  BY <1>1, <1>2, <1>4, PaymentsAssumption
  DEF PaymentsInv, PaymentsTypeOK, SettledByItsCharge, ReceiptIffPaid, Undecided, canTrigger
<1>7. RequestsKnow'
  <2> SUFFICES ASSUME NEW v \in Worker
               PROVE  /\ proc'[v].op = "schedule" =>
                           /\ charge_ride'[proc'[v].ref] # None
                           /\ verdict'[proc'[v].ref] = None
                           /\ psp_ref'[charge_ride'[proc'[v].ref]] = proc'[v].ref
                      /\ proc'[v].op = "apply" => charge_ride'[proc'[v].ref] = proc'[v].ride
    BY DEF RequestsKnow
  <2>1. CASE v = w
    BY <2>1, <1>1, <1>2, <1>4, PaymentsAssumption DEF PaymentsInv, PaymentsTypeOK
  <2>2. CASE v # w /\ proc[v].op = "schedule"
    <3>1. /\ proc'[v] = proc[v] /\ proc[v].ref \in Ref
          /\ charge_ride[proc[v].ref] # None /\ verdict[proc[v].ref] = None
          /\ psp_ref[charge_ride[proc[v].ref]] = proc[v].ref
      BY <2>2, <1>2, RequestFields DEF PaymentsInv, PaymentsTypeOK, RequestsKnow
    <3>2. charge_ride[proc[v].ref] # r /\ proc[v].ref # ref
      BY <3>1, <1>2, <1>3, PaymentsAssumption DEF PaymentsInv, PaymentsTypeOK, Verdict
    <3> QED BY <2>2, <3>1, <3>2, <1>2 DEF PaymentsInv, PaymentsTypeOK
  <2>3. CASE v # w /\ proc[v].op = "apply"
    BY <2>3, <1>1, <1>2, RequestFields, PaymentsAssumption
    DEF PaymentsInv, PaymentsTypeOK, RequestsKnow
  <2> QED BY <2>1, <2>2, <2>3, <1>2 DEF PaymentsInv, PaymentsTypeOK
<1>8. OldChargesFailed'
  <2> SUFFICES ASSUME NEW c \in Ref, charge_ride'[c] # None
               PROVE  /\ psp_ref'[charge_ride'[c]] # c => verdict'[c] = "failure"
                      /\ status'[charge_ride'[c]] # "PENDING"
    BY DEF OldChargesFailed
  <2>1. CASE c = ref
    BY <2>1, <1>1, <1>2 DEF PaymentsInv, PaymentsTypeOK
  <2>2. CASE c # ref
    BY <2>2, <1>1, <1>2, <1>3, PaymentsAssumption
    DEF PaymentsInv, PaymentsTypeOK, OldChargesFailed
  <2> QED BY <2>1, <2>2
<1>9. RowNamesItsCharge' /\ CountWithinCap'
  BY <1>1, <1>2, <1>4, PaymentsAssumption
  DEF PaymentsInv, PaymentsTypeOK, RowNamesItsCharge, CountWithinCap, canTrigger
<1>10. ScheduledOnce'
  BY <1>2 DEF PaymentsInv, PaymentsTypeOK, RequestsKnow, ScheduledOnce
<1> QED BY <1>5, <1>6, <1>7, <1>8, <1>9, <1>10 DEF PaymentsInv

\* The PSP decides a charge that is its ride's current one.
LEMMA ScheduleInv ==
  ASSUME PaymentsInv, NEW w \in Worker, Schedule(w)
  PROVE  PaymentsInv'
<1> DEFINE ref == proc[w].ref
<1>1. /\ ref \in Ref /\ charge_ride[ref] \in Ride /\ verdict[ref] = None
      /\ psp_ref[charge_ride[ref]] = ref
  BY RequestFields DEF PaymentsInv, PaymentsTypeOK, RequestsKnow, Schedule, Serving
<1>2. PICK outcome \in Verdict : verdict' = [verdict EXCEPT ![ref] = outcome]
  BY DEF Schedule, pspOutcome, Verdict
<1>3. /\ proc' = [proc EXCEPT ![w] = Idle] /\ posts' = posts \cup {ref}
      /\ UNCHANGED <<status, psp_ref, retry_count, receipts, charge_ride>>
  BY DEF Schedule, Go, rows
<1>4. PaymentsTypeOK' /\ ReceiptIffPaid' /\ RowNamesItsCharge' /\ CountWithinCap'
  BY <1>1, <1>2, <1>3
  DEF PaymentsInv, PaymentsTypeOK, ReceiptIffPaid, RowNamesItsCharge, CountWithinCap, PaymentRequest
<1>5. SettledByItsCharge' /\ OldChargesFailed' /\ Undecided'
  BY <1>1, <1>2, <1>3, PaymentsAssumption
  DEF PaymentsInv, PaymentsTypeOK, SettledByItsCharge, OldChargesFailed, Undecided, Verdict
<1>6. ScheduledOnce'
  BY <1>3 DEF PaymentsInv, PaymentsTypeOK, ScheduledOnce, Idle
<1>7. RequestsKnow'
  <2>1. \A v \in Worker : v # w /\ proc[v].op = "schedule" => proc[v].ref # ref
    BY DEF PaymentsInv, ScheduledOnce, Schedule, Serving
  <2> QED
    BY <2>1, <1>1, <1>2, <1>3 DEF PaymentsInv, PaymentsTypeOK, RequestsKnow, Idle
<1> QED BY <1>4, <1>5, <1>6, <1>7 DEF PaymentsInv

\* Settling a payment from PROCESSING, by the verdict on its current charge.
LEMMA SettleInv ==
  ASSUME PaymentsInv, NEW w \in Worker, Serving(w, "apply"), ApplyGuard(w),
         NEW to \in {"SUCCEEDED", "FAILED"},
         verdict[proc[w].ref] = IF to = "SUCCEEDED" THEN "success" ELSE "failure",
         status' = [status EXCEPT ![proc[w].ride] = to],
         retry_count' = IF to = "FAILED" THEN [retry_count EXCEPT ![proc[w].ride] = @ + 1]
                        ELSE retry_count,
         receipts' = IF to = "SUCCEEDED" THEN receipts \cup {proc[w].ride} ELSE receipts,
         Go(w, Idle), UNCHANGED <<psp_ref, charge_ride, pspVars>>
  PROVE  PaymentsInv'
<1> DEFINE r == proc[w].ride
<1>1. /\ r \in Ride /\ proc[w].ref \in Ref /\ psp_ref[r] = proc[w].ref
      /\ status[r] = "PROCESSING" /\ charge_ride[psp_ref[r]] = r
      /\ retry_count[r] \in Nat /\ retry_count[r] < maxRetries
  BY RequestFields, PaymentsAssumption
  DEF PaymentsInv, PaymentsTypeOK, RequestsKnow, Serving, ApplyGuard, CountWithinCap
<1>2. /\ proc' = [proc EXCEPT ![w] = Idle]
      /\ UNCHANGED <<psp_ref, charge_ride, verdict, posts>>
  BY DEF Go, pspVars
<1>3. PaymentsTypeOK'
  BY <1>1, <1>2, PaymentsAssumption DEF PaymentsInv, PaymentsTypeOK, PaymentRequest
<1>4. SettledByItsCharge' /\ ReceiptIffPaid'
  BY <1>1, <1>2, PaymentsAssumption
  DEF PaymentsInv, PaymentsTypeOK, SettledByItsCharge, ReceiptIffPaid
<1>5. RequestsKnow' /\ ScheduledOnce'
  BY <1>2 DEF PaymentsInv, PaymentsTypeOK, RequestsKnow, ScheduledOnce, Idle
<1>6. OldChargesFailed' /\ RowNamesItsCharge' /\ Undecided' /\ CountWithinCap'
  BY <1>1, <1>2, PaymentsAssumption
  DEF PaymentsInv, PaymentsTypeOK, OldChargesFailed, RowNamesItsCharge, Undecided, CountWithinCap
<1> QED BY <1>3, <1>4, <1>5, <1>6 DEF PaymentsInv

LEMMA StepInv == PaymentsInv /\ [Next]_vars => PaymentsInv'
<1> SUFFICES ASSUME PaymentsInv, [Next]_vars PROVE PaymentsInv'
  OBVIOUS
<1>1. ASSUME NEW w \in Worker, NEW r \in Ride, TriggerRead(w, r) PROVE PaymentsInv'
  BY <1>1, TriggerReadInv
<1>2. ASSUME NEW w \in Worker, NEW ref \in Ref, Post(w, ref) \/ Replay(w, ref)
      PROVE PaymentsInv'
  BY <1>2, WebhookReadInv DEF Post, Replay
<1>3. ASSUME NEW w \in Worker, NEW ref \in Ref, TriggerUpdate(w, ref) PROVE PaymentsInv'
  BY <1>3, TriggerUpdateInv
<1>4. ASSUME NEW w \in Worker, Schedule(w) PROVE PaymentsInv'
  BY <1>4, ScheduleInv
<1>5. ASSUME NEW w \in Worker, applySuccess(w) PROVE PaymentsInv'
  BY <1>5, SettleInv DEF applySuccess
<1>6. ASSUME NEW w \in Worker, applyFailure(w) PROVE PaymentsInv'
  BY <1>6, SettleInv DEF applyFailure
<1>7. ASSUME NEW w \in Worker, Abandon(w) PROVE PaymentsInv'
  BY <1>7, AbandonInv
<1>8. ASSUME NEW ref \in Ref, PostFails(ref) PROVE PaymentsInv'
  BY <1>8, PostFailsInv
<1>9. CASE UNCHANGED vars
  BY <1>9 DEF vars, PaymentsInv, PaymentsTypeOK, SettledByItsCharge, ReceiptIffPaid,
              RequestsKnow, ScheduledOnce, OldChargesFailed, RowNamesItsCharge, Undecided, CountWithinCap
<1> QED
  BY <1>1, <1>2, <1>3, <1>4, <1>5, <1>6, <1>7, <1>8, <1>9 DEF Next, Serve

\* Every reachable state of the payments satisfies the inductive invariant.
THEOREM PaymentsInvariance == Spec => []PaymentsInv
<1>1. Init => PaymentsInv
  BY InitInv
<1>2. PaymentsInv /\ [Next]_vars => PaymentsInv'
  BY StepInv
<1> QED BY <1>1, <1>2, PTL DEF Spec

\* Rows, charges and requests keep their types; retry_count stays within its cap.
THEOREM PaymentsTypes == Spec => []PaymentsTypeOK
<1>1. PaymentsInv => PaymentsTypeOK
  BY DEF PaymentsInv
<1> QED BY <1>1, PaymentsInvariance, PTL

\* No interleaving of triggers, webhooks and replays charges a ride twice.
THEOREM NoDoubleCharge == Spec => []ChargedOnce
<1>1. PaymentsInv => ChargedOnce
  <2> SUFFICES ASSUME PaymentsInv, NEW a \in Ref, NEW b \in Ref,
                      charge_ride[a] = charge_ride[b], charge_ride[a] # None,
                      verdict[a] = "success", verdict[b] = "success"
               PROVE  a = b
    BY DEF ChargedOnce
  <2> QED BY DEF PaymentsInv, OldChargesFailed
<1> QED BY <1>1, PaymentsInvariance, PTL

\* A late or replayed webhook never settles another attempt than its own.
THEOREM StaleWebhooksSettleNothing == Spec => []SettledByItsCharge
<1>1. PaymentsInv => SettledByItsCharge
  BY DEF PaymentsInv
<1> QED BY <1>1, PaymentsInvariance, PTL

\* Receipts exist exactly for the rides that were paid.
THEOREM ReceiptsFollowPayments == Spec => []ReceiptIffPaid
<1>1. PaymentsInv => ReceiptIffPaid
  BY DEF PaymentsInv
<1> QED BY <1>1, PaymentsInvariance, PTL

(***************************************************************************)
(* Attempts are counted: a ride's charges are finitely many, and their     *)
(* number goes by one with its status and retry_count.                     *)
(***************************************************************************)

AttemptsFinite == \A r \in Ride : IsFiniteSet(Attempts(r))

CountInv == RetriesCounted /\ AttemptsFinite

\* A step that mints no charge and leaves the row of every ride, or settles one.
LEMMA CountKept ==
  ASSUME CountInv, PaymentsTypeOK, UNCHANGED charge_ride,
         \A r \in Ride :
           \/ status'[r] = status[r] /\ retry_count'[r] = retry_count[r]
           \/ /\ status[r] = "PROCESSING" /\ status'[r] = "SUCCEEDED"
              /\ retry_count'[r] = retry_count[r]
           \/ /\ status[r] = "PROCESSING" /\ status'[r] = "FAILED"
              /\ retry_count'[r] = retry_count[r] + 1
  PROVE  CountInv'
<1> SUFFICES ASSUME NEW r \in Ride
             PROVE  /\ IsFiniteSet(Attempts(r))'
                    /\ retry_count'[r] = Cardinality(Attempts(r))'
                         - (IF status'[r] \in {"PROCESSING", "SUCCEEDED"} THEN 1 ELSE 0)
  BY DEF CountInv, RetriesCounted, AttemptsFinite
<1>1. Attempts(r)' = Attempts(r)
  BY DEF Attempts
<1>2. /\ IsFiniteSet(Attempts(r))
      /\ retry_count[r] = Cardinality(Attempts(r))
                            - (IF status[r] \in {"PROCESSING", "SUCCEEDED"} THEN 1 ELSE 0)
  BY DEF CountInv, RetriesCounted, AttemptsFinite
<1>3. Cardinality(Attempts(r)) \in Nat /\ Cardinality(Attempts(r))' = Cardinality(Attempts(r))
  BY <1>1, <1>2, FS_CardinalityType
<1> QED BY <1>1, <1>2, <1>3

\* A trigger mints one charge of a ride that was PENDING or FAILED.
LEMMA TriggerCounts ==
  ASSUME CountInv, PaymentsInv, NEW w \in Worker, NEW ref \in Ref, TriggerUpdate(w, ref)
  PROVE  CountInv'
<1>0. PICK r \in Ride : proc[w].ride = r
  BY RequestFields DEF PaymentsInv, PaymentsTypeOK, TriggerUpdate, Serving
<1>1. ref \notin Attempts(r) /\ status[r] \in {"PENDING", "FAILED"}
  BY <1>0, PaymentsAssumption DEF TriggerUpdate, canTrigger, Attempts
<1>2. /\ status' = [status EXCEPT ![r] = "PROCESSING"]
      /\ charge_ride' = [charge_ride EXCEPT ![ref] = r]
      /\ retry_count' = retry_count /\ charge_ride[ref] = None
  BY <1>0 DEF TriggerUpdate
<1>3. /\ Attempts(r)' = Attempts(r) \cup {ref}
      /\ \A q \in Ride \ {r} : Attempts(q)' = Attempts(q)
  <2>1. \A c \in Ref : charge_ride'[c] = IF c = ref THEN r ELSE charge_ride[c]
    BY <1>2 DEF PaymentsInv, PaymentsTypeOK
  <2>2. \A q \in Ride : q # None
    BY PaymentsAssumption
  <2> QED BY <1>1, <1>2, <2>1, <2>2 DEF Attempts
<1>4. ASSUME NEW q \in Ride
      PROVE  /\ IsFiniteSet(Attempts(q))'
             /\ retry_count'[q] = Cardinality(Attempts(q))'
                  - (IF status'[q] \in {"PROCESSING", "SUCCEEDED"} THEN 1 ELSE 0)
  <2>1. /\ IsFiniteSet(Attempts(q))
        /\ retry_count[q] = Cardinality(Attempts(q))
                              - (IF status[q] \in {"PROCESSING", "SUCCEEDED"} THEN 1 ELSE 0)
    BY DEF CountInv, RetriesCounted, AttemptsFinite
  <2>2. Cardinality(Attempts(q)) \in Nat
    BY <2>1, FS_CardinalityType
  <2>3. CASE q = r
    <3>1. /\ IsFiniteSet(Attempts(q) \cup {ref})
          /\ Cardinality(Attempts(q) \cup {ref}) = Cardinality(Attempts(q)) + 1
      BY <1>1, <2>1, <2>3, FS_AddElement
    <3>2. status'[q] = "PROCESSING" /\ Attempts(q)' = Attempts(q) \cup {ref}
      <4>1. status'[r] = "PROCESSING"
        BY <1>1, <1>2 DEF PaymentsInv, PaymentsTypeOK
      <4> QED BY <1>3, <2>3, <4>1
    <3>3. Cardinality(Attempts(q))' = Cardinality(Attempts(q)) + 1
      BY <3>1, <3>2
    <3>4. retry_count[q] = Cardinality(Attempts(q)) /\ retry_count'[q] = retry_count[q]
      BY <1>1, <1>2, <2>1, <2>2, <2>3
    <3> QED BY <2>2, <3>1, <3>2, <3>3, <3>4
  <2>4. CASE q # r
    <3>1. Attempts(q)' = Attempts(q) /\ status'[q] = status[q]
      BY <1>2, <1>3, <2>4 DEF PaymentsInv, PaymentsTypeOK
    <3> QED BY <1>2, <2>1, <3>1
  <2> QED BY <2>3, <2>4
<1> QED BY <1>4 DEF CountInv, RetriesCounted, AttemptsFinite

LEMMA CountStep == CountInv /\ PaymentsInv /\ [Next]_vars => CountInv'
<1> SUFFICES ASSUME CountInv, PaymentsInv, [Next]_vars PROVE CountInv'
  OBVIOUS
<1>1. ASSUME UNCHANGED rows, UNCHANGED charge_ride PROVE CountInv'
  BY <1>1, CountKept DEF rows, PaymentsInv
<1>2. ASSUME NEW w \in Worker, NEW ref \in Ref, TriggerUpdate(w, ref) PROVE CountInv'
  BY <1>2, TriggerCounts
<1>3. ASSUME NEW w \in Worker, applySuccess(w) PROVE CountInv'
  BY <1>3, CountKept DEF applySuccess, ApplyGuard, PaymentsInv, PaymentsTypeOK
<1>4. ASSUME NEW w \in Worker, applyFailure(w) PROVE CountInv'
  BY <1>4, CountKept DEF applyFailure, ApplyGuard, PaymentsInv, PaymentsTypeOK
<1> QED
  BY <1>1, <1>2, <1>3, <1>4
  DEF Next, Serve, vars, rows, TriggerRead, Post, Replay, WebhookRead, PostFails, Schedule, Abandon

\* retry_count counts each failed attempt of a ride once, whatever is replayed.
THEOREM RetriesAreCounted == Spec => []RetriesCounted
<1>1. Init => CountInv
  <2> SUFFICES ASSUME Init, NEW r \in Ride
               PROVE  /\ IsFiniteSet(Attempts(r)) /\ retry_count[r] = Cardinality(Attempts(r))
                      /\ status[r] = "PENDING" /\ Cardinality(Attempts(r)) = 0
    BY DEF CountInv, RetriesCounted, AttemptsFinite
  <2>1. Attempts(r) = {}
    BY PaymentsAssumption DEF Init, Attempts
  <2> QED BY <2>1, FS_EmptySet DEF Init
<1>2. CountInv /\ PaymentsInv /\ [Next]_vars => CountInv'
  BY CountStep
<1>3. CountInv => RetriesCounted
  BY DEF CountInv
<1> QED BY <1>1, <1>2, <1>3, PaymentsInvariance, PTL DEF Spec
=============================================================================
