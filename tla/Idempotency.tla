----------------------------- MODULE Idempotency -----------------------------
(***************************************************************************)
(* The Idempotency-Key middleware of internal/httpapi: requests that carry *)
(* one key, of one actor to one endpoint, and the row of idempotency_keys  *)
(* that keeps the answer to replay.                                        *)
(*                                                                         *)
(* Nothing is locked between the pre-check, the handler and the insert, so *)
(* several requests can be anywhere between them, and each may be cut      *)
(* short there.  The layer knows nothing of the three handlers it wraps    *)
(* (book a ride, end a trip, trigger a payment): one may have its effect   *)
(* or refuse without any, for whatever the rows of RideLedger and Payments *)
(* hold by then, and two bodies with one key are two rides.                *)
(***************************************************************************)
EXTENDS Naturals

CONSTANTS
  Worker,       \* requests in flight at the same time (a bound)
  Body,         \* what requestHash tells apart: method, path and body
  None,
  MaxRequests   \* bound on the requests that carry the key

\* Status classes that the layer and the handlers tell apart: 2xx, the other
\* answers below 500, and 5xx.
Answer == {"ok", "refused", "error"}

Row == [hash : Body, answer : Answer \ {"error"}]

ASSUME IdempotencyAssumption ==
  /\ None \notin Body \cup Row
  /\ MaxRequests \in Nat

VARIABLES
  row,        \* the row of the key, None when there is none: hash and answer
  done,       \* the bodies whose handler had its effect
  proc,       \* Worker -> the request it is serving
  requests,   \* requests so far
  replied     \* the answers given, see Reply (history)

idemVars == <<row, done, proc, requests, replied>>

Idle == [at |-> "idle"]

\* late: it arrived when an answer was stored already; acted: its own handler
\* had its effect.
Request ==
  {Idle}
    \cup [at : {"load", "handle"}, hash : Body, late : BOOLEAN]
    \cup [at : {"answer", "store", "reload"}, hash : Body, late : BOOLEAN,
          acted : BOOLEAN, answer : Answer]

\* An answer given: to which body, on what ground, and what its request did.
Reply == [hash : Body, answer : Answer \cup {"reused"}, late : BOOLEAN, acted : BOOLEAN,
          ground : {"stored", "replayed", "own"}]

IdempotencyTypeOK ==
  /\ row \in Row \cup {None}
  /\ done \subseteq Body
  /\ proc \in [Worker -> Request]
  /\ requests \in 0 .. MaxRequests
  /\ replied \subseteq Reply

At(w, place) == proc[w].at = place

Goto(w, request) == proc' = [proc EXCEPT ![w] = request]

\* The request is answered, and its worker free again.
Respond(w, acted, answer, ground) ==
  /\ replied' = replied \cup {[hash |-> proc[w].hash, answer |-> answer, late |-> proc[w].late,
                               acted |-> acted, ground |-> ground]}
  /\ Goto(w, Idle)

Arrive(w, hash) ==
  /\ proc[w] = Idle
  /\ requests < MaxRequests
  /\ requests' = requests + 1
  /\ Goto(w, [at |-> "load", hash |-> hash, late |-> row # None])
  /\ UNCHANGED <<row, done, replied>>

\* Mutant: a key reused with another body runs its handler.
Precheck_SameBodyOnly(w) ==
  /\ At(w, "load")
  /\ IF row # None /\ row.hash = proc[w].hash
     THEN Respond(w, FALSE, row.answer, "replayed")
     ELSE Goto(w, [proc[w] EXCEPT !.at = "handle"]) /\ UNCHANGED replied
  /\ UNCHANGED <<row, done, requests>>

\* loadIdemKey, the pre-check: refuse, replay, or go on to the handler.
Precheck(w) ==
  /\ At(w, "load")
  /\ \/ /\ row = None
        /\ Goto(w, [proc[w] EXCEPT !.at = "handle"])
        /\ UNCHANGED replied
     \/ /\ row # None
        /\ IF row.hash = proc[w].hash THEN Respond(w, FALSE, row.answer, "replayed")
                                      ELSE Respond(w, FALSE, "reused", "own")
  /\ UNCHANGED <<row, done, requests>>

\* The wrapped handler.  It only says ok after its commit; a failure or a lost
\* race may still follow the commit, and it refuses and fails without any too.
Handle(w) ==
  /\ At(w, "handle")
  /\ \E acted \in BOOLEAN, answer \in Answer :
       /\ answer = "ok" => acted
       /\ done' = IF acted THEN done \cup {proc[w].hash} ELSE done
       /\ Goto(w, [at |-> "answer", hash |-> proc[w].hash, late |-> proc[w].late,
                   acted |-> acted, answer |-> answer])
  /\ UNCHANGED <<row, requests, replied>>

(***************************************************************************)
(* The answer: a 5xx is given and not stored.                              *)
(***************************************************************************)

\* Mutant: a 5xx is stored as any other answer.
Answered_StoresErrors(w) ==
  /\ At(w, "answer")
  /\ Goto(w, [proc[w] EXCEPT !.at = "store"])
  /\ UNCHANGED <<row, done, requests, replied>>

Answered(w) ==
  /\ At(w, "answer")
  /\ IF proc[w].answer = "error"
     THEN Respond(w, proc[w].acted, "error", "own")
     ELSE Goto(w, [proc[w] EXCEPT !.at = "store"]) /\ UNCHANGED replied
  /\ UNCHANGED <<row, done, requests>>

\* Mutant: INSERT ... ON CONFLICT DO UPDATE.
insertIdemKey_Upsert(w) ==
  /\ At(w, "store")
  /\ row' = [hash |-> proc[w].hash, answer |-> proc[w].answer]
  /\ Respond(w, proc[w].acted, proc[w].answer, "stored")
  /\ UNCHANGED <<done, requests>>

\* INSERT ... ON CONFLICT DO NOTHING; the loser reads the winner's row.
insertIdemKey(w) ==
  /\ At(w, "store")
  /\ \/ /\ row = None
        /\ row' = [hash |-> proc[w].hash, answer |-> proc[w].answer]
        /\ Respond(w, proc[w].acted, proc[w].answer, "stored")
     \/ /\ row # None
        /\ Goto(w, [proc[w] EXCEPT !.at = "reload"])
        /\ UNCHANGED <<row, replied>>
  /\ UNCHANGED <<done, requests>>

\* Mutant: the loser replays the row of another body.
Reload_AnyBody(w) ==
  /\ At(w, "reload")
  /\ Respond(w, proc[w].acted, row.answer, "replayed")
  /\ UNCHANGED <<row, done, requests>>

\* The row of another body is not replayed: the handler's own answer is given.
Reload(w) ==
  /\ At(w, "reload")
  /\ IF row.hash = proc[w].hash THEN Respond(w, proc[w].acted, row.answer, "replayed")
                                ELSE Respond(w, proc[w].acted, proc[w].answer, "own")
  /\ UNCHANGED <<row, done, requests>>

\* The table cannot be read or written: a 500 before the handler, its own
\* answer after it.
TableFails(w) ==
  /\ \/ At(w, "load") /\ Respond(w, FALSE, "error", "own")
     \/ (At(w, "store") \/ At(w, "reload")) /\ Respond(w, proc[w].acted, proc[w].answer, "own")
  /\ UNCHANGED <<row, done, requests>>

\* The process stops, or the client has gone: no answer.
Crash(w) ==
  /\ proc[w] # Idle
  /\ Goto(w, Idle)
  /\ UNCHANGED <<row, done, requests, replied>>

IdempotencyInit ==
  /\ row = None
  /\ done = {}
  /\ proc = [w \in Worker |-> Idle]
  /\ requests = 0
  /\ replied = {}

IdempotencyNext ==
  \E w \in Worker :
    \/ \E hash \in Body : Arrive(w, hash)
    \/ Precheck(w) \/ Handle(w) \/ Answered(w)
    \/ insertIdemKey(w) \/ Reload(w)
    \/ TableFails(w) \/ Crash(w)

IdempotencySpec == IdempotencyInit /\ [][IdempotencyNext]_idemVars

(***************************************************************************)
(* Properties.                                                             *)
(***************************************************************************)

\* An answer the layer vouches for: it was stored, or replayed.
Vouched == {a \in replied : a.ground # "own"}

\* Two requests with one key and one body get the same answer, whether they
\* ran one after the other or both missed the pre-check, and it is the answer
\* of a request with that body.
SameAnswer ==
  /\ \A a \in Vouched, b \in Vouched : a.hash = b.hash /\ a.answer = b.answer
  /\ Vouched # {} => row # None

\* A request is only told ok if the handler did it for its very body, whether the
\* answer is its own, a racing request's or replayed; told that the key is taken
\* by another body, it has done nothing; and one that arrives when an answer is
\* stored has no effect any more, so a retry never books, ends or pays again.
\* (A refusal claims nothing: one that is stored first is replayed to a racing
\* request whose own handler had its effect.)
AnswersAreTrue ==
  \A a \in replied :
    /\ a.answer = "ok" => a.hash \in done
    /\ a.answer = "reused" => ~a.acted /\ row # None /\ row.hash # a.hash
    /\ a.late => ~a.acted

(***************************************************************************)
(* The inductive invariant.                                                *)
(***************************************************************************)

\* A row is written once, with a true answer, and every answer that was stored
\* or replayed is the row's.
RowIsTheAnswer ==
  IF row = None THEN Vouched = {}
  ELSE /\ row.answer = "ok" => row.hash \in done
       /\ \A a \in Vouched : a.hash = row.hash /\ a.answer = row.answer

\* What a request carries is true, and a late one never gets to the handler.
RequestsAreTrue ==
  \A w \in Worker :
    /\ At(w, "answer") \/ At(w, "store") \/ At(w, "reload")
         => ~proc[w].late /\ (proc[w].answer = "ok" => proc[w].hash \in done)
    /\ At(w, "load") => (proc[w].late => row # None)
    /\ At(w, "handle") => ~proc[w].late
    /\ At(w, "store") \/ At(w, "reload") => proc[w].answer # "error"
    /\ At(w, "reload") => row # None

IdempotencyInv ==
  /\ IdempotencyTypeOK
  /\ AnswersAreTrue
  /\ RowIsTheAnswer
  /\ RequestsAreTrue
=============================================================================
