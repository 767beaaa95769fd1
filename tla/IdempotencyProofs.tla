-------------------------- MODULE IdempotencyProofs --------------------------
(***************************************************************************)
(* What the answers of the idempotency layer are worth, for any number of  *)
(* requests that share a key, any bodies and any failures.                 *)
(***************************************************************************)
EXTENDS Idempotency, TLAPS

\* What a request carries at each place.
LEMMA RequestFields ==
  ASSUME NEW q \in Request
  PROVE  /\ q.at \in {"idle", "load", "handle", "answer", "store", "reload"}
         /\ q.at # "idle" => q.hash \in Body /\ q.late \in BOOLEAN
         /\ q.at \in {"answer", "store", "reload"} => q.answer \in Answer /\ q.acted \in BOOLEAN
BY DEF Request, Idle

\* Responding frees the worker and adds one answer.
LEMMA RespondType ==
  ASSUME IdempotencyTypeOK, NEW w \in Worker, proc[w].at # "idle",
         NEW acted \in BOOLEAN, NEW answer \in Answer \cup {"reused"},
         NEW ground \in {"stored", "replayed", "own"},
         Respond(w, acted, answer, ground)
  PROVE  /\ proc' \in [Worker -> Request]
         /\ \A v \in Worker : proc'[v].at # "idle" => proc'[v] = proc[v]
         /\ replied' \subseteq Reply
         /\ replied' = replied \cup
              {[hash |-> proc[w].hash, answer |-> answer, late |-> proc[w].late,
                acted |-> acted, ground |-> ground]}
<1>1. proc[w].hash \in Body /\ proc[w].late \in BOOLEAN
  BY RequestFields DEF IdempotencyTypeOK
<1>2. proc' = [proc EXCEPT ![w] = Idle] /\ Idle \in Request /\ Idle.at = "idle"
  BY DEF Respond, Goto, Request, Idle
<1>3. [hash |-> proc[w].hash, answer |-> answer, late |-> proc[w].late,
       acted |-> acted, ground |-> ground] \in Reply
  BY <1>1 DEF Reply
<1> QED BY <1>2, <1>3 DEF Respond, IdempotencyTypeOK

\* Moving a request with an answer on keeps what it carries.
LEMMA MovedOn ==
  ASSUME NEW q \in Request, q.at \in {"answer", "store", "reload"},
         NEW place \in {"answer", "store", "reload"}
  PROVE  [q EXCEPT !.at = place] = [at |-> place, hash |-> q.hash, late |-> q.late,
                                    acted |-> q.acted, answer |-> q.answer]
BY DEF Request, Idle

LEMMA InitInv == IdempotencyInit => IdempotencyInv
BY IdempotencyAssumption
   DEF IdempotencyInit, IdempotencyInv, IdempotencyTypeOK, AnswersAreTrue, RowIsTheAnswer,
       RequestsAreTrue, Vouched, At, Request, Idle

\* A true answer keeps the invariant: ok only for a body that was done; what is
\* vouched for is the row; a late request, and one that is told that the key is
\* reused, has done nothing.
LEMMA RespondInv ==
  ASSUME IdempotencyInv, NEW w \in Worker, proc[w].at # "idle",
         NEW acted \in BOOLEAN, NEW answer \in Answer \cup {"reused"},
         NEW ground \in {"stored", "replayed", "own"},
         Respond(w, acted, answer, ground), UNCHANGED <<row, done, requests>>,
         answer = "ok" => proc[w].hash \in done,
         answer = "reused" => ~acted /\ row # None /\ row.hash # proc[w].hash,
         proc[w].late => ~acted,
         ground # "own" => row # None /\ proc[w].hash = row.hash /\ answer = row.answer
  PROVE  IdempotencyInv'
<1>1. /\ IdempotencyTypeOK /\ AnswersAreTrue /\ RowIsTheAnswer /\ RequestsAreTrue
      /\ UNCHANGED <<row, done, requests>>
  BY DEF IdempotencyInv
<1>2. /\ proc' \in [Worker -> Request]
      /\ \A v \in Worker : proc'[v].at # "idle" => proc'[v] = proc[v]
      /\ replied' \subseteq Reply
      /\ replied' = replied \cup
           {[hash |-> proc[w].hash, answer |-> answer, late |-> proc[w].late,
             acted |-> acted, ground |-> ground]}
  BY <1>1, RespondType
<1>3. IdempotencyTypeOK'
  BY <1>1, <1>2 DEF IdempotencyTypeOK
<1>4. AnswersAreTrue'
  BY <1>1, <1>2 DEF AnswersAreTrue
<1>5. RowIsTheAnswer'
  BY <1>1, <1>2 DEF RowIsTheAnswer, Vouched
<1>6. RequestsAreTrue'
  BY <1>1, <1>2 DEF RequestsAreTrue, At
<1> QED BY <1>3, <1>4, <1>5, <1>6 DEF IdempotencyInv

\* Every step keeps the invariant, one step of the proof per action.
LEMMA StepInv == IdempotencyInv /\ [IdempotencyNext]_idemVars => IdempotencyInv'
<1> SUFFICES ASSUME IdempotencyInv, [IdempotencyNext]_idemVars PROVE IdempotencyInv'
  OBVIOUS
<1> USE IdempotencyAssumption
    DEF IdempotencyInv, IdempotencyTypeOK, Row, AnswersAreTrue, RowIsTheAnswer, RequestsAreTrue,
        Vouched, At, Answer
<1>1. ASSUME NEW w \in Worker, NEW hash \in Body, Arrive(w, hash) PROVE IdempotencyInv'
  <2> DEFINE q == [at |-> "load", hash |-> hash, late |-> row # None]
  <2>1. proc' = [proc EXCEPT ![w] = q]
    BY <1>1 DEF Arrive, Goto
  <2>2. q \in Request /\ q.at = "load" /\ (q.late => row # None)
    BY DEF Request
  <2> HIDE DEF q
  <2> QED BY <1>1, <2>1, <2>2 DEF Arrive
<1>2. ASSUME NEW w \in Worker, Precheck(w) PROVE IdempotencyInv'
  <2>1. proc[w].hash \in Body /\ proc[w].late \in BOOLEAN
    BY <1>2, RequestFields DEF Precheck
  <2>2. CASE row = None
    <3> DEFINE q == [at |-> "handle", hash |-> proc[w].hash, late |-> proc[w].late]
    <3>1. proc' = [proc EXCEPT ![w] = q]
      BY <1>2, <2>2 DEF Precheck, Goto, Request, Idle
    <3>2. q \in Request /\ q.at = "handle" /\ ~q.late
      BY <1>2, <2>1, <2>2 DEF Precheck, Request
    <3> HIDE DEF q
    <3> QED BY <1>2, <2>2, <3>1, <3>2 DEF Precheck
  <2>3. CASE row # None /\ row.hash = proc[w].hash
    <3>1. Respond(w, FALSE, row.answer, "replayed")
      BY <1>2, <2>3 DEF Precheck
    <3>2. row.answer \in Answer /\ (row.answer = "ok" => proc[w].hash \in done)
      BY <2>3
    <3> QED BY <1>2, <2>1, <2>3, <3>1, <3>2, RespondInv DEF Precheck
  <2>4. CASE row # None /\ row.hash # proc[w].hash
    <3>1. Respond(w, FALSE, "reused", "own")
      BY <1>2, <2>4 DEF Precheck
    <3> QED BY <1>2, <2>1, <2>4, <3>1, RespondInv DEF Precheck
  <2> QED BY <2>2, <2>3, <2>4
<1>3. ASSUME NEW w \in Worker, Handle(w) PROVE IdempotencyInv'
  <2>1. proc[w].hash \in Body /\ proc[w].late = FALSE
    BY <1>3, RequestFields DEF Handle
  <2>2. PICK acted \in BOOLEAN, answer \in Answer :
          /\ answer = "ok" => acted
          /\ done' = IF acted THEN done \cup {proc[w].hash} ELSE done
          /\ Goto(w, [at |-> "answer", hash |-> proc[w].hash, late |-> proc[w].late,
                      acted |-> acted, answer |-> answer])
    BY <1>3 DEF Handle
  <2> DEFINE q == [at |-> "answer", hash |-> proc[w].hash, late |-> proc[w].late,
                   acted |-> acted, answer |-> answer]
  <2>3. proc' = [proc EXCEPT ![w] = q]
    BY <2>2 DEF Goto
  <2>4. q \in Request /\ q.at = "answer" /\ ~q.late
    BY <2>1 DEF Request
  <2>5. done \subseteq done' /\ done' \subseteq Body /\ (q.answer = "ok" => q.hash \in done')
    BY <2>1, <2>2
  <2> HIDE DEF q
  <2>6. UNCHANGED <<row, requests, replied>>
    BY <1>3 DEF Handle
  <2>7. IdempotencyTypeOK'
    BY <2>3, <2>4, <2>5, <2>6
  <2>8. AnswersAreTrue' /\ RowIsTheAnswer'
    BY <2>5, <2>6
  <2>9. RequestsAreTrue'
    BY <2>3, <2>4, <2>5, <2>6
  <2> QED BY <2>7, <2>8, <2>9
<1>4. ASSUME NEW w \in Worker, Answered(w) PROVE IdempotencyInv'
  <2>1. /\ proc[w].hash \in Body /\ proc[w].late \in BOOLEAN
        /\ proc[w].answer \in Answer /\ proc[w].acted \in BOOLEAN
    BY <1>4, RequestFields DEF Answered
  <2>2. CASE proc[w].answer = "error"
    <3>1. Respond(w, proc[w].acted, "error", "own")
      BY <1>4, <2>2 DEF Answered
    <3> QED BY <1>4, <2>1, <3>1, RespondType DEF Answered
  <2>3. CASE proc[w].answer # "error"
    <3>1. proc' = [proc EXCEPT ![w] = [at |-> "store", hash |-> proc[w].hash,
                                       late |-> proc[w].late, acted |-> proc[w].acted,
                                       answer |-> proc[w].answer]]
      BY <1>4, <2>3, MovedOn DEF Answered, Goto
    <3>2. proc' \in [Worker -> Request]
      BY <2>1, <3>1 DEF Request
    <3> QED BY <1>4, <2>1, <2>3, <3>1, <3>2 DEF Answered
  <2> QED BY <2>2, <2>3
<1>5. ASSUME NEW w \in Worker, insertIdemKey(w) PROVE IdempotencyInv'
  <2>1. /\ proc[w].hash \in Body /\ proc[w].late \in BOOLEAN
        /\ proc[w].answer \in Answer \ {"error"} /\ proc[w].acted \in BOOLEAN
    BY <1>5, RequestFields DEF insertIdemKey
  <2>2. CASE row = None
    <3>1. Respond(w, proc[w].acted, proc[w].answer, "stored")
      BY <1>5, <2>2 DEF insertIdemKey
    <3>2. row' = [hash |-> proc[w].hash, answer |-> proc[w].answer] /\ row' # None
      BY <1>5, <2>1, <2>2 DEF insertIdemKey
    <3> QED BY <1>5, <2>1, <2>2, <3>1, <3>2, RespondType DEF insertIdemKey
  <2>3. CASE row # None
    <3>1. proc' = [proc EXCEPT ![w] = [at |-> "reload", hash |-> proc[w].hash,
                                       late |-> proc[w].late, acted |-> proc[w].acted,
                                       answer |-> proc[w].answer]]
      BY <1>5, <2>3, MovedOn DEF insertIdemKey, Goto
    <3>2. proc' \in [Worker -> Request]
      BY <2>1, <3>1 DEF Request
    <3> QED BY <1>5, <2>1, <2>3, <3>1, <3>2 DEF insertIdemKey
  <2> QED BY <2>2, <2>3
<1>6. ASSUME NEW w \in Worker, Reload(w) PROVE IdempotencyInv'
  <2>1. /\ proc[w].hash \in Body /\ proc[w].late = FALSE
        /\ proc[w].answer \in Answer /\ proc[w].acted \in BOOLEAN
    BY <1>6, RequestFields DEF Reload
  <2>2. CASE row.hash = proc[w].hash
    <3>1. Respond(w, proc[w].acted, row.answer, "replayed")
      BY <1>6, <2>2 DEF Reload
    <3> QED BY <1>6, <2>1, <2>2, <3>1, RespondType DEF Reload
  <2>3. CASE row.hash # proc[w].hash
    <3>1. Respond(w, proc[w].acted, proc[w].answer, "own")
      BY <1>6, <2>3 DEF Reload
    <3> QED BY <1>6, <2>1, <2>3, <3>1, RespondType DEF Reload
  <2> QED BY <2>2, <2>3
<1>7. ASSUME NEW w \in Worker, TableFails(w) PROVE IdempotencyInv'
  <2>1. proc[w].hash \in Body
    BY <1>7, RequestFields DEF TableFails
  <2>2. CASE At(w, "load")
    <3>1. Respond(w, FALSE, "error", "own")
      BY <1>7, <2>2 DEF TableFails
    <3> QED BY <1>7, <2>1, <2>2, <3>1, RespondInv DEF TableFails
  <2>3. CASE At(w, "store") \/ At(w, "reload")
    <3>1. /\ proc[w].answer \in Answer /\ proc[w].acted \in BOOLEAN /\ proc[w].late = FALSE
          /\ Respond(w, proc[w].acted, proc[w].answer, "own")
      BY <1>7, <2>3, RequestFields DEF TableFails
    <3> QED BY <1>7, <2>1, <2>3, <3>1, RespondType DEF TableFails
  <2> QED BY <1>7, <2>2, <2>3 DEF TableFails
<1>8. ASSUME NEW w \in Worker, Crash(w) PROVE IdempotencyInv'
  <2>1. proc' \in [Worker -> Request]
    BY <1>8 DEF Crash, Goto, Request
  <2> QED BY <1>8, <2>1 DEF Crash, Goto, Idle
<1>9. CASE UNCHANGED idemVars
  BY <1>9 DEF idemVars
<1> QED BY <1>1, <1>2, <1>3, <1>4, <1>5, <1>6, <1>7, <1>8, <1>9 DEF IdempotencyNext

\* The inductive invariant holds in every reachable state.
THEOREM IdempotencyInvariance == IdempotencySpec => []IdempotencyInv
BY InitInv, StepInv, PTL DEF IdempotencySpec

\* The row and the requests keep their types; an error is never stored.
THEOREM IdempotencyTypes == IdempotencySpec => []IdempotencyTypeOK
<1>1. IdempotencyInv => IdempotencyTypeOK
  BY DEF IdempotencyInv
<1> QED BY <1>1, IdempotencyInvariance, PTL

\* Whatever requests with one key race, crash or retry, those the layer vouches
\* for all get one answer: loadIdemKey and the INSERT ON CONFLICT DO NOTHING.
THEOREM RetriesGetOneAnswer == IdempotencySpec => []SameAnswer
<1>1. IdempotencyInv => SameAnswer
  BY DEF IdempotencyInv, SameAnswer, RowIsTheAnswer
<1> QED BY <1>1, IdempotencyInvariance, PTL

\* No ok, own, raced or replayed, claims an effect that is not there or that of
\* another body; who is told that the key is taken has done nothing; and once
\* an answer is stored no request that comes later has any effect.
THEOREM NoAnswerLies == IdempotencySpec => []AnswersAreTrue
<1>1. IdempotencyInv => AnswersAreTrue
  BY DEF IdempotencyInv
<1> QED BY <1>1, IdempotencyInvariance, PTL
=============================================================================
