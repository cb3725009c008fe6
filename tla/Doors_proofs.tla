---------------------------- MODULE Doors_proofs ----------------------------
(***************************************************************************)
(* What the installation says to others and hears from them, for any       *)
(* number of requests, bodies, keys, POSTs, calls, heartbeats and polls:   *)
(* the writes and answers of an idempotency key, the destinations of the   *)
(* pairing, the logs of the heartbeat, the entry of knowledge that is      *)
(* stored once, and the types of the four.                                 *)
(*                                                                         *)
(* What keeps a key to one write is that the reservation has one holder,   *)
(* and that nothing was written while somebody may still write (Tenure).   *)
(***************************************************************************)
EXTENDS MCDoors, TLAPS

-----------------------------------------------------------------------------
(* The keys of the machine door *)

\* A request works under a reservation at these steps.
Working(r) == At(r, "running") \/ At(r, "saving") \/ At(r, "deleting")

NothingWritten == \A p \in Payload : written[p] = 0

\* The only body with a write is p, and it has one at most.
OnlyWrite(p) == written[p] <= 1 /\ \A q \in Payload \ {p} : written[q] = 0

\* Undisturbed, a reservation in flight has one holder, which works under it with the
\* body the record was made for, and nobody takes it over.
Holding ==
  /\ ~old
  /\ \A r \in Request :
       /\ ~At(r, "taking")
       /\ req[r].holds <=> Working(r)
       /\ req[r].holds => record.state = "in flight" /\ record.hash = req[r].payload
  /\ \A r, q \in Request : req[r].holds /\ req[q].holds => r = q
  /\ record.state = "in flight" => \E r \in Request : req[r].holds

\* Nothing is written before the run, nor when it threw; its one write is for the body it
\* ran with, and so is its answer.
Ledger ==
  /\ \A r \in Request :
       /\ At(r, "running") \/ At(r, "deleting") => NothingWritten
       /\ At(r, "saving") => OnlyWrite(req[r].payload) /\ req[r].response.of = req[r].payload
  /\ record.state = "none" => NothingWritten
  /\ record.state = "done" =>
       record.hash \in Payload /\ OnlyWrite(record.hash) /\ record.response.of = record.hash

\* Whoever was given a run's answer was given the stored one.
Given ==
  \A r \in Request : answer[r].kind = "response" =>
    record.state = "done" /\ answer[r].response = record.response /\ answer[r].to = record.hash

Tenure == Holding /\ Ledger /\ Given

\* A request in flight has the body it was sent with.
Bodies == \A r \in Request : ~At(r, "idle") => req[r].payload \in Payload

\* The inductive invariant.
IInv ==
  /\ TypeOK
  /\ Bodies
  /\ CreatedOnce
  /\ mishaps = 0 => Tenure

-----------------------------------------------------------------------------
(* What the steps do to the requests *)

\* After the step, request r is as told and the others are as before.
Becomes(r, step, p, holds, x) ==
  /\ req' \in [Request -> RequestState]
  /\ \A q \in Request \ {r} : req'[q] = req[q]
  /\ req'[r].step = step
  /\ req'[r].payload = p
  /\ req'[r].holds = holds
  /\ req'[r].response = x

Goes(r, step) == Becomes(r, step, req[r].payload, req[r].holds, req[r].response)
Leaves(r) == Becomes(r, "idle", 0, FALSE, Nothing)

\* What a run answers, and what answers nothing, are responses.
LEMMA Responses ==
  /\ Nothing \in Response
  /\ \A p \in Payload, n \in Nat :
       [of |-> p, nth |-> n] \in Response /\ [of |-> p, nth |-> n].of = p
BY DEF Nothing, Response

\* A request that finishes is idle.
LEMMA FinishEffect ==
  ASSUME NEW r \in Request, NEW a, req \in [Request -> RequestState], Finish(r, a)
  PROVE  Leaves(r)
BY Responses DEF Finish, Idle, Leaves, Becomes, RequestState

\* The first read: the request will reserve, take over, or has its answer.
LEMMA LookupEffect ==
  ASSUME NEW r \in Request, NEW p \in Payload, req \in [Request -> RequestState], Lookup(r, p)
  PROVE  \/ record.state = "none" /\ Becomes(r, "reserving", p, FALSE, Nothing)
         \/ Abandoned /\ Becomes(r, "taking", p, TRUE, Nothing)
         \/ record.state # "none" /\ Finish(r, Interpreted(p)) /\ Leaves(r)
<1>1. CASE record.state = "none" /\ req' = [req EXCEPT ![r] = InFlight("reserving", p, FALSE)]
  BY <1>1, Responses DEF InFlight, Becomes, RequestState
<1>2. CASE Abandoned /\ req' = [req EXCEPT ![r] = InFlight("taking", p, TRUE)]
  BY <1>2, Responses DEF InFlight, Becomes, RequestState
<1>3. CASE record.state # "none" /\ Finish(r, Interpreted(p))
  BY <1>3, FinishEffect
<1>. QED
  BY <1>1, <1>2, <1>3 DEF Lookup

\* The reservation is made, or somebody else's is there.
LEMMA ReserveEffect ==
  ASSUME NEW r \in Request, req \in [Request -> RequestState], Reserve(r)
  PROVE  \/ Free /\ Becomes(r, "running", req[r].payload, TRUE, req[r].response)
         \/ ~Free /\ Goes(r, "rereading")
<1>1. CASE Free /\ req' = [req EXCEPT ![r].step = "running", ![r].holds = TRUE]
  BY <1>1 DEF Becomes, RequestState
<1>2. CASE ~Free /\ req' = [req EXCEPT ![r].step = "rereading"]
  BY <1>2 DEF Goes, Becomes, RequestState
<1>. QED
  BY <1>1, <1>2 DEF Reserve

\* Who takes over runs, whatever it wrote.
LEMMA TakeOverEffect ==
  ASSUME NEW r \in Request, req \in [Request -> RequestState], TakeOver(r) PROVE Goes(r, "running")
BY DEF TakeOver, Goes, Becomes, RequestState

\* A run leads to its answer or to the catch.
LEMMA RunEffect ==
  ASSUME NEW r \in Request, req \in [Request -> RequestState], written \in [Payload -> Nat],
         req[r].payload \in Payload, Run(r)
  PROVE  \/ /\ Writes(req[r].payload)
            /\ written' = [written EXCEPT ![req[r].payload] = @ + 1]
            /\ \E x \in Response : x.of = req[r].payload
                                   /\ Becomes(r, "saving", req[r].payload, req[r].holds, x)
         \/ /\ UNCHANGED written
            /\ \E x \in Response : x.of = req[r].payload
                                   /\ Becomes(r, "saving", req[r].payload, req[r].holds, x)
         \/ UNCHANGED written /\ Goes(r, "deleting")
<1>1. ASSUME NEW n \in Nat,
             req' = [req EXCEPT ![r].step = "saving", ![r].response = [of |-> req[r].payload, nth |-> n]]
      PROVE  \E x \in Response : x.of = req[r].payload
                                 /\ Becomes(r, "saving", req[r].payload, req[r].holds, x)
  <2>1. PICK x \in Response : x = [of |-> req[r].payload, nth |-> n] /\ x.of = req[r].payload
    BY Responses
  <2>2. req' = [req EXCEPT ![r].step = "saving", ![r].response = x]
    BY <1>1, <2>1
  <2>3. Becomes(r, "saving", req[r].payload, req[r].holds, x)
    BY <2>2 DEF Becomes, RequestState
  <2>. QED
    BY <2>1, <2>3
<1>2. CASE req' = [req EXCEPT ![r].step = "deleting"] /\ UNCHANGED written
  BY <1>2 DEF Goes, Becomes, RequestState
<1>3. written[req[r].payload] \in Nat /\ written[req[r].payload] + 1 \in Nat /\ 0 \in Nat
  OBVIOUS
<1>. QED
  BY <1>1, <1>2, <1>3 DEF Run

\* A run that throws after its commit leads to the catch.
LEMMA RunThrowsLateEffect ==
  ASSUME NEW r \in Request, req \in [Request -> RequestState], RunThrowsLate(r) PROVE Goes(r, "deleting")
BY DEF RunThrowsLate, Goes, Becomes, RequestState

\* The answer is stored, or the catch has the word.
LEMMA SaveEffect ==
  ASSUME NEW r \in Request, req \in [Request -> RequestState], Save(r)
  PROVE  \/ req[r].holds /\ record' = Answered(req[r].response) /\ old' = FALSE /\ Leaves(r)
         \/ /\ Goes(r, "deleting") /\ UNCHANGED <<record, old>>
            /\ ~req[r].holds \/ mishaps' = mishaps + 1
<1>1. CASE /\ req' = [req EXCEPT ![r].step = "deleting"] /\ UNCHANGED <<record, old>>
           /\ ~req[r].holds \/ mishaps' = mishaps + 1
  BY <1>1 DEF Goes, Becomes, RequestState
<1>. QED
  BY <1>1, FinishEffect DEF Save

\* The catch deletes the reservation, whoever holds it, ...
Released(r) ==
  /\ req' \in [Request -> RequestState]
  /\ req'[r] = Idle
  /\ \A q \in Request \ {r} :
       /\ req'[q].step = req[q].step
       /\ req'[q].payload = req[q].payload
       /\ ~req'[q].holds
       /\ req'[q].response = req[q].response

\* ... or has nothing to delete, or fails.
LEMMA DeleteEffect ==
  ASSUME NEW r \in Request, req \in [Request -> RequestState], Delete(r)
  PROVE  \/ req[r].holds /\ record' = NoRecord /\ old' = FALSE /\ Released(r)
         \/ /\ UNCHANGED <<record, old>> /\ Leaves(r)
            /\ ~req[r].holds \/ mishaps' = mishaps + 1
<1>1. CASE /\ req[r].holds /\ record' = NoRecord /\ old' = FALSE
           /\ req' = [q \in Request |-> IF q = r THEN Idle ELSE [req[q] EXCEPT !.holds = FALSE]]
  <2>1. Idle \in RequestState
    BY Responses DEF Idle, RequestState
  <2>2. \A q \in Request : [req[q] EXCEPT !.holds = FALSE] \in RequestState
    BY DEF RequestState
  <2>3. \A q \in Request : req'[q] = IF q = r THEN Idle ELSE [req[q] EXCEPT !.holds = FALSE]
    BY <1>1
  <2>4. req' \in [Request -> RequestState]
    BY <1>1, <2>1, <2>2
  <2>5. req'[r] = Idle
    BY <2>3
  <2>6. ASSUME NEW q \in Request \ {r}
        PROVE  /\ req'[q].step = req[q].step
               /\ req'[q].payload = req[q].payload
               /\ ~req'[q].holds
               /\ req'[q].response = req[q].response
    BY <2>3 DEF RequestState
  <2>. QED
    BY <1>1, <2>4, <2>5, <2>6 DEF Released
<1>2. CASE /\ req' = [req EXCEPT ![r] = Idle] /\ UNCHANGED <<record, old>>
           /\ ~req[r].holds \/ mishaps' = mishaps + 1
  BY <1>2, Responses DEF Leaves, Becomes, Idle, RequestState
<1>. QED
  BY <1>1, <1>2 DEF Delete

\* Undisturbed, it deletes the reservation that its own request holds, ...
LEMMA DeleteUndisturbed ==
  ASSUME NEW r \in Request, req \in [Request -> RequestState], Delete(r), req[r].holds,
         mishaps = 0, mishaps' = 0
  PROVE  record' = NoRecord /\ old' = FALSE /\ Released(r)
<1>1. mishaps' # mishaps + 1
  OBVIOUS
<1>. QED
  BY <1>1, DeleteEffect

\* ... and the answer is stored in it.
LEMMA SaveUndisturbed ==
  ASSUME NEW r \in Request, req \in [Request -> RequestState], Save(r), req[r].holds,
         mishaps = 0, mishaps' = 0
  PROVE  record' = Answered(req[r].response) /\ old' = FALSE /\ Leaves(r)
<1>1. mishaps' # mishaps + 1
  OBVIOUS
<1>. QED
  BY <1>1, SaveEffect

\* A crash leaves every request idle.
LEMMA CrashEffect ==
  ASSUME Crash
  PROVE  req' \in [Request -> RequestState] /\ \A r \in Request : At(r, "idle")' /\ ~req'[r].holds
BY Responses DEF Crash, Idle, RequestState, At

-----------------------------------------------------------------------------
(* Types and bodies *)

\* A request keeps the body it came with.
LEMMA BodiesStep == TypeOK /\ Bodies /\ [Next]_vars => Bodies' /\ req' \in [Request -> RequestState]
<1> DEFINE Kept == Bodies' /\ req' \in [Request -> RequestState]
<1> SUFFICES ASSUME req \in [Request -> RequestState], written \in [Payload -> Nat], Bodies, [Next]_vars
             PROVE  Kept
  BY DEF TypeOK
<1> USE DEF Bodies, At, Goes, Leaves, Becomes
<1>1. ASSUME NEW r \in Request, NEW p \in Payload, Lookup(r, p) PROVE Kept
  BY <1>1, LookupEffect
<1>2. ASSUME NEW r \in Request, Reserve(r) PROVE Kept
  BY <1>2, ReserveEffect DEF Reserve
<1>3. ASSUME NEW r \in Request, Reread(r) PROVE Kept
  BY <1>3, FinishEffect DEF Reread
<1>4. ASSUME NEW r \in Request, TakeOver(r) PROVE Kept
  BY <1>4, TakeOverEffect DEF TakeOver
<1>5. ASSUME NEW r \in Request, Run(r) PROVE Kept
  BY <1>5, RunEffect DEF Run
<1>6. ASSUME NEW r \in Request, RunThrowsLate(r) PROVE Kept
  BY <1>6, RunThrowsLateEffect DEF RunThrowsLate
<1>7. ASSUME NEW r \in Request, Save(r) PROVE Kept
  BY <1>7, SaveEffect DEF Save
<1>8. ASSUME NEW r \in Request, Delete(r) PROVE Kept
  <2>1. CASE Leaves(r)
    BY <2>1
  <2>2. CASE Released(r)
    BY <2>2 DEF Released, Idle
  <2>. QED
    BY <1>8, <2>1, <2>2, DeleteEffect
<1>9. ASSUME Age PROVE Kept
  BY <1>9 DEF Age
<1>10. ASSUME Crash PROVE Kept
  BY <1>10, CrashEffect
<1>11. ASSUME UNCHANGED vars PROVE Kept
  BY <1>11 DEF vars
<1>. QED
  BY <1>1, <1>2, <1>3, <1>4, <1>5, <1>6, <1>7, <1>8, <1>9, <1>10, <1>11 DEF Next, Step

\* What the record says of a body is an answer, and so is what the code says by itself.
LEMMA AnswerTypes ==
  /\ \A kind \in {"none", "in_flight", "different_payload", "500"}, p \in Payload \cup {0} :
       Only(kind, p) \in Answer
  /\ \A p \in Payload, x \in Response : [kind |-> "response", to |-> p, response |-> x] \in Answer
  /\ record \in Record => \A p \in Payload : Interpreted(p) \in Answer
<1>1. \A kind \in {"none", "in_flight", "different_payload", "500"}, p \in Payload \cup {0} :
        Only(kind, p) \in Answer
  BY Responses DEF Only, Answer
<1>2. \A p \in Payload, x \in Response : [kind |-> "response", to |-> p, response |-> x] \in Answer
  BY DEF Answer
<1>3. ASSUME record \in Record, NEW p \in Payload PROVE Interpreted(p) \in Answer
  BY <1>1, <1>2, <1>3 DEF Interpreted, Replayed, Record
<1>. QED
  BY <1>1, <1>2, <1>3

\* Every step keeps the types of the answers.
LEMMA AnswersStep == TypeOK /\ Bodies /\ [Next]_vars => answer' \in [Request -> Answer]
<1> DEFINE Kept == answer' \in [Request -> Answer]
<1> SUFFICES ASSUME answer \in [Request -> Answer], req \in [Request -> RequestState], record \in Record,
                    Bodies, [Next]_vars
             PROVE  Kept
  BY DEF TypeOK
<1> USE AnswerTypes DEF Bodies, At, Finish
<1>1. ASSUME NEW r \in Request, NEW p \in Payload, Lookup(r, p) PROVE Kept
  BY <1>1 DEF Lookup
<1>2. ASSUME NEW r \in Request, Reserve(r) PROVE Kept
  BY <1>2 DEF Reserve
<1>3. ASSUME NEW r \in Request, Reread(r) PROVE Kept
  BY <1>3 DEF Reread
<1>4. ASSUME NEW r \in Request, TakeOver(r) PROVE Kept
  BY <1>4 DEF TakeOver
<1>5. ASSUME NEW r \in Request, Run(r) PROVE Kept
  BY <1>5 DEF Run
<1>6. ASSUME NEW r \in Request, RunThrowsLate(r) PROVE Kept
  BY <1>6 DEF RunThrowsLate
<1>7. ASSUME NEW r \in Request, Save(r) PROVE Kept
  BY <1>7 DEF Save, RequestState
<1>8. ASSUME NEW r \in Request, Delete(r) PROVE Kept
  BY <1>8 DEF Delete
<1>9. ASSUME Age PROVE Kept
  BY <1>9 DEF Age
<1>10. ASSUME Crash PROVE Kept
  BY <1>10 DEF Crash
<1>11. ASSUME UNCHANGED vars PROVE Kept
  BY <1>11 DEF vars
<1>. QED
  BY <1>1, <1>2, <1>3, <1>4, <1>5, <1>6, <1>7, <1>8, <1>9, <1>10, <1>11 DEF Next, Step

\* Every step keeps the types of the counters.
LEMMA CountersStep ==
  TypeOK /\ Bodies /\ [Next]_vars =>
    scope' \in Scope /\ written' \in [Payload -> Nat] /\ mishaps' \in 0..MaxMishaps
<1> DEFINE Kept == scope' \in Scope /\ written' \in [Payload -> Nat] /\ mishaps' \in 0..MaxMishaps
<1> SUFFICES ASSUME scope \in Scope, written \in [Payload -> Nat], mishaps \in 0..MaxMishaps,
                    Bodies, [Next]_vars
             PROVE  Kept
  BY DEF TypeOK
<1> USE IdempotencyBounds DEF Bodies, At
<1>1. ASSUME NEW r \in Request, NEW p \in Payload, Lookup(r, p) PROVE Kept
  BY <1>1 DEF Lookup
<1>2. ASSUME NEW r \in Request, Reserve(r) PROVE Kept
  BY <1>2 DEF Reserve
<1>3. ASSUME NEW r \in Request, Reread(r) PROVE Kept
  BY <1>3 DEF Reread
<1>4. ASSUME NEW r \in Request, TakeOver(r) PROVE Kept
  BY <1>4 DEF TakeOver
<1>5. ASSUME NEW r \in Request, Run(r) PROVE Kept
  BY <1>5 DEF Run
<1>6. ASSUME NEW r \in Request, RunThrowsLate(r) PROVE Kept
  BY <1>6 DEF RunThrowsLate
<1>7. ASSUME NEW r \in Request, Save(r) PROVE Kept
  BY <1>7 DEF Save
<1>8. ASSUME NEW r \in Request, Delete(r) PROVE Kept
  BY <1>8 DEF Delete
<1>9. ASSUME Age PROVE Kept
  BY <1>9 DEF Age
<1>10. ASSUME Crash PROVE Kept
  BY <1>10 DEF Crash
<1>11. ASSUME UNCHANGED vars PROVE Kept
  BY <1>11 DEF vars
<1>. QED
  BY <1>1, <1>2, <1>3, <1>4, <1>5, <1>6, <1>7, <1>8, <1>9, <1>10, <1>11 DEF Next, Step

\* The record of a reservation, and what it becomes when it is answered.
LEMMA Records ==
  /\ NoRecord \in Record /\ NoRecord.state = "none" /\ NoRecord.response = Nothing
  /\ \A p \in Payload :
       LET x == [state |-> "in flight", hash |-> p, response |-> Nothing] IN
       x \in Record /\ x.state = "in flight" /\ x.hash = p /\ x.response = Nothing
  /\ \A x \in Response : record \in Record =>
       /\ Answered(x) \in Record
       /\ Answered(x).state = "done" /\ Answered(x).response = x /\ Answered(x).hash = record.hash
  /\ \A p \in Payload : record \in Record =>
       /\ [record EXCEPT !.hash = p] \in Record
       /\ [record EXCEPT !.hash = p].state = record.state
       /\ [record EXCEPT !.hash = p].response = record.response
       /\ [record EXCEPT !.hash = p].hash = p
BY Responses DEF Record, NoRecord, Answered

\* Every step keeps the type of the record: it has an answer only when it is done, and it
\* is there as long as a request holds it.
LEMMA RecordStep ==
  TypeOK /\ Bodies /\ [Next]_vars =>
    /\ record' \in Record /\ old' \in BOOLEAN
    /\ record'.state # "done" => record'.response = Nothing
    /\ old' => record'.state = "in flight"
    /\ \A r \in Request : req'[r].holds => record'.state # "none"
<1> DEFINE Kept == /\ record' \in Record /\ old' \in BOOLEAN
                   /\ record'.state # "done" => record'.response = Nothing
                   /\ old' => record'.state = "in flight"
                   /\ \A r \in Request : req'[r].holds => record'.state # "none"
<1> SUFFICES ASSUME TypeOK, Bodies, [Next]_vars PROVE Kept
  OBVIOUS
<1>0. /\ record \in Record /\ old \in BOOLEAN /\ req \in [Request -> RequestState]
      /\ written \in [Payload -> Nat]
      /\ record.state # "done" => record.response = Nothing
      /\ old => record.state = "in flight"
      /\ \A r \in Request : req[r].holds => record.state # "none"
  BY DEF TypeOK
<1>k. ASSUME UNCHANGED <<record, old>>, NEW r \in Request,
             \A q \in Request \ {r} : req'[q] = req[q],
             req'[r].holds => record.state # "none"
      PROVE  Kept
  BY <1>0, <1>k
<1> USE DEF Bodies, At, Goes, Leaves, Becomes
<1>1. ASSUME NEW r \in Request, NEW p \in Payload, Lookup(r, p) PROVE Kept
  BY <1>0, <1>1, <1>k, LookupEffect DEF Lookup, Abandoned
<1>2. ASSUME NEW r \in Request, Reserve(r) PROVE Kept
  <2>1. req[r].payload \in Payload
    BY <1>2 DEF Reserve
  <2>2. CASE Free
    <3>1. /\ record' = [state |-> "in flight", hash |-> req[r].payload, response |-> Nothing]
          /\ old' = FALSE
      BY <1>2, <2>2 DEF Reserve
    <3>2. record' \in Record /\ record'.state = "in flight" /\ record'.response = Nothing
      BY <2>1, <3>1, Records
    <3>. QED
      BY <3>1, <3>2
  <2>3. CASE ~Free
    BY <1>0, <1>2, <1>k, <2>3, ReserveEffect DEF Reserve
  <2>. QED
    BY <2>2, <2>3
<1>3. ASSUME NEW r \in Request, Reread(r) PROVE Kept
  BY <1>0, <1>3, <1>k, FinishEffect DEF Reread
<1>4. ASSUME NEW r \in Request, TakeOver(r) PROVE Kept
  <2>1. req[r].payload \in Payload
    BY <1>4 DEF TakeOver
  <2>2. CASE record' = [record EXCEPT !.hash = req[r].payload] /\ old' = FALSE
    <3>1. /\ record' \in Record /\ record'.state = record.state
          /\ record'.response = record.response
      BY <1>0, <2>1, <2>2, Records
    <3>2. \A q \in Request : req'[q].holds = req[q].holds
      BY <1>0, <1>4, TakeOverEffect
    <3>. QED
      BY <1>0, <2>2, <3>1, <3>2
  <2>3. CASE UNCHANGED <<record, old>>
    BY <1>0, <1>4, <1>k, <2>3, TakeOverEffect
  <2>. QED
    BY <1>4, <2>2, <2>3 DEF TakeOver
<1>5. ASSUME NEW r \in Request, Run(r) PROVE Kept
  <2>1. req[r].payload \in Payload
    BY <1>5 DEF Run
  <2>2. UNCHANGED <<record, old>>
    BY <1>5 DEF Run
  <2>. QED
    BY <1>0, <1>5, <1>k, <2>1, <2>2, RunEffect
<1>6. ASSUME NEW r \in Request, RunThrowsLate(r) PROVE Kept
  <2>1. UNCHANGED <<record, old>>
    BY <1>6 DEF RunThrowsLate
  <2>. QED
    BY <1>0, <1>6, <1>k, <2>1, RunThrowsLateEffect
<1>7. ASSUME NEW r \in Request, Save(r) PROVE Kept
  <2>1. req[r].response \in Response
    BY <1>0 DEF RequestState
  <2>2. CASE record' = Answered(req[r].response) /\ old' = FALSE /\ Leaves(r)
    BY <1>0, <2>1, <2>2, Records
  <2>3. CASE Goes(r, "deleting") /\ UNCHANGED <<record, old>>
    BY <1>0, <1>k, <2>3
  <2>. QED
    BY <1>0, <1>7, <2>2, <2>3, SaveEffect
<1>8. ASSUME NEW r \in Request, Delete(r) PROVE Kept
  <2>1. CASE record' = NoRecord /\ old' = FALSE /\ Released(r)
    <3>1. record' \in Record /\ record'.response = Nothing
      BY <2>1, Records
    <3>2. \A q \in Request : ~req'[q].holds
      BY <2>1 DEF Released, Idle
    <3>. QED
      BY <2>1, <3>1, <3>2
  <2>2. CASE UNCHANGED <<record, old>> /\ Leaves(r)
    BY <1>0, <1>k, <2>2
  <2>. QED
    BY <1>0, <1>8, <2>1, <2>2, DeleteEffect
<1>9. ASSUME Age PROVE Kept
  BY <1>0, <1>9 DEF Age
<1>10. ASSUME Crash PROVE Kept
  BY <1>0, <1>10, CrashEffect DEF Crash
<1>11. ASSUME UNCHANGED vars PROVE Kept
  BY <1>0, <1>11 DEF vars
<1>. QED
  BY <1>1, <1>2, <1>3, <1>4, <1>5, <1>6, <1>7, <1>8, <1>9, <1>10, <1>11 DEF Next, Step

\* Every step keeps the types.
LEMMA TypeStep == TypeOK /\ Bodies /\ [Next]_vars => TypeOK'
BY BodiesStep, AnswersStep, CountersStep, RecordStep DEF TypeOK

\* A demand that exists is not created again: the run of POST /demands writes only
\* where there is none.
LEMMA CreatedStep == TypeOK /\ Bodies /\ CreatedOnce /\ [Next]_vars => CreatedOnce'
<1> SUFFICES ASSUME written \in [Payload -> Nat], Bodies, CreatedOnce, [Next]_vars PROVE CreatedOnce'
  BY DEF TypeOK
<1> USE DEF Bodies, CreatedOnce, At
<1>1. ASSUME NEW r \in Request, NEW p \in Payload, Lookup(r, p) PROVE CreatedOnce'
  BY <1>1 DEF Lookup
<1>2. ASSUME NEW r \in Request, Reserve(r) PROVE CreatedOnce'
  BY <1>2 DEF Reserve
<1>3. ASSUME NEW r \in Request, Reread(r) PROVE CreatedOnce'
  BY <1>3 DEF Reread
<1>4. ASSUME NEW r \in Request, TakeOver(r) PROVE CreatedOnce'
  BY <1>4 DEF TakeOver
<1>5. ASSUME NEW r \in Request, Run(r) PROVE CreatedOnce'
  BY <1>5 DEF Run, Writes
<1>6. ASSUME NEW r \in Request, RunThrowsLate(r) PROVE CreatedOnce'
  BY <1>6 DEF RunThrowsLate, Writes
<1>7. ASSUME NEW r \in Request, Save(r) PROVE CreatedOnce'
  BY <1>7 DEF Save
<1>8. ASSUME NEW r \in Request, Delete(r) PROVE CreatedOnce'
  BY <1>8 DEF Delete
<1>9. ASSUME Age PROVE CreatedOnce'
  BY <1>9 DEF Age
<1>10. ASSUME Crash PROVE CreatedOnce'
  BY <1>10 DEF Crash
<1>11. ASSUME UNCHANGED vars PROVE CreatedOnce'
  BY <1>11 DEF vars
<1>. QED
  BY <1>1, <1>2, <1>3, <1>4, <1>5, <1>6, <1>7, <1>8, <1>9, <1>10, <1>11 DEF Next, Step

-----------------------------------------------------------------------------
(* What holds of a key while nothing is disturbed *)

\* The reservation keeps its one holder.
LEMMA HoldingStep ==
  TypeOK /\ Bodies /\ Tenure /\ [Next]_vars /\ mishaps = 0 /\ mishaps' = 0 => Holding'
<1> DEFINE Kept == Holding'
<1> SUFFICES ASSUME TypeOK, Bodies, Tenure, [Next]_vars, mishaps = 0, mishaps' = 0
             PROVE  Kept
  OBVIOUS
<1>0. /\ record \in Record /\ old \in BOOLEAN /\ req \in [Request -> RequestState]
      /\ written \in [Payload -> Nat] /\ answer \in [Request -> Answer]
      /\ record.state \in {"none", "in flight", "done"}
      /\ Holding /\ Ledger /\ Given
  BY DEF TypeOK, Tenure, Record
<1>k. ASSUME UNCHANGED <<record, old>>, NEW r \in Request,
             \A q \in Request \ {r} : req'[q] = req[q],
             req'[r].holds <=> req[r].holds, req'[r].step # "taking",
             req[r].holds => req'[r].payload = req[r].payload,
             req'[r].holds <=> req'[r].step \in {"running", "saving", "deleting"}
      PROVE  Kept
  <2>1. \A q \in Request : req'[q].holds <=> req[q].holds
    BY <1>k
  <2>2. \A q \in Request : req[q].holds => req'[q].payload = req[q].payload
    BY <1>k
  <2>3. \A q \in Request : /\ req'[q].step # "taking"
                           /\ req'[q].holds <=> req'[q].step \in {"running", "saving", "deleting"}
    BY <1>0, <1>k DEF Holding, Working, At
  <2>. QED
    BY <1>0, <1>k, <2>1, <2>2, <2>3 DEF Holding, Working, At
<1> USE DEF Bodies, At, Goes, Leaves, Becomes
<1>1. ASSUME NEW r \in Request, NEW p \in Payload, Lookup(r, p) PROVE Kept
  <2>1. ~req[r].holds /\ UNCHANGED <<record, old>>
    BY <1>0, <1>1 DEF Lookup, Holding, Working
  <2>2. ~Abandoned
    BY <1>0 DEF Abandoned, Holding
  <2>. QED
    <3>1. CASE Becomes(r, "reserving", p, FALSE, Nothing)
      BY <1>k, <2>1, <3>1
    <3>2. CASE Leaves(r)
      BY <1>k, <2>1, <3>2
    <3>. QED
      BY <1>0, <1>1, <2>2, <3>1, <3>2, LookupEffect
<1>2. ASSUME NEW r \in Request, Reserve(r) PROVE Kept
  <2>1. ~req[r].holds
    BY <1>0, <1>2 DEF Reserve, Holding, Working
  <2>2. CASE Free
    <3>1. /\ record' = [state |-> "in flight", hash |-> req[r].payload, response |-> Nothing]
          /\ old' = FALSE /\ req[r].payload \in Payload
      BY <1>2, <2>2 DEF Reserve
    <3>2. record'.state = "in flight" /\ record'.hash = req[r].payload
      BY <3>1, Records
    <3>3. \A q \in Request : ~req[q].holds
      BY <1>0, <2>2 DEF Free, Holding
    <3>4. Becomes(r, "running", req[r].payload, TRUE, req[r].response)
      BY <1>0, <1>2, <2>2, ReserveEffect
    <3>. QED
      BY <1>0, <3>1, <3>2, <3>3, <3>4 DEF Holding, Working
  <2>3. CASE ~Free
    BY <1>0, <1>2, <1>k, <2>1, <2>3, ReserveEffect DEF Reserve
  <2>. QED
    BY <2>2, <2>3
<1>3. ASSUME NEW r \in Request, Reread(r) PROVE Kept
  <2>1. ~req[r].holds /\ UNCHANGED <<record, old>>
    BY <1>0, <1>3 DEF Reread, Holding, Working
  <2>2. Leaves(r)
    BY <1>0, <1>3, FinishEffect DEF Reread
  <2>. QED
    BY <1>0, <1>k, <2>1, <2>2
<1>4. ASSUME NEW r \in Request, TakeOver(r) PROVE Kept
  BY <1>0, <1>4 DEF TakeOver, Holding
<1>5. ASSUME NEW r \in Request, Run(r) PROVE Kept
  <2>1. req[r].holds /\ UNCHANGED <<record, old>> /\ req[r].payload \in Payload
    BY <1>0, <1>5 DEF Run, Holding, Working
  <2>2. /\ \A q \in Request \ {r} : req'[q] = req[q]
        /\ req'[r].holds = req[r].holds /\ req'[r].payload = req[r].payload
        /\ req'[r].step \in {"saving", "deleting"}
    BY <1>0, <1>5, <2>1, RunEffect
  <2>. QED
    BY <1>0, <1>k, <2>1, <2>2
<1>6. ASSUME NEW r \in Request, RunThrowsLate(r) PROVE Kept
  BY <1>6 DEF RunThrowsLate
<1>7. ASSUME NEW r \in Request, Save(r) PROVE Kept
  <2>1. req[r].holds /\ req[r].response \in Response
    BY <1>0, <1>7 DEF Save, Holding, Working, RequestState
  <2>2. record' = Answered(req[r].response) /\ old' = FALSE /\ Leaves(r)
    BY <1>0, <1>7, <2>1, SaveUndisturbed
  <2>3. record'.state = "done"
    BY <1>0, <2>1, <2>2, Records
  <2>4. \A q \in Request \ {r} : ~req[q].holds /\ req'[q] = req[q]
    BY <1>0, <2>1, <2>2 DEF Holding
  <2>. QED
    BY <1>0, <2>2, <2>3, <2>4 DEF Holding, Working
<1>8. ASSUME NEW r \in Request, Delete(r) PROVE Kept
  <2>1. req[r].holds
    BY <1>0, <1>8 DEF Delete, Holding, Working
  <2>2. record' = NoRecord /\ old' = FALSE /\ Released(r)
    BY <1>0, <1>8, <2>1, DeleteUndisturbed
  <2>3. \A q \in Request \ {r} : ~req[q].holds
    BY <1>0, <2>1 DEF Holding
  <2>4. record'.state = "none"
    BY <2>2, Records
  <2>. QED
    <3>1. \A q \in Request : ~req'[q].holds
      BY <2>2 DEF Released, Idle
    <3>2. req'[r].step = "idle"
      BY <2>2 DEF Released, Idle
    <3>3. \A q \in Request \ {r} : req'[q].step = req[q].step
      BY <2>2 DEF Released
    <3>4. \A q \in Request : req'[q].step \notin {"taking", "running", "saving", "deleting"}
      BY <1>0, <2>3, <3>2, <3>3 DEF Holding, Working
    <3>. QED
      BY <2>2, <2>4, <3>1, <3>4 DEF Holding, Working
<1>9. ASSUME Age PROVE Kept
  BY <1>0, <1>9 DEF Age, Holding
<1>10. ASSUME Crash PROVE Kept
  BY <1>10 DEF Crash
<1>11. ASSUME UNCHANGED vars PROVE Kept
  BY <1>0, <1>11 DEF vars, Holding, Working
<1>. QED
  BY <1>1, <1>2, <1>3, <1>4, <1>5, <1>6, <1>7, <1>8, <1>9, <1>10, <1>11 DEF Next, Step

\* The run writes once, for the body of the reservation.
LEMMA LedgerStep ==
  TypeOK /\ Bodies /\ Tenure /\ [Next]_vars /\ mishaps = 0 /\ mishaps' = 0 => Ledger'
<1> DEFINE Kept == Ledger'
<1> SUFFICES ASSUME TypeOK, Bodies, Tenure, [Next]_vars, mishaps = 0, mishaps' = 0
             PROVE  Kept
  OBVIOUS
<1>0. /\ record \in Record /\ old \in BOOLEAN /\ req \in [Request -> RequestState]
      /\ written \in [Payload -> Nat] /\ answer \in [Request -> Answer]
      /\ record.state \in {"none", "in flight", "done"}
      /\ Holding /\ Ledger /\ Given
  BY DEF TypeOK, Tenure, Record
<1>k. ASSUME UNCHANGED <<record, written>>, NEW r \in Request,
             \A q \in Request \ {r} : req'[q] = req[q],
             req'[r].step \in {"running", "deleting"} => NothingWritten,
             req'[r].step # "saving"
      PROVE  Kept
  <2>1. NothingWritten' <=> NothingWritten
    BY <1>k DEF NothingWritten
  <2>2. \A p : OnlyWrite(p)' <=> OnlyWrite(p)
    BY <1>k DEF OnlyWrite
  <2>. QED
    BY <1>0, <1>k, <2>1, <2>2 DEF Ledger, At
<1>a. \A q, r \in Request : req[r].holds /\ q # r => req[q].step \notin {"running", "saving", "deleting"}
  BY <1>0 DEF Holding, Working, At
<1> USE DEF Bodies, At, Goes, Leaves, Becomes
<1>1. ASSUME NEW r \in Request, NEW p \in Payload, Lookup(r, p) PROVE Kept
  <2>1. UNCHANGED <<record, written>>
    BY <1>1 DEF Lookup
  <2>2. ~Abandoned
    BY <1>0 DEF Abandoned, Holding
  <2>. QED
    BY <1>0, <1>1, <1>k, <2>1, <2>2, LookupEffect
<1>2. ASSUME NEW r \in Request, Reserve(r) PROVE Kept
  <2>1. UNCHANGED written
    BY <1>2 DEF Reserve
  <2>2. CASE Free
    <3>1. /\ record' = [state |-> "in flight", hash |-> req[r].payload, response |-> Nothing]
          /\ req[r].payload \in Payload
      BY <1>2, <2>2 DEF Reserve
    <3>2. record'.state = "in flight"
      BY <3>1, Records
    <3>3. \A q \in Request \ {r} : req'[q] = req[q]
      BY <1>0, <1>2, <2>2, ReserveEffect
    <3>4. req'[r].step = "running"
      BY <1>0, <1>2, <2>2, ReserveEffect
    <3>5. \A q \in Request : ~req[q].holds
      BY <1>0, <2>2 DEF Free, Holding
    <3>6. NothingWritten /\ NothingWritten'
      BY <1>0, <2>1, <2>2 DEF Free, Ledger, NothingWritten
    <3>. QED
      BY <1>0, <3>2, <3>3, <3>4, <3>5, <3>6 DEF Ledger, Holding, Working
  <2>3. CASE ~Free
    <3>1. Goes(r, "rereading") /\ UNCHANGED record
      BY <1>0, <1>2, <2>3, ReserveEffect DEF Reserve
    <3>. QED
      BY <1>k, <2>1, <3>1
  <2>. QED
    BY <2>2, <2>3
<1>3. ASSUME NEW r \in Request, Reread(r) PROVE Kept
  <2>1. Leaves(r) /\ UNCHANGED <<record, written>>
    BY <1>0, <1>3, FinishEffect DEF Reread
  <2>. QED
    BY <1>k, <2>1
<1>4. ASSUME NEW r \in Request, TakeOver(r) PROVE Kept
  BY <1>0, <1>4 DEF TakeOver, Holding
<1>5. ASSUME NEW r \in Request, Run(r) PROVE Kept
  <2> DEFINE p == req[r].payload
  <2>1. /\ req[r].holds /\ record.state = "in flight" /\ NothingWritten /\ p \in Payload
        /\ UNCHANGED record
    BY <1>0, <1>5 DEF Run, Holding, Working, Ledger
  <2>2. CASE UNCHANGED written /\ Goes(r, "deleting")
    BY <1>k, <2>1, <2>2
  <2> DEFINE Once == written'[p] <= 1 /\ \A q \in Payload \ {p} : written'[q] = 0
  <2>3. ASSUME NEW x \in Response, x.of = p, Becomes(r, "saving", p, req[r].holds, x), Once
        PROVE  Kept
    <3>1. \A q \in Request \ {r} : req'[q].step \notin {"running", "saving", "deleting"}
      BY <1>a, <2>1, <2>3
    <3>2. req'[r].step = "saving" /\ req'[r].payload = p /\ req'[r].response.of = p
      BY <2>3
    <3>3. OnlyWrite(req[r].payload)'
      BY <2>3, <3>2 DEF OnlyWrite
    <3>. QED
      BY <2>1, <3>1, <3>2, <3>3 DEF Ledger
  <2>4. written' = [written EXCEPT ![p] = @ + 1] \/ UNCHANGED written => Once
    <3>1. written[p] = 0 /\ \A q \in Payload : written[q] = 0
      BY <2>1 DEF NothingWritten
    <3>2. CASE UNCHANGED written
      BY <3>1, <3>2
    <3>3. CASE written' = [written EXCEPT ![p] = @ + 1]
      <4>1. written'[p] = 0 + 1
        BY <1>0, <2>1, <3>1, <3>3 DEF TypeOK
      <4>2. \A q \in Payload \ {p} : written'[q] = written[q]
        BY <1>0, <2>1, <3>3 DEF TypeOK
      <4>. QED
        BY <3>1, <4>1, <4>2
    <3>. QED
      BY <3>2, <3>3
  <2>. QED
    BY <1>0, <1>5, <2>1, <2>2, <2>3, <2>4, RunEffect
<1>6. ASSUME NEW r \in Request, RunThrowsLate(r) PROVE Kept
  BY <1>6 DEF RunThrowsLate
<1>7. ASSUME NEW r \in Request, Save(r) PROVE Kept
  <2> DEFINE p == req[r].payload
  <2>1. /\ req[r].holds /\ req[r].response \in Response /\ p \in Payload /\ UNCHANGED written
        /\ record.hash = p /\ OnlyWrite(p) /\ req[r].response.of = p
    BY <1>0, <1>7 DEF Save, Holding, Working, RequestState, Ledger
  <2>2. record' = Answered(req[r].response) /\ Leaves(r)
    BY <1>0, <1>7, <2>1, SaveUndisturbed
  <2>3. record'.state = "done" /\ record'.hash = p /\ record'.response.of = p
    BY <1>0, <2>1, <2>2, Records
  <2>4. \A q \in Request : req'[q].step \notin {"running", "saving", "deleting"}
    BY <1>a, <2>1, <2>2
  <2>5. written'[p] <= 1 /\ \A q \in Payload \ {p} : written'[q] = 0
    BY <2>1 DEF OnlyWrite
  <2>. QED
    BY <2>1, <2>3, <2>4, <2>5 DEF Ledger, OnlyWrite
<1>8. ASSUME NEW r \in Request, Delete(r) PROVE Kept
  <2>1. req[r].holds /\ NothingWritten /\ UNCHANGED written
    BY <1>0, <1>8 DEF Delete, Holding, Working, Ledger
  <2>2. record' = NoRecord /\ Released(r)
    BY <1>0, <1>8, <2>1, DeleteUndisturbed
  <2>3. record'.state = "none" /\ NothingWritten'
    BY <2>1, <2>2, Records DEF NothingWritten
  <2>4. req'[r].step = "idle" /\ \A q \in Request \ {r} : req'[q].step = req[q].step
    BY <2>2 DEF Released, Idle
  <2>5. \A q \in Request : req'[q].step \notin {"running", "saving", "deleting"}
    BY <1>a, <2>1, <2>4
  <2>. QED
    BY <2>3, <2>5 DEF Ledger
<1>9. ASSUME Age PROVE Kept
  BY <1>0, <1>9 DEF Age, Holding
<1>10. ASSUME Crash PROVE Kept
  BY <1>10 DEF Crash
<1>11. ASSUME UNCHANGED vars PROVE Kept
  BY <1>0, <1>11 DEF vars, Ledger, NothingWritten, OnlyWrite
<1>. QED
  BY <1>1, <1>2, <1>3, <1>4, <1>5, <1>6, <1>7, <1>8, <1>9, <1>10, <1>11 DEF Next, Step

\* The stored answer is the one that is given.
LEMMA GivenStep ==
  TypeOK /\ Bodies /\ Tenure /\ [Next]_vars /\ mishaps = 0 /\ mishaps' = 0 => Given'
<1> DEFINE Kept == Given'
<1> SUFFICES ASSUME TypeOK, Bodies, Tenure, [Next]_vars, mishaps = 0, mishaps' = 0
             PROVE  Kept
  OBVIOUS
<1>0. /\ record \in Record /\ old \in BOOLEAN /\ req \in [Request -> RequestState]
      /\ written \in [Payload -> Nat] /\ answer \in [Request -> Answer]
      /\ record.state \in {"none", "in flight", "done"}
      /\ Holding /\ Ledger /\ Given
  BY DEF TypeOK, Tenure, Record
<1> USE DEF Bodies, At
<1>1. ASSUME NEW r \in Request, NEW p \in Payload, Lookup(r, p) PROVE Kept
  <2>1. UNCHANGED record /\ ~Abandoned
    BY <1>0, <1>1 DEF Lookup, Abandoned, Holding
  <2>2. CASE answer' = [answer EXCEPT ![r] = Only("none", 0)]
    BY <1>0, <2>1, <2>2 DEF Given, Only
  <2>3. CASE record.state # "none" /\ answer' = [answer EXCEPT ![r] = Interpreted(p)]
    <3>1. Interpreted(p).kind = "response" =>
            /\ record.state = "done" /\ Interpreted(p).to = record.hash
            /\ Interpreted(p).response = record.response
      BY <1>0, <2>3 DEF Interpreted, Only, Replayed
    <3>. QED
      BY <1>0, <2>1, <2>3, <3>1 DEF Given
  <2>. QED
    BY <1>1, <2>1, <2>2, <2>3 DEF Lookup, Finish
<1>2. ASSUME NEW r \in Request, Reserve(r) PROVE Kept
  <2>1. UNCHANGED answer /\ (UNCHANGED record \/ record.state = "none")
    BY <1>2 DEF Reserve, Free
  <2>. QED
    BY <1>0, <2>1 DEF Given
<1>3. ASSUME NEW r \in Request, Reread(r) PROVE Kept
  <2>1. UNCHANGED record
    BY <1>3 DEF Reread
  <2>2. CASE answer' = [answer EXCEPT ![r] = Only("500", req[r].payload)]
    BY <1>0, <2>1, <2>2 DEF Given, Only
  <2>3. CASE record.state # "none" /\ answer' = [answer EXCEPT ![r] = Interpreted(req[r].payload)]
    <3>1. Interpreted(req[r].payload).kind = "response" =>
            /\ record.state = "done" /\ Interpreted(req[r].payload).to = record.hash
            /\ Interpreted(req[r].payload).response = record.response
      BY <1>0, <2>3 DEF Interpreted, Only, Replayed
    <3>. QED
      BY <1>0, <2>1, <2>3, <3>1 DEF Given
  <2>. QED
    BY <1>3, <2>2, <2>3 DEF Reread, Finish
<1>4. ASSUME NEW r \in Request, TakeOver(r) PROVE Kept
  BY <1>0, <1>4 DEF TakeOver, Holding
<1>5. ASSUME NEW r \in Request, Run(r) PROVE Kept
  <2>1. UNCHANGED <<answer, record>>
    BY <1>5 DEF Run
  <2>. QED
    BY <1>0, <2>1 DEF Given
<1>6. ASSUME NEW r \in Request, RunThrowsLate(r) PROVE Kept
  BY <1>6 DEF RunThrowsLate
<1>7. ASSUME NEW r \in Request, Save(r) PROVE Kept
  <2>1. /\ req[r].holds /\ record.state = "in flight" /\ record.hash = req[r].payload
        /\ req[r].response \in Response
    BY <1>0, <1>7 DEF Save, Holding, Working, RequestState
  <2>2. record' = Answered(req[r].response)
    BY <1>0, <1>7, <2>1, SaveUndisturbed
  <2>3. record'.state = "done" /\ record'.hash = req[r].payload /\ record'.response = req[r].response
    BY <1>0, <2>1, <2>2, Records
  <2>4. \A q \in Request : answer[q].kind # "response"
    BY <1>0, <2>1 DEF Given
  <2>5. \/ UNCHANGED answer
        \/ answer' = [answer EXCEPT ![r] = [kind |-> "response", to |-> req[r].payload,
                                           response |-> req[r].response]]
    BY <1>7 DEF Save, Finish
  <2>6. ASSUME NEW q \in Request, answer'[q].kind = "response"
        PROVE  answer'[q].response = req[r].response /\ answer'[q].to = req[r].payload
    <3>1. CASE UNCHANGED answer
      BY <2>4, <2>6, <3>1
    <3>2. CASE answer' = [answer EXCEPT ![r] = [kind |-> "response", to |-> req[r].payload,
                                                 response |-> req[r].response]]
      <4>1. CASE q = r
        BY <1>0, <3>2, <4>1 DEF TypeOK
      <4>2. CASE q # r
        BY <1>0, <2>4, <2>6, <3>2, <4>2 DEF TypeOK
      <4>. QED
        BY <4>1, <4>2
    <3>. QED
      BY <2>5, <3>1, <3>2
  <2>. QED
    BY <2>3, <2>6 DEF Given
<1>8. ASSUME NEW r \in Request, Delete(r) PROVE Kept
  <2>1. /\ req[r].holds /\ record.state = "in flight"
        /\ answer' = [answer EXCEPT ![r] = Only("500", req[r].payload)]
    BY <1>0, <1>8 DEF Delete, Holding, Working
  <2>2. \A q \in Request : answer[q].kind # "response"
    BY <1>0, <2>1 DEF Given
  <2>. QED
    BY <1>0, <2>1, <2>2 DEF Given, Only
<1>9. ASSUME Age PROVE Kept
  BY <1>0, <1>9 DEF Age, Holding
<1>10. ASSUME Crash PROVE Kept
  BY <1>10 DEF Crash
<1>11. ASSUME UNCHANGED vars PROVE Kept
  BY <1>0, <1>11 DEF vars, Given
<1>. QED
  BY <1>1, <1>2, <1>3, <1>4, <1>5, <1>6, <1>7, <1>8, <1>9, <1>10, <1>11 DEF Next, Step

\* A mishap is never undone.
LEMMA MishapsStep == TypeOK /\ [Next]_vars /\ mishaps' = 0 => mishaps = 0
<1>0. TypeOK => mishaps \in Nat
  <2>1. \A n \in 0..MaxMishaps : n \in Nat
    BY IdempotencyBounds
  <2>. QED
    BY <2>1 DEF TypeOK
<1> SUFFICES ASSUME mishaps \in Nat, [Next]_vars, mishaps' = 0 PROVE mishaps = 0
  BY <1>0
<1> DEFINE Kept == mishaps = 0
<1>1. ASSUME NEW r \in Request, NEW p \in Payload, Lookup(r, p) PROVE Kept
  BY <1>1 DEF Lookup
<1>2. ASSUME NEW r \in Request, Reserve(r) PROVE Kept
  BY <1>2 DEF Reserve
<1>3. ASSUME NEW r \in Request, Reread(r) PROVE Kept
  BY <1>3 DEF Reread
<1>4. ASSUME NEW r \in Request, TakeOver(r) PROVE Kept
  BY <1>4 DEF TakeOver
<1>5. ASSUME NEW r \in Request, Run(r) PROVE Kept
  BY <1>5 DEF Run
<1>6. ASSUME NEW r \in Request, RunThrowsLate(r) PROVE Kept
  BY <1>6 DEF RunThrowsLate
<1>7. ASSUME NEW r \in Request, Save(r) PROVE Kept
  BY <1>7 DEF Save
<1>8. ASSUME NEW r \in Request, Delete(r) PROVE Kept
  BY <1>8 DEF Delete
<1>9. ASSUME Age PROVE Kept
  BY <1>9 DEF Age
<1>10. ASSUME Crash PROVE Kept
  BY <1>10 DEF Crash
<1>11. ASSUME UNCHANGED vars PROVE Kept
  BY <1>11 DEF vars
<1>. QED
  BY <1>1, <1>2, <1>3, <1>4, <1>5, <1>6, <1>7, <1>8, <1>9, <1>10, <1>11 DEF Next, Step

\* Nobody has reserved, written or been answered anything.
LEMMA Start == Init => IInv
<1> SUFFICES ASSUME Init PROVE IInv
  OBVIOUS
<1>1. record \in Record /\ record.state = "none" /\ record.response = Nothing
  BY Records DEF Init
<1>2. req \in [Request -> RequestState]
  BY Responses DEF Init, Idle, RequestState
<1>3. answer \in [Request -> Answer]
  BY AnswerTypes DEF Init
<1>4. \A r \in Request : req[r].step = "idle" /\ req[r].holds = FALSE /\ answer[r].kind = "none"
  BY DEF Init, Idle, Only
<1>5. written \in [Payload -> Nat] /\ \A p \in Payload : written[p] = 0
  BY DEF Init
<1>6. old = FALSE /\ scope \in Scope /\ mishaps \in 0..MaxMishaps
  BY IdempotencyBounds DEF Init
<1>7. TypeOK
  BY <1>1, <1>2, <1>3, <1>4, <1>5, <1>6 DEF TypeOK
<1>8. Bodies /\ CreatedOnce
  BY <1>4, <1>5 DEF Bodies, At, CreatedOnce
<1>9. Holding
  BY <1>1, <1>4, <1>6 DEF Holding, Working, At
<1>10. Ledger
  BY <1>1, <1>4, <1>5 DEF Ledger, NothingWritten, At
<1>11. Given
  BY <1>4 DEF Given
<1>. QED
  BY <1>7, <1>8, <1>9, <1>10, <1>11 DEF IInv, Tenure

\* Every step of withIdempotency, a crash and the passing of time keep the invariant.
LEMMA Consecution == IInv /\ [Next]_vars => IInv'
<1> SUFFICES ASSUME IInv, [Next]_vars PROVE IInv'
  OBVIOUS
<1>1. TypeOK' /\ Bodies' /\ CreatedOnce'
  BY BodiesStep, TypeStep, CreatedStep DEF IInv
<1>2. ASSUME mishaps' = 0 PROVE Tenure'
  <2>1. mishaps = 0 /\ Tenure
    BY <1>2, MishapsStep DEF IInv
  <2>. QED
    BY <1>2, <2>1, HoldingStep, LedgerStep, GivenStep DEF IInv, Tenure
<1>. QED
  BY <1>1, <1>2 DEF IInv

\* So the invariant holds of every reachable state.
LEMMA Invariance == Spec => []IInv
BY Start, Consecution, PTL DEF Spec

-----------------------------------------------------------------------------
(* Theorems                                                                *)

\* The state keeps its types; above all, only an answered reservation has a response, and
\* whoever believes to hold a reservation holds one (withIdempotency).
THEOREM TypeCorrect == Spec => []TypeOK
<1>1. IInv => TypeOK
  BY DEF IInv
<1>. QED
  BY Invariance, <1>1, PTL

\* A demand is created once, whatever crashed, failed or was taken over in between
\* (the unique demand_ref makes the run of POST /demands idempotent by itself).
THEOREM Created == Spec => []CreatedOnce
<1>1. IInv => CreatedOnce
  BY DEF IInv
<1>. QED
  BY Invariance, <1>1, PTL

\* While nothing crashes and the record can be written, a key writes once, for one of the
\* bodies it came with, whichever operation it belongs to (the reservation before the run).
THEOREM Undisturbed == Spec => []OnceUndisturbed
<1>1. ASSUME TypeOK, Bodies, Tenure, NEW p \in Payload, NEW q \in Payload
      PROVE  written[p] <= 1 /\ (written[p] > 0 /\ written[q] > 0 => p = q)
  <2>1. written[p] \in Nat /\ written[q] \in Nat
    BY <1>1 DEF TypeOK
  <2>2. NothingWritten => written[p] = 0
    BY DEF NothingWritten
  <2>3. ASSUME NEW x, OnlyWrite(x)
        PROVE  written[p] <= 1 /\ (written[p] > 0 /\ written[q] > 0 => p = q)
    BY <2>1, <2>3 DEF OnlyWrite
  <2>4. record.state \in {"none", "in flight", "done"}
    BY <1>1 DEF TypeOK, Record
  <2>5. CASE record.state = "none"
    BY <1>1, <2>2, <2>5 DEF Tenure, Ledger
  <2>6. CASE record.state = "done"
    BY <1>1, <2>3, <2>6 DEF Tenure, Ledger
  <2>7. CASE record.state = "in flight"
    <3>1. PICK r \in Request : Working(r)
      BY <1>1, <2>7 DEF Tenure, Holding
    <3>2. NothingWritten \/ OnlyWrite(req[r].payload)
      BY <1>1, <3>1 DEF Tenure, Ledger, Working
    <3>. QED
      BY <2>2, <2>3, <3>2
  <2>. QED
    BY <2>4, <2>5, <2>6, <2>7
<1>2. IInv => OnceUndisturbed
  BY <1>1 DEF IInv, OnceUndisturbed
<1>. QED
  BY Invariance, <1>2, PTL

\* While nothing crashes and the record can be written, all who are given a run's answer
\* are given the same one, and it answers the body they sent (interpretarExistente).
THEOREM Same == Spec => []SameAnswer
<1>1. IInv => SameAnswer
  BY DEF IInv, Tenure, Given, Ledger, SameAnswer
<1>. QED
  BY Invariance, <1>1, PTL

-----------------------------------------------------------------------------
(* The pairing: whoever records a check, or calls, has an address that was *)
(* checked with the key it holds; the row has one while nobody wrote by a  *)
(* row that had become another.                                            *)

PresentersTyped ==
  /\ presenter \in [Presenter -> PresenterState]
  /\ \A h \in Presenter : presenter[h].step # "idle" => presenter[h].key # 0

CallersTyped ==
  /\ caller \in [Caller -> CallerState]
  /\ \A c \in Caller : caller[c].step # "idle" => row.key # 0

RowTyped == row \in Row /\ (row.key = 0 => row = NoRow)

RestTyped ==
  /\ current \in PairKey \cup {0} /\ suspended \in BOOLEAN
  /\ verdict \in [PairKey -> Verdict]
  /\ crossed \in BOOLEAN /\ pairTroubles \in 0..MaxPairTrouble

RecordersChecked ==
  \A c \in Caller : caller[c].step = "recording" => caller[c].base = Home[caller[c].key]

PairingInv ==
  PresentersTyped /\ CallersTyped /\ RowTyped /\ RestTyped /\ RecordersChecked /\ CalledIsHome

\* The types of the pairing are part of its invariant.
LEMMA PairingTyped == PairingInv => PairingTypeOK
BY DEF PairingInv, PresentersTyped, CallersTyped, RowTyped, RestTyped, PairingTypeOK

\* What rests is of its type.
LEMMA RestingStates == NoPresenter \in PresenterState /\ NoCaller \in CallerState /\ NoRow \in Row
BY DEF NoPresenter, PresenterState, NoCaller, CallerState, NoRow, Row, Seen, Unseen

\* Before the first key, nothing is stored and nobody is at work.
LEMMA PairingInitInv == PairingInit => PairingInv
<1> SUFFICES ASSUME PairingInit PROVE PairingInv
  OBVIOUS
<1>1. PresentersTyped /\ CallersTyped /\ RowTyped
  BY RestingStates DEF PairingInit, PresentersTyped, CallersTyped, RowTyped, NoPresenter, NoCaller
<1>2. RestTyped
  <2>1. 0 \in 0..MaxPairTrouble
    BY PairingAssumption DEF PairingAssumption
  <2>2. verdict \in [PairKey -> Verdict]
    BY DEF PairingInit, Verdict
  <2> QED
    BY <2>1, <2>2 DEF PairingInit, RestTyped
<1>3. RecordersChecked /\ CalledIsHome
  BY DEF PairingInit, RecordersChecked, CalledIsHome, NoCaller, NoRow
<1> QED
  BY <1>1, <1>2, <1>3 DEF PairingInv

\* Another trouble is within the bound.
LEMMA PairTroubleTyped ==
  ASSUME pairTroubles \in 0..MaxPairTrouble, PairTrouble \/ UNCHANGED pairTroubles
  PROVE  pairTroubles' \in 0..MaxPairTrouble
BY PairingAssumption DEF PairingAssumption, PairTrouble

\* A POST that changes neither the row nor the callers keeps the invariant.
LEMMA PresenterInv ==
  ASSUME PairingInv, NEW h \in Presenter, NEW new \in PresenterState,
         new.step # "idle" => new.key # 0,
         presenter' = [presenter EXCEPT ![h] = new],
         verdict' \in [PairKey -> Verdict],
         PairTrouble \/ UNCHANGED pairTroubles,
         UNCHANGED <<current, suspended, row, caller, crossed>>
  PROVE  PairingInv'
<1>1. PresentersTyped'
  BY DEF PairingInv, PresentersTyped
<1>2. CallersTyped' /\ RowTyped' /\ RecordersChecked' /\ CalledIsHome'
  BY DEF PairingInv, CallersTyped, RowTyped, RecordersChecked, CalledIsHome
<1>3. RestTyped'
  BY PairTroubleTyped DEF PairingInv, RestTyped
<1> QED
  BY <1>1, <1>2, <1>3 DEF PairingInv

\* A POST stores a key it presented, and unless the row had become another it leaves as
\* checked only what was.
LEMMA WriteRowInv ==
  ASSUME PairingInv, NEW h \in Presenter, WriteRow(h) PROVE PairingInv'
<1> DEFINE p == presenter[h]
<1>1. /\ p \in PresenterState /\ p.step = "writing" /\ p.key # 0
      /\ p.key \in PairKey /\ p.base \in Address \cup {0} /\ p.saw \in Seen
  BY DEF PairingInv, PresentersTyped, PresenterState, WriteRow
<1>2. PresentersTyped'
  BY RestingStates DEF PairingInv, PresentersTyped, WriteRow, NoPresenter
<1>3. RestTyped'
  BY PairTroubleTyped DEF PairingInv, RestTyped, WriteRow
<1>4. RecordersChecked'
  BY DEF PairingInv, RecordersChecked, WriteRow
<1>5. CASE UNCHANGED <<row, crossed>>
  <2>1. CallersTyped' /\ RowTyped' /\ CalledIsHome'
    BY <1>5 DEF PairingInv, CallersTyped, RowTyped, CalledIsHome, WriteRow
  <2> QED
    BY <2>1, <1>2, <1>3, <1>4 DEF PairingInv
<1>6. CASE row' = Stored(p.key, p.base, p.saw) /\ crossed' = (crossed \/ Other(p.saw))
  <2>1. row \in Row
    BY DEF PairingInv, RowTyped
  <2>2. row' \in Row /\ row'.key = p.key /\ row'.base \in Address \cup {0}
    BY <1>1, <1>6, <2>1 DEF Stored, Row, Invalidates
  <2>3. CallersTyped' /\ RowTyped'
    BY <1>1, <2>2, 0 \notin PairKey DEF PairingInv, CallersTyped, RowTyped, WriteRow, PairKey
  <2>4. ASSUME ~crossed', row'.verified PROVE row'.base = Home[row'.key]
    <3>1. ~crossed /\ ~Other(p.saw) /\ row.verified /\ ~Invalidates(p.key, p.base, p.saw)
      BY <1>6, <2>4, <2>1 DEF Stored, PairingInv, RestTyped, Row
    <3>2. row'.key = row.key /\ row'.base = row.base
      BY <1>1, <1>6, <3>1 DEF Stored, Other, Invalidates
    <3> QED
      BY <3>1, <3>2 DEF PairingInv, CalledIsHome
  <2>5. CalledIsHome'
    BY <1>6, <2>4 DEF PairingInv, CalledIsHome, WriteRow
  <2> QED
    BY <1>2, <1>3, <1>4, <2>3, <2>5 DEF PairingInv
<1> QED
  BY <1>5, <1>6 DEF WriteRow

\* A caller calls only where the address was checked with the key it holds.
LEMMA CallerInv ==
  ASSUME PairingInv, NEW c \in Caller, CallerStep(c) PROVE PairingInv'
<1>1. PresentersTyped' /\ verdict' = verdict /\ current' = current /\ suspended' = suspended
      /\ pairTroubles' = pairTroubles
  BY DEF PairingInv, PresentersTyped, CallerStep, ReadKey, ReadCheck, AskAddress, RecordCheck, EndCall
<1>2. caller[c] \in CallerState /\ row \in Row
  BY DEF PairingInv, CallersTyped, RowTyped
<1>3. CASE ReadKey(c)
  <2>1. row.key \in PairKey \cup {0} /\ row.base \in Address \cup {0}
    BY <1>2 DEF Row
  <2>2. CallersTyped' /\ RowTyped'
    BY <1>3, <2>1 DEF PairingInv, CallersTyped, RowTyped, ReadKey, CallerState
  <2>3. RestTyped' /\ RecordersChecked' /\ CalledIsHome'
    BY <1>3, <1>1 DEF PairingInv, CallersTyped, RestTyped, RecordersChecked, CalledIsHome, ReadKey
  <2> QED
    BY <1>1, <2>2, <2>3 DEF PairingInv
<1>4. CASE ReadCheck(c)
  <2>1. CallersTyped' /\ RowTyped' /\ RestTyped'
    BY <1>4, <1>2 DEF PairingInv, CallersTyped, RowTyped, RestTyped, ReadCheck, Moves, CallerState
  <2>2. RecordersChecked'
    BY <1>4 DEF PairingInv, CallersTyped, RecordersChecked, ReadCheck, Moves
  <2>3. ~crossed' /\ row.verified => caller[c].base = Home[caller[c].key]
    BY <1>4, <1>2 DEF PairingInv, CalledIsHome, RestTyped, ReadCheck, Other
  <2>4. CalledIsHome'
    <3> SUFFICES ASSUME ~crossed' PROVE CalledIsHome'
      BY DEF CalledIsHome
    <3>1. ~crossed /\ row' = row
      BY <1>4 DEF PairingInv, RestTyped, ReadCheck
    <3>2. ASSUME NEW d \in Caller, caller'[d].step = "calling"
          PROVE caller'[d].base = Home[caller'[d].key]
      BY <1>4, <2>3, <3>1, <3>2, <1>2 DEF PairingInv, CallersTyped, CallerState, CalledIsHome,
        ReadCheck, Moves
    <3> QED
      BY <3>1, <3>2 DEF PairingInv, CalledIsHome
  <2> QED
    BY <1>1, <2>1, <2>2, <2>4 DEF PairingInv
<1>5. CASE AskAddress(c)
  <2>1. CallersTyped' /\ RowTyped'
    BY <1>5, <1>2, RestingStates DEF PairingInv, CallersTyped, RowTyped, AskAddress, Moves, CallerState
  <2>2. RestTyped'
    BY <1>5, <1>1 DEF PairingInv, RestTyped, AskAddress
  <2>3. RecordersChecked'
    BY <1>5, <1>2 DEF PairingInv, CallersTyped, CallerState, RecordersChecked, AskAddress, Moves, NoCaller
  <2>4. CalledIsHome'
    BY <1>5, <1>2 DEF PairingInv, CallersTyped, CallerState, CalledIsHome, AskAddress, Moves, NoCaller
  <2> QED
    BY <1>1, <2>1, <2>2, <2>3, <2>4 DEF PairingInv
<1>6. CASE RecordCheck(c)
  <2>1. row.key # 0 /\ caller[c].base = Home[caller[c].key]
    BY <1>6 DEF PairingInv, CallersTyped, RecordersChecked, RecordCheck
  <2>2. CallersTyped' /\ RowTyped'
    BY <1>6, <1>2, <2>1 DEF PairingInv, CallersTyped, RowTyped, RecordCheck, Moves, CallerState, Row
  <2>3. RestTyped' /\ RecordersChecked'
    BY <1>6, <1>1 DEF PairingInv, CallersTyped, RestTyped, RecordersChecked, RecordCheck, Moves
  <2>4. CalledIsHome'
    <3> SUFFICES ASSUME ~crossed' PROVE CalledIsHome'
      BY DEF CalledIsHome
    <3>1. ~crossed /\ ~Other(caller[c])
      BY <1>6 DEF PairingInv, RestTyped, RecordCheck
    <3>2. row'.key = caller[c].key /\ row'.base = caller[c].base
      BY <1>6, <1>2, <3>1 DEF RecordCheck, Other, Row
    <3>3. ASSUME NEW d \in Caller, caller'[d].step = "calling"
          PROVE caller'[d].base = Home[caller'[d].key]
      BY <1>6, <2>1, <3>1, <3>3, <1>2 DEF PairingInv, CallersTyped, CallerState, CalledIsHome,
        RecordCheck, Moves
    <3> QED
      BY <2>1, <3>2, <3>3 DEF CalledIsHome
  <2> QED
    BY <1>1, <2>2, <2>3, <2>4 DEF PairingInv
<1>7. CASE EndCall(c)
  <2>1. CallersTyped' /\ RowTyped'
    BY <1>7, RestingStates DEF PairingInv, CallersTyped, RowTyped, EndCall, NoCaller
  <2>2. RestTyped' /\ RecordersChecked' /\ CalledIsHome'
    BY <1>7, <1>1 DEF PairingInv, CallersTyped, RestTyped, RecordersChecked, CalledIsHome, EndCall, NoCaller
  <2> QED
    BY <1>1, <2>1, <2>2 DEF PairingInv
<1> QED
  BY <1>3, <1>4, <1>5, <1>6, <1>7 DEF CallerStep

\* Every step of the pairing keeps the invariant.
LEMMA PairingStepInv == PairingInv /\ [PairingNext]_pairVars => PairingInv'
<1> SUFFICES ASSUME PairingInv, [PairingNext]_pairVars PROVE PairingInv'
  OBVIOUS
<1>1. CASE Issue
  <2>1. current' \in PairKey
    BY <1>1, PairingAssumption DEF Issue, PairingInv, RestTyped, PairKey, PairingAssumption
  <2> QED
    BY <1>1, <2>1 DEF Issue, PairingInv, PresentersTyped, CallersTyped, RowTyped, RestTyped,
      RecordersChecked, CalledIsHome
<1>2. CASE Suspend
  <2>1. RestTyped'
    BY <1>2, PairTroubleTyped DEF Suspend, PairingInv, RestTyped
  <2> QED
    BY <1>2, <2>1 DEF Suspend, PairingInv, PresentersTyped, CallersTyped, RowTyped, RecordersChecked,
      CalledIsHome
<1>3. CASE Lapse
  <2>1. row \in Row /\ row' = [row EXCEPT !.verified = FALSE]
    BY <1>3 DEF Lapse, PairingInv, RowTyped
  <2>2. row' \in Row /\ row'.key = row.key /\ ~row'.verified
    BY <2>1 DEF Row
  <2>3. row.key # 0
    BY <1>3 DEF Lapse, PairingInv, RowTyped, NoRow
  <2> QED
    BY <1>3, <2>2, <2>3 DEF Lapse, PairingInv, PresentersTyped, CallersTyped, RowTyped, RestTyped,
      RecordersChecked, CalledIsHome
<1>4. CASE PairCrash
  <2>1. PresentersTyped' /\ CallersTyped' /\ RecordersChecked' /\ CalledIsHome'
    BY <1>4, RestingStates DEF PairCrash, PairingInv, PresentersTyped, CallersTyped, RecordersChecked,
      CalledIsHome, NoPresenter, NoCaller
  <2>2. RowTyped' /\ RestTyped'
    BY <1>4, PairTroubleTyped DEF PairCrash, PairingInv, RowTyped, RestTyped
  <2> QED
    BY <2>1, <2>2 DEF PairingInv
<1>5. ASSUME NEW k \in PairKey, Expire(k) PROVE PairingInv'
  <2>1. verdict' \in [PairKey -> Verdict]
    BY <1>5 DEF Expire, PairingInv, RestTyped, Verdict
  <2> QED
    BY <1>5, <2>1 DEF Expire, PairingInv, PresentersTyped, CallersTyped, RowTyped, RestTyped,
      RecordersChecked, CalledIsHome
<1>6. ASSUME NEW k \in PairKey, Posts(k) PROVE PairingInv'
  <2>1. PICK h \in Presenter, b \in Address \cup {0} : Present(h, k, b)
    BY <1>6 DEF Posts
  <2> DEFINE new == [step |-> IF verdict[k] = "yes" THEN "reading" ELSE "asking",
                     key |-> k, base |-> b, saw |-> Unseen]
  <2>2. new \in PresenterState /\ new.key # 0
    <3>1. Unseen \in Seen /\ k # 0
      BY PairingAssumption DEF Unseen, Seen, PairKey, PairingAssumption
    <3> QED
      BY <3>1 DEF PresenterState
  <2>3. presenter' = [presenter EXCEPT ![h] = new]
    BY <2>1 DEF Present
  <2> HIDE DEF new
  <2> QED
    BY <2>1, <2>2, <2>3, PresenterInv DEF Present, PairingInv, RestTyped
<1>7. ASSUME NEW h \in Presenter, PresenterStep(h) PROVE PairingInv'
  <2>1. presenter[h] \in PresenterState /\ (presenter[h].step # "idle" => presenter[h].key # 0)
    BY DEF PairingInv, PresentersTyped
  <2>2. ASSUME NEW s \in {"accepted", "refused", "reading"}, presenter[h].step # "idle"
        PROVE  /\ [presenter[h] EXCEPT !.step = s] \in PresenterState
               /\ [presenter[h] EXCEPT !.step = s].key # 0
    BY <2>1, <2>2 DEF PresenterState
  <2>3. CASE AskAuthority(h)
    <3>1. \E new \in PresenterState :
            presenter' = [presenter EXCEPT ![h] = new] /\ (new.step # "idle" => new.key # 0)
      BY <2>2, <2>3, RestingStates DEF AskAuthority, NoPresenter
    <3> QED
      BY <2>3, <3>1, PresenterInv DEF AskAuthority, PairingInv, RestTyped
  <2>4. CASE KeepVerdict(h)
    <3>1. \E new \in PresenterState :
            presenter' = [presenter EXCEPT ![h] = new] /\ (new.step # "idle" => new.key # 0)
      BY <2>2, <2>4, RestingStates DEF KeepVerdict, NoPresenter
    <3>2. verdict' \in [PairKey -> Verdict]
      BY <2>4 DEF KeepVerdict, PairingInv, RestTyped, Verdict
    <3> QED
      BY <2>4, <3>1, <3>2, PresenterInv DEF KeepVerdict
  <2>5. CASE ReadRow(h)
    <3> DEFINE new == [presenter[h] EXCEPT !.step = "writing", !.saw = [key |-> row.key, base |-> row.base]]
    <3>1. [key |-> row.key, base |-> row.base] \in Seen
      BY DEF PairingInv, RowTyped, Row, Seen
    <3>2. new \in PresenterState /\ new.key # 0
      BY <2>1, <2>5, <3>1 DEF PresenterState, ReadRow
    <3>3. presenter' = [presenter EXCEPT ![h] = new]
      BY <2>5 DEF ReadRow
    <3> HIDE DEF new
    <3> QED
      BY <2>5, <3>2, <3>3, PresenterInv DEF ReadRow, PairingInv, RestTyped
  <2> QED
    BY <1>7, <2>3, <2>4, <2>5, WriteRowInv DEF PresenterStep
<1>8. CASE UNCHANGED pairVars
  BY <1>8 DEF pairVars, PairingInv, PresentersTyped, CallersTyped, RowTyped, RestTyped,
    RecordersChecked, CalledIsHome
<1> QED
  BY <1>1, <1>2, <1>3, <1>4, <1>5, <1>6, <1>7, <1>8, CallerInv DEF PairingNext

\* Every reachable state of the pairing is of its type: only a key that was presented is
\* stored, and nobody calls before one is (crm_pair_keys, resolverDestino).
THEOREM PairingTypeCorrect == PairingSpec => []PairingTypeOK
BY PairingInitInv, PairingStepInv, PairingTyped, PTL DEF PairingSpec

\* No call leaves for an address that is not the home of its key, for any number of POSTs
\* and calls, unless the row became another between a read of it and what was done by
\* that read (resolverDestino, guardarChaveApresentada).
THEOREM CallsGoHome == PairingSpec => []CalledIsHome
<1>1. PairingInv => CalledIsHome
  BY DEF PairingInv
<1> QED
  BY <1>1, PairingInitInv, PairingStepInv, PTL DEF PairingSpec

\* A key that is not issued yet has no yes in the cache, is not stored and signs no call.
OnlyIssued ==
  /\ \A k \in PairKey : verdict[k] = "yes" => k <= current
  /\ row.key <= current
  /\ \A h \in Presenter :
       presenter[h].step \in {"accepted", "reading", "writing"} => presenter[h].key <= current
  /\ \A c \in Caller : caller[c].step # "idle" => caller[c].key <= current

\* A yes comes from the fleet manager, and goes from the cache to a POST, the row and a call.
LEMMA OnlyIssuedStep == PairingInv /\ OnlyIssued /\ [PairingNext]_pairVars => OnlyIssued'
<1> SUFFICES ASSUME PairingInv, OnlyIssued, [PairingNext]_pairVars PROVE OnlyIssued'
  OBVIOUS
<1>t. /\ current \in PairKey \cup {0} /\ verdict \in [PairKey -> Verdict] /\ row \in Row
      /\ presenter \in [Presenter -> PresenterState] /\ caller \in [Caller -> CallerState]
  BY DEF PairingInv, RestTyped, RowTyped, PresentersTyped, CallersTyped
<1>r. NoPresenter.step = "idle" /\ NoCaller.step = "idle" /\ 0 <= current
  BY <1>t DEF NoPresenter, NoCaller, PairKey
<1>1. CASE Issue
  <2>1. \A k \in PairKey \cup {0} : k <= current => k <= current'
    BY <1>1, <1>t DEF Issue, PairKey
  <2> QED
    BY <1>1, <1>t, <2>1 DEF Issue, OnlyIssued, Row, PresenterState, CallerState
<1>2. CASE Suspend \/ Lapse \/ UNCHANGED pairVars
  BY <1>2, <1>t DEF Suspend, Lapse, pairVars, OnlyIssued, Row
<1>3. CASE PairCrash
  BY <1>3, <1>r DEF PairCrash, OnlyIssued
<1>4. ASSUME NEW k \in PairKey, Expire(k) PROVE OnlyIssued'
  BY <1>4, <1>t DEF Expire, OnlyIssued
<1>5. ASSUME NEW k \in PairKey, Posts(k) PROVE OnlyIssued'
  <2>1. PICK h \in Presenter, b \in Address \cup {0} : Present(h, k, b)
    BY <1>5 DEF Posts
  <2>2. /\ presenter'[h].step = IF verdict[k] = "yes" THEN "reading" ELSE "asking"
        /\ presenter'[h].key = k
        /\ \A g \in Presenter : g # h => presenter'[g] = presenter[g]
        /\ UNCHANGED <<current, verdict, row, caller>>
    BY <1>t, <2>1 DEF Present
  <2> QED
    BY <2>2 DEF OnlyIssued
<1>6. ASSUME NEW h \in Presenter, PresenterStep(h) PROVE OnlyIssued'
  <2> DEFINE p == presenter[h]
  <2>1. \A g \in Presenter : g # h => presenter'[g] = presenter[g]
    BY <1>6, <1>t DEF PresenterStep, AskAuthority, KeepVerdict, ReadRow, WriteRow
  <2>2. CASE AskAuthority(h)
    <3>1. /\ presenter'[h].step \in {"accepted", "reading", "writing"} =>
               presenter'[h].key = p.key /\ p.key = current
          /\ UNCHANGED <<current, verdict, row, caller>>
      BY <1>r, <1>t, <2>2 DEF AskAuthority, PresenterState
    <3> QED
      BY <1>t, <2>1, <3>1 DEF OnlyIssued, PairKey
  <2>3. CASE KeepVerdict(h)
    <3>1. \/ /\ p.step = "accepted" /\ presenter'[h].key = p.key
             /\ verdict' = verdict \/ verdict' = [verdict EXCEPT ![p.key] = "yes"]
          \/ /\ presenter'[h].step = "idle"
             /\ verdict' = verdict \/ verdict' = [verdict EXCEPT ![p.key] = "no"]
      BY <1>r, <1>t, <2>3 DEF KeepVerdict, PresenterState
    <3>2. UNCHANGED <<current, row, caller>>
      BY <2>3 DEF KeepVerdict
    <3>3. p.step = "accepted" => p.key <= current
      BY DEF OnlyIssued
    <3>4. \A k \in PairKey : verdict'[k] = "yes" => k <= current
      BY <1>t, <3>1, <3>3 DEF OnlyIssued
    <3> QED
      BY <2>1, <3>1, <3>2, <3>3, <3>4 DEF OnlyIssued
  <2>4. CASE ReadRow(h)
    <3>1. p.step = "reading" /\ presenter'[h].key = p.key /\ UNCHANGED <<current, verdict, row, caller>>
      BY <1>t, <2>4 DEF ReadRow, PresenterState
    <3> QED
      BY <2>1, <3>1 DEF OnlyIssued
  <2>5. CASE WriteRow(h)
    <3>1. /\ p.step = "writing" /\ presenter'[h].step = "idle"
          /\ row'.key = row.key \/ row'.key = p.key
          /\ UNCHANGED <<current, verdict, caller>>
      BY <1>r, <1>t, <2>5 DEF WriteRow, Stored
    <3> QED
      BY <2>1, <3>1 DEF OnlyIssued
  <2> QED
    BY <1>6, <2>2, <2>3, <2>4, <2>5 DEF PresenterStep
<1>7. ASSUME NEW c \in Caller, CallerStep(c) PROVE OnlyIssued'
  <2>1. /\ \A d \in Caller : d # c => caller'[d] = caller[d]
        /\ caller'[c].step # "idle" =>
             caller'[c].key = row.key \/ (caller[c].step # "idle" /\ caller'[c].key = caller[c].key)
    BY <1>7, <1>r, <1>t
      DEF CallerStep, ReadKey, ReadCheck, AskAddress, RecordCheck, EndCall, Moves, CallerState
  <2>2. row'.key = row.key /\ UNCHANGED <<current, verdict, presenter>>
    BY <1>7, <1>t
      DEF CallerStep, ReadKey, ReadCheck, AskAddress, RecordCheck, EndCall, Row
  <2> QED
    BY <2>1, <2>2 DEF OnlyIssued
<1> QED
  BY <1>1, <1>2, <1>3, <1>4, <1>5, <1>6, <1>7 DEF PairingNext

\* No key passes the door, is stored or signs a call before it was in force: whatever is
\* kept, expires, is overwritten by a late POST or lost in a crash, every yes goes back to
\* an answer of the fleet manager (verifyPairKey, guardarChaveApresentada).
THEOREM KeysWereInForce == PairingSpec => []OnlyIssued
<1>1. PairingInit => OnlyIssued
  BY DEF PairingInit, OnlyIssued, NoRow, NoPresenter, NoCaller
<1> QED
  BY <1>1, PairingInitInv, PairingStepInv, OnlyIssuedStep, PTL DEF PairingSpec

-----------------------------------------------------------------------------
(* The heartbeat: what a heartbeat that is past its answer leaves behind   *)
(* it is at the fleet manager, or was written while it was on its way; so  *)
(* the mark may be set where the logs end by then.                         *)

\* What has been reported, is on its way with a, or is excused.
Covered(a) == reported \cup between \cup asker[a].sent \cup 1..mark

LogsTyped == logs \in Nat /\ mark \in Nat /\ mark <= logs

AskersTyped ==
  \A a \in Asker : /\ asker[a].step \in {"idle", "asking", "comparing", "caching", "marking"}
                   /\ asker[a].step = "marking" => a \in Beat

\* A log is with the heartbeat that is asking, or it is passed over for a reason.
Accounted ==
  \A h \in Beat :
    /\ asker[h].step = "asking" => 1..logs \subseteq Covered(h)
    /\ asker[h].step \in {"comparing", "caching", "marking"} => 1..logs \subseteq reported \cup between

BeatInv ==
  LogsTyped /\ DOMAIN asker = Asker /\ AskersTyped /\ Accounted /\ UnreportedIsBetween

\* No log was written yet.
LEMMA BeatInitInv == HeartbeatInit => BeatInv
BY DEF HeartbeatInit, BeatInv, LogsTyped, AskersTyped, Accounted, UnreportedIsBetween, NoAsker

\* A step of a that neither moves the mark nor takes a report back, and leaves a accounted
\* for, keeps the invariant.
LEMMA AskerInv ==
  ASSUME BeatInv, NEW a \in Asker, NEW new,
         asker' = [asker EXCEPT ![a] = new],
         new.step \in {"idle", "asking", "comparing", "caching", "marking"},
         new.step = "marking" => a \in Beat,
         a \in Beat /\ new.step = "asking" =>
           1..logs \subseteq reported' \cup between \cup new.sent \cup 1..mark,
         a \in Beat /\ new.step \in {"comparing", "caching", "marking"} =>
           1..logs \subseteq reported' \cup between,
         reported \subseteq reported', UNCHANGED <<logs, mark, between>>
  PROVE  BeatInv'
<1>1. LogsTyped' /\ DOMAIN asker' = Asker /\ UnreportedIsBetween'
  BY DEF BeatInv, LogsTyped, UnreportedIsBetween
<1>2. \A b \in Asker : asker'[b] = IF b = a THEN new ELSE asker[b]
  BY DEF BeatInv
<1>3. AskersTyped'
  BY <1>2 DEF BeatInv, AskersTyped
<1>4. Accounted'
  <2> SUFFICES ASSUME NEW h \in Beat
               PROVE  /\ asker'[h].step = "asking" => 1..logs' \subseteq Covered(h)'
                      /\ asker'[h].step \in {"comparing", "caching", "marking"} =>
                           1..logs' \subseteq reported' \cup between'
    BY DEF Accounted
  <2>1. h \in Asker
    BY DEF Asker
  <2>2. CASE h = a
    BY <1>2, <2>1, <2>2 DEF Covered
  <2>3. CASE h # a
    BY <1>2, <2>1, <2>3 DEF BeatInv, Accounted, Covered
  <2> QED
    BY <2>2, <2>3
<1> QED
  BY <1>1, <1>3, <1>4 DEF BeatInv

\* A log written while a heartbeat is on its way is excused, and a log written while none
\* is finds nobody who passes over it.
LEMMA WriteLogInv == ASSUME BeatInv, WriteLog PROVE BeatInv'
<1>1. logs \in Nat /\ mark \in Nat /\ mark <= logs /\ logs' = logs + 1 /\ mark' = mark
  BY DEF BeatInv, LogsTyped, WriteLog
<1>2. 1..logs' = 1..logs \cup {logs + 1} /\ between \subseteq between'
  BY <1>1 DEF WriteLog
<1>3. LogsTyped' /\ DOMAIN asker' = Asker /\ AskersTyped' /\ UnreportedIsBetween'
  BY <1>1, <1>2 DEF WriteLog, BeatInv, LogsTyped, AskersTyped, UnreportedIsBetween
<1>4. Accounted'
  <2> SUFFICES ASSUME NEW h \in Beat
               PROVE  /\ asker'[h].step = "asking" => 1..logs' \subseteq Covered(h)'
                      /\ asker'[h].step \in {"comparing", "caching", "marking"} =>
                           1..logs' \subseteq reported' \cup between'
    BY DEF Accounted
  <2>1. CASE Unmarked(h)
    <3>1. between' = between \cup {logs + 1}
      BY <2>1 DEF WriteLog
    <3> QED
      BY <1>2, <3>1 DEF WriteLog, BeatInv, Accounted, Covered
  <2>2. CASE ~Unmarked(h)
    BY <2>2 DEF WriteLog, Unmarked
  <2> QED
    BY <2>1, <2>2
<1> QED
  BY <1>3, <1>4 DEF BeatInv

\* The mark passes over what is reported or excused.
LEMMA SetMarkInv == ASSUME BeatInv, NEW a \in Asker, SetMark(a) PROVE BeatInv'
<1>1. a \in Beat /\ 1..logs \subseteq reported \cup between
  BY DEF SetMark, BeatInv, AskersTyped, Accounted
<1>2. logs \in Nat /\ mark' = logs /\ logs' = logs /\ reported' = reported /\ between' = between
  BY DEF SetMark, BeatInv, LogsTyped
<1>3. LogsTyped' /\ UnreportedIsBetween'
  BY <1>1, <1>2 DEF LogsTyped, UnreportedIsBetween
<1>4. \A b \in Asker : asker'[b] = IF b = a THEN NoAsker ELSE asker[b]
  BY DEF SetMark, Ends, BeatInv
<1>5. DOMAIN asker' = Asker /\ AskersTyped'
  BY <1>4 DEF SetMark, Ends, BeatInv, AskersTyped, NoAsker
<1>6. Accounted'
  BY <1>1, <1>2 DEF Accounted, Covered
<1> QED
  BY <1>3, <1>5, <1>6 DEF BeatInv

\* Every step of the heartbeat keeps the invariant.
LEMMA BeatStepInv == BeatInv /\ [HeartbeatNext]_beatVars => BeatInv'
<1> SUFFICES ASSUME BeatInv, [HeartbeatNext]_beatVars PROVE BeatInv'
  OBVIOUS
<1>1. CASE Decide \/ Forget \/ UNCHANGED beatVars
  <2>1. UNCHANGED <<logs, mark, reported, between, asker>>
    BY <1>1 DEF Decide, Forget, beatVars
  <2> QED
    BY <2>1 DEF BeatInv, LogsTyped, AskersTyped, Accounted, Covered, UnreportedIsBetween
<1>2. CASE BeatCrash
  BY <1>2 DEF BeatCrash, BeatInv, LogsTyped, AskersTyped, Accounted, UnreportedIsBetween, NoAsker, Asker
<1>3. ASSUME NEW a \in Asker, Collect(a) \/ AskerStep(a) PROVE BeatInv'
  <2>1. CASE Collect(a)
    <3> DEFINE new == [asker[a] EXCEPT !.step = "asking",
                                       !.sent = IF a \in Beat THEN mark + 1..logs ELSE {}]
    <3>1. asker' = [asker EXCEPT ![a] = new] /\ UNCHANGED <<logs, mark, reported, between>>
      BY <2>1 DEF Collect
    <3>2. new.step = "asking"
      BY DEF Collect
    <3>3. a \in Beat => 1..logs \subseteq new.sent \cup 1..mark
      BY DEF BeatInv, LogsTyped
    <3> QED
      BY <3>1, <3>2, <3>3, AskerInv
  <2>2. CASE Ask(a)
    <3>1. CASE Ends(a)
      BY <2>2, <3>1, AskerInv DEF Ask, Ends, NoAsker
    <3>2. CASE reported' = reported \cup asker[a].sent /\ ~Ends(a)
      <4> DEFINE new == [step |-> "comparing", sent |-> {}, licence |-> fleet]
      <4>1. asker' = [asker EXCEPT ![a] = new] /\ UNCHANGED <<logs, mark, between>>
        BY <2>2, <3>2 DEF Ask
      <4>2. a \in Beat => 1..logs \subseteq reported' \cup between
        BY <2>2, <3>2 DEF Ask, BeatInv, Accounted, Covered, UnreportedIsBetween
      <4> QED
        BY <3>2, <4>1, <4>2, AskerInv
    <3> QED
      BY <2>2, <3>1, <3>2 DEF Ask
  <2>3. CASE Compare(a)
    <3>1. UNCHANGED <<logs, mark, reported, between>> /\ asker[a].step = "comparing"
      BY <2>3 DEF Compare
    <3>2. CASE Ends(a)
      BY <3>1, <3>2, AskerInv DEF Ends, NoAsker
    <3>3. CASE Proceeds(a, "caching")
      <4> DEFINE new == [asker[a] EXCEPT !.step = "caching"]
      <4>1. asker' = [asker EXCEPT ![a] = new]
        BY <3>3 DEF Proceeds
      <4>2. new.step \in {"caching", asker[a].step}
        OBVIOUS
      <4>3. a \in Beat => 1..logs \subseteq reported \cup between
        BY <3>1 DEF BeatInv, Accounted
      <4>4. new.step # "marking" /\ new.step # "asking"
        BY <3>1, <4>2
      <4> QED
        BY <3>1, <4>1, <4>2, <4>3, <4>4, AskerInv
    <3> QED
      BY <2>3, <3>2, <3>3 DEF Compare
  <2>4. CASE CacheIt(a)
    <3>1. UNCHANGED <<logs, mark, reported, between>> /\ asker[a].step = "caching"
      BY <2>4 DEF CacheIt
    <3>2. CASE a \notin Beat
      BY <2>4, <3>1, <3>2, AskerInv DEF CacheIt, Ends, NoAsker
    <3>3. CASE a \in Beat
      <4> DEFINE new == [asker[a] EXCEPT !.step = "marking", !.licence = "none"]
      <4>1. asker' = [asker EXCEPT ![a] = new]
        BY <2>4, <3>3 DEF CacheIt
      <4>2. new.step \in {"marking", asker[a].step}
        OBVIOUS
      <4>3. 1..logs \subseteq reported \cup between
        BY <3>1, <3>3 DEF BeatInv, Accounted
      <4>4. new.step # "asking"
        BY <3>1, <4>2
      <4> QED
        BY <3>1, <3>3, <4>1, <4>2, <4>3, <4>4, AskerInv
    <3> QED
      BY <3>2, <3>3
  <2> QED
    BY <1>3, <2>1, <2>2, <2>3, <2>4, SetMarkInv DEF AskerStep
<1> QED
  BY <1>1, <1>2, <1>3, WriteLogInv DEF HeartbeatNext

\* Whatever heartbeats and polls run at once, crash or lose their answers, the mark passes
\* over no log the fleet manager does not have, but for those written while a heartbeat
\* was on its way (collectRecentLogs, lastLogSync).
THEOREM LogsAreReported == HeartbeatSpec => []UnreportedIsBetween
<1>1. BeatInv => UnreportedIsBetween
  BY DEF BeatInv
<1> QED
  BY <1>1, BeatInitInv, BeatStepInv, PTL DEF HeartbeatSpec

-----------------------------------------------------------------------------
(* The heartbeat's types, and the order of the answers: an answer in hand  *)
(* is a licence the fleet manager gave, and of two one was issued first.   *)

\* Who is on its way has asked a fleet manager, and sends logs that were written.
AnswersTyped ==
  \A a \in Asker :
    /\ asker[a].step # "idle" => fleet # "none"
    /\ asker[a].step \in {"comparing", "caching"} => asker[a].licence # "none"
    /\ asker[a].sent \subseteq 1..logs

BeatTypeInv == HeartbeatTypeOK /\ AnswersTyped

\* Nobody holds an answer yet, and none is ordered.
LEMMA BeatTypeInitInv == HeartbeatInit => BeatTypeInv
<1> SUFFICES ASSUME HeartbeatInit PROVE BeatTypeInv
  OBVIOUS
<1>1. NoAsker \in AskerState /\ NoAsker.step = "idle" /\ NoAsker.sent = {}
  BY DEF NoAsker, AskerState
<1>2. asker \in [Asker -> AskerState] /\ AnswersTyped
  BY <1>1 DEF HeartbeatInit, AnswersTyped
<1>3. IssuedInOrder
  BY <1>1 DEF HeartbeatInit, IssuedInOrder, Before, Holds
<1> QED
  BY <1>2, <1>3, HeartbeatAssumption
  DEF HeartbeatAssumption, HeartbeatInit, BeatTypeInv, HeartbeatTypeOK, Licence

\* Another trouble is within the bound.
LEMMA BeatTroubleTyped ==
  ASSUME beatTroubles \in 0..MaxBeatTrouble, BeatTrouble \/ UNCHANGED beatTroubles
  PROVE  beatTroubles' \in 0..MaxBeatTrouble
BY HeartbeatAssumption DEF HeartbeatAssumption, BeatTrouble

\* Who stops holding an answer takes its place out of the order, and the others keep theirs.
LEMMA OrderWithout ==
  ASSUME IssuedInOrder, NEW gone \in Holder, issued' = IssuedWithout(gone),
         \A x \in Holder : Holds(x)' <=> Holds(x) /\ x # gone
  PROVE  IssuedInOrder'
<1>1. \A x, y \in Holder : Before(x, y)' <=> Before(x, y) /\ x # gone /\ y # gone
  <2> SUFFICES ASSUME NEW x \in Holder, NEW y \in Holder
               PROVE  <<x, y>> \in issued' <=> <<x, y>> \in issued /\ x # gone /\ y # gone
    BY DEF Before
  <2>1. <<x, y>>[1] = x /\ <<x, y>>[2] = y
    OBVIOUS
  <2> QED
    BY <2>1 DEF IssuedWithout
<1>2. issued' \subseteq Holder \X Holder
  BY DEF IssuedInOrder, IssuedWithout
<1> QED
  BY <1>1, <1>2 DEF IssuedInOrder

\* An answer that comes was issued after those that are held.
LEMMA OrderWith ==
  ASSUME IssuedInOrder, NEW a \in Holder, ~Holds(a),
         issued' = issued \cup {<<x, a>> : x \in {y \in Holder : Holds(y)}},
         \A x \in Holder : Holds(x)' <=> Holds(x) \/ x = a
  PROVE  IssuedInOrder'
<1>1. \A x, y \in Holder : Before(x, y)' <=> Before(x, y) \/ (y = a /\ Holds(x))
  <2> SUFFICES ASSUME NEW x \in Holder, NEW y \in Holder
               PROVE  <<x, y>> \in issued' <=> <<x, y>> \in issued \/ (y = a /\ Holds(x))
    BY DEF Before
  <2> QED
    OBVIOUS
<1>2. issued' \subseteq Holder \X Holder
  BY DEF IssuedInOrder
<1> QED
  BY <1>1, <1>2 DEF IssuedInOrder

\* Who writes the cache takes its place.
LEMMA OrderCached ==
  ASSUME IssuedInOrder, NEW a \in Asker, Holds(a), CacheIt(a),
         \A x \in Holder : Holds(x)' <=> (Holds(x) /\ x # a) \/ x = "cache"
  PROVE  IssuedInOrder'
<1> DEFINE Was(x) == IF x = "cache" THEN a ELSE x
<1>1. a \in Holder /\ "cache" \in Holder /\ a # "cache"
  BY HeartbeatAssumption DEF HeartbeatAssumption, Holder, Asker
<1>2. \A x \in Holder : Was(x) \in Holder
  BY <1>1
<1>3. \A x, y \in Holder : Before(x, y)' <=> x # a /\ y # a /\ Before(Was(x), Was(y))
  <2> SUFFICES ASSUME NEW x \in Holder, NEW y \in Holder
               PROVE  <<x, y>> \in issued' <=> x # a /\ y # a /\ Before(Was(x), Was(y))
    BY DEF Before
  <2>1. <<x, y>>[1] = x /\ <<x, y>>[2] = y
    OBVIOUS
  <2> HIDE DEF Was
  <2>2. issued' = {pair \in (Holder \ {a}) \X (Holder \ {a}) : Before(Was(pair[1]), Was(pair[2]))}
    BY DEF CacheIt, Was
  <2> QED
    BY <2>1, <2>2
<1>4. issued' \subseteq Holder \X Holder
  BY DEF CacheIt
<1>5. \A x \in Holder : Holds(x)' <=> x # a /\ Holds(Was(x))
  BY <1>1
<1>6. \A x, y \in Holder : x # a /\ y # a /\ x # y => Was(x) # Was(y)
  BY <1>1
<1> HIDE DEF Was
<1> QED
  BY <1>2, <1>3, <1>4, <1>5, <1>6 DEF IssuedInOrder

\* What a step of a leaves to be shown: its new state, and the order.
LEMMA AskerTyped ==
  ASSUME BeatTypeInv, NEW a \in Asker, NEW new \in AskerState,
         asker' = [asker EXCEPT ![a] = new],
         new.step # "idle" => fleet # "none",
         new.step \in {"comparing", "caching"} => new.licence # "none",
         new.sent \subseteq 1..logs,
         licence' \in Licence \cup {"none"},
         mark' \in 0..logs, reported' \subseteq 1..logs,
         BeatTrouble \/ UNCHANGED beatTroubles,
         IssuedInOrder',
         UNCHANGED <<fleet, logs, between>>
  PROVE  BeatTypeInv'
<1>1. /\ asker' \in [Asker -> AskerState] /\ asker'[a] = new
      /\ \A b \in Asker : b # a => asker'[b] = asker[b]
  BY DEF BeatTypeInv, HeartbeatTypeOK
<1>2. AnswersTyped'
  BY <1>1 DEF BeatTypeInv, AnswersTyped
<1>3. beatTroubles' \in 0..MaxBeatTrouble
  BY BeatTroubleTyped DEF BeatTypeInv, HeartbeatTypeOK
<1> QED
  BY <1>1, <1>2, <1>3 DEF BeatTypeInv, HeartbeatTypeOK

\* Who holds what, after a step of a.
LEMMA HoldersAfter ==
  ASSUME BeatTypeInv, NEW a \in Asker, NEW new, asker' = [asker EXCEPT ![a] = new]
  PROVE  /\ \A x \in Asker : x # a => (Holds(x)' <=> Holds(x))
         /\ Holds(a)' <=> new.step \in {"comparing", "caching"}
         /\ Holds(a) <=> asker[a].step \in {"comparing", "caching"}
         /\ Holds("cache") <=> licence # "none"
         /\ Holds("cache")' <=> licence' # "none"
         /\ Holder = Asker \cup {"cache"} /\ "cache" \notin Asker
<1>1. asker'[a] = new /\ \A x \in Asker : x # a => asker'[x] = asker[x]
  BY DEF BeatTypeInv, HeartbeatTypeOK
<1>2. "cache" \notin Asker
  BY HeartbeatAssumption DEF HeartbeatAssumption, Asker
<1> QED
  BY <1>1, <1>2 DEF Holds, Holder

\* Every step of the heartbeats and polls keeps the order of the answers.
LEMMA BeatTypeStepInv == BeatTypeInv /\ [HeartbeatNext]_beatVars => BeatTypeInv'
<1> SUFFICES ASSUME BeatTypeInv, [HeartbeatNext]_beatVars PROVE BeatTypeInv'
  OBVIOUS
<1> USE HeartbeatAssumption DEF HeartbeatAssumption
<1>0. /\ logs \in 0..MaxLogs /\ mark \in 0..logs /\ reported \subseteq 1..logs
      /\ between \subseteq 1..logs /\ fleet \in Licence \cup {"none"} /\ "none" \notin Licence
      /\ licence \in Licence \cup {"none"}
      /\ \A a \in Asker : asker[a] \in AskerState
      /\ NoAsker \in AskerState /\ NoAsker.step = "idle" /\ NoAsker.sent = {}
  BY DEF BeatTypeInv, HeartbeatTypeOK, NoAsker, AskerState, Licence
<1>1. CASE WriteLog
  <2>1. logs' = logs + 1 /\ logs' \in 0..MaxLogs /\ mark' \in 0..logs' /\ 1..logs \subseteq 1..logs'
    BY <1>0, <1>1 DEF WriteLog
  <2>2. between' \subseteq 1..logs' /\ reported' \subseteq 1..logs'
    BY <1>0, <1>1, <2>1 DEF WriteLog
  <2>3. AnswersTyped'
    BY <1>1, <2>1 DEF WriteLog, BeatTypeInv, AnswersTyped
  <2>4. IssuedInOrder'
    BY <1>1 DEF WriteLog, BeatTypeInv, HeartbeatTypeOK, IssuedInOrder, Before, Holds
  <2> QED
    BY <1>1, <2>1, <2>2, <2>3, <2>4 DEF WriteLog, BeatTypeInv, HeartbeatTypeOK
<1>2. CASE Decide
  <2>1. AnswersTyped' /\ fleet' \in Licence \cup {"none"}
    BY <1>0, <1>2 DEF Decide, BeatTypeInv, AnswersTyped
  <2>2. IssuedInOrder'
    BY <1>2 DEF Decide, BeatTypeInv, HeartbeatTypeOK, IssuedInOrder, Before, Holds
  <2> QED
    BY <1>2, <2>1, <2>2 DEF Decide, BeatTypeInv, HeartbeatTypeOK
<1>3. CASE Forget
  <2>1. \A x \in Holder : Holds(x)' <=> Holds(x) /\ x # "cache"
    BY <1>3 DEF Forget, Holds, Holder, Asker
  <2>2. IssuedInOrder'
    BY <1>3, <2>1, OrderWithout DEF Forget, BeatTypeInv, HeartbeatTypeOK, Holder
  <2>3. beatTroubles' \in 0..MaxBeatTrouble
    BY <1>3, BeatTroubleTyped DEF Forget, BeatTypeInv, HeartbeatTypeOK
  <2>4. AnswersTyped'
    BY <1>3 DEF Forget, BeatTypeInv, AnswersTyped
  <2> QED
    BY <1>3, <2>2, <2>3, <2>4 DEF Forget, BeatTypeInv, HeartbeatTypeOK
<1>4. CASE BeatCrash
  <2>1. asker' \in [Asker -> AskerState] /\ \A a \in Asker : asker'[a] = NoAsker
    BY <1>0, <1>4 DEF BeatCrash
  <2>2. AnswersTyped'
    BY <1>0, <2>1 DEF AnswersTyped
  <2>3. IssuedInOrder'
    <3>1. \A x \in Holder : Holds(x)' => x = "cache"
      BY <1>0, <2>1 DEF Holds
    <3> QED
      BY <1>4, <3>1 DEF BeatCrash, IssuedInOrder, Before
  <2>4. beatTroubles' \in 0..MaxBeatTrouble
    BY <1>4, BeatTroubleTyped DEF BeatCrash, BeatTypeInv, HeartbeatTypeOK
  <2> QED
    BY <1>4, <2>1, <2>2, <2>3, <2>4 DEF BeatCrash, BeatTypeInv, HeartbeatTypeOK
<1>5. ASSUME NEW a \in Asker, Collect(a) PROVE BeatTypeInv'
  <2> DEFINE new == [asker[a] EXCEPT !.step = "asking",
                                     !.sent = IF a \in Beat THEN mark + 1..logs ELSE {}]
  <2>1. asker' = [asker EXCEPT ![a] = new] /\ asker[a] \in AskerState
    BY <1>0, <1>5 DEF Collect
  <2>2. (IF a \in Beat THEN mark + 1..logs ELSE {}) \subseteq 1..logs
    BY <1>0
  <2>3. 1..logs \subseteq Log
    BY <1>0 DEF Log
  <2>4. /\ new \in AskerState /\ new.step = "asking"
        /\ new.sent \subseteq 1..logs
    BY <2>1, <2>2, <2>3 DEF AskerState
  <2> HIDE DEF new
  <2>5. \A x \in Holder : Holds(x)' <=> Holds(x)
    <3>1. asker[a].step = "idle" /\ UNCHANGED licence
      BY <1>5 DEF Collect
    <3> QED
      BY <2>1, <2>4, <3>1, HoldersAfter
  <2>6. IssuedInOrder'
    BY <1>5, <2>5 DEF Collect, BeatTypeInv, HeartbeatTypeOK, IssuedInOrder, Before
  <2> QED
    BY <1>0, <1>5, <2>1, <2>4, <2>6, AskerTyped DEF Collect
<1>6. ASSUME NEW a \in Asker, Ask(a) PROVE BeatTypeInv'
  <2>1. fleet # "none" /\ asker[a].sent \subseteq 1..logs /\ asker[a].step = "asking"
    BY <1>6 DEF Ask, BeatTypeInv, AnswersTyped
  <2>2. reported' \subseteq 1..logs /\ UNCHANGED <<fleet, licence, logs, mark, between>>
    BY <1>0, <1>6, <2>1 DEF Ask
  <2>3. CASE BeatTrouble /\ Ends(a) /\ UNCHANGED issued
    <3>1. asker' = [asker EXCEPT ![a] = NoAsker]
      BY <2>3 DEF Ends
    <3>2. \A x \in Holder : Holds(x)' <=> Holds(x)
      BY <1>0, <2>1, <2>2, <3>1, HoldersAfter
    <3>3. IssuedInOrder'
      BY <2>3, <3>2 DEF BeatTypeInv, HeartbeatTypeOK, IssuedInOrder, Before
    <3> QED
      BY <1>0, <2>2, <2>3, <3>1, <3>3, AskerTyped
  <2>4. CASE /\ issued' = issued \cup {<<x, a>> : x \in {y \in Holder : Holds(y)}}
             /\ asker' = [asker EXCEPT ![a] = [step |-> "comparing", sent |-> {}, licence |-> fleet]]
             /\ UNCHANGED beatTroubles
    <3> DEFINE new == [step |-> "comparing", sent |-> {}, licence |-> fleet]
    <3>1. /\ new \in AskerState /\ new.step = "comparing" /\ new.sent = {} /\ new.licence = fleet
          /\ asker' = [asker EXCEPT ![a] = new]
      BY <1>0, <2>4 DEF AskerState
    <3> HIDE DEF new
    <3>2. ~Holds(a) /\ a \in Holder /\ \A x \in Holder : Holds(x)' <=> Holds(x) \/ x = a
      BY <2>1, <2>2, <3>1, HoldersAfter
    <3>3. IssuedInOrder'
      BY <2>4, <3>2, OrderWith DEF BeatTypeInv, HeartbeatTypeOK
    <3> QED
      BY <1>0, <2>1, <2>2, <2>4, <3>1, <3>3, AskerTyped
  <2> QED
    BY <1>6, <2>3, <2>4 DEF Ask
<1>7. ASSUME NEW a \in Asker, Compare(a) PROVE BeatTypeInv'
  <2>1. /\ asker[a].step = "comparing"
        /\ UNCHANGED <<fleet, licence, logs, mark, reported, between, beatTroubles>>
    BY <1>7 DEF Compare
  <2>2. CASE Proceeds(a, "caching") /\ UNCHANGED issued
    <3> DEFINE new == [asker[a] EXCEPT !.step = "caching"]
    <3>1. /\ new \in AskerState /\ new.step = "caching" /\ new.sent = asker[a].sent
          /\ new.licence = asker[a].licence
      BY <1>0 DEF AskerState
    <3>2. asker' = [asker EXCEPT ![a] = new]
      BY <2>2 DEF Proceeds
    <3> HIDE DEF new
    <3>3. \A x \in Holder : Holds(x)' <=> Holds(x)
      BY <2>1, <3>1, <3>2, HoldersAfter
    <3>4. IssuedInOrder'
      BY <2>2, <3>3 DEF BeatTypeInv, HeartbeatTypeOK, IssuedInOrder, Before
    <3>5. fleet # "none" /\ asker[a].licence # "none" /\ asker[a].sent \subseteq 1..logs
      BY <2>1 DEF BeatTypeInv, AnswersTyped
    <3> QED
      BY <1>0, <2>1, <3>1, <3>2, <3>4, <3>5, AskerTyped
  <2>3. CASE Ends(a) /\ issued' = IssuedWithout(a)
    <3>1. asker' = [asker EXCEPT ![a] = NoAsker]
      BY <2>3 DEF Ends
    <3>2. a \in Holder /\ \A x \in Holder : Holds(x)' <=> Holds(x) /\ x # a
      BY <1>0, <2>1, <3>1, HoldersAfter
    <3>3. IssuedInOrder'
      BY <2>3, <3>2, OrderWithout DEF BeatTypeInv, HeartbeatTypeOK
    <3> QED
      BY <1>0, <2>1, <3>1, <3>3, AskerTyped
  <2> QED
    BY <1>7, <2>2, <2>3 DEF Compare
<1>8. ASSUME NEW a \in Asker, CacheIt(a) PROVE BeatTypeInv'
  <2>1. /\ asker[a].step = "caching" /\ licence' = asker[a].licence
        /\ UNCHANGED <<fleet, logs, mark, reported, between, beatTroubles>>
    BY <1>8 DEF CacheIt
  <2>2. fleet # "none" /\ asker[a].licence # "none" /\ asker[a].sent \subseteq 1..logs
    BY <2>1 DEF BeatTypeInv, AnswersTyped
  <2>3. licence' \in Licence \cup {"none"} /\ licence' # "none"
    BY <1>0, <2>1, <2>2 DEF AskerState
  <2>4. PICK new \in AskerState : /\ asker' = [asker EXCEPT ![a] = new]
                                  /\ new.step \notin {"comparing", "caching"}
                                  /\ new.sent \subseteq 1..logs
    <3>1. CASE a \in Beat
      <4> DEFINE n == [asker[a] EXCEPT !.step = "marking", !.licence = "none"]
      <4>1. n \in AskerState /\ n.step = "marking" /\ n.sent = asker[a].sent
        BY <1>0 DEF AskerState
      <4>2. asker' = [asker EXCEPT ![a] = n]
        BY <1>8, <3>1 DEF CacheIt
      <4> HIDE DEF n
      <4> QED
        BY <2>2, <4>1, <4>2
    <3>2. CASE a \notin Beat
      BY <1>0, <1>8, <3>2 DEF CacheIt, Ends
    <3> QED
      BY <3>1, <3>2
  <2>5. Holds(a) /\ \A x \in Holder : Holds(x)' <=> (Holds(x) /\ x # a) \/ x = "cache"
    BY <2>1, <2>3, <2>4, HoldersAfter
  <2>6. IssuedInOrder'
    BY <1>8, <2>5, OrderCached DEF BeatTypeInv, HeartbeatTypeOK
  <2> QED
    BY <1>0, <2>1, <2>2, <2>3, <2>4, <2>6, AskerTyped
<1>9. ASSUME NEW a \in Asker, SetMark(a) PROVE BeatTypeInv'
  <2>1. /\ asker' = [asker EXCEPT ![a] = NoAsker] /\ mark' = logs /\ asker[a].step = "marking"
        /\ UNCHANGED <<fleet, licence, issued, logs, reported, between, beatTroubles>>
    BY <1>9 DEF SetMark, Ends
  <2>2. mark' \in 0..logs
    BY <1>0, <2>1
  <2>3. \A x \in Holder : Holds(x)' <=> Holds(x)
    BY <1>0, <2>1, HoldersAfter
  <2>4. IssuedInOrder'
    BY <2>1, <2>3 DEF BeatTypeInv, HeartbeatTypeOK, IssuedInOrder, Before
  <2> QED
    BY <1>0, <2>1, <2>2, <2>4, AskerTyped
<1>10. CASE UNCHANGED beatVars
  BY <1>10 DEF beatVars, BeatTypeInv, HeartbeatTypeOK, AnswersTyped, IssuedInOrder, Before, Holds
<1> QED
  BY <1>1, <1>2, <1>3, <1>4, <1>5, <1>6, <1>7, <1>8, <1>9, <1>10 DEF HeartbeatNext, AskerStep

-----------------------------------------------------------------------------
(* The knowledge: while no two heartbeats held the entry between the read  *)
(* and the write, whoever creates it finds none and is alone.              *)

DeliveryInv ==
  /\ copies \in Nat
  /\ paired \in BOOLEAN
  /\ bearer \in [Bearer -> BearerStep]
  /\ ~paired => \A b \in Bearer : bearer[b] = "reconciling" =>
                   copies = 0 /\ \A c \in Bearer : bearer[c] = "reconciling" => c = b
  /\ StoredOnce

\* No entry is there and no heartbeat has met another.
LEMMA DeliveryInitInv == DeliveryInit => DeliveryInv
<1> SUFFICES ASSUME DeliveryInit PROVE DeliveryInv
  OBVIOUS
<1>1. copies = 0 /\ paired = FALSE /\ bearer = [b \in Bearer |-> "idle"]
  BY DEF DeliveryInit
<1>2. bearer \in [Bearer -> BearerStep] /\ \A b \in Bearer : bearer[b] # "reconciling"
  BY <1>1 DEF BearerStep
<1>3. copies \in Nat /\ copies <= 1
  BY <1>1
<1>4. paired \in BOOLEAN
  BY <1>1, Zenon
<1> QED
  BY <1>2, <1>3, <1>4 DEF DeliveryInv, StoredOnce

\* While no two heartbeats met, whoever creates the entry is alone.
LEMMA DeliveryStepInv == DeliveryInv /\ [DeliveryNext]_deliveryVars => DeliveryInv'
<1> SUFFICES ASSUME DeliveryInv, [DeliveryNext]_deliveryVars PROVE DeliveryInv'
  OBVIOUS
<1>1. CASE Push \/ UNCHANGED deliveryVars
  BY <1>1 DEF Push, deliveryVars, DeliveryInv, StoredOnce
<1>2. CASE DeliveryCrash
  BY <1>2 DEF DeliveryCrash, DeliveryInv, BearerStep, StoredOnce
<1>3. ASSUME NEW b \in Bearer, Bring(b) \/ Confirm(b) PROVE DeliveryInv'
  BY <1>3 DEF Bring, Confirm, DeliveryInv, BearerStep, StoredOnce
<1>4. ASSUME NEW b \in Bearer, Find(b) PROVE DeliveryInv'
  <2>1. bearer' \in [Bearer -> BearerStep]
    BY <1>4 DEF Find, DeliveryInv, BearerStep
  <2>2. copies' = copies /\ copies \in Nat /\ paired' \in BOOLEAN /\ (paired => paired')
    BY <1>4 DEF Find, DeliveryInv
  <2>3. CASE paired'
    BY <2>1, <2>2, <2>3 DEF DeliveryInv, StoredOnce
  <2>4. CASE ~paired' /\ Received
    <3>1. \A c \in Bearer : bearer'[c] = "reconciling" => bearer[c] = "reconciling"
      BY <1>4, <2>4 DEF Find, DeliveryInv
    <3> QED
      BY <2>1, <2>2, <2>4, <3>1 DEF DeliveryInv, StoredOnce
  <2>5. CASE ~paired' /\ ~Received
    <3>1. \A c \in Bearer : bearer'[c] = "reconciling" => c = b
      BY <1>4, <2>5 DEF Find, DeliveryInv
    <3>2. copies' = 0
      BY <2>2, <2>5 DEF Received
    <3> QED
      BY <2>1, <2>2, <3>1, <3>2 DEF DeliveryInv, StoredOnce
  <2> QED
    BY <2>2, <2>3, <2>4, <2>5
<1>5. ASSUME NEW b \in Bearer, Reconcile(b) PROVE DeliveryInv'
  BY <1>5 DEF Reconcile, DeliveryInv, BearerStep, StoredOnce
<1> QED
  BY <1>1, <1>2, <1>3, <1>4, <1>5 DEF DeliveryNext

\* An entry that is delivered again is not created twice, unless two heartbeats looked for
\* it before either created it (findKnowledgeBaseEntryByFleetGlobalId).
THEOREM EntryStoredOnce == DeliverySpec => []StoredOnce
<1>1. DeliveryInv => StoredOnce
  BY DEF DeliveryInv
<1> QED
  BY <1>1, DeliveryInitInv, DeliveryStepInv, PTL DEF DeliverySpec

\* An entry that was not sent is nobody's.
DeliveryTypeInv ==
  DeliveryTypeOK /\ (pushed = "no" => \A b \in Bearer : bearer[b] = "idle")

\* The types of the delivery hold at first.
LEMMA DeliveryTypeInitInv == DeliveryInit => DeliveryTypeInv
<1> SUFFICES ASSUME DeliveryInit PROVE DeliveryTypeInv
  OBVIOUS
<1>1. paired \in BOOLEAN
  BY Zenon DEF DeliveryInit
<1>2. bearer \in [Bearer -> BearerStep]
  BY DEF DeliveryInit, BearerStep
<1> QED
  BY <1>1, <1>2, DeliveryAssumption
  DEF DeliveryAssumption, DeliveryInit, DeliveryTypeInv, DeliveryTypeOK

\* The types of the delivery survive every step.
LEMMA DeliveryTypeStepInv == DeliveryTypeInv /\ [DeliveryNext]_deliveryVars => DeliveryTypeInv'
<1> SUFFICES ASSUME DeliveryTypeInv, [DeliveryNext]_deliveryVars PROVE DeliveryTypeInv'
  OBVIOUS
<1> USE DeliveryAssumption DEF DeliveryAssumption, DeliveryTrouble
<1>1. CASE Push \/ UNCHANGED deliveryVars
  BY <1>1 DEF Push, deliveryVars, DeliveryTypeInv, DeliveryTypeOK
<1>2. CASE DeliveryCrash
  BY <1>2 DEF DeliveryCrash, DeliveryTypeInv, DeliveryTypeOK, BearerStep
<1>3. ASSUME NEW b \in Bearer, Bring(b) PROVE DeliveryTypeInv'
  BY <1>3 DEF Bring, DeliveryTypeInv, DeliveryTypeOK, BearerStep
<1>4. ASSUME NEW b \in Bearer, Find(b) PROVE DeliveryTypeInv'
  <2>1. paired' \in BOOLEAN
    BY <1>4, Zenon DEF Find
  <2> QED
    BY <1>4, <2>1 DEF Find, DeliveryTypeInv, DeliveryTypeOK, BearerStep
<1>5. ASSUME NEW b \in Bearer, Reconcile(b) PROVE DeliveryTypeInv'
  BY <1>5 DEF Reconcile, DeliveryTypeInv, DeliveryTypeOK, BearerStep
<1>6. ASSUME NEW b \in Bearer, Confirm(b) PROVE DeliveryTypeInv'
  BY <1>6 DEF Confirm, DeliveryTypeInv, DeliveryTypeOK, BearerStep
<1> QED
  BY <1>1, <1>2, <1>3, <1>4, <1>5, <1>6 DEF DeliveryNext

-----------------------------------------------------------------------------
(* The four together: one moves, and the others rest *)

DoorInv == TypeOK /\ Bodies /\ PairingInv /\ BeatTypeInv /\ DeliveryTypeInv

\* The doors start one beside the other.
LEMMA DoorInitInv == DoorInit => DoorInv
BY Start, PairingInitInv, BeatTypeInitInv, DeliveryTypeInitInv DEF DoorInit, DoorInv, IInv

\* One of the doors moves, and the others stay.
LEMMA DoorStepInv ==
  DoorInv /\ [Keys \/ ThePairing \/ TheHeartbeat \/ Knowledge]_doorVars => DoorInv'
<1> SUFFICES ASSUME DoorInv, [Keys \/ ThePairing \/ TheHeartbeat \/ Knowledge]_doorVars
             PROVE  DoorInv'
  OBVIOUS
<1>1. [Next]_vars /\ [PairingNext]_pairVars /\ [HeartbeatNext]_beatVars
        /\ [DeliveryNext]_deliveryVars
  BY DEF Keys, ThePairing, TheHeartbeat, Knowledge, doorVars
<1>2. TypeOK' /\ Bodies'
  BY <1>1, TypeStep, BodiesStep DEF DoorInv
<1>3. PairingInv' /\ BeatTypeInv' /\ DeliveryTypeInv'
  BY <1>1, PairingStepInv, BeatTypeStepInv, DeliveryTypeStepInv DEF DoorInv
<1> QED
  BY <1>2, <1>3 DEF DoorInv

\* Whatever the four do, in whatever order, each keeps its type: an answered reservation
\* alone has a response, a call has a stored key, of two answers in hand or in the cache
\* one was issued first, and nothing is stored that was not sent.
THEOREM DoorsTyped == DoorSpec => []DoorTypeOK
<1>1. DoorInv => DoorTypeOK
  BY PairingTyped DEF DoorInv, BeatTypeInv, DeliveryTypeInv, DoorTypeOK
<1> QED
  BY <1>1, DoorInitInv, DoorStepInv, PTL DEF DoorSpec

=============================================================================
