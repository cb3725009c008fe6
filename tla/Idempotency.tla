----------------------------- MODULE Idempotency ----------------------------
(***************************************************************************)
(* withIdempotency (utils/idempotency.ts): every write the CRM sends with  *)
(* an Idempotency-Key reserves the key in idempotency_records, runs, and   *)
(* stores its answer in the reservation for the retries to receive.  A     *)
(* reservation in flight for 90 s is taken over by the next request.       *)
(*                                                                         *)
(* One (tenant, scope, key).  The scope is that of POST /demands, whose    *)
(* run is idempotent by itself (demand_ref is unique), or that of PATCH    *)
(* /demands/{ref}, whose run registers one more update each time.          *)
(*                                                                         *)
(* A handler that lives ends within the 90 s: its transactions and its     *)
(* calls have timeouts of seconds.  Abstracted: the bodies, of which only  *)
(* the request they answer and the number of the write remain.             *)
(***************************************************************************)
EXTENDS Naturals

CONSTANTS
  Request,    \* requests that may be in flight at the same time
  Payload,    \* bodies sent with the key, each for a demand of its own
  MaxMishaps  \* bound on the crashes and on the failed writes of the record

ASSUME IdempotencyBounds == MaxMishaps \in Nat /\ 0 \notin Payload

VARIABLES
  scope,    \* which of the two operations the key belongs to
  record,   \* the row of idempotency_records
  old,      \* it has been in flight for longer than EM_VOO_ABANDONADO_APOS_MS
  written,  \* [Payload -> Nat]: demands created, or updates registered
  req,      \* [Request -> RequestState]
  answer,   \* [Request -> Answer]: the last answer the request received
  mishaps

vars == <<scope, record, old, written, req, answer, mishaps>>

Scope == {"demand:create", "demand:update"}

\* A run's answer: what it answers to, and the number of the write (0: a 404 or a 409).
Response == [of : Payload \cup {0}, nth : Nat]
Nothing == [of |-> 0, nth |-> 0]

Record == [state : {"none", "in flight", "done"}, hash : Payload \cup {0}, response : Response]
NoRecord == [state |-> "none", hash |-> 0, response |-> Nothing]

Answer == [kind : {"none", "response", "in_flight", "different_payload", "500"},
           to : Payload \cup {0}, response : Response]
Only(kind, p) == [kind |-> kind, to |-> p, response |-> Nothing]
Replayed(p) == [kind |-> "response", to |-> p, response |-> record.response]

\* holds: the reservation whose id the request has is still there.
RequestState ==
  [step : {"idle", "reserving", "rereading", "taking", "running", "saving", "deleting"},
   payload : Payload \cup {0}, holds : BOOLEAN, response : Response]

Idle == [step |-> "idle", payload |-> 0, holds |-> FALSE, response |-> Nothing]
InFlight(step, p, holds) == [step |-> step, payload |-> p, holds |-> holds, response |-> Nothing]

\* Only an answered reservation has a response, and only a request has a reservation.
TypeOK ==
  /\ scope \in Scope
  /\ record \in Record
  /\ old \in BOOLEAN
  /\ written \in [Payload -> Nat]
  /\ req \in [Request -> RequestState]
  /\ answer \in [Request -> Answer]
  /\ mishaps \in 0..MaxMishaps
  /\ record.state # "done" => record.response = Nothing
  /\ old => record.state = "in flight"
  /\ \A r \in Request : req[r].holds => record.state # "none"

Init ==
  /\ scope \in Scope
  /\ record = NoRecord
  /\ old = FALSE
  /\ written = [p \in Payload |-> 0]
  /\ req = [r \in Request |-> Idle]
  /\ answer = [r \in Request |-> Only("none", 0)]
  /\ mishaps = 0

-----------------------------------------------------------------------------

At(r, step) == req[r].step = step

Finish(r, a) ==
  /\ req' = [req EXCEPT ![r] = Idle]
  /\ answer' = [answer EXCEPT ![r] = a]

\* Mutant of Interpreted: the hash is not compared.
InterpretedByKey(p) ==
  IF record.state = "in flight" THEN Only("in_flight", p)
  ELSE Replayed(p)

\* interpretarExistente: the answer an existing record gives to a request.
Interpreted(p) ==
  IF record.hash # p THEN Only("different_payload", p)
  ELSE IF record.state = "in flight" THEN Only("in_flight", p)
  ELSE Replayed(p)

\* Mutant of Abandoned: a reservation in flight always belongs to somebody.
NeverAbandoned == FALSE

\* emVooAbandonado
Abandoned == record.state = "in flight" /\ old

\* The first read of the record.
Lookup(r, p) ==
  /\ At(r, "idle")
  /\ \/ /\ record.state = "none"
        /\ req' = [req EXCEPT ![r] = InFlight("reserving", p, FALSE)]
        /\ answer' = [answer EXCEPT ![r] = Only("none", 0)]
     \/ /\ Abandoned
        /\ req' = [req EXCEPT ![r] = InFlight("taking", p, TRUE)]
        /\ answer' = [answer EXCEPT ![r] = Only("none", 0)]
     \/ /\ record.state # "none" /\ ~Abandoned
        /\ Finish(r, Interpreted(p))
  /\ UNCHANGED <<scope, record, old, written, mishaps>>

\* Mutant of Free: nothing but the first read separates two reservations.
FreeOnceRead == TRUE

\* The unique index lets the reservation in.
Free == record.state = "none"

\* create: the key is reserved, or somebody reserved it since the read.
Reserve(r) ==
  /\ At(r, "reserving")
  /\ \/ /\ Free
        /\ record' = [state |-> "in flight", hash |-> req[r].payload, response |-> Nothing]
        /\ old' = FALSE
        /\ req' = [req EXCEPT ![r].step = "running", ![r].holds = TRUE]
     \/ /\ ~Free
        /\ req' = [req EXCEPT ![r].step = "rereading"]
        /\ UNCHANGED <<record, old>>
  /\ UNCHANGED <<scope, written, answer, mishaps>>

\* The read after P2002: a record that is gone again is an error, and the age of one
\* that is there does not count.
Reread(r) ==
  /\ At(r, "rereading")
  /\ Finish(r, IF record.state = "none" THEN Only("500", req[r].payload) ELSE Interpreted(req[r].payload))
  /\ UNCHANGED <<scope, record, old, written, mishaps>>

\* updateMany where it is in flight; how many rows it wrote is not looked at, and the
\* request runs in any case.
TakeOver(r) ==
  /\ At(r, "taking")
  /\ IF req[r].holds /\ record.state = "in flight"
     THEN record' = [record EXCEPT !.hash = req[r].payload] /\ old' = FALSE
     ELSE UNCHANGED <<record, old>>
  /\ req' = [req EXCEPT ![r].step = "running"]
  /\ UNCHANGED <<scope, written, answer, mishaps>>

\* Mutant of Writes: the read of POST /demands is all that tells a demand exists, and
\* misses it.
WritesAgain(p) == TRUE

\* POST /demands answers with the demand it finds, by the read or by the unique index;
\* PATCH registers an update.
Writes(p) == scope = "demand:update" \/ written[p] = 0

\* run: it writes, or answers without writing (a demand that exists; for PATCH, one
\* that does not, or has ended), or throws.
Run(r) ==
  LET p == req[r].payload
      Answered(nth) ==
        req' = [req EXCEPT ![r].step = "saving", ![r].response = [of |-> p, nth |-> nth]] IN
  /\ At(r, "running")
  /\ \/ /\ Writes(p)
        /\ written' = [written EXCEPT ![p] = @ + 1]
        /\ Answered(written[p] + 1)
     \/ /\ ~Writes(p)
        /\ Answered(written[p])
        /\ UNCHANGED written
     \/ /\ scope = "demand:update"
        /\ Answered(0)
        /\ UNCHANGED written
     \/ /\ req' = [req EXCEPT ![r].step = "deleting"]
        /\ UNCHANGED written
  /\ UNCHANGED <<scope, record, old, answer, mishaps>>

\* run writes and throws all the same: the reads that make the answer come after the
\* commit, and so does its acknowledgement.
RunThrowsLate(r) ==
  /\ At(r, "running")
  /\ Writes(req[r].payload)
  /\ mishaps < MaxMishaps
  /\ mishaps' = mishaps + 1
  /\ written' = [written EXCEPT ![req[r].payload] = @ + 1]
  /\ req' = [req EXCEPT ![r].step = "deleting"]
  /\ UNCHANGED <<scope, record, old, answer>>

\* Mutant of Answered: the status stays EM_VOO.
AnsweredInFlight(response) == [record EXCEPT !.response = response]

Answered(response) == [record EXCEPT !.state = "done", !.response = response]

\* update: the answer is stored in the reservation; when the write fails, or the
\* reservation is gone (P2025), the catch deletes what it can.
Save(r) ==
  /\ At(r, "saving")
  /\ \/ /\ req[r].holds
        /\ record' = Answered(req[r].response)
        /\ old' = FALSE
        /\ Finish(r, [kind |-> "response", to |-> req[r].payload, response |-> req[r].response])
        /\ UNCHANGED mishaps
     \/ /\ \/ ~req[r].holds /\ UNCHANGED mishaps
           \/ req[r].holds /\ mishaps < MaxMishaps /\ mishaps' = mishaps + 1
        /\ req' = [req EXCEPT ![r].step = "deleting"]
        /\ UNCHANGED <<record, old, answer>>
  /\ UNCHANGED <<scope, written>>

\* deleteMany of the reservation, whoever runs under it by now; its failure is
\* swallowed, and the request answers the error.
Delete(r) ==
  /\ At(r, "deleting")
  /\ answer' = [answer EXCEPT ![r] = Only("500", req[r].payload)]
  /\ \/ /\ req[r].holds
        /\ record' = NoRecord
        /\ old' = FALSE
        /\ req' = [q \in Request |-> IF q = r THEN Idle ELSE [req[q] EXCEPT !.holds = FALSE]]
        /\ UNCHANGED mishaps
     \/ /\ \/ ~req[r].holds /\ UNCHANGED mishaps
           \/ req[r].holds /\ mishaps < MaxMishaps /\ mishaps' = mishaps + 1
        /\ req' = [req EXCEPT ![r] = Idle]
        /\ UNCHANGED <<record, old>>
  /\ UNCHANGED <<scope, written>>

\* 90 s pass: nobody who lives still works under the reservation.
Age ==
  /\ record.state = "in flight"
  /\ ~old
  /\ \A r \in Request : ~req[r].holds
  /\ old' = TRUE
  /\ UNCHANGED <<scope, record, written, req, answer, mishaps>>

\* The process dies: the requests are lost, and nobody receives their answers.
Crash ==
  /\ mishaps < MaxMishaps
  /\ mishaps' = mishaps + 1
  /\ req' = [r \in Request |-> Idle]
  /\ UNCHANGED <<scope, record, old, written, answer>>

-----------------------------------------------------------------------------

Step(r) == Reserve(r) \/ Reread(r) \/ TakeOver(r) \/ Run(r) \/ RunThrowsLate(r) \/ Save(r) \/ Delete(r)

Next ==
  \/ \E r \in Request : Step(r) \/ \E p \in Payload : Lookup(r, p)
  \/ Age
  \/ Crash

Spec == Init /\ [][Next]_vars

-----------------------------------------------------------------------------

\* A demand is created once, whatever crashed, failed or was taken over in between
\* (POST /demands: "Refazer e seguro porque a propria escrita e idempotente").
CreatedOnce == scope = "demand:create" => \A p \in Payload : written[p] <= 1

\* While nothing crashes and the record can be written, a key writes once, for one of
\* the bodies it came with (the reservation before the run, and the unique index).
OnceUndisturbed ==
  mishaps = 0 =>
    \A p, q \in Payload : written[p] <= 1 /\ (written[p] > 0 /\ written[q] > 0 => p = q)

\* While nothing crashes and the record can be written, all who are given a run's answer
\* are given the same one, and it answers the body they sent (interpretarExistente).
SameAnswer ==
  mishaps = 0 =>
    \A r, q \in Request :
      answer[r].kind = "response" /\ answer[q].kind = "response" =>
        answer[r].response = answer[q].response /\ answer[r].response.of = answer[r].to

\* A reservation does not bury its key: sooner or later it is answered or deleted
\* (EM_VOO_ABANDONADO_APOS_MS).
KeyNotBuried == record.state = "in flight" ~> record.state # "in flight"

=============================================================================
