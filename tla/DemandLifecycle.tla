-------------------------- MODULE DemandLifecycle ---------------------------
(***************************************************************************)
(* The life of a demand, from the CRM's POST to one of its three endings,  *)
(* under the concurrent handlers that move it: the machine door            *)
(* (server/routes/externalCrm.ts), the queue screen                        *)
(* (server/routes/demands.ts), the start of an analysis                    *)
(* (server/routes/analysis.ts), the conclusion of a project                *)
(* (src/dbStore.ts) and the purge.                                         *)
(*                                                                         *)
(* The database runs at READ COMMITTED.  A handler reads the row in one    *)
(* step and writes it in a later one, and anything may commit in between;  *)
(* an updateMany re-checks its WHERE on the row as it is when it writes, a *)
(* plain update does not.  A transaction whose first write is on the       *)
(* demand's row is one step, because the row lock holds until it commits.  *)
(* What a handler keeps from its read is in req; a transaction whose read  *)
(* is repeated entirely by the WHERE of its write is a single action.      *)
(* Telling the CRM comes after the commit, in a step of its own, and is    *)
(* lost when the process dies in between or a statement fails: lost is a   *)
(* history variable that records the second.                               *)
(*                                                                         *)
(* Abstracted: the sheet, the documents and the updates (DemandUpdates),   *)
(* the delivery of what is told (CrmOutbox), audit rows and responses, and *)
(* "reassigned", which carries no state of its own.                        *)
(***************************************************************************)
EXTENDS Naturals, FiniteSets

CONSTANTS
  Demand,      \* demands, in every state
  User,        \* people with demand:assume
  Manager,     \* people with demand:manage (PERMISSAO_DE_GERENTE)
  Admin,       \* people with project:read_all
  Request,     \* slots of handlers in flight at the same time
  NoUser,
  NoDemand,
  MaxCrashes,  \* bound on the crashes of the process that are explored
  MaxLost      \* bound on the milestones lost by a statement that fails

ASSUME PeopleAssumption == NoUser \notin User

ASSUME NoDemandAssumption == NoDemand \notin Demand

ASSUME CrashAssumption == MaxCrashes \in Nat

ASSUME LostAssumption == MaxLost \in Nat

VARIABLES
  status,     \* [Demand -> Status]: demands.status
  source,     \* [Demand -> Source]: "local" is a project born here, before its mirror
  assignee,   \* [Demand -> User or NoUser]: assigned_user_id
  returnReq,  \* [Demand -> ReturnState]: the columns return_requested/decided
  cancelReq,  \* [Demand -> CancelState]: the columns cancellation_*
  linked,     \* [Demand -> BOOLEAN]: project_id is set
  born,       \* [Demand -> Nat]: projects ever born for this demand
  owner,      \* [Demand -> User or NoUser]: the project's owner, NoUser if there is none
  done,       \* [Demand -> BOOLEAN]: the project's status is "completed"
  told,       \* [Demand -> [Mark -> Nat]]: milestones in the outbound queue
  lost,       \* milestones that a failed statement kept from being told
  answer,     \* [Demand -> Answer]: what the last POST /cancel answered the CRM
  req,        \* [Request -> RequestState]: handlers in flight
  crashes     \* number of crashes so far

demandVars == <<status, source, assignee, returnReq, cancelReq>>
projectVars == <<linked, born, owner, done>>
vars == <<demandVars, projectVars, told, lost, answer, req, crashes>>

Owned == {"assigned", "in_analysis"}
Ended == {"returned", "cancelled", "completed"}
Status == {"none", "queued", "purged"} \cup Owned \cup Ended
Mark == {"assigned", "in_analysis", "returned", "cancellation_ack", "completed"}

\* requestedAt null | requested, undecided | decided with a rejection reason | decided without
ReturnState == {"none", "pending", "rejected", "approved"}
\* requestedAt null | requested, closedAt null | closedAt set, with its outcome
CancelState == {"none", "open", "cancelled", "completed"}
Answer == {"none", "cancelled", "cancellation_requested"}
\* "local": a project born here and no demand; "referred": it carries the CRM's
\* opportunity, and may get its mirror demand, whose source is then "presales"
Source == {"crm", "local", "referred", "presales"}

Steps == {"idle", "assuming", "returning", "approving", "deciding", "reassigning",
          "cancelling", "completing", "concluding", "closing", "announcing",
          "analysing", "telling", "linking", "mirroring"}

RequestState == [step : Steps, d : Demand \cup {NoDemand}, u : User \cup {NoUser},
                 mark : Mark \cup {"none"}, saw : BOOLEAN]

Idle == [step |-> "idle", d |-> NoDemand, u |-> NoUser, mark |-> "none", saw |-> FALSE]

TypeOK ==
  /\ status \in [Demand -> Status]
  /\ source \in [Demand -> Source]
  /\ assignee \in [Demand -> User \cup {NoUser}]
  /\ returnReq \in [Demand -> ReturnState]
  /\ cancelReq \in [Demand -> CancelState]
  /\ linked \in [Demand -> BOOLEAN]
  /\ born \in [Demand -> Nat]
  /\ owner \in [Demand -> User \cup {NoUser}]
  /\ done \in [Demand -> BOOLEAN]
  /\ told \in [Demand -> [Mark -> Nat]]
  /\ lost \subseteq Demand \X Mark
  /\ answer \in [Demand -> Answer]
  /\ req \in [Request -> RequestState]
  /\ crashes \in 0..MaxCrashes

Init ==
  /\ status = [d \in Demand |-> "none"]
  /\ source = [d \in Demand |-> "crm"]
  /\ assignee = [d \in Demand |-> NoUser]
  /\ returnReq = [d \in Demand |-> "none"]
  /\ cancelReq = [d \in Demand |-> "none"]
  /\ linked = [d \in Demand |-> FALSE]
  /\ born = [d \in Demand |-> 0]
  /\ owner = [d \in Demand |-> NoUser]
  /\ done = [d \in Demand |-> FALSE]
  /\ told = [d \in Demand |-> [m \in Mark |-> 0]]
  /\ lost = {}
  /\ answer = [d \in Demand |-> "none"]
  /\ req = [r \in Request |-> Idle]
  /\ crashes = 0

-----------------------------------------------------------------------------
(* Handlers in flight *)

At(r, step) == req[r].step = step

\* Handler r goes on with demand d on behalf, or in favour, of person u.
Continue(r, step, d, u) ==
  req' = [req EXCEPT ![r] = [Idle EXCEPT !.step = step, !.d = d, !.u = u]]

\* Handler r has committed and still has milestone m to tell.
TellNext(r, d, m) ==
  req' = [req EXCEPT ![r] = [Idle EXCEPT !.step = "telling", !.d = d, !.mark = m]]

Finish(r) == req' = [req EXCEPT ![r] = Idle]

-----------------------------------------------------------------------------
(* Arrival *)

\* criarDemanda: the demand enters the queue without owner and without project.
\* A second POST of the same demand_ref meets the unique index and writes nothing.
Create(d) ==
  /\ status[d] = "none"
  /\ source[d] = "crm"
  /\ status' = [status EXCEPT ![d] = "queued"]
  /\ UNCHANGED <<source, assignee, returnReq, cancelReq, projectVars, told, lost, answer, req,
                 crashes>>

\* A project born on this side, by the intake, with an owner and without a demand.
ProjectHere(d, u) ==
  /\ status[d] = "none"
  /\ source[d] = "crm"
  /\ source' = [source EXCEPT ![d] = "local"]
  /\ owner' = [owner EXCEPT ![d] = u]
  /\ UNCHANGED <<status, assignee, returnReq, cancelReq, linked, born, done, told, lost, answer,
                 req, crashes>>

\* POST /projects/:id/link: the project is read, its owner with it, before the calls
\* that ask the CRM for a company and an opportunity, ...
MirrorRead(r, d) ==
  /\ At(r, "idle")
  /\ source[d] = "local"
  /\ owner[d] # NoUser
  /\ Continue(r, "linking", d, owner[d])
  /\ UNCHANGED <<demandVars, projectVars, told, lost, answer, crashes>>

\* ... their references are written on the project; an open opportunity that was
\* chosen has no demand_ref, and no mirror follows, ...
MirrorRefer(r) ==
  LET d == req[r].d IN
  /\ At(r, "linking")
  /\ owner[d] # NoUser
  /\ source' = [source EXCEPT ![d] = IF @ = "local" THEN "referred" ELSE @]
  /\ Continue(r, "mirroring", d, req[r].u) \/ Finish(r)
  /\ UNCHANGED <<status, assignee, returnReq, cancelReq, projectVars, told, lost, answer, crashes>>

\* ... and the mirror demand is created, already assigned to the owner that was read,
\* whatever the project's status.  Its demand_ref and its project are unique.  No
\* milestone is told.
Mirror(r) ==
  LET d == req[r].d IN
  /\ At(r, "mirroring")
  /\ status[d] = "none"
  /\ owner[d] # NoUser
  /\ source' = [source EXCEPT ![d] = "presales"]
  /\ status' = [status EXCEPT ![d] = "assigned"]
  /\ assignee' = [assignee EXCEPT ![d] = req[r].u]
  /\ linked' = [linked EXCEPT ![d] = TRUE]
  /\ born' = [born EXCEPT ![d] = @ + 1]
  /\ Finish(r)
  /\ UNCHANGED <<returnReq, cancelReq, owner, done, told, lost, answer, crashes>>

-----------------------------------------------------------------------------
(* Taking a demand: /assume, /direct on a queued demand, and the automatic
   distribution all call assumirDemanda, u being the person it goes to. *)

AssumeRead(r, d, u) ==
  /\ At(r, "idle")
  /\ status[d] = "queued"
  /\ Continue(r, "assuming", d, u)
  /\ UNCHANGED <<demandVars, projectVars, told, lost, answer, crashes>>

\* Mutant of AssumeClaim: the claim is not conditional on the row being queued.
AssumeClaimBlindly(r) ==
  LET d == req[r].d IN
  /\ At(r, "assuming")
  /\ status[d] # "purged"
  /\ status' = [status EXCEPT ![d] = "assigned"]
  /\ assignee' = [assignee EXCEPT ![d] = req[r].u]
  /\ linked' = [linked EXCEPT ![d] = TRUE]
  /\ born' = [born EXCEPT ![d] = @ + 1]
  /\ owner' = [owner EXCEPT ![d] = req[r].u]
  /\ TellNext(r, d, "assigned")
  /\ UNCHANGED <<source, returnReq, cancelReq, done, told, lost, answer, crashes>>

\* The claim is conditional on the row still being queued; the project is born
\* after it, in the same transaction.
AssumeClaim(r) ==
  LET d == req[r].d IN
  /\ At(r, "assuming")
  /\ status[d] = "queued"
  /\ status' = [status EXCEPT ![d] = "assigned"]
  /\ assignee' = [assignee EXCEPT ![d] = req[r].u]
  /\ linked' = [linked EXCEPT ![d] = TRUE]
  /\ born' = [born EXCEPT ![d] = @ + 1]
  /\ owner' = [owner EXCEPT ![d] = req[r].u]
  /\ TellNext(r, d, "assigned")
  /\ UNCHANGED <<source, returnReq, cancelReq, done, told, lost, answer, crashes>>

-----------------------------------------------------------------------------
(* The manager moves an owned demand to somebody else (/direct). *)

ReassignRead(r, d, u) ==
  /\ At(r, "idle")
  /\ Manager # {}
  /\ status[d] \in Owned
  /\ assignee[d] # u
  /\ req' = [req EXCEPT ![r] = [Idle EXCEPT !.step = "reassigning", !.d = d, !.u = u,
                                            !.saw = linked[d]]]
  /\ UNCHANGED <<demandVars, projectVars, told, lost, answer, crashes>>

\* Mutant of ReassignWrite: the demand changes hands and its project does not.
ReassignDemandOnly(r) ==
  /\ At(r, "reassigning")
  /\ status[req[r].d] # "purged"
  /\ assignee' = [assignee EXCEPT ![req[r].d] = req[r].u]
  /\ returnReq' = [returnReq EXCEPT ![req[r].d] = "none"]
  /\ Finish(r)
  /\ UNCHANGED <<status, source, cancelReq, projectVars, told, lost, answer, crashes>>

\* Plain updates: only the disappearance of a row stops them.  The pending return
\* request is cleared, and the project the read saw changes owner with the demand.
ReassignWrite(r) ==
  LET d == req[r].d IN
  /\ At(r, "reassigning")
  /\ status[d] # "purged"
  /\ req[r].saw => owner[d] # NoUser
  /\ assignee' = [assignee EXCEPT ![d] = req[r].u]
  /\ returnReq' = [returnReq EXCEPT ![d] = "none"]
  /\ owner' = [owner EXCEPT ![d] = IF req[r].saw THEN req[r].u ELSE @]
  /\ Finish(r)
  /\ UNCHANGED <<status, source, cancelReq, linked, born, done, told, lost, answer, crashes>>

-----------------------------------------------------------------------------
(* Returning a demand to the seller *)

\* The route checks the assignee before anything else; an administrator may
\* return anybody's demand.
ReturnRead(r, d, u) ==
  /\ At(r, "idle")
  /\ status[d] \in Owned
  /\ assignee[d] = u \/ u \in Admin
  /\ Continue(r, "returning", d, u)
  /\ UNCHANGED <<demandVars, projectVars, told, lost, answer, crashes>>

\* Where managers exist, whoever is not one asks and waits (pedirDevolucao).
MustAsk(u) == Manager # {} /\ u \notin Manager

ReturnAsk(r) ==
  LET d == req[r].d IN
  /\ At(r, "returning")
  /\ MustAsk(req[r].u)
  /\ status[d] \in Owned
  /\ returnReq[d] # "pending"
  /\ returnReq' = [returnReq EXCEPT ![d] = "pending"]
  /\ Finish(r)
  /\ UNCHANGED <<status, source, assignee, cancelReq, projectVars, told, lost, answer, crashes>>

\* devolverDemanda, called by the route itself.  The link to the project stays, although
\* its comment says that projectId becomes null again.
ReturnNow(r) ==
  LET d == req[r].d IN
  /\ At(r, "returning")
  /\ ~MustAsk(req[r].u)
  /\ status[d] \in Owned
  /\ status' = [status EXCEPT ![d] = "returned"]
  /\ TellNext(r, d, "returned")
  /\ UNCHANGED <<source, assignee, returnReq, cancelReq, projectVars, told, lost, answer, crashes>>

\* /return/approve: reads the pending request, ...
ApproveRead(r, d) ==
  /\ At(r, "idle")
  /\ Manager # {}
  /\ returnReq[d] = "pending"
  /\ status[d] # "purged"
  /\ Continue(r, "approving", d, NoUser)
  /\ UNCHANGED <<demandVars, projectVars, told, lost, answer, crashes>>

\* Mutant of ApproveReturn: the approval trusts what /return/approve read.
ApproveReturnBlindly(r) ==
  /\ At(r, "approving")
  /\ status[req[r].d] # "purged"
  /\ status' = [status EXCEPT ![req[r].d] = "returned"]
  /\ Continue(r, "deciding", req[r].d, NoUser)
  /\ UNCHANGED <<source, assignee, returnReq, cancelReq, projectVars, told, lost, answer, crashes>>

\* ... returns the demand, on the condition that it still has an owner, ...
ApproveReturn(r) ==
  LET d == req[r].d IN
  /\ At(r, "approving")
  /\ status[d] \in Owned
  /\ status' = [status EXCEPT ![d] = "returned"]
  /\ Continue(r, "deciding", d, NoUser)
  /\ UNCHANGED <<source, assignee, returnReq, cancelReq, projectVars, told, lost, answer, crashes>>

\* ... and stamps the decision in a third statement, outside the transaction.
ApproveDecide(r) ==
  LET d == req[r].d IN
  /\ At(r, "deciding")
  /\ status[d] # "purged"
  /\ returnReq' = [returnReq EXCEPT ![d] = "approved"]
  /\ TellNext(r, d, "returned")
  /\ UNCHANGED <<status, source, assignee, cancelReq, projectVars, told, lost, answer, crashes>>

\* recusarDevolucao: its conditional write repeats the whole of its read.
Reject(d) ==
  /\ Manager # {}
  /\ returnReq[d] = "pending"
  /\ status[d] # "purged"
  /\ returnReq' = [returnReq EXCEPT ![d] = "rejected"]
  /\ UNCHANGED <<status, source, assignee, cancelReq, projectVars, told, lost, answer, req,
                 crashes>>

-----------------------------------------------------------------------------
(* Cancelling, asked by the CRM and closed on this side *)

\* avaliarCancelamento on the status read: 409 after another ending, nothing to
\* write when it is cancelled already.
CancelAgain(d) ==
  /\ status[d] = "cancelled"
  /\ answer' = [answer EXCEPT ![d] = "cancelled"]
  /\ UNCHANGED <<demandVars, projectVars, told, lost, req, crashes>>

CancelRead(r, d) ==
  /\ At(r, "idle")
  /\ status[d] \in Owned \cup {"queued"}
  /\ req' = [req EXCEPT ![r] = [Idle EXCEPT !.step = "cancelling", !.d = d,
                                            !.saw = (status[d] = "queued")]]
  /\ UNCHANGED <<demandVars, projectVars, told, lost, answer, crashes>>

\* Read queued and still queued: cancelled at once.
CancelQueued(r) ==
  LET d == req[r].d IN
  /\ At(r, "cancelling")
  /\ req[r].saw
  /\ status[d] = "queued"
  /\ status' = [status EXCEPT ![d] = "cancelled"]
  /\ cancelReq' = [cancelReq EXCEPT ![d] = "cancelled"]
  /\ answer' = [answer EXCEPT ![d] = "cancelled"]
  /\ TellNext(r, d, "cancellation_ack")
  /\ UNCHANGED <<source, assignee, returnReq, projectVars, told, lost, crashes>>

\* Mutant of CancelStamp: the stamp is not conditional on the demand having an owner.
CancelStampAny(r) ==
  LET d == req[r].d IN
  /\ At(r, "cancelling")
  /\ status[d] # "purged"
  /\ ~(req[r].saw /\ status[d] = "queued")
  /\ cancelReq' = [cancelReq EXCEPT ![d] = IF @ = "none" THEN "open" ELSE @]
  /\ answer' = [answer EXCEPT ![d] =
                  IF status[d] = "cancelled" THEN "cancelled" ELSE "cancellation_requested"]
  /\ Finish(r)
  /\ UNCHANGED <<status, source, assignee, returnReq, projectVars, told, lost, crashes>>

\* Somebody works on it, or took it since the read: the request is stamped and
\* waits.  The row that ended meanwhile is not stamped, and yet, unless it ended
\* as cancelled, the answer is the same.
CancelStamp(r) ==
  LET d == req[r].d IN
  /\ At(r, "cancelling")
  /\ status[d] # "purged"
  /\ ~(req[r].saw /\ status[d] = "queued")
  /\ cancelReq' = [cancelReq EXCEPT ![d] =
                     IF status[d] \in Owned /\ @ = "none" THEN "open" ELSE @]
  /\ answer' = [answer EXCEPT ![d] =
                  IF status[d] = "cancelled" THEN "cancelled" ELSE "cancellation_requested"]
  /\ Finish(r)
  /\ UNCHANGED <<status, source, assignee, returnReq, projectVars, told, lost, crashes>>

\* Mutants of CancelClose: the write repeats the open request and not the status, or
\* moves the status and leaves the request open.
CancelCloseAny(r, d) ==
  /\ At(r, "idle")
  /\ cancelReq[d] = "open"
  /\ status[d] # "purged"
  /\ status' = [status EXCEPT ![d] = "cancelled"]
  /\ cancelReq' = [cancelReq EXCEPT ![d] = "cancelled"]
  /\ TellNext(r, d, "cancellation_ack")
  /\ UNCHANGED <<source, assignee, returnReq, projectVars, told, lost, answer, crashes>>

CancelCloseStatusOnly(r, d) ==
  /\ At(r, "idle")
  /\ cancelReq[d] = "open"
  /\ status[d] \in Owned
  /\ status' = [status EXCEPT ![d] = "cancelled"]
  /\ TellNext(r, d, "cancellation_ack")
  /\ UNCHANGED <<source, assignee, returnReq, cancelReq, projectVars, told, lost, answer, crashes>>

\* encerrarCancelamento.  A request that is open when it is read is still open
\* while the demand has an owner, so the read adds nothing to the WHERE.
CancelClose(r, d) ==
  /\ At(r, "idle")
  /\ cancelReq[d] = "open"
  /\ status[d] \in Owned
  /\ status' = [status EXCEPT ![d] = "cancelled"]
  /\ cancelReq' = [cancelReq EXCEPT ![d] = "cancelled"]
  /\ TellNext(r, d, "cancellation_ack")
  /\ UNCHANGED <<source, assignee, returnReq, projectVars, told, lost, answer, crashes>>

-----------------------------------------------------------------------------
(* The work itself: analysis, conclusion, and what may happen to the project *)

\* Starting an analysis moves the demand that is still "assigned" ...
AnalysisStart(r, d) ==
  /\ At(r, "idle")
  /\ linked[d]
  /\ status[d] = "assigned"
  /\ status' = [status EXCEPT ![d] = "in_analysis"]
  /\ Continue(r, "analysing", d, NoUser)
  /\ UNCHANGED <<source, assignee, returnReq, cancelReq, projectVars, told, lost, answer, crashes>>

\* ... and reads the row again before telling: it tells only of a demand that is
\* linked and in analysis.
AnalysisReread(r) ==
  LET d == req[r].d IN
  /\ At(r, "analysing")
  /\ status[d] = "in_analysis"
  /\ linked[d]
  /\ TellNext(r, d, "in_analysis")
  /\ UNCHANGED <<demandVars, projectVars, told, lost, answer, crashes>>

\* updateProject with status "completed": the read of the old status, ...
CompleteRead(r, d) ==
  /\ At(r, "idle")
  /\ owner[d] # NoUser
  /\ ~done[d]
  /\ Continue(r, "completing", d, NoUser)
  /\ UNCHANGED <<demandVars, projectVars, told, lost, answer, crashes>>

\* ... the write, which decides that the demand has to be concluded, ...
CompleteProject(r) ==
  LET d == req[r].d IN
  /\ At(r, "completing")
  /\ owner[d] # NoUser
  /\ done' = [done EXCEPT ![d] = TRUE]
  /\ Continue(r, "concluding", d, NoUser)
  /\ UNCHANGED <<demandVars, linked, born, owner, told, lost, answer, crashes>>

\* Mutant of Conclude: only a demand still "assigned" is completed.
ConcludeAssigned(r) ==
  LET d == req[r].d IN
  /\ At(r, "concluding")
  /\ linked[d]
  /\ status[d] \in Owned
  /\ status' = [status EXCEPT ![d] = IF @ = "assigned" THEN "completed" ELSE @]
  /\ Continue(r, "closing", d, NoUser)
  /\ UNCHANGED <<source, assignee, returnReq, cancelReq, projectVars, told, lost, answer, crashes>>

\* ... and concluirDemandaDoProjeto, three statements outside any transaction:
\* the demand that has an owner is completed, ...
Conclude(r) ==
  LET d == req[r].d IN
  /\ At(r, "concluding")
  /\ linked[d]
  /\ status[d] \in Owned
  /\ status' = [status EXCEPT ![d] = "completed"]
  /\ Continue(r, "closing", d, NoUser)
  /\ UNCHANGED <<source, assignee, returnReq, cancelReq, projectVars, told, lost, answer, crashes>>

\* Mutant of ConcludeClose: the handler stops when no request is open.
ConcludeCloseAndStop(r) ==
  LET d == req[r].d IN
  /\ At(r, "closing")
  /\ cancelReq' = [cancelReq EXCEPT ![d] = IF @ = "open" THEN "completed" ELSE @]
  /\ IF cancelReq[d] = "open" THEN Continue(r, "announcing", d, NoUser) ELSE Finish(r)
  /\ UNCHANGED <<status, source, assignee, returnReq, projectVars, told, lost, answer, crashes>>

\* ... an open cancellation request is closed by the conclusion, ...
ConcludeClose(r) ==
  LET d == req[r].d IN
  /\ At(r, "closing")
  /\ cancelReq' = [cancelReq EXCEPT ![d] =
                     IF linked[d] /\ status[d] # "purged" /\ @ = "open" THEN "completed" ELSE @]
  /\ Continue(r, "announcing", d, NoUser)
  /\ UNCHANGED <<status, source, assignee, returnReq, projectVars, told, lost, answer, crashes>>

\* ... and the completed demand is read again, to be told.
ConcludeReread(r) ==
  LET d == req[r].d IN
  /\ At(r, "announcing")
  /\ linked[d]
  /\ status[d] = "completed"
  /\ TellNext(r, d, "completed")
  /\ UNCHANGED <<demandVars, projectVars, told, lost, answer, crashes>>

\* PUT /projects/:id with another status.
Reopen(d) ==
  /\ done[d]
  /\ owner[d] # NoUser
  /\ done' = [done EXCEPT ![d] = FALSE]
  /\ UNCHANGED <<demandVars, linked, born, owner, told, lost, answer, req, crashes>>

\* PATCH /projects/:id/owner moves the project alone.
TransferOwner(d, u) ==
  /\ owner[d] \notin {NoUser, u}
  /\ owner' = [owner EXCEPT ![d] = u]
  /\ UNCHANGED <<demandVars, linked, born, done, told, lost, answer, req, crashes>>

\* DELETE /projects/:id: the demand's project_id becomes null (onDelete SetNull).
DeleteProject(d) ==
  /\ owner[d] # NoUser
  /\ owner' = [owner EXCEPT ![d] = NoUser]
  /\ linked' = [linked EXCEPT ![d] = FALSE]
  /\ done' = [done EXCEPT ![d] = FALSE]
  /\ UNCHANGED <<demandVars, born, told, lost, answer, req, crashes>>

\* The purge of the company deletes the demand in any state; the project survives.
Purge(d) ==
  /\ status[d] \notin {"none", "purged"}
  /\ status' = [status EXCEPT ![d] = "purged"]
  /\ linked' = [linked EXCEPT ![d] = FALSE]
  /\ UNCHANGED <<source, assignee, returnReq, cancelReq, born, owner, done, told, lost, answer, req,
                 crashes>>

-----------------------------------------------------------------------------
(* What every handler shares *)

\* empurrarMarcoDaDemanda: the milestone enters the outbound queue; the row of a
\* purged demand takes none (the foreign key fails, and the failure is logged).
Tell(r) ==
  LET d == req[r].d IN
  /\ At(r, "telling")
  /\ told' = [told EXCEPT ![d][req[r].mark] = IF status[d] = "purged" THEN @ ELSE @ + 1]
  /\ Finish(r)
  /\ UNCHANGED <<demandVars, projectVars, lost, answer, crashes>>

\* The milestone that handler r is on its way to tell.
Due(r) ==
  CASE At(r, "telling") -> {req[r].mark}
    [] At(r, "analysing") -> {"in_analysis"}
    [] At(r, "deciding") -> {"returned"}
    [] At(r, "concluding") \/ At(r, "closing") \/ At(r, "announcing") -> {"completed"}
    [] OTHER -> {}

\* A statement on the way to the queue fails, the enqueueing itself included: gravar,
\* empurrarMarcoDaDemanda and concluirDemandaDoProjeto log it and go no further, and
\* nothing tries again.
Fails(r) ==
  /\ Cardinality(lost) < MaxLost
  /\ Due(r) # {}
  /\ lost' = lost \cup ({req[r].d} \X Due(r))
  /\ Finish(r)
  /\ UNCHANGED <<demandVars, projectVars, told, answer, crashes>>

\* The handler's conditional write matches no row, or its plain update finds no
\* row, or its second read finds nothing: it answers and changes nothing.
Misses(r) ==
  LET d == req[r].d
      s == status[req[r].d] IN
  \/ At(r, "assuming") /\ s # "queued"
  \/ At(r, "returning") /\ s \notin Owned
  \/ At(r, "returning") /\ MustAsk(req[r].u) /\ returnReq[d] = "pending"
  \/ At(r, "approving") /\ s \notin Owned
  \/ At(r, "deciding") /\ s = "purged"
  \/ At(r, "reassigning") /\ (s = "purged" \/ (req[r].saw /\ owner[d] = NoUser))
  \/ At(r, "cancelling") /\ s = "purged"
  \/ At(r, "analysing") /\ ~(linked[d] /\ s = "in_analysis")
  \/ At(r, "completing") /\ owner[d] = NoUser
  \/ At(r, "concluding") /\ ~(linked[d] /\ s \in Owned)
  \/ At(r, "announcing") /\ ~(linked[d] /\ s = "completed")
  \/ At(r, "linking")     \* the CRM refuses or does not answer, or the project is gone
  \/ At(r, "mirroring") /\ (s # "none" \/ owner[d] = NoUser)

Refused(r) ==
  /\ Misses(r)
  /\ Finish(r)
  /\ UNCHANGED <<demandVars, projectVars, told, lost, answer, crashes>>

\* The process dies: what was committed stays, every handler in flight is lost.
Crash ==
  /\ crashes < MaxCrashes
  /\ crashes' = crashes + 1
  /\ req' = [r \in Request |-> Idle]
  /\ UNCHANGED <<demandVars, projectVars, told, lost, answer>>

-----------------------------------------------------------------------------

\* What somebody outside may start, and what a handler in flight does next.
Start(r) ==
  \E d \in Demand :
    \/ CancelRead(r, d) \/ CancelClose(r, d)
    \/ ApproveRead(r, d) \/ AnalysisStart(r, d) \/ CompleteRead(r, d) \/ MirrorRead(r, d)
    \/ \E u \in User : AssumeRead(r, d, u) \/ ReassignRead(r, d, u) \/ ReturnRead(r, d, u)

Proceed(r) ==
  \/ AssumeClaim(r) \/ ReassignWrite(r)
  \/ ReturnAsk(r) \/ ReturnNow(r) \/ ApproveReturn(r) \/ ApproveDecide(r)
  \/ CancelQueued(r) \/ CancelStamp(r)
  \/ AnalysisReread(r)
  \/ CompleteProject(r) \/ Conclude(r) \/ ConcludeClose(r) \/ ConcludeReread(r)
  \/ MirrorRefer(r) \/ Mirror(r)
  \/ Tell(r) \/ Fails(r) \/ Refused(r)

AtOnce(d) ==
  \/ Create(d) \/ Reject(d) \/ CancelAgain(d)
  \/ Reopen(d) \/ DeleteProject(d) \/ Purge(d)
  \/ \E u \in User : ProjectHere(d, u) \/ TransferOwner(d, u)

Next ==
  \/ \E r \in Request : Start(r) \/ Proceed(r)
  \/ \E d \in Demand : AtOnce(d)
  \/ Crash

Spec == Init /\ [][Next]_vars

\* A handler whose promise is settled is resumed by the event loop, and the
\* database answers: every handler in flight goes on.  Nobody is obliged to
\* start one.
FairSpec == Spec /\ \A r \in Request : WF_vars(Proceed(r))

-----------------------------------------------------------------------------
(* Safety *)

\* The demand's own row never contradicts itself about cancellation: it is
\* cancelled exactly when its cancellation closed as "cancelled", a cancellation
\* closes as "completed" only when the demand completed, and a CRM that was
\* answered "cancelled" never sees the demand alive again
\* (aplicarCancelamento, encerrarCancelamento, concluirDemandaDoProjeto).
CancellationCoherent ==
  \A d \in Demand : status[d] # "purged" =>
    /\ status[d] = "cancelled" <=> cancelReq[d] = "cancelled"
    /\ cancelReq[d] = "completed" => status[d] = "completed"
    /\ answer[d] = "cancelled" => status[d] = "cancelled"

\* One demand gives birth to one project, however many people and however many
\* paths try to take it at once; nothing that was never taken has one, and the
\* demand that points to a project points to one that exists (assumirDemanda).
OneProject ==
  \A d \in Demand :
    /\ born[d] <= 1
    /\ status[d] \in {"none", "queued"} => born[d] = 0
    /\ status[d] \in Owned \cup {"returned", "completed"} => born[d] = 1
    /\ linked[d] => owner[d] # NoUser

\* While an open cancellation request waits on a completed demand, the handler
\* that concluded it is still on its way to close it, unless the process died or
\* that very conclusion failed half way: concluirDemandaDoProjeto leaves no request
\* open behind it.
OpenOnlyWhileConcluding ==
  \A d \in Demand :
    status[d] = "completed" /\ cancelReq[d] = "open" /\ linked[d] /\ crashes = 0
    /\ <<d, "completed">> \notin lost =>
      \E r \in Request : At(r, "closing") /\ req[r].d = d

-----------------------------------------------------------------------------
(* Steps *)

\* A change of the assignee of a demand moves its project with it: whoever receives
\* the demand can see its project (reatribuirDemanda, assumirDemanda).  The birth of
\* a mirror is the exception, because the project may have moved between the two.
ProjectFollowsAssignee ==
  [][\A d \in Demand : assignee'[d] # assignee[d] /\ status[d] # "none" /\ linked'[d] =>
        owner'[d] = assignee'[d]]_vars

Contract == INSTANCE DemandContract WITH taken <- [d \in Demand |-> born[d] > 0]

\* The handlers implement the contract of DemandContract: only legal moves, and
\* every milestone told once, when it is true.
ImplementsContract == Contract!Spec

\* At most one ending is told to the CRM and it is the one that happened: the
\* three paths that end a demand exclude each other at their conditional writes.
OneEnding == Contract!OneEnding

-----------------------------------------------------------------------------
(* What the code's own words promise, and its interleavings do not keep *)

\* "O gerente RECUSA a devolucao: a demanda continua com quem a assumiu" and
\* /return/approve answers 409 when no request waits: a return is approved only
\* while its request is pending.
ApprovalNeedsPending ==
  [][\A r \in Request :
        At(r, "approving") /\ req'[r].step = "deciding" => returnReq[req[r].d] = "pending"]_vars

-----------------------------------------------------------------------------
(* Liveness *)

\* Whatever ends a demand, the CRM is eventually told of that ending, as long as the
\* process does not die, no statement on the way to the queue fails for this very
\* milestone, and the purge spares the demand.  A conclusion reads the demand again by
\* its project before it tells, so it is lost if the project was deleted meanwhile
\* (empurrarMarcoDaDemanda runs after the commit, on every path).
EndIsTold ==
  \A d \in Demand : \A m \in Contract!EndMark :
    (status[d] = Contract!EndOf(m))
      ~> \/ told[d][m] > 0 \/ status[d] = "purged" \/ <<d, m>> \in lost
         \/ m = "completed" /\ ~linked[d]

\* A project that is completed does not leave the CRM's demand in somebody's
\* hands, and the request to cancel it does not stay open, unless the conclusion
\* itself failed (updateProject calls concluirDemandaDoProjeto; a mirror may be made
\* of a project already completed).
CompletionSettles ==
  \A d \in Demand :
    /\ (done[d] /\ source[d] = "crm")
         ~> (status[d] \notin Owned \/ ~linked[d] \/ <<d, "completed">> \in lost)
    /\ (status[d] = "completed" /\ cancelReq[d] = "open")
         ~> (cancelReq[d] # "open" \/ status[d] = "purged" \/ ~linked[d]
               \/ <<d, "completed">> \in lost)

=============================================================================
