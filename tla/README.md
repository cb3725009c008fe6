# A verification of the Pre-Sales Compliance Platform

The platform receives *demands* from a CRM over a machine-to-machine door, lets
a team take them and turn them into projects, analyses their documents with AI
models, writes proposals and proofs of concept, and tells the CRM what happens.
Several servers, people, timers and detached scripts work on the same rows of a
PostgreSQL database, which runs at READ COMMITTED (the code never sets an
isolation level), beside a Redis cache, a file storage and other machines. This
project models that in TLA+, checks it with TLC on small instances, and proves
the safety of eight of its parts with TLAPS for every number of demands, people,
handlers, keys and calls.

## Inventory

What each part keeps, does and must guarantee. `PROJECT.json` lists every part
with its status, and under `hazards` what is hard to test in it.

| part | state | operations | what is hard | what makes it right |
|---|---|---|---|---|
| demand lifecycle (`utils/demands.ts`, `demandLifecycle.ts`, `demandLifecycleService.ts`, `routes/demands.ts`) | `demands` row: status, assignee, return request, cancellation; its project | arrive, assume, direct, return, approve, reject, cancel, close, analyse, conclude | every handler reads, then writes; some writes repeat the read in their WHERE, some do not | one project, one ending, the ending told, cancellation and status agree |
| updates and documents (`demandLifecycleService.ts`, `demands.ts`, `externalCrm.ts`) | `demand_updates`, `demand_documents`, `documents`, the binaries | PATCH, upload, incorporate, dismiss, delete | what was read about the demand, its updates and documents is stale when used | no correction of the CRM lost unseen, none undone by whoever decides in order |
| outbound queue (`utils/crmOutbox.ts`, `crmPort.ts`) | `demand_outbound_events` | enqueue, drain, postpone, discard, give up | drains overlap; calls fail before or after the CRM recorded them; rows vanish | sent means received; order per demand; nothing waits for ever |
| idempotency (`utils/idempotency.ts`) | `idempotency_records` | reserve, run, answer, replay, take over | concurrent retries, crash between reservation, run and answer | one effect per key, the same answer to all, no buried key |
| pairing (`pairKey.ts`, `crmPort.ts`) | cached verdicts, `crm_pair_keys` | present, verify, store, check the address, call | a verdict outlives what it says; a check is recorded on a row that moved | never call an address that was not checked with its key; the key in force is kept |
| purge (`crmPurge.ts`, `storage.ts`) | files, rows, receipt | purge a company or a document | files first, rows later, repetition; uploads meanwhile | no file without a row that finds it; nothing left behind |
| SLA (`demandSla*.ts`) | `demand_sla_breaches` | minute sweep | sweeps overlap; record and message are two steps | each missed deadline told, once |
| proposals and approvals (`routes/proposals.ts`, `approvals.ts`) | versions, documents, decisions | edit, render, submit, decide, release, answer, reopen | decisions at once on a version that moves; a rendering between read and write | nothing approved without every stage; the document says the terms |
| proofs of concept (`routes/pocs.ts`) | the POC, its items, its acceptance | edit, create, delete, generate, finalize, approve, sign, archive | a generation writes minutes after it was let in | the AI takes nothing a person wrote; completed is frozen |
| AI and background tasks (`routes/analysis.ts`, `backgroundTasks.ts`, `aiOrchestrator.ts`) | results, jobs, tasks, spending, reservations | analyse, reanalyse, edit, reserve, record, sweep at boot | calls of minutes between read and write; the process dies; reservations expire | edits kept, every task ends, the cap holds |
| system updates (`updateScheduler.ts`, `scripts/update.sh`) | schema, checkout, running code, history, tasks | schedule, trigger, deploy, migrate, restart, roll back, reap | a script outlives the server and restores the database that holds its own record | code and database agree; every attempt ends |
| fleet licence (`fleetLicense.ts`) | cached licence, mark of the logs, knowledge entries | heartbeat, poll, deliver | answers arrive in another order; two run at once | logs reported, licence followed, an entry stored once |
| distribution (`demandAssignment.ts`) | loads | choose a person | loads are stale | the chosen person may take it |
| lockout, diagnostics, pricing, directory of the CRM | rows of their own | see `PROJECT.json` | counters, retries, an import | not modelled (see *Plan*) |
| CRUD screens, DOCX generation, web client | independent rows, files, none | read and write | nothing concurrent of their own | not modelled |

How they meet: the machine door writes demands under an idempotency key, and
the key of the pair that opened it is the key of the calls back; a demand that
is taken gives birth to a project in the same transaction; what moves a demand
or a proposal enqueues a milestone after its commit; a drain delivers it to the
address the pairing resolves; the sweep of the deadlines queues its alerts
there too; the purge deletes demands, and their queue with them, in any state;
the fleet manager's answer brings the licence, the knowledge and the updates.
They share no memory: everything goes through rows, the cache and files.

## Modules

| module | models | stands on |
|---|---|---|
| `DemandContract` | the promise: legal moves of a demand, and milestones told once, when they are true | |
| `DemandLifecycle` | the concurrent handlers that carry it out | `DemandContract` (refinement) |
| `DemandUpdates` | PATCHes, decisions and documents of one demand | |
| `CrmOutbox` | the queue, its drains and the CRM that receives | |
| `Idempotency` | one key of the machine door and the requests that carry it | |
| `Pairing` | the key of the pair, inwards and outwards | |
| `Heartbeat` | the report of the logs and the licence that comes back | |
| `KnowledgeDelivery` | an entry of knowledge that comes with the heartbeat | |
| `Proposals` | a proposal, its versions and its approval | |
| `Purge` | the purge of a company against uploads and deletions | |
| `Pocs` | a proof of concept and its lock | |
| `DemandSla` | the sweep of the deadlines | |
| `SystemUpdate` | updating and rolling back an installation | |
| `AiSpending` | the cap on what the models cost | |
| `AnalysisWork` | the analyses of a project, their tasks, and edits | |
| `DemandLifecycle_proofs`, `DemandUpdates_proofs`, `CrmOutbox_proofs`, `Proposals_proofs`, `Purge_proofs`, `Pocs_proofs` | theorems about the module they name | TLAPS |
| `Doors_proofs` | theorems about `Idempotency`, `Pairing`, `Heartbeat`, `KnowledgeDelivery`, and the type of `MCDoors` | TLAPS |
| `Jobs_proofs` | theorems about `AiSpending`, `SystemUpdate`, `AnalysisWork`, and the type of `MCJobs` (`DemandSla` among it) | TLAPS |
| `MCJobs` | small instances of `CrmOutbox`, `DemandSla`, `SystemUpdate`, `AiSpending`, `AnalysisWork` | TLC |
| `MCWorkflows` | small instances of `Proposals`, `Pocs` | TLC |
| `MCDoors` | small instances of `Idempotency`, `Pairing`, `Heartbeat`, `KnowledgeDelivery` | TLC |
| other `MC…` | small instances of the module they name | TLC |

`MCJobs`, `MCDoors` and `MCWorkflows` put parts that share no row side by side:
in each behaviour one of them moves, and `moving` says which. Their product would
show nothing more. `Moving` is what a run of `MCJobs` explores: `jobs` all but the
update, which `update` explores alone.

### State and actions

The rule for cutting a handler into actions is the database's: a read is one
action (`AssumeRead`), a transaction from its first written row to its commit
is another (`AssumeClaim`), because the row lock holds until then. An
`updateMany` re-checks its WHERE when it writes, so its guard is on the current
state; an `update` by id does not, so its action has no such guard
(`ReassignWrite`, `ApproveDecide`). Where the WHERE of the write repeats the
whole read, the two are one action (`Reject`, `CancelClose`). Statements
outside a transaction are actions of their own, and so is every call over the
network. A crash loses the handlers and keeps the rows.

Several properties speak of behaviours in which nobody wrote over a row that
had changed since it was read, or no statement failed where nothing tries again,
because the code promises no more. A *ghost*, a variable that no guard of the
code reads, records what that happened to, as narrowly as it can: `stale` in
`Proposals` and `Purge`, `missed` in `Purge` (the files another storage said were
gone), `overtaken` and `rewound` in `DemandUpdates`, `lost` in `DemandLifecycle`
(the milestones whose enqueue failed), `unheard` in `DemandSla` (the alerts lost
after their breach was recorded), `outlived` in `AiSpending`, `disturbed` in
`SystemUpdate`, `unswept` and `stranded` in `AnalysisWork`, `crossed` in
`Pairing`, `between` in `Heartbeat`, `paired` in `KnowledgeDelivery`. What the
code does then is listed under *Divergences*.

**DemandLifecycle.** `status`, `assignee`, `returnReq`, `cancelReq`, `linked`
are the columns of `demands` (`returnReq` and `cancelReq` fold their groups of
nullable columns into the states the code tells apart); `owner`, `done`, `born`
are what matters of the project; `told` is what was enqueued for the CRM,
`answer` what the last POST /cancel was answered. `req` holds the handlers in
flight, each with what it keeps from its read. `Conclude`, `ConcludeClose` and
`ConcludeReread` are the three statements of `concluirDemandaDoProjeto`, and
`Tell` is `empurrarMarcoDaDemanda`, which always comes after the commit, and
`Fails` is a statement on the way to it that fails: the error is logged, the
handler ends, nobody tells again. A project born here gets its mirror demand in
three steps, its read, its references and the demand, with calls to the CRM in
between. `Refused` is every handler whose write matches no row.

**DemandUpdates.** One demand. The content of a part (opportunity, sheet) is
the number of the PATCH that wrote it, in the demand (`crm`) and in the project
(`project`), so that older, newer and missing are comparisons. Documents are
declared, stored, hung on the project and deleted; `file` is the storage and
`copies` the Documents made of a declaration. Any number of the handlers may be
deciding, about the same update too: the status that was read is not read again.

**CrmOutbox.** The rows (`of`, `status`, `attempts`, `due`), what the CRM
recorded (`received`), and for each drain its list, the attempts it read and
the result it is about to write. Time is only whether an item is due.

**Idempotency.** The row, whether it is older than 90 s, the requests at
their step, and `written`, the effects of the runs. A run may write, answer without
writing, or throw, and may throw after its commit.

**Pairing.** Keys are numbered as they are issued; `verdict` is the Redis cache
of `verifyPairKey`, `row` the row of `crm_pair_keys`. A POST (`presenter`) asks
or is answered from the cache, keeps the verdict, reads the row and writes it
(`guardarChaveApresentada`); a caller runs `resolverDestino` with its two reads,
its question to the address, and its record of the check by tenant alone.

**Heartbeat.** Time is the number of logs. A heartbeat collects, asks, compares
the licence with the cached one, caches it and sets the mark; a poll only asks,
compares and caches. `issued` orders the answers in hand and the cached one by
their `issued_at`. **KnowledgeDelivery** is what follows for one entry: find,
reconcile and create, confirm.

**Proposals.** A row per version, the documents by what terms they say
(`file`), the decisions, and what the CRM's timeline is told. `Step(h)` is the
rest of a handler that has read: rendering, writing terms, pointing the row to
the new document and deleting the old; submitting; recording a decision,
counting, and writing the status by id; releasing; creating a successor, which
the unique index on the predecessor refuses to the second.

**Purge.** The demand, its declarations, the Documents and the files. The purge
reads everything, then deletes each file, its rows in a transaction, the
demand, the company's name on the project, and records the execution. `mode` is
the storage of the settings, which may change, and `home` the one a file was
stored in; a purge makes its adapter (`Adapter`) once, from the settings, and
`Confirms` is what each adapter answers for a file it does not have.

**Pocs.** `LetIn` is the middleware; being let in and writing are two actions.
An item is absent, a draft of the AI, a draft whose status a person set
(`noted`), blank, or a person's. `before` holds the
requests that were in flight when the POC was completed.

**DemandSla**, **SystemUpdate**, **AiSpending**, **AnalysisWork.** A sweep with
the demands it read and the breaches it recorded; one variable `db` for all
that a backup holds, with `code`, `checkout`, the triggers, the server's sweep
(`reaper`, of installations that report to the fleet manager) and the scripts, step
by step; what was spent, what is reserved and whether the key of the
reservations expires; the row of the result, the jobs, the tasks and the works,
with the row as they read it.

## Runs

| run | question | bounds | distinct states |
|---|---|---|---|
| `lifecycle_managed` | do the handlers implement the contract, and keep project, cancellation and ending coherent, whatever overlaps? | 1 demand, 2 people (one administrator, one manager), 2 handlers, 1 crash | 423 163 |
| `lifecycle_liveness` | is the ending told, and does a completed project settle its demand? | 1 demand, 1 person, 2 handlers, no crash, 1 milestone lost | 179 448 |
| `updates_overlap` | with PATCHes of any shape, uploads, deletions and overlapping decisions: does the project go back only by a late decision, and has every lag a reason? | 1 document, 3 PATCHes, 2 handlers | 1 412 423 |
| `doors` | one effect per key and no buried key; calls only to the home of their key, the key in force kept; every log reported, the licence followed | 2 requests, 2 bodies, 2 mishaps; 2 keys, 2 addresses, 1 POST, 1 call, 1 trouble; 1 heartbeat, 1 poll, 1 log, 1 trouble; 2 bearers, 1 trouble | 176 580 |
| `workflows` | is nothing approved without every stage; undisturbed, does the document say the terms and the status follow the decisions? does human work go only by its own DELETE, and does what is completed stay? | 2 handlers, 2 versions, 2 stages, 3 documents, 1 mishap; 2 requests, 2 questions, 1 entry | 2 098 077 |
| `purge` | no file without a row that finds it; a clean answer left nothing; the repeated purge finishes | 2 documents (one may be purged alone), both storages, 2 files, 1 mishap (a crash, a refusal or a change of mode) | 927 518 |
| `jobs` | is *sent* true, is order kept by the drains, does every milestone settle? is a missed deadline told; does the cap hold; do tasks end? | queue: 1 demand, 2 items, 2 drains, 2 attempts, 2 faults, 1 crash; 2 demands, 2 sweeps, one stage that may be missed, 2 mishaps; 2 calls, cap 4, worst cost 2, 1 unchecked; 2 works, 2 sections, 2 troubles | 274 668 |
| `update` | do code, database and history keep step, and does every attempt end where reporting is on? | 2 triggers, 2 attempts, 2 mishaps | 397 580 |

Why the bounds are enough: rows of different demands, proposals and companies
are independent (no handler reads two), so one of them with two handlers already
shows every pair of handlers overlapping, and the third actor of every race, the
one that acts in a single step, needs no slot. Three PATCHes are the least with
an older, a middle and a newer one, and two decisions at once the least that can
meet. Two items of one demand are the least that
can be reordered, and two attempts the least with a postponement and a giving
up. With two requests and two bodies a key meets a retry, a conflict and a
takeover. Two keys are a key and its replacement, at an address each. Two
versions are a proposal and its successor; three documents let both handlers
render beside the one that is there. Two files are an upload that overwrites
another. In the update, two attempts are one that rolls back over another's
record. A cap of two worst calls is the least that two calls fill. Where a
bound is small for the cost of the run, a theorem covers any number: of POSTs
and calls in the pairing, of heartbeats, of calls under the cap, of requests on
a POC, of handlers of a demand and of a proposal, of decisions on updates. In the
update, mishaps come one at a time (`MishapAllowed`), so that a run can tell which
of them did what, and reporting is only turned on: a rollback to an older backup
is what turns it off.

Four more runs show where the code's own words do not hold in the model. Each
checks one sentence of the repository and TLC finds the interleaving that
refutes it:

| run | sentence | what happens |
|---|---|---|
| `lifecycle_approve_race` | a return is approved while its request waits (`routes/demands.ts:928`, `utils/demands.ts:642`) | the approval reads the request, another manager rejects it, and the approval returns the demand all the same |
| `proposals_stuck` | `submitted` means that mandatory stages are missing (`routes/approvals.ts`) | two approvers decide at once; the one who counted before the other's approval writes `submitted` over `approved`; each answers 409 from then on |
| `updates_late_decision` | with the covering of the older updates, no decision writes to the project a value the CRM has corrected (`demandLifecycleService.ts:267-269`) | two people read an older and a newer update as pending; the newer is written and settles the older; the older is written all the same, and its payload goes over the newer one's |
| `analysis_lost_edit` | a reanalysis replaces its own section and no other (`routes/analysis.ts:764-766`) | it saves the whole row it read before a call of minutes; an edit saved meanwhile is lost |

Every property of a passing run has a mutant, a plausible slip in the code's
guards or writes, defined above the definition it replaces; TLC refutes the
property with the mutant in place.

## Divergences

The models do what the code does, also where a comment, a document or another
part of the code expects something else. Besides the four runs above, these
were met while modelling; each can be seen in the actions named.

*Demands.* The answer `cancellation_requested` is given although the conditional
write matched no row (`demandLifecycleService.ts:435`; `demandLifecycle.ts:18`
says the request was registered). Opportunity and sheet are both optional in a
PATCH, so a newer update without the sheet settles the older one that corrected
it (`demandLifecycleService.ts:307`, where line 266 says they travel whole), and
the covering goes by `changed_at` while the demand goes by arrival (line 215). A
Document deleted by hand leaves its declaration with the path of a file that is
gone (`documents.ts:194`), and the next decision hangs that path again, as a
Document without a file (`demands.ts:436-437` calls that a broken promise). Two
decisions that overlap hang one declaration as two Documents (`demands.ts:465`),
and the last of two who decide one update, one to incorporate and one to dismiss,
has its word over the other's (`demandLifecycleService.ts:302`, `:338`). A mirror
demand is born with the owner that was read before the calls to the CRM
(`crmDirectory.ts:149`, `:240`), where the comment at line 140 says that it is the
project's owner: a transfer in between leaves the two with different people. A
milestone whose insert fails is logged and never told (`crmOutbox.ts:214-219`), by
a demand that ended (`lost`) and by a missed deadline (`unheard`), where
`demandLifecycleService.ts` and `server.ts` count on its arrival. `demands.ts:525` says that a returned demand leaves its
project; the code keeps the link. The decision of an approved return is stamped
by a statement of its own (`routes/demands.ts:941`), and a process that dies
between the conclusion of the project and of the demand leaves the demand open.

*Queue and door.* A postponed item is not on the next list and a later one of
the same demand is (`crmOutbox.ts:534`; line 22 says that order is kept). A
reservation that is taken over runs again after a commit whose answer was never
stored (`idempotency.ts:87`; line 59 says that `run` runs once). The scope of a
PATCH's key does not hold the demand (`externalCrm.ts:222`).

*Pairing.* Between the two reads of `resolverDestino` (`crmPort.ts:157`, `:175`),
between its question and its record by tenant (`:237`), and between the read and
the write of `guardarChaveApresentada` (`:84`), the row may change, so that an
address is used, or recorded as checked, for a key it was never checked with
(`crmPort.ts:22` says that it always is). That is the ghost `crossed`.

*Heartbeat.* Logs written between the collection and the mark
(`fleetLicense.ts:597`) are never reported, where `dbStore.ts` says that
warnings and errors are never cut. An older licence may overwrite a newer one
until the next poll (`:397`). A heartbeat overtaken by a poll ends before its
mark and its commands. Overlapping heartbeats create a knowledge entry twice
(`schema.prisma:1610` says "never created twice"), and an entry that failed is
confirmed all the same (`:759`).

*Purge.* The local storage answers false for a missing file (`storage.ts:86`),
so the row of a file that is gone is kept for ever (`crmPurge.ts:128`), and
`RepeatedPurgeFinishes` is stated of S3 only. The adapter of a purge is that of the
current settings (`crmPurge.ts:118`, `:161`), where DELETE /documents/:id takes the
one its row names (`documents.ts:190-193`): once the mode has changed to S3, the
deletion of a file that is elsewhere is answered with a yes, its rows go, and the
file stays (`missed`). An upload that races with the
purge leaves a file no row knows, and a Document hung after the purge's read
stays without its file.

*Proposals.* Overlapping edits leave a document that says other terms, or none.
Two who reopen one version at once: the loser answers 500, not 409, and leaves
its document. A late decision may overwrite the status of a rejected version
that has a successor.

*Proofs of concept.* PUT accepts `completed` (`pocs.ts:314-340`), which
`schema.prisma:644-647` and `pocs.ts:1617-1619` reserve for the approval; a late
PUT reopens a completed POC (`dbStore.ts:1502-1504`); PUT /acceptance between
finalize and approve changes the decision; finalize, exempt from the lock,
rewrites it afterwards, and its report may be generated again; the answer to a
deleted question is 200; overlapping uploads leave a file behind. A PUT of the
status alone, a test's result or a task that is done, does not mark the row as a
person's (`pocs.ts:934`, `:1250`), on purpose; but `schema.prisma:589-591` says that
the AI replaces only what nobody has touched, and the result goes with the draft
(`dbStore.ts:1392`).

*Updates.* Two triggers may both find no update running (`updateScheduler.ts:147`).
A server that dies between creating a task and writing the state leaves a task
nobody ends, and every later update is refused; so does a sweep that dies between
its two writes (`updateScheduler.ts:226`, `:234`), and the sweep of the boot looks
at no such task (`server.ts:313`). The sweep visits installations that report to the
fleet manager only (`updateScheduler.ts:271`), while `run-now` asks for no reporting
(`systemUpdates.ts:149`): elsewhere an orphaned attempt is in progress for ever.
The restored dump takes with it
all that was written since the backup. After `set +e` a rollback that fails half
way is reported as `rolled_back` (`update.sh:143`). The sweep ends the task and
the state of an overdue attempt and leaves its history in progress. A scheduled
update that fails is tried again every five minutes within its window.

*Deadlines.* A crash between the breach and its message, or an insert that fails:
never told. A sweep may
tell the breach of a demand that has moved on. The record is one per stage, so
the lateness of the next owner of the same stage is not told.

*AI.* The comment at `aiOrchestrator.ts:179` says that the reservations never
underestimate; the key expires under calls that take longer than its 120 s, and
a release after that makes it negative. One check covers several calls of one
analysis; classification and reconciliation are not checked. A usage record that
fails after the task was completed marks it failed; a job stays running after a
crash; a task whose request failed between its row and its publication
(`backgroundTasks.ts:78-90`) stays queued, with no work, until the next boot; a task
that was swept becomes running or completed again when its own
process still lives.

*Diagnostics* (not modelled): one event that the fleet manager rejects stays
among the oldest fifty and blocks the batch (`diagnostics/agent.ts:139-160`).

## Fairness

`DemandLifecycle!FairSpec` is weak fairness of `Proceed(r)`: the event loop
resumes a handler whose query was answered. Nothing obliges anybody to start
one, and the liveness properties hold without crashes, since nothing re-tells a
milestone that a crash swallowed. `OutboxFairness` (in `MCJobs`, as the next two) is
weak fairness of each drain, which the 20 s interval starts again and again and
whose calls have timeouts, and of the end of the waits, since time passes. `Purge!FairSpec` adds that the CRM asks
again as long as the demand is there, which its own outbox does.
`SlaFairness`: the interval fires each minute and a sweep runs to its end.
`UpdateFairness`: requests, scripts and sweeps go on until they end or die, time
passes, and the timer fires; it obliges nobody to turn the reporting on, and
`AttemptEnds` asks nothing where it is off. `WorkFairness`: a model answers or its call times out
(`aiProviders.ts:64`), and the process manager boots a server that died.
`KeyFairness`: a request goes on, 90 s pass, and the CRM retries.
`PairingFairness`: a POST goes on and the cache expires (weak); the CRM presents
the key in force again and again, whatever else it presents. That one is strong
fairness, because a *no* in the cache shuts the door for 30 s at a time, and a
CRM that calls only in those intervals would never be let in: it has work of its
own, whose times do not follow our cache. `HeartbeatFairness`: every call has a
timeout, and the poll is repeated every 45 s. Bounds on crashes and troubles
make them cease, which is what the liveness properties ask for; the invariants
do not need it.

## Proofs

Every theorem holds for any value of the constants, under the assumptions named
in the module it speaks of; what is assumed beyond them stands in the theorem.

`DemandLifecycle_proofs`, from the assumptions that `NoUser` is not a person,
`NoDemand` not a demand and `MaxCrashes` and `MaxLost` natural numbers: `TypeCorrect`;
`BornOnce`, `CancellationHolds`, `NothingLeftOpen`, `EndsOnce` (the invariants
`OneProject`, `CancellationCoherent`, `OpenOnlyWhileConcluding`, `OneEnding`);
`ProjectFollows`, an action property of every step but the birth of a mirror;
`Implementation`, that is,
`Spec => Contract!Spec`. The properties are not inductive by themselves, and
`IInv` says what they lack. `Handlers` says what a handler holds: a demand, a
person where it acts for one, and, for a reassignment, a demand that was taken
(and whose missing link, if it saw none, is never made). `Debts` is the heart: a
handler that committed and has still to tell *owes* a milestone; what is told or
owed has happened, what is owed is not told yet, and two handlers never owe the
same. With it `Tell` happens once per milestone, and `told <= 1` follows;
without it, two handlers at `telling` with the same mark are a state that
satisfies `OneEnding` and is one step from breaking it. `TakenWhenOwed` ties the
first two milestones to a demand that was taken, which the refinement needs for
`Contract!Tell`. The refinement follows from `IInv` step by step: conditional
writes map to `Contract!Move`, `Tell` to `Contract!Tell` or a stutter on a
purged demand, reads and everything about the project to a stutter.

`Doors_proofs`, of the keys, from `IdempotencyBounds`: `TypeCorrect`; `Created`
(`CreatedOnce`, whatever goes wrong); `Undisturbed` and `Same` (`OnceUndisturbed`
and `SameAnswer`, of a system where nothing crashed and the record could always
be written). That a key writes once is not inductive: a state with one write
done and a second request about to run satisfies it. `Tenure` says why there is
none. `Holding`: a reservation in flight has exactly one holder, which works
under it with the body in the record, and it never grows old. `Ledger`: before
the run, and after one that threw, nothing was written; after the run the only
write is for the body that ran. `Given`: who was given a run's answer was given
the stored one. A mishap breaks `Tenure`, and must: a key that was taken over
may run twice. `CreatedOnce` needs none of it, because the run of
`POST /demands` looks the demand up.

`DemandUpdates_proofs`, from `KindsAssumption` and `BoundAssumption`, however many
decisions overlap: `TypeCorrect`, `ProjectGoesForward`, `NothingLostUnseen`
(`TypeOK`, `NeverGoesBack`, `LagHasReason`). `DecInv` adds
to the types that updates are numbered in the order of their PATCHes and that a
decision is about one that exists, whatever others have made of it since
(`Numbered`). `Ordered`: an update that waits is newer than what the project says, so
writing it goes forward; the write of one that somebody else has decided meanwhile
is the step the code does not guard, and the parts it takes back are `rewound`, of
which nothing more is said. `LagInv` relates the project to the CRM: while PATCHes
bring every part, in order, each update newer than what a part of the project says
waits, was dismissed, or was born settled while the demand was being taken
(`EachHasReason`); and where an update waits, so it is with each newer one
(`NewerHaveReason`), which is what the covering of the older ones needs. It is
stronger than `LagHasReason`, which asks for one such update, because once that one
is incorporated another must be found for what still lags.

`CrmOutbox_proofs`, from `DemandAssumption` and `OutboxBounds`: `TypeCorrect`,
`SentIsReceived`, `OrderIsKept` (`SentWasReceived`, `OnlyPostponedOvertaken`). A
drain marks a row by its id long after it read it; what it marks as sent was
received because it carries the result of its own call (`Delivered`), and the
CRM never forgets. That only a postponed milestone is overtaken needs what a
drain knew when it listed: an older milestone of the same demand that its list
passes over, and that is still to be delivered, was tried before
(`LeftOutTried`), because it was not due, and what waits was tried
(`PostponedTried`); and of its list it sends the oldest of each demand first.

`Proposals_proofs`, from `MandatoryStages` and `ProposalBounds`:

- `NothingUnapproved` (`ApprovedByAll`). Two decisions of one stage may both be
  recorded and a handler may be overtaken between its count and its write; what
  saves the approval is that decisions are never taken back, so what was counted
  still counts (`HandlersApproved`). `Shape` holds the types without the bounds
  on the numbers, which are not needed.
- `Typed` (`TypeOK`), by `NumbersInv`. The numbers are bounded because every
  edit at work was promised a document of its own (`FilesPromised`), and the
  terms never outnumber the documents that were taken (`TermsBounded`); the
  versions are made in order (`VersionsInOrder`).
- `DocumentsSayTheTerms` (`DocumentIsCurrent`), by `DocumentsInv`: the document a
  handler was promised is nobody else's (`Fresh`), so no two versions share one
  and a handler that deletes deletes its own version's (`OwnDocument`), and what
  is about to be pointed at still says what was rendered (`RenderedStays`).
- `DecisionsAreFollowed` (`StatusFollowsDecisions`), by `StatusInv`: drafts are
  undecided (`Undecided`), a handler read what its step asks for (`SawStatus`),
  and while nobody wrote over what it did not know, a submitted version with a
  decision has a handler on its way to say so (`SubmittedWaits`) and a version
  with a successor stays rejected (`RejectedStays`).
- `VersionsAreOneLine`: the versions are one line, numbered one after the other,
  whatever overlaps. A reopening writes a number it read long before; it is right
  because the number of a version never changes (`SawVersion`) and because only
  the last version has no successor.
- `NothingTakenBack`, of every step: no decision, no answer of the client and no
  exit from the drafts is undone, however late a handler writes.

`Purge_proofs`, from `PurgeBounds`: `TypeCorrect`, `FilesGoFirst`,
`NothingOfItStays` (`TypeOK`, `FileBeforeRow`, `PurgedForGood`). The purge holds a
path between the deletion of a file and of its rows; the file is not stored
again meanwhile, because a path is stored once (`KnownFiles`, `RowsAfterFile`). A
declaration and the Document hung from it know the same path (`Linked`), so
deleting the rows of a deleted file loses no other. That the mode of the storage
may change does not touch this: what an adapter does not have it either keeps the
rows of, or says it deleted (`missed`). A company's purge that met no
failure before it comes to the project, or to its record, left no demand and no
name (`CompanyGoes`). `Linked`, and with it the two properties, excuse a write or
a deletion of a row that had changed since its read (`stale`); the types do not.

`Pocs_proofs`, from `QuestionsAreNoEntries`: `TypeCorrect`, `CompletedIsFrozen`,
`HumanWorkStays` (of what people wrote in an item; a status protects nothing).
While the POC is completed, every request in flight that was
not let in before is one of the three exempt ones (`OnlyExemptSince`), and those
write neither the work nor the signed document.

`Jobs_proofs`, of the cap, from `SpendingAssumption`: `CapIsKept`. While no call
has outlived the key, the key holds the worst cost of every call under way
(`ReservedForAll`); a call between its read and its reservation misses nothing
(`NothingMissed`); so what was paid and what the admitted calls may still cost
stay under the cap together (`RoomForAdmitted`).

`Jobs_proofs`, of the update, from `UpdateBounds`: `UpdateKeepsStep`
(`CodeAndDatabaseInStep`). That code and database agree when no script is at work
says nothing of the long way through a script: `Progress` says, of each of its
steps, what is checked out, running and migrated by then, what the backup holds,
and, of a script that only has to report, that what it reports is so.
`Deployments` adds that what was never deployed neither runs nor is checked out
nor is what another attempt would go back to; without it the outcome written to
the history could be that of the version that runs. All of it holds until two
scripts meet, one dies or a rollback is left half done (`disturbed`).

`Jobs_proofs`, of the four together, the queue aside: `JobsTyped`. For the deadlines, that a
breach is told at most once rests on a sweep alone having in hand what it
recorded (`SlaInv`). For the analyses, that a completed job has left its row
rests on what each kind of work has at each step (`Sound` in `WorkInv`), from the
assumption `WorkSections`: an analysis has sections, as the row has columns, and
"nobody" is not somebody's work.

`Jobs_proofs`, of the analyses: `NoTaskForgotten`, which needs no fairness and is
the safety half of `EveryTaskEnds`: whoever polls a task that is not ended has a
work on its way to end it, or a boot whose sweep is still to come (`TaskHasEnd`),
unless its request failed after it had inserted the task (`stranded`).
A request that dies before it made its task leaves none (`NoTaskYet`), the catch
leads to the row that ends the task, and an edit has no task to leave behind.

`Doors_proofs`, of the rest, from `PairingAssumption`, `HeartbeatAssumption` and
`DeliveryAssumption`: `PairingTypeCorrect`; `CallsGoHome` (`CalledIsHome`),
because whoever records a check had its own address answered for its own key
(`RecordersChecked`), and a row that did not change since it was read is the one
that was checked; `LogsAreReported` (`UnreportedIsBetween`), because a heartbeat
past its answer leaves nothing unreported but what was logged on its way
(`Accounted`); `EntryStoredOnce` (`StoredOnce`), because while no two heartbeats
met, whoever creates the entry is alone and found none; `KeysWereInForce`: no key
passes the door, is stored for the return or signs a call before the fleet
manager had it in force, because every *yes* of the cache was its answer, and
what goes from the cache to a POST, to the row and to a call is such a key; and
`DoorsTyped`, of the four together, for which the order in which the answers of
the heartbeat were issued is a set of pairs that stays a linear order whatever
is asked, cached, lost or forgotten (`IssuedInOrder`).

Every invariant and every action property without fairness that a run checks and
that holds is stated by one of these theorems; the type invariants of the
lifecycle, the updates, the queue and the POC are proved and not run.

Only model-checked: liveness, which holds under fairness, and fairness is
ENABLED, beyond the prover: `EndIsTold`, `CompletionSettles`, `EachSettles`,
`KeyNotBuried`, `KeyInForceIsStored`, `LicenceFollows`, `RepeatedPurgeFinishes`,
`AttemptEnds`, `LateIsTold`, `EveryTaskEnds`. The four properties that are
expected to be violated are, and nothing is proved of them. No module has a
RECURSIVE operator and no proof needs induction over data.

## Not modelled, and why

Columns that are only shown (names, notes, times, audit rows) tell no property
apart. The wording of answers, the diff shown to whoever decides, the bodies of
messages, what the models answer, templates and DOCX, and the checks of the
proposal's file are data. Tenants are separate: every query carries one. The
storage providers, the AI providers, the fleet manager and the CRM are external;
they appear by what the code expects of them. The web client repeats what the server decides, and
the screens of rows that one person edits have no state that two steps share.
Authentication, roles and sessions are left out; who may act appears as
constants where a handler asks.

Some hazards are met by no property. A reassignment of a demand that ended
meanwhile and a pairing that is broken, which discards what is queued, are in
the models and nothing is claimed of them, nor of two update scripts that meet and
of a declaration that is hung twice, which the code lets happen; the least loaded
person chosen on counts that are old is not in the models.

## Plan

What is left, in this order:

1. the distribution: loads read, then a claim that may find the demand taken;
2. the heartbeat's commands (an update that is asked for from outside, composed
   with `SystemUpdate`) and its messages;
3. the diagnostics agent: its buffer, its batches and its retries;
4. the lockout: failed logins counted at once, and its window;
5. the pricing drafts and the import of the catalogue;
6. proofs: the safety that the
   liveness properties rest on, which a proof can reach: that what must be told
   again is always found by somebody, as `NoTaskForgotten` says of the analyses
   (the queue, the sweep of the deadlines, the attempts of an update).
