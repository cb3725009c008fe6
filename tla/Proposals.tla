------------------------------ MODULE Proposals ------------------------------
(***************************************************************************)
(* A proposal and its versions (routes/proposals.ts, routes/approvals.ts): *)
(* edited and rendered while a draft, submitted, decided stage by stage,   *)
(* released, answered by the client, and after a rejection reopened as a   *)
(* new version.                                                            *)
(*                                                                         *)
(* Every handler reads the row and writes it later, by its id: only the    *)
(* client's answer repeats the read in its WHERE, and only the successor   *)
(* of a version has a unique index.  A read is an action, and so is each   *)
(* write.  The answers are left out, and of the terms only how many edits  *)
(* were made of them.  The workflow stays the same meanwhile: its stages   *)
(* cannot be replaced once a decision refers to one.                       *)
(***************************************************************************)
EXTENDS Naturals, FiniteSets

CONSTANTS
  Handler,      \* requests that may be in flight at the same time
  Stage,        \* stages of the approval workflow
  Mandatory,    \* which stages a workflow may require: a set of sets of stages
  MaxVersions,  \* bound on the versions
  MaxFiles,     \* bound on the documents that are rendered
  MaxMishaps    \* bound on the crashes and on the renderings that fail

ASSUME MandatoryStages == Mandatory \subseteq SUBSET Stage
ASSUME ProposalBounds == MaxVersions \in Nat /\ MaxFiles \in Nat \ {0} /\ MaxMishaps \in Nat

VARIABLES
  mandatory,  \* the stages that this workflow requires
  prop,       \* [Proposal -> Row]
  file,       \* [File -> Content]: the stored documents (a DOCX and its PDF)
  decision,   \* the rows of approval_decisions
  emitted,    \* [Proposal -> SUBSET Event]: what the CRM's timeline is told
  req,        \* [Handler -> Request]
  started,    \* documents that were asked for so far
  stale,      \* some handler has written over a row that changed since its read
  mishaps

vars == <<mandatory, prop, file, decision, emitted, req, started, stale, mishaps>>

Proposal == 1..MaxVersions
File == 1..MaxFiles

Status == {"none", "draft", "submitted", "approved", "rejected", "released"}
Client == {"none", "accepted", "declined"}
Event == {"ready", "rejected", "sent", "accepted", "declined"}
Verdict == {"approved", "rejected"}

\* terms: how many edits made them; doc: the document; prev: the version it succeeds.
Row == [status : Status, terms : 0..MaxFiles, doc : 0..MaxFiles,
        prev : 0..MaxVersions, version : 0..MaxVersions, client : Client]
NoRow == [status |-> "none", terms |-> 0, doc |-> 0, prev |-> 0, version |-> 0, client |-> "none"]

\* What a document says: the terms it was rendered from, or it is not there.
NotThere == MaxFiles + 1
Content == 0..NotThere

Decision == [p : Proposal, stage : Stage, verdict : Verdict]

\* saw: the row as the handler read it and has written it since.
Request ==
  [step : {"idle", "editing", "rendering", "pointing", "submitting", "checking", "recording",
           "counting", "deciding", "reopening", "releasing", "sending"},
   p : 0..MaxVersions, saw : Row, file : 0..MaxFiles, stage : Stage \cup {"none"},
   next : Status]

Idle == [step |-> "idle", p |-> 0, saw |-> NoRow, file |-> 0, stage |-> "none", next |-> "none"]

TypeOK ==
  /\ mandatory \in Mandatory
  /\ prop \in [Proposal -> Row]
  /\ file \in [File -> Content]
  /\ decision \subseteq Decision
  /\ emitted \in [Proposal -> SUBSET Event]
  /\ req \in [Handler -> Request]
  /\ started \in 1..MaxFiles
  /\ stale \in BOOLEAN
  /\ mishaps \in 0..MaxMishaps
  /\ \A h \in Handler : req[h].step # "idle" => prop[req[h].p].status # "none"

\* A proposal has been generated: its first version, with its document.
Init ==
  /\ mandatory \in Mandatory
  /\ prop = [p \in Proposal |->
       IF p = 1 THEN [NoRow EXCEPT !.status = "draft", !.doc = 1, !.version = 1] ELSE NoRow]
  /\ file = [f \in File |-> IF f = 1 THEN 0 ELSE NotThere]
  /\ decision = {}
  /\ emitted = [p \in Proposal |-> {}]
  /\ req = [h \in Handler |-> Idle]
  /\ started = 1
  /\ stale = FALSE
  /\ mishaps = 0

-----------------------------------------------------------------------------

At(h, step) == req[h].step = step
On(h) == req[h].p

\* A handler read p and goes on.
Reads(h, p, step) ==
  /\ At(h, "idle")
  /\ req' = [req EXCEPT ![h] = [Idle EXCEPT !.step = step, !.p = p, !.saw = prop[p]]]

\* It reads p and will render a document.
ReadsToRender(h, p, step) ==
  /\ At(h, "idle")
  /\ started < MaxFiles
  /\ started' = started + 1
  /\ req' = [req EXCEPT ![h] = [Idle EXCEPT !.step = step, !.p = p, !.saw = prop[p],
                                            !.file = started + 1]]

\* A plain update by id, whatever the row has become.
Writes(h, row) ==
  /\ prop' = [prop EXCEPT ![On(h)] = row]
  /\ stale' = (stale \/ prop[On(h)] # req[h].saw)

Ends(h) == req' = [req EXCEPT ![h] = Idle]
Emits(p, events) == emitted' = [emitted EXCEPT ![p] = @ \cup events]

-----------------------------------------------------------------------------
(* PUT /proposals/:id *)

EditRead(h, p) ==
  /\ prop[p].status = "draft"
  /\ ReadsToRender(h, p, "editing")
  /\ UNCHANGED <<mandatory, prop, file, decision, emitted, stale, mishaps>>

\* updateProposal: the terms; what it returns is rendered.
EditTerms(h) ==
  /\ At(h, "editing")
  /\ LET terms == prop[On(h)].terms + 1 IN
       /\ Writes(h, [prop[On(h)] EXCEPT !.terms = terms])
       /\ req' = [req EXCEPT ![h].step = "rendering", ![h].saw.terms = terms]
  /\ UNCHANGED <<mandatory, file, decision, emitted, started, mishaps>>

\* Mutant of Rendered: the old document is not deleted, and is what the row keeps.
RenderedInPlace(h) == file

\* The new document is written and the one the handler read is deleted.
Rendered(h) == [file EXCEPT ![req[h].file] = req[h].saw.terms, ![req[h].saw.doc] = NotThere]

EditRender(h) ==
  /\ At(h, "rendering")
  /\ file' = Rendered(h)
  /\ req' = [req EXCEPT ![h].step = "pointing"]
  /\ UNCHANGED <<mandatory, prop, decision, emitted, started, stale, mishaps>>

\* The template cannot be merged, or the storage fails: the terms stay.
EditFails(h) ==
  /\ At(h, "rendering")
  /\ mishaps < MaxMishaps
  /\ mishaps' = mishaps + 1
  /\ Ends(h)
  /\ UNCHANGED <<mandatory, prop, file, decision, emitted, started, stale>>

EditPoint(h) ==
  /\ At(h, "pointing")
  /\ Writes(h, [prop[On(h)] EXCEPT !.doc = req[h].file])
  /\ Ends(h)
  /\ UNCHANGED <<mandatory, file, decision, emitted, started, mishaps>>

-----------------------------------------------------------------------------
(* POST /proposals/:id/approval/submit and /approval/decision *)

SubmitRead(h, p) ==
  /\ prop[p].status = "draft"
  /\ Reads(h, p, "submitting")
  /\ UNCHANGED <<mandatory, prop, file, decision, emitted, started, stale, mishaps>>

Submit(h) ==
  /\ At(h, "submitting")
  /\ Writes(h, [prop[On(h)] EXCEPT !.status = "submitted"])
  /\ Ends(h)
  /\ UNCHANGED <<mandatory, file, decision, emitted, started, mishaps>>

DecideRead(h, p, s, verdict) ==
  /\ At(h, "idle")
  /\ prop[p].status = "submitted"
  /\ req' = [req EXCEPT ![h] = [Idle EXCEPT !.step = "checking", !.p = p, !.saw = prop[p],
                                            !.stage = s, !.next = verdict]]
  /\ UNCHANGED <<mandatory, prop, file, decision, emitted, started, stale, mishaps>>

\* getApprovalDecision: a stage that was decided is answered 409.
DecideCheck(h) ==
  /\ At(h, "checking")
  /\ IF \E d \in decision : d.p = On(h) /\ d.stage = req[h].stage
     THEN Ends(h)
     ELSE req' = [req EXCEPT ![h].step = "recording"]
  /\ UNCHANGED <<mandatory, prop, file, decision, emitted, started, stale, mishaps>>

\* Mutant of DecideRecord: a stage's rejection is counted like an approval.
DecideRecordCounting(h) ==
  /\ At(h, "recording")
  /\ decision' = decision \cup {[p |-> On(h), stage |-> req[h].stage, verdict |-> req[h].next]}
  /\ req' = [req EXCEPT ![h].step = "counting"]
  /\ UNCHANGED <<mandatory, prop, file, emitted, started, stale, mishaps>>

\* Mutant of DecideRecord: what is recorded is the status that follows.
DecideRecordStatus(h) ==
  /\ At(h, "recording")
  /\ decision' = decision \cup {[p |-> On(h), stage |-> req[h].stage, verdict |-> prop[On(h)].status]}
  /\ req' = [req EXCEPT ![h].step = "counting"]
  /\ UNCHANGED <<mandatory, prop, file, emitted, started, stale, mishaps>>

\* createApprovalDecision: no index tells two decisions of a stage apart.
DecideRecord(h) ==
  /\ At(h, "recording")
  /\ decision' = decision \cup {[p |-> On(h), stage |-> req[h].stage, verdict |-> req[h].next]}
  /\ req' = [req EXCEPT ![h].step = IF req[h].next = "rejected" THEN "deciding" ELSE "counting"]
  /\ UNCHANGED <<mandatory, prop, file, emitted, started, stale, mishaps>>

Approves(p, s) == [p |-> p, stage |-> s, verdict |-> "approved"] \in decision

\* Mutant of AllRequired: one approval is enough.
AnyRequired(p) == mandatory = {} \/ \E s \in mandatory : Approves(p, s)

\* allRequiredApproved
AllRequired(p) == \A s \in mandatory : Approves(p, s)

DecideCount(h) ==
  /\ At(h, "counting")
  /\ req' = [req EXCEPT ![h].step = "deciding",
                        ![h].next = IF AllRequired(On(h)) THEN "approved" ELSE "submitted"]
  /\ UNCHANGED <<mandatory, prop, file, decision, emitted, started, stale, mishaps>>

\* updateProposalStatus, and the milestone of the timeline.
Decide(h) ==
  /\ At(h, "deciding")
  /\ Writes(h, [prop[On(h)] EXCEPT !.status = req[h].next])
  /\ Emits(On(h), CASE req[h].next = "approved" -> {"ready"}
                    [] req[h].next = "rejected" -> {"rejected"}
                    [] OTHER -> {})
  /\ Ends(h)
  /\ UNCHANGED <<mandatory, file, decision, started, mishaps>>

-----------------------------------------------------------------------------
(* POST /proposals/:id/reopen *)

\* The rejected version has no successor yet.
ReopenRead(h, p) ==
  /\ prop[p].status = "rejected"
  /\ \A q \in Proposal : prop[q].prev # p
  /\ ReadsToRender(h, p, "reopening")
  /\ UNCHANGED <<mandatory, prop, file, decision, emitted, stale, mishaps>>

\* The unique index: somebody has reopened it.
Successor(p) == \E q \in Proposal : prop[q].prev = p

\* buildReopenedProposalFields: from what was read, with a document of its own.
Reopened(h) ==
  LET old == req[h].saw IN
    [status |-> "draft", terms |-> old.terms, doc |-> req[h].file, prev |-> On(h),
     version |-> old.version + 1, client |-> "none"]

\* The document is written, then the row; a second successor is an error, and its document
\* stays.
Reopen(h) ==
  /\ At(h, "reopening")
  /\ file' = [file EXCEPT ![req[h].file] = req[h].saw.terms]
  /\ \/ /\ ~Successor(On(h))
        /\ \E q \in Proposal :
             /\ prop[q].status = "none"
             /\ \A o \in Proposal : prop[o].status = "none" => q <= o
             /\ prop' = [prop EXCEPT ![q] = Reopened(h)]
     \/ Successor(On(h)) /\ UNCHANGED prop
  /\ Ends(h)
  /\ UNCHANGED <<mandatory, decision, emitted, started, stale, mishaps>>

-----------------------------------------------------------------------------
(* POST /proposals/:id/release and /client-decision *)

ReleaseRead(h, p) ==
  /\ prop[p].status = "approved"
  /\ Reads(h, p, "releasing")
  /\ UNCHANGED <<mandatory, prop, file, decision, emitted, started, stale, mishaps>>

\* adapter.exists: nothing is released without its document.
ReleaseCheck(h) ==
  /\ At(h, "releasing")
  /\ IF file[req[h].saw.doc] # NotThere
     THEN req' = [req EXCEPT ![h].step = "sending"]
     ELSE Ends(h)
  /\ UNCHANGED <<mandatory, prop, file, decision, emitted, started, stale, mishaps>>

Release(h) ==
  /\ At(h, "sending")
  /\ Writes(h, [prop[On(h)] EXCEPT !.status = "released"])
  /\ Emits(On(h), {"sent"})
  /\ Ends(h)
  /\ UNCHANGED <<mandatory, file, decision, started, mishaps>>

\* The WHERE of registrarDecisaoDoCliente.
MayAnswer(p) == prop[p].status = "released" /\ prop[p].client = "none"

\* The handler's reads are those of its WHERE, which is what counts; the event follows.
ClientDecision(p, answer) ==
  /\ MayAnswer(p)
  /\ prop' = [prop EXCEPT ![p].client = answer]
  /\ Emits(p, {answer})
  /\ UNCHANGED <<mandatory, file, decision, req, started, stale, mishaps>>

-----------------------------------------------------------------------------

\* The process dies: the handlers are lost where they are.
Crash ==
  /\ mishaps < MaxMishaps
  /\ mishaps' = mishaps + 1
  /\ req' = [h \in Handler |-> Idle]
  /\ UNCHANGED <<mandatory, prop, file, decision, emitted, started, stale>>

Step(h) ==
  \/ EditTerms(h) \/ EditRender(h) \/ EditFails(h) \/ EditPoint(h)
  \/ Submit(h)
  \/ DecideCheck(h) \/ DecideRecord(h) \/ DecideCount(h) \/ Decide(h)
  \/ Reopen(h)
  \/ ReleaseCheck(h) \/ Release(h)

Start(h, p) ==
  \/ EditRead(h, p) \/ SubmitRead(h, p) \/ ReopenRead(h, p) \/ ReleaseRead(h, p)
  \/ \E s \in Stage, verdict \in Verdict : DecideRead(h, p, s, verdict)

Next ==
  \/ \E h \in Handler : Step(h) \/ \E p \in Proposal : Start(h, p)
  \/ \E p \in Proposal, answer \in {"accepted", "declined"} : ClientDecision(p, answer)
  \/ Crash

Spec == Init /\ [][Next]_vars

-----------------------------------------------------------------------------

Exists(p) == prop[p].status # "none"

\* What is approved or released, or was announced as ready, has the approval of every
\* mandatory stage, whatever overlapped or crashed (POST .../approval/decision).
ApprovedByAll ==
  \A p \in Proposal :
    prop[p].status \in {"approved", "released"} \/ "ready" \in emitted[p] =>
      \A s \in mandatory : \E d \in decision : d.p = p /\ d.stage = s /\ d.verdict = "approved"

\* No handler has written over what it did not know, crashed, or failed to render.
Undisturbed == ~stale /\ mishaps = 0

\* Undisturbed, the document of a version is there and says its terms, unless its edit is
\* still at work ("the exported files always match what's on screen", PUT /proposals/:id).
DocumentIsCurrent ==
  Undisturbed =>
    \A p \in Proposal : Exists(p) =>
      \/ file[prop[p].doc] = prop[p].terms
      \/ \E h \in Handler : On(h) = p /\ req[h].step \in {"rendering", "pointing"}

LacksStage(p) == \E s \in mandatory : ~\E d \in decision :
  d.p = p /\ d.stage = s /\ d.verdict = "approved"

Deciding(p) == \E h \in Handler : On(h) = p /\ req[h].step \in {"counting", "deciding"}

\* Undisturbed, what waits for a decision lacks one and has no rejection, unless a handler
\* is about to say so; and a version with a successor stays rejected (canReopenProposal).
StatusFollowsDecisions ==
  Undisturbed =>
    \A p \in Proposal :
      /\ prop[p].status = "submitted" /\ ~Deciding(p) =>
           /\ \A d \in decision : d.p = p => d.verdict = "approved"
           /\ (\E d \in decision : d.p = p) => LacksStage(p)
      /\ (\E q \in Proposal : prop[q].prev = p) => prop[p].status = "rejected"

\* "`submitted` (faltam etapas obrigatorias)" (approvals.ts): while nothing crashes, what is
\* left submitted lacks a mandatory stage.
SubmittedAwaitsStage ==
  mishaps = 0 =>
    \A p \in Proposal :
      prop[p].status = "submitted" /\ (\E d \in decision : d.p = p) /\ ~Deciding(p) => LacksStage(p)

=============================================================================
