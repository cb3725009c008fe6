-------------------------------- MODULE Pocs --------------------------------
(***************************************************************************)
(* A proof of concept (routes/pocs.ts): its report and its other work,     *)
(* written by people and by the AI, its acceptance by the client, and the  *)
(* lock that follows its completion.                                       *)
(*                                                                         *)
(* One middleware refuses every writing route of a completed POC, but for  *)
(* three; it reads the status before the handler runs, and a generation    *)
(* writes minutes later.  So being let in is an action, and each write is  *)
(* another.  A plain read that only answers 404 is left out: the update by *)
(* id that follows it finds no row either.                                 *)
(*                                                                         *)
(* A question of the final report stands for what only the AI proposes, an *)
(* entry for what people create and delete too (test cases and tasks; the  *)
(* criteria and the equipment are alike and have no AI).  The five         *)
(* statuses are two here: completed, or open.                              *)
(***************************************************************************)
EXTENDS Naturals

CONSTANTS
  PocHandler,  \* requests that may be in flight at the same time
  Question,    \* questions of the final report
  Entry        \* test cases and tasks

ASSUME QuestionsAreNoEntries == Question \cap Entry = {}

VARIABLES
  poc,     \* the row of pocs
  acc,     \* the row of poc_acceptances; Pending stands for no row, too
  work,    \* [Item -> how far it is]
  pocReq,  \* [PocHandler -> PocRequest]
  before   \* handlers that were in flight when the POC was completed

pocVars == <<poc, acc, work, pocReq, before>>

Item == Question \cup Entry

\* draft: of the AI, untouched; noted: a draft whose status a person set, and no more;
\* blank: a person saved an empty answer; done: a person's.
Progress == {"absent", "draft", "noted", "blank", "done"}
PocDecision == {"pending", "won", "lost"}

Poc == [exists : BOOLEAN, status : {"open", "completed"}, archived : BOOLEAN]
Acceptance == [decision : PocDecision, pending : BOOLEAN, approved : BOOLEAN, signed : 0..2]
NoAcceptance == [decision |-> "pending", pending |-> FALSE, approved |-> FALSE, signed |-> 0]

Op == {"idle", "edit", "note", "create", "drop", "generate", "drafting", "decide", "update",
       "remove", "sign", "finalize", "approve", "archive"}

\* on: the item or the value the request is about.
Value ==
  Item \cup PocDecision
    \cup {"open", "completed", "yes", "no", "none", "questions", "entries"}
PocRequest == [op : Op, on : Value]
PocIdle == [op |-> "idle", on |-> "none"]

PocTypeOK ==
  /\ poc \in Poc
  /\ acc \in Acceptance
  /\ work \in [Item -> Progress]
  /\ (\A e \in Entry : work[e] # "blank") /\ (\A q \in Question : work[q] # "noted")
  /\ pocReq \in [PocHandler -> PocRequest]
  /\ before \subseteq {h \in PocHandler : pocReq[h].op # "idle"}
  /\ ~poc.exists => acc = NoAcceptance /\ work = [i \in Item |-> "absent"]

PocInit ==
  /\ poc = [exists |-> TRUE, status |-> "open", archived |-> FALSE]
  /\ acc = NoAcceptance
  /\ work = [i \in Item |-> "absent"]
  /\ pocReq = [h \in PocHandler |-> PocIdle]
  /\ before = {}

-----------------------------------------------------------------------------

InFlight == {h \in PocHandler : pocReq[h].op # "idle"}

\* POC_LOCK_EXEMPT_SUFFIXES
Exempt == {"finalize", "approve", "archive"}

\* Mutant of LetIn: only the routes that update and delete are locked.
LetInToCreate(op) == op \in Exempt \cup {"create", "generate", "sign"} \/ poc.status # "completed"

\* The middleware: a completed POC is refused, but on the exempt routes.
LetIn(op) == op \in Exempt \/ poc.status # "completed"

Enters(h, op, on) ==
  /\ poc.exists
  /\ pocReq[h] = PocIdle
  /\ LetIn(op)
  /\ pocReq' = [pocReq EXCEPT ![h] = [op |-> op, on |-> on]]
  /\ UNCHANGED <<poc, acc, work, before>>

PocAt(h, op) == pocReq[h].op = op
PocOn(h) == pocReq[h].on

PocEnds(h) ==
  /\ pocReq' = [pocReq EXCEPT ![h] = PocIdle]
  /\ before' = before \ {h}

\* The handler stops here: the AI or a write fails, the row it creates is there
\* already, or its process dies.
Stop(h) ==
  /\ pocReq[h] # PocIdle
  /\ PocEnds(h)
  /\ UNCHANGED <<poc, acc, work>>

-----------------------------------------------------------------------------
(* The report, the test cases and the tasks *)

AskEdit(h, i) == work[i] # "absent" /\ Enters(h, "edit", i)

\* PUT of the content: a person takes the item over (edited_manually).  It may be gone
\* since: then nothing is written, and the answer is 200 all the same.
Edit(h) ==
  /\ PocAt(h, "edit")
  /\ \E made \in IF PocOn(h) \in Question THEN {"blank", "done"} ELSE {"done"} :
       work' = IF work[PocOn(h)] = "absent" THEN work ELSE [work EXCEPT ![PocOn(h)] = made]
  /\ PocEnds(h)
  /\ UNCHANGED <<poc, acc>>

AskNote(h, i) == i \in Entry /\ work[i] # "absent" /\ Enters(h, "note", i)

\* PUT of the status alone, the result of a test or a task that is done: the item stays
\* the AI's.
Note(h) ==
  /\ PocAt(h, "note")
  /\ work' = IF work[PocOn(h)] = "draft" THEN [work EXCEPT ![PocOn(h)] = "noted"] ELSE work
  /\ PocEnds(h)
  /\ UNCHANGED <<poc, acc>>

\* A row refers to its POC.
MayCreate == poc.exists

AskCreate(h, i) == i \in Entry /\ work[i] = "absent" /\ Enters(h, "create", i)

Create(h) ==
  /\ PocAt(h, "create")
  /\ MayCreate
  /\ work[PocOn(h)] = "absent"
  /\ work' = [work EXCEPT ![PocOn(h)] = "done"]
  /\ PocEnds(h)
  /\ UNCHANGED <<poc, acc>>

AskDrop(h, i) == i \in Entry /\ work[i] # "absent" /\ Enters(h, "drop", i)

Drop(h) ==
  /\ PocAt(h, "drop")
  /\ work' = [work EXCEPT ![PocOn(h)] = "absent"]
  /\ PocEnds(h)
  /\ UNCHANGED <<poc, acc>>

Kind(name) == IF name = "questions" THEN Question ELSE Entry

AskGenerate(h) == \E name \in {"questions", "entries"} : Enters(h, "generate", name)

\* Mutant of Regenerated: everything the AI wrote goes, also what was taken over since.
RegeneratedAll(kind) == [i \in Item |-> IF i \in kind THEN "absent" ELSE work[i]]

\* deleteUneditedAi...: one statement, over the rows as they are now.
Regenerated(kind) ==
  [i \in Item |-> IF i \in kind /\ work[i] \in {"draft", "noted"} THEN "absent" ELSE work[i]]

\* The AI has answered: the drafts whose content nobody edited are deleted.
Regenerate(h) ==
  /\ PocAt(h, "generate")
  /\ work' = Regenerated(Kind(PocOn(h)))
  /\ pocReq' = [pocReq EXCEPT ![h].op = "drafting"]
  /\ UNCHANGED <<poc, acc, before>>

\* One of the new drafts is written; after any of them the handler may be done.
Draft(h) ==
  /\ PocAt(h, "drafting")
  /\ MayCreate
  /\ \E i \in Kind(PocOn(h)) :
       /\ work[i] = "absent"
       /\ work' = [work EXCEPT ![i] = "draft"]
  /\ UNCHANGED <<poc, acc, pocReq, before>>

-----------------------------------------------------------------------------
(* The acceptance *)

AskDecide(h) == \E d \in PocDecision : Enters(h, "decide", d)

\* PUT /acceptance: the decision alone; whether it awaits approval stays as it is.
PocDecide(h) ==
  /\ PocAt(h, "decide")
  /\ poc.exists
  /\ acc' = [acc EXCEPT !.decision = PocOn(h)]
  /\ PocEnds(h)
  /\ UNCHANGED <<poc, work>>

\* The report has questions, and each has an answer.
ReportAnswered ==
  /\ \E q \in Question : work[q] # "absent"
  /\ \A q \in Question : work[q] \in {"absent", "done"}

AskFinalize(h) == ReportAnswered /\ \E d \in {"won", "lost"} : Enters(h, "finalize", d)

Finalize(h) ==
  /\ PocAt(h, "finalize")
  /\ poc.exists
  /\ acc' = [acc EXCEPT !.decision = PocOn(h), !.pending = TRUE]
  /\ PocEnds(h)
  /\ UNCHANGED <<poc, work>>

\* Whoever is in flight while the POC becomes completed was let in before.
Completes(h) ==
  before' = (IF poc.status = "completed" THEN before ELSE InFlight) \ {h}

AskApprove(h) == acc.pending /\ Enters(h, "approve", "none")

\* approvePocAcceptance: both rows in one transaction.
Approve(h) ==
  /\ PocAt(h, "approve")
  /\ poc.exists
  /\ acc' = [acc EXCEPT !.pending = FALSE, !.approved = TRUE]
  /\ poc' = [poc EXCEPT !.status = "completed"]
  /\ Completes(h)
  /\ pocReq' = [pocReq EXCEPT ![h] = PocIdle]
  /\ UNCHANGED work

AskSign(h) == Enters(h, "sign", "none")

\* The signed document takes the place of the one before.
Sign(h) ==
  /\ PocAt(h, "sign")
  /\ poc.exists
  /\ acc' = [acc EXCEPT !.signed = IF @ = 1 THEN 2 ELSE 1]
  /\ PocEnds(h)
  /\ UNCHANGED <<poc, work>>

-----------------------------------------------------------------------------
(* The POC *)

AskUpdate(h) == \E status \in {"open", "completed"} : Enters(h, "update", status)

\* PUT /:id: any status of PocStatusEnum, completed among them.
Update(h) ==
  /\ PocAt(h, "update")
  /\ poc.exists
  /\ poc' = [poc EXCEPT !.status = PocOn(h)]
  /\ IF PocOn(h) = "completed" THEN Completes(h) ELSE before' = {}
  /\ pocReq' = [pocReq EXCEPT ![h] = PocIdle]
  /\ UNCHANGED <<acc, work>>

AskArchive(h) ==
  \E archived \in {"yes", "no"} :
    /\ archived = "yes" => poc.status = "completed"
    /\ Enters(h, "archive", archived)

Archive(h) ==
  /\ PocAt(h, "archive")
  /\ poc.exists
  /\ poc' = [poc EXCEPT !.archived = (PocOn(h) = "yes")]
  /\ PocEnds(h)
  /\ UNCHANGED <<acc, work>>

AskRemove(h) == Enters(h, "remove", "none")

\* The rows below go with the POC.
Remove(h) ==
  /\ PocAt(h, "remove")
  /\ poc' = [exists |-> FALSE, status |-> "open", archived |-> FALSE]
  /\ acc' = NoAcceptance
  /\ work' = [i \in Item |-> "absent"]
  /\ PocEnds(h)

-----------------------------------------------------------------------------

PocNext ==
  \E h \in PocHandler :
    \/ \E i \in Item : AskEdit(h, i) \/ AskNote(h, i) \/ AskCreate(h, i) \/ AskDrop(h, i)
    \/ AskGenerate(h) \/ AskDecide(h) \/ AskFinalize(h) \/ AskApprove(h) \/ AskSign(h)
    \/ AskUpdate(h) \/ AskArchive(h) \/ AskRemove(h)
    \/ Edit(h) \/ Note(h) \/ Create(h) \/ Drop(h) \/ Regenerate(h) \/ Draft(h)
    \/ PocDecide(h) \/ Finalize(h) \/ Approve(h) \/ Sign(h)
    \/ Update(h) \/ Archive(h) \/ Remove(h) \/ Stop(h)

PocSpec == PocInit /\ [][PocNext]_pocVars

-----------------------------------------------------------------------------

\* What a person wrote is taken away by a person: of a POC that goes on, an item whose
\* content somebody wrote disappears only with the DELETE of that item, whatever the AI
\* regenerates at the same time and whatever status it is given
\* (deleteUneditedAiPocTestCases, and its likes for tasks and questions).  A status alone
\* does not protect a draft.
HumanWorkSurvives ==
  [][\A i \in Item :
       work[i] \in {"blank", "done"} /\ work'[i] = "absent" /\ poc'.exists =>
         \E h \in PocHandler :
           pocReq[h] = [op |-> "drop", on |-> i] /\ pocReq'[h] = PocIdle]_pocVars

\* A completed POC is read-only: once the requests that were let in before have ended,
\* nothing changes its work, its signed document, its status or its existence, whichever
\* requests come (the lock of routes/pocs.ts).  The decision is not among them: finalize
\* is exempt from the lock and writes it again.
FrozenOnceCompleted ==
  [][poc.status = "completed" /\ before = {} =>
       /\ UNCHANGED work
       /\ poc'.status = "completed" /\ poc'.exists
       /\ acc'.signed = acc.signed]_pocVars

=============================================================================
