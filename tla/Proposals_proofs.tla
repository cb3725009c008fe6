--------------------------- MODULE Proposals_proofs ---------------------------
(***************************************************************************)
(* Theorems about Proposals, for any number of handlers, stages, versions  *)
(* and documents, whatever overlaps and crashes.                           *)
(*                                                                         *)
(* The approvals rest on decisions never being taken back (IInv). The rest *)
(* is built on the numbers (NumbersInv): each handler at work on a         *)
(* document was promised one of its own, so no document is shared, deleted *)
(* by another version's edit or pointed at before it says what it should   *)
(* (DocumentsInv); what a handler read is what its step asks for, so one   *)
(* that writes over nothing new writes the status that follows             *)
(* (StatusInv); and who reopens a version without a successor reopens the  *)
(* last one (OneLine).                                                     *)
(***************************************************************************)
EXTENDS Proposals, FiniteSetTheorems, TLAPS

(***************************************************************************)
(* Two decisions of one stage may both be recorded, and the handler that   *)
(* counts them may be overtaken before it writes the status.  What saves   *)
(* the approval is that decisions are never taken back: what a handler has *)
(* counted still counts when it writes, however late.                      *)
(***************************************************************************)

\* The numbers do not matter here, and are not bounded.
LooseRow == [status : Status, terms : Nat, doc : Nat, prev : Nat, version : Nat, client : Client]

LooseRequest ==
  [step : {"idle", "editing", "rendering", "pointing", "submitting", "checking", "recording",
           "counting", "deciding", "reopening", "releasing", "sending"},
   p : Nat, saw : LooseRow, file : Nat, stage : Stage \cup {"none"},
   next : Verdict \cup {"none", "submitted"}]

Shape ==
  /\ prop \in [Proposal -> LooseRow]
  /\ emitted \in [Proposal -> SUBSET Event]
  /\ req \in [Handler -> LooseRequest]
  /\ started \in Nat

\* A handler at work is about a proposal.
AboutOne == \A h \in Handler : req[h].step # "idle" => req[h].p \in Proposal

\* The approval of every mandatory stage.
Approved(p) == \A s \in mandatory : Approves(p, s)

\* What is past its approval, or was announced as ready, has it.
RowsApproved ==
  \A p \in Proposal :
    prop[p].status \in {"approved", "released"} \/ "ready" \in emitted[p] => Approved(p)

\* A handler about to write that a proposal is approved, or released, has it too.
Past(r) == (r.step = "deciding" /\ r.next = "approved") \/ r.step \in {"releasing", "sending"}
HandlersApproved == \A h \in Handler : Past(req[h]) => Approved(req[h].p)

IInv == Shape /\ AboutOne /\ RowsApproved /\ HandlersApproved

-----------------------------------------------------------------------------
(* The shape *)

\* Who is idle has the shape of a request.
LEMMA IdleShape == Idle \in LooseRequest /\ Idle.step = "idle"
  BY DEF Idle, LooseRequest, LooseRow, NoRow, Status, Client, Verdict

\* A handler that reads is about that proposal, and is past its approval only if it read so.
LEMMA ReadsEffect ==
  ASSUME NEW h \in Handler, NEW p \in Proposal, Shape, Start(h, p)
  PROVE  \E new \in LooseRequest :
           /\ req' = [req EXCEPT ![h] = new]
           /\ new.p = p
           /\ Past(new) => prop[p].status = "approved"
<1>1. Idle \in LooseRequest /\ p \in Nat /\ prop[p] \in LooseRow
  BY IdleShape DEF Proposal, Shape
<1>2. ASSUME NEW step \in {"editing", "submitting", "reopening", "releasing"},
             step = "releasing" => prop[p].status = "approved", Reads(h, p, step)
      PROVE  \E new \in LooseRequest : /\ req' = [req EXCEPT ![h] = new]
                                       /\ new.p = p
                                       /\ Past(new) => prop[p].status = "approved"
  <2> DEFINE new == [Idle EXCEPT !.step = step, !.p = p, !.saw = prop[p]]
  <2>1. new \in LooseRequest /\ new.p = p /\ new.step = step
    BY <1>1 DEF LooseRequest
  <2>2. req' = [req EXCEPT ![h] = new]
    BY <1>2 DEF Reads
  <2>3. Past(new) => step = "releasing"
    BY <2>1 DEF Past
  <2> QED
    BY <1>2, <2>1, <2>2, <2>3
<1>3. ASSUME NEW step \in {"editing", "reopening"}, ReadsToRender(h, p, step)
      PROVE  \E new \in LooseRequest : /\ req' = [req EXCEPT ![h] = new]
                                       /\ new.p = p
                                       /\ Past(new) => prop[p].status = "approved"
  <2> DEFINE new == [Idle EXCEPT !.step = step, !.p = p, !.saw = prop[p], !.file = started + 1]
  <2>1. started + 1 \in Nat
    BY DEF Shape
  <2>2. new \in LooseRequest /\ new.p = p /\ new.step = step
    BY <1>1, <2>1 DEF LooseRequest
  <2>3. req' = [req EXCEPT ![h] = new]
    BY <1>3 DEF ReadsToRender
  <2>4. ~Past(new)
    BY <2>2 DEF Past
  <2> QED
    BY <2>2, <2>3, <2>4
<1>4. ASSUME NEW s \in Stage, NEW verdict \in Verdict, DecideRead(h, p, s, verdict)
      PROVE  \E new \in LooseRequest : /\ req' = [req EXCEPT ![h] = new]
                                       /\ new.p = p
                                       /\ Past(new) => prop[p].status = "approved"
  <2> DEFINE new == [Idle EXCEPT !.step = "checking", !.p = p, !.saw = prop[p], !.stage = s,
                                 !.next = verdict]
  <2>1. new \in LooseRequest /\ new.p = p /\ new.step = "checking"
    BY <1>1 DEF LooseRequest
  <2>2. req' = [req EXCEPT ![h] = new]
    BY <1>4 DEF DecideRead
  <2>3. ~Past(new)
    BY <2>1 DEF Past
  <2> QED
    BY <2>1, <2>2, <2>3
<1> QED
  BY <1>2, <1>3, <1>4 DEF Start, EditRead, SubmitRead, ReopenRead, ReleaseRead

\* The first version is a draft, and nobody is at work.
LEMMA InitShape == Init => Shape /\ AboutOne
<1> SUFFICES ASSUME Init PROVE Shape /\ AboutOne
  OBVIOUS
<1>1. NoRow \in LooseRow
  BY DEF NoRow, LooseRow, Status, Client
<1>2. [NoRow EXCEPT !.status = "draft", !.doc = 1, !.version = 1] \in LooseRow
  BY <1>1 DEF LooseRow, Status
<1>3. prop \in [Proposal -> LooseRow]
  BY <1>1, <1>2 DEF Init
<1>4. emitted \in [Proposal -> SUBSET Event]
  BY DEF Init
<1>5. req \in [Handler -> LooseRequest] /\ AboutOne
  BY IdleShape DEF Init, AboutOne
<1> QED
  BY <1>3, <1>4, <1>5 DEF Init, Shape

\* Every action keeps the shape of the rows and of the handlers.
LEMMA ShapeStep == Shape /\ AboutOne /\ [Next]_vars => Shape' /\ AboutOne'
<1> SUFFICES ASSUME Shape, AboutOne, [Next]_vars PROVE Shape' /\ AboutOne'
  OBVIOUS
<1> USE IdleShape
<1>1. ASSUME NEW h \in Handler, NEW p \in Proposal, Start(h, p)
      PROVE  Shape' /\ AboutOne'
  <2>1. prop' = prop /\ emitted' = emitted
    BY <1>1 DEF Start, EditRead, SubmitRead, ReopenRead, ReleaseRead, DecideRead
  <2>2. ASSUME NEW step, ReadsToRender(h, p, step)
        PROVE  started' \in Nat
    BY <2>2 DEF ReadsToRender, Shape
  <2>3. started' \in Nat
    BY <1>1, <2>2 DEF Start, EditRead, SubmitRead, ReopenRead, ReleaseRead, DecideRead, Shape
  <2> QED
    BY <1>1, <2>1, <2>3, ReadsEffect DEF Shape, AboutOne
<1>2. ASSUME NEW h \in Handler, Step(h)
      PROVE  Shape' /\ AboutOne'
  <2>1. CASE EditTerms(h)
    <3> DEFINE terms == prop[On(h)].terms + 1
    <3>1. prop[On(h)] \in LooseRow /\ On(h) \in Proposal
      BY <2>1 DEF EditTerms, At, On, Shape, AboutOne
    <3>2. terms \in Nat
      BY <3>1 DEF LooseRow
    <3>3. [prop[On(h)] EXCEPT !.terms = terms] \in LooseRow
      BY <3>1, <3>2 DEF LooseRow
    <3>4. prop' \in [Proposal -> LooseRow]
      BY <2>1, <3>3 DEF EditTerms, Writes, Shape
    <3>5. req[h] \in LooseRequest /\ req[h].saw \in LooseRow
      BY DEF Shape, LooseRequest
    <3>6. [req[h].saw EXCEPT !.terms = terms] \in LooseRow
      BY <3>2, <3>5 DEF LooseRow
    <3>7. req' \in [Handler -> LooseRequest]
      BY <2>1, <3>5, <3>6 DEF EditTerms, Shape, LooseRequest
    <3>8. AboutOne'
      BY <2>1 DEF EditTerms, At, Shape, AboutOne
    <3> QED
      BY <2>1, <3>4, <3>7, <3>8 DEF EditTerms, Shape
  <2>2. CASE EditRender(h)
    BY <2>2 DEF EditRender, At, Shape, AboutOne, LooseRequest
  <2>3. CASE EditFails(h)
    BY <2>3 DEF EditFails, Ends, Shape, AboutOne
  <2>4. CASE EditPoint(h)
    BY <2>4 DEF EditPoint, At, On, Writes, Ends, Shape, AboutOne, LooseRow, LooseRequest
  <2>5. CASE Submit(h)
    BY <2>5 DEF Submit, At, On, Writes, Ends, Shape, AboutOne, LooseRow, Status
  <2>6. CASE DecideCheck(h)
    BY <2>6 DEF DecideCheck, At, Ends, Shape, AboutOne, LooseRequest
  <2>7. CASE DecideRecord(h)
    BY <2>7 DEF DecideRecord, At, Shape, AboutOne, LooseRequest
  <2>8. CASE DecideCount(h)
    <3> DEFINE next == IF AllRequired(On(h)) THEN "approved" ELSE "submitted"
    <3>1. next \in Verdict \cup {"none", "submitted"}
      BY DEF Verdict
    <3>2. req[h] \in LooseRequest /\ req[h].step = "counting"
      BY <2>8 DEF DecideCount, At, Shape
    <3>3. req' = [req EXCEPT ![h] = [req[h] EXCEPT !.step = "deciding", !.next = next]]
      BY <2>8 DEF DecideCount
    <3> HIDE DEF next
    <3>4. [req[h] EXCEPT !.step = "deciding", !.next = next] \in LooseRequest
      BY <3>1, <3>2 DEF LooseRequest
    <3>5. [req[h] EXCEPT !.step = "deciding", !.next = next].p = req[h].p
      BY <3>2 DEF LooseRequest
    <3>6. req' \in [Handler -> LooseRequest]
      BY <3>3, <3>4 DEF Shape
    <3>7. AboutOne'
      BY <3>2, <3>3, <3>5 DEF AboutOne, Shape
    <3> QED
      BY <2>8, <3>6, <3>7 DEF DecideCount, Shape
  <2>9. CASE Decide(h)
    <3>1. prop' \in [Proposal -> LooseRow]
      <4>1. On(h) \in Proposal /\ prop[On(h)] \in LooseRow
        BY <2>9 DEF Decide, At, On, Shape, AboutOne
      <4>2. req[h].next \in Verdict \cup {"none", "submitted"}
        BY DEF Shape, LooseRequest
      <4>3. [prop[On(h)] EXCEPT !.status = req[h].next] \in LooseRow
        BY <4>1, <4>2 DEF LooseRow, Verdict, Status
      <4> QED
        BY <2>9, <4>3 DEF Decide, Writes, Shape
    <3>2. emitted' \in [Proposal -> SUBSET Event]
      BY <2>9 DEF Decide, At, On, Emits, Shape, AboutOne, Event
    <3>3. req' \in [Handler -> LooseRequest] /\ AboutOne'
      BY <2>9 DEF Decide, Ends, Shape, AboutOne
    <3> QED
      BY <2>9, <3>1, <3>2, <3>3 DEF Decide, Shape
  <2>10. CASE Reopen(h)
    <3>1. Reopened(h) \in LooseRow
      BY <2>10 DEF Reopen, Reopened, On, Shape, LooseRow, LooseRequest, Status, Client
    <3> QED
      BY <2>10, <3>1 DEF Reopen, Ends, Shape, AboutOne
  <2>11. CASE ReleaseCheck(h)
    BY <2>11 DEF ReleaseCheck, At, Ends, Shape, AboutOne, LooseRequest
  <2>12. CASE Release(h)
    BY <2>12 DEF Release, At, On, Writes, Emits, Ends, Shape, AboutOne, LooseRow, Status, Event
  <2> QED
    BY <1>2, <2>1, <2>2, <2>3, <2>4, <2>5, <2>6, <2>7, <2>8, <2>9, <2>10, <2>11, <2>12 DEF Step
<1>3. ASSUME NEW p \in Proposal, NEW answer \in {"accepted", "declined"}, ClientDecision(p, answer)
      PROVE  Shape' /\ AboutOne'
  BY <1>3 DEF ClientDecision, Emits, Shape, AboutOne, LooseRow, Client, Event
<1>4. CASE Crash
  BY <1>4 DEF Crash, Shape, AboutOne
<1>5. CASE UNCHANGED vars
  BY <1>5 DEF vars, Shape, AboutOne
<1> QED
  BY <1>1, <1>2, <1>3, <1>4, <1>5 DEF Next

-----------------------------------------------------------------------------
(* The approvals *)

\* The workflow is the same and no decision is taken back: what was approved stays so.
LEMMA ApprovedStays == [Next]_vars => \A p : Approved(p) => Approved(p)'
<1> SUFFICES ASSUME [Next]_vars PROVE mandatory' = mandatory /\ decision \subseteq decision'
  BY DEF Approved, Approves
<1>1. ASSUME NEW h \in Handler, NEW p \in Proposal, Start(h, p)
      PROVE  mandatory' = mandatory /\ decision' = decision
  BY <1>1 DEF Start, EditRead, SubmitRead, ReopenRead, ReleaseRead, DecideRead
<1>2. ASSUME NEW h \in Handler, Step(h)
      PROVE  mandatory' = mandatory /\ decision \subseteq decision'
  BY <1>2 DEF Step, EditTerms, EditRender, EditFails, EditPoint, Submit, DecideCheck, DecideRecord,
              DecideCount, Decide, Reopen, ReleaseCheck, Release
<1> QED
  BY <1>1, <1>2 DEF Next, ClientDecision, Crash, vars

\* A row becomes approved, released or ready by the handler that was past its approval.
LEMMA RowsStep ==
  Shape /\ AboutOne /\ RowsApproved /\ HandlersApproved /\ [Next]_vars => RowsApproved'
<1> SUFFICES ASSUME Shape, AboutOne, RowsApproved, HandlersApproved, [Next]_vars,
                    NEW p \in Proposal,
                    (prop[p].status \in {"approved", "released"} \/ "ready" \in emitted[p])'
             PROVE  Approved(p)'
  BY DEF RowsApproved
<1>1. SUFFICES Approved(p)
  BY ApprovedStays
<1>2. SUFFICES \/ prop[p].status \in {"approved", "released"} \/ "ready" \in emitted[p]
               \/ \E h \in Handler : Past(req[h]) /\ req[h].p = p
  BY DEF RowsApproved, HandlersApproved
<1>3. ASSUME NEW h \in Handler, NEW q \in Proposal, Start(h, q)
      PROVE  prop' = prop /\ emitted' = emitted
  BY <1>3 DEF Start, EditRead, SubmitRead, ReopenRead, ReleaseRead, DecideRead
<1>4. ASSUME NEW h \in Handler, Step(h)
      PROVE  \/ prop[p].status \in {"approved", "released"} \/ "ready" \in emitted[p]
             \/ \E g \in Handler : Past(req[g]) /\ req[g].p = p
  <2>1. CASE EditTerms(h)
    BY <2>1 DEF EditTerms, At, On, Writes, Shape, AboutOne, LooseRow
  <2>2. CASE EditPoint(h)
    BY <2>2 DEF EditPoint, At, On, Writes, Shape, AboutOne, LooseRow
  <2>3. CASE Submit(h)
    BY <2>3 DEF Submit, At, On, Writes, Shape, AboutOne, LooseRow
  <2>4. CASE Decide(h)
    <3>1. CASE On(h) = p /\ req[h].next = "approved"
      BY <2>4, <3>1 DEF Decide, At, On, Past
    <3>2. CASE On(h) = p /\ req[h].next # "approved"
      <4>1. emitted'[p] \subseteq emitted[p] \cup {"rejected"}
        BY <2>4, <3>2 DEF Decide, Emits, Shape
      <4>2. prop'[p].status = req[h].next
        BY <2>4, <3>2 DEF Decide, Writes, Shape, LooseRow
      <4>3. req[h].next # "released"
        BY DEF Shape, LooseRequest, Verdict
      <4> QED
        BY <3>2, <4>1, <4>2, <4>3
    <3>3. CASE On(h) # p
      BY <2>4, <3>3 DEF Decide, Writes, Emits, Shape
    <3> QED
      BY <3>1, <3>2, <3>3
  <2>5. CASE Reopen(h)
    BY <2>5 DEF Reopen, Reopened, Shape
  <2>6. CASE Release(h)
    <3>1. CASE On(h) = p
      BY <2>6, <3>1 DEF Release, At, On, Past
    <3>2. CASE On(h) # p
      BY <2>6, <3>2 DEF Release, Writes, Emits, Shape
    <3> QED
      BY <3>1, <3>2
  <2>7. CASE EditRender(h) \/ EditFails(h) \/ DecideCheck(h) \/ DecideRecord(h) \/ DecideCount(h)
             \/ ReleaseCheck(h)
    BY <2>7 DEF EditRender, EditFails, DecideCheck, DecideRecord, DecideCount, ReleaseCheck
  <2> QED
    BY <1>4, <2>1, <2>2, <2>3, <2>4, <2>5, <2>6, <2>7 DEF Step
<1>5. ASSUME NEW q \in Proposal, NEW answer \in {"accepted", "declined"}, ClientDecision(q, answer)
      PROVE  prop[p].status \in {"approved", "released"} \/ "ready" \in emitted[p]
  BY <1>5 DEF ClientDecision, MayAnswer, Emits, Shape, LooseRow
<1>6. CASE Crash \/ UNCHANGED vars
  BY <1>6 DEF Crash, vars
<1> QED
  BY <1>3, <1>4, <1>5, <1>6 DEF Next

\* A handler gets past the approval by counting every mandatory stage, or by reading an
\* approved row.
LEMMA HandlersStep ==
  Shape /\ AboutOne /\ RowsApproved /\ HandlersApproved /\ [Next]_vars => HandlersApproved'
<1> SUFFICES ASSUME Shape, AboutOne, RowsApproved, HandlersApproved, [Next]_vars,
                    NEW g \in Handler, Past(req[g])'
             PROVE  Approved(req[g].p)'
  BY DEF HandlersApproved
<1>1. SUFFICES Approved(req'[g].p)
  BY ApprovedStays DEF Approved, Approves
<1> USE IdleShape
<1>2. ASSUME NEW h \in Handler, NEW q \in Proposal, Start(h, q)
      PROVE  Approved(req'[g].p)
  BY <1>2, ReadsEffect DEF Shape, HandlersApproved, RowsApproved
<1>3. ASSUME NEW h \in Handler, Step(h)
      PROVE  Approved(req'[g].p)
  <2>1. CASE EditTerms(h) \/ EditRender(h) \/ DecideRecord(h)
    <3>1. g # h => req'[g] = req[g]
      BY <2>1 DEF EditTerms, EditRender, DecideRecord, Shape
    <3>2. g = h => ~Past(req'[g]) \/ DecideRecord(h)
      BY <2>1 DEF EditTerms, EditRender, Shape, LooseRequest, Past
    <3>3. g = h /\ DecideRecord(h) => ~Past(req'[g])
      BY DEF DecideRecord, Shape, LooseRequest, Past
    <3> QED
      BY <3>1, <3>2, <3>3 DEF HandlersApproved
  <2>2. CASE EditFails(h) \/ EditPoint(h) \/ Submit(h) \/ Decide(h) \/ Reopen(h) \/ Release(h)
    BY <2>2 DEF EditFails, EditPoint, Submit, Decide, Reopen, Release, Ends, Shape, Past,
                HandlersApproved
  <2>3. CASE DecideCheck(h)
    BY <2>3 DEF DecideCheck, Ends, Shape, LooseRequest, Past, HandlersApproved
  <2>4. CASE DecideCount(h)
    <3>1. g # h => req'[g] = req[g]
      BY <2>4 DEF DecideCount, Shape
    <3>2. g = h => AllRequired(On(h)) /\ req'[g].p = On(h)
      BY <2>4 DEF DecideCount, Shape, LooseRequest, Past, On
    <3> QED
      BY <3>1, <3>2 DEF HandlersApproved, AllRequired, Approved
  <2>5. CASE ReleaseCheck(h)
    BY <2>5 DEF ReleaseCheck, At, Ends, Shape, LooseRequest, Past, HandlersApproved
  <2> QED
    BY <1>3, <2>1, <2>2, <2>3, <2>4, <2>5 DEF Step
<1>4. CASE Crash
  BY <1>4 DEF Crash, Past
<1>5. CASE UNCHANGED vars \/ \E p \in Proposal, answer \in {"accepted", "declined"} :
                               ClientDecision(p, answer)
  BY <1>5 DEF ClientDecision, vars, HandlersApproved
<1> QED
  BY <1>2, <1>3, <1>4, <1>5 DEF Next

-----------------------------------------------------------------------------
(* The theorem *)

\* A generated proposal is a draft, and nothing was counted.
LEMMA InitIInv == Init => IInv
<1> SUFFICES ASSUME Init PROVE RowsApproved /\ HandlersApproved
  BY InitShape DEF IInv
<1>1. /\ NoRow.status = "none"
      /\ [NoRow EXCEPT !.status = "draft", !.doc = 1, !.version = 1].status = "draft"
  BY DEF NoRow
<1>2. RowsApproved
  BY <1>1 DEF Init, RowsApproved
<1>3. HandlersApproved
  BY IdleShape DEF Init, HandlersApproved, Past
<1> QED
  BY <1>2, <1>3

\* IInv is inductive.
LEMMA Invariance == Spec => []IInv
<1>1. IInv /\ [Next]_vars => IInv'
  BY ShapeStep, RowsStep, HandlersStep DEF IInv
<1> QED
  BY <1>1, InitIInv, PTL DEF Spec

\* What is approved or released, or was announced as ready, has the approval of every
\* mandatory stage, whatever overlaps or crashes (POST .../approval/decision).
THEOREM NothingUnapproved == Spec => []ApprovedByAll
<1>1. IInv => ApprovedByAll
  <2> SUFFICES ASSUME RowsApproved, NEW p \in Proposal,
                      prop[p].status \in {"approved", "released"} \/ "ready" \in emitted[p],
                      NEW s \in mandatory
               PROVE  \E d \in decision : d.p = p /\ d.stage = s /\ d.verdict = "approved"
    BY DEF IInv, ApprovedByAll
  <2>1. [p |-> p, stage |-> s, verdict |-> "approved"] \in decision
    BY DEF RowsApproved, Approved, Approves
  <2> QED
    BY <2>1
<1> QED
  BY <1>1, Invariance, PTL

-----------------------------------------------------------------------------
(* The numbers: terms, documents and versions *)

\* Every edit takes the document it was promised when it writes its terms; so the edits
\* that were made are no more than the documents promised and taken.
Waiting == {req[h].file : h \in {g \in Handler : req[g].step = "editing"}}
Spent == (2..started) \ Waiting

AtWork(h) == req[h].step # "idle"
Filing(h) == req[h].step \in {"editing", "rendering", "pointing", "reopening"}

TermsBounded ==
  /\ \A p \in Proposal : prop[p].terms <= Cardinality(Spent)
  /\ \A h \in Handler : req[h].saw.terms <= Cardinality(Spent)

\* Each handler at work on a document has one of its own.
FilesPromised ==
  /\ \A h \in Handler : Filing(h) => req[h].file \in 2..started
  /\ \A h, g \in Handler : Filing(h) /\ Filing(g) /\ req[h].file = req[g].file => h = g
  /\ \A p \in Proposal : prop[p].doc <= started /\ (Exists(p) => prop[p].doc > 0)
  /\ \A h \in Handler : req[h].saw.doc <= started /\ (AtWork(h) => req[h].saw.doc > 0)

\* The versions are made one after the other.
VersionsInOrder ==
  /\ \A p, q \in Proposal : Exists(q) /\ p < q => Exists(p)
  /\ \A p \in Proposal : prop[p].version <= p
  /\ \A h \in Handler : AtWork(h) => req[h].saw.version <= req[h].p

NextKnown ==
  \A h \in Handler :
    /\ req[h].step \in {"checking", "recording"} => req[h].next \in Verdict /\ req[h].stage \in Stage
    /\ req[h].step = "deciding" => req[h].next \in Verdict \cup {"submitted"}

NumbersInv ==
  TypeOK /\ AboutOne /\ TermsBounded /\ FilesPromised /\ VersionsInOrder /\ NextKnown

\* What a handler read of the status when it came this far.
Seen(step) ==
  CASE step \in {"editing", "rendering", "pointing", "submitting"} -> "draft"
    [] step \in {"checking", "recording", "counting", "deciding"} -> "submitted"
    [] step = "reopening" -> "rejected"
    [] OTHER -> "approved"

\* There is room for the terms of every edit.
LEMMA SpentCounted ==
  ASSUME NumbersInv
  PROVE  /\ IsFiniteSet(Spent) /\ Cardinality(Spent) \in Nat /\ Cardinality(Spent) < MaxFiles
         /\ \A T \in SUBSET (2..started) : Spent \subseteq T => Cardinality(Spent) <= Cardinality(T)
<1>1. started \in 1..MaxFiles /\ MaxFiles \in Nat /\ started \in Int
  BY ProposalBounds DEF NumbersInv, TypeOK, ProposalBounds
<1>2. IsFiniteSet(2..started) /\ Cardinality(2..started) < MaxFiles
  <2>1. IsFiniteSet(2..started) /\ Cardinality(2..started) = IF 2 > started THEN 0 ELSE started - 2 + 1
    BY <1>1, FS_Interval
  <2> QED
    BY <1>1, <2>1
<1>3. Spent \subseteq 2..started
  BY DEF Spent
<1>4. IsFiniteSet(Spent) /\ Cardinality(Spent) <= Cardinality(2..started)
  BY <1>2, <1>3, FS_Subset
<1>5. Cardinality(Spent) \in Nat /\ Cardinality(2..started) \in Nat
  BY <1>2, <1>4, FS_CardinalityType
<1>6. ASSUME NEW T \in SUBSET (2..started), Spent \subseteq T
      PROVE  Cardinality(Spent) <= Cardinality(T)
  <2>1. IsFiniteSet(T)
    BY <1>2, FS_Subset
  <2> QED
    BY <1>6, <2>1, FS_Subset
<1> QED
  BY <1>1, <1>2, <1>4, <1>5, <1>6

\* What there is before a row is written or read.
LEMMA NothingRead ==
  /\ NoRow \in Row /\ Idle \in Request
  /\ Idle.step = "idle" /\ Idle.saw = NoRow /\ Idle.p = 0 /\ Idle.file = 0
  /\ NoRow.status = "none" /\ NoRow.terms = 0 /\ NoRow.doc = 0 /\ NoRow.prev = 0
  /\ NoRow.version = 0
<1>1. NoRow \in Row
  BY ProposalBounds DEF NoRow, Row, Status, Client, ProposalBounds
<1> QED
  BY <1>1, ProposalBounds DEF Idle, Request, NoRow, Status, ProposalBounds

\* What a request that begins knows.
LEMMA StartEffect ==
  ASSUME NumbersInv, NEW h \in Handler, NEW p \in Proposal, Start(h, p)
  PROVE  \E new \in Request :
           /\ req[h].step = "idle" /\ req' = [req EXCEPT ![h] = new]
           /\ new.p = p /\ new.saw = prop[p] /\ new.step # "idle"
           /\ prop[p].status = Seen(new.step)
           /\ \/ /\ new.step \in {"editing", "reopening"} /\ new.file = started + 1
                 /\ started' = started + 1 /\ started < MaxFiles
              \/ new.step \in {"submitting", "releasing", "checking"} /\ started' = started
           /\ new.step = "checking" => new.next \in Verdict /\ new.stage \in Stage
           /\ UNCHANGED <<mandatory, prop, file, decision, emitted, stale, mishaps>>
<1>1. Idle \in Request /\ p \in 0..MaxVersions /\ prop[p] \in Row
  BY NothingRead, ProposalBounds DEF Proposal, NumbersInv, TypeOK, ProposalBounds
<1>2. CASE EditRead(h, p) \/ ReopenRead(h, p)
  <2>1. PICK step \in {"editing", "reopening"} :
          /\ ReadsToRender(h, p, step) /\ prop[p].status = Seen(step)
          /\ UNCHANGED <<mandatory, prop, file, decision, emitted, stale, mishaps>>
    BY <1>2 DEF EditRead, ReopenRead, Seen
  <2> DEFINE new == [Idle EXCEPT !.step = step, !.p = p, !.saw = prop[p], !.file = started + 1]
  <2>2. started + 1 \in 0..MaxFiles
    BY <2>1, ProposalBounds DEF ReadsToRender, NumbersInv, TypeOK, ProposalBounds
  <2>3. /\ new \in Request /\ new.p = p /\ new.step = step /\ new.saw = prop[p]
        /\ new.file = started + 1
    BY <1>1, <2>2 DEF Request
  <2>4. /\ req' = [req EXCEPT ![h] = new] /\ started' = started + 1 /\ started < MaxFiles
        /\ req[h].step = "idle"
    BY <2>1 DEF ReadsToRender, At
  <2> HIDE DEF new
  <2>5. new.step \in {"editing", "reopening"}
    BY <2>3
  <2> QED
    BY <2>1, <2>3, <2>4, <2>5
<1>3. CASE SubmitRead(h, p) \/ ReleaseRead(h, p)
  <2>1. PICK step \in {"submitting", "releasing"} :
          /\ Reads(h, p, step) /\ prop[p].status = Seen(step)
          /\ UNCHANGED <<mandatory, prop, file, decision, emitted, started, stale, mishaps>>
    BY <1>3 DEF SubmitRead, ReleaseRead, Seen
  <2> DEFINE new == [Idle EXCEPT !.step = step, !.p = p, !.saw = prop[p]]
  <2>2. new \in Request /\ new.p = p /\ new.step = step /\ new.saw = prop[p]
    BY <1>1 DEF Request
  <2>3. req' = [req EXCEPT ![h] = new] /\ req[h].step = "idle"
    BY <2>1 DEF Reads, At
  <2> HIDE DEF new
  <2>4. new.step \in {"submitting", "releasing"}
    BY <2>2
  <2> QED
    BY <2>1, <2>2, <2>3, <2>4
<1>4. ASSUME NEW s \in Stage, NEW verdict \in Verdict, DecideRead(h, p, s, verdict)
      PROVE  \E new \in Request :
               /\ req[h].step = "idle" /\ req' = [req EXCEPT ![h] = new]
               /\ new.p = p /\ new.saw = prop[p] /\ new.step = "checking" /\ new.next \in Verdict
               /\ new.stage \in Stage
               /\ prop[p].status = "submitted"
               /\ UNCHANGED <<mandatory, prop, file, decision, emitted, started, stale, mishaps>>
  <2> DEFINE new == [Idle EXCEPT !.step = "checking", !.p = p, !.saw = prop[p], !.stage = s,
                                 !.next = verdict]
  <2>1. verdict \in Status
    BY DEF Verdict, Status
  <2>2. new \in Request /\ new.p = p /\ new.step = "checking" /\ new.saw = prop[p] /\ new.next = verdict
        /\ new.stage = s
    BY <1>1, <2>1 DEF Request
  <2>3. req' = [req EXCEPT ![h] = new] /\ req[h].step = "idle" /\ prop[p].status = "submitted"
    BY <1>4 DEF DecideRead, At
  <2> HIDE DEF new
  <2> QED
    BY <1>4, <2>2, <2>3 DEF DecideRead
<1>5. CASE \E s \in Stage, verdict \in Verdict : DecideRead(h, p, s, verdict)
  <2>1. PICK new \in Request :
               /\ req[h].step = "idle" /\ req' = [req EXCEPT ![h] = new]
               /\ new.p = p /\ new.saw = prop[p] /\ new.step = "checking" /\ new.next \in Verdict
               /\ new.stage \in Stage
               /\ prop[p].status = "submitted"
               /\ UNCHANGED <<mandatory, prop, file, decision, emitted, started, stale, mishaps>>
    BY <1>4, <1>5
  <2>2. Seen("checking") = "submitted"
    BY DEF Seen
  <2> QED
    BY <2>1, <2>2
<1> QED
  BY <1>2, <1>3, <1>5 DEF Start

\* What a step of a handler leaves of its row and of what it knows.
Kept(h, row, new) ==
  /\ row.prev = prop[req[h].p].prev /\ row.version = prop[req[h].p].version
  /\ new.step = "idle" => new = Idle
  /\ new.step # "idle" =>
       /\ new.p = req[h].p /\ new.file = req[h].file /\ new.stage = req[h].stage
       /\ new.saw.doc = req[h].saw.doc /\ new.saw.status = req[h].saw.status
       /\ new.saw.version = req[h].saw.version /\ Seen(new.step) = Seen(req[h].step)

SameRow(h, row) == row.doc = prop[req[h].p].doc /\ row.status = prop[req[h].p].status
SameTerms(h, row, new) ==
  /\ row.terms = prop[req[h].p].terms
  /\ new.step # "idle" => new.saw.terms = req[h].saw.terms

\* The kinds of steps.
WritesTerms(h, row, new) ==
  /\ req[h].step = "editing" /\ new.step = "rendering" /\ SameRow(h, row)
  /\ row.terms = prop[req[h].p].terms + 1 /\ new.saw.terms = row.terms
  /\ UNCHANGED <<file, decision>>

Renders(h, row, new) ==
  /\ req[h].step = "rendering" /\ new.step = "pointing" /\ SameRow(h, row)
  /\ SameTerms(h, row, new)
  /\ file' = Rendered(h) /\ decision' = decision

Points(h, row, new) ==
  /\ req[h].step = "pointing" /\ new.step = "idle" /\ SameTerms(h, row, new)
  /\ row.doc = req[h].file /\ row.status = prop[req[h].p].status
  /\ UNCHANGED <<file, decision>>

Judges(h, row, new) ==
  /\ \/ req[h].step = "submitting" /\ row.status = "submitted"
     \/ req[h].step = "deciding" /\ row.status = req[h].next
     \/ req[h].step = "sending" /\ row.status = "released"
  /\ new.step = "idle" /\ SameTerms(h, row, new) /\ row.doc = prop[req[h].p].doc
  /\ UNCHANGED <<file, decision>>

GoesOn(h, row, new) ==
  /\ \/ req[h].step \in {"rendering", "checking", "releasing"} /\ new.step = "idle"
     \/ req[h].step = "checking" /\ new.step = "recording" /\ new.next = req[h].next
     \/ /\ req[h].step = "counting" /\ new.step = "deciding"
        /\ new.next = IF AllRequired(req[h].p) THEN "approved" ELSE "submitted"
     \/ req[h].step = "releasing" /\ new.step = "sending"
  /\ SameRow(h, row) /\ SameTerms(h, row, new)
  /\ UNCHANGED <<file, decision>>

RecordsDecision(h, row, new) ==
  /\ req[h].step = "recording" /\ new.next = req[h].next
  /\ new.step = IF req[h].next = "rejected" THEN "deciding" ELSE "counting"
  /\ SameRow(h, row) /\ SameTerms(h, row, new)
  /\ decision' = decision \cup
       {[p |-> req[h].p, stage |-> req[h].stage, verdict |-> req[h].next]}
  /\ file' = file

\* A handler that writes over what it did not know is noticed, and so is one that fails.
Noticed(h, new) ==
  /\ ~stale' => ~stale
  /\ ~stale' /\ req[h].step \in {"editing", "pointing", "submitting", "deciding", "sending"} =>
       prop[req[h].p] = req[h].saw
  /\ mishaps' = 0 => mishaps = 0 /\ ~(req[h].step = "rendering" /\ new.step = "idle")

Effect(h, row, new) ==
  /\ prop' = [prop EXCEPT ![req[h].p] = row] /\ req' = [req EXCEPT ![h] = new]
  /\ Kept(h, row, new) /\ Noticed(h, new)
  /\ \/ WritesTerms(h, row, new) \/ Renders(h, row, new) \/ Points(h, row, new)
     \/ Judges(h, row, new) \/ GoesOn(h, row, new) \/ RecordsDecision(h, row, new)
  /\ UNCHANGED <<mandatory, started>>

\* What a handler at work is about, and the room for one more edit of it.
LEMMA Handling ==
  ASSUME NumbersInv, NEW h \in Handler, AtWork(h)
  PROVE  /\ req[h] \in Request /\ req[h].saw \in Row
         /\ req[h].p \in Proposal /\ prop[req[h].p] \in Row /\ Exists(req[h].p)
         /\ prop[req[h].p].terms + 1 \in 0..MaxFiles
<1>1. /\ req[h] \in Request /\ req[h].p \in Proposal /\ prop[req[h].p] \in Row
      /\ Exists(req[h].p)
  BY DEF NumbersInv, TypeOK, AboutOne, AtWork, Exists
<1>2. /\ prop[req[h].p].terms \in Nat /\ prop[req[h].p].terms <= Cardinality(Spent)
      /\ Cardinality(Spent) \in Nat /\ Cardinality(Spent) < MaxFiles /\ MaxFiles \in Nat
  BY <1>1, SpentCounted, ProposalBounds DEF NumbersInv, TermsBounded, Row, ProposalBounds
<1> QED
  BY <1>1, <1>2 DEF Request

\* Each step of a handler but a reopening is one of them.
LEMMA StepEffect ==
  ASSUME NumbersInv, NEW h \in Handler, Step(h), ~Reopen(h)
  PROVE  AtWork(h) /\ \E row \in Row, new \in Request : Effect(h, row, new)
<1>1. AtWork(h)
  BY DEF Step, EditTerms, EditRender, EditFails, EditPoint, Submit, DecideCheck, DecideRecord,
    DecideCount, Decide, ReleaseCheck, Release, At, AtWork
<1> DEFINE p == req[h].p
           old == prop[p]
<1>2. /\ req[h] \in Request /\ req[h].saw \in Row /\ p \in Proposal /\ old \in Row
      /\ Idle \in Request /\ Idle.step = "idle"
      /\ old.terms + 1 \in 0..MaxFiles
      /\ prop \in [Proposal -> Row] /\ req \in [Handler -> Request]
      /\ mishaps \in Nat
  BY <1>1, Handling, NothingRead DEF NumbersInv, TypeOK
<1>3. prop = [prop EXCEPT ![p] = old]
  BY <1>2
<1>4. CASE EditTerms(h)
  <2> DEFINE terms == old.terms + 1
             row == [old EXCEPT !.terms = terms]
             saw == [req[h].saw EXCEPT !.terms = terms]
             new == [req[h] EXCEPT !.step = "rendering", !.saw = saw]
  <2>1. /\ prop' = [prop EXCEPT ![p] = row] /\ req[h].step = "editing"
        /\ UNCHANGED <<file, decision, mandatory, started, mishaps>>
        /\ stale' = (stale \/ old # req[h].saw)
    BY <1>4 DEF EditTerms, Writes, On, At
  <2>2. req' = [req EXCEPT ![h] = new]
    BY <1>2, <1>4 DEF EditTerms, On, Request
  <2> HIDE DEF terms
  <2>3. /\ row \in Row /\ row.terms = terms /\ row.doc = old.doc /\ row.status = old.status
        /\ row.prev = old.prev /\ row.version = old.version
        /\ saw \in Row /\ saw.terms = terms /\ saw.doc = req[h].saw.doc
        /\ saw.status = req[h].saw.status /\ saw.version = req[h].saw.version
    <3>1. terms \in 0..MaxFiles
      BY <1>2 DEF terms
    <3> QED
      BY <1>2, <3>1 DEF Row
  <2> HIDE DEF row, saw
  <2>4. /\ new \in Request /\ new.step = "rendering" /\ new.p = p /\ new.file = req[h].file
        /\ new.stage = req[h].stage /\ new.saw = saw
    BY <1>2, <2>3 DEF Request
  <2> HIDE DEF new
  <2>5. Seen("rendering") = Seen("editing")
    BY DEF Seen
  <2>6. Kept(h, row, new) /\ WritesTerms(h, row, new)
    BY <2>1, <2>3, <2>4, <2>5 DEF Kept, WritesTerms, SameRow, terms
  <2>7. Noticed(h, new)
    BY <2>1, <2>4 DEF Noticed
  <2> QED
    BY <1>1, <2>1, <2>2, <2>3, <2>4, <2>6, <2>7 DEF Effect
\* What changes the step of a handler and nothing else it knows.
<1>5. ASSUME NEW step \in {"pointing", "recording", "deciding", "counting", "sending"},
             Seen(step) = Seen(req[h].step), NEW next \in Status,
             req' = [req EXCEPT ![h] = [req[h] EXCEPT !.step = step, !.next = next]],
             UNCHANGED <<prop, stale, mishaps>>, req[h].step \notin {"pointing", "deciding"}
      PROVE  \E new \in Request :
               /\ new.step = step /\ new.next = next
               /\ prop' = [prop EXCEPT ![p] = old] /\ req' = [req EXCEPT ![h] = new]
               /\ Kept(h, old, new) /\ SameRow(h, old) /\ SameTerms(h, old, new)
               /\ (req[h].step \notin {"editing", "submitting", "sending"} => Noticed(h, new))
  <2> DEFINE new == [req[h] EXCEPT !.step = step, !.next = next]
  <2>1. /\ new \in Request /\ new.step = step /\ new.p = p /\ new.file = req[h].file
        /\ new.stage = req[h].stage /\ new.saw = req[h].saw /\ new.next = next
    BY <1>2 DEF Request
  <2>2. req' = [req EXCEPT ![h] = new] /\ step # "idle"
    BY <1>5
  <2> HIDE DEF new
  <2>3. Kept(h, old, new) /\ SameRow(h, old) /\ SameTerms(h, old, new)
    BY <1>5, <2>1, <2>2 DEF Kept, SameRow, SameTerms
  <2>4. req[h].step \notin {"editing", "submitting", "sending"} => Noticed(h, new)
    BY <1>5, <2>1, <2>2 DEF Noticed
  <2> QED
    BY <1>3, <1>5, <2>1, <2>2, <2>3, <2>4
\* What ends a handler that leaves its row alone.
<1>6. ASSUME Ends(h), UNCHANGED <<prop, stale>>, req[h].step \in {"checking", "releasing", "rendering"},
             req[h].step = "rendering" => mishaps' # 0, mishaps' = 0 => mishaps = 0
      PROVE  /\ prop' = [prop EXCEPT ![p] = old] /\ req' = [req EXCEPT ![h] = Idle]
             /\ Kept(h, old, Idle) /\ SameRow(h, old) /\ SameTerms(h, old, Idle)
             /\ Noticed(h, Idle)
  BY <1>2, <1>3, <1>6 DEF Ends, Kept, SameRow, SameTerms, Noticed
\* What ends a handler that writes its row.
<1>7. ASSUME NEW row \in Row, Writes(h, row), Ends(h), UNCHANGED mishaps,
             row.prev = old.prev, row.version = old.version, row.terms = old.terms,
             req[h].step # "rendering"
      PROVE  /\ prop' = [prop EXCEPT ![p] = row] /\ req' = [req EXCEPT ![h] = Idle]
             /\ Kept(h, row, Idle) /\ SameTerms(h, row, Idle) /\ Noticed(h, Idle)
  BY <1>2, <1>7 DEF Writes, On, Ends, Kept, SameTerms, Noticed
<1>8. CASE EditRender(h)
  <2>1. /\ req[h].step = "rendering" /\ req' = [req EXCEPT ![h].step = "pointing"]
        /\ file' = Rendered(h) /\ UNCHANGED <<mandatory, prop, decision, started, stale, mishaps>>
    BY <1>8 DEF EditRender, At
  <2>2. req[h].next \in Status /\ Seen("pointing") = Seen("rendering")
    BY <1>2 DEF Seen, Request
  <2>3. req' = [req EXCEPT ![h] = [req[h] EXCEPT !.step = "pointing", !.next = req[h].next]]
    BY <1>2, <2>1 DEF Request
  <2>4. PICK new \in Request :
          /\ new.step = "pointing"
          /\ prop' = [prop EXCEPT ![p] = old] /\ req' = [req EXCEPT ![h] = new]
          /\ Kept(h, old, new) /\ SameRow(h, old) /\ SameTerms(h, old, new) /\ Noticed(h, new)
    BY <1>5, <2>1, <2>2, <2>3
  <2> QED
    BY <1>1, <1>2, <2>1, <2>4 DEF Effect, Renders
<1>9. CASE EditFails(h)
  <2>1. mishaps' # 0 /\ req[h].step = "rendering"
    BY <1>2, <1>9 DEF EditFails, At
  <2> QED
    BY <1>1, <1>2, <1>6, <1>9, <2>1 DEF EditFails, Effect, GoesOn
<1>10. CASE EditPoint(h)
  <2> DEFINE row == [old EXCEPT !.doc = req[h].file]
  <2>1. /\ row \in Row /\ row.doc = req[h].file /\ row.status = old.status /\ row.prev = old.prev
        /\ row.version = old.version /\ row.terms = old.terms
    BY <1>2 DEF Row, Request
  <2>2. Writes(h, row) /\ Ends(h)
    BY <1>10 DEF EditPoint, On
  <2> HIDE DEF row
  <2> QED
    BY <1>1, <1>2, <1>7, <1>10, <2>1, <2>2 DEF EditPoint, At, Effect, Points
<1>11. ASSUME NEW status \in Status, Writes(h, [old EXCEPT !.status = status]), Ends(h),
              \/ req[h].step = "submitting" /\ status = "submitted"
              \/ req[h].step = "deciding" /\ status = req[h].next
              \/ req[h].step = "sending" /\ status = "released",
              UNCHANGED <<mandatory, file, decision, started, mishaps>>
       PROVE  \E row \in Row, new \in Request : Effect(h, row, new)
  <2> DEFINE row == [old EXCEPT !.status = status]
  <2>1. /\ row \in Row /\ row.doc = old.doc /\ row.status = status /\ row.prev = old.prev
        /\ row.version = old.version /\ row.terms = old.terms
    BY <1>2 DEF Row
  <2>2. Writes(h, row)
    BY <1>11
  <2> HIDE DEF row
  <2>3. Judges(h, row, Idle) /\ Kept(h, row, Idle) /\ Noticed(h, Idle)
        /\ prop' = [prop EXCEPT ![p] = row] /\ req' = [req EXCEPT ![h] = Idle]
    BY <1>2, <1>7, <1>11, <2>1, <2>2 DEF Judges
  <2> QED
    BY <1>2, <1>11, <2>1, <2>3 DEF Effect
<1>12. CASE Submit(h) \/ Decide(h) \/ Release(h)
  <2>1. /\ req[h].next \in Status /\ "submitted" \in Status /\ "released" \in Status
    BY <1>2 DEF Request, Status
  <2> QED
    BY <1>1, <1>11, <1>12, <2>1 DEF Submit, Decide, Release, On, At
<1>13. CASE DecideCheck(h)
  <2>1. /\ req[h].step = "checking" /\ UNCHANGED <<mandatory, prop, file, decision, started, stale, mishaps>>
        /\ Ends(h) \/ req' = [req EXCEPT ![h].step = "recording"]
    BY <1>13 DEF DecideCheck, At
  <2>2. CASE Ends(h)
    BY <1>1, <1>2, <1>6, <2>1, <2>2 DEF Effect, GoesOn
  <2>3. CASE req' = [req EXCEPT ![h].step = "recording"]
    <3>1. Seen("recording") = Seen("checking")
      BY DEF Seen
    <3>n. PICK next \in Status : next = req[h].next
      BY <1>2 DEF Request
    <3>2. req' = [req EXCEPT ![h] = [req[h] EXCEPT !.step = "recording", !.next = next]]
      BY <1>2, <2>3, <3>n DEF Request
    <3>3. PICK new \in Request :
            /\ new.step = "recording" /\ new.next = next
            /\ prop' = [prop EXCEPT ![p] = old] /\ req' = [req EXCEPT ![h] = new]
            /\ Kept(h, old, new) /\ SameRow(h, old) /\ SameTerms(h, old, new) /\ Noticed(h, new)
      BY <1>5, <2>1, <3>1, <3>2
    <3> QED
      BY <1>1, <1>2, <2>1, <3>3, <3>n DEF Effect, GoesOn
  <2> QED
    BY <2>1, <2>2, <2>3
<1>14. CASE DecideRecord(h)
  <2>1. PICK step \in {"deciding", "counting"} :
          /\ step = IF req[h].next = "rejected" THEN "deciding" ELSE "counting"
          /\ req' = [req EXCEPT ![h].step = step]
    BY <1>14 DEF DecideRecord
  <2>2. /\ req[h].step = "recording" /\ UNCHANGED <<mandatory, prop, file, started, stale, mishaps>>
        /\ decision' = decision \cup {[p |-> p, stage |-> req[h].stage, verdict |-> req[h].next]}
    BY <1>14 DEF DecideRecord, At, On
  <2> DEFINE new == [req[h] EXCEPT !.step = step]
  <2>3. Seen(step) = Seen("recording") /\ step \in {"deciding", "counting"}
    BY DEF Seen
  <2>4. /\ new \in Request /\ new.step = step /\ new.p = p /\ new.file = req[h].file
        /\ new.stage = req[h].stage /\ new.saw = req[h].saw /\ new.next = req[h].next
    BY <1>2 DEF Request
  <2>5. req' = [req EXCEPT ![h] = new]
    BY <2>1
  <2> HIDE DEF new
  <2>6. Kept(h, old, new) /\ RecordsDecision(h, old, new) /\ Noticed(h, new)
    BY <1>2, <2>1, <2>2, <2>3, <2>4
      DEF Kept, SameRow, SameTerms, RecordsDecision, Noticed
  <2> QED
    BY <1>1, <1>2, <1>3, <2>2, <2>4, <2>5, <2>6 DEF Effect
<1>15. CASE DecideCount(h)
  <2> DEFINE next == IF AllRequired(p) THEN "approved" ELSE "submitted"
  <2>1. /\ req[h].step = "counting" /\ UNCHANGED <<mandatory, prop, file, decision, started, stale, mishaps>>
        /\ req' = [req EXCEPT ![h] = [req[h] EXCEPT !.step = "deciding", !.next = next]]
    BY <1>15 DEF DecideCount, At, On
  <2>2. next \in Status /\ Seen("deciding") = Seen("counting")
    BY DEF Seen, Status
  <2>3. PICK new \in Request :
          /\ new.step = "deciding" /\ new.next = next
          /\ prop' = [prop EXCEPT ![p] = old] /\ req' = [req EXCEPT ![h] = new]
          /\ Kept(h, old, new) /\ SameRow(h, old) /\ SameTerms(h, old, new) /\ Noticed(h, new)
    <3> HIDE DEF next
    <3> QED
      BY <1>5, <2>1, <2>2
  <2> QED
    BY <1>1, <1>2, <2>1, <2>3 DEF Effect, GoesOn
<1>16. CASE ReleaseCheck(h)
  <2>1. /\ req[h].step = "releasing" /\ UNCHANGED <<mandatory, prop, file, decision, started, stale, mishaps>>
        /\ Ends(h) \/ req' = [req EXCEPT ![h].step = "sending"]
    BY <1>16 DEF ReleaseCheck, At
  <2>2. CASE Ends(h)
    BY <1>1, <1>2, <1>6, <2>1, <2>2 DEF Effect, GoesOn
  <2>3. CASE req' = [req EXCEPT ![h].step = "sending"]
    <3>1. req[h].next \in Status /\ Seen("sending") = Seen("releasing")
      BY <1>2 DEF Seen, Request
    <3>2. req' = [req EXCEPT ![h] = [req[h] EXCEPT !.step = "sending", !.next = req[h].next]]
      BY <1>2, <2>3 DEF Request
    <3>3. PICK new \in Request :
            /\ new.step = "sending"
            /\ prop' = [prop EXCEPT ![p] = old] /\ req' = [req EXCEPT ![h] = new]
            /\ Kept(h, old, new) /\ SameRow(h, old) /\ SameTerms(h, old, new) /\ Noticed(h, new)
      BY <1>5, <2>1, <3>1, <3>2
    <3> QED
      BY <1>1, <1>2, <2>1, <3>3 DEF Effect, GoesOn
  <2> QED
    BY <2>1, <2>2, <2>3
<1> QED
  BY <1>4, <1>8, <1>9, <1>10, <1>12, <1>13, <1>14, <1>15, <1>16 DEF Step

\* What a reopening does: the document is there, and the next version, if it is the first
\* to succeed.
LEMMA ReopenEffect ==
  ASSUME NumbersInv, NEW h \in Handler, Reopen(h)
  PROVE  /\ req[h].step = "reopening" /\ req' = [req EXCEPT ![h] = Idle]
         /\ file' = [file EXCEPT ![req[h].file] = req[h].saw.terms]
         /\ UNCHANGED <<mandatory, decision, emitted, started, stale, mishaps>>
         /\ \/ prop' = prop
            \/ \E q \in Proposal, row \in Row :
                 /\ prop' = [prop EXCEPT ![q] = row]
                 /\ ~Exists(q) /\ req[h].p < q /\ ~Successor(req[h].p)
                 /\ \A o \in Proposal : o < q => Exists(o)
                 /\ row.status = "draft" /\ row.doc = req[h].file /\ row.terms = req[h].saw.terms
                 /\ row.prev = req[h].p /\ row.version <= q
                 /\ row.version = req[h].saw.version + 1
<1>1. AtWork(h) /\ req[h].step = "reopening"
  BY DEF Reopen, At, AtWork
<1>2. /\ req[h] \in Request /\ req[h].saw \in Row /\ req[h].p \in Proposal /\ Exists(req[h].p)
      /\ req[h].saw.version <= req[h].p /\ MaxVersions \in Nat
  BY <1>1, Handling, ProposalBounds DEF NumbersInv, VersionsInOrder, ProposalBounds
<1>3. \/ prop' = prop
      \/ \E q \in Proposal :
           /\ ~Successor(req[h].p) /\ prop[q].status = "none"
           /\ \A o \in Proposal : prop[o].status = "none" => q <= o
           /\ prop' = [prop EXCEPT ![q] = Reopened(h)]
  BY DEF Reopen, On
<1>4. ASSUME NEW q \in Proposal, ~Successor(req[h].p), prop[q].status = "none",
             \A o \in Proposal : prop[o].status = "none" => q <= o,
             prop' = [prop EXCEPT ![q] = Reopened(h)]
      PROVE  \E r \in Proposal, row \in Row :
                 /\ prop' = [prop EXCEPT ![r] = row]
                 /\ ~Exists(r) /\ req[h].p < r /\ ~Successor(req[h].p)
                 /\ \A o \in Proposal : o < r => Exists(o)
                 /\ row.status = "draft" /\ row.doc = req[h].file /\ row.terms = req[h].saw.terms
                 /\ row.prev = req[h].p /\ row.version <= r
                 /\ row.version = req[h].saw.version + 1
  <2>1. ~Exists(q) /\ \A o \in Proposal : o < q => Exists(o)
    BY <1>4 DEF Exists, Proposal
  <2>2. req[h].p < q
    <3>1. req[h].p # q /\ ~(q < req[h].p)
      BY <1>2, <2>1 DEF NumbersInv, VersionsInOrder
    <3> QED
      BY <1>2, <3>1 DEF Proposal
  <2> DEFINE row == Reopened(h)
  <2>3. /\ row.status = "draft" /\ row.doc = req[h].file /\ row.terms = req[h].saw.terms
        /\ row.prev = req[h].p /\ row.version = req[h].saw.version + 1
    BY DEF Reopened, On
  <2>4. row.version <= q /\ row.version \in 0..MaxVersions
    BY <1>2, <2>2, <2>3 DEF Row, Proposal
  <2>5. row \in Row
    <3>1. req[h].saw.version + 1 \in 0..MaxVersions
      BY <2>3, <2>4
    <3> QED
      BY <1>2, <3>1 DEF Reopened, On, Row, Request, Status, Client
  <2> HIDE DEF row
  <2> QED
    BY <1>4, <2>1, <2>2, <2>3, <2>4, <2>5 DEF row
<1> QED
  BY <1>1, <1>3, <1>4 DEF Reopen, Ends

\* The first version, with its document.
LEMMA FirstDraft ==
  ASSUME Init
  PROVE  /\ prop \in [Proposal -> Row]
         /\ \A p \in Proposal :
              /\ prop[p].terms = 0 /\ prop[p].prev = 0
              /\ p = 1 => prop[p].status = "draft" /\ prop[p].doc = 1 /\ prop[p].version = 1
              /\ p # 1 => prop[p].status = "none" /\ prop[p].doc = 0 /\ prop[p].version = 0
         /\ \A h \in Handler : req[h] = Idle
<1> DEFINE first == [NoRow EXCEPT !.status = "draft", !.doc = 1, !.version = 1]
<1>1. /\ first.status = "draft" /\ first.doc = 1 /\ first.version = 1
      /\ first.terms = 0 /\ first.prev = 0
  BY DEF NoRow
<1>2. ASSUME NEW p \in Proposal, p = 1 PROVE first \in Row
  <2>1. NoRow \in Row /\ 1 \in 0..MaxFiles /\ 1 \in 0..MaxVersions /\ "draft" \in Status
    BY <1>2, NothingRead, ProposalBounds DEF Proposal, ProposalBounds, Status
  <2> QED
    BY <2>1 DEF Row
<1>3. \A p \in Proposal : prop[p] = IF p = 1 THEN first ELSE NoRow
  BY DEF Init
<1> HIDE DEF first
<1>4. prop \in [Proposal -> Row]
  <2>1. prop = [p \in Proposal |-> prop[p]]
    BY DEF Init
  <2> QED
    BY <1>2, <1>3, <2>1, NothingRead
<1> QED
  BY <1>1, <1>3, <1>4, NothingRead DEF Init

\* The first draft has its document, and nothing else is promised.
LEMMA NumbersInit == Init => NumbersInv
<1> SUFFICES ASSUME Init PROVE NumbersInv
  OBVIOUS
<1> USE ProposalBounds DEF ProposalBounds
<1>1. TypeOK
  <2>1. file \in [File -> Content]
    BY DEF Init, File, Content, NotThere
  <2>2. stale \in BOOLEAN
    BY Zenon DEF Init
  <2>3. \A h \in Handler : req[h].step = "idle"
    BY FirstDraft, NothingRead
  <2>4. req \in [Handler -> Request]
    BY NothingRead DEF Init
  <2>5. decision \subseteq Decision /\ emitted \in [Proposal -> SUBSET Event]
    BY DEF Init
  <2>6. mandatory \in Mandatory /\ started \in 1..MaxFiles /\ mishaps \in 0..MaxMishaps
    BY DEF Init
  <2> QED
    BY <2>1, <2>2, <2>3, <2>4, <2>5, <2>6, FirstDraft DEF TypeOK
<1>2. AboutOne /\ NextKnown /\ VersionsInOrder /\ FilesPromised
  BY FirstDraft, NothingRead
    DEF Init, AboutOne, NextKnown, VersionsInOrder, FilesPromised, Filing, AtWork, Exists, Proposal
<1>3. TermsBounded
  <2>1. Spent \subseteq 2..1
    BY DEF Spent, Init
  <2>2. Spent = {}
    BY <2>1
  <2>3. Cardinality(Spent) = 0
    BY <2>2, FS_EmptySet
  <2> QED
    BY <2>3, FirstDraft, NothingRead DEF TermsBounded
<1> QED
  BY <1>1, <1>2, <1>3 DEF NumbersInv

\* What the actions leave in the variables that no handler holds a copy of.
LEMMA PlainTypes ==
  ASSUME NumbersInv, [Next]_vars
  PROVE  /\ mandatory' \in Mandatory /\ file' \in [File -> Content] /\ decision' \subseteq Decision
         /\ emitted' \in [Proposal -> SUBSET Event] /\ started' \in 1..MaxFiles
         /\ stale' \in BOOLEAN /\ mishaps' \in 0..MaxMishaps
<1>t. /\ mandatory \in Mandatory /\ file \in [File -> Content] /\ decision \subseteq Decision
      /\ emitted \in [Proposal -> SUBSET Event] /\ started \in 1..MaxFiles
      /\ stale \in BOOLEAN /\ mishaps \in 0..MaxMishaps
      /\ MaxFiles \in Nat /\ MaxMishaps \in Nat
  BY ProposalBounds DEF NumbersInv, TypeOK, ProposalBounds
<1>m. mishaps < MaxMishaps => mishaps + 1 \in 0..MaxMishaps
  BY <1>t
<1>1. CASE UNCHANGED vars
  BY <1>t, <1>1 DEF vars
<1>2. ASSUME NEW h \in Handler, NEW p \in Proposal, Start(h, p)
      PROVE  /\ UNCHANGED <<mandatory, file, decision, emitted, stale, mishaps>>
             /\ started' \in 1..MaxFiles
  BY <1>2, <1>t, StartEffect
<1>3. ASSUME NEW h \in Handler, Step(h)
      PROVE  /\ mandatory' \in Mandatory /\ file' \in [File -> Content] /\ decision' \subseteq Decision
             /\ emitted' \in [Proposal -> SUBSET Event] /\ started' \in 1..MaxFiles
             /\ stale' \in BOOLEAN /\ mishaps' \in 0..MaxMishaps
  <2>1. mandatory' = mandatory /\ started' = started
    BY <1>3 DEF Step, EditTerms, EditRender, EditFails, EditPoint, Submit, DecideCheck,
      DecideRecord, DecideCount, Decide, Reopen, ReleaseCheck, Release
  <2>2. mishaps' \in 0..MaxMishaps
    BY <1>3, <1>t, <1>m DEF Step, EditTerms, EditRender, EditFails, EditPoint, Submit, DecideCheck,
      DecideRecord, DecideCount, Decide, Reopen, ReleaseCheck, Release
  <2>3. stale' = stale \/ \E row : Writes(h, row)
    BY <1>3 DEF Step, EditTerms, EditRender, EditFails, EditPoint, Submit, DecideCheck,
      DecideRecord, DecideCount, Decide, Reopen, ReleaseCheck, Release
  <2>4. stale' \in BOOLEAN
    BY <1>t, <2>3, Zenon DEF Writes
  <2>5. emitted' \in [Proposal -> SUBSET Event]
    <3>1. CASE Decide(h) \/ Release(h)
      <4>1. PICK events \in SUBSET Event : Emits(On(h), events)
        BY <3>1 DEF Decide, Release, Event
      <4> QED
        BY <1>t, <4>1 DEF Emits
    <3>2. CASE ~(Decide(h) \/ Release(h))
      BY <1>3, <1>t, <3>2 DEF Step, EditTerms, EditRender, EditFails, EditPoint, Submit, DecideCheck,
        DecideRecord, DecideCount, Reopen, ReleaseCheck
    <3> QED
      BY <3>1, <3>2
  <2>6. decision' \subseteq Decision
    <3>1. CASE DecideRecord(h)
      <4>1. /\ AtWork(h) /\ req[h].step = "recording"
            /\ decision' = decision \cup
                 {[p |-> req[h].p, stage |-> req[h].stage, verdict |-> req[h].next]}
        BY <3>1 DEF DecideRecord, At, AtWork, On
      <4>2. req[h].p \in Proposal /\ req[h].stage \in Stage /\ req[h].next \in Verdict
        BY <4>1, Handling DEF NumbersInv, NextKnown
      <4> QED
        BY <1>t, <4>1, <4>2 DEF Decision
    <3>2. CASE ~DecideRecord(h)
      BY <1>3, <1>t, <3>2 DEF Step, EditTerms, EditRender, EditFails, EditPoint, Submit, DecideCheck,
        DecideCount, Decide, Reopen, ReleaseCheck, Release
    <3> QED
      BY <3>1, <3>2
  <2>7. file' \in [File -> Content]
    <3>1. CASE EditRender(h) \/ Reopen(h)
      <4>1. AtWork(h) /\ req[h].saw.terms \in Content /\ NotThere \in Content
        <5>1. AtWork(h)
          BY <3>1 DEF EditRender, Reopen, At, AtWork
        <5>2. req[h].saw.terms \in 0..MaxFiles
          BY <5>1, Handling DEF Row
        <5> QED
          BY <1>t, <5>1, <5>2 DEF Content, NotThere
      <4> QED
        BY <1>t, <3>1, <4>1 DEF EditRender, Rendered, Reopen
    <3>2. CASE ~(EditRender(h) \/ Reopen(h))
      BY <1>3, <1>t, <3>2 DEF Step, EditTerms, EditFails, EditPoint, Submit, DecideCheck,
        DecideRecord, DecideCount, Decide, ReleaseCheck, Release
    <3> QED
      BY <3>1, <3>2
  <2> QED
    BY <1>t, <2>1, <2>2, <2>4, <2>5, <2>6, <2>7
<1>4. ASSUME NEW p \in Proposal, NEW answer \in {"accepted", "declined"}, ClientDecision(p, answer)
      PROVE  /\ UNCHANGED <<mandatory, file, decision, started, stale, mishaps>>
             /\ emitted' \in [Proposal -> SUBSET Event]
  BY <1>4, <1>t DEF ClientDecision, Emits, Event
<1>5. CASE Crash
  BY <1>5, <1>t, <1>m DEF Crash
<1> QED
  BY <1>t, <1>1, <1>2, <1>3, <1>4, <1>5 DEF Next

\* How the documents that were taken grow.
LEMMA SpentGrows ==
  ASSUME NumbersInv, started' \in 1..MaxFiles, started <= started',
         Spent \subseteq Spent'
  PROVE  /\ Cardinality(Spent') \in Nat /\ Cardinality(Spent') < MaxFiles
         /\ Cardinality(Spent) <= Cardinality(Spent')
<1>1. MaxFiles \in Nat /\ IsFiniteSet(2..started')
      /\ Cardinality(2..started') = IF 2 > started' THEN 0 ELSE started' - 2 + 1
  <2>1. started' \in Int /\ 2 \in Int /\ MaxFiles \in Nat
    BY ProposalBounds DEF ProposalBounds
  <2> QED
    BY <2>1, FS_Interval
<1>2. Spent' \in SUBSET (2..started')
  BY DEF Spent
<1>3. IsFiniteSet(Spent') /\ Cardinality(Spent') <= Cardinality(2..started')
  BY <1>1, <1>2, FS_Subset
<1>4. Cardinality(Spent') \in Nat
  BY <1>3, FS_CardinalityType
<1>5. Cardinality(Spent) <= Cardinality(Spent')
  BY <1>3, FS_Subset
<1> QED
  BY <1>1, <1>3, <1>4, <1>5

\* The numbers hold after a step that moves one handler, and changes one row or none.
LEMMA NumbersStart ==
  ASSUME NumbersInv, [Next]_vars, NEW h \in Handler, NEW p \in Proposal, Start(h, p)
  PROVE  NumbersInv'
<1>1. PICK new \in Request :
           /\ req[h].step = "idle" /\ req' = [req EXCEPT ![h] = new]
           /\ new.p = p /\ new.saw = prop[p] /\ new.step # "idle"
           /\ prop[p].status = Seen(new.step)
           /\ \/ /\ new.step \in {"editing", "reopening"} /\ new.file = started + 1
                 /\ started' = started + 1 /\ started < MaxFiles
              \/ new.step \in {"submitting", "releasing", "checking"} /\ started' = started
           /\ new.step = "checking" => new.next \in Verdict /\ new.stage \in Stage
           /\ UNCHANGED <<mandatory, prop, file, decision, emitted, stale, mishaps>>
  BY StartEffect
<1>2. /\ req' \in [Handler -> Request] /\ req'[h] = new
      /\ \A g \in Handler : g # h => req'[g] = req[g]
      /\ started' \in 1..MaxFiles /\ started \in 1..MaxFiles /\ started <= started'
      /\ started \in Nat /\ started' \in Nat
  BY <1>1, PlainTypes DEF NumbersInv, TypeOK
<1>3. TypeOK' /\ AboutOne'
  <2>1. prop[p].status # "none"
    BY <1>1 DEF Seen
  <2> QED
    BY <1>1, <1>2, <2>1, PlainTypes DEF NumbersInv, TypeOK, AboutOne, AtWork
<1>4. NextKnown' /\ VersionsInOrder'
  BY <1>1, <1>2 DEF NumbersInv, NextKnown, VersionsInOrder, AtWork, Exists
<1>5. Spent \subseteq Spent'
  <2> SUFFICES ASSUME NEW f \in 2..started, NEW g \in Handler, req'[g].step = "editing",
                      f = req'[g].file
               PROVE  f \in Waiting
    BY <1>2 DEF Spent, Waiting
  <2>1. g # h
    BY <1>1, <1>2
  <2> QED
    BY <1>2, <2>1 DEF Waiting
<1>6. TermsBounded'
  <2>1. Cardinality(Spent) <= Cardinality(Spent') /\ Cardinality(Spent') \in Nat
    BY <1>2, <1>5, SpentGrows
  <2>2. Cardinality(Spent) \in Nat
    BY SpentCounted
  <2>3. \A q \in Proposal : prop[q].terms \in Nat /\ prop[q].terms <= Cardinality(Spent)
    BY DEF NumbersInv, TypeOK, TermsBounded, Row
  <2>4. \A g \in Handler : req[g].saw.terms \in Nat /\ req[g].saw.terms <= Cardinality(Spent)
    BY DEF NumbersInv, TypeOK, TermsBounded, Row, Request
  <2> QED
    BY <1>1, <1>2, <2>1, <2>2, <2>3, <2>4 DEF TermsBounded
<1>7. FilesPromised'
  <2>1. Exists(p)
    BY <1>1 DEF Seen, Exists
  <2>2. \A q \in Proposal : prop[q].doc \in Nat /\ prop[q].doc <= started
    BY DEF NumbersInv, TypeOK, FilesPromised, Row
  <2>3. \A g \in Handler : req[g].saw.doc \in Nat /\ req[g].saw.doc <= started
    BY DEF NumbersInv, TypeOK, FilesPromised, Row, Request
  <2>4. \A g \in Handler : Filing(g)' => req'[g].file \in 2..started'
    BY <1>1, <1>2 DEF NumbersInv, FilesPromised, Filing
  <2>5. \A f, g \in Handler : Filing(f)' /\ Filing(g)' /\ req'[f].file = req'[g].file => f = g
    <3>1. \A g \in Handler : Filing(g) => req[g].file \in 2..started
      BY DEF NumbersInv, FilesPromised
    <3>2. \A g \in Handler : g # h => (Filing(g)' <=> Filing(g)) /\ req'[g].file = req[g].file
      BY <1>2 DEF Filing
    <3>3. Filing(h)' => req'[h].file = started + 1
      BY <1>1, <1>2 DEF Filing
    <3> QED
      BY <1>2, <3>1, <3>2, <3>3 DEF NumbersInv, FilesPromised
  <2> QED
    BY <1>1, <1>2, <2>1, <2>2, <2>3, <2>4, <2>5 DEF NumbersInv, FilesPromised, AtWork, Exists
<1> QED
  BY <1>3, <1>4, <1>6, <1>7 DEF NumbersInv

\* The numbers hold after a step of a handler that does not reopen.
LEMMA NumbersHandler ==
  ASSUME NumbersInv, [Next]_vars, NEW h \in Handler, Step(h), ~Reopen(h)
  PROVE  NumbersInv'
<1>1. PICK row \in Row, new \in Request : Effect(h, row, new)
  BY StepEffect
<1>h. AtWork(h)
  BY StepEffect
<1> DEFINE p == req[h].p
           old == prop[p]
<1>2. /\ req' \in [Handler -> Request] /\ req'[h] = new
      /\ \A g \in Handler : g # h => req'[g] = req[g]
      /\ prop' \in [Proposal -> Row] /\ prop'[p] = row
      /\ \A q \in Proposal : q # p => prop'[q] = prop[q]
      /\ started' = started /\ started \in 1..MaxFiles /\ p \in Proposal
      /\ Exists(p) /\ Kept(h, row, new)
  BY <1>h, <1>1, Handling DEF Effect, NumbersInv, TypeOK
<1>k. \/ WritesTerms(h, row, new) \/ Renders(h, row, new) \/ Points(h, row, new)
      \/ Judges(h, row, new) \/ GoesOn(h, row, new) \/ RecordsDecision(h, row, new)
  BY <1>1 DEF Effect
<1>e. Idle.step = "idle" /\ Idle.saw.terms = 0 /\ Idle.saw.doc = 0
  BY NothingRead
<1>v. Verdict = {"approved", "rejected"}
  BY DEF Verdict
<1>3. row.status # "none"
  BY <1>h, <1>2, <1>k, <1>v
    DEF WritesTerms, Renders, Points, Judges, GoesOn, RecordsDecision, SameRow, Exists,
      NumbersInv, NextKnown
<1>4. new.step # "idle" => new.p = p /\ new.stage = req[h].stage /\ new.file = req[h].file
  BY <1>2 DEF Kept
<1>5. TypeOK' /\ AboutOne'
  <2>1. \A g \in Handler : req'[g].step # "idle" => req'[g].p \in Proposal
                                                    /\ prop'[req'[g].p].status # "none"
    BY <1>2, <1>3, <1>4 DEF NumbersInv, TypeOK, AboutOne, AtWork
  <2> QED
    BY <1>2, <2>1, PlainTypes DEF TypeOK, AboutOne, AtWork
<1>6. NextKnown'
  <2>1. /\ new.step \in {"checking", "recording"} => new.next \in Verdict /\ new.stage \in Stage
        /\ new.step = "deciding" => new.next \in Verdict \cup {"submitted"}
    BY <1>k, <1>v, <1>4
      DEF WritesTerms, Renders, Points, Judges, GoesOn, RecordsDecision, NumbersInv, NextKnown
  <2> QED
    BY <1>2, <2>1 DEF NumbersInv, NextKnown
<1>7. VersionsInOrder'
  <2>1. row.version = old.version /\ (new.step # "idle" => new.saw.version = req[h].saw.version)
    BY <1>2 DEF Kept
  <2>2. \A q \in Proposal : Exists(q)' <=> Exists(q)
    BY <1>2, <1>3 DEF Exists
  <2> QED
    BY <1>h, <1>2, <1>4, <2>1, <2>2 DEF NumbersInv, VersionsInOrder, AtWork
<1>8. /\ Filing(h)' => Filing(h) /\ new.file = req[h].file
      /\ new.step # "editing"
  BY <1>2, <1>k, <1>4
    DEF WritesTerms, Renders, Points, Judges, GoesOn, RecordsDecision, Filing
<1>9. FilesPromised'
  <2>1. row.doc = old.doc \/ (Filing(h) /\ row.doc = req[h].file)
    BY <1>k DEF WritesTerms, Renders, Points, Judges, GoesOn, RecordsDecision, SameRow, Filing
  <2>2. row.doc <= started /\ row.doc > 0
    BY <1>2, <2>1 DEF NumbersInv, FilesPromised
  <2>3. new.saw.doc <= started /\ (new.step # "idle" => new.saw.doc > 0)
    BY <1>h, <1>2, <1>e DEF Kept, NumbersInv, FilesPromised
  <2>4. \A g \in Handler : Filing(g)' => Filing(g) /\ req'[g].file = req[g].file
    BY <1>2, <1>8 DEF Filing
  <2>5. \A q \in Proposal : prop'[q].doc <= started /\ (Exists(q)' => prop'[q].doc > 0)
    BY <1>2, <2>2 DEF NumbersInv, FilesPromised, Exists
  <2>6. \A g \in Handler : req'[g].saw.doc <= started /\ (AtWork(g)' => req'[g].saw.doc > 0)
    BY <1>2, <2>3 DEF NumbersInv, FilesPromised, AtWork
  <2> QED
    BY <1>2, <2>4, <2>5, <2>6 DEF NumbersInv, FilesPromised
<1>10. Spent \subseteq Spent'
  BY <1>2, <1>8 DEF Spent, Waiting
<1>11. /\ Cardinality(Spent) \in Nat /\ Cardinality(Spent') \in Nat
       /\ Cardinality(Spent) <= Cardinality(Spent')
  BY <1>2, <1>10, SpentGrows, SpentCounted
<1>12. WritesTerms(h, row, new) => Cardinality(Spent) + 1 <= Cardinality(Spent')
  <2> SUFFICES ASSUME req[h].step = "editing" PROVE Cardinality(Spent) + 1 <= Cardinality(Spent')
    BY DEF WritesTerms
  <2> DEFINE f == req[h].file
  <2>1. f \in 2..started /\ f \notin Spent
    BY DEF NumbersInv, FilesPromised, Filing, Spent, Waiting
  <2>2. f \notin Waiting'
    <3> SUFFICES ASSUME NEW g \in Handler, req'[g].step = "editing", req'[g].file = f PROVE FALSE
      BY DEF Waiting
    <3>1. g # h
      BY <1>2, <1>8
    <3> QED
      BY <1>2, <3>1 DEF NumbersInv, FilesPromised, Filing
  <2> HIDE DEF f
  <2>3. f \in Spent' /\ Spent \cup {f} \subseteq Spent'
    BY <1>2, <1>10, <2>1, <2>2 DEF Spent
  <2>4. IsFiniteSet(Spent) /\ IsFiniteSet(Spent')
    <3>1. started' \in Int
      BY <1>2
    <3>2. 2 \in Int
      OBVIOUS
    <3>3. IsFiniteSet(2..started')
      BY <3>1, <3>2, FS_Interval
    <3>4. Spent' \in SUBSET (2..started')
      BY DEF Spent
    <3>5. IsFiniteSet(Spent')
      BY <3>3, <3>4, FS_Subset
    <3> QED
      BY <3>5, SpentCounted
  <2>5. Cardinality(Spent \cup {f}) = Cardinality(Spent) + 1
    BY <2>1, <2>4, FS_AddElement
  <2>6. Cardinality(Spent \cup {f}) <= Cardinality(Spent')
    BY <2>3, <2>4, FS_Subset
  <2> QED
    BY <2>5, <2>6
<1>13. TermsBounded'
  <2>1. /\ \A q \in Proposal : prop[q].terms \in Nat /\ prop[q].terms <= Cardinality(Spent)
        /\ \A g \in Handler : req[g].saw.terms \in Nat /\ req[g].saw.terms <= Cardinality(Spent)
    BY DEF NumbersInv, TypeOK, TermsBounded, Row, Request
  <2>2. row.terms <= Cardinality(Spent') /\ new.saw.terms <= Cardinality(Spent')
    <3>1. CASE WritesTerms(h, row, new)
      BY <1>2, <1>11, <1>12, <2>1, <3>1 DEF WritesTerms
    <3>2. CASE SameTerms(h, row, new)
      BY <1>2, <1>11, <1>e, <2>1, <3>2 DEF SameTerms, Kept
    <3> QED
      BY <1>k, <3>1, <3>2 DEF Renders, Points, Judges, GoesOn, RecordsDecision
  <2> QED
    BY <1>2, <1>11, <2>1, <2>2 DEF TermsBounded
<1> QED
  BY <1>5, <1>6, <1>7, <1>9, <1>13 DEF NumbersInv

\* The numbers hold after a reopening, which takes the lowest free place.
LEMMA NumbersReopen ==
  ASSUME NumbersInv, [Next]_vars, NEW h \in Handler, Reopen(h)
  PROVE  NumbersInv'
<1>e. Idle.step = "idle" /\ Idle.saw.terms = 0 /\ Idle.saw.doc = 0
  BY NothingRead
<1>1. /\ req[h].step = "reopening" /\ req' = [req EXCEPT ![h] = Idle]
      /\ started' = started
      /\ \/ prop' = prop
         \/ \E q \in Proposal, row \in Row :
              /\ prop' = [prop EXCEPT ![q] = row]
              /\ ~Exists(q) /\ req[h].p < q
              /\ \A o \in Proposal : o < q => Exists(o)
              /\ row.status = "draft" /\ row.doc = req[h].file /\ row.terms = req[h].saw.terms
              /\ row.version <= q
  BY ReopenEffect
<1>2. /\ req' \in [Handler -> Request] /\ req'[h] = Idle
      /\ \A g \in Handler : g # h => req'[g] = req[g]
      /\ started \in 1..MaxFiles
      /\ prop \in [Proposal -> Row]
  BY <1>1, NothingRead DEF NumbersInv, TypeOK
<1>3. ASSUME NEW q \in Proposal
      PROVE  \/ prop'[q] = prop[q]
             \/ /\ prop'[q].status = "draft" /\ prop'[q].doc = req[h].file
                /\ prop'[q].terms = req[h].saw.terms /\ prop'[q].version <= q
  BY <1>1, <1>2
<1>4. prop' \in [Proposal -> Row] /\ \A q \in Proposal : Exists(q) => Exists(q)'
  <2>1. \A q \in Proposal : Exists(q) => Exists(q)'
    BY <1>3 DEF Exists
  <2> QED
    BY <1>1, <1>2, <2>1
<1>5. TypeOK' /\ AboutOne' /\ NextKnown'
  <2>1. \A g \in Handler : req'[g].step # "idle" => req'[g].p \in Proposal
                                                    /\ prop'[req'[g].p].status # "none"
    BY <1>e, <1>2, <1>4 DEF NumbersInv, TypeOK, AboutOne, Exists
  <2>2. AboutOne' /\ NextKnown'
    BY <1>e, <1>2, <2>1 DEF NumbersInv, AboutOne, NextKnown
  <2> QED
    BY <1>2, <1>4, <2>1, <2>2, PlainTypes DEF TypeOK
<1>6. VersionsInOrder'
  <2>1. \A a, b \in Proposal : Exists(b)' /\ a < b => Exists(a)'
    <3> SUFFICES ASSUME NEW a \in Proposal, NEW b \in Proposal, Exists(b)', a < b
                 PROVE  Exists(a)'
      OBVIOUS
    <3>1. CASE Exists(b)
      BY <1>4, <3>1 DEF NumbersInv, VersionsInOrder
    <3>2. CASE ~Exists(b)
      <4>1. PICK q \in Proposal, row \in Row :
              /\ prop' = [prop EXCEPT ![q] = row]
              /\ \A o \in Proposal : o < q => Exists(o)
        BY <1>1, <3>2 DEF Exists
      <4>2. b = q
        BY <1>2, <3>2, <4>1 DEF Exists
      <4> QED
        BY <1>4, <4>1, <4>2
    <3> QED
      BY <3>1, <3>2
  <2> QED
    BY <1>e, <1>2, <1>3, <2>1 DEF NumbersInv, VersionsInOrder, AtWork
<1>7. Spent = Spent'
  BY <1>e, <1>1, <1>2 DEF Spent, Waiting
<1>8. TermsBounded'
  <2>1. /\ \A q \in Proposal : prop[q].terms <= Cardinality(Spent)
        /\ \A g \in Handler : req[g].saw.terms <= Cardinality(Spent)
        /\ Cardinality(Spent) \in Nat
    BY SpentCounted DEF NumbersInv, TermsBounded
  <2>2. \A q \in Proposal : prop'[q].terms <= Cardinality(Spent)
    BY <1>3, <2>1
  <2>3. \A g \in Handler : req'[g].saw.terms <= Cardinality(Spent)
    BY <1>e, <1>2, <2>1
  <2> QED
    BY <1>7, <2>2, <2>3 DEF TermsBounded
<1>9. FilesPromised'
  <2>1. req[h].file \in 2..started
    BY <1>1 DEF NumbersInv, FilesPromised, Filing
  <2>2. \A q \in Proposal : prop'[q].doc <= started /\ (Exists(q)' => prop'[q].doc > 0)
    BY <1>2, <1>3, <2>1 DEF NumbersInv, FilesPromised, Exists
  <2>3. \A g \in Handler : req'[g].saw.doc <= started /\ (AtWork(g)' => req'[g].saw.doc > 0)
    BY <1>e, <1>2 DEF NumbersInv, FilesPromised, AtWork
  <2>4. \A g \in Handler : Filing(g)' => Filing(g) /\ req'[g].file = req[g].file
    BY <1>e, <1>2 DEF Filing
  <2> QED
    BY <1>1, <2>2, <2>3, <2>4 DEF NumbersInv, FilesPromised
<1> QED
  BY <1>5, <1>6, <1>8, <1>9 DEF NumbersInv

\* The numbers hold after every step.
LEMMA NumbersStep == NumbersInv /\ [Next]_vars => NumbersInv'
<1> SUFFICES ASSUME NumbersInv, [Next]_vars PROVE NumbersInv'
  OBVIOUS
<1>1. ASSUME NEW h \in Handler, Step(h) PROVE NumbersInv'
  BY <1>1, NumbersHandler, NumbersReopen
<1>2. ASSUME NEW h \in Handler, NEW p \in Proposal, Start(h, p) PROVE NumbersInv'
  BY <1>2, NumbersStart
<1>3. ASSUME NEW p \in Proposal, NEW answer \in {"accepted", "declined"}, ClientDecision(p, answer)
      PROVE  NumbersInv'
  <2>1. /\ prop' = [prop EXCEPT ![p].client = answer] /\ UNCHANGED <<req, started>>
        /\ answer \in Client
    BY <1>3 DEF ClientDecision, Client
  <2>2. /\ prop' \in [Proposal -> Row]
        /\ \A q \in Proposal : /\ prop'[q].status = prop[q].status
                               /\ prop'[q].terms = prop[q].terms
                               /\ prop'[q].doc = prop[q].doc
                               /\ prop'[q].version = prop[q].version
    BY <2>1 DEF NumbersInv, TypeOK, Row
  <2>3. TypeOK'
    BY <2>1, <2>2, PlainTypes DEF NumbersInv, TypeOK, AboutOne
  <2>4. Spent' = Spent
    BY <2>1 DEF Spent, Waiting
  <2>5. TermsBounded'
    BY <2>1, <2>2, <2>4 DEF NumbersInv, TermsBounded
  <2> QED
    BY <2>1, <2>2, <2>3, <2>5
      DEF NumbersInv, AboutOne, FilesPromised, VersionsInOrder, NextKnown, Filing, AtWork, Exists
<1>4. CASE Crash
  <2>1. /\ \A g \in Handler : req'[g] = Idle
        /\ UNCHANGED <<prop, started>> /\ started \in 1..MaxFiles /\ started' \in 1..MaxFiles
    BY <1>4 DEF Crash, NumbersInv, TypeOK
  <2>2. TypeOK'
    <3>1. req' \in [Handler -> Request]
      BY <1>4, NothingRead DEF Crash
    <3> QED
      BY <2>1, <3>1, NothingRead, PlainTypes DEF NumbersInv, TypeOK
  <2>3. Spent \subseteq Spent'
    BY <2>1, NothingRead DEF Spent, Waiting
  <2>4. Cardinality(Spent) <= Cardinality(Spent') /\ Cardinality(Spent') \in Nat
    BY <2>1, <2>3, SpentGrows
  <2>5. Cardinality(Spent) \in Nat
    BY SpentCounted
  <2>6. \A q \in Proposal : prop[q].terms \in Nat /\ prop[q].terms <= Cardinality(Spent)
    BY DEF NumbersInv, TypeOK, TermsBounded, Row
  <2>7. TermsBounded'
    BY <2>1, <2>4, <2>5, <2>6, NothingRead DEF TermsBounded
  <2>8. AboutOne' /\ NextKnown' /\ VersionsInOrder'
    BY <2>1, NothingRead DEF NumbersInv, AboutOne, NextKnown, VersionsInOrder, AtWork, Exists
  <2>9. FilesPromised'
    BY <2>1, NothingRead DEF NumbersInv, FilesPromised, Filing, AtWork, Exists
  <2> QED
    BY <2>2, <2>7, <2>8, <2>9 DEF NumbersInv
<1>5. CASE UNCHANGED vars
  <2>1. TypeOK'
    BY <1>5 DEF vars, NumbersInv, TypeOK
  <2>2. Spent' = Spent /\ TermsBounded'
    BY <1>5 DEF vars, NumbersInv, TermsBounded, Spent, Waiting
  <2> QED
    BY <1>5, <2>1, <2>2
      DEF vars, NumbersInv, AboutOne, FilesPromised, VersionsInOrder, NextKnown, Filing, AtWork,
        Exists
<1> QED
  BY <1>1, <1>2, <1>3, <1>4, <1>5 DEF Next

\* Every variable has its type in every reachable state: the terms never outnumber the
\* documents, a version number never exceeds the versions, and a handler at work is about a
\* proposal that exists (routes/proposals.ts, routes/approvals.ts).
THEOREM Typed == Spec => []TypeOK
<1>1. NumbersInv => TypeOK
  BY DEF NumbersInv
<1> QED
  BY <1>1, NumbersInit, NumbersStep, PTL DEF Spec

-----------------------------------------------------------------------------
(* The documents *)

\* The document a handler was promised is nobody else's.
Fresh ==
  \A h \in Handler : Filing(h) =>
    /\ \A p \in Proposal : prop[p].doc # req[h].file
    /\ \A g \in Handler : req[g].saw.doc # req[h].file

\* No two versions share a document, and a handler may delete its own version's only.
OwnDocument ==
  /\ \A p, q \in Proposal : Exists(p) /\ Exists(q) /\ prop[p].doc = prop[q].doc => p = q
  /\ \A h \in Handler, q \in Proposal :
       AtWork(h) /\ Exists(q) /\ prop[q].doc = req[h].saw.doc => q = req[h].p

\* What is about to be pointed at says the terms that were rendered.
RenderedStays ==
  \A h \in Handler : req[h].step = "pointing" => file[req[h].file] = req[h].saw.terms

DocumentsInv == Fresh /\ OwnDocument /\ RenderedStays /\ DocumentIsCurrent

\* A version whose document lags has its edit at work.
Lagging(p) == \E h \in Handler : On(h) = p /\ req[h].step \in {"rendering", "pointing"}

\* The first draft's document says its terms.
LEMMA DocumentsInit == Init => DocumentsInv
<1> SUFFICES ASSUME Init PROVE DocumentsInv
  OBVIOUS
<1>1. Fresh /\ RenderedStays /\ OwnDocument
  BY FirstDraft, NothingRead DEF Fresh, RenderedStays, OwnDocument, Filing, AtWork, Exists
<1>2. file[1] = 0
  BY ProposalBounds DEF Init, File, ProposalBounds
<1>3. DocumentIsCurrent
  BY <1>2, FirstDraft DEF DocumentIsCurrent, Exists
<1> QED
  BY <1>1, <1>3 DEF DocumentsInv

\* A document that is promised now is nobody's yet.
LEMMA DocumentsStart ==
  ASSUME NumbersInv, DocumentsInv, NEW h \in Handler, NEW p \in Proposal, Start(h, p)
  PROVE  DocumentsInv'
<1>1. PICK new \in Request :
           /\ req[h].step = "idle" /\ req' = [req EXCEPT ![h] = new]
           /\ new.p = p /\ new.saw = prop[p] /\ new.step # "idle"
           /\ prop[p].status = Seen(new.step)
           /\ \/ new.step \in {"editing", "reopening"} /\ new.file = started + 1
              \/ new.step \in {"submitting", "releasing", "checking"}
           /\ UNCHANGED <<prop, file, stale, mishaps>>
  BY StartEffect
<1>2. /\ req'[h] = new /\ \A g \in Handler : g # h => req'[g] = req[g]
      /\ Exists(p) /\ started \in Nat
  BY <1>1 DEF NumbersInv, TypeOK, Exists, Seen
<1>3. /\ \A q \in Proposal : prop[q].doc \in Nat /\ prop[q].doc <= started
      /\ \A g \in Handler : req[g].saw.doc \in Nat /\ req[g].saw.doc <= started
  BY DEF NumbersInv, TypeOK, FilesPromised, Row, Request
<1>4. Filing(h)' => new.file = started + 1
  BY <1>1, <1>2 DEF Filing
<1>5. \A g \in Handler : g # h => (Filing(g)' <=> Filing(g))
  BY <1>2 DEF Filing
<1>6. Fresh'
  <2> SUFFICES ASSUME NEW g \in Handler, Filing(g)'
               PROVE  /\ \A q \in Proposal : prop'[q].doc # req'[g].file
                      /\ \A f \in Handler : req'[f].saw.doc # req'[g].file
    BY DEF Fresh
  <2>1. CASE g = h
    BY <1>1, <1>2, <1>3, <1>4, <2>1
  <2>2. CASE g # h
    BY <1>1, <1>2, <1>5, <2>2 DEF DocumentsInv, Fresh
  <2> QED
    BY <2>1, <2>2
<1>7. OwnDocument'
  BY <1>1, <1>2 DEF DocumentsInv, OwnDocument, AtWork, Exists
<1>8. RenderedStays'
  BY <1>1, <1>2 DEF DocumentsInv, RenderedStays
<1>9. DocumentIsCurrent'
  <2>1. \A q \in Proposal : Lagging(q) => Lagging(q)'
    BY <1>1, <1>2 DEF Lagging, On
  <2> QED
    BY <1>1, <2>1 DEF DocumentsInv, DocumentIsCurrent, Undisturbed, Lagging, Exists
<1> QED
  BY <1>6, <1>7, <1>8, <1>9 DEF DocumentsInv

\* A rendering writes its own document and deletes its own version's.
LEMMA DocumentsHandler ==
  ASSUME NumbersInv, DocumentsInv, NEW h \in Handler, Step(h), ~Reopen(h)
  PROVE  DocumentsInv'
<1>1. PICK row \in Row, new \in Request : Effect(h, row, new)
  BY StepEffect
<1>h. AtWork(h)
  BY StepEffect
<1> DEFINE p == req[h].p
           old == prop[p]
<1>2. /\ req'[h] = new /\ \A g \in Handler : g # h => req'[g] = req[g]
      /\ prop'[p] = row /\ \A q \in Proposal : q # p => prop'[q] = prop[q]
      /\ p \in Proposal /\ Exists(p) /\ Kept(h, row, new) /\ Noticed(h, new)
      /\ file \in [File -> Content]
  BY <1>h, <1>1, Handling DEF Effect, NumbersInv, TypeOK
<1>k. \/ WritesTerms(h, row, new) \/ Renders(h, row, new) \/ Points(h, row, new)
      \/ Judges(h, row, new) \/ GoesOn(h, row, new) \/ RecordsDecision(h, row, new)
  BY <1>1 DEF Effect
<1>3. \A q \in Proposal : Exists(q)' => Exists(q)
  BY <1>2 DEF Exists
<1>4. /\ new.step # "idle" => new.p = p /\ new.file = req[h].file /\ new.saw.doc = req[h].saw.doc
      /\ new.step = "idle" => new.saw.doc = 0
  BY <1>2, NothingRead DEF Kept
<1>5. /\ Filing(h)' => Filing(h) /\ new.file = req[h].file
      /\ \A g \in Handler : g # h => (Filing(g)' <=> Filing(g))
  BY <1>2, <1>k, <1>4
    DEF WritesTerms, Renders, Points, Judges, GoesOn, RecordsDecision, Filing
<1>6. row.doc = old.doc \/ (Filing(h) /\ ~Filing(h)' /\ row.doc = req[h].file)
  BY <1>2, <1>k DEF WritesTerms, Renders, Points, Judges, GoesOn, RecordsDecision, SameRow, Filing
\* A handler's document is a file, and none of the rows'.
<1>7. ASSUME NEW g \in Handler, Filing(g)
      PROVE  req[g].file \in File /\ req[g].file # 0
  <2>1. req[g].file \in 2..started /\ started \in 1..MaxFiles /\ MaxFiles \in Nat
    BY <1>7, ProposalBounds DEF NumbersInv, TypeOK, FilesPromised, ProposalBounds
  <2> QED
    BY <2>1 DEF File
<1>8. Fresh'
  <2> SUFFICES ASSUME NEW g \in Handler, Filing(g)'
               PROVE  /\ \A q \in Proposal : prop'[q].doc # req'[g].file
                      /\ \A f \in Handler : req'[f].saw.doc # req'[g].file
    BY DEF Fresh
  <2>1. Filing(g) /\ req'[g].file = req[g].file
    BY <1>2, <1>5
  <2>2. row.doc # req[g].file
    BY <1>2, <1>6, <2>1 DEF NumbersInv, FilesPromised, DocumentsInv, Fresh
  <2>3. new.saw.doc # req[g].file
    BY <1>4, <1>7, <2>1 DEF DocumentsInv, Fresh
  <2> QED
    BY <1>2, <2>1, <2>2, <2>3 DEF DocumentsInv, Fresh
<1>9. OwnDocument'
  <2>1. ASSUME NEW a \in Proposal, NEW b \in Proposal, Exists(a), Exists(b),
               prop'[a].doc = prop'[b].doc
        PROVE  a = b
    BY <1>2, <1>6, <2>1 DEF DocumentsInv, OwnDocument, Fresh
  <2>2. ASSUME NEW g \in Handler, NEW q \in Proposal, AtWork(g)', Exists(q),
               prop'[q].doc = req'[g].saw.doc
        PROVE  q = req'[g].p
    <3>1. AtWork(g) /\ req'[g].p = req[g].p /\ req'[g].saw.doc = req[g].saw.doc
      BY <1>h, <1>2, <1>4, <2>2 DEF AtWork
    <3>2. prop'[q].doc = prop[q].doc
      BY <1>2, <1>6, <2>2, <3>1 DEF DocumentsInv, Fresh
    <3> QED
      BY <2>2, <3>1, <3>2 DEF DocumentsInv, OwnDocument
  <2> QED
    BY <1>3, <2>1, <2>2 DEF OwnDocument
\* Only a rendering changes documents: its own, and the one of its version.
<1>10. /\ ~Renders(h, row, new) => file' = file
       /\ Renders(h, row, new) =>
            /\ file'[req[h].file] = req[h].saw.terms
            /\ \A f \in File : f # req[h].file /\ f # req[h].saw.doc => file'[f] = file[f]
  <2>1. ~Renders(h, row, new) => file' = file
    BY <1>k DEF WritesTerms, Points, Judges, GoesOn, RecordsDecision
  <2>2. ASSUME Renders(h, row, new)
        PROVE  /\ file'[req[h].file] = req[h].saw.terms
               /\ \A f \in File : f # req[h].file /\ f # req[h].saw.doc => file'[f] = file[f]
    <3>1. Filing(h) /\ req[h].saw.doc # req[h].file
      BY <2>2 DEF Renders, Filing, DocumentsInv, Fresh
    <3>2. req[h].file \in File
      BY <1>7, <3>1
    <3> QED
      BY <1>2, <2>2, <3>1, <3>2 DEF Renders, Rendered
  <2> QED
    BY <2>1, <2>2
<1>11. RenderedStays'
  <2> SUFFICES ASSUME NEW g \in Handler, req'[g].step = "pointing"
               PROVE  file'[req'[g].file] = req'[g].saw.terms
    BY DEF RenderedStays
  <2>1. CASE g = h
    <3>1. Renders(h, row, new)
      BY <1>2, <1>k, <2>1 DEF WritesTerms, Points, Judges, GoesOn, RecordsDecision
    <3> QED
      BY <1>2, <1>4, <1>10, <2>1, <3>1 DEF Renders, SameTerms
  <2>2. CASE g # h
    <3>1. Filing(g) /\ req'[g] = req[g] /\ file[req[g].file] = req[g].saw.terms
      BY <1>2, <2>2 DEF Filing, DocumentsInv, RenderedStays
    <3>2. Renders(h, row, new) => req[g].file # req[h].file /\ req[g].file # req[h].saw.doc
      BY <2>2, <3>1 DEF Renders, Filing, NumbersInv, FilesPromised, DocumentsInv, Fresh
    <3> QED
      BY <1>7, <1>10, <3>1, <3>2
  <2> QED
    BY <2>1, <2>2
<1>12. DocumentIsCurrent'
  <2> SUFFICES ASSUME Undisturbed', NEW q \in Proposal, Exists(q)
               PROVE  file'[prop'[q].doc] = prop'[q].terms \/ Lagging(q)'
    BY <1>3 DEF DocumentIsCurrent, Lagging
  <2>1. Undisturbed /\ ~(req[h].step = "rendering" /\ new.step = "idle")
        /\ (req[h].step = "pointing" => old = req[h].saw)
    BY <1>2 DEF Undisturbed, Noticed
  <2>2. file[prop[q].doc] = prop[q].terms \/ Lagging(q)
    BY <2>1 DEF DocumentsInv, DocumentIsCurrent, Lagging
  <2>3. CASE new.step \in {"rendering", "pointing"} /\ q = p
    BY <1>2, <1>4, <2>3 DEF Lagging, On
  <2>4. CASE Points(h, row, new) /\ q = p
    <3>1. row.doc = req[h].file /\ row.terms = req[h].saw.terms /\ file' = file
      BY <2>1, <2>4 DEF Points, SameTerms
    <3>2. file[req[h].file] = req[h].saw.terms
      BY <2>4 DEF Points, DocumentsInv, RenderedStays
    <3> QED
      BY <1>2, <2>4, <3>1, <3>2
  <2>5. CASE q = p /\ ~Points(h, row, new) /\ new.step \notin {"rendering", "pointing"}
    <3>1. /\ row.doc = old.doc /\ row.terms = old.terms /\ ~Renders(h, row, new)
          /\ req[h].step \notin {"rendering", "pointing"}
      BY <1>k, <2>1, <2>5
        DEF WritesTerms, Renders, Judges, GoesOn, RecordsDecision, SameRow, SameTerms
    <3>2. Lagging(q) => Lagging(q)'
      BY <1>2, <3>1 DEF Lagging, On
    <3> QED
      BY <1>2, <1>10, <2>2, <2>5, <3>1, <3>2
  <2>6. CASE q # p
    <3>1. prop'[q] = prop[q] /\ (Lagging(q) => Lagging(q)')
      BY <1>2, <2>6 DEF Lagging, On
    <3>2. Renders(h, row, new) => prop[q].doc # req[h].file /\ prop[q].doc # req[h].saw.doc
      BY <1>h, <2>6 DEF Renders, Filing, DocumentsInv, Fresh, OwnDocument
    <3>3. prop[q].doc \in File
      <4>1. prop[q].doc \in 0..MaxFiles /\ prop[q].doc > 0 /\ MaxFiles \in Nat
        BY ProposalBounds DEF NumbersInv, TypeOK, Row, FilesPromised, ProposalBounds
      <4> QED
        BY <4>1 DEF File
    <3>4. file'[prop[q].doc] = file[prop[q].doc]
      BY <1>10, <3>2, <3>3
    <3> QED
      BY <2>2, <3>1, <3>4
  <2> QED
    BY <2>3, <2>4, <2>5, <2>6
<1> QED
  BY <1>8, <1>9, <1>11, <1>12 DEF DocumentsInv

\* A reopening writes its own document, and gives it to the new version.
LEMMA DocumentsReopen ==
  ASSUME NumbersInv, DocumentsInv, NEW h \in Handler, Reopen(h)
  PROVE  DocumentsInv'
<1>1. /\ req[h].step = "reopening" /\ req' = [req EXCEPT ![h] = Idle]
      /\ file' = [file EXCEPT ![req[h].file] = req[h].saw.terms]
      /\ UNCHANGED <<stale, mishaps>>
      /\ \/ prop' = prop
         \/ \E q \in Proposal, row \in Row :
              /\ prop' = [prop EXCEPT ![q] = row] /\ ~Exists(q)
              /\ row.doc = req[h].file /\ row.terms = req[h].saw.terms
  BY ReopenEffect
<1>2. /\ req'[h] = Idle /\ \A g \in Handler : g # h => req'[g] = req[g]
      /\ Idle.step = "idle" /\ Idle.saw.doc = 0
      /\ prop \in [Proposal -> Row] /\ file \in [File -> Content]
  BY <1>1, NothingRead DEF NumbersInv, TypeOK
\* At most one row is new, and it has the document of the handler.
<1>3. /\ \A a \in Proposal : prop'[a] = prop[a] \/ prop'[a].doc = req[h].file
      /\ \A a, b \in Proposal : prop'[a] # prop[a] /\ prop'[b] # prop[b] => a = b
      /\ \A a \in Proposal : prop'[a] # prop[a] => prop'[a].terms = req[h].saw.terms
  BY <1>1, <1>2
<1>4. Filing(h) /\ \A g \in Handler : g # h => (Filing(g)' <=> Filing(g))
  BY <1>1, <1>2 DEF Filing
<1>5. ~Filing(h)' /\ ~AtWork(h)'
  BY <1>2 DEF Filing, AtWork
<1>6. \A g \in Handler : Filing(g) => req[g].file \in File /\ req[g].file # 0
  <2>1. ASSUME NEW g \in Handler, Filing(g) PROVE req[g].file \in File /\ req[g].file # 0
    <3>1. req[g].file \in 2..started /\ started \in 1..MaxFiles /\ MaxFiles \in Nat
      BY <2>1, ProposalBounds DEF NumbersInv, TypeOK, FilesPromised, ProposalBounds
    <3> QED
      BY <3>1 DEF File
  <2> QED
    BY <2>1
<1>7. /\ file'[req[h].file] = req[h].saw.terms
      /\ \A f : f # req[h].file => file'[f] = file[f]
  BY <1>1, <1>2, <1>4, <1>6
<1>8. Fresh'
  <2> SUFFICES ASSUME NEW g \in Handler, Filing(g)'
               PROVE  /\ \A q \in Proposal : prop'[q].doc # req'[g].file
                      /\ \A f \in Handler : req'[f].saw.doc # req'[g].file
    BY DEF Fresh
  <2>1. g # h /\ Filing(g) /\ req'[g] = req[g] /\ req[g].file # req[h].file
    BY <1>2, <1>4, <1>5 DEF NumbersInv, FilesPromised
  <2> QED
    BY <1>2, <1>3, <1>6, <2>1 DEF DocumentsInv, Fresh
<1>9. OwnDocument'
  <2>1. ASSUME NEW a \in Proposal, NEW b \in Proposal, Exists(a)', Exists(b)',
               prop'[a].doc = prop'[b].doc
        PROVE  a = b
    BY <1>3, <1>4, <2>1 DEF DocumentsInv, OwnDocument, Fresh, Exists
  <2>2. ASSUME NEW g \in Handler, NEW q \in Proposal, AtWork(g)', Exists(q)',
               prop'[q].doc = req'[g].saw.doc
        PROVE  q = req'[g].p
    <3>1. AtWork(g) /\ req'[g] = req[g]
      BY <1>2, <1>5, <2>2 DEF AtWork
    <3>2. prop'[q] = prop[q]
      BY <1>3, <1>4, <2>2, <3>1 DEF DocumentsInv, Fresh
    <3> QED
      BY <2>2, <3>1, <3>2 DEF DocumentsInv, OwnDocument, Exists
  <2> QED
    BY <2>1, <2>2 DEF OwnDocument
<1>10. RenderedStays'
  <2> SUFFICES ASSUME NEW g \in Handler, req'[g].step = "pointing"
               PROVE  file'[req'[g].file] = req'[g].saw.terms
    BY DEF RenderedStays
  <2>1. g # h /\ Filing(g) /\ req'[g] = req[g]
    BY <1>2 DEF Filing
  <2>2. req[g].file # req[h].file
    BY <1>4, <2>1 DEF NumbersInv, FilesPromised
  <2> QED
    BY <1>7, <2>1, <2>2 DEF DocumentsInv, RenderedStays
<1>11. DocumentIsCurrent'
  <2> SUFFICES ASSUME Undisturbed', NEW q \in Proposal, Exists(q)'
               PROVE  file'[prop'[q].doc] = prop'[q].terms \/ Lagging(q)'
    BY DEF DocumentIsCurrent, Lagging
  <2>1. CASE prop'[q] = prop[q]
    <3>1. Lagging(q) => Lagging(q)'
      BY <1>1, <1>2 DEF Lagging, On
    <3>2. file[prop[q].doc] = prop[q].terms \/ Lagging(q)
      BY <1>1, <2>1 DEF DocumentsInv, DocumentIsCurrent, Lagging, Undisturbed, Exists
    <3>3. prop[q].doc # req[h].file
      BY <1>4 DEF DocumentsInv, Fresh
    <3> QED
      BY <1>7, <2>1, <3>1, <3>2, <3>3
  <2>2. CASE prop'[q] # prop[q]
    BY <1>3, <1>7, <2>2
  <2> QED
    BY <2>1, <2>2
<1> QED
  BY <1>8, <1>9, <1>10, <1>11 DEF DocumentsInv

\* The documents survive every step.
LEMMA DocumentsStep == NumbersInv /\ DocumentsInv /\ [Next]_vars => DocumentsInv'
<1> SUFFICES ASSUME NumbersInv, DocumentsInv, [Next]_vars PROVE DocumentsInv'
  OBVIOUS
<1>1. ASSUME NEW h \in Handler, Step(h) PROVE DocumentsInv'
  BY <1>1, DocumentsHandler, DocumentsReopen
<1>2. ASSUME NEW h \in Handler, NEW p \in Proposal, Start(h, p) PROVE DocumentsInv'
  BY <1>2, DocumentsStart
<1>3. ASSUME NEW p \in Proposal, NEW answer \in {"accepted", "declined"}, ClientDecision(p, answer)
      PROVE  DocumentsInv'
  <2>1. UNCHANGED <<req, file, stale, mishaps>>
    BY <1>3 DEF ClientDecision
  <2>2. \A q \in Proposal : /\ prop'[q].status = prop[q].status
                            /\ prop'[q].terms = prop[q].terms
                            /\ prop'[q].doc = prop[q].doc
    BY <1>3 DEF ClientDecision, NumbersInv, TypeOK, Row
  <2> QED
    BY <2>1, <2>2
      DEF DocumentsInv, Fresh, OwnDocument, RenderedStays, DocumentIsCurrent, Undisturbed, Filing,
        AtWork, Exists, On
<1>4. CASE Crash
  <2>1. /\ \A g \in Handler : req'[g] = Idle
        /\ prop' = prop /\ mishaps' # 0
    BY <1>4 DEF Crash, NumbersInv, TypeOK
  <2>2. DocumentIsCurrent'
    BY <2>1 DEF DocumentIsCurrent, Undisturbed
  <2>3. Fresh' /\ RenderedStays'
    BY <2>1, NothingRead DEF Fresh, RenderedStays, Filing
  <2>4. OwnDocument'
    BY <2>1, NothingRead DEF DocumentsInv, OwnDocument, AtWork, Exists
  <2> QED
    BY <2>2, <2>3, <2>4 DEF DocumentsInv
<1>5. CASE UNCHANGED vars
  BY <1>5
    DEF vars, DocumentsInv, Fresh, OwnDocument, RenderedStays, DocumentIsCurrent, Undisturbed,
      Filing, AtWork, Exists, On
<1> QED
  BY <1>1, <1>2, <1>3, <1>4, <1>5 DEF Next

\* While no handler writes over what it did not know, crashes or fails to render, the
\* document of a version says its terms, unless its edit is still at work: no overlap of
\* edits, reopenings and approvals deletes or mixes up a document (PUT /proposals/:id).
THEOREM DocumentsSayTheTerms == Spec => []DocumentIsCurrent
<1>1. DocumentsInv => DocumentIsCurrent
  BY DEF DocumentsInv
<1> QED
  BY <1>1, NumbersInit, NumbersStep, DocumentsInit, DocumentsStep, PTL DEF Spec

-----------------------------------------------------------------------------
(* The statuses *)

Judging(h) == req[h].step \in {"checking", "recording", "counting", "deciding"}
Decided(p) == \E d \in decision : d.p = p
Refused(p) == \E d \in decision : d.p = p /\ d.verdict = "rejected"

\* Nothing is decided of a draft, and no status goes back to it.
Undecided ==
  \A p \in Proposal : prop[p].status \in {"none", "draft"} =>
    ~Decided(p) /\ \A h \in Handler : Judging(h) => req[h].p # p

\* What a handler at work read is what its step asks for.
SawStatus == \A h \in Handler : AtWork(h) => req[h].saw.status = Seen(req[h].step)

\* A handler is about to write the rejection, or what was decided.
WillReject(p) == \E h \in Handler : req[h].p = p /\ req[h].step = "deciding" /\ req[h].next = "rejected"
WillTell(p) ==
  \E h \in Handler :
    /\ req[h].p = p
    /\ req[h].step = "counting" \/ (req[h].step = "deciding" /\ req[h].next \in Verdict)

SubmittedWaits(p) ==
  prop[p].status = "submitted" =>
    /\ Refused(p) => WillReject(p)
    /\ Decided(p) => LacksStage(p) \/ WillTell(p)

RejectedStays(p) ==
  Successor(p) \/ (\E h \in Handler : req[h].step = "reopening" /\ req[h].p = p) =>
    prop[p].status = "rejected"

StatusInv ==
  Undecided /\ SawStatus /\
  (Undisturbed => \A p \in Proposal : SubmittedWaits(p) /\ RejectedStays(p))

\* Nothing was decided of the first draft.
LEMMA StatusInit == Init => StatusInv
<1> SUFFICES ASSUME Init PROVE StatusInv
  OBVIOUS
<1>1. \A p \in Proposal : prop[p].prev = 0 /\ prop[p].status \in {"none", "draft"} /\ p # 0
  BY FirstDraft DEF Proposal
<1>2. \A h \in Handler : req[h].step = "idle"
  BY FirstDraft, NothingRead
<1>3. decision = {}
  BY DEF Init
<1> QED
  BY <1>1, <1>2, <1>3
    DEF StatusInv, Undecided, SawStatus, SubmittedWaits, RejectedStays, Decided, Refused, Judging,
      AtWork, Successor

\* Who begins to decide has read a submitted version.
LEMMA StatusStart ==
  ASSUME NumbersInv, StatusInv, NEW h \in Handler, NEW p \in Proposal, Start(h, p)
  PROVE  StatusInv'
<1>1. PICK new \in Request :
           /\ req[h].step = "idle" /\ req' = [req EXCEPT ![h] = new]
           /\ new.p = p /\ new.saw = prop[p] /\ new.step # "idle"
           /\ prop[p].status = Seen(new.step)
           /\ \/ new.step \in {"editing", "reopening"}
              \/ new.step \in {"submitting", "releasing", "checking"}
           /\ UNCHANGED <<mandatory, prop, decision, stale, mishaps>>
  BY StartEffect
<1>2. req'[h] = new /\ \A g \in Handler : g # h => req'[g] = req[g]
  BY <1>1 DEF NumbersInv, TypeOK
<1>3. Seen("checking") = "submitted" /\ Seen("reopening") = "rejected"
  BY DEF Seen
<1>4. Undecided'
  <2>1. Judging(h)' => prop[p].status = "submitted"
    BY <1>1, <1>2, <1>3 DEF Judging
  <2> QED
    BY <1>1, <1>2, <2>1 DEF StatusInv, Undecided, Judging, Decided
<1>5. SawStatus'
  BY <1>1, <1>2 DEF StatusInv, SawStatus, AtWork
<1>6. ASSUME Undisturbed', NEW q \in Proposal
      PROVE  SubmittedWaits(q)' /\ RejectedStays(q)'
  <2>1. SubmittedWaits(q) /\ RejectedStays(q)
    BY <1>1, <1>6 DEF StatusInv, Undisturbed
  <2>2. (WillReject(q) => WillReject(q)') /\ (WillTell(q) => WillTell(q)')
    BY <1>1, <1>2 DEF WillReject, WillTell
  <2>3. SubmittedWaits(q)'
    BY <1>1, <2>1, <2>2 DEF SubmittedWaits, Refused, Decided, LacksStage
  <2>4. RejectedStays(q)'
    BY <1>1, <1>2, <1>3, <2>1 DEF RejectedStays, Successor
  <2> QED
    BY <2>3, <2>4
<1> QED
  BY <1>4, <1>5, <1>6 DEF StatusInv

\* The version that was reopened is rejected, and the new one is a draft.
LEMMA StatusReopen ==
  ASSUME NumbersInv, StatusInv, NEW h \in Handler, Reopen(h)
  PROVE  StatusInv'
<1>1. /\ req[h].step = "reopening" /\ req' = [req EXCEPT ![h] = Idle]
      /\ UNCHANGED <<mandatory, decision, stale, mishaps>>
      /\ \/ prop' = prop
         \/ \E q \in Proposal, row \in Row :
              /\ prop' = [prop EXCEPT ![q] = row] /\ ~Exists(q) /\ req[h].p < q
              /\ row.status = "draft" /\ row.prev = req[h].p
  BY ReopenEffect
<1>2. /\ req'[h] = Idle /\ \A g \in Handler : g # h => req'[g] = req[g]
      /\ Idle.step = "idle" /\ req[h].p \in Proposal
      /\ prop \in [Proposal -> Row]
  BY <1>1, NothingRead DEF NumbersInv, TypeOK, AboutOne
<1>3. \A q \in Proposal : \/ prop'[q] = prop[q]
                          \/ /\ prop[q].status = "none" /\ prop'[q].status = "draft"
                             /\ prop'[q].prev = req[h].p /\ q # req[h].p
  <2> USE <1>1, <1>2
  <2>1. ASSUME NEW q \in Proposal, req[h].p < q PROVE q # req[h].p
    BY <2>1 DEF Proposal
  <2> QED
    BY <2>1 DEF Exists
<1>4. Undecided'
  BY <1>1, <1>2, <1>3 DEF StatusInv, Undecided, Judging, Decided
<1>5. SawStatus'
  BY <1>2 DEF StatusInv, SawStatus, AtWork
<1>6. ASSUME Undisturbed', NEW q \in Proposal
      PROVE  SubmittedWaits(q)' /\ RejectedStays(q)'
  <2>1. \A r \in Proposal : SubmittedWaits(r) /\ RejectedStays(r)
    BY <1>1, <1>6 DEF StatusInv, Undisturbed
  <2>2. (WillReject(q) => WillReject(q)') /\ (WillTell(q) => WillTell(q)')
    BY <1>1, <1>2 DEF WillReject, WillTell
  <2>3. SubmittedWaits(q)'
    <3>1. prop'[q].status = "submitted" => prop[q].status = "submitted"
      BY <1>3
    <3> QED
      BY <1>1, <2>1, <2>2, <3>1 DEF SubmittedWaits, Refused, Decided, LacksStage
  <2>4. RejectedStays(q)'
    <3>1. Successor(q)' => Successor(q) \/ q = req[h].p
      BY <1>3 DEF Successor
    <3>2. /\ prop[req[h].p].status = "rejected"
          /\ Successor(q) => prop[q].status = "rejected"
          /\ \A g \in Handler : req[g].step = "reopening" /\ req[g].p = q =>
               prop[q].status = "rejected"
      BY <1>1, <1>2, <2>1 DEF RejectedStays
    <3>3. prop[q].status = "rejected" => prop'[q].status = "rejected"
      BY <1>3
    <3> QED
      BY <1>2, <3>1, <3>2, <3>3 DEF RejectedStays
  <2> QED
    BY <2>3, <2>4
<1> QED
  BY <1>4, <1>5, <1>6 DEF StatusInv

\* A status that is written follows the row as it still is, or it is noticed.
LEMMA StatusHandler ==
  ASSUME NumbersInv, StatusInv, NEW h \in Handler, Step(h), ~Reopen(h)
  PROVE  StatusInv'
<1>1. PICK row \in Row, new \in Request : Effect(h, row, new)
  BY StepEffect
<1>h. AtWork(h)
  BY StepEffect
<1> DEFINE p == req[h].p
           old == prop[p]
<1>2. /\ req'[h] = new /\ \A g \in Handler : g # h => req'[g] = req[g]
      /\ prop'[p] = row /\ \A q \in Proposal : q # p => prop'[q] = prop[q]
      /\ p \in Proposal /\ Exists(p) /\ Kept(h, row, new) /\ Noticed(h, new)
      /\ mandatory' = mandatory
  BY <1>h, <1>1, Handling DEF Effect, NumbersInv, TypeOK
<1>k. \/ WritesTerms(h, row, new) \/ Renders(h, row, new) \/ Points(h, row, new)
      \/ Judges(h, row, new) \/ GoesOn(h, row, new) \/ RecordsDecision(h, row, new)
  BY <1>1 DEF Effect
<1>v. /\ Verdict = {"approved", "rejected"}
      /\ Seen("submitting") = "draft" /\ Seen("deciding") = "submitted" /\ Seen("sending") = "approved"
  BY DEF Verdict, Seen
<1>i. /\ Idle.step = "idle"
      /\ new.step # "idle" => new.p = p /\ new.saw.status = req[h].saw.status
                              /\ Seen(new.step) = Seen(req[h].step)
  BY <1>2, NothingRead DEF Kept
\* Only a judgement changes the status, and only a recorded decision the decisions.
<1>3. ~Judges(h, row, new) => row.status = old.status
  BY <1>k DEF WritesTerms, Renders, Points, GoesOn, RecordsDecision, SameRow
<1>4. ~RecordsDecision(h, row, new) => decision' = decision
  BY <1>k DEF WritesTerms, Renders, Points, Judges, GoesOn
<1>5. Judges(h, row, new) =>
        /\ new.step = "idle" /\ row.status \notin {"none", "draft"}
        /\ \/ req[h].step = "submitting" /\ row.status = "submitted"
           \/ req[h].step = "deciding" /\ row.status = req[h].next
           \/ req[h].step = "sending" /\ row.status = "released"
  BY <1>v DEF Judges, NumbersInv, NextKnown
<1>6. Judging(h)' => Judging(h)
  BY <1>2, <1>k DEF WritesTerms, Renders, Points, Judges, GoesOn, RecordsDecision, Judging
<1>7. RecordsDecision(h, row, new) =>
        /\ Judging(h) /\ req[h].step = "recording" /\ req[h].next \in Verdict
        /\ new.next = req[h].next
        /\ new.step = IF req[h].next = "rejected" THEN "deciding" ELSE "counting"
        /\ \A d \in decision' : d \in decision \/ (d.p = p /\ d.verdict = req[h].next)
        /\ decision \subseteq decision'
  BY DEF RecordsDecision, Judging, NumbersInv, NextKnown
<1>8. Undecided'
  <2> SUFFICES ASSUME NEW q \in Proposal, prop'[q].status \in {"none", "draft"}
               PROVE  ~Decided(q)' /\ \A g \in Handler : Judging(g)' => req'[g].p # q
    BY DEF Undecided
  <2>1. prop[q].status \in {"none", "draft"}
    BY <1>2, <1>3, <1>5
  <2>2. ~Decided(q) /\ \A g \in Handler : Judging(g) => req[g].p # q
    BY <2>1 DEF StatusInv, Undecided
  <2>3. Judging(h) => q # p
    BY <2>2
  <2>4. ~Decided(q)'
    BY <1>4, <1>7, <2>2, <2>3 DEF Decided
  <2>5. ASSUME NEW g \in Handler, Judging(g)' PROVE req'[g].p # q
    <3>1. CASE g = h
      <4>1. new.step # "idle"
        BY <1>2, <2>5, <3>1 DEF Judging
      <4> QED
        BY <1>2, <1>6, <1>i, <2>3, <2>5, <3>1, <4>1
    <3>2. CASE g # h
      BY <1>2, <2>2, <2>5, <3>2 DEF Judging
    <3> QED
      BY <3>1, <3>2
  <2> QED
    BY <2>4, <2>5
<1>9. SawStatus'
  BY <1>h, <1>2, <1>i DEF StatusInv, SawStatus, AtWork
<1>10. ASSUME Undisturbed', NEW q \in Proposal
       PROVE  SubmittedWaits(q)' /\ RejectedStays(q)'
  <2>1. Undisturbed /\ SubmittedWaits(q) /\ RejectedStays(q)
    BY <1>2, <1>10 DEF StatusInv, Undisturbed, Noticed
  <2>2. Judges(h, row, new) => old.status = Seen(req[h].step)
    BY <1>h, <1>2, <1>10, <1>5 DEF Noticed, Undisturbed, StatusInv, SawStatus
  <2>3. SubmittedWaits(q)'
    <3> SUFFICES ASSUME prop'[q].status = "submitted"
                 PROVE  /\ Refused(q)' => WillReject(q)'
                        /\ Decided(q)' => LacksStage(q)' \/ WillTell(q)'
      BY DEF SubmittedWaits
    <3>1. CASE q = p /\ Judges(h, row, new) /\ req[h].step = "submitting"
      <4>1. prop[q].status = "draft"
        BY <1>v, <2>2, <3>1
      <4>2. ~Decided(q)
        BY <4>1 DEF StatusInv, Undecided
      <4>3. decision' = decision
        BY <3>1 DEF Judges
      <4> QED
        BY <4>2, <4>3 DEF Decided, Refused
    <3>2. CASE q = p /\ RecordsDecision(h, row, new)
      <4>1. prop[q].status = "submitted"
        BY <1>2, <3>2 DEF RecordsDecision, SameRow
      <4>2. WillTell(q)'
        BY <1>2, <1>7, <1>i, <3>2 DEF WillTell
      <4>3. req[h].next = "rejected" => WillReject(q)'
        BY <1>2, <1>7, <1>i, <3>2 DEF WillReject
      <4>4. WillReject(q) => WillReject(q)'
        BY <1>2, <1>7, <3>2 DEF WillReject
      <4>5. Refused(q)' => Refused(q) \/ req[h].next = "rejected"
        BY <1>7, <3>2 DEF Refused
      <4> QED
        BY <2>1, <4>1, <4>2, <4>3, <4>4, <4>5 DEF SubmittedWaits
    <3>3. CASE q = p /\ req[h].step = "counting"
      <4>1. /\ GoesOn(h, row, new) /\ new.step = "deciding"
            /\ new.next = IF AllRequired(p) THEN "approved" ELSE "submitted"
        BY <1>k, <3>3 DEF WritesTerms, Renders, Points, Judges, GoesOn, RecordsDecision
      <4>2. decision' = decision /\ prop[q].status = "submitted"
        BY <1>2, <3>3, <4>1 DEF GoesOn, SameRow
      <4>3. WillReject(q) => WillReject(q)'
        BY <1>2, <3>3 DEF WillReject
      <4>4. AllRequired(p) => WillTell(q)'
        BY <1>2, <1>i, <1>v, <3>3, <4>1 DEF WillTell
      <4>5. ~AllRequired(p) => LacksStage(q)'
        <5>1. decision \subseteq Decision
          BY DEF NumbersInv, TypeOK
        <5>2. ASSUME NEW d \in Decision
              PROVE  d = [p |-> d.p, stage |-> d.stage, verdict |-> d.verdict]
          BY DEF Decision
        <5> QED
          BY <1>2, <3>3, <4>2, <5>1, <5>2 DEF AllRequired, Approves, LacksStage
      <4> QED
        BY <2>1, <4>2, <4>3, <4>4, <4>5 DEF SubmittedWaits, Refused
    <3>4. CASE q = p /\ Judges(h, row, new) /\ req[h].step # "submitting"
      <4>1. req[h].step = "deciding" /\ req[h].next = "submitted" /\ decision' = decision
        BY <1>2, <1>5, <3>4 DEF Judges
      <4>2. prop[q].status = "submitted"
        BY <1>v, <2>2, <3>4, <4>1
      <4>3. (WillReject(q) => WillReject(q)') /\ (WillTell(q) => WillTell(q)')
        BY <1>2, <1>v, <4>1 DEF WillReject, WillTell
      <4> QED
        BY <1>2, <2>1, <4>1, <4>2, <4>3 DEF SubmittedWaits, Refused, Decided, LacksStage
    <3>5. CASE q # p \/ ~(Judges(h, row, new) \/ RecordsDecision(h, row, new) \/ req[h].step = "counting")
      <4>1. prop[q].status = "submitted"
        BY <1>2, <1>3, <3>5
      <4>2. \A d \in decision' : d.p = q => d \in decision
        BY <1>4, <1>7, <3>5
      <4>3. (WillReject(q) => WillReject(q)') /\ (WillTell(q) => WillTell(q)')
        <5>1. req[h].p = q => req[h].step \notin {"deciding", "counting"}
          BY <1>k, <3>5 DEF WritesTerms, Renders, Points, GoesOn
        <5> QED
          BY <1>2, <5>1 DEF WillReject, WillTell
      <4>4. LacksStage(q) => LacksStage(q)'
        BY <1>2, <4>2 DEF LacksStage
      <4> QED
        BY <2>1, <4>1, <4>2, <4>3, <4>4 DEF SubmittedWaits, Refused, Decided
    <3> QED
      BY <3>1, <3>2, <3>3, <3>4, <3>5
  <2>4. RejectedStays(q)'
    <3>1. Successor(q)' => Successor(q)
      BY <1>2 DEF Kept, Successor
    <3>2. ASSUME NEW g \in Handler, req'[g].step = "reopening"
          PROVE  req[g] = req'[g]
      <4>1. g # h
        BY <1>2, <1>k, <3>2
          DEF WritesTerms, Renders, Points, Judges, GoesOn, RecordsDecision
      <4> QED
        BY <1>2, <4>1
    <3>3. prop[q].status = "rejected" => prop'[q].status = "rejected"
      BY <1>2, <1>3, <1>5, <1>v, <2>2
    <3> QED
      BY <2>1, <3>1, <3>2, <3>3 DEF RejectedStays
  <2> QED
    BY <2>3, <2>4
<1> QED
  BY <1>8, <1>9, <1>10 DEF StatusInv

\* The statuses survive every step.
LEMMA StatusStep == NumbersInv /\ StatusInv /\ [Next]_vars => StatusInv'
<1> SUFFICES ASSUME NumbersInv, StatusInv, [Next]_vars PROVE StatusInv'
  OBVIOUS
<1>1. ASSUME NEW h \in Handler, Step(h) PROVE StatusInv'
  BY <1>1, StatusHandler, StatusReopen
<1>2. ASSUME NEW h \in Handler, NEW p \in Proposal, Start(h, p) PROVE StatusInv'
  BY <1>2, StatusStart
<1>3. ASSUME UNCHANGED <<mandatory, req, decision, stale, mishaps>>,
             \A q \in Proposal : prop'[q].status = prop[q].status /\ prop'[q].prev = prop[q].prev
      PROVE  StatusInv'
  BY <1>3
    DEF StatusInv, Undecided, SawStatus, SubmittedWaits, RejectedStays, Undisturbed, Judging,
      AtWork, Decided, Refused, WillReject, WillTell, LacksStage, Successor
<1>4. ASSUME NEW p \in Proposal, NEW answer \in {"accepted", "declined"}, ClientDecision(p, answer)
      PROVE  StatusInv'
  BY <1>3, <1>4 DEF ClientDecision, NumbersInv, TypeOK, Row
<1>5. CASE Crash
  <2>1. /\ \A g \in Handler : req'[g] = Idle
        /\ UNCHANGED <<prop, decision>> /\ mishaps' # 0
    BY <1>5 DEF Crash, NumbersInv, TypeOK
  <2> QED
    BY <2>1, NothingRead
      DEF StatusInv, Undecided, SawStatus, Undisturbed, Judging, AtWork, Decided
<1>6. CASE UNCHANGED vars
  BY <1>3, <1>6 DEF vars
<1> QED
  BY <1>1, <1>2, <1>4, <1>5, <1>6 DEF Next

\* While no handler writes over what it did not know, crashes or fails to render: what waits
\* for a decision lacks one and has no rejection, unless a handler is about to say so, and a
\* version with a successor stays rejected (routes/approvals.ts, canReopenProposal).
THEOREM DecisionsAreFollowed == Spec => []StatusFollowsDecisions
<1>1. NumbersInv /\ StatusInv => StatusFollowsDecisions
  <2> SUFFICES ASSUME NumbersInv, StatusInv, Undisturbed, NEW p \in Proposal
               PROVE  /\ prop[p].status = "submitted" /\ ~Deciding(p) =>
                           /\ \A d \in decision : d.p = p => d.verdict = "approved"
                           /\ (\E d \in decision : d.p = p) => LacksStage(p)
                      /\ (\E q \in Proposal : prop[q].prev = p) => prop[p].status = "rejected"
    BY DEF StatusFollowsDecisions
  <2>1. SubmittedWaits(p) /\ RejectedStays(p)
    BY DEF StatusInv
  <2>2. ~Deciding(p) => ~WillReject(p) /\ ~WillTell(p)
    BY DEF Deciding, WillReject, WillTell, On
  <2>3. \A d \in decision : d.verdict \in {"approved", "rejected"}
    BY DEF NumbersInv, TypeOK, Decision, Verdict
  <2> QED
    BY <2>1, <2>2, <2>3 DEF SubmittedWaits, RejectedStays, Refused, Decided, Successor
<1> QED
  BY <1>1, NumbersInit, NumbersStep, StatusInit, StatusStep, PTL DEF Spec

-----------------------------------------------------------------------------
(* The versions, and what is not taken back *)

\* The proposal has one line of versions, numbered one after the other.
OneLine ==
  \A q \in Proposal :
    IF Exists(q) THEN prop[q].prev = q - 1 /\ prop[q].version = q ELSE prop[q].prev = 0

\* A handler knows the number of its version.
SawVersion == \A h \in Handler : AtWork(h) => req[h].saw.version = req[h].p

\* Nothing that was decided is taken back: neither a decision of a stage, nor the answer of
\* the client, and what left the drafts does not become one again.
DecisionsStand ==
  /\ decision \subseteq decision'
  /\ \A p \in Proposal : Exists(p) =>
       /\ prop[p].status # "draft" => prop'[p].status \notin {"none", "draft"}
       /\ prop[p].client # "none" => prop'[p].client = prop[p].client

\* A version stays one, and out of the drafts once it left them.
LEMMA StatusForward ==
  ASSUME NumbersInv, NEW h \in Handler, NEW row \in Row, NEW new \in Request, AtWork(h),
         Effect(h, row, new)
  PROVE  /\ row.status # "none"
         /\ prop[req[h].p].status # "draft" => row.status # "draft"
<1>1. prop[req[h].p].status # "none"
  BY Handling DEF Exists
<1> QED
  BY <1>1
    DEF Effect, WritesTerms, Renders, Points, Judges, GoesOn, RecordsDecision, SameRow,
      NumbersInv, NextKnown, Verdict

\* Who reopens a version without a successor reopens the last one.
LEMMA OneLineStep ==
  NumbersInv /\ OneLine /\ SawVersion /\ [Next]_vars => OneLine' /\ SawVersion'
<1> SUFFICES ASSUME NumbersInv, OneLine, SawVersion, [Next]_vars PROVE OneLine' /\ SawVersion'
  OBVIOUS
<1>t. prop \in [Proposal -> Row] /\ req \in [Handler -> Request]
  BY DEF NumbersInv, TypeOK
\* The rows keep their place and their number.
<1>s. ASSUME \A q \in Proposal : /\ prop'[q].prev = prop[q].prev
                                 /\ prop'[q].version = prop[q].version
                                 /\ Exists(q)' <=> Exists(q)
      PROVE  OneLine'
  BY <1>s DEF OneLine
<1>1. ASSUME NEW h \in Handler, NEW p \in Proposal, Start(h, p) PROVE OneLine' /\ SawVersion'
  <2>1. PICK new \in Request :
          /\ req' = [req EXCEPT ![h] = new] /\ new.p = p /\ new.saw = prop[p]
          /\ prop[p].status = Seen(new.step) /\ prop' = prop
    BY <1>1, StartEffect
  <2>2. Exists(p)
    BY <2>1 DEF Seen, Exists
  <2>3. OneLine'
    BY <1>s, <2>1 DEF Exists
  <2>4. SawVersion'
    BY <1>t, <2>1, <2>2 DEF OneLine, SawVersion, AtWork
  <2> QED
    BY <2>3, <2>4
<1>2. ASSUME NEW h \in Handler, Step(h), ~Reopen(h) PROVE OneLine' /\ SawVersion'
  <2>1. AtWork(h)
    BY <1>2, StepEffect
  <2>2. PICK row \in Row, new \in Request :
          /\ prop' = [prop EXCEPT ![req[h].p] = row] /\ req' = [req EXCEPT ![h] = new]
          /\ Kept(h, row, new) /\ row.status # "none"
    BY <1>2, StepEffect, StatusForward DEF Effect
  <2>3. req[h].p \in Proposal /\ Exists(req[h].p)
    BY <2>1, Handling
  <2>4. prop'[req[h].p].status # "none"
    BY <1>t, <2>2, <2>3
  <2>5. OneLine'
    BY <1>s, <1>t, <2>2, <2>3, <2>4 DEF Kept, Exists
  <2>6. SawVersion'
    BY <1>t, <2>1, <2>2 DEF Kept, SawVersion, AtWork
  <2> QED
    BY <2>5, <2>6
<1>3. ASSUME NEW h \in Handler, Reopen(h) PROVE OneLine' /\ SawVersion'
  <2>1. /\ req[h].step = "reopening" /\ req' = [req EXCEPT ![h] = Idle]
        /\ \/ prop' = prop
           \/ \E q \in Proposal, row \in Row :
                /\ prop' = [prop EXCEPT ![q] = row]
                /\ ~Exists(q) /\ req[h].p < q /\ ~Successor(req[h].p)
                /\ \A o \in Proposal : o < q => Exists(o)
                /\ row.status = "draft" /\ row.prev = req[h].p
                /\ row.version = req[h].saw.version + 1
    BY <1>3, ReopenEffect
  <2>2. SawVersion'
    BY <1>t, <2>1, NothingRead DEF SawVersion, AtWork
  <2>3. ASSUME NEW q \in Proposal, NEW row \in Row, prop' = [prop EXCEPT ![q] = row],
               req[h].p < q, ~Successor(req[h].p), \A o \in Proposal : o < q => Exists(o),
               row.status = "draft", row.prev = req[h].p, row.version = req[h].saw.version + 1
        PROVE  OneLine'
    <3> DEFINE p == req[h].p
    <3>1. p \in Proposal /\ row.version = p + 1
      BY <2>1, <2>3 DEF NumbersInv, AboutOne, SawVersion, AtWork
    <3>2. p = q - 1
      <4> SUFFICES ASSUME p + 1 < q PROVE FALSE
        BY <2>3, <3>1 DEF Proposal
      <4>1. p + 1 \in Proposal /\ Exists(p + 1)
        <5>1. MaxVersions \in Nat /\ p \in 1..MaxVersions /\ q \in 1..MaxVersions
          BY <3>1, ProposalBounds DEF Proposal, ProposalBounds
        <5>2. p + 1 \in Proposal
          BY <5>1 DEF Proposal
        <5> QED
          BY <2>3, <5>2
      <4>2. prop[p + 1].prev = p
        BY <3>1, <4>1 DEF OneLine, Proposal
      <4> QED
        BY <2>3, <4>1, <4>2 DEF Successor
    <3>3. row.prev = q - 1 /\ row.version = q
      BY <2>3, <3>1, <3>2 DEF Proposal
    <3> QED
      BY <1>t, <2>3, <3>3 DEF OneLine, Exists
  <2>4. prop' = prop => OneLine'
    BY <1>s DEF Exists
  <2> QED
    BY <2>1, <2>2, <2>3, <2>4
<1>4. ASSUME NEW p \in Proposal, NEW answer \in {"accepted", "declined"}, ClientDecision(p, answer)
      PROVE  OneLine' /\ SawVersion'
  <2>1. \A q \in Proposal : /\ prop'[q].prev = prop[q].prev
                            /\ prop'[q].version = prop[q].version
                            /\ prop'[q].status = prop[q].status
    BY <1>4, <1>t DEF ClientDecision, Row
  <2> QED
    BY <1>4, <1>s, <2>1 DEF ClientDecision, SawVersion, AtWork, Exists
<1>5. CASE Crash \/ UNCHANGED vars
  <2>1. prop' = prop /\ ((\A g \in Handler : req'[g] = Idle) \/ req' = req)
    BY <1>5 DEF Crash, vars
  <2>2. OneLine'
    BY <1>s, <2>1 DEF Exists
  <2> QED
    BY <2>1, <2>2, NothingRead DEF SawVersion, AtWork
<1> QED
  BY <1>1, <1>2, <1>3, <1>4, <1>5 DEF Next

\* Whoever reopens it at once, and whatever they had read, the versions are one line: each
\* succeeds the one before, and has the next number (POST .../reopen, the unique index).
THEOREM VersionsAreOneLine == Spec => []OneLine
<1>1. Init => OneLine /\ SawVersion
  <2> SUFFICES ASSUME Init PROVE OneLine /\ SawVersion
    OBVIOUS
  <2>1. \A h \in Handler : req[h].step = "idle"
    BY FirstDraft, NothingRead
  <2> QED
    BY <2>1, FirstDraft DEF OneLine, SawVersion, AtWork, Exists, Proposal
<1> QED
  BY <1>1, NumbersInit, NumbersStep, OneLineStep, PTL DEF Spec

\* However late a handler writes, it takes nothing back that was decided meanwhile: no
\* stage's decision, no client's answer, and no version goes back to a draft.
THEOREM NothingTakenBack == Spec => [][DecisionsStand]_vars
<1>1. NumbersInv /\ [Next]_vars => [DecisionsStand]_vars
  <2> SUFFICES ASSUME NumbersInv, Next PROVE DecisionsStand
    BY DEF vars
  <2>t. prop \in [Proposal -> Row]
    BY DEF NumbersInv, TypeOK
  <2>1. ASSUME NEW h \in Handler, NEW p \in Proposal, Start(h, p) PROVE DecisionsStand
    BY <2>1, StartEffect DEF DecisionsStand, Exists
  <2>2. ASSUME NEW h \in Handler, Step(h), ~Reopen(h) PROVE DecisionsStand
    <3>1. PICK row \in Row, new \in Request : Effect(h, row, new)
      BY <2>2, StepEffect
    <3>2. /\ prop' = [prop EXCEPT ![req[h].p] = row]
          /\ decision \subseteq decision'
      BY <3>1
        DEF Effect, WritesTerms, Renders, Points, Judges, GoesOn, RecordsDecision
    <3>3. /\ row.status # "none"
          /\ prop[req[h].p].status # "draft" => row.status # "draft"
      BY <2>2, <3>1, StepEffect, StatusForward
    <3>4. \A p \in Proposal : prop'[p].client = prop[p].client
      BY <2>2, <2>t
        DEF Step, EditTerms, EditRender, EditFails, EditPoint, Submit, DecideCheck, DecideRecord,
          DecideCount, Decide, ReleaseCheck, Release, Writes, On, Row
    <3> QED
      BY <2>t, <3>2, <3>3, <3>4 DEF DecisionsStand, Exists
  <2>3. ASSUME NEW h \in Handler, Reopen(h) PROVE DecisionsStand
    <3>1. decision' = decision /\ \A p \in Proposal : Exists(p) => prop'[p] = prop[p]
      <4>1. /\ decision' = decision
            /\ \/ prop' = prop
               \/ \E q \in Proposal, row \in Row :
                    prop' = [prop EXCEPT ![q] = row] /\ ~Exists(q)
        BY <2>3, ReopenEffect
      <4> QED
        BY <2>t, <4>1
    <3> QED
      BY <3>1 DEF DecisionsStand, Exists
  <2>4. ASSUME NEW p \in Proposal, NEW answer \in {"accepted", "declined"}, ClientDecision(p, answer)
        PROVE  DecisionsStand
    BY <2>4, <2>t DEF ClientDecision, MayAnswer, DecisionsStand, Row, Exists
  <2>5. CASE Crash
    BY <2>5 DEF Crash, DecisionsStand, Exists
  <2> QED
    BY <2>1, <2>2, <2>3, <2>4, <2>5 DEF Next
<1> QED
  BY <1>1, NumbersInit, NumbersStep, PTL DEF Spec

=============================================================================
