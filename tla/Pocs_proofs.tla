----------------------------- MODULE Pocs_proofs -----------------------------
(***************************************************************************)
(* The proof of concept, for any number of requests, questions and         *)
(* entries.  The lock reads the status before the handler runs, so that    *)
(* what it protects rests on who is in flight: while the POC is completed, *)
(* every request in flight that was not let in before is one of the three  *)
(* exempt ones (OnlyExemptSince), and those write neither the work nor the *)
(* signed document.                                                        *)
(***************************************************************************)
EXTENDS Pocs, TLAPS

CompletedExists == poc.status = "completed" => poc.exists

OnlyExemptSince ==
  poc.status = "completed" =>
    \A h \in PocHandler : pocReq[h].op \in Exempt \cup {"idle"} \/ h \in before

\* What a request is about fits what it does.
Fits ==
  \A h \in PocHandler :
    /\ pocReq[h].op \in {"edit", "drop"} => pocReq[h].on \in Item
    /\ pocReq[h].op \in {"note", "create"} => pocReq[h].on \in Entry
    /\ pocReq[h].op \in {"decide", "finalize"} => pocReq[h].on \in PocDecision
    /\ pocReq[h].op = "update" => pocReq[h].on \in {"open", "completed"}

IInv == PocTypeOK /\ Fits /\ CompletedExists /\ OnlyExemptSince

\* A POC that was just created has nobody in flight.
LEMMA InitInv == PocInit => IInv
<1> SUFFICES ASSUME PocInit PROVE IInv
  OBVIOUS
<1>1. PocIdle \in PocRequest
  BY DEF PocIdle, PocRequest, Op, Value
<1>2. PocTypeOK
  BY <1>1
  DEF PocInit, PocTypeOK, Poc, Acceptance, NoAcceptance, PocDecision, Progress, Item, PocIdle
<1>3. Fits /\ CompletedExists /\ OnlyExemptSince
  BY DEF PocInit, Fits, CompletedExists, OnlyExemptSince, PocIdle
<1> QED
  BY <1>2, <1>3 DEF IInv

-----------------------------------------------------------------------------
(* A request is let in *)

\* Being let in keeps the invariant: a completed POC lets only the exempt routes in.
LEMMA EnterInv ==
  ASSUME IInv, NEW h \in PocHandler, NEW op \in Op \ {"idle", "drafting"}, NEW on \in Value,
         op \in {"edit", "drop"} => on \in Item,
         op \in {"note", "create"} => on \in Entry,
         op \in {"decide", "finalize"} => on \in PocDecision,
         op = "update" => on \in {"open", "completed"},
         Enters(h, op, on)
  PROVE  IInv'
<1>1. PocTypeOK'
  BY DEF IInv, PocTypeOK, Enters, PocRequest, PocIdle
<1>2. Fits'
  BY DEF IInv, Fits, PocTypeOK, Enters, PocRequest
<1>3. CompletedExists' /\ OnlyExemptSince'
  BY DEF IInv, CompletedExists, OnlyExemptSince, PocTypeOK, Enters, LetIn, PocRequest
<1> QED
  BY <1>1, <1>2, <1>3 DEF IInv

\* One of the requests is let in.
Asks(h) ==
  \/ \E i \in Item : AskEdit(h, i) \/ AskNote(h, i) \/ AskCreate(h, i) \/ AskDrop(h, i)
  \/ AskGenerate(h) \/ AskDecide(h) \/ AskFinalize(h) \/ AskApprove(h) \/ AskSign(h)
  \/ AskUpdate(h) \/ AskArchive(h) \/ AskRemove(h)

\* Every request asks for what exists, and is let in or refused.
LEMMA AskInv ==
  ASSUME IInv, NEW h \in PocHandler, Asks(h)
  PROVE  IInv' /\ UNCHANGED <<poc, acc, work>>
<1>1. ASSUME NEW i \in Item, AskEdit(h, i) \/ AskNote(h, i) \/ AskCreate(h, i) \/ AskDrop(h, i)
      PROVE IInv' /\ UNCHANGED <<poc, acc, work>>
  BY <1>1, EnterInv DEF AskEdit, AskNote, AskCreate, AskDrop, Op, Value, Enters
<1>2. ASSUME AskGenerate(h) \/ AskApprove(h) \/ AskSign(h) \/ AskRemove(h)
      PROVE IInv' /\ UNCHANGED <<poc, acc, work>>
  BY <1>2, EnterInv DEF AskGenerate, AskApprove, AskSign, AskRemove, Op, Value, Enters
<1>3. ASSUME AskDecide(h) \/ AskFinalize(h) PROVE IInv' /\ UNCHANGED <<poc, acc, work>>
  BY <1>3, EnterInv DEF AskDecide, AskFinalize, Op, Value, PocDecision, Enters
<1>4. ASSUME AskUpdate(h) \/ AskArchive(h) PROVE IInv' /\ UNCHANGED <<poc, acc, work>>
  BY <1>4, EnterInv DEF AskUpdate, AskArchive, Op, Value, Enters
<1> QED
  BY <1>1, <1>2, <1>3, <1>4 DEF Asks

-----------------------------------------------------------------------------
(* A handler ends, or writes *)

\* A handler that leaves the row of the POC alone and ends keeps what is known of the others.
LEMMA EndInv ==
  ASSUME IInv, NEW h \in PocHandler, PocEnds(h), poc' = poc
  PROVE  /\ pocReq' \in [PocHandler -> PocRequest]
         /\ before' \subseteq {g \in PocHandler : pocReq'[g].op # "idle"}
         /\ Fits' /\ CompletedExists' /\ OnlyExemptSince'
<1>1. PocIdle \in PocRequest
  BY DEF PocIdle, PocRequest, Op, Value
<1>2. /\ pocReq' \in [PocHandler -> PocRequest]
     /\ before' \subseteq {g \in PocHandler : pocReq'[g].op # "idle"}
  BY <1>1 DEF IInv, PocTypeOK, PocEnds
<1>3. Fits' /\ CompletedExists' /\ OnlyExemptSince'
  BY DEF IInv, PocTypeOK, Fits, CompletedExists, OnlyExemptSince, PocEnds, PocIdle
<1> QED
  BY <1>2, <1>3

\* What ends and changes only the work of a POC that is there.
LEMMA WorkInv ==
  ASSUME IInv, NEW h \in PocHandler, PocEnds(h), UNCHANGED <<poc, acc>>,
         work' \in [Item -> Progress], \A e \in Entry : work'[e] # "blank",
         \A q \in Question : work'[q] # "noted",
         poc.exists \/ work' = work \/ work' = [i \in Item |-> "absent"]
  PROVE  IInv'
BY EndInv DEF IInv, PocTypeOK

\* What ends and changes only the acceptance of a POC that is there.
LEMMA AcceptanceInv ==
  ASSUME IInv, NEW h \in PocHandler, PocEnds(h), UNCHANGED <<poc, work>>,
         acc' \in Acceptance, poc.exists
  PROVE  IInv'
BY EndInv DEF IInv, PocTypeOK

\* Every step of every request keeps the invariant.
LEMMA StepInv ==
  ASSUME IInv, [PocNext]_pocVars
  PROVE  IInv'
<1>1. CASE UNCHANGED pocVars
  BY <1>1 DEF pocVars, IInv, PocTypeOK, Fits, CompletedExists, OnlyExemptSince
<1>2. ASSUME NEW h \in PocHandler, Asks(h) PROVE IInv'
  BY <1>2, AskInv
<1>3. ASSUME NEW h \in PocHandler, Edit(h) PROVE IInv'
  <2>1. /\ work' \in [Item -> Progress] /\ \A e \in Entry : work'[e] # "blank"
        /\ \A q \in Question : work'[q] # "noted"
    BY <1>3, QuestionsAreNoEntries DEF Edit, IInv, PocTypeOK, Progress, Item, PocOn
  <2>2. poc.exists \/ work' = work
    BY <1>3 DEF Edit, IInv, PocTypeOK, Fits, PocAt, PocOn
  <2> QED
    BY <1>3, <2>1, <2>2, WorkInv DEF Edit
<1>4. ASSUME NEW h \in PocHandler, Create(h) \/ Note(h) PROVE IInv'
  <2>1. CASE Create(h)
    BY <2>1, WorkInv DEF Create, MayCreate, IInv, PocTypeOK, Fits, Progress, Item, PocAt, PocOn
  <2>2. CASE Note(h)
    <3>1. /\ work' \in [Item -> Progress] /\ \A e \in Entry : work'[e] # "blank"
          /\ \A q \in Question : work'[q] # "noted"
      BY <2>2, QuestionsAreNoEntries DEF Note, IInv, PocTypeOK, Fits, Progress, Item, PocAt, PocOn
    <3>2. poc.exists \/ work' = work
      BY <2>2 DEF Note, IInv, PocTypeOK, Fits, Item, PocAt, PocOn
    <3> QED
      BY <2>2, <3>1, <3>2, WorkInv DEF Note
  <2> QED
    BY <1>4, <2>1, <2>2
<1>5. ASSUME NEW h \in PocHandler, Drop(h) PROVE IInv'
  <2>1. /\ work' \in [Item -> Progress] /\ \A e \in Entry : work'[e] # "blank"
        /\ \A q \in Question : work'[q] # "noted"
    BY <1>5 DEF Drop, IInv, PocTypeOK, Progress, Item
  <2>2. poc.exists \/ work' = work
    BY <1>5 DEF Drop, IInv, PocTypeOK, Fits, PocAt, PocOn
  <2> QED
    BY <1>5, <2>1, <2>2, WorkInv DEF Drop
<1>6. ASSUME NEW h \in PocHandler, Regenerate(h) PROVE IInv'
  <2>1. /\ work' \in [Item -> Progress] /\ \A e \in Entry : work'[e] # "blank"
        /\ \A q \in Question : work'[q] # "noted"
    BY <1>6 DEF Regenerate, Regenerated, IInv, PocTypeOK, Progress, Item
  <2>2. work = [i \in Item |-> "absent"] => work' = work
    BY <1>6 DEF Regenerate, Regenerated
  <2>3. /\ pocReq' \in [PocHandler -> PocRequest]
        /\ before \subseteq {g \in PocHandler : pocReq'[g].op # "idle"}
    BY <1>6 DEF Regenerate, IInv, PocTypeOK, PocRequest, Op
  <2>4. Fits' /\ CompletedExists' /\ OnlyExemptSince'
    BY <1>6
    DEF Regenerate, PocAt, IInv, PocTypeOK, Fits, CompletedExists, OnlyExemptSince, Exempt,
        PocRequest
  <2> QED
    BY <1>6, <2>1, <2>2, <2>3, <2>4 DEF Regenerate, IInv, PocTypeOK
<1>7. ASSUME NEW h \in PocHandler, Draft(h) PROVE IInv'
  <2>1. /\ work' \in [Item -> Progress] /\ \A e \in Entry : work'[e] # "blank"
        /\ \A q \in Question : work'[q] # "noted"
    BY <1>7 DEF Draft, IInv, PocTypeOK, Progress, Item, Kind
  <2>2. poc.exists /\ UNCHANGED <<poc, acc, pocReq, before>>
    BY <1>7 DEF Draft, MayCreate
  <2> QED
    BY <2>1, <2>2 DEF IInv, PocTypeOK, Fits, CompletedExists, OnlyExemptSince
<1>8. ASSUME NEW h \in PocHandler, PocDecide(h) \/ Finalize(h) \/ Sign(h) PROVE IInv'
  <2>1. CASE PocDecide(h) \/ Finalize(h)
    <3>1. pocReq[h].on \in PocDecision /\ acc \in Acceptance
      BY <2>1 DEF PocDecide, Finalize, PocAt, IInv, PocTypeOK, Fits
    <3>2. acc' \in Acceptance
      BY <2>1, <3>1 DEF PocDecide, Finalize, Acceptance, PocOn
    <3> QED
      BY <2>1, <3>2, AcceptanceInv DEF PocDecide, Finalize
  <2>2. CASE Sign(h)
    <3>1. acc' \in Acceptance
      BY <2>2 DEF Sign, IInv, PocTypeOK, Acceptance
    <3> QED
      BY <2>2, <3>1, AcceptanceInv DEF Sign
  <2> QED
    BY <1>8, <2>1, <2>2
<1>9. ASSUME NEW h \in PocHandler, Approve(h) \/ Update(h) PROVE IInv'
  <2>1. /\ poc' \in Poc /\ acc' \in Acceptance /\ work' = work
        /\ poc.exists /\ poc'.exists
    BY <1>9 DEF Approve, Update, IInv, PocTypeOK, Poc, Acceptance, Fits, PocAt, PocOn
  <2>2. PocIdle \in PocRequest
    BY DEF PocIdle, PocRequest, Op, Value
  <2>3. /\ pocReq' = [pocReq EXCEPT ![h] = PocIdle] /\ pocReq' \in [PocHandler -> PocRequest]
        /\ before' \subseteq {g \in PocHandler : pocReq'[g].op # "idle"}
    BY <1>9, <2>2 DEF Approve, Update, Completes, InFlight, IInv, PocTypeOK
  <2>4. Fits'
    BY <2>3 DEF IInv, PocTypeOK, Fits, PocIdle
  <2>5. OnlyExemptSince'
    <3>1. CASE poc'.status = "completed"
      <4>1. before' = (IF poc.status = "completed" THEN before ELSE InFlight) \ {h}
        BY <1>9, <3>1, <2>1 DEF Approve, Update, Completes, IInv, PocTypeOK, Poc, Fits, PocAt, PocOn
      <4> QED
        BY <2>3, <4>1 DEF IInv, PocTypeOK, OnlyExemptSince, InFlight, Exempt, PocIdle
    <3> QED
      BY <3>1 DEF OnlyExemptSince
  <2> QED
    BY <2>1, <2>3, <2>4, <2>5 DEF IInv, PocTypeOK, CompletedExists
<1>10. ASSUME NEW h \in PocHandler, Archive(h) PROVE IInv'
  <2>1. poc' \in Poc /\ poc'.exists /\ poc'.status = poc.status /\ poc.exists
    BY <1>10 DEF Archive, IInv, PocTypeOK, Poc
  <2>2. PocIdle \in PocRequest
    BY DEF PocIdle, PocRequest, Op, Value
  <2>3. /\ pocReq' \in [PocHandler -> PocRequest]
       /\ before' \subseteq {g \in PocHandler : pocReq'[g].op # "idle"}
    BY <1>10, <2>2 DEF Archive, PocEnds, IInv, PocTypeOK
  <2>4. Fits' /\ OnlyExemptSince'
    BY <1>10, <2>1 DEF Archive, PocEnds, PocIdle, IInv, PocTypeOK, Fits, OnlyExemptSince
  <2> QED
    BY <1>10, <2>1, <2>3, <2>4 DEF Archive, IInv, PocTypeOK, CompletedExists
<1>11. ASSUME NEW h \in PocHandler, Remove(h) PROVE IInv'
  <2>1. PocIdle \in PocRequest
    BY DEF PocIdle, PocRequest, Op, Value
  <2>2. /\ pocReq' \in [PocHandler -> PocRequest]
       /\ before' \subseteq {g \in PocHandler : pocReq'[g].op # "idle"}
    BY <1>11, <2>1 DEF Remove, PocEnds, IInv, PocTypeOK
  <2>3. Fits' /\ CompletedExists' /\ OnlyExemptSince'
    BY <1>11 DEF Remove, PocEnds, PocIdle, IInv, PocTypeOK, Fits, CompletedExists, OnlyExemptSince
  <2>4. poc' \in Poc /\ acc' = NoAcceptance /\ acc' \in Acceptance
        /\ work' = [i \in Item |-> "absent"]
    BY <1>11 DEF Remove, Poc, Acceptance, NoAcceptance, PocDecision
  <2>5. /\ work' \in [Item -> Progress] /\ \A e \in Entry : work'[e] # "blank"
        /\ \A q \in Question : work'[q] # "noted"
    BY <2>4 DEF Progress, Item
  <2> QED
    BY <2>2, <2>3, <2>4, <2>5 DEF IInv, PocTypeOK
<1>12. ASSUME NEW h \in PocHandler, Stop(h) PROVE IInv'
  BY <1>12, WorkInv DEF Stop, IInv, PocTypeOK
<1> QED
  BY <1>1, <1>2, <1>3, <1>4, <1>5, <1>6, <1>7, <1>8, <1>9, <1>10, <1>11, <1>12 DEF PocNext, Asks

\* The types of a proof of concept hold, and while it is completed no request in flight is
\* one that the lock refuses, but for those let in before (routes/pocs.ts, the lock).
THEOREM LockHolds == PocSpec => []IInv
BY InitInv, StepInv, PTL DEF PocSpec

\* Every reachable state of a proof of concept is of its type, and of one that was deleted
\* no acceptance and no work is left (deletePoc), for any requests, questions and entries.
THEOREM TypeCorrect == PocSpec => []PocTypeOK
<1>1. IInv => PocTypeOK
  BY DEF IInv
<1> QED
  BY <1>1, LockHolds, PTL

-----------------------------------------------------------------------------
(* The lock, and what people wrote *)

Frozen ==
  poc.status = "completed" /\ before = {} =>
    /\ UNCHANGED work
    /\ poc'.status = "completed" /\ poc'.exists
    /\ acc'.signed = acc.signed

\* A completed POC is read-only once the requests let in before have ended (the lock of
\* routes/pocs.ts), whichever and however many requests come.
THEOREM CompletedIsFrozen == PocSpec => FrozenOnceCompleted
<1>1. ASSUME IInv, [PocNext]_pocVars, poc.status = "completed", before = {} PROVE Frozen
  <2> USE DEF Frozen
  <2>1. poc.exists /\ \A h \in PocHandler : pocReq[h].op \in Exempt \cup {"idle"}
    BY <1>1 DEF IInv, CompletedExists, OnlyExemptSince
  <2>2. CASE UNCHANGED pocVars
    BY <1>1, <2>1, <2>2 DEF pocVars
  <2>3. ASSUME NEW h \in PocHandler, Asks(h) PROVE Frozen
    BY <1>1, <2>1, <2>3, AskInv
  <2>4. ASSUME NEW h \in PocHandler,
               Edit(h) \/ Note(h) \/ Create(h) \/ Drop(h) \/ Regenerate(h) \/ Draft(h)
               \/ PocDecide(h) \/ Sign(h) \/ Update(h) \/ Remove(h)
        PROVE FALSE
    BY <2>1, <2>4
    DEF Exempt, PocAt, Edit, Note, Create, Drop, Regenerate, Draft, PocDecide, Sign, Update, Remove
  <2>5. ASSUME NEW h \in PocHandler, Finalize(h) \/ Approve(h) \/ Archive(h) \/ Stop(h) PROVE Frozen
    BY <1>1, <2>1, <2>5 DEF IInv, PocTypeOK, Poc, Acceptance, Finalize, Approve, Archive, Stop
  <2> QED
    BY <1>1, <2>2, <2>3, <2>4, <2>5 DEF PocNext, Asks
<1>2. IInv /\ [PocNext]_pocVars =>
        [poc.status = "completed" /\ before = {} =>
           /\ UNCHANGED work
           /\ poc'.status = "completed" /\ poc'.exists
           /\ acc'.signed = acc.signed]_pocVars
  BY <1>1 DEF Frozen
<1> QED
  BY <1>2, LockHolds, PTL DEF PocSpec, FrozenOnceCompleted

\* What a person wrote disappears only with the DELETE of that very item, whatever is
\* regenerated meanwhile, in a POC that goes on (deleteUneditedAiPocTestCases and its likes).
THEOREM HumanWorkStays == PocSpec => HumanWorkSurvives
<1> DEFINE Taken(i) == work[i] \in {"blank", "done"} /\ work'[i] = "absent" /\ poc'.exists
           Deleted(i) ==
             \E h \in PocHandler :
               pocReq[h] = [op |-> "drop", on |-> i] /\ pocReq'[h] = PocIdle
<1>1. ASSUME IInv, [PocNext]_pocVars, NEW i \in Item, Taken(i) PROVE Deleted(i)
  <2>1. ~UNCHANGED work
    BY <1>1
  <2>2. CASE UNCHANGED pocVars
    BY <2>1, <2>2 DEF pocVars
  <2>3. ASSUME NEW h \in PocHandler, Asks(h) PROVE FALSE
    BY <1>1, <2>1, <2>3, AskInv
  <2>4. ASSUME NEW h \in PocHandler, Edit(h) \/ Note(h) \/ Create(h) \/ Regenerate(h) \/ Draft(h)
        PROVE FALSE
    BY <1>1, <2>4 DEF Edit, Note, Create, Regenerate, Regenerated, Draft, IInv, PocTypeOK
  <2>5. ASSUME NEW h \in PocHandler, Remove(h) PROVE FALSE
    BY <1>1, <2>5 DEF Remove
  <2>6. ASSUME NEW h \in PocHandler,
               PocDecide(h) \/ Finalize(h) \/ Approve(h) \/ Sign(h) \/ Update(h) \/ Archive(h)
               \/ Stop(h)
        PROVE FALSE
    BY <2>1, <2>6 DEF PocDecide, Finalize, Approve, Sign, Update, Archive, Stop
  <2>7. ASSUME NEW h \in PocHandler, Drop(h) PROVE Deleted(i)
    <3>1. pocReq[h].op = "drop" /\ pocReq[h].on = i /\ pocReq'[h] = PocIdle
      BY <1>1, <2>7 DEF Drop, PocAt, PocOn, PocEnds, IInv, PocTypeOK
    <3>2. pocReq[h] = [op |-> "drop", on |-> i]
      BY <1>1, <3>1 DEF IInv, PocTypeOK, PocRequest
    <3> QED
      BY <3>1, <3>2
  <2> QED
    BY <1>1, <2>2, <2>3, <2>4, <2>5, <2>6, <2>7 DEF PocNext, Asks
<1>2. IInv /\ [PocNext]_pocVars =>
        [\A i \in Item :
           work[i] \in {"blank", "done"} /\ work'[i] = "absent" /\ poc'.exists =>
             \E h \in PocHandler :
               pocReq[h] = [op |-> "drop", on |-> i] /\ pocReq'[h] = PocIdle]_pocVars
  BY <1>1
<1> QED
  BY <1>2, LockHolds, PTL DEF PocSpec, HumanWorkSurvives

=============================================================================
