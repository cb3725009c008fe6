----------------------- MODULE DemandLifecycle_proofs -----------------------
(***************************************************************************)
(* Proofs about DemandLifecycle, for any number of demands, people and     *)
(* concurrent handlers, with any number of crashes.                        *)
(*                                                                         *)
(* The invariants that matter are not inductive by themselves: a handler   *)
(* that has committed but not yet told the CRM is a debt, and what bounds  *)
(* the tellings is that debts are never owed twice (Debts).                *)
(***************************************************************************)
EXTENDS DemandLifecycle, TLAPS

\* Handler r has committed what milestone m of demand d announces, and has not
\* told it yet.
Owes(r, d, m) ==
  /\ req[r].d = d
  /\ \/ At(r, "telling") /\ req[r].mark = m
     \/ At(r, "analysing") /\ m = "in_analysis"
     \/ At(r, "deciding") /\ m = "returned"
     \/ (At(r, "closing") \/ At(r, "announcing")) /\ m = "completed"

\* The statuses of a demand that milestone m cannot have happened to yet.
Before(m) ==
  CASE m = "assigned"         -> {"none", "queued"}
    [] m = "in_analysis"      -> {"none", "queued", "assigned"}
    [] m = "returned"         -> Status \ {"returned", "purged"}
    [] m = "cancellation_ack" -> Status \ {"cancelled", "purged"}
    [] m = "completed"        -> Status \ {"completed", "purged"}

\* What a handler holds is a demand, and, where it acts for somebody, a person;
\* a reassignment under way concerns a demand that was taken, and a link it did
\* not see is never made.
Handlers ==
  \A r \in Request :
    /\ ~At(r, "idle") => req[r].d \in Demand
    /\ At(r, "telling") => req[r].mark \in Mark
    /\ At(r, "assuming") \/ At(r, "reassigning") \/ At(r, "linking") \/ At(r, "mirroring") =>
         req[r].u \in User
    /\ At(r, "reassigning") =>
         /\ status[req[r].d] \notin {"none", "queued"}
         /\ ~req[r].saw => ~linked[req[r].d]

\* A milestone told or owed has happened; it is told or owed once.
Debts ==
  \A d \in Demand : \A m \in Mark :
    /\ told[d][m] <= 1
    /\ told[d][m] > 0 => status[d] \notin Before(m)
    /\ \A r \in Request : Owes(r, d, m) => told[d][m] = 0 /\ status[d] \notin Before(m)
    /\ \A r, q \in Request : Owes(r, d, m) /\ Owes(q, d, m) => r = q

\* What is told or owed of a demand somebody works on was told or owed after
\* somebody took it.
TakenWhenOwed ==
  \A r \in Request : \A d \in Demand : \A m \in Mark \ Contract!EndMark :
    Owes(r, d, m) => born[d] > 0

\* The inductive invariant.
IInv ==
  /\ TypeOK
  /\ Handlers
  /\ OneProject
  /\ CancellationCoherent
  /\ OpenOnlyWhileConcluding
  /\ Debts
  /\ TakenWhenOwed
  /\ OneEnding
-----------------------------------------------------------------------------
(* Types, and what a handler holds *)

\* Every step keeps the types; the handlers' own invariant is what gives a demand
\* and a person to the steps that write them.
LEMMA TypeStep == TypeOK /\ Handlers /\ [Next]_vars => TypeOK'
<1> SUFFICES ASSUME TypeOK, Handlers, [Next]_vars PROVE TypeOK'
  OBVIOUS
<1> USE DEF TypeOK, Handlers, RequestState, Idle, Steps, Mark, Status, Owned, Ended, ReturnState,
            CancelState, Answer, Source, At, Continue, TellNext, Finish, demandVars, projectVars
<1>1. ASSUME NEW r \in Request, Start(r) PROVE TypeOK'
  <2>1. ASSUME NEW d \in Demand, CancelRead(r, d) PROVE TypeOK'
    BY <2>1 DEF CancelRead
  <2>2. ASSUME NEW d \in Demand, CancelClose(r, d) PROVE TypeOK'
    BY <2>2 DEF CancelClose
  <2>3. ASSUME NEW d \in Demand, ApproveRead(r, d) PROVE TypeOK'
    BY <2>3 DEF ApproveRead
  <2>4. ASSUME NEW d \in Demand, AnalysisStart(r, d) PROVE TypeOK'
    BY <2>4 DEF AnalysisStart
  <2>5. ASSUME NEW d \in Demand, CompleteRead(r, d) PROVE TypeOK'
    BY <2>5 DEF CompleteRead
  <2>6. ASSUME NEW d \in Demand, NEW u \in User, AssumeRead(r, d, u) PROVE TypeOK'
    BY <2>6 DEF AssumeRead
  <2>7. ASSUME NEW d \in Demand, NEW u \in User, ReassignRead(r, d, u) PROVE TypeOK'
    BY <2>7 DEF ReassignRead
  <2>8. ASSUME NEW d \in Demand, NEW u \in User, ReturnRead(r, d, u) PROVE TypeOK'
    BY <2>8 DEF ReturnRead
  <2>9. ASSUME NEW d \in Demand, MirrorRead(r, d) PROVE TypeOK'
    BY <2>9 DEF MirrorRead
  <2> HIDE DEF TypeOK, Handlers, At, Continue, TellNext, Finish
  <2>. QED
    BY <1>1, <2>1, <2>2, <2>3, <2>4, <2>5, <2>6, <2>7, <2>8, <2>9 DEF Start
<1>2. ASSUME NEW r \in Request, Proceed(r) PROVE TypeOK'
  <2>1. CASE AssumeClaim(r)
    <3>1. req[r].d \in Demand /\ req[r].u \in User
      BY <2>1 DEF AssumeClaim
    <3>2. req' \in [Request -> RequestState]
      BY <2>1, <3>1 DEF AssumeClaim
    <3>3. assignee' \in [Demand -> User \cup {NoUser}] /\ owner' \in [Demand -> User \cup {NoUser}]
      BY <2>1, <3>1 DEF AssumeClaim
    <3>4. status' \in [Demand -> Status] /\ linked' \in [Demand -> BOOLEAN] /\ born' \in [Demand
        -> Nat]
      BY <2>1, <3>1 DEF AssumeClaim
    <3>. QED  BY <2>1, <3>2, <3>3, <3>4 DEF AssumeClaim
  <2>2. CASE ReassignWrite(r)
    BY <2>2 DEF ReassignWrite
  <2>3. CASE ReturnAsk(r)
    BY <2>3 DEF ReturnAsk
  <2>4. CASE ReturnNow(r)
    BY <2>4 DEF ReturnNow
  <2>5. CASE ApproveReturn(r)
    BY <2>5 DEF ApproveReturn
  <2>6. CASE ApproveDecide(r)
    BY <2>6 DEF ApproveDecide
  <2>7. CASE CancelQueued(r)
    BY <2>7 DEF CancelQueued
  <2>8. CASE CancelStamp(r)
    BY <2>8 DEF CancelStamp
  <2>9. CASE AnalysisReread(r)
    BY <2>9 DEF AnalysisReread
  <2>10. CASE CompleteProject(r)
    BY <2>10 DEF CompleteProject
  <2>11. CASE Conclude(r)
    BY <2>11 DEF Conclude
  <2>12. CASE ConcludeClose(r)
    BY <2>12 DEF ConcludeClose
  <2>13. CASE ConcludeReread(r)
    BY <2>13 DEF ConcludeReread
  <2>14. CASE Tell(r)
    BY <2>14 DEF Tell
  <2>15. CASE Refused(r)
    BY <2>15 DEF Refused
  <2>16. CASE MirrorRefer(r)
    <3>1. CASE Continue(r, "mirroring", req[r].d, req[r].u)
      BY <2>16, <3>1 DEF MirrorRefer
    <3>2. CASE Finish(r)
      BY <2>16, <3>2 DEF MirrorRefer
    <3>. QED
      BY <2>16, <3>1, <3>2 DEF MirrorRefer
  <2>17. CASE Mirror(r)
    BY <2>17 DEF Mirror
  <2>18. CASE Fails(r)
    <3>1. req[r].d \in Demand /\ Due(r) \subseteq Mark
      BY <2>18 DEF Fails, Due
    <3>2. lost' \subseteq Demand \X Mark
      BY <2>18, <3>1 DEF Fails
    <3>. QED
      BY <2>18, <3>2 DEF Fails
  <2> HIDE DEF TypeOK, Handlers, At, Continue, TellNext, Finish
  <2>. QED
    BY <1>2, <2>1, <2>2, <2>3, <2>4, <2>5, <2>6, <2>7, <2>8, <2>9, <2>10, <2>11, <2>12, <2>13,
       <2>14, <2>15, <2>16, <2>17, <2>18 DEF Proceed
<1>3. ASSUME NEW d \in Demand, AtOnce(d) PROVE TypeOK'
  <2>1. CASE Create(d)
    BY <2>1 DEF Create
  <2>2. CASE Reject(d)
    BY <2>2 DEF Reject
  <2>3. CASE CancelAgain(d)
    BY <2>3 DEF CancelAgain
  <2>4. CASE Reopen(d)
    BY <2>4 DEF Reopen
  <2>5. CASE DeleteProject(d)
    BY <2>5 DEF DeleteProject
  <2>6. CASE Purge(d)
    BY <2>6 DEF Purge
  <2>7. ASSUME NEW u \in User, ProjectHere(d, u) PROVE TypeOK'
    BY <2>7 DEF ProjectHere
  <2>8. ASSUME NEW u \in User, TransferOwner(d, u) PROVE TypeOK'
    BY <2>8 DEF TransferOwner
  <2> HIDE DEF TypeOK, Handlers, At, Continue, TellNext, Finish
  <2>. QED
    BY <1>3, <2>1, <2>2, <2>3, <2>4, <2>5, <2>6, <2>7, <2>8 DEF AtOnce
<1>4. CASE Crash
  BY <1>4, CrashAssumption DEF Crash
<1>5. CASE UNCHANGED vars
  BY <1>5 DEF vars
<1> HIDE DEF TypeOK, Handlers, At, Continue, TellNext, Finish
<1>. QED
  BY <1>1, <1>2, <1>3, <1>4, <1>5 DEF Next

\* A handler keeps its demand and its person to its end; what a reassignment saw
\* unlinked stays unlinked, because only taking a demand makes its link.
LEMMA HandlersStep == TypeOK /\ Handlers /\ [Next]_vars => Handlers'
<1> SUFFICES ASSUME TypeOK, Handlers, [Next]_vars PROVE Handlers'
  OBVIOUS
<1> USE DEF TypeOK, Handlers, RequestState, Idle, Steps, Mark, Status, Owned, Ended, At,
    Continue, TellNext, Finish, demandVars, projectVars
<1>1. ASSUME NEW r \in Request, Start(r) PROVE Handlers'
  <2>1. ASSUME NEW d \in Demand, CancelRead(r, d) PROVE Handlers'
    BY <2>1 DEF CancelRead
  <2>2. ASSUME NEW d \in Demand, CancelClose(r, d) PROVE Handlers'
    BY <2>2 DEF CancelClose
  <2>3. ASSUME NEW d \in Demand, ApproveRead(r, d) PROVE Handlers'
    BY <2>3 DEF ApproveRead
  <2>4. ASSUME NEW d \in Demand, AnalysisStart(r, d) PROVE Handlers'
    BY <2>4 DEF AnalysisStart
  <2>5. ASSUME NEW d \in Demand, CompleteRead(r, d) PROVE Handlers'
    BY <2>5 DEF CompleteRead
  <2>6. ASSUME NEW d \in Demand, NEW u \in User, AssumeRead(r, d, u) PROVE Handlers'
    BY <2>6 DEF AssumeRead
  <2>7. ASSUME NEW d \in Demand, NEW u \in User, ReassignRead(r, d, u) PROVE Handlers'
    BY <2>7 DEF ReassignRead
  <2>8. ASSUME NEW d \in Demand, NEW u \in User, ReturnRead(r, d, u) PROVE Handlers'
    BY <2>8 DEF ReturnRead
  <2>9. ASSUME NEW d \in Demand, MirrorRead(r, d) PROVE Handlers'
    BY <2>9 DEF MirrorRead
  <2> HIDE DEF TypeOK, Handlers, At, Continue, TellNext, Finish
  <2>. QED
    BY <1>1, <2>1, <2>2, <2>3, <2>4, <2>5, <2>6, <2>7, <2>8, <2>9 DEF Start
<1>2. ASSUME NEW r \in Request, Proceed(r) PROVE Handlers'
  <2>1. CASE AssumeClaim(r)
    BY <2>1 DEF AssumeClaim
  <2>2. CASE ReassignWrite(r)
    BY <2>2 DEF ReassignWrite
  <2>3. CASE ReturnAsk(r)
    BY <2>3 DEF ReturnAsk
  <2>4. CASE ReturnNow(r)
    BY <2>4 DEF ReturnNow
  <2>5. CASE ApproveReturn(r)
    BY <2>5 DEF ApproveReturn
  <2>6. CASE ApproveDecide(r)
    BY <2>6 DEF ApproveDecide
  <2>7. CASE CancelQueued(r)
    BY <2>7 DEF CancelQueued
  <2>8. CASE CancelStamp(r)
    BY <2>8 DEF CancelStamp
  <2>9. CASE AnalysisReread(r)
    BY <2>9 DEF AnalysisReread
  <2>10. CASE CompleteProject(r)
    BY <2>10 DEF CompleteProject
  <2>11. CASE Conclude(r)
    BY <2>11 DEF Conclude
  <2>12. CASE ConcludeClose(r)
    BY <2>12 DEF ConcludeClose
  <2>13. CASE ConcludeReread(r)
    BY <2>13 DEF ConcludeReread
  <2>14. CASE Tell(r)
    BY <2>14 DEF Tell
  <2>15. CASE Refused(r)
    BY <2>15 DEF Refused
  <2>16. CASE MirrorRefer(r)
    <3>1. CASE Continue(r, "mirroring", req[r].d, req[r].u)
      BY <2>16, <3>1 DEF MirrorRefer
    <3>2. CASE Finish(r)
      BY <2>16, <3>2 DEF MirrorRefer
    <3>. QED
      BY <2>16, <3>1, <3>2 DEF MirrorRefer
  <2>17. CASE Mirror(r)
    BY <2>17 DEF Mirror
  <2>18. CASE Fails(r)
    BY <2>18 DEF Fails
  <2> HIDE DEF TypeOK, Handlers, At, Continue, TellNext, Finish
  <2>. QED
    BY <1>2, <2>1, <2>2, <2>3, <2>4, <2>5, <2>6, <2>7, <2>8, <2>9, <2>10, <2>11, <2>12, <2>13,
       <2>14, <2>15, <2>16, <2>17, <2>18 DEF Proceed
<1>3. ASSUME NEW d \in Demand, AtOnce(d) PROVE Handlers'
  <2>1. CASE Create(d)
    BY <2>1 DEF Create
  <2>2. CASE Reject(d)
    BY <2>2 DEF Reject
  <2>3. CASE CancelAgain(d)
    BY <2>3 DEF CancelAgain
  <2>4. CASE Reopen(d)
    BY <2>4 DEF Reopen
  <2>5. CASE DeleteProject(d)
    BY <2>5 DEF DeleteProject
  <2>6. CASE Purge(d)
    BY <2>6 DEF Purge
  <2>7. ASSUME NEW u \in User, ProjectHere(d, u) PROVE Handlers'
    BY <2>7 DEF ProjectHere
  <2>8. ASSUME NEW u \in User, TransferOwner(d, u) PROVE Handlers'
    BY <2>8 DEF TransferOwner
  <2> HIDE DEF TypeOK, Handlers, At, Continue, TellNext, Finish
  <2>. QED
    BY <1>3, <2>1, <2>2, <2>3, <2>4, <2>5, <2>6, <2>7, <2>8 DEF AtOnce
<1>4. CASE Crash
  BY <1>4 DEF Crash
<1>5. CASE UNCHANGED vars
  BY <1>5 DEF vars
<1> HIDE DEF TypeOK, Handlers, At, Continue, TellNext, Finish
<1>. QED
  BY <1>1, <1>2, <1>3, <1>4, <1>5 DEF Next

-----------------------------------------------------------------------------
(* One project per demand *)

\* The conditional claim of assumirDemanda is what keeps the births at one: the
\* demand is queued, so nothing was born before, and it is not queued any more.
LEMMA OneProjectStep == TypeOK /\ Handlers /\ OneProject /\ [Next]_vars => OneProject'
<1> SUFFICES ASSUME TypeOK, Handlers, OneProject, [Next]_vars PROVE OneProject'
  OBVIOUS
<1> USE PeopleAssumption DEF OneProject, TypeOK, Handlers, RequestState, Idle, Steps, Mark,
    Status, Owned, Ended, At, Continue, TellNext, Finish, demandVars, projectVars
<1>1. ASSUME NEW r \in Request, Start(r) PROVE OneProject'
  <2>1. ASSUME NEW d \in Demand, CancelRead(r, d) PROVE OneProject'
    BY <2>1 DEF CancelRead
  <2>2. ASSUME NEW d \in Demand, CancelClose(r, d) PROVE OneProject'
    BY <2>2 DEF CancelClose
  <2>3. ASSUME NEW d \in Demand, ApproveRead(r, d) PROVE OneProject'
    BY <2>3 DEF ApproveRead
  <2>4. ASSUME NEW d \in Demand, AnalysisStart(r, d) PROVE OneProject'
    BY <2>4 DEF AnalysisStart
  <2>5. ASSUME NEW d \in Demand, CompleteRead(r, d) PROVE OneProject'
    BY <2>5 DEF CompleteRead
  <2>6. ASSUME NEW d \in Demand, NEW u \in User, AssumeRead(r, d, u) PROVE OneProject'
    BY <2>6 DEF AssumeRead
  <2>7. ASSUME NEW d \in Demand, NEW u \in User, ReassignRead(r, d, u) PROVE OneProject'
    BY <2>7 DEF ReassignRead
  <2>8. ASSUME NEW d \in Demand, NEW u \in User, ReturnRead(r, d, u) PROVE OneProject'
    BY <2>8 DEF ReturnRead
  <2>9. ASSUME NEW d \in Demand, MirrorRead(r, d) PROVE OneProject'
    BY <2>9 DEF MirrorRead
  <2> HIDE DEF TypeOK, Handlers, At, Continue, TellNext, Finish, OneProject
  <2>. QED
    BY <1>1, <2>1, <2>2, <2>3, <2>4, <2>5, <2>6, <2>7, <2>8, <2>9 DEF Start
<1>2. ASSUME NEW r \in Request, Proceed(r) PROVE OneProject'
  <2>1. CASE AssumeClaim(r)
    BY <2>1 DEF AssumeClaim
  <2>2. CASE ReassignWrite(r)
    BY <2>2 DEF ReassignWrite
  <2>3. CASE ReturnAsk(r)
    BY <2>3 DEF ReturnAsk
  <2>4. CASE ReturnNow(r)
    BY <2>4 DEF ReturnNow
  <2>5. CASE ApproveReturn(r)
    BY <2>5 DEF ApproveReturn
  <2>6. CASE ApproveDecide(r)
    BY <2>6 DEF ApproveDecide
  <2>7. CASE CancelQueued(r)
    BY <2>7 DEF CancelQueued
  <2>8. CASE CancelStamp(r)
    BY <2>8 DEF CancelStamp
  <2>9. CASE AnalysisReread(r)
    BY <2>9 DEF AnalysisReread
  <2>10. CASE CompleteProject(r)
    BY <2>10 DEF CompleteProject
  <2>11. CASE Conclude(r)
    BY <2>11 DEF Conclude
  <2>12. CASE ConcludeClose(r)
    BY <2>12 DEF ConcludeClose
  <2>13. CASE ConcludeReread(r)
    BY <2>13 DEF ConcludeReread
  <2>14. CASE Tell(r)
    BY <2>14 DEF Tell
  <2>15. CASE Refused(r)
    BY <2>15 DEF Refused
  <2>16. CASE MirrorRefer(r)
    BY <2>16 DEF MirrorRefer
  <2>17. CASE Mirror(r)
    BY <2>17 DEF Mirror
  <2>18. CASE Fails(r)
    BY <2>18 DEF Fails
  <2> HIDE DEF TypeOK, Handlers, At, Continue, TellNext, Finish, OneProject
  <2>. QED
    BY <1>2, <2>1, <2>2, <2>3, <2>4, <2>5, <2>6, <2>7, <2>8, <2>9, <2>10, <2>11, <2>12, <2>13,
       <2>14, <2>15, <2>16, <2>17, <2>18 DEF Proceed
<1>3. ASSUME NEW d \in Demand, AtOnce(d) PROVE OneProject'
  <2>1. CASE Create(d)
    BY <2>1 DEF Create
  <2>2. CASE Reject(d)
    BY <2>2 DEF Reject
  <2>3. CASE CancelAgain(d)
    BY <2>3 DEF CancelAgain
  <2>4. CASE Reopen(d)
    BY <2>4 DEF Reopen
  <2>5. CASE DeleteProject(d)
    BY <2>5 DEF DeleteProject
  <2>6. CASE Purge(d)
    BY <2>6 DEF Purge
  <2>7. ASSUME NEW u \in User, ProjectHere(d, u) PROVE OneProject'
    BY <2>7 DEF ProjectHere
  <2>8. ASSUME NEW u \in User, TransferOwner(d, u) PROVE OneProject'
    BY <2>8 DEF TransferOwner
  <2> HIDE DEF TypeOK, Handlers, At, Continue, TellNext, Finish, OneProject
  <2>. QED
    BY <1>3, <2>1, <2>2, <2>3, <2>4, <2>5, <2>6, <2>7, <2>8 DEF AtOnce
<1>4. CASE Crash
  BY <1>4 DEF Crash
<1>5. CASE UNCHANGED vars
  BY <1>5 DEF vars
<1> HIDE DEF TypeOK, Handlers, At, Continue, TellNext, Finish, OneProject
<1>. QED
  BY <1>1, <1>2, <1>3, <1>4, <1>5 DEF Next

-----------------------------------------------------------------------------
(* Debts *)

\* The step moves no demand, or moves it along the contract's state machine.
Moves == \A d \in Demand : status'[d] = status[d] \/ <<status[d], status'[d]>> \in Contract!Legal

\* Every handler's write is a legal move: each is conditional on the status it
\* leaves, or leaves the status alone.
LEMMA LegalMoves == TypeOK /\ Handlers /\ [Next]_vars => Moves
<1> SUFFICES ASSUME TypeOK, Handlers, [Next]_vars PROVE Moves
  OBVIOUS
<1> USE DEF Moves, Contract!Legal, Contract!Arrivals, Contract!Owned, Contract!Ended,
    Contract!Status, TypeOK, Handlers, RequestState, Idle, Steps, Mark, Status, Owned, Ended,
    At, Continue, TellNext, Finish, demandVars, projectVars
<1>1. ASSUME NEW r \in Request, Start(r) PROVE Moves
  <2>1. ASSUME NEW d \in Demand, CancelRead(r, d) PROVE Moves
    BY <2>1 DEF CancelRead
  <2>2. ASSUME NEW d \in Demand, CancelClose(r, d) PROVE Moves
    BY <2>2 DEF CancelClose
  <2>3. ASSUME NEW d \in Demand, ApproveRead(r, d) PROVE Moves
    BY <2>3 DEF ApproveRead
  <2>4. ASSUME NEW d \in Demand, AnalysisStart(r, d) PROVE Moves
    BY <2>4 DEF AnalysisStart
  <2>5. ASSUME NEW d \in Demand, CompleteRead(r, d) PROVE Moves
    BY <2>5 DEF CompleteRead
  <2>6. ASSUME NEW d \in Demand, NEW u \in User, AssumeRead(r, d, u) PROVE Moves
    BY <2>6 DEF AssumeRead
  <2>7. ASSUME NEW d \in Demand, NEW u \in User, ReassignRead(r, d, u) PROVE Moves
    BY <2>7 DEF ReassignRead
  <2>8. ASSUME NEW d \in Demand, NEW u \in User, ReturnRead(r, d, u) PROVE Moves
    BY <2>8 DEF ReturnRead
  <2>9. ASSUME NEW d \in Demand, MirrorRead(r, d) PROVE Moves
    BY <2>9 DEF MirrorRead
  <2> HIDE DEF TypeOK, Handlers, At, Continue, TellNext, Finish, Moves
  <2>. QED
    BY <1>1, <2>1, <2>2, <2>3, <2>4, <2>5, <2>6, <2>7, <2>8, <2>9 DEF Start
<1>2. ASSUME NEW r \in Request, Proceed(r) PROVE Moves
  <2>1. CASE AssumeClaim(r)
    BY <2>1 DEF AssumeClaim
  <2>2. CASE ReassignWrite(r)
    BY <2>2 DEF ReassignWrite
  <2>3. CASE ReturnAsk(r)
    BY <2>3 DEF ReturnAsk
  <2>4. CASE ReturnNow(r)
    BY <2>4 DEF ReturnNow
  <2>5. CASE ApproveReturn(r)
    BY <2>5 DEF ApproveReturn
  <2>6. CASE ApproveDecide(r)
    BY <2>6 DEF ApproveDecide
  <2>7. CASE CancelQueued(r)
    BY <2>7 DEF CancelQueued
  <2>8. CASE CancelStamp(r)
    BY <2>8 DEF CancelStamp
  <2>9. CASE AnalysisReread(r)
    BY <2>9 DEF AnalysisReread
  <2>10. CASE CompleteProject(r)
    BY <2>10 DEF CompleteProject
  <2>11. CASE Conclude(r)
    BY <2>11 DEF Conclude
  <2>12. CASE ConcludeClose(r)
    BY <2>12 DEF ConcludeClose
  <2>13. CASE ConcludeReread(r)
    BY <2>13 DEF ConcludeReread
  <2>14. CASE Tell(r)
    BY <2>14 DEF Tell
  <2>15. CASE Refused(r)
    BY <2>15 DEF Refused
  <2>16. CASE MirrorRefer(r)
    BY <2>16 DEF MirrorRefer
  <2>17. CASE Mirror(r)
    BY <2>17 DEF Mirror
  <2>18. CASE Fails(r)
    BY <2>18 DEF Fails
  <2> HIDE DEF TypeOK, Handlers, At, Continue, TellNext, Finish, Moves
  <2>. QED
    BY <1>2, <2>1, <2>2, <2>3, <2>4, <2>5, <2>6, <2>7, <2>8, <2>9, <2>10, <2>11, <2>12, <2>13,
       <2>14, <2>15, <2>16, <2>17, <2>18 DEF Proceed
<1>3. ASSUME NEW d \in Demand, AtOnce(d) PROVE Moves
  <2>1. CASE Create(d)
    BY <2>1 DEF Create
  <2>2. CASE Reject(d)
    BY <2>2 DEF Reject
  <2>3. CASE CancelAgain(d)
    BY <2>3 DEF CancelAgain
  <2>4. CASE Reopen(d)
    BY <2>4 DEF Reopen
  <2>5. CASE DeleteProject(d)
    BY <2>5 DEF DeleteProject
  <2>6. CASE Purge(d)
    BY <2>6 DEF Purge
  <2>7. ASSUME NEW u \in User, ProjectHere(d, u) PROVE Moves
    BY <2>7 DEF ProjectHere
  <2>8. ASSUME NEW u \in User, TransferOwner(d, u) PROVE Moves
    BY <2>8 DEF TransferOwner
  <2> HIDE DEF TypeOK, Handlers, At, Continue, TellNext, Finish, Moves
  <2>. QED
    BY <1>3, <2>1, <2>2, <2>3, <2>4, <2>5, <2>6, <2>7, <2>8 DEF AtOnce
<1>4. CASE Crash
  BY <1>4 DEF Crash
<1>5. CASE UNCHANGED vars
  BY <1>5 DEF vars
<1> HIDE DEF TypeOK, Handlers, At, Continue, TellNext, Finish, Moves
<1>. QED
  BY <1>1, <1>2, <1>3, <1>4, <1>5 DEF Next

\* What has happened to a demand stays so along the legal moves.
LEMMA HappenedStays ==
  ASSUME NEW m \in Mark, NEW s, NEW t, <<s, t>> \in Contract!Legal, s \notin Before(m)
  PROVE  t \notin Before(m)
BY DEF Before, Mark, Status, Owned, Ended, Contract!Legal, Contract!Arrivals, Contract!Owned,
       Contract!Ended, Contract!Status

\* A step after which nobody owes anything new keeps the debts in order.
LEMMA DebtsKept ==
  ASSUME TypeOK, Debts, Moves, told' = told,
         \A q \in Request : \A e \in Demand : \A m \in Mark : Owes(q, e, m)' => Owes(q, e, m)
  PROVE  Debts'
<1> SUFFICES ASSUME NEW e \in Demand, NEW m \in Mark
             PROVE  /\ told'[e][m] <= 1
                    /\ told'[e][m] > 0 => status'[e] \notin Before(m)
                    /\ \A r \in Request : Owes(r, e, m)' =>
                         told'[e][m] = 0 /\ status'[e] \notin Before(m)
                    /\ \A r, q \in Request : Owes(r, e, m)' /\ Owes(q, e, m)' => r = q
  BY DEF Debts
<1>1. status[e] \notin Before(m) => status'[e] \notin Before(m)
  BY HappenedStays DEF Moves
<1>. QED
  BY <1>1 DEF Debts

\* A step that makes a milestone happen, and one handler owe it, keeps the debts
\* in order: nobody can have owed or told it before.
LEMMA DebtsNew ==
  ASSUME TypeOK, Debts, Moves, told' = told,
         NEW r \in Request, NEW d \in Demand, NEW n \in Mark,
         status[d] \in Before(n), status'[d] \notin Before(n),
         \A q \in Request : \A e \in Demand : \A m \in Mark :
           Owes(q, e, m)' => Owes(q, e, m) \/ (q = r /\ e = d /\ m = n)
  PROVE  Debts'
<1> SUFFICES ASSUME NEW e \in Demand, NEW m \in Mark
             PROVE  /\ told'[e][m] <= 1
                    /\ told'[e][m] > 0 => status'[e] \notin Before(m)
                    /\ \A q \in Request : Owes(q, e, m)' =>
                         told'[e][m] = 0 /\ status'[e] \notin Before(m)
                    /\ \A p, q \in Request : Owes(p, e, m)' /\ Owes(q, e, m)' => p = q
  BY DEF Debts
<1>1. status[e] \notin Before(m) => status'[e] \notin Before(m)
  BY HappenedStays DEF Moves
<1>2. told[d][n] \in Nat
  BY DEF TypeOK
<1>3. told[d][n] = 0 /\ \A q \in Request : ~Owes(q, d, n)
  BY <1>2 DEF Debts
<1>. QED
  BY <1>1, <1>3 DEF Debts

\* The step leaves told alone and nobody owes what was not owed.
KeepsDebts ==
  /\ told' = told
  /\ \A q \in Request : \A e \in Demand : \A m \in Mark : Owes(q, e, m)' => Owes(q, e, m)

\* The step makes n of d happen, and from then on r owes it.
MakesDebt(r, d, n) ==
  /\ told' = told
  /\ status[d] \in Before(n) /\ status'[d] \notin Before(n)
  /\ \A q \in Request : \A e \in Demand : \A m \in Mark :
       Owes(q, e, m)' => Owes(q, e, m) \/ (q = r /\ e = d /\ m = n)

DebtChange ==
  \/ KeepsDebts
  \/ \E r \in Request : \E d \in Demand : \E n \in Mark : MakesDebt(r, d, n)
  \/ \E r \in Request : Tell(r)

\* Each step keeps the debts, makes one, or pays one by telling it.
LEMMA DebtChanges == TypeOK /\ Handlers /\ [Next]_vars => DebtChange
<1> SUFFICES ASSUME TypeOK, Handlers, [Next]_vars PROVE DebtChange
  OBVIOUS
<1> USE DEF TypeOK, Handlers, RequestState, Idle, Steps, Mark, Status, Owned, Ended, At,
    Continue, TellNext, Finish, demandVars, projectVars
<1>1. ASSUME NEW r \in Request, Start(r) PROVE DebtChange
  <2>1. ASSUME NEW d \in Demand, CancelRead(r, d) PROVE DebtChange
    BY <2>1 DEF CancelRead, DebtChange, KeepsDebts, Owes
  <2>2. ASSUME NEW d \in Demand, CancelClose(r, d) PROVE DebtChange
    <3>1. MakesDebt(r, d, "cancellation_ack")
      BY <2>2 DEF CancelClose, MakesDebt, Owes, Before
    <3>. QED
      BY <3>1, <2>2 DEF DebtChange, CancelClose
  <2>3. ASSUME NEW d \in Demand, ApproveRead(r, d) PROVE DebtChange
    BY <2>3 DEF ApproveRead, DebtChange, KeepsDebts, Owes
  <2>4. ASSUME NEW d \in Demand, AnalysisStart(r, d) PROVE DebtChange
    <3>1. MakesDebt(r, d, "in_analysis")
      BY <2>4 DEF AnalysisStart, MakesDebt, Owes, Before
    <3>. QED
      BY <3>1, <2>4 DEF DebtChange, AnalysisStart
  <2>5. ASSUME NEW d \in Demand, CompleteRead(r, d) PROVE DebtChange
    BY <2>5 DEF CompleteRead, DebtChange, KeepsDebts, Owes
  <2>6. ASSUME NEW d \in Demand, NEW u \in User, AssumeRead(r, d, u) PROVE DebtChange
    BY <2>6 DEF AssumeRead, DebtChange, KeepsDebts, Owes
  <2>7. ASSUME NEW d \in Demand, NEW u \in User, ReassignRead(r, d, u) PROVE DebtChange
    BY <2>7 DEF ReassignRead, DebtChange, KeepsDebts, Owes
  <2>8. ASSUME NEW d \in Demand, NEW u \in User, ReturnRead(r, d, u) PROVE DebtChange
    BY <2>8 DEF ReturnRead, DebtChange, KeepsDebts, Owes
  <2>9. ASSUME NEW d \in Demand, MirrorRead(r, d) PROVE DebtChange
    BY <2>9 DEF MirrorRead, DebtChange, KeepsDebts, Owes
  <2> HIDE DEF TypeOK, Handlers, At, Continue, TellNext, Finish
  <2>. QED
    BY <1>1, <2>1, <2>2, <2>3, <2>4, <2>5, <2>6, <2>7, <2>8, <2>9 DEF Start
<1>2. ASSUME NEW r \in Request, Proceed(r) PROVE DebtChange
  <2>1. CASE AssumeClaim(r)
    <3>1. MakesDebt(r, req[r].d, "assigned")
      BY <2>1 DEF AssumeClaim, MakesDebt, Owes, Before
    <3>. QED
      BY <3>1, <2>1 DEF DebtChange, AssumeClaim
  <2>2. CASE ReassignWrite(r)
    BY <2>2 DEF ReassignWrite, DebtChange, KeepsDebts, Owes
  <2>3. CASE ReturnAsk(r)
    BY <2>3 DEF ReturnAsk, DebtChange, KeepsDebts, Owes
  <2>4. CASE ReturnNow(r)
    <3>1. MakesDebt(r, req[r].d, "returned")
      BY <2>4 DEF ReturnNow, MakesDebt, Owes, Before
    <3>. QED
      BY <3>1, <2>4 DEF DebtChange, ReturnNow
  <2>5. CASE ApproveReturn(r)
    <3>1. MakesDebt(r, req[r].d, "returned")
      BY <2>5 DEF ApproveReturn, MakesDebt, Owes, Before
    <3>. QED
      BY <3>1, <2>5 DEF DebtChange, ApproveReturn
  <2>6. CASE ApproveDecide(r)
    BY <2>6 DEF ApproveDecide, DebtChange, KeepsDebts, Owes
  <2>7. CASE CancelQueued(r)
    <3>1. MakesDebt(r, req[r].d, "cancellation_ack")
      BY <2>7 DEF CancelQueued, MakesDebt, Owes, Before
    <3>. QED
      BY <3>1, <2>7 DEF DebtChange, CancelQueued
  <2>8. CASE CancelStamp(r)
    BY <2>8 DEF CancelStamp, DebtChange, KeepsDebts, Owes
  <2>9. CASE AnalysisReread(r)
    BY <2>9 DEF AnalysisReread, DebtChange, KeepsDebts, Owes
  <2>10. CASE CompleteProject(r)
    BY <2>10 DEF CompleteProject, DebtChange, KeepsDebts, Owes
  <2>11. CASE Conclude(r)
    <3>1. MakesDebt(r, req[r].d, "completed")
      BY <2>11 DEF Conclude, MakesDebt, Owes, Before
    <3>. QED
      BY <3>1, <2>11 DEF DebtChange, Conclude
  <2>12. CASE ConcludeClose(r)
    BY <2>12 DEF ConcludeClose, DebtChange, KeepsDebts, Owes
  <2>13. CASE ConcludeReread(r)
    BY <2>13 DEF ConcludeReread, DebtChange, KeepsDebts, Owes
  <2>14. CASE Tell(r)
    BY <2>14 DEF DebtChange
  <2>15. CASE Refused(r)
    BY <2>15 DEF Refused, DebtChange, KeepsDebts, Owes
  <2>16. CASE MirrorRefer(r)
    <3>1. CASE Continue(r, "mirroring", req[r].d, req[r].u)
      BY <2>16, <3>1 DEF MirrorRefer, DebtChange, KeepsDebts, Owes
    <3>2. CASE Finish(r)
      BY <2>16, <3>2 DEF MirrorRefer, DebtChange, KeepsDebts, Owes
    <3>. QED
      BY <2>16, <3>1, <3>2 DEF MirrorRefer
  <2>17. CASE Mirror(r)
    BY <2>17 DEF Mirror, DebtChange, KeepsDebts, Owes
  <2>18. CASE Fails(r)
    BY <2>18 DEF Fails, DebtChange, KeepsDebts, Owes
  <2> HIDE DEF TypeOK, Handlers, At, Continue, TellNext, Finish
  <2>. QED
    BY <1>2, <2>1, <2>2, <2>3, <2>4, <2>5, <2>6, <2>7, <2>8, <2>9, <2>10, <2>11, <2>12, <2>13,
       <2>14, <2>15, <2>16, <2>17, <2>18 DEF Proceed
<1>3. ASSUME NEW d \in Demand, AtOnce(d) PROVE DebtChange
  <2>1. CASE Create(d)
    BY <2>1 DEF Create, DebtChange, KeepsDebts, Owes
  <2>2. CASE Reject(d)
    BY <2>2 DEF Reject, DebtChange, KeepsDebts, Owes
  <2>3. CASE CancelAgain(d)
    BY <2>3 DEF CancelAgain, DebtChange, KeepsDebts, Owes
  <2>4. CASE Reopen(d)
    BY <2>4 DEF Reopen, DebtChange, KeepsDebts, Owes
  <2>5. CASE DeleteProject(d)
    BY <2>5 DEF DeleteProject, DebtChange, KeepsDebts, Owes
  <2>6. CASE Purge(d)
    BY <2>6 DEF Purge, DebtChange, KeepsDebts, Owes
  <2>7. ASSUME NEW u \in User, ProjectHere(d, u) PROVE DebtChange
    BY <2>7 DEF ProjectHere, DebtChange, KeepsDebts, Owes
  <2>8. ASSUME NEW u \in User, TransferOwner(d, u) PROVE DebtChange
    BY <2>8 DEF TransferOwner, DebtChange, KeepsDebts, Owes
  <2> HIDE DEF TypeOK, Handlers, At, Continue, TellNext, Finish
  <2>. QED
    BY <1>3, <2>1, <2>2, <2>3, <2>4, <2>5, <2>6, <2>7, <2>8 DEF AtOnce
<1>4. CASE Crash
  BY <1>4 DEF Crash, DebtChange, KeepsDebts, Owes
<1>5. CASE UNCHANGED vars
  BY <1>5 DEF vars, DebtChange, KeepsDebts, Owes
<1> HIDE DEF TypeOK, Handlers, At, Continue, TellNext, Finish
<1>. QED
  BY <1>1, <1>2, <1>3, <1>4, <1>5 DEF Next

\* The milestones told or owed have happened and are told or owed once, after
\* every step.
LEMMA DebtsStep == TypeOK /\ Handlers /\ Debts /\ [Next]_vars => Debts'
<1> SUFFICES ASSUME TypeOK, Handlers, Debts, [Next]_vars PROVE Debts'
  OBVIOUS
<1>1. Moves
  BY LegalMoves
<1>2. CASE KeepsDebts
  BY <1>1, <1>2, DebtsKept DEF KeepsDebts
<1>3. ASSUME NEW r \in Request, NEW d \in Demand, NEW n \in Mark, MakesDebt(r, d, n)
      PROVE  Debts'
  BY <1>1, <1>3, DebtsNew DEF MakesDebt
<1>4. ASSUME NEW r \in Request, Tell(r) PROVE Debts'
  <2> DEFINE d == req[r].d
             n == req[r].mark
  <2>1. d \in Demand /\ n \in Mark /\ Owes(r, d, n)
    BY <1>4 DEF Tell, Handlers, At, Owes
  <2>2. told[d][n] = 0 /\ status[d] \notin Before(n)
    BY <2>1 DEF Debts
  <2>3. status' = status
    BY <1>4 DEF Tell, demandVars
  <2>4. \A q \in Request : \A e \in Demand : \A m \in Mark :
          Owes(q, e, m)' => Owes(q, e, m) /\ q # r
    BY <1>4 DEF Tell, Finish, Owes, At, Idle, TypeOK
  <2>5. \A e \in Demand : \A m \in Mark :
          told'[e][m] = IF e = d /\ m = n /\ status[d] # "purged" THEN 1 ELSE told[e][m]
    BY <1>4, <2>1, <2>2 DEF Tell, TypeOK
  <2> HIDE DEF d, n
  <2> SUFFICES ASSUME NEW e \in Demand, NEW m \in Mark
               PROVE  /\ told'[e][m] <= 1
                      /\ told'[e][m] > 0 => status'[e] \notin Before(m)
                      /\ \A q \in Request : Owes(q, e, m)' =>
                           told'[e][m] = 0 /\ status'[e] \notin Before(m)
                      /\ \A p, q \in Request : Owes(p, e, m)' /\ Owes(q, e, m)' => p = q
    BY DEF Debts
  <2>6. CASE e = d /\ m = n
    <3>1. \A q \in Request : ~Owes(q, e, m)'
      BY <2>1, <2>4, <2>6 DEF Debts
    <3>. QED
      BY <2>2, <2>3, <2>5, <2>6, <3>1
  <2>7. CASE ~(e = d /\ m = n)
    BY <2>3, <2>4, <2>5, <2>7 DEF Debts
  <2>. QED
    BY <2>6, <2>7
<1>. QED
  BY <1>2, <1>3, <1>4, DebtChanges DEF DebtChange

\* Whoever is about to close the cancellation request of a demand it concluded
\* finds it completed: nothing but the purge moves a demand out of an ending.
LEMMA ClosingIsCompleted ==
  ASSUME TypeOK, Handlers, Debts, NEW r \in Request, At(r, "closing")
  PROVE  status[req[r].d] \in {"completed", "purged"}
<1>1. req[r].d \in Demand
  BY DEF Handlers, At
<1>2. Owes(r, req[r].d, "completed")
  BY DEF Owes
<1>3. status[req[r].d] \notin Before("completed")
  BY <1>1, <1>2 DEF Debts, Mark
<1>. QED
  BY <1>1, <1>3 DEF Before, TypeOK

-----------------------------------------------------------------------------
(* Cancellation *)

\* The paths that end a demand stamp its cancellation in the write that moves its
\* status, except the conclusion, whose second write ClosingIsCompleted covers.
LEMMA CancellationStep ==
  TypeOK /\ Handlers /\ Debts /\ CancellationCoherent /\ [Next]_vars => CancellationCoherent'
<1> SUFFICES ASSUME TypeOK, Handlers, Debts, CancellationCoherent, [Next]_vars
             PROVE CancellationCoherent'
  OBVIOUS
<1> USE DEF CancellationCoherent, CancelState, Answer, Source, TypeOK, Handlers, RequestState, Idle,
    Steps, Mark, Status, Owned, Ended, At, Continue, TellNext, Finish, demandVars, projectVars
<1>1. ASSUME NEW r \in Request, Start(r) PROVE CancellationCoherent'
  <2>1. ASSUME NEW d \in Demand, CancelRead(r, d) PROVE CancellationCoherent'
    BY <2>1 DEF CancelRead
  <2>2. ASSUME NEW d \in Demand, CancelClose(r, d) PROVE CancellationCoherent'
    BY <2>2 DEF CancelClose
  <2>3. ASSUME NEW d \in Demand, ApproveRead(r, d) PROVE CancellationCoherent'
    BY <2>3 DEF ApproveRead
  <2>4. ASSUME NEW d \in Demand, AnalysisStart(r, d) PROVE CancellationCoherent'
    BY <2>4 DEF AnalysisStart
  <2>5. ASSUME NEW d \in Demand, CompleteRead(r, d) PROVE CancellationCoherent'
    BY <2>5 DEF CompleteRead
  <2>6. ASSUME NEW d \in Demand, NEW u \in User, AssumeRead(r, d, u) PROVE CancellationCoherent'
    BY <2>6 DEF AssumeRead
  <2>7. ASSUME NEW d \in Demand, NEW u \in User, ReassignRead(r, d, u) PROVE CancellationCoherent'
    BY <2>7 DEF ReassignRead
  <2>8. ASSUME NEW d \in Demand, NEW u \in User, ReturnRead(r, d, u) PROVE CancellationCoherent'
    BY <2>8 DEF ReturnRead
  <2>9. ASSUME NEW d \in Demand, MirrorRead(r, d) PROVE CancellationCoherent'
    BY <2>9 DEF MirrorRead
  <2> HIDE DEF TypeOK, Handlers, At, Continue, TellNext, Finish, CancellationCoherent
  <2>. QED
    BY <1>1, <2>1, <2>2, <2>3, <2>4, <2>5, <2>6, <2>7, <2>8, <2>9 DEF Start
<1>2. ASSUME NEW r \in Request, Proceed(r) PROVE CancellationCoherent'
  <2>1. CASE AssumeClaim(r)
    BY <2>1 DEF AssumeClaim
  <2>2. CASE ReassignWrite(r)
    BY <2>2 DEF ReassignWrite
  <2>3. CASE ReturnAsk(r)
    BY <2>3 DEF ReturnAsk
  <2>4. CASE ReturnNow(r)
    BY <2>4 DEF ReturnNow
  <2>5. CASE ApproveReturn(r)
    BY <2>5 DEF ApproveReturn
  <2>6. CASE ApproveDecide(r)
    BY <2>6 DEF ApproveDecide
  <2>7. CASE CancelQueued(r)
    BY <2>7 DEF CancelQueued
  <2>8. CASE CancelStamp(r)
    BY <2>8 DEF CancelStamp
  <2>9. CASE AnalysisReread(r)
    BY <2>9 DEF AnalysisReread
  <2>10. CASE CompleteProject(r)
    BY <2>10 DEF CompleteProject
  <2>11. CASE Conclude(r)
    BY <2>11 DEF Conclude
  <2>12. CASE ConcludeClose(r)
    <3>1. status[req[r].d] \in {"completed", "purged"}
      BY <2>12, ClosingIsCompleted DEF ConcludeClose
    <3>. QED
      BY <2>12, <3>1 DEF ConcludeClose
  <2>13. CASE ConcludeReread(r)
    BY <2>13 DEF ConcludeReread
  <2>14. CASE Tell(r)
    BY <2>14 DEF Tell
  <2>15. CASE Refused(r)
    BY <2>15 DEF Refused
  <2>16. CASE MirrorRefer(r)
    BY <2>16 DEF MirrorRefer
  <2>17. CASE Mirror(r)
    BY <2>17 DEF Mirror
  <2>18. CASE Fails(r)
    BY <2>18 DEF Fails
  <2> HIDE DEF TypeOK, Handlers, At, Continue, TellNext, Finish, CancellationCoherent
  <2>. QED
    BY <1>2, <2>1, <2>2, <2>3, <2>4, <2>5, <2>6, <2>7, <2>8, <2>9, <2>10, <2>11, <2>12, <2>13,
       <2>14, <2>15, <2>16, <2>17, <2>18 DEF Proceed
<1>3. ASSUME NEW d \in Demand, AtOnce(d) PROVE CancellationCoherent'
  <2>1. CASE Create(d)
    BY <2>1 DEF Create
  <2>2. CASE Reject(d)
    BY <2>2 DEF Reject
  <2>3. CASE CancelAgain(d)
    BY <2>3 DEF CancelAgain
  <2>4. CASE Reopen(d)
    BY <2>4 DEF Reopen
  <2>5. CASE DeleteProject(d)
    BY <2>5 DEF DeleteProject
  <2>6. CASE Purge(d)
    BY <2>6 DEF Purge
  <2>7. ASSUME NEW u \in User, ProjectHere(d, u) PROVE CancellationCoherent'
    BY <2>7 DEF ProjectHere
  <2>8. ASSUME NEW u \in User, TransferOwner(d, u) PROVE CancellationCoherent'
    BY <2>8 DEF TransferOwner
  <2> HIDE DEF TypeOK, Handlers, At, Continue, TellNext, Finish, CancellationCoherent
  <2>. QED
    BY <1>3, <2>1, <2>2, <2>3, <2>4, <2>5, <2>6, <2>7, <2>8 DEF AtOnce
<1>4. CASE Crash
  BY <1>4 DEF Crash
<1>5. CASE UNCHANGED vars
  BY <1>5 DEF vars
<1> HIDE DEF TypeOK, Handlers, At, Continue, TellNext, Finish, CancellationCoherent
<1>. QED
  BY <1>1, <1>2, <1>3, <1>4, <1>5 DEF Next

\* A request is left open on a completed demand by Conclude alone, whose handler
\* then is the one about to close it; no request is stamped on an ended demand.
LEMMA OpenOnlyStep ==
  TypeOK /\ Handlers /\ OpenOnlyWhileConcluding /\ [Next]_vars => OpenOnlyWhileConcluding'
<1> SUFFICES ASSUME TypeOK, Handlers, OpenOnlyWhileConcluding, [Next]_vars
             PROVE  OpenOnlyWhileConcluding'
  OBVIOUS
<1> USE CrashAssumption DEF OpenOnlyWhileConcluding, TypeOK, Handlers, RequestState, Idle,
    Steps, Mark, Status, Owned, Ended, At, Continue, TellNext, Finish, demandVars, projectVars
<1>1. ASSUME NEW r \in Request, Start(r) PROVE OpenOnlyWhileConcluding'
  <2>1. ASSUME NEW d \in Demand, CancelRead(r, d) PROVE OpenOnlyWhileConcluding'
    BY <2>1 DEF CancelRead
  <2>2. ASSUME NEW d \in Demand, CancelClose(r, d) PROVE OpenOnlyWhileConcluding'
    BY <2>2 DEF CancelClose
  <2>3. ASSUME NEW d \in Demand, ApproveRead(r, d) PROVE OpenOnlyWhileConcluding'
    BY <2>3 DEF ApproveRead
  <2>4. ASSUME NEW d \in Demand, AnalysisStart(r, d) PROVE OpenOnlyWhileConcluding'
    BY <2>4 DEF AnalysisStart
  <2>5. ASSUME NEW d \in Demand, CompleteRead(r, d) PROVE OpenOnlyWhileConcluding'
    BY <2>5 DEF CompleteRead
  <2>6. ASSUME NEW d \in Demand, NEW u \in User, AssumeRead(r, d, u) PROVE OpenOnlyWhileConcluding'
    BY <2>6 DEF AssumeRead
  <2>7. ASSUME NEW d \in Demand, NEW u \in User, ReassignRead(r, d, u)
        PROVE  OpenOnlyWhileConcluding'
    BY <2>7 DEF ReassignRead
  <2>8. ASSUME NEW d \in Demand, NEW u \in User, ReturnRead(r, d, u) PROVE OpenOnlyWhileConcluding'
    BY <2>8 DEF ReturnRead
  <2>9. ASSUME NEW d \in Demand, MirrorRead(r, d) PROVE OpenOnlyWhileConcluding'
    BY <2>9 DEF MirrorRead
  <2> HIDE DEF TypeOK, Handlers, At, Continue, TellNext, Finish, OpenOnlyWhileConcluding
  <2>. QED
    BY <1>1, <2>1, <2>2, <2>3, <2>4, <2>5, <2>6, <2>7, <2>8, <2>9 DEF Start
<1>2. ASSUME NEW r \in Request, Proceed(r) PROVE OpenOnlyWhileConcluding'
  <2>1. CASE AssumeClaim(r)
    BY <2>1 DEF AssumeClaim
  <2>2. CASE ReassignWrite(r)
    BY <2>2 DEF ReassignWrite
  <2>3. CASE ReturnAsk(r)
    BY <2>3 DEF ReturnAsk
  <2>4. CASE ReturnNow(r)
    BY <2>4 DEF ReturnNow
  <2>5. CASE ApproveReturn(r)
    BY <2>5 DEF ApproveReturn
  <2>6. CASE ApproveDecide(r)
    BY <2>6 DEF ApproveDecide
  <2>7. CASE CancelQueued(r)
    BY <2>7 DEF CancelQueued
  <2>8. CASE CancelStamp(r)
    BY <2>8 DEF CancelStamp
  <2>9. CASE AnalysisReread(r)
    BY <2>9 DEF AnalysisReread
  <2>10. CASE CompleteProject(r)
    BY <2>10 DEF CompleteProject
  <2>11. CASE Conclude(r)
    BY <2>11 DEF Conclude
  <2>12. CASE ConcludeClose(r)
    BY <2>12 DEF ConcludeClose
  <2>13. CASE ConcludeReread(r)
    BY <2>13 DEF ConcludeReread
  <2>14. CASE Tell(r)
    BY <2>14 DEF Tell
  <2>15. CASE Refused(r)
    BY <2>15 DEF Refused, Misses
  <2>16. CASE MirrorRefer(r)
    BY <2>16 DEF MirrorRefer, Misses
  <2>17. CASE Mirror(r)
    BY <2>17 DEF Mirror, Misses
  <2>18. CASE Fails(r)
    <3>1. lost \subseteq lost' /\ (At(r, "closing") => <<req[r].d, "completed">> \in lost')
      BY <2>18 DEF Fails, Due
    <3>2. \A q \in Request \ {r} : req'[q] = req[q]
      BY <2>18 DEF Fails
    <3> SUFFICES ASSUME NEW d \in Demand, status'[d] = "completed", cancelReq'[d] = "open",
                        linked'[d], crashes' = 0, <<d, "completed">> \notin lost'
                 PROVE  \E q \in Request : At(q, "closing")' /\ req'[q].d = d
      OBVIOUS
    <3>3. PICK q \in Request : At(q, "closing") /\ req[q].d = d
      BY <2>18, <3>1 DEF Fails
    <3>4. q # r
      BY <3>1, <3>3
    <3>. QED
      BY <3>2, <3>3, <3>4
  <2> HIDE DEF TypeOK, Handlers, At, Continue, TellNext, Finish, OpenOnlyWhileConcluding
  <2>. QED
    BY <1>2, <2>1, <2>2, <2>3, <2>4, <2>5, <2>6, <2>7, <2>8, <2>9, <2>10, <2>11, <2>12, <2>13,
       <2>14, <2>15, <2>16, <2>17, <2>18 DEF Proceed
<1>3. ASSUME NEW d \in Demand, AtOnce(d) PROVE OpenOnlyWhileConcluding'
  <2>1. CASE Create(d)
    BY <2>1 DEF Create
  <2>2. CASE Reject(d)
    BY <2>2 DEF Reject
  <2>3. CASE CancelAgain(d)
    BY <2>3 DEF CancelAgain
  <2>4. CASE Reopen(d)
    BY <2>4 DEF Reopen
  <2>5. CASE DeleteProject(d)
    BY <2>5 DEF DeleteProject
  <2>6. CASE Purge(d)
    BY <2>6 DEF Purge
  <2>7. ASSUME NEW u \in User, ProjectHere(d, u) PROVE OpenOnlyWhileConcluding'
    BY <2>7 DEF ProjectHere
  <2>8. ASSUME NEW u \in User, TransferOwner(d, u) PROVE OpenOnlyWhileConcluding'
    BY <2>8 DEF TransferOwner
  <2> HIDE DEF TypeOK, Handlers, At, Continue, TellNext, Finish, OpenOnlyWhileConcluding
  <2>. QED
    BY <1>3, <2>1, <2>2, <2>3, <2>4, <2>5, <2>6, <2>7, <2>8 DEF AtOnce
<1>4. CASE Crash
  BY <1>4 DEF Crash
<1>5. CASE UNCHANGED vars
  BY <1>5 DEF vars
<1> HIDE DEF TypeOK, Handlers, At, Continue, TellNext, Finish, OpenOnlyWhileConcluding
<1>. QED
  BY <1>1, <1>2, <1>3, <1>4, <1>5 DEF Next

-----------------------------------------------------------------------------
(* The contract *)

\* A debt of "assigned" or "in_analysis" is made of a demand that was taken.
LEMMA TakenStep ==
  TypeOK /\ Handlers /\ OneProject /\ TakenWhenOwed /\ [Next]_vars => TakenWhenOwed'
<1> SUFFICES ASSUME TypeOK, Handlers, OneProject, TakenWhenOwed, [Next]_vars
             PROVE  TakenWhenOwed'
  OBVIOUS
<1> USE DEF TakenWhenOwed, Owes, Contract!EndMark,  TypeOK, Handlers, RequestState, Idle, Steps,
    Mark, Status, Owned, Ended, At, Continue, TellNext, Finish, demandVars, projectVars
<1>1. ASSUME NEW r \in Request, Start(r) PROVE TakenWhenOwed'
  <2>1. ASSUME NEW d \in Demand, CancelRead(r, d) PROVE TakenWhenOwed'
    BY <2>1 DEF CancelRead
  <2>2. ASSUME NEW d \in Demand, CancelClose(r, d) PROVE TakenWhenOwed'
    BY <2>2 DEF CancelClose
  <2>3. ASSUME NEW d \in Demand, ApproveRead(r, d) PROVE TakenWhenOwed'
    BY <2>3 DEF ApproveRead
  <2>4. ASSUME NEW d \in Demand, AnalysisStart(r, d) PROVE TakenWhenOwed'
    <3>1. born[d] = 1 /\ born' = born
      BY <2>4 DEF AnalysisStart, OneProject
    <3>2. \A q \in Request : \A e \in Demand : \A m \in Mark \ Contract!EndMark :
            Owes(q, e, m)' => Owes(q, e, m) \/ e = d
      BY <2>4 DEF AnalysisStart
    <3> HIDE DEF Owes
    <3>. QED
      BY <3>1, <3>2
  <2>5. ASSUME NEW d \in Demand, CompleteRead(r, d) PROVE TakenWhenOwed'
    BY <2>5 DEF CompleteRead
  <2>6. ASSUME NEW d \in Demand, NEW u \in User, AssumeRead(r, d, u) PROVE TakenWhenOwed'
    BY <2>6 DEF AssumeRead
  <2>7. ASSUME NEW d \in Demand, NEW u \in User, ReassignRead(r, d, u) PROVE TakenWhenOwed'
    BY <2>7 DEF ReassignRead
  <2>8. ASSUME NEW d \in Demand, NEW u \in User, ReturnRead(r, d, u) PROVE TakenWhenOwed'
    BY <2>8 DEF ReturnRead
  <2>9. ASSUME NEW d \in Demand, MirrorRead(r, d) PROVE TakenWhenOwed'
    BY <2>9 DEF MirrorRead
  <2> HIDE DEF TypeOK, Handlers, At, Continue, TellNext, Finish, TakenWhenOwed, Owes
  <2>. QED
    BY <1>1, <2>1, <2>2, <2>3, <2>4, <2>5, <2>6, <2>7, <2>8, <2>9 DEF Start
<1>2. ASSUME NEW r \in Request, Proceed(r) PROVE TakenWhenOwed'
  <2>1. CASE AssumeClaim(r)
    <3>1. born' = [born EXCEPT ![req[r].d] = born[req[r].d] + 1]
      BY <2>1 DEF AssumeClaim
    <3>2. \A q \in Request : \A e \in Demand : \A m \in Mark \ Contract!EndMark :
            Owes(q, e, m)' => Owes(q, e, m) \/ e = req[r].d
      BY <2>1 DEF AssumeClaim
    <3> HIDE DEF Owes
    <3>. QED
      BY <3>1, <3>2
  <2>2. CASE ReassignWrite(r)
    BY <2>2 DEF ReassignWrite
  <2>3. CASE ReturnAsk(r)
    BY <2>3 DEF ReturnAsk
  <2>4. CASE ReturnNow(r)
    BY <2>4 DEF ReturnNow
  <2>5. CASE ApproveReturn(r)
    BY <2>5 DEF ApproveReturn
  <2>6. CASE ApproveDecide(r)
    BY <2>6 DEF ApproveDecide
  <2>7. CASE CancelQueued(r)
    BY <2>7 DEF CancelQueued
  <2>8. CASE CancelStamp(r)
    BY <2>8 DEF CancelStamp
  <2>9. CASE AnalysisReread(r)
    BY <2>9 DEF AnalysisReread
  <2>10. CASE CompleteProject(r)
    BY <2>10 DEF CompleteProject
  <2>11. CASE Conclude(r)
    BY <2>11 DEF Conclude
  <2>12. CASE ConcludeClose(r)
    BY <2>12 DEF ConcludeClose
  <2>13. CASE ConcludeReread(r)
    BY <2>13 DEF ConcludeReread
  <2>14. CASE Tell(r)
    BY <2>14 DEF Tell
  <2>15. CASE Refused(r)
    BY <2>15 DEF Refused
  <2>16. CASE MirrorRefer(r)
    <3>1. CASE Continue(r, "mirroring", req[r].d, req[r].u)
      BY <2>16, <3>1 DEF MirrorRefer
    <3>2. CASE Finish(r)
      BY <2>16, <3>2 DEF MirrorRefer
    <3>. QED
      BY <2>16, <3>1, <3>2 DEF MirrorRefer
  <2>17. CASE Mirror(r)
    BY <2>17 DEF Mirror
  <2>18. CASE Fails(r)
    BY <2>18 DEF Fails
  <2> HIDE DEF TypeOK, Handlers, At, Continue, TellNext, Finish, TakenWhenOwed, Owes
  <2>. QED
    BY <1>2, <2>1, <2>2, <2>3, <2>4, <2>5, <2>6, <2>7, <2>8, <2>9, <2>10, <2>11, <2>12, <2>13,
       <2>14, <2>15, <2>16, <2>17, <2>18 DEF Proceed
<1>3. ASSUME NEW d \in Demand, AtOnce(d) PROVE TakenWhenOwed'
  <2>1. CASE Create(d)
    BY <2>1 DEF Create
  <2>2. CASE Reject(d)
    BY <2>2 DEF Reject
  <2>3. CASE CancelAgain(d)
    BY <2>3 DEF CancelAgain
  <2>4. CASE Reopen(d)
    BY <2>4 DEF Reopen
  <2>5. CASE DeleteProject(d)
    BY <2>5 DEF DeleteProject
  <2>6. CASE Purge(d)
    BY <2>6 DEF Purge
  <2>7. ASSUME NEW u \in User, ProjectHere(d, u) PROVE TakenWhenOwed'
    BY <2>7 DEF ProjectHere
  <2>8. ASSUME NEW u \in User, TransferOwner(d, u) PROVE TakenWhenOwed'
    BY <2>8 DEF TransferOwner
  <2> HIDE DEF TypeOK, Handlers, At, Continue, TellNext, Finish, TakenWhenOwed, Owes
  <2>. QED
    BY <1>3, <2>1, <2>2, <2>3, <2>4, <2>5, <2>6, <2>7, <2>8 DEF AtOnce
<1>4. CASE Crash
  BY <1>4 DEF Crash
<1>5. CASE UNCHANGED vars
  BY <1>5 DEF vars
<1> HIDE DEF TypeOK, Handlers, At, Continue, TellNext, Finish, TakenWhenOwed, Owes
<1>. QED
  BY <1>1, <1>2, <1>3, <1>4, <1>5 DEF Next

\* The step that gives a linked demand to somebody gives them its project.
LEMMA FollowsStep ==
  TypeOK /\ Handlers /\ [Next]_vars =>
    \A d \in Demand : assignee'[d] # assignee[d] /\ status[d] # "none" /\ linked'[d] =>
      owner'[d] = assignee'[d]
<1> DEFINE Follows == \A d \in Demand :
                        assignee'[d] # assignee[d] /\ status[d] # "none" /\ linked'[d] =>
                          owner'[d] = assignee'[d]
<1> SUFFICES ASSUME TypeOK, Handlers, [Next]_vars PROVE Follows
  OBVIOUS
<1> USE DEF TypeOK, Handlers, RequestState, Idle, Steps, Mark, Status, Owned, Ended, At,
    Continue, TellNext, Finish, demandVars, projectVars
<1>1. ASSUME NEW r \in Request, Start(r) PROVE Follows
  <2>1. ASSUME NEW d \in Demand, CancelRead(r, d) PROVE Follows
    BY <2>1 DEF CancelRead
  <2>2. ASSUME NEW d \in Demand, CancelClose(r, d) PROVE Follows
    BY <2>2 DEF CancelClose
  <2>3. ASSUME NEW d \in Demand, ApproveRead(r, d) PROVE Follows
    BY <2>3 DEF ApproveRead
  <2>4. ASSUME NEW d \in Demand, AnalysisStart(r, d) PROVE Follows
    BY <2>4 DEF AnalysisStart
  <2>5. ASSUME NEW d \in Demand, CompleteRead(r, d) PROVE Follows
    BY <2>5 DEF CompleteRead
  <2>6. ASSUME NEW d \in Demand, NEW u \in User, AssumeRead(r, d, u) PROVE Follows
    BY <2>6 DEF AssumeRead
  <2>7. ASSUME NEW d \in Demand, NEW u \in User, ReassignRead(r, d, u) PROVE Follows
    BY <2>7 DEF ReassignRead
  <2>8. ASSUME NEW d \in Demand, NEW u \in User, ReturnRead(r, d, u) PROVE Follows
    BY <2>8 DEF ReturnRead
  <2>9. ASSUME NEW d \in Demand, MirrorRead(r, d) PROVE Follows
    BY <2>9 DEF MirrorRead
  <2> HIDE DEF TypeOK, Handlers, At, Continue, TellNext, Finish, Follows
  <2>. QED
    BY <1>1, <2>1, <2>2, <2>3, <2>4, <2>5, <2>6, <2>7, <2>8, <2>9 DEF Start
<1>2. ASSUME NEW r \in Request, Proceed(r) PROVE Follows
  <2>1. CASE AssumeClaim(r)
    BY <2>1 DEF AssumeClaim
  <2>2. CASE ReassignWrite(r)
    BY <2>2 DEF ReassignWrite
  <2>3. CASE ReturnAsk(r)
    BY <2>3 DEF ReturnAsk
  <2>4. CASE ReturnNow(r)
    BY <2>4 DEF ReturnNow
  <2>5. CASE ApproveReturn(r)
    BY <2>5 DEF ApproveReturn
  <2>6. CASE ApproveDecide(r)
    BY <2>6 DEF ApproveDecide
  <2>7. CASE CancelQueued(r)
    BY <2>7 DEF CancelQueued
  <2>8. CASE CancelStamp(r)
    BY <2>8 DEF CancelStamp
  <2>9. CASE AnalysisReread(r)
    BY <2>9 DEF AnalysisReread
  <2>10. CASE CompleteProject(r)
    BY <2>10 DEF CompleteProject
  <2>11. CASE Conclude(r)
    BY <2>11 DEF Conclude
  <2>12. CASE ConcludeClose(r)
    BY <2>12 DEF ConcludeClose
  <2>13. CASE ConcludeReread(r)
    BY <2>13 DEF ConcludeReread
  <2>14. CASE Tell(r)
    BY <2>14 DEF Tell
  <2>15. CASE Refused(r)
    BY <2>15 DEF Refused
  <2>16. CASE MirrorRefer(r)
    BY <2>16 DEF MirrorRefer
  <2>17. CASE Mirror(r)
    BY <2>17 DEF Mirror
  <2>18. CASE Fails(r)
    BY <2>18 DEF Fails
  <2> HIDE DEF TypeOK, Handlers, At, Continue, TellNext, Finish, Follows
  <2>. QED
    BY <1>2, <2>1, <2>2, <2>3, <2>4, <2>5, <2>6, <2>7, <2>8, <2>9, <2>10, <2>11, <2>12, <2>13,
       <2>14, <2>15, <2>16, <2>17, <2>18 DEF Proceed
<1>3. ASSUME NEW d \in Demand, AtOnce(d) PROVE Follows
  <2>1. CASE Create(d)
    BY <2>1 DEF Create
  <2>2. CASE Reject(d)
    BY <2>2 DEF Reject
  <2>3. CASE CancelAgain(d)
    BY <2>3 DEF CancelAgain
  <2>4. CASE Reopen(d)
    BY <2>4 DEF Reopen
  <2>5. CASE DeleteProject(d)
    BY <2>5 DEF DeleteProject
  <2>6. CASE Purge(d)
    BY <2>6 DEF Purge
  <2>7. ASSUME NEW u \in User, ProjectHere(d, u) PROVE Follows
    BY <2>7 DEF ProjectHere
  <2>8. ASSUME NEW u \in User, TransferOwner(d, u) PROVE Follows
    BY <2>8 DEF TransferOwner
  <2> HIDE DEF TypeOK, Handlers, At, Continue, TellNext, Finish, Follows
  <2>. QED
    BY <1>3, <2>1, <2>2, <2>3, <2>4, <2>5, <2>6, <2>7, <2>8 DEF AtOnce
<1>4. CASE Crash
  BY <1>4 DEF Crash
<1>5. CASE UNCHANGED vars
  BY <1>5 DEF vars
<1> HIDE DEF TypeOK, Handlers, At, Continue, TellNext, Finish, Follows
<1>. QED
  BY <1>1, <1>2, <1>3, <1>4, <1>5 DEF Next

\* The step, seen through the refinement mapping, is a step of the contract.
Maps == Contract!Next \/ UNCHANGED Contract!vars

\* A step that moves, tells and gives birth to nothing is invisible.
LEMMA StutterMaps ==
  ASSUME status' = status, told' = told, born' = born
  PROVE  Maps
BY DEF Maps, Contract!vars

\* A legal move of one demand that gives birth exactly when it moves to
\* "assigned" is a Move of the contract.
LEMMA MoveMaps ==
  ASSUME TypeOK, NEW d \in Demand, NEW s \in Status,
         <<status[d], s>> \in Contract!Legal,
         status' = [status EXCEPT ![d] = s], told' = told,
         \A e \in Demand : born'[e] > 0 <=> born[e] > 0 \/ (e = d /\ s = "assigned")
  PROVE  Contract!Next
<1> DEFINE taken == [e \in Demand |-> born[e] > 0]
<1>1. [e \in Demand |-> born'[e] > 0] = [taken EXCEPT ![d] = taken[d] \/ s = "assigned"]
  <2>1. \A e \in Demand : (born'[e] > 0) = (born[e] > 0 \/ (e = d /\ s = "assigned"))
    OBVIOUS
  <2>2. [e \in Demand |-> born'[e] > 0] = [e \in Demand |-> born[e] > 0 \/ (e = d /\ s =
      "assigned")]
    BY <2>1
  <2>3. \A e \in Demand : (born[e] > 0 \/ (e = d /\ s = "assigned"))
                            = (IF e = d THEN taken[d] \/ s = "assigned" ELSE taken[e])
    <3>1. \A e \in Demand : taken[e] = (born[e] > 0)
      BY Zenon
    <3>. SUFFICES ASSUME NEW e \in Demand
                  PROVE  (born[e] > 0 \/ (e = d /\ s = "assigned"))
                           = (IF e = d THEN taken[d] \/ s = "assigned" ELSE taken[e])
      OBVIOUS
    <3>2. CASE e = d
      BY <3>1, <3>2, Zenon
    <3>3. CASE e # d
      <4>1. (born[e] > 0 \/ (e = d /\ s = "assigned")) = (born[e] > 0)
        BY <3>3
      <4>. QED
        BY <3>1, <3>3, <4>1, Zenon
    <3>. QED
      BY <3>2, <3>3
  <2>4. [taken EXCEPT ![d] = taken[d] \/ s = "assigned"]
          = [e \in Demand |-> IF e = d THEN taken[d] \/ s = "assigned" ELSE taken[e]]
    BY Zenon
  <2>. QED
    BY <2>2, <2>3, <2>4
<1>2. Contract!Move(d)
  BY <1>1 DEF Contract!Move, Contract!Status, Contract!Owned, Contract!Ended, Status, Owned, Ended
<1>. QED
  BY <1>2 DEF Contract!Next

\* Telling a milestone is a Tell of the contract, or nothing when the purge came
\* first: the debt says that it happened and was not told.
LEMMA TellMaps ==
  ASSUME TypeOK, Handlers, OneProject, Debts, TakenWhenOwed, NEW r \in Request, Tell(r)
  PROVE  Maps
<1> DEFINE d == req[r].d
           m == req[r].mark
<1>1. d \in Demand /\ m \in Mark /\ Owes(r, d, m)
  BY DEF Tell, Handlers, At, Owes
<1>2. told[d][m] = 0 /\ status[d] \notin Before(m)
  BY <1>1 DEF Debts
<1>3. status' = status /\ born' = born
  BY DEF Tell, demandVars, projectVars
<1>4. CASE status[d] = "purged"
  <2>1. told' = told
    BY <1>1, <1>4 DEF Tell, TypeOK
  <2>. QED
    BY <1>3, <2>1, StutterMaps
<1>5. CASE status[d] # "purged"
  <2>1. told' = [told EXCEPT ![d][m] = 1]
    BY <1>1, <1>2, <1>5 DEF Tell
  <2>2. m \in Contract!EndMark => status[d] = Contract!EndOf(m)
    BY <1>1, <1>2, <1>5 DEF Before, Contract!EndMark, Contract!EndOf, TypeOK, Status, Owned, Ended
  <2>3. m \notin Contract!EndMark => [e \in Demand |-> born[e] > 0][d]
    BY <1>1 DEF TakenWhenOwed
  <2>4. Contract!Tell(d, m)
    <3> HIDE DEF d, m
    <3>. QED
      BY <1>2, <1>3, <1>5, <2>1, <2>2, <2>3 DEF Contract!Tell
  <2>. QED
    BY <1>1, <2>4 DEF Maps, Contract!Next, Contract!Mark, Mark
<1>. QED
  BY <1>4, <1>5

\* Every step of the handlers is a step of the contract or a stutter.
LEMMA MapsStep ==
  TypeOK /\ Handlers /\ OneProject /\ Debts /\ TakenWhenOwed /\ [Next]_vars => Maps
<1> SUFFICES ASSUME TypeOK, Handlers, OneProject, Debts, TakenWhenOwed, [Next]_vars
             PROVE  Maps
  OBVIOUS
<1> USE DEF TypeOK, Handlers, RequestState, Idle, Steps, Mark, Status, Owned, Ended, At,
    Continue, TellNext, Finish, demandVars, projectVars
<1>1. ASSUME NEW r \in Request, Start(r) PROVE Maps
  <2>1. ASSUME NEW d \in Demand, CancelRead(r, d) PROVE Maps
    BY <2>1, StutterMaps DEF CancelRead
  <2>2. ASSUME NEW d \in Demand, CancelClose(r, d) PROVE Maps
    <3>1. d \in Demand /\ <<status[d], "cancelled">> \in Contract!Legal
      BY <2>2 DEF CancelClose, Contract!Legal, Contract!Arrivals, Contract!Owned,
         Contract!Ended, Contract!Status
    <3>2. status' = [status EXCEPT ![d] = "cancelled"] /\ told' = told
      BY <2>2 DEF CancelClose
    <3>3. \A e \in Demand : born'[e] > 0 <=> born[e] > 0 \/ (e = d /\ "cancelled" = "assigned")
      BY <2>2 DEF CancelClose
    <3>. QED
      BY <3>1, <3>2, <3>3, MoveMaps DEF Maps, Status
  <2>3. ASSUME NEW d \in Demand, ApproveRead(r, d) PROVE Maps
    BY <2>3, StutterMaps DEF ApproveRead
  <2>4. ASSUME NEW d \in Demand, AnalysisStart(r, d) PROVE Maps
    <3>1. d \in Demand /\ <<status[d], "in_analysis">> \in Contract!Legal
      BY <2>4 DEF AnalysisStart, Contract!Legal, Contract!Arrivals, Contract!Owned,
         Contract!Ended, Contract!Status
    <3>2. status' = [status EXCEPT ![d] = "in_analysis"] /\ told' = told
      BY <2>4 DEF AnalysisStart
    <3>3. \A e \in Demand : born'[e] > 0 <=> born[e] > 0 \/ (e = d /\ "in_analysis" = "assigned")
      BY <2>4 DEF AnalysisStart
    <3>. QED
      BY <3>1, <3>2, <3>3, MoveMaps DEF Maps, Status
  <2>5. ASSUME NEW d \in Demand, CompleteRead(r, d) PROVE Maps
    BY <2>5, StutterMaps DEF CompleteRead
  <2>6. ASSUME NEW d \in Demand, NEW u \in User, AssumeRead(r, d, u) PROVE Maps
    BY <2>6, StutterMaps DEF AssumeRead
  <2>7. ASSUME NEW d \in Demand, NEW u \in User, ReassignRead(r, d, u) PROVE Maps
    BY <2>7, StutterMaps DEF ReassignRead
  <2>8. ASSUME NEW d \in Demand, NEW u \in User, ReturnRead(r, d, u) PROVE Maps
    BY <2>8, StutterMaps DEF ReturnRead
  <2>9. ASSUME NEW d \in Demand, MirrorRead(r, d) PROVE Maps
    BY <2>9, StutterMaps DEF MirrorRead
  <2> HIDE DEF TypeOK, Handlers, At, Continue, TellNext, Finish
  <2>. QED
    BY <1>1, <2>1, <2>2, <2>3, <2>4, <2>5, <2>6, <2>7, <2>8, <2>9 DEF Start
<1>2. ASSUME NEW r \in Request, Proceed(r) PROVE Maps
  <2>1. CASE AssumeClaim(r)
    <3>1. req[r].d \in Demand /\ <<status[req[r].d], "assigned">> \in Contract!Legal
      BY <2>1 DEF AssumeClaim, Contract!Legal, Contract!Arrivals, Contract!Owned,
         Contract!Ended, Contract!Status
    <3>2. status' = [status EXCEPT ![req[r].d] = "assigned"] /\ told' = told
      BY <2>1 DEF AssumeClaim
    <3>3. \A e \in Demand : born'[e] > 0 <=> born[e] > 0 \/ (e = req[r].d /\ "assigned" =
        "assigned")
      BY <2>1 DEF AssumeClaim
    <3>. QED
      BY <3>1, <3>2, <3>3, MoveMaps DEF Maps, Status
  <2>2. CASE ReassignWrite(r)
    BY <2>2, StutterMaps DEF ReassignWrite
  <2>3. CASE ReturnAsk(r)
    BY <2>3, StutterMaps DEF ReturnAsk
  <2>4. CASE ReturnNow(r)
    <3>1. req[r].d \in Demand /\ <<status[req[r].d], "returned">> \in Contract!Legal
      BY <2>4 DEF ReturnNow, Contract!Legal, Contract!Arrivals, Contract!Owned, Contract!Ended,
         Contract!Status
    <3>2. status' = [status EXCEPT ![req[r].d] = "returned"] /\ told' = told
      BY <2>4 DEF ReturnNow
    <3>3. \A e \in Demand : born'[e] > 0 <=> born[e] > 0 \/ (e = req[r].d /\ "returned" =
        "assigned")
      BY <2>4 DEF ReturnNow
    <3>. QED
      BY <3>1, <3>2, <3>3, MoveMaps DEF Maps, Status
  <2>5. CASE ApproveReturn(r)
    <3>1. req[r].d \in Demand /\ <<status[req[r].d], "returned">> \in Contract!Legal
      BY <2>5 DEF ApproveReturn, Contract!Legal, Contract!Arrivals, Contract!Owned,
         Contract!Ended, Contract!Status
    <3>2. status' = [status EXCEPT ![req[r].d] = "returned"] /\ told' = told
      BY <2>5 DEF ApproveReturn
    <3>3. \A e \in Demand : born'[e] > 0 <=> born[e] > 0 \/ (e = req[r].d /\ "returned" =
        "assigned")
      BY <2>5 DEF ApproveReturn
    <3>. QED
      BY <3>1, <3>2, <3>3, MoveMaps DEF Maps, Status
  <2>6. CASE ApproveDecide(r)
    BY <2>6, StutterMaps DEF ApproveDecide
  <2>7. CASE CancelQueued(r)
    <3>1. req[r].d \in Demand /\ <<status[req[r].d], "cancelled">> \in Contract!Legal
      BY <2>7 DEF CancelQueued, Contract!Legal, Contract!Arrivals, Contract!Owned,
         Contract!Ended, Contract!Status
    <3>2. status' = [status EXCEPT ![req[r].d] = "cancelled"] /\ told' = told
      BY <2>7 DEF CancelQueued
    <3>3. \A e \in Demand : born'[e] > 0 <=> born[e] > 0 \/ (e = req[r].d /\ "cancelled" =
        "assigned")
      BY <2>7 DEF CancelQueued
    <3>. QED
      BY <3>1, <3>2, <3>3, MoveMaps DEF Maps, Status
  <2>8. CASE CancelStamp(r)
    BY <2>8, StutterMaps DEF CancelStamp
  <2>9. CASE AnalysisReread(r)
    BY <2>9, StutterMaps DEF AnalysisReread
  <2>10. CASE CompleteProject(r)
    BY <2>10, StutterMaps DEF CompleteProject
  <2>11. CASE Conclude(r)
    <3>1. req[r].d \in Demand /\ <<status[req[r].d], "completed">> \in Contract!Legal
      BY <2>11 DEF Conclude, Contract!Legal, Contract!Arrivals, Contract!Owned, Contract!Ended,
         Contract!Status
    <3>2. status' = [status EXCEPT ![req[r].d] = "completed"] /\ told' = told
      BY <2>11 DEF Conclude
    <3>3. \A e \in Demand : born'[e] > 0 <=> born[e] > 0 \/ (e = req[r].d /\ "completed" =
        "assigned")
      BY <2>11 DEF Conclude
    <3>. QED
      BY <3>1, <3>2, <3>3, MoveMaps DEF Maps, Status
  <2>12. CASE ConcludeClose(r)
    BY <2>12, StutterMaps DEF ConcludeClose
  <2>13. CASE ConcludeReread(r)
    BY <2>13, StutterMaps DEF ConcludeReread
  <2>14. CASE Tell(r)
    BY <2>14, TellMaps
  <2>15. CASE Refused(r)
    BY <2>15, StutterMaps DEF Refused
  <2>16. CASE MirrorRefer(r)
    BY <2>16, StutterMaps DEF MirrorRefer
  <2>17. CASE Mirror(r)
    <3>1. req[r].d \in Demand /\ <<status[req[r].d], "assigned">> \in Contract!Legal
      BY <2>17 DEF Mirror, Contract!Legal, Contract!Arrivals, Contract!Owned,
         Contract!Ended, Contract!Status
    <3>2. status' = [status EXCEPT ![req[r].d] = "assigned"] /\ told' = told
      BY <2>17 DEF Mirror
    <3>3. \A e \in Demand : born'[e] > 0 <=> born[e] > 0 \/ (e = req[r].d /\ "assigned" =
        "assigned")
      BY <2>17 DEF Mirror
    <3>. QED
      BY <3>1, <3>2, <3>3, MoveMaps DEF Maps, Status
  <2>18. CASE Fails(r)
    BY <2>18, StutterMaps DEF Fails
  <2> HIDE DEF TypeOK, Handlers, At, Continue, TellNext, Finish
  <2>. QED
    BY <1>2, <2>1, <2>2, <2>3, <2>4, <2>5, <2>6, <2>7, <2>8, <2>9, <2>10, <2>11, <2>12, <2>13,
       <2>14, <2>15, <2>16, <2>17, <2>18 DEF Proceed
<1>3. ASSUME NEW d \in Demand, AtOnce(d) PROVE Maps
  <2>1. CASE Create(d)
    <3>1. d \in Demand /\ <<status[d], "queued">> \in Contract!Legal
      BY <2>1 DEF Create, Contract!Legal, Contract!Arrivals, Contract!Owned, Contract!Ended,
         Contract!Status
    <3>2. status' = [status EXCEPT ![d] = "queued"] /\ told' = told
      BY <2>1 DEF Create
    <3>3. \A e \in Demand : born'[e] > 0 <=> born[e] > 0 \/ (e = d /\ "queued" = "assigned")
      BY <2>1 DEF Create
    <3>. QED
      BY <3>1, <3>2, <3>3, MoveMaps DEF Maps, Status
  <2>2. CASE Reject(d)
    BY <2>2, StutterMaps DEF Reject
  <2>3. CASE CancelAgain(d)
    BY <2>3, StutterMaps DEF CancelAgain
  <2>4. CASE Reopen(d)
    BY <2>4, StutterMaps DEF Reopen
  <2>5. CASE DeleteProject(d)
    BY <2>5, StutterMaps DEF DeleteProject
  <2>6. CASE Purge(d)
    <3>1. d \in Demand /\ <<status[d], "purged">> \in Contract!Legal
      BY <2>6 DEF Purge, Contract!Legal, Contract!Arrivals, Contract!Owned, Contract!Ended,
         Contract!Status
    <3>2. status' = [status EXCEPT ![d] = "purged"] /\ told' = told
      BY <2>6 DEF Purge
    <3>3. \A e \in Demand : born'[e] > 0 <=> born[e] > 0 \/ (e = d /\ "purged" = "assigned")
      BY <2>6 DEF Purge
    <3>. QED
      BY <3>1, <3>2, <3>3, MoveMaps DEF Maps, Status
  <2>7. ASSUME NEW u \in User, ProjectHere(d, u) PROVE Maps
    BY <2>7, StutterMaps DEF ProjectHere
  <2>8. ASSUME NEW u \in User, TransferOwner(d, u) PROVE Maps
    BY <2>8, StutterMaps DEF TransferOwner
  <2> HIDE DEF TypeOK, Handlers, At, Continue, TellNext, Finish
  <2>. QED
    BY <1>3, <2>1, <2>2, <2>3, <2>4, <2>5, <2>6, <2>7, <2>8 DEF AtOnce
<1>4. CASE Crash
  BY <1>4, StutterMaps DEF Crash
<1>5. CASE UNCHANGED vars
  BY <1>5, StutterMaps DEF vars
<1> HIDE DEF TypeOK, Handlers, At, Continue, TellNext, Finish
<1>. QED
  BY <1>1, <1>2, <1>3, <1>4, <1>5 DEF Next

\* Telling is what could add a second ending, and the debts say it tells of the
\* ending that happened.
LEMMA OneEndingStep ==
  TypeOK /\ Handlers /\ Debts /\ Debts' /\ OneEnding /\ [Next]_vars => OneEnding'
<1> USE DEF OneEnding, Contract!OneEnding, Contract!Mark, Contract!EndMark, Contract!EndOf, Mark
<1> SUFFICES ASSUME TypeOK, TypeOK', Handlers, Debts, Debts', OneEnding, [Next]_vars
             PROVE  OneEnding'
  BY TypeStep
<1>1. \A d \in Demand : \A m \in Mark : told'[d][m] <= 1
  BY DEF Debts
<1>2. \A d \in Demand : \A m \in Contract!EndMark :
        told'[d][m] > 0 => status'[d] \in {Contract!EndOf(m), "purged"}
  BY DEF Debts, Before, TypeOK, Status, Owned, Ended
<1>3. CASE told' = told
  BY <1>1, <1>2, <1>3
<1>4. ASSUME NEW r \in Request, Tell(r) PROVE OneEnding'
  <2> DEFINE e == req[r].d
  <2>1. \A d \in Demand : \A m \in Mark :
          told'[d][m] # told[d][m] => d = e /\ m = req[r].mark /\ status[e] # "purged"
    BY <1>4 DEF Tell, TypeOK
  <2>2. status' = status
    BY <1>4 DEF Tell, demandVars
  <2>. QED
    BY <1>1, <1>2, <2>1, <2>2
<1>. QED
  BY <1>3, <1>4, DebtChanges DEF DebtChange, KeepsDebts, MakesDebt

-----------------------------------------------------------------------------
(* The inductive invariant *)

\* The empty database satisfies the invariant.
LEMMA Initially == Init => IInv
<1> SUFFICES ASSUME Init PROVE IInv
  OBVIOUS
<1> USE DEF Init, Idle
<1>1. TypeOK
  BY CrashAssumption DEF TypeOK, RequestState, Steps, Status, Owned, Ended, Mark, ReturnState,
     CancelState, Answer, Source
<1>2. Handlers
  BY DEF Handlers, At
<1>3. OneProject /\ CancellationCoherent /\ OpenOnlyWhileConcluding
  BY DEF OneProject, CancellationCoherent, OpenOnlyWhileConcluding, Owned
<1>4. Debts /\ TakenWhenOwed
  BY DEF Debts, TakenWhenOwed, Owes, At, Contract!EndMark, Mark
<1>5. OneEnding
  <2>1. \A d \in Demand : \A m \in Contract!Mark : 
          told[d][m] <= 1 /\ ~(told[d][m] > 0)
    BY <1>1 DEF TypeOK, Contract!Mark, Mark
  <2>2. Contract!EndMark \subseteq Contract!Mark
    BY DEF Contract!Mark, Contract!EndMark
  <2> HIDE DEF Init
  <2>. QED
    BY <2>1, <2>2 DEF OneEnding, Contract!OneEnding
<1>. QED
  BY <1>1, <1>2, <1>3, <1>4, <1>5 DEF IInv

\* Every step keeps it.
LEMMA Inductive == IInv /\ [Next]_vars => IInv'
BY TypeStep, HandlersStep, OneProjectStep, CancellationStep, OpenOnlyStep, DebtsStep, TakenStep,
   OneEndingStep DEF IInv

\* So it always holds.
LEMMA Invariance == Spec => []IInv
<1>. QED
  BY Initially, Inductive, PTL DEF Spec

-----------------------------------------------------------------------------
(* The theorems *)

\* Every variable keeps its type, however many demands, people and handlers there
\* are: in particular no column ever takes a value outside its enumeration.
THEOREM TypeCorrect == Spec => []TypeOK
<1>1. IInv => TypeOK
  BY DEF IInv
<1>. QED
  BY <1>1, Invariance, PTL

\* However many people and paths try to take a demand at the same time, it gives
\* birth to one project, and its link never dangles (assumirDemanda).
THEOREM BornOnce == Spec => []OneProject
<1>1. IInv => OneProject
  BY DEF IInv
<1>. QED
  BY <1>1, Invariance, PTL

\* The status and the cancellation columns of a demand agree after every
\* interleaving of the paths that end it, and an answer "cancelled" given to the
\* CRM is never taken back.
THEOREM CancellationHolds == Spec => []CancellationCoherent
<1>1. IInv => CancellationCoherent
  BY DEF IInv
<1>. QED
  BY <1>1, Invariance, PTL

\* Without a crash, a request to cancel is open on a completed demand only while
\* concluirDemandaDoProjeto is about to close it.
THEOREM NothingLeftOpen == Spec => []OpenOnlyWhileConcluding
<1>1. IInv => OpenOnlyWhileConcluding
  BY DEF IInv
<1>. QED
  BY <1>1, Invariance, PTL

\* The CRM is told of one ending at most, once, and it is the one that happened,
\* with any number of handlers and of crashes.
THEOREM EndsOnce == Spec => []OneEnding
<1>1. IInv => OneEnding
  BY DEF IInv
<1>. QED
  BY <1>1, Invariance, PTL

\* Whoever becomes the assignee of a demand that has a project owns the project
\* from the same step on (assumirDemanda, reatribuirDemanda).
THEOREM ProjectFollows == Spec => ProjectFollowsAssignee
<1>1. IInv /\ [Next]_vars =>
        [\A d \in Demand : assignee'[d] # assignee[d] /\ status[d] # "none" /\ linked'[d] =>
           owner'[d] = assignee'[d]]_vars
  BY FollowsStep DEF IInv
<1>. QED
  BY <1>1, Invariance, PTL DEF Spec, ProjectFollowsAssignee

\* The concurrent handlers implement the contract the CRM relies on: each of their
\* steps is a legal move of one demand, the telling of one milestone that is true
\* and was not told, or nothing the CRM can see.
THEOREM Implementation == Spec => ImplementsContract
<1>1. Init => Contract!Init
  <2> SUFFICES ASSUME Init PROVE Contract!Init
    OBVIOUS
  <2>1. ASSUME NEW d \in Demand PROVE (born[d] > 0) = FALSE
    <3>1. born[d] = 0
      BY DEF Init
    <3>2. ~(0 > 0)
      OBVIOUS
    <3>. QED
      BY <3>1, <3>2
  <2>2. [d \in Demand |-> born[d] > 0] = [d \in Demand |-> FALSE]
    BY <2>1
  <2>. QED
    BY <2>2 DEF Init, Contract!Init, Contract!Mark, Mark
<1>2. IInv /\ [Next]_vars => [Contract!Next]_(Contract!vars)
  BY MapsStep DEF IInv, Maps
<1>. QED
  BY <1>1, <1>2, Invariance, PTL DEF Spec, ImplementsContract, Contract!Spec

=============================================================================
