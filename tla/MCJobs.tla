------------------------------- MODULE MCJobs -------------------------------
(***************************************************************************)
(* Small instances of five kinds of work that go on beside the requests:   *)
(* the outbound queue, the sweep of the deadlines, the update of the       *)
(* installation, the calls to the models under the cap, and the analyses.  *)
(* They share no row, so each is explored alone: moving says which one     *)
(* moves, among those of Moving.                                           *)
(***************************************************************************)
EXTENDS CrmOutbox, DemandSla, SystemUpdate, AiSpending, AnalysisWork

CONSTANTS d1, d2, w1, w2, t1, t2, c1, c2, a1, a2, bom, risks

CONSTANT Moving  \* which of the five this run explores

OneDemand == {1}

VARIABLE moving

allVars == <<outboxVars, slaVars, upVars, aiVars, workVars, moving>>

Init ==
  /\ OutboxInit /\ SlaInit /\ UpdateInit /\ SpendingInit /\ WorkInit
  /\ moving \in Moving

Queue ==
  /\ moving = "queue"
  /\ OutboxNext
  /\ UNCHANGED <<slaVars, upVars, aiVars, workVars, moving>>

Deadlines ==
  /\ moving = "deadlines"
  /\ SlaNext
  /\ UNCHANGED <<outboxVars, upVars, aiVars, workVars, moving>>

Update ==
  /\ moving = "update"
  /\ UpdateNext
  /\ UNCHANGED <<outboxVars, slaVars, aiVars, workVars, moving>>

Spending ==
  /\ moving = "spending"
  /\ SpendingNext
  /\ UNCHANGED <<outboxVars, slaVars, upVars, workVars, moving>>

Analysis ==
  /\ moving = "analysis"
  /\ WorkNext
  /\ UNCHANGED <<outboxVars, slaVars, upVars, aiVars, moving>>

Spec == Init /\ [][Queue \/ Deadlines \/ Update \/ Spending \/ Analysis]_allVars

\* The interval starts a drain again and again, a drain in progress goes on (every call
\* has a timeout), and waits end.
OutboxFairness ==
  /\ \A w \in Drainer : WF_outboxVars(moving = "queue" /\ DrainGoesOn(w))
  /\ WF_outboxVars(moving = "queue" /\ \E i \in Item : Tick(i))

\* The interval of server.ts fires every minute and a sweep runs to its end.
SlaFairness == \A w \in Sweep : WF_slaVars(moving = "deadlines" /\ SweepGoesOn(w))

\* A model answers or its call times out, and the server boots whenever it ends.
WorkFairness ==
  /\ \A w \in Work : WF_workVars(moving = "analysis" /\ WorkGoesOn(w))
  /\ WF_workVars(moving = "analysis" /\ SweepTasks)

\* Nothing is asked of the work that rests.
JobsSpec == Spec /\ OutboxFairness /\ SlaFairness /\ WorkFairness

\* The update is explored in a run of its own.
UpdateAloneSpec == Spec /\ UpdateFairness

\* The types of all but the queue, which has its own.
TypeOK == SlaTypeOK /\ UpdateTypeOK /\ SpendingTypeOK /\ WorkTypeOK

=============================================================================
