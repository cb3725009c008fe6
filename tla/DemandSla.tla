------------------------------ MODULE DemandSla ------------------------------
(***************************************************************************)
(* The deadlines of a demand (utils/demandSla.ts, demandSlaService.ts): a  *)
(* sweep reads the open demands, records each deadline that has passed,    *)
(* once per demand and stage, and only what it has recorded it tells.      *)
(*                                                                         *)
(* A sweep holds what it read while the demands move on, and several run   *)
(* at once: an interval does not wait for the sweep before it, and a       *)
(* server that restarts meets the one it replaces.  A breach recorded is   *)
(* never looked at again: an alert that was not queued then is lost, as    *)
(* unheard remembers.  Of time, only whether the pending stage is late;    *)
(* what delivers the alert is CrmOutbox.                                   *)
(***************************************************************************)
EXTENDS Naturals, FiniteSets

CONSTANTS
  SlaDemand,     \* demands
  Sweep,         \* sweeps that may run at once
  Missable,      \* bound on the stages whose deadline may pass
  MaxSlaMishaps  \* bound on the sweeps that die and the alerts that cannot be queued

ASSUME SlaBounds == MaxSlaMishaps \in Nat

VARIABLES
  stage,    \* [SlaDemand -> the stage that is due, or how it ended]
  late,     \* the demands whose pending stage is past its deadline
  breach,   \* [SlaDemand -> SUBSET Stage]: the rows of demand_sla_breaches
  told,     \* [SlaDemand -> [Stage -> Nat]]: how often sla_breached was queued
  sweep,    \* [Sweep -> what it has left, and what it is telling]
  unheard,  \* ghost: the breaches whose alert was lost after they were recorded
  slaMishaps

slaVars == <<stage, late, breach, told, sweep, unheard, slaMishaps>>

Stage == {"assume", "analysis", "proposal"}
Violation == SlaDemand \X Stage
Resting == [step |-> "resting", left |-> {}, on |-> {}]

\* Every breach is told at most once, and nothing is told that was not recorded.
SlaTypeOK ==
  /\ stage \in [SlaDemand -> Stage \cup {"ended", "purged"}]
  /\ late \subseteq {d \in SlaDemand : stage[d] \in Stage}
  /\ breach \in [SlaDemand -> SUBSET Stage]
  /\ told \in [SlaDemand -> [Stage -> 0..1]]
  /\ \A d \in SlaDemand, s \in Stage :
       told[d][s] > 0 => s \in breach[d] \/ stage[d] = "purged"
  /\ sweep \in [Sweep -> [step : {"resting", "sweeping"}, left : SUBSET Violation,
                          on : SUBSET Violation]]
  /\ \A w \in Sweep : Cardinality(sweep[w].on) <= 1
  /\ unheard \subseteq Violation
  /\ slaMishaps \in 0..MaxSlaMishaps

SlaInit ==
  /\ stage = [d \in SlaDemand |-> "assume"]
  /\ late = {}
  /\ breach = [d \in SlaDemand |-> {}]
  /\ told = [d \in SlaDemand |-> [s \in Stage |-> 0]]
  /\ sweep = [w \in Sweep |-> Resting]
  /\ unheard = {}
  /\ slaMishaps = 0

-----------------------------------------------------------------------------
(* The demands, as routes/demands.ts and the door of the CRM move them *)

Follows(s) == CASE s = "assume" -> "analysis" [] s = "analysis" -> "proposal" [] OTHER -> "ended"

\* A stage ends when the next one opens, with a deadline of its own; any stage may be
\* the last, by a return or a cancellation.
Moves(d, s) ==
  /\ stage' = [stage EXCEPT ![d] = s]
  /\ late' = late \ {d}
  /\ UNCHANGED <<breach, told, sweep, unheard, slaMishaps>>

Advance(d) == stage[d] \in Stage /\ Moves(d, Follows(stage[d]))
EndDemand(d) == stage[d] \in Stage /\ Moves(d, "ended")

DeadlinePasses(d) ==
  /\ stage[d] \in Stage \cap Missable /\ d \notin late
  /\ late' = late \cup {d}
  /\ UNCHANGED <<stage, breach, told, sweep, unheard, slaMishaps>>

\* The purge deletes the demand, and with it its breaches.
PurgeDemand(d) ==
  /\ stage[d] # "purged"
  /\ stage' = [stage EXCEPT ![d] = "purged"]
  /\ late' = late \ {d}
  /\ breach' = [breach EXCEPT ![d] = {}]
  /\ UNCHANGED <<told, sweep, unheard, slaMishaps>>

-----------------------------------------------------------------------------
(* varrerPrazos *)

\* avaliarViolacoes: the stage that is pending and late, of every open demand.
Violations == {<<d, stage[d]>> : d \in late}

SweepReads(w) ==
  /\ sweep[w] = Resting
  /\ Violations # {}
  /\ sweep' = [sweep EXCEPT ![w] = [step |-> "sweeping", left |-> Violations, on |-> {}]]
  /\ UNCHANGED <<stage, late, breach, told, unheard, slaMishaps>>

\* Mutant of MayRecord: no unique index.
MayRecordAgain(d, s) == stage[d] # "purged"

\* The unique index on demand and stage, and the demand the row refers to.
MayRecord(d, s) == stage[d] # "purged" /\ s \notin breach[d]

\* Mutant of AfterKnown: the deadline that is known ends the sweep.
AfterKnownStop(w, v) == {}

\* A deadline that cannot be recorded is skipped, and the next one is looked at.
AfterKnown(w, v) == sweep[w].left \ {v}

Record(w) ==
  /\ sweep[w].on = {}
  /\ \E v \in sweep[w].left :
       IF MayRecord(v[1], v[2])
         THEN /\ breach' = [breach EXCEPT ![v[1]] = @ \cup {v[2]}]
              /\ sweep' = [sweep EXCEPT ![w].left = @ \ {v}, ![w].on = {v}]
         ELSE /\ sweep' = [sweep EXCEPT ![w].left = AfterKnown(w, v)]
              /\ UNCHANGED breach
  /\ UNCHANGED <<stage, late, told, unheard, slaMishaps>>

\* empurrarMarcoDaDemanda: sla_breached is queued, unless the demand is gone.
Tell(w) ==
  /\ \E v \in sweep[w].on :
       told' = [told EXCEPT ![v[1]][v[2]] = IF stage[v[1]] = "purged" THEN @ ELSE @ + 1]
  /\ sweep' = [sweep EXCEPT ![w].on = {}]
  /\ UNCHANGED <<stage, late, breach, unheard, slaMishaps>>

Mishap == slaMishaps < MaxSlaMishaps /\ slaMishaps' = slaMishaps + 1

\* gravar: the insert fails, the error is logged, and the sweep goes on with the next.
CannotTell(w) ==
  /\ sweep[w].on # {}
  /\ Mishap
  /\ unheard' = unheard \cup sweep[w].on
  /\ sweep' = [sweep EXCEPT ![w].on = {}]
  /\ UNCHANGED <<stage, late, breach, told>>

SweepEnds(w) ==
  /\ sweep[w].step = "sweeping" /\ sweep[w].left = {} /\ sweep[w].on = {}
  /\ sweep' = [sweep EXCEPT ![w] = Resting]
  /\ UNCHANGED <<stage, late, breach, told, unheard, slaMishaps>>

\* The process dies; the next interval begins afresh, with what was not recorded.
SweepDies(w) ==
  /\ sweep[w] # Resting
  /\ Mishap
  /\ unheard' = unheard \cup sweep[w].on
  /\ sweep' = [sweep EXCEPT ![w] = Resting]
  /\ UNCHANGED <<stage, late, breach, told>>

-----------------------------------------------------------------------------

SweepGoesOn(w) == SweepReads(w) \/ Record(w) \/ Tell(w) \/ SweepEnds(w)

SlaNext ==
  \/ \E d \in SlaDemand : Advance(d) \/ EndDemand(d) \/ DeadlinePasses(d) \/ PurgeDemand(d)
  \/ \E w \in Sweep : SweepGoesOn(w) \/ CannotTell(w) \/ SweepDies(w)

SlaSpec == SlaInit /\ [][SlaNext]_slaVars

-----------------------------------------------------------------------------

\* A deadline was missed and nobody told.
Untold(d) == d \in late /\ told[d][stage[d]] = 0

\* A deadline that stays missed is told: unless the demand moves on before a sweep comes by,
\* its alert is queued, whatever other deadlines were known before, whichever sweeps overlap
\* and wherever one dies.  Excused is that alert alone which was lost between the breach and
\* its queueing (the order of varrerPrazos): no later sweep looks at it again.
LateIsTold ==
  \A d \in SlaDemand : Untold(d) ~> ~Untold(d) \/ <<d, stage[d]>> \in unheard

=============================================================================
