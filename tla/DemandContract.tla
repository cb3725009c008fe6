--------------------------- MODULE DemandContract ---------------------------
(***************************************************************************)
(* What a demand promises to the two sides that share it, whatever        *)
(* handlers carry it out: the state machine of the six states the         *)
(* database knows, and the milestones the CRM is told about.              *)
(*                                                                         *)
(* The CRM shows the seller one timeline per demand.  The contract is that *)
(* a demand ends at most once, that every milestone is told at most once,  *)
(* that a milestone is told only when it is true, and that the ending told *)
(* is the ending that happened.  DemandLifecycle, the concurrent handlers, *)
(* is shown to implement this module.                                      *)
(***************************************************************************)
EXTENDS Naturals

CONSTANT Demand

VARIABLES
  status,  \* [Demand -> Status]
  taken,   \* [Demand -> BOOLEAN] somebody on this side has been given the demand
  told     \* [Demand -> [Mark -> Nat]] how often each milestone was told to the CRM

vars == <<status, taken, told>>

\* The two states in which somebody works on the demand (ESTADOS_COM_DONO) and
\* the three in which it is over (ESTADOS_TERMINAIS).
Owned == {"assigned", "in_analysis"}
Ended == {"returned", "cancelled", "completed"}

\* "none": the row does not exist yet.  "purged": the purge deleted it.
Status == {"none", "queued", "purged"} \cup Owned \cup Ended

\* The milestones of EventoDeSaida that change or end the demand.  "reassigned",
\* which may repeat, and those of other components are not followed here.
Mark == {"assigned", "in_analysis", "returned", "cancellation_ack", "completed"}
EndMark == {"returned", "cancellation_ack", "completed"}

\* The ending each final milestone stands for.
EndOf(m) == CASE m = "returned"         -> "returned"
              [] m = "cancellation_ack" -> "cancelled"
              [] m = "completed"        -> "completed"

Arrivals == {<<"none", "queued">>, <<"none", "assigned">>}

Legal ==
  Arrivals
    \cup {<<"queued", "assigned">>, <<"queued", "cancelled">>}
    \cup {<<"assigned", "in_analysis">>}
    \cup Owned \X Ended
    \cup ((Status \ {"none", "purged"}) \X {"purged"})

TypeOK ==
  /\ status \in [Demand -> Status]
  /\ taken \in [Demand -> BOOLEAN]
  /\ told \in [Demand -> [Mark -> Nat]]

Init ==
  /\ status = [d \in Demand |-> "none"]
  /\ taken = [d \in Demand |-> FALSE]
  /\ told = [d \in Demand |-> [m \in Mark |-> 0]]

\* One move of one demand along the state machine; the first person is given the
\* demand by the move into "assigned", and only then.
Move(d) ==
  \E s \in Status :
    /\ <<status[d], s>> \in Legal
    /\ status' = [status EXCEPT ![d] = s]
    /\ taken' = [taken EXCEPT ![d] = taken[d] \/ s = "assigned"]
    /\ UNCHANGED told

\* A milestone may be told once, to a demand the purge has spared: the first
\* two once the demand was taken, a final one once the demand ended that way.
Tell(d, m) ==
  /\ told[d][m] = 0
  /\ status[d] # "purged"
  /\ m \in EndMark => status[d] = EndOf(m)
  /\ m \notin EndMark => taken[d]
  /\ told' = [told EXCEPT ![d][m] = 1]
  /\ UNCHANGED <<status, taken>>

Next == \E d \in Demand : Move(d) \/ \E m \in Mark : Tell(d, m)

Spec == Init /\ [][Next]_vars

-----------------------------------------------------------------------------

\* At most one ending is ever told of a demand, at most once, and while the row
\* exists it is the ending that happened: the timeline the seller reads never
\* shows both a completed and a cancelled demand.
OneEnding ==
  \A d \in Demand :
    /\ \A m \in Mark : told[d][m] <= 1
    /\ \A m, n \in EndMark : told[d][m] > 0 /\ told[d][n] > 0 => m = n
    /\ \A m \in EndMark : told[d][m] > 0 => status[d] \in {EndOf(m), "purged"}

=============================================================================
