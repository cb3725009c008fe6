-------------------------- MODULE KnowledgeDelivery -------------------------
(***************************************************************************)
(* An entry of knowledge that the fleet manager has for this installation  *)
(* (runHeartbeatForTenant, utils/fleetLicense.ts): it comes with the       *)
(* answer of every heartbeat until its delivery is confirmed, is looked    *)
(* for in the local base, compared with what the base says by a call to a  *)
(* model (knowledgeBaseReconciliation.ts), created, and confirmed.         *)
(*                                                                         *)
(* One entry; each is delivered by itself.  Abstracted: the status the     *)
(* entry is created with, and what people do with it afterwards.           *)
(***************************************************************************)
EXTENDS Naturals

CONSTANTS
  Bearer,              \* heartbeats that may hold the entry at the same time
  MaxDeliveryTrouble   \* bound on crashes and lost confirmations

ASSUME DeliveryAssumption == MaxDeliveryTrouble \in Nat

VARIABLES
  pushed,    \* the entry at the fleet manager
  copies,    \* how many times it is in the local base
  paired,    \* ghost: two heartbeats once held it at the same time, between read and write
  bearer,    \* [Bearer -> BearerStep]
  deliveryTroubles

deliveryVars == <<pushed, copies, paired, bearer, deliveryTroubles>>

BearerStep == {"idle", "finding", "reconciling", "confirming"}

DeliveryTypeOK ==
  /\ pushed \in {"no", "waiting", "confirmed"}
  /\ copies \in Nat
  /\ paired \in BOOLEAN
  /\ bearer \in [Bearer -> BearerStep]
  /\ deliveryTroubles \in 0..MaxDeliveryTrouble
  /\ pushed = "no" => copies = 0

DeliveryInit ==
  /\ pushed = "no" /\ copies = 0 /\ paired = FALSE
  /\ bearer = [b \in Bearer |-> "idle"]
  /\ deliveryTroubles = 0

DeliveryTrouble ==
  /\ deliveryTroubles < MaxDeliveryTrouble
  /\ deliveryTroubles' = deliveryTroubles + 1

-----------------------------------------------------------------------------

\* External: the entry is sent to every installation.
Push ==
  /\ pushed = "no"
  /\ pushed' = "waiting"
  /\ UNCHANGED <<copies, paired, bearer, deliveryTroubles>>

\* A heartbeat's answer brings the entry, and the heartbeat comes as far as that.
Bring(b) ==
  /\ pushed = "waiting" /\ bearer[b] = "idle"
  /\ bearer' = [bearer EXCEPT ![b] = "finding"]
  /\ UNCHANGED <<pushed, copies, paired, deliveryTroubles>>

Received == copies > 0

\* findKnowledgeBaseEntryByFleetGlobalId; when it throws, the entry is passed over, as
\* when its creation does.
Find(b) ==
  /\ bearer[b] = "finding"
  /\ bearer' = [bearer EXCEPT ![b] = IF Received THEN "confirming" ELSE "reconciling"]
  /\ paired' = (paired \/ (~Received /\ \E c \in Bearer : bearer[c] = "reconciling"))
  /\ UNCHANGED <<pushed, copies, deliveryTroubles>>

\* reconcileIncomingKnowledgeEntry, minutes long: the entry is created, or the base says
\* it already, or its creation fails, which is swallowed.
Reconcile(b) ==
  /\ bearer[b] = "reconciling"
  /\ copies' \in {copies, copies + 1}
  /\ bearer' = [bearer EXCEPT ![b] = "confirming"]
  /\ UNCHANGED <<pushed, paired, deliveryTroubles>>

\* The delivery is confirmed, whatever became of the entry; a failure is swallowed, and
\* the fleet manager delivers again.
Confirm(b) ==
  /\ bearer[b] = "confirming"
  /\ \/ pushed' = "confirmed" /\ UNCHANGED deliveryTroubles
     \/ DeliveryTrouble /\ UNCHANGED pushed
  /\ bearer' = [bearer EXCEPT ![b] = "idle"]
  /\ UNCHANGED <<copies, paired>>

\* The process dies.
DeliveryCrash ==
  /\ DeliveryTrouble
  /\ bearer' = [b \in Bearer |-> "idle"]
  /\ UNCHANGED <<pushed, copies, paired>>

-----------------------------------------------------------------------------

DeliveryNext ==
  \/ Push \/ DeliveryCrash
  \/ \E b \in Bearer : Bring(b) \/ Find(b) \/ Reconcile(b) \/ Confirm(b)

DeliverySpec == DeliveryInit /\ [][DeliveryNext]_deliveryVars

-----------------------------------------------------------------------------

\* An entry the fleet manager delivers again, because its confirmation was lost, is not
\* created twice, unless two heartbeats looked for it before either created it
\* (fleetGlobalEntryId: "so it's never created twice").
StoredOnce == ~paired => copies <= 1

=============================================================================
