------------------------------- MODULE MCDoors ------------------------------
(***************************************************************************)
(* Small instances of what this installation says to others and hears from *)
(* them: the keys of the machine door, the pairing with the CRM, the       *)
(* heartbeat, and the knowledge it brings.  They share no row, so each is  *)
(* explored alone: moving says which one moves.                            *)
(***************************************************************************)
EXTENDS Idempotency, Pairing, Heartbeat, KnowledgeDelivery

CONSTANTS q1, q2, g1, n1, h1, p1, b1, b2

HomeOfKey == [k \in PairKey |-> k]

VARIABLE moving

doorVars == <<vars, pairVars, beatVars, deliveryVars, moving>>

DoorInit ==
  /\ Init /\ PairingInit /\ HeartbeatInit /\ DeliveryInit
  /\ moving \in {"key", "pairing", "heartbeat", "knowledge"}

Keys ==
  moving = "key" /\ Next /\ UNCHANGED <<pairVars, beatVars, deliveryVars, moving>>

ThePairing ==
  moving = "pairing" /\ PairingNext /\ UNCHANGED <<vars, beatVars, deliveryVars, moving>>

TheHeartbeat ==
  moving = "heartbeat" /\ HeartbeatNext /\ UNCHANGED <<vars, pairVars, deliveryVars, moving>>

Knowledge ==
  moving = "knowledge" /\ DeliveryNext /\ UNCHANGED <<vars, pairVars, beatVars, moving>>

DoorSpec == DoorInit /\ [][Keys \/ ThePairing \/ TheHeartbeat \/ Knowledge]_doorVars

\* A request that lives goes on, time passes, and the CRM retries.
KeyFairness ==
  /\ \A r \in Request : WF_vars(Step(r))
  /\ WF_vars(Age)
  /\ WF_vars(moving = "key" /\ \E r \in Request, p \in Payload : Lookup(r, p))

\* What rests enables none of its actions, or is asked for none.
DoorFairSpec ==
  DoorSpec /\ KeyFairness /\ PairingFairness /\ HeartbeatFairness

\* The types of the four.
DoorTypeOK == TypeOK /\ PairingTypeOK /\ HeartbeatTypeOK /\ DeliveryTypeOK

=============================================================================
