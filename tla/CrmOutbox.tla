------------------------------ MODULE CrmOutbox -----------------------------
(***************************************************************************)
(* The outbound queue (utils/crmOutbox.ts): milestones and portraits of the*)
(* project wait in demand_outbound_events, and drenarFila delivers them.   *)
(* A drain starts after every enqueuing, without waiting for those that run*)
(* already, and every 20 seconds; it works on the list it read, and each   *)
(* of its writes addresses a row by its id alone.                          *)
(*                                                                         *)
(* Items are numbered in creation order.  The CRM keeps one entry per      *)
(* idempotency key, so delivering an item again changes nothing there.     *)
(* Time is abstracted to whether an item is due: the ladder of waits grows *)
(* but always ends.                                                        *)
(*                                                                         *)
(* Abstracted: the four kinds of message (they share the queue and its     *)
(* order), the bodies, the checks of the proposal's file, and the tenant   *)
(* (each has a queue of its own).                                          *)
(***************************************************************************)
EXTENDS Naturals

CONSTANTS
  Demand,       \* demands of one tenant, numbers: the drain visits them in this order
  Refusing,     \* demands some of whose messages the CRM refuses for good
  Drainer,      \* drains that may run at the same time
  MaxItems,     \* bound on the messages explored
  MaxAttempts,  \* MAX_TENTATIVAS
  MaxFaults,    \* bound on the calls, and the destinations, that fail for a while
  MaxCrashes    \* bound on the crashes explored

ASSUME DemandAssumption == Demand \subseteq Nat \ {0} /\ Refusing \subseteq Demand

ASSUME OutboxBounds ==
  /\ MaxItems \in Nat /\ MaxFaults \in Nat /\ MaxCrashes \in Nat
  /\ MaxAttempts \in Nat \ {0}

Item == 1..MaxItems

VARIABLES
  of,        \* [Item -> Demand or 0]: the demand of the item, 0 before it is enqueued
  status,    \* [Item -> Status]: demand_outbound_events.status
  attempts,  \* [Item -> Nat]
  due,       \* [Item -> BOOLEAN]: next_attempt_at has passed
  received,  \* the items the CRM has recorded
  drain,     \* [Drainer -> DrainState]: drains in progress
  purged,    \* demands the purge has deleted
  faults, crashes

rows == <<of, status, attempts, due>>
outboxVars == <<rows, received, drain, purged, faults, crashes>>

\* "absent": not enqueued yet, or deleted with its demand.
Status == {"absent", "pendente", "enviado", "descartado", "falhou"}
Result == {"none", "ok", "refused", "error"}

DrainState ==
  [step : {"idle", "resolving", "sending", "marking", "postponing", "discarding"},
   todo : SUBSET Item, seen : [Item -> Nat], item : Item \cup {0}, result : Result]

OutboxIdle == [step |-> "idle", todo |-> {}, seen |-> [i \in Item |-> 0], item |-> 0,
         result |-> "none"]

OutboxTypeOK ==
  /\ of \in [Item -> Demand \cup {0}]
  /\ status \in [Item -> Status]
  /\ attempts \in [Item -> Nat]
  /\ due \in [Item -> BOOLEAN]
  /\ received \subseteq Item
  /\ drain \in [Drainer -> DrainState]
  /\ purged \subseteq Demand
  /\ faults \in 0..MaxFaults /\ crashes \in 0..MaxCrashes
  /\ \A i \in Item : status[i] = "absent" <=> (of[i] = 0 \/ of[i] \in purged)

OutboxInit ==
  /\ of = [i \in Item |-> 0]
  /\ status = [i \in Item |-> "absent"]
  /\ attempts = [i \in Item |-> 0]
  /\ due = [i \in Item |-> FALSE]
  /\ received = {}
  /\ drain = [w \in Drainer |-> OutboxIdle]
  /\ purged = {}
  /\ faults = 0 /\ crashes = 0

-----------------------------------------------------------------------------

\* gravar: a new key becomes a pending item, due at once.  The key of a fact that is
\* queued already meets the unique index and writes nothing.
Enqueue(i, d) ==
  /\ of[i] = 0
  /\ \A j \in Item : j < i => of[j] # 0
  /\ d \notin purged
  /\ of' = [of EXCEPT ![i] = d]
  /\ status' = [status EXCEPT ![i] = "pendente"]
  /\ due' = [due EXCEPT ![i] = TRUE]
  /\ UNCHANGED <<attempts, received, drain, purged, faults, crashes>>

\* The wait of a postponed item ends.
Tick(i) ==
  /\ status[i] = "pendente"
  /\ ~due[i]
  /\ due' = [due EXCEPT ![i] = TRUE]
  /\ UNCHANGED <<of, status, attempts, received, drain, purged, faults, crashes>>

\* The purge deletes the demand, and its items with it.
Purge(d) ==
  /\ d \notin purged
  /\ purged' = purged \cup {d}
  /\ status' = [i \in Item |-> IF of[i] = d THEN "absent" ELSE status[i]]
  /\ UNCHANGED <<of, attempts, due, received, drain, faults, crashes>>

-----------------------------------------------------------------------------
(* One drain *)

OutboxAt(w, step) == drain[w].step = step

\* Mutant of Pending: the query leaves out what was tried MAX_TENTATIVAS times.
PendingUnderLimit == {i \in Item : status[i] = "pendente" /\ due[i] /\ attempts[i] < MaxAttempts}

Pending == {i \in Item : status[i] = "pendente" /\ due[i]}

\* The list: what is pending and due, with its attempts as they are now.
DrainRead(w) ==
  /\ OutboxAt(w, "idle")
  /\ Pending # {}
  /\ drain' = [drain EXCEPT ![w] =
                  [OutboxIdle EXCEPT !.step = "resolving", !.todo = Pending,
                               !.seen = [i \in Item |-> IF i \in Pending THEN attempts[i] ELSE 0]]]
  /\ UNCHANGED <<rows, received, purged, faults, crashes>>

\* resolverDestino: there is a destination, or there is none for now, or there will
\* be none until somebody changes the pairing.
Resolve(w) ==
  /\ OutboxAt(w, "resolving")
  /\ \/ /\ drain' = [drain EXCEPT ![w].step = "sending"]
        /\ UNCHANGED faults
     \/ /\ faults < MaxFaults
        /\ faults' = faults + 1
        /\ \E s \in {"postponing", "discarding"} : drain' = [drain EXCEPT ![w].step = s]
  /\ UNCHANGED <<rows, received, purged, crashes>>

\* Mutant of IsNext: the list is ordered by demand only.
IsNextByDemand(i, todo) == i \in todo /\ \A j \in todo : of[i] <= of[j]

\* The next of the list: by demand, then by creation.
IsNext(i, todo) ==
  /\ i \in todo
  /\ \A j \in todo : of[i] < of[j] \/ (of[i] = of[j] /\ i <= j)

\* The drain goes on with the rest of its list, or ends.
GoesOn(w, step, todo) ==
  IF todo = {} THEN OutboxIdle
  ELSE [drain[w] EXCEPT !.step = step, !.todo = todo, !.item = 0, !.result = "none",
                        !.seen = [i \in Item |-> IF i \in todo THEN @[i] ELSE 0]]

\* The row was deleted since the list was read: updateMany writes no row.
Gone(i) == status[i] = "absent"

\* Without a destination every item of the list is postponed, however often it was
\* before, or discarded.
NoDestination(w) ==
  \E i \in drain[w].todo :
    /\ IsNext(i, drain[w].todo)
    /\ \/ /\ OutboxAt(w, "postponing")
          /\ due' = [due EXCEPT ![i] = IF Gone(i) THEN @ ELSE FALSE]
          /\ UNCHANGED status
       \/ /\ OutboxAt(w, "discarding")
          /\ status' = [status EXCEPT ![i] = IF Gone(i) THEN @ ELSE "descartado"]
          /\ UNCHANGED due
    /\ attempts' = [attempts EXCEPT ![i] = IF Gone(i) THEN @ ELSE @ + 1]
    /\ drain' = [drain EXCEPT ![w] = GoesOn(w, drain[w].step, drain[w].todo \ {i})]
    /\ UNCHANGED <<of, received, purged, faults, crashes>>

\* External.  The CRM answers 200 to what it has already; it may refuse a demand's
\* messages, and what arrives before something older of the same demand.
CrmMayRefuse(i) ==
  /\ i \notin received
  /\ \/ of[i] \in Refusing
     \/ \E j \in Item \ received : of[j] = of[i] /\ j < i

\* The call: answered, refused for good, or failed - before the CRM recorded the
\* message or after.
Send(w) ==
  \E i \in drain[w].todo, result \in Result \ {"none"} :
    /\ OutboxAt(w, "sending")
    /\ IsNext(i, drain[w].todo)
    /\ drain' = [drain EXCEPT ![w].step = "marking", ![w].item = i, ![w].result = result]
    /\ \/ result = "ok" /\ received' = received \cup {i} /\ UNCHANGED faults
       \/ result = "refused" /\ CrmMayRefuse(i) /\ UNCHANGED <<received, faults>>
       \/ /\ result = "error" /\ faults < MaxFaults /\ faults' = faults + 1
          /\ received' \in {received, received \cup {i}}
    /\ UNCHANGED <<rows, purged, crashes>>

SameDemand(i) == {j \in Item : of[j] = of[i]}

\* travadas: after a failure the drain leaves the rest of that demand alone.
Remaining(todo, i, result) == todo \ (IF result = "ok" THEN {i} ELSE SameDemand(i))

\* Mutant of Marked: whatever was sent is sent.
MarkedSent(result, tries) == "enviado"

\* The status a result gives the item, "pendente" meaning that it is left as it is:
\* a failure gives up only at the last attempt, counted from the list.
Marked(result, tries) ==
  CASE result = "ok"      -> "enviado"
    [] result = "refused" -> "descartado"
    [] result = "error"   -> IF tries >= MaxAttempts THEN "falhou" ELSE "pendente"

\* The row is written, by its id, whatever has become of it.
Mark(w) ==
  LET i == drain[w].item
      result == drain[w].result
      tries == drain[w].seen[i] + 1
      new == Marked(result, tries) IN
  /\ OutboxAt(w, "marking")
  /\ status' = [status EXCEPT ![i] = IF Gone(i) \/ new = "pendente" THEN @ ELSE new]
  /\ attempts' = [attempts EXCEPT ![i] =
                    IF Gone(i) THEN @ ELSE IF result = "error" THEN tries ELSE @ + 1]
  /\ due' = [due EXCEPT ![i] = IF Gone(i) \/ new # "pendente" THEN @ ELSE FALSE]
  /\ drain' = [drain EXCEPT ![w] = GoesOn(w, "sending", Remaining(drain[w].todo, i, result))]
  /\ UNCHANGED <<of, received, purged, faults, crashes>>

\* The process dies: the rows and what the CRM has stay, the drains are lost.
OutboxCrash ==
  /\ crashes < MaxCrashes
  /\ crashes' = crashes + 1
  /\ drain' = [w \in Drainer |-> OutboxIdle]
  /\ UNCHANGED <<rows, received, purged, faults>>

-----------------------------------------------------------------------------

DrainGoesOn(w) == DrainRead(w) \/ Resolve(w) \/ NoDestination(w) \/ Send(w) \/ Mark(w)

OutboxNext ==
  \/ \E i \in Item : Tick(i) \/ \E d \in Demand : Enqueue(i, d)
  \/ \E d \in Demand : Purge(d)
  \/ \E w \in Drainer : DrainGoesOn(w)
  \/ OutboxCrash

OutboxSpec == OutboxInit /\ [][OutboxNext]_outboxVars

-----------------------------------------------------------------------------

\* What the queue shows as sent is recorded by the CRM, whichever of the concurrent
\* drains marked it, and whatever crashed (drenarFila).
SentWasReceived == \A i \in Item : status[i] = "enviado" => i \in received

\* i is older than j, of the same demand, still to be delivered, and j is there.
Overtaken(i, j) ==
  /\ i < j /\ of[i] = of[j] /\ status[i] = "pendente"
  /\ i \notin received /\ j \in received

\* Concurrent drains never reorder a demand's milestones by themselves: only an item
\* whose delivery was already postponed is ever overtaken (orderBy and travadas).
OnlyPostponedOvertaken ==
  \A i, j \in Item : Overtaken(i, j) => attempts[i] > 0

\* No milestone stays in the queue for ever, once the failures cease: it is delivered,
\* refused, given up after MAX_TENTATIVAS or purged, whatever the concurrent drains wrote
\* over each other's marks (drenarFila, startCrmOutboxInterval).
EachSettles == \A i \in Item : status[i] = "pendente" ~> status[i] # "pendente"

=============================================================================
