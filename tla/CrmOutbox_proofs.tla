--------------------------- MODULE CrmOutbox_proofs ---------------------------
(***************************************************************************)
(* Theorems about CrmOutbox, for any demands, drains, messages, failures   *)
(* and crashes.                                                            *)
(***************************************************************************)
EXTENDS CrmOutbox, TLAPS

(***************************************************************************)
(* A drain marks a row by its id long after it read it.  What it marks as  *)
(* sent was received because it carries its own call's result, and the CRM *)
(* never forgets.                                                          *)
(***************************************************************************)
Delivered ==
  \A w \in Drainer : drain[w].step = "marking" =>
    /\ drain[w].item \in Item
    /\ drain[w].result # "none"
    /\ drain[w].result = "ok" => drain[w].item \in received

IInv == OutboxTypeOK /\ Delivered /\ SentWasReceived

USE DemandAssumption, OutboxBounds DEF DemandAssumption, OutboxBounds

-----------------------------------------------------------------------------
(* The types *)

\* A drain that is not running.
LEMMA IdleType == OutboxIdle \in DrainState /\ OutboxIdle.step = "idle"
<1>1. [i \in Item |-> 0] \in [Item -> Nat]
  OBVIOUS
<1> QED
  BY <1>1 DEF OutboxIdle, DrainState, Result

\* An empty queue.
LEMMA InitIInv == OutboxInit => IInv
<1> SUFFICES ASSUME OutboxInit PROVE IInv
  OBVIOUS
<1>1. OutboxTypeOK
  BY IdleType DEF OutboxInit, OutboxTypeOK, Status
<1>2. Delivered /\ SentWasReceived
  BY IdleType DEF OutboxInit, Delivered, SentWasReceived
<1> QED
  BY <1>1, <1>2 DEF IInv

\* What a drain becomes when it goes on with a part of its list.
LEMMA GoesOnType ==
  ASSUME OutboxTypeOK, NEW w \in Drainer, NEW step \in {"sending", "postponing", "discarding"},
         NEW todo \in SUBSET Item
  PROVE  GoesOn(w, step, todo) \in DrainState /\ GoesOn(w, step, todo).step # "marking"
<1>1. CASE todo = {}
  BY <1>1, IdleType DEF GoesOn
<1>2. CASE todo # {}
  <2> DEFINE seen == [i \in Item |-> IF i \in todo THEN drain[w].seen[i] ELSE 0]
             new == [drain[w] EXCEPT !.step = step, !.todo = todo, !.item = 0, !.result = "none",
                                     !.seen = [i \in Item |-> IF i \in todo THEN @[i] ELSE 0]]
  <2>1. drain[w] \in DrainState
    BY DEF OutboxTypeOK
  <2>2. seen \in [Item -> Nat]
    BY <2>1 DEF DrainState
  <2>3. new \in DrainState /\ new.step = step
    BY <2>1, <2>2 DEF DrainState, Result
  <2> QED
    BY <1>2, <2>3 DEF GoesOn
<1> QED
  BY <1>1, <1>2

\* The list that a drain reads.
LEMMA DrainReadType ==
  ASSUME OutboxTypeOK, NEW w \in Drainer, DrainRead(w)
  PROVE  \E new \in DrainState : new.step = "resolving" /\ drain' = [drain EXCEPT ![w] = new]
<1> DEFINE seen == [i \in Item |-> IF i \in Pending THEN attempts[i] ELSE 0]
           new == [OutboxIdle EXCEPT !.step = "resolving", !.todo = Pending, !.seen = seen]
<1>1. seen \in [Item -> Nat]
  BY DEF OutboxTypeOK
<1>2. Pending \in SUBSET Item
  BY DEF Pending
<1>3. new \in DrainState /\ new.step = "resolving"
  BY <1>1, <1>2, IdleType DEF DrainState
<1>4. drain' = [drain EXCEPT ![w] = new]
  BY DEF DrainRead
<1> QED
  BY <1>3, <1>4

\* The row that a drain's mark leaves is a row.
LEMMA MarkedType ==
  ASSUME NEW result \in Result \ {"none"}, NEW tries
  PROVE  /\ Marked(result, tries) \in Status
         /\ Marked(result, tries) # "absent"
         /\ Marked(result, tries) = "enviado" => result = "ok"
  BY DEF Marked, Result, Status

-----------------------------------------------------------------------------
(* The step *)

\* TypeOK, what a marking drain holds, and what the sent rows say, survive every action.
LEMMA TypeStep == IInv /\ [OutboxNext]_outboxVars => OutboxTypeOK' /\ Delivered'
<1> SUFFICES ASSUME IInv, [OutboxNext]_outboxVars PROVE OutboxTypeOK' /\ Delivered'
  OBVIOUS
<1>0. OutboxTypeOK /\ Delivered
  BY DEF IInv
<1>1. ASSUME NEW i \in Item, NEW d \in Demand, Enqueue(i, d)
      PROVE  OutboxTypeOK' /\ Delivered'
  BY <1>0, <1>1 DEF Enqueue, OutboxTypeOK, Status, Delivered
<1>2. ASSUME NEW i \in Item, Tick(i)
      PROVE  OutboxTypeOK' /\ Delivered'
  BY <1>0, <1>2 DEF Tick, OutboxTypeOK, Delivered
<1>3. ASSUME NEW d \in Demand, Purge(d)
      PROVE  OutboxTypeOK' /\ Delivered'
  BY <1>0, <1>3 DEF Purge, OutboxTypeOK, Status, Delivered
<1>4. CASE OutboxCrash
  <2>1. drain' \in [Drainer -> DrainState] /\ Delivered'
    BY <1>4, IdleType DEF OutboxCrash, Delivered
  <2> QED
    BY <1>0, <1>4, <2>1 DEF OutboxCrash, rows, OutboxTypeOK
<1>5. ASSUME NEW w \in Drainer, DrainGoesOn(w)
      PROVE  OutboxTypeOK' /\ Delivered'
  <2>1. CASE DrainRead(w)
    BY <1>0, <2>1, DrainReadType DEF DrainRead, rows, OutboxTypeOK, Delivered
  <2>2. CASE Resolve(w)
    <3>1. drain' \in [Drainer -> DrainState] /\ Delivered'
      <4>1. PICK s \in {"sending", "postponing", "discarding"} :
              drain' = [drain EXCEPT ![w].step = s]
        BY <2>2 DEF Resolve
      <4>2. [drain[w] EXCEPT !.step = s] \in DrainState /\ [drain[w] EXCEPT !.step = s].step = s
        BY <1>0 DEF OutboxTypeOK, DrainState
      <4>3. PICK new \in DrainState : new.step = s /\ drain' = [drain EXCEPT ![w] = new]
        BY <4>1, <4>2
      <4> QED
        BY <1>0, <2>2, <4>3 DEF Resolve, OutboxTypeOK, Delivered
    <3>2. faults' \in 0..MaxFaults
      BY <1>0, <2>2 DEF Resolve, OutboxTypeOK
    <3> QED
      BY <1>0, <2>2, <3>1, <3>2 DEF Resolve, rows, OutboxTypeOK
  <2>3. CASE NoDestination(w)
    <3>1. PICK i \in drain[w].todo : NoDestination(w)!(i)
      BY <2>3 DEF NoDestination
    <3>2. i \in Item /\ drain[w].todo \ {i} \in SUBSET Item
          /\ drain[w].step \in {"postponing", "discarding"}
      BY <1>0, <3>1 DEF OutboxTypeOK, DrainState, OutboxAt
    <3>3. drain' \in [Drainer -> DrainState] /\ Delivered'
      BY <1>0, <2>3, <3>1, <3>2, GoesOnType DEF OutboxTypeOK, Delivered
    <3>4. /\ status' \in [Item -> Status]
          /\ \A j \in Item : status'[j] = "absent" <=> status[j] = "absent"
      BY <1>0, <3>1, <3>2 DEF OutboxTypeOK, Status, Gone
    <3>5. attempts' \in [Item -> Nat]
      BY <1>0, <3>1, <3>2 DEF OutboxTypeOK
    <3>6. due' \in [Item -> BOOLEAN]
      <4>1. PICK d \in BOOLEAN : due' = [due EXCEPT ![i] = d] \/ due' = due
        BY <1>0, <3>1, <3>2, Zenon DEF OutboxTypeOK
      <4> QED
        BY <1>0, <4>1 DEF OutboxTypeOK
    <3> QED
      BY <1>0, <3>1, <3>3, <3>4, <3>5, <3>6 DEF OutboxTypeOK
  <2>4. CASE Send(w)
    <3>1. PICK i \in drain[w].todo, result \in Result \ {"none"} : Send(w)!(i, result)
      BY <2>4 DEF Send
    <3>2. i \in Item
      BY <1>0, <3>1 DEF OutboxTypeOK, DrainState
    <3>3. drain' \in [Drainer -> DrainState]
      <4> DEFINE new == [drain[w] EXCEPT !.step = "marking", !.item = i, !.result = result]
      <4>1. drain[w] \in DrainState /\ result \in Result
        BY <1>0 DEF OutboxTypeOK
      <4>2. new \in DrainState
        BY <3>2, <4>1 DEF DrainState
      <4>3. drain' = [drain EXCEPT ![w] = new]
        BY <1>0, <3>1 DEF OutboxTypeOK
      <4> QED
        BY <1>0, <4>2, <4>3 DEF OutboxTypeOK
    <3>4. received \subseteq received' /\ received' \subseteq Item /\ faults' \in 0..MaxFaults
      BY <1>0, <3>1, <3>2 DEF OutboxTypeOK
    <3>5. Delivered'
      BY <1>0, <3>1, <3>2, <3>4 DEF OutboxTypeOK, DrainState, Delivered
    <3> QED
      BY <1>0, <3>1, <3>3, <3>4, <3>5 DEF rows, OutboxTypeOK
  <2>5. CASE Mark(w)
    <3> DEFINE i == drain[w].item
               result == drain[w].result
               tries == drain[w].seen[i] + 1
    <3>1. i \in Item /\ result \in Result \ {"none"} /\ tries \in Nat
      BY <1>0, <2>5 DEF Mark, OutboxAt, OutboxTypeOK, DrainState, Delivered
    <3>2. Remaining(drain[w].todo, i, result) \in SUBSET Item
      BY <1>0 DEF Remaining, OutboxTypeOK, DrainState
    <3>3. drain' \in [Drainer -> DrainState] /\ Delivered'
      BY <1>0, <2>5, <3>2, GoesOnType DEF Mark, OutboxTypeOK, Delivered
    <3>4. /\ status' \in [Item -> Status]
          /\ \A j \in Item : status'[j] = "absent" <=> status[j] = "absent"
      BY <1>0, <2>5, <3>1, MarkedType DEF Mark, OutboxTypeOK, Gone
    <3>5. attempts' \in [Item -> Nat]
      BY <1>0, <2>5, <3>1 DEF Mark, OutboxTypeOK
    <3>6. due' \in [Item -> BOOLEAN]
      <4>1. due' = [due EXCEPT ![i] =
                      IF Gone(i) \/ Marked(result, tries) # "pendente" THEN @ ELSE FALSE]
        BY <2>5 DEF Mark
      <4>2. PICK d \in BOOLEAN : due' = [due EXCEPT ![i] = d]
        BY <1>0, <3>1, <4>1, Zenon DEF OutboxTypeOK
      <4> QED
        BY <1>0, <4>2 DEF OutboxTypeOK
    <3> QED
      BY <1>0, <2>5, <3>3, <3>4, <3>5, <3>6 DEF Mark, OutboxTypeOK
  <2> QED
    BY <1>5, <2>1, <2>2, <2>3, <2>4, <2>5 DEF DrainGoesOn
<1>6. CASE UNCHANGED outboxVars
  BY <1>0, <1>6 DEF outboxVars, rows, OutboxTypeOK, Delivered
<1> QED
  BY <1>1, <1>2, <1>3, <1>4, <1>5, <1>6 DEF OutboxNext

\* A row becomes "enviado" only by a mark whose call was answered.
LEMMA SentStep == IInv /\ [OutboxNext]_outboxVars => SentWasReceived'
<1> SUFFICES ASSUME IInv, [OutboxNext]_outboxVars PROVE SentWasReceived'
  OBVIOUS
<1>0. OutboxTypeOK /\ Delivered /\ SentWasReceived
  BY DEF IInv
<1>1. ASSUME NEW i \in Item, NEW d \in Demand, Enqueue(i, d)
      PROVE  SentWasReceived'
  BY <1>0, <1>1 DEF Enqueue, OutboxTypeOK, SentWasReceived
<1>2. ASSUME NEW d \in Demand, Purge(d)
      PROVE  SentWasReceived'
  BY <1>0, <1>2 DEF Purge, OutboxTypeOK, SentWasReceived
<1>3. ASSUME NEW w \in Drainer, NoDestination(w)
      PROVE  SentWasReceived'
  <2>1. PICK i \in drain[w].todo : NoDestination(w)!(i)
    BY <1>3 DEF NoDestination
  <2> QED
    BY <1>0, <2>1 DEF OutboxTypeOK, SentWasReceived
<1>4. ASSUME NEW w \in Drainer, Send(w)
      PROVE  SentWasReceived'
  BY <1>0, <1>4 DEF Send, rows, SentWasReceived
<1>5. ASSUME NEW w \in Drainer, Mark(w)
      PROVE  SentWasReceived'
  <2> DEFINE i == drain[w].item
             result == drain[w].result
             tries == drain[w].seen[i] + 1
  <2>1. i \in Item /\ result \in Result \ {"none"} /\ (result = "ok" => i \in received)
    BY <1>0, <1>5 DEF Mark, OutboxAt, OutboxTypeOK, DrainState, Delivered
  <2>2. ASSUME NEW j \in Item, status'[j] = "enviado", status[j] # "enviado"
        PROVE  j = i /\ Marked(result, tries) = "enviado"
    BY <1>0, <1>5, <2>1, <2>2 DEF Mark, OutboxTypeOK
  <2>3. received' = received
    BY <1>5 DEF Mark
  <2> QED
    BY <1>0, <2>1, <2>2, <2>3, MarkedType DEF SentWasReceived
<1>6. CASE \/ \E i \in Item : Tick(i)
           \/ \E w \in Drainer : DrainRead(w) \/ Resolve(w)
           \/ OutboxCrash \/ UNCHANGED outboxVars
  BY <1>0, <1>6 DEF Tick, DrainRead, Resolve, OutboxCrash, outboxVars, rows, SentWasReceived
<1> QED
  BY <1>1, <1>2, <1>3, <1>4, <1>5, <1>6 DEF OutboxNext, DrainGoesOn

-----------------------------------------------------------------------------
(* The order of a demand's items.  Drains overlap, and an item that one of *)
(* them left out of its list may be pending again when a later item of the *)
(* list is sent.  It was left out for a reason: it was postponed, so it    *)
(* was tried; or it was decided, and is never pending again.               *)

\* Items are enqueued in the order of their numbers.
QueuedInOrder == \A i, j \in Item : i < j /\ of[j] # 0 => of[i] # 0

\* What the CRM has, and what a drain has listed, was enqueued.
ReceivedQueued == \A i \in received : of[i] # 0
ListQueued == \A w \in Drainer, j \in Item : j \in drain[w].todo => of[j] # 0

\* An item waits only after an attempt.
PostponedTried == \A i \in Item : status[i] = "pendente" /\ ~due[i] => attempts[i] > 0

\* An older item that a list passes over was tried, or needs no delivery any more.
Passed(i, j) == i < j /\ of[i] = of[j] /\ status[i] = "pendente" /\ i \notin received
LeftOutTried ==
  \A w \in Drainer, i, j \in Item :
    j \in drain[w].todo /\ i \notin drain[w].todo /\ Passed(i, j) => attempts[i] > 0

OrderInv ==
  /\ QueuedInOrder /\ ReceivedQueued /\ ListQueued
  /\ PostponedTried /\ LeftOutTried /\ OnlyPostponedOvertaken

\* An empty queue is in order.
LEMMA InitOrder == OutboxInit => OrderInv
  BY IdleType DEF OutboxInit, OrderInv, QueuedInOrder, ReceivedQueued, ListQueued, PostponedTried,
    LeftOutTried, Passed, OnlyPostponedOvertaken, Overtaken, OutboxIdle

\* What the attempts of an item become once it was tried, they are not 0 again; and what is
\* no longer pending is not pending again.
RowsAdvance ==
  \A i \in Item : status'[i] = "pendente" =>
    /\ status[i] = "pendente"
    /\ attempts[i] > 0 => attempts'[i] > 0

\* A step that enqueues nothing, and neither lists nor delivers anything, keeps the order
\* when it drops from a list only what was tried or needs no delivery.
LEMMA OrderKept ==
  ASSUME OutboxTypeOK, OrderInv, of' = of, received' = received, RowsAdvance,
         \A i \in Item : status'[i] = "pendente" /\ ~due'[i] => attempts'[i] > 0 \/ ~due[i],
         \A w \in Drainer : drain'[w].todo \subseteq drain[w].todo,
         \A w \in Drainer, i, j \in Item :
           /\ i \in drain[w].todo \ drain'[w].todo
           /\ j \in drain'[w].todo /\ Passed(i, j)
           /\ status'[i] = "pendente"
           => attempts'[i] > 0
  PROVE  OrderInv'
<1>1. QueuedInOrder' /\ ReceivedQueued' /\ ListQueued'
  BY DEF OrderInv, QueuedInOrder, ReceivedQueued, ListQueued
<1>2. PostponedTried'
  BY DEF OrderInv, PostponedTried, RowsAdvance
<1>3. LeftOutTried'
  <2> SUFFICES ASSUME NEW w \in Drainer, NEW i \in Item, NEW j \in Item,
                      j \in drain'[w].todo, i \notin drain'[w].todo, Passed(i, j)'
               PROVE  attempts'[i] > 0
    BY DEF LeftOutTried
  <2>1. Passed(i, j) /\ j \in drain[w].todo
    BY DEF Passed, RowsAdvance
  <2>2. CASE i \in drain[w].todo
    BY <2>1, <2>2 DEF Passed
  <2>3. CASE i \notin drain[w].todo
    BY <2>1, <2>3 DEF OrderInv, LeftOutTried, RowsAdvance, Passed
  <2> QED
    BY <2>2, <2>3
<1>4. OnlyPostponedOvertaken'
  BY DEF OrderInv, OnlyPostponedOvertaken, Overtaken, RowsAdvance
<1> QED
  BY <1>1, <1>2, <1>3, <1>4 DEF OrderInv

\* A new item is the youngest: it is older than nothing that was listed or delivered.
LEMMA EnqueueOrder ==
  ASSUME OutboxTypeOK, OrderInv, NEW i \in Item, NEW d \in Demand, Enqueue(i, d)
  PROVE  OrderInv'
<1>1. /\ of'[i] = d /\ due'[i]
      /\ \A j \in Item : j # i => of'[j] = of[j] /\ status'[j] = status[j] /\ due'[j] = due[j]
  <2>1. \A j \in Item : j # i => of'[j] = of[j] /\ status'[j] = status[j]
    BY DEF Enqueue, OutboxTypeOK
  <2>2. due' = [due EXCEPT ![i] = TRUE] /\ due \in [Item -> BOOLEAN]
    BY DEF Enqueue, OutboxTypeOK
  <2>3. of'[i] = d
    BY DEF Enqueue, OutboxTypeOK
  <2> QED
    BY <2>1, <2>2, <2>3
<1>2. d # 0 /\ of[i] = 0 /\ UNCHANGED <<attempts, received, drain>>
  BY DEF Enqueue
<1>3. \A j \in Item : i < j => of[j] = 0
  BY <1>2 DEF OrderInv, QueuedInOrder
<1>4. QueuedInOrder'
  BY <1>1, <1>2 DEF OrderInv, QueuedInOrder, Enqueue
<1>5. ReceivedQueued' /\ ListQueued'
  BY <1>1, <1>2 DEF OrderInv, ReceivedQueued, ListQueued, OutboxTypeOK
<1>6. PostponedTried'
  BY <1>1, <1>2 DEF OrderInv, PostponedTried
<1>7. LeftOutTried'
  <2> SUFFICES ASSUME NEW w \in Drainer, NEW k \in Item, NEW j \in Item,
                      j \in drain[w].todo, k \notin drain[w].todo, Passed(k, j)'
               PROVE  attempts[k] > 0
    BY <1>2 DEF LeftOutTried
  <2>1. of[j] # 0
    BY DEF OrderInv, ListQueued
  <2>2. k # i /\ j # i
    BY <1>2, <1>3, <2>1 DEF Passed
  <2>3. Passed(k, j)
    BY <1>1, <1>2, <2>2 DEF Passed
  <2> QED
    BY <2>3 DEF OrderInv, LeftOutTried
<1>8. OnlyPostponedOvertaken'
  <2> SUFFICES ASSUME NEW k \in Item, NEW j \in Item, Overtaken(k, j)'
               PROVE  attempts[k] > 0
    BY <1>2 DEF OnlyPostponedOvertaken
  <2>1. j \in received /\ of[j] # 0 /\ k < j
    BY <1>2 DEF OrderInv, ReceivedQueued, Overtaken
  <2>2. k # i /\ j # i
    BY <1>2, <1>3, <2>1
  <2>3. Overtaken(k, j)
    BY <1>1, <1>2, <2>2 DEF Overtaken
  <2> QED
    BY <2>3 DEF OrderInv, OnlyPostponedOvertaken
<1> QED
  BY <1>4, <1>5, <1>6, <1>7, <1>8 DEF OrderInv

\* A drain lists all that is pending and due, so what it leaves out was tried.
LEMMA DrainReadOrder ==
  ASSUME OutboxTypeOK, OrderInv, NEW w \in Drainer, DrainRead(w)
  PROVE  OrderInv'
<1>1. UNCHANGED <<of, status, attempts, due, received>>
  BY DEF DrainRead, rows
<1>2. \A v \in Drainer : drain'[v].todo = IF v = w THEN Pending ELSE drain[v].todo
  BY DEF DrainRead, OutboxTypeOK, OutboxIdle
<1>3. QueuedInOrder' /\ ReceivedQueued' /\ PostponedTried' /\ OnlyPostponedOvertaken'
  BY <1>1 DEF OrderInv, QueuedInOrder, ReceivedQueued, PostponedTried, OnlyPostponedOvertaken,
    Overtaken
<1>4. ListQueued'
  BY <1>1, <1>2 DEF OrderInv, ListQueued, Pending, OutboxTypeOK
<1>5. LeftOutTried'
  <2> SUFFICES ASSUME NEW v \in Drainer, NEW i \in Item, NEW j \in Item,
                      j \in drain'[v].todo, i \notin drain'[v].todo, Passed(i, j)
               PROVE  attempts[i] > 0
    BY <1>1 DEF LeftOutTried, Passed
  <2>1. CASE v = w
    BY <1>2, <2>1 DEF OrderInv, PostponedTried, Pending, Passed
  <2>2. CASE v # w
    BY <1>2, <2>2 DEF OrderInv, LeftOutTried
  <2> QED
    BY <2>1, <2>2
<1> QED
  BY <1>3, <1>4, <1>5 DEF OrderInv

\* What a drain sends is the oldest of its demand in the list.
LEMMA SendOrder ==
  ASSUME OutboxTypeOK, OrderInv, NEW w \in Drainer, Send(w)
  PROVE  OrderInv'
<1>1. PICK i \in drain[w].todo, result \in Result \ {"none"} : Send(w)!(i, result)
  BY DEF Send
<1>2. i \in Item /\ UNCHANGED <<of, status, attempts, due>>
  BY <1>1 DEF OutboxTypeOK, DrainState, rows
<1>3. received' \in {received, received \cup {i}}
  BY <1>1
<1>4. \A v \in Drainer : drain'[v].todo = drain[v].todo
  BY <1>1 DEF OutboxTypeOK, DrainState
<1>5. QueuedInOrder' /\ PostponedTried' /\ ListQueued'
  BY <1>2, <1>4 DEF OrderInv, QueuedInOrder, PostponedTried, ListQueued
<1>6. ReceivedQueued'
  BY <1>1, <1>2, <1>3 DEF OrderInv, ReceivedQueued, ListQueued
<1>7. LeftOutTried'
  BY <1>2, <1>3, <1>4 DEF OrderInv, LeftOutTried, Passed
<1>8. OnlyPostponedOvertaken'
  <2> SUFFICES ASSUME NEW k \in Item, NEW j \in Item, Overtaken(k, j)'
               PROVE  attempts[k] > 0
    BY <1>2 DEF OnlyPostponedOvertaken
  <2>1. CASE j \in received
    BY <1>2, <1>3, <2>1 DEF OrderInv, OnlyPostponedOvertaken, Overtaken
  <2>2. CASE j \notin received
    <3>1. j = i /\ Passed(k, i)
      BY <1>2, <1>3, <2>2 DEF Overtaken, Passed
    <3>2. k \notin drain[w].todo
      <4>1. of[k] \in Nat /\ of[i] \in Nat
        <5>1. of[k] \in Demand \cup {0} /\ of[i] \in Demand \cup {0}
          BY <1>2 DEF OutboxTypeOK
        <5>2. Demand \cup {0} \subseteq Nat
          OBVIOUS
        <5> QED
          BY <5>1, <5>2
      <4>2. \A o \in drain[w].todo : of[i] < of[o] \/ (of[i] = of[o] /\ i <= o)
        BY <1>1 DEF IsNext
      <4> QED
        BY <1>2, <3>1, <4>1, <4>2 DEF Passed, Item
    <3> QED
      BY <1>1, <1>2, <3>1, <3>2 DEF OrderInv, LeftOutTried
  <2> QED
    BY <2>1, <2>2
<1> QED
  BY <1>5, <1>6, <1>7, <1>8 DEF OrderInv

\* What remains of a list when an item was tried: the rest of its demand waits for it.
LEMMA MarkOrder ==
  ASSUME OutboxTypeOK, Delivered, OrderInv, NEW w \in Drainer, Mark(w)
  PROVE  OrderInv'
<1> DEFINE i == drain[w].item
           result == drain[w].result
           tries == drain[w].seen[i] + 1
           new == Marked(result, tries)
<1>1. /\ i \in Item /\ result \in Result \ {"none"} /\ tries \in Nat /\ tries > 0
      /\ result = "ok" => i \in received
  BY DEF Mark, OutboxAt, OutboxTypeOK, DrainState, Delivered
<1>2. UNCHANGED <<of, received>>
  BY DEF Mark
<1>3. new = "pendente" <=> result = "error" /\ tries < MaxAttempts
  BY <1>1 DEF Marked, Result
<1>4. /\ status' = [status EXCEPT ![i] = IF Gone(i) \/ new = "pendente" THEN @ ELSE new]
      /\ attempts' = [attempts EXCEPT ![i] =
                        IF Gone(i) THEN @ ELSE IF result = "error" THEN tries ELSE @ + 1]
      /\ due' = [due EXCEPT ![i] = IF Gone(i) \/ new # "pendente" THEN @ ELSE FALSE]
      /\ drain' = [drain EXCEPT ![w] = GoesOn(w, "sending", Remaining(drain[w].todo, i, result))]
  BY DEF Mark
<1> HIDE DEF new
<1>5. \A k \in Item : k # i =>
        status'[k] = status[k] /\ attempts'[k] = attempts[k] /\ due'[k] = due[k]
  BY <1>4 DEF OutboxTypeOK
<1>6. /\ status'[i] = "pendente" => status[i] = "pendente"
      /\ status[i] # "absent" => attempts'[i] > 0
  <2>1. status'[i] = IF Gone(i) \/ new = "pendente" THEN status[i] ELSE new
    BY <1>1, <1>4 DEF OutboxTypeOK
  <2>2. ~Gone(i) => attempts'[i] = IF result = "error" THEN tries ELSE attempts[i] + 1
    BY <1>1, <1>4 DEF OutboxTypeOK
  <2>3. attempts[i] \in Nat
    BY <1>1 DEF OutboxTypeOK
  <2> QED
    BY <1>1, <2>1, <2>2, <2>3 DEF Gone
<1>7. RowsAdvance
  BY <1>5, <1>6 DEF RowsAdvance
<1>8. \A k \in Item : status'[k] = "pendente" /\ ~due'[k] => attempts'[k] > 0 \/ ~due[k]
  BY <1>5, <1>6
<1>9. \A v \in Drainer :
        drain'[v].todo = IF v = w THEN Remaining(drain[w].todo, i, result) ELSE drain[v].todo
  <2>1. GoesOn(w, "sending", Remaining(drain[w].todo, i, result)).todo
          = Remaining(drain[w].todo, i, result)
    BY DEF GoesOn, OutboxIdle, OutboxTypeOK, DrainState
  <2> QED
    BY <1>4, <2>1 DEF OutboxTypeOK
<1>10. \A v \in Drainer : drain'[v].todo \subseteq drain[v].todo
  BY <1>9 DEF Remaining
<1>11. ASSUME NEW v \in Drainer, NEW k \in Item, NEW j \in Item,
              k \in drain[v].todo \ drain'[v].todo, j \in drain'[v].todo, Passed(k, j)
       PROVE  FALSE
  <2>1. v = w
    BY <1>9, <1>11
  <2>2. CASE result = "ok"
    BY <1>1, <1>9, <1>11, <2>1, <2>2 DEF Remaining, Passed
  <2>3. CASE result # "ok"
    BY <1>9, <1>11, <2>1, <2>3 DEF Remaining, SameDemand, Passed
  <2> QED
    BY <2>2, <2>3
<1> QED
  BY <1>2, <1>7, <1>8, <1>10, <1>11, OrderKept

\* Without a destination the items of the list are tried, one after the other.
LEMMA NoDestinationOrder ==
  ASSUME OutboxTypeOK, OrderInv, NEW w \in Drainer, NoDestination(w)
  PROVE  OrderInv'
<1>1. PICK i \in drain[w].todo : NoDestination(w)!(i)
  BY DEF NoDestination
<1>2. i \in Item /\ UNCHANGED <<of, received>>
  BY <1>1 DEF OutboxTypeOK, DrainState
<1>3. \A k \in Item : k # i =>
        status'[k] = status[k] /\ attempts'[k] = attempts[k] /\ due'[k] = due[k]
  BY <1>1 DEF OutboxTypeOK
<1>4. status[i] # "absent" => attempts'[i] > 0
  <2>1. attempts' = [attempts EXCEPT ![i] = IF Gone(i) THEN @ ELSE @ + 1] /\ attempts[i] \in Nat
    BY <1>1, <1>2 DEF OutboxTypeOK
  <2> QED
    BY <1>2, <2>1 DEF OutboxTypeOK, Gone
<1>5. status'[i] = "pendente" => status[i] = "pendente"
  BY <1>1, <1>2 DEF OutboxTypeOK
<1>6. RowsAdvance
  BY <1>3, <1>4, <1>5 DEF RowsAdvance
<1>7. \A k \in Item : status'[k] = "pendente" /\ ~due'[k] => attempts'[k] > 0 \/ ~due[k]
  BY <1>3, <1>4, <1>5
<1>8. \A v \in Drainer : drain'[v].todo = IF v = w THEN drain[w].todo \ {i} ELSE drain[v].todo
  <2>1. GoesOn(w, drain[w].step, drain[w].todo \ {i}).todo = drain[w].todo \ {i}
    BY DEF GoesOn, OutboxIdle, OutboxTypeOK, DrainState
  <2>2. drain' = [drain EXCEPT ![w] = GoesOn(w, drain[w].step, drain[w].todo \ {i})]
    BY <1>1
  <2> QED
    BY <2>1, <2>2 DEF OutboxTypeOK
<1>9. \A v \in Drainer : drain'[v].todo \subseteq drain[v].todo
  BY <1>8
<1>10. ASSUME NEW v \in Drainer, NEW k \in Item, NEW j \in Item,
              k \in drain[v].todo \ drain'[v].todo, status'[k] = "pendente"
       PROVE  attempts'[k] > 0
  BY <1>4, <1>5, <1>8, <1>10
<1> QED
  BY <1>2, <1>6, <1>7, <1>9, <1>10, OrderKept

\* The order and what it rests on survive every step.
LEMMA OrderStep == OutboxTypeOK /\ Delivered /\ OrderInv /\ [OutboxNext]_outboxVars => OrderInv'
<1> SUFFICES ASSUME OutboxTypeOK, Delivered, OrderInv, [OutboxNext]_outboxVars PROVE OrderInv'
  OBVIOUS
<1>1. CASE \E i \in Item : Tick(i)
  BY <1>1, OrderKept DEF Tick, OutboxTypeOK, RowsAdvance
<1>2. CASE \E d \in Demand : Purge(d)
  <2>1. UNCHANGED <<of, attempts, due, received, drain>>
        /\ \A i \in Item : status'[i] = "pendente" => status[i] = "pendente"
    BY <1>2 DEF Purge, OutboxTypeOK
  <2>2. \A i \in Item : status'[i] = "pendente" /\ ~due'[i] => attempts'[i] > 0 \/ ~due[i]
    BY <2>1
  <2> QED
    BY <2>1, <2>2, OrderKept DEF RowsAdvance
<1>3. CASE OutboxCrash
  <2>1. \A w \in Drainer : drain'[w].todo = {}
    BY <1>3 DEF OutboxCrash, OutboxIdle
  <2> QED
    BY <1>3, <2>1, OrderKept DEF OutboxCrash, rows, RowsAdvance
<1>4. ASSUME NEW w \in Drainer, Resolve(w) PROVE OrderInv'
  <2>1. \A v \in Drainer : drain'[v].todo = drain[v].todo
    <3>1. PICK s \in {"sending", "postponing", "discarding"} :
            drain' = [drain EXCEPT ![w].step = s]
      BY <1>4 DEF Resolve
    <3> QED
      BY <3>1 DEF OutboxTypeOK, DrainState
  <2> QED
    BY <1>4, <2>1, OrderKept DEF Resolve, rows, RowsAdvance
<1>5. CASE UNCHANGED outboxVars
  BY <1>5, OrderKept DEF outboxVars, rows, RowsAdvance
<1> QED
  BY <1>1, <1>2, <1>3, <1>4, <1>5, EnqueueOrder, DrainReadOrder, SendOrder, MarkOrder,
     NoDestinationOrder DEF OutboxNext, DrainGoesOn

-----------------------------------------------------------------------------
(* The theorems *)

\* IInv is inductive.
LEMMA Invariance == OutboxSpec => []IInv
<1>1. IInv /\ [OutboxNext]_outboxVars => IInv'
  BY TypeStep, SentStep DEF IInv
<1> QED
  BY <1>1, InitIInv, PTL DEF OutboxSpec

\* The types of the rows, the drains and what the CRM has; a row is absent exactly before it
\* is enqueued and after its demand was purged, whatever the drains still write.
THEOREM TypeCorrect == OutboxSpec => []OutboxTypeOK
<1>1. IInv => OutboxTypeOK
  BY DEF IInv
<1> QED
  BY <1>1, Invariance, PTL

\* What the queue shows as sent is recorded by the CRM, whichever of the concurrent drains
\* marked it, and whatever crashed (drenarFila).
THEOREM SentIsReceived == OutboxSpec => []SentWasReceived
<1>1. IInv => SentWasReceived
  BY DEF IInv
<1> QED
  BY <1>1, Invariance, PTL

\* Concurrent drains never reorder a demand's milestones by themselves: only an item whose
\* delivery was already tried and postponed is ever overtaken (orderBy and travadas).
THEOREM OrderIsKept == OutboxSpec => []OnlyPostponedOvertaken
<1>1. IInv => OutboxTypeOK /\ Delivered
  BY DEF IInv
<1>2. OrderInv => OnlyPostponedOvertaken
  BY DEF OrderInv
<1> QED
  BY <1>1, <1>2, Invariance, InitOrder, OrderStep, PTL DEF OutboxSpec
=============================================================================
