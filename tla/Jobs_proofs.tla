----------------------------- MODULE Jobs_proofs ----------------------------
(***************************************************************************)
(* The work beside the requests, for any number of demands, sweeps,        *)
(* attempts, calls and analyses: the cap on the cost of the models, the    *)
(* update that keeps code and database in step, the tasks that somebody    *)
(* will end, and the types of the four.                                    *)
(*                                                                         *)
(* While no call has outlived the key, the key holds at least the worst    *)
(* cost of every call under way (ReservedForAll); a call that has read     *)
(* what was spent and not yet reserved misses nothing by what others       *)
(* record in between, because they held a reservation for it               *)
(* (NothingMissed); so what was paid for and what the admitted calls may   *)
(* still cost stay under the cap together (RoomForAdmitted).               *)
(*                                                                         *)
(* While nothing disturbed an update, one script is at work and is as far  *)
(* as its step tells (Progress); and an attempt that was not deployed is   *)
(* neither running nor checked out, nor what another would go back to      *)
(* (Deployments), so what is told of it is not told of what runs.          *)
(***************************************************************************)
EXTENDS MCJobs, FiniteSetTheorems, TLAPS

-----------------------------------------------------------------------------
(* The cap *)

\* What was spent by the calls that were checked.
Paid == spent - extra

\* How many calls hold a reservation, and how many of them will spend it.
Held == Cardinality(Holding)
Going == Cardinality(Admitted)

ReservedForAll == Worst * Held <= reserved

NothingMissed ==
  \A c \in Call : call[c].step = "read" =>
    Paid + Worst * Held <= call[c].saw + reserved

RoomForAdmitted == Paid + Worst * Going <= Cap

IInv ==
  /\ SpendingTypeOK
  /\ 0 <= Paid
  /\ ~outlived => ReservedForAll /\ NothingMissed /\ RoomForAdmitted

-----------------------------------------------------------------------------
(* The calls that hold a reservation, and how many they are *)

\* Holding and Admitted are finite, so that they can be counted.
LEMMA Counted ==
  ASSUME SpendingAssumption
  PROVE  /\ IsFiniteSet(Holding) /\ IsFiniteSet(Admitted)
         /\ Cardinality(Holding) \in Nat /\ Cardinality(Admitted) \in Nat
         /\ Cardinality(Admitted) <= Cardinality(Holding)
<1>1. Admitted \subseteq Holding /\ Holding \subseteq Call
  BY DEF Admitted, Holding
<1>2. IsFiniteSet(Holding)
  BY <1>1, FS_Subset DEF SpendingAssumption
<1> QED
  BY <1>1, <1>2, FS_Subset, FS_CardinalityType

\* A product grows by the worst cost with each call more.
LEMMA OneMore ==
  ASSUME SpendingAssumption, NEW n \in Int
  PROVE  Worst * (n + 1) = Worst * n + Worst /\ Worst * (n - 1) = Worst * n - Worst
BY DEF SpendingAssumption

\* More calls do not cost less.
LEMMA Monotone ==
  ASSUME SpendingAssumption, NEW m \in Int, NEW n \in Int, m <= n
  PROVE  Worst * m <= Worst * n
<1>1. PICK k \in Nat : n = m + k
  BY m <= n, n - m \in Nat
<1>2. Worst * n = Worst * m + Worst * k /\ Worst * k >= 0
  BY <1>1 DEF SpendingAssumption
<1> QED
  BY <1>2 DEF SpendingAssumption

\* No call but c makes a step.
Only(c) == \A d \in Call \ {c} : call'[d] = call[d]

\* What becomes of the counts when one call changes its step.
LEMMA CallChanges ==
  ASSUME NEW c \in Call, SpendingTypeOK', Only(c)
  PROVE  /\ Holding' = IF call'[c].step \in {"idle", "read"} THEN Holding \ {c}
                       ELSE Holding \cup {c}
         /\ Admitted' = IF call'[c].step \in {"admitted", "calling"} THEN Admitted \cup {c}
                        ELSE Admitted \ {c}
BY DEF Holding, Admitted, Only, SpendingTypeOK, CallStep

\* The counts with one call more, and with one less.
LEMMA Counts ==
  ASSUME SpendingAssumption, NEW c \in Call
  PROVE  /\ Cardinality(Holding \cup {c}) =
              IF c \in Holding THEN Cardinality(Holding) ELSE Cardinality(Holding) + 1
         /\ Cardinality(Holding \ {c}) =
              IF c \in Holding THEN Cardinality(Holding) - 1 ELSE Cardinality(Holding)
         /\ Cardinality(Admitted \cup {c}) =
              IF c \in Admitted THEN Cardinality(Admitted) ELSE Cardinality(Admitted) + 1
         /\ Cardinality(Admitted \ {c}) =
              IF c \in Admitted THEN Cardinality(Admitted) - 1 ELSE Cardinality(Admitted)
BY Counted, FS_AddElement, FS_RemoveElement

-----------------------------------------------------------------------------
(* The invariant *)

\* Nothing was spent yet and nothing is reserved.
LEMMA InitInv ==
  ASSUME SpendingAssumption, SpendingInit
  PROVE  IInv
<1>1. Holding = {} /\ Admitted = {}
  BY DEF SpendingInit, Holding, Admitted, Idle
<1>2. Cardinality(Holding) = 0 /\ Cardinality(Admitted) = 0
  BY <1>1, FS_EmptySet
<1>3. SpendingTypeOK
  <2>1. Idle \in [step : CallStep, saw : Nat]
    BY DEF Idle, CallStep
  <2>2. call \in [Call -> [step : CallStep, saw : Nat]]
    BY <2>1, Zenon DEF SpendingInit
  <2>3. outlived \in BOOLEAN
    BY Zenon DEF SpendingInit
  <2> QED
    BY <2>2, <2>3 DEF SpendingInit, SpendingTypeOK
<1>4. Paid = 0
  BY DEF SpendingInit, Paid
<1> QED
  BY <1>2, <1>3, <1>4 DEF SpendingInit, SpendingAssumption, IInv, ReservedForAll,
     NothingMissed, RoomForAdmitted, Idle, Held, Going

\* Every step of checkCostCap, of a call and of the key keeps the types.
LEMMA TypeStep ==
  ASSUME SpendingAssumption, SpendingTypeOK, [SpendingNext]_aiVars
  PROVE  SpendingTypeOK'
<1> USE DEF SpendingTypeOK, CallStep, Idle
<1>1. CASE UNCHANGED aiVars
  BY <1>1 DEF aiVars
<1>2. CASE SpendsUnchecked
  BY <1>2 DEF SpendsUnchecked
<1>3. CASE Expires
  BY <1>3 DEF Expires
<1>4. ASSUME NEW c \in Call, Reads(c) PROVE SpendingTypeOK'
  BY <1>4 DEF Reads
<1>5. ASSUME NEW c \in Call, Reserves(c) PROVE SpendingTypeOK'
  BY <1>5 DEF Reserves, Increments, SpendingAssumption
<1>6. ASSUME NEW c \in Call, Arms(c) PROVE SpendingTypeOK'
  BY <1>6 DEF Arms
<1>7. ASSUME NEW c \in Call, GivesBack(c) PROVE SpendingTypeOK'
  BY <1>7 DEF GivesBack, Increments, SpendingAssumption
<1>8. ASSUME NEW c \in Call, Records(c) PROVE SpendingTypeOK'
  BY <1>8 DEF Records, Ends, SpendingAssumption
<1>9. ASSUME NEW c \in Call, Dies(c) PROVE SpendingTypeOK'
  BY <1>9 DEF Dies
<1> QED
  BY <1>1, <1>2, <1>3, <1>4, <1>5, <1>6, <1>7, <1>8, <1>9 DEF SpendingNext

\* With one call changed, what the worst costs of the calls add up to.
LEMMA WorstCosts ==
  ASSUME SpendingAssumption, NEW c \in Call, SpendingTypeOK', Only(c)
  PROVE  /\ Worst * Held \in Nat /\ Worst * Going \in Nat /\ Worst * Going <= Worst * Held
         /\ Worst * Going' <= Worst * Held'
         /\ Worst * Held' =
              IF call'[c].step \in {"idle", "read"} THEN
                IF c \in Holding THEN Worst * Held - Worst ELSE Worst * Held
              ELSE IF c \in Holding THEN Worst * Held ELSE Worst * Held + Worst
         /\ Worst * Going' =
              IF call'[c].step \in {"admitted", "calling"} THEN
                IF c \in Admitted THEN Worst * Going ELSE Worst * Going + Worst
              ELSE IF c \in Admitted THEN Worst * Going - Worst ELSE Worst * Going
<1>1. Held \in Nat /\ Going \in Nat /\ Going <= Held
  BY Counted DEF Held, Going
<1>2. Held' \in Nat /\ Going' \in Nat /\ Going' <= Held'
  <2>1. Admitted' \subseteq Holding' /\ Holding' \subseteq Call
    BY DEF Holding, Admitted
  <2>2. IsFiniteSet(Holding')
    BY <2>1, FS_Subset DEF SpendingAssumption
  <2> QED
    BY <2>1, <2>2, FS_Subset, FS_CardinalityType DEF Held, Going
<1>3. /\ Worst * (Held + 1) = Worst * Held + Worst /\ Worst * (Held - 1) = Worst * Held - Worst
      /\ Worst * (Going + 1) = Worst * Going + Worst
      /\ Worst * (Going - 1) = Worst * Going - Worst
  BY <1>1, OneMore
<1>4. /\ Held' = IF call'[c].step \in {"idle", "read"} THEN
                   IF c \in Holding THEN Held - 1 ELSE Held
                 ELSE IF c \in Holding THEN Held ELSE Held + 1
      /\ Going' = IF call'[c].step \in {"admitted", "calling"} THEN
                    IF c \in Admitted THEN Going ELSE Going + 1
                  ELSE IF c \in Admitted THEN Going - 1 ELSE Going
  BY CallChanges, Counts DEF Held, Going
<1>5. Worst * Going <= Worst * Held
  BY <1>1, Monotone
<1>7. Worst * Going' <= Worst * Held'
  <2>1. \A m, n \in Int : m <= n => Worst * m <= Worst * n
    BY Monotone
  <2>2. Going' \in Int /\ Held' \in Int /\ Going' <= Held'
    BY <1>2
  <2> QED
    BY <2>1, <2>2, Zenon
<1>6. Worst * Held \in Nat /\ Worst * Going \in Nat
  BY <1>1 DEF SpendingAssumption
<1> QED
  BY <1>3, <1>4, <1>5, <1>6, <1>7

\* A call that makes a step, and neither reads nor reserves, keeps the invariant when what
\* was paid for and what it may still cost grow no more together than what is reserved.
LEMMA NoneTakesMore ==
  ASSUME SpendingAssumption, IInv, SpendingTypeOK', NEW c \in Call, Only(c),
         call'[c].step # "read", outlived' = outlived, Paid <= Paid',
         Worst * Held' - reserved' <= Worst * Held - reserved,
         Paid' + Worst * Held' - reserved' <= Paid + Worst * Held - reserved,
         Paid' + Worst * Going' <= Paid + Worst * Going
  PROVE  IInv'
<1>1. /\ Worst * Held \in Int /\ Worst * Going \in Int
      /\ Worst * Held' \in Int /\ Worst * Going' \in Int
  BY WorstCosts DEF SpendingAssumption
<1>2. Paid \in Int /\ Paid' \in Int /\ reserved \in Int /\ reserved' \in Int /\ Cap \in Int
  BY DEF IInv, SpendingTypeOK, Paid, SpendingAssumption
<1>3. ASSUME ~outlived' PROVE ReservedForAll' /\ NothingMissed' /\ RoomForAdmitted'
  <2>1. ReservedForAll /\ NothingMissed /\ RoomForAdmitted
    BY <1>3 DEF IInv
  <2>2. ReservedForAll' /\ RoomForAdmitted'
    BY <1>1, <1>2, <2>1 DEF ReservedForAll, RoomForAdmitted
  <2>3. ASSUME NEW d \in Call, call'[d].step = "read"
        PROVE Paid' + Worst * Held' <= call'[d].saw + reserved'
    <3>1. d # c /\ call'[d] = call[d] /\ call'[d].saw \in Nat
      BY <2>3 DEF Only, SpendingTypeOK
    <3>2. Paid + Worst * Held <= call'[d].saw + reserved
      BY <2>1, <2>3, <3>1 DEF NothingMissed
    <3> QED
      BY <1>1, <1>2, <3>1, <3>2
  <2> QED
    BY <2>2, <2>3 DEF NothingMissed
<1> QED
  BY <1>2, <1>3 DEF IInv

\* The step of each call, and the time to live of the key, keep the invariant.
LEMMA StepInv ==
  ASSUME SpendingAssumption, IInv, [SpendingNext]_aiVars
  PROVE  IInv'
<1>t. SpendingTypeOK /\ SpendingTypeOK'
  BY TypeStep DEF IInv
<1>w. Worst \in Nat /\ Worst > 0 /\ Cap \in Nat
  BY DEF SpendingAssumption
<1>s. spent \in Nat /\ extra \in Nat /\ reserved \in Int /\ Paid = spent - extra /\ 0 <= Paid
  BY <1>t DEF SpendingTypeOK, Paid, IInv
<1>1. CASE UNCHANGED aiVars
  BY <1>1 DEF aiVars, IInv, SpendingTypeOK, Paid, ReservedForAll, NothingMissed,
     RoomForAdmitted, Holding, Admitted, Held, Going
<1>2. CASE SpendsUnchecked
  <2>1. Paid' = Paid /\ Held' = Held /\ Going' = Going /\ UNCHANGED <<reserved, call, outlived>>
    BY <1>2, <1>s DEF SpendsUnchecked, Paid, Held, Going, Holding, Admitted
  <2> QED
    BY <1>t, <2>1 DEF IInv, ReservedForAll, NothingMissed, RoomForAdmitted
<1>3. CASE Expires
  <2>1. Paid' = Paid /\ Held' = Held /\ Going' = Going /\ call' = call /\ reserved' = 0
    BY <1>3, <1>s DEF Expires, Paid, Held, Going, Holding, Admitted
  <2>2. CASE ~outlived'
    <3>1. \A c \in Call : call[c].step = "idle"
      BY <1>3, <2>2, <1>t DEF Expires, SpendingTypeOK
    <3>2. Holding = {}
      BY <3>1 DEF Holding
    <3>3. Worst * Held = 0
      BY <3>2, FS_EmptySet, <1>w DEF Held
    <3>4. ~outlived
      BY <1>3, <2>2, <1>t DEF Expires, SpendingTypeOK
    <3> QED
      BY <1>t, <1>s, <2>1, <3>1, <3>3, <3>4 DEF IInv, ReservedForAll, NothingMissed, RoomForAdmitted
  <2> QED
    BY <1>t, <1>s, <2>1, <2>2 DEF IInv
\* The step of a call, from what it does to the numbers.
<1>4. ASSUME NEW c \in Call, Reads(c) PROVE IInv'
  <2>1. /\ call' = [call EXCEPT ![c] = [step |-> "read", saw |-> spent]]
        /\ call'[c] = [step |-> "read", saw |-> spent]
        /\ Only(c) /\ c \notin Holding /\ c \notin Admitted
    BY <1>4, <1>t DEF Reads, Holding, Admitted, Only, SpendingTypeOK
  <2>2. Worst * Held' = Worst * Held /\ Worst * Going' = Worst * Going /\ Worst * Held \in Nat
    BY <1>t, <2>1, WorstCosts
  <2>3. Paid' = Paid /\ reserved' = reserved /\ outlived' = outlived
    BY <1>4 DEF Reads, Paid
  <2>4. ASSUME ~outlived' PROVE NothingMissed'
    <3>1. ReservedForAll /\ NothingMissed
      BY <2>3, <2>4 DEF IInv
    <3>2. ASSUME NEW d \in Call, call'[d].step = "read"
          PROVE Paid + Worst * Held <= call'[d].saw + reserved
      <4>1. CASE d = c
        BY <1>s, <2>1, <2>2, <3>1, <4>1 DEF ReservedForAll
      <4>2. CASE d # c
        BY <2>1, <3>1, <3>2, <4>2 DEF NothingMissed, Only
      <4> QED
        BY <4>1, <4>2
    <3> QED
      BY <2>2, <2>3, <3>2 DEF NothingMissed
  <2> QED
    BY <1>t, <2>2, <2>3, <2>4 DEF IInv, ReservedForAll, RoomForAdmitted
<1>5. ASSUME NEW c \in Call, Reserves(c) PROVE IInv'
  <2> DEFINE full == WouldExceed(call[c].saw, reserved + Worst)
  <2>1. /\ call[c].step = "read" /\ call[c].saw \in Nat
        /\ call'[c].step = IF full THEN "refused" ELSE "admitted"
        /\ Only(c) /\ c \notin Holding /\ c \notin Admitted
    BY <1>5, <1>t DEF Reserves, Holding, Admitted, Only, SpendingTypeOK
  <2>2. /\ Worst * Held' = Worst * Held + Worst /\ Worst * Held \in Nat
        /\ Worst * Going' <= Worst * Held'
        /\ full => Worst * Going' = Worst * Going
    BY <1>t, <2>1, WorstCosts
  <2>3. Paid' = Paid /\ reserved' = reserved + Worst /\ outlived' = outlived
    BY <1>5 DEF Reserves, Increments, Paid
  <2>4. ASSUME ~outlived' PROVE ReservedForAll' /\ NothingMissed' /\ RoomForAdmitted'
    <3>1. ReservedForAll /\ NothingMissed /\ RoomForAdmitted
      BY <2>3, <2>4 DEF IInv
    <3>2. ReservedForAll'
      BY <1>s, <1>w, <2>2, <2>3, <3>1 DEF ReservedForAll
    <3>3. ASSUME NEW d \in Call, call'[d].step = "read"
          PROVE Paid + Worst * Held + Worst <= call'[d].saw + (reserved + Worst)
      <4>1. d # c /\ call'[d] = call[d] /\ call[d].saw \in Nat
        BY <1>t, <2>1, <3>3 DEF Only, SpendingTypeOK
      <4>2. Paid + Worst * Held <= call[d].saw + reserved
        BY <3>1, <3>3, <4>1 DEF NothingMissed
      <4> QED
        BY <1>s, <1>w, <2>2, <4>1, <4>2
    <3>4. NothingMissed'
      BY <1>s, <1>w, <2>2, <2>3, <3>3 DEF NothingMissed
    \* Admitted on what it saw, which with the reservations covers all that was paid since.
    <3>5. Paid + Worst * Held + Worst <= call[c].saw + (reserved + Worst)
      BY <1>s, <1>w, <2>1, <2>2, <3>1 DEF NothingMissed
    <3>6. RoomForAdmitted'
      <4>1. CASE full
        BY <2>2, <2>3, <3>1, <4>1 DEF RoomForAdmitted
      <4>2. CASE ~full
        <5>1. call[c].saw + (reserved + Worst) <= Cap
          BY <1>s, <1>w, <2>1, <4>2 DEF WouldExceed
        <5>2. Worst * Going' \in Int
          BY <1>t, <2>1, WorstCosts, <1>w, <2>2
        <5> QED
          BY <1>s, <1>w, <2>1, <2>2, <2>3, <3>5, <5>1, <5>2 DEF RoomForAdmitted
      <4> QED
        BY <4>1, <4>2
    <3> QED
      BY <3>2, <3>4, <3>6
  <2> QED
    BY <1>t, <1>s, <2>3, <2>4 DEF IInv
<1>6. ASSUME NEW c \in Call, Arms(c) PROVE IInv'
  <2>1. /\ Only(c) /\ Paid' = Paid /\ reserved' = reserved /\ outlived' = outlived
        /\ c \in Holding /\ call'[c].step # "read"
        /\ call'[c].step = "calling" => c \in Admitted
        /\ call'[c].step \notin {"admitted"}
    BY <1>6, <1>t DEF Arms, Only, Paid, Holding, Admitted, SpendingTypeOK, Idle
  <2>2. Worst * Held' <= Worst * Held /\ Worst * Going' <= Worst * Going
    BY <1>t, <1>w, <2>1, WorstCosts
  <2> QED
    BY <1>t, <1>s, <2>1, <2>2, WorstCosts, NoneTakesMore
<1>7. ASSUME NEW c \in Call, GivesBack(c) PROVE IInv'
  <2>1. /\ Only(c) /\ Paid' = Paid /\ reserved' = reserved - Worst /\ outlived' = outlived
        /\ c \in Holding /\ c \notin Admitted /\ call'[c].step = "idle"
    BY <1>7, <1>t, <1>w DEF GivesBack, Increments, Only, Paid, Holding, Admitted, SpendingTypeOK, Idle
  <2>2. Worst * Held' = Worst * Held - Worst /\ Worst * Going' = Worst * Going
    BY <1>t, <2>1, WorstCosts
  <2> QED
    BY <1>t, <1>s, <1>w, <2>1, <2>2, WorstCosts, NoneTakesMore
<1>8. ASSUME NEW c \in Call, Records(c) PROVE IInv'
  <2>1. PICK cost \in 1..Worst : Ends(c, cost)
    BY <1>8 DEF Records
  <2>2. /\ Only(c) /\ Paid' = Paid + cost /\ reserved' = reserved /\ outlived' = outlived
        /\ c \in Holding /\ c \in Admitted /\ call'[c].step = "idle"
    BY <2>1, <1>t, <1>s, <1>w DEF Ends, Only, Paid, Holding, Admitted, SpendingTypeOK, Idle
  <2>3. Worst * Held' = Worst * Held - Worst /\ Worst * Going' = Worst * Going - Worst
    BY <1>t, <2>2, WorstCosts
  <2> QED
    BY <1>t, <1>s, <1>w, <2>2, <2>3, WorstCosts, NoneTakesMore
<1>9. ASSUME NEW c \in Call, Dies(c) PROVE IInv'
  <2>1. /\ Only(c) /\ Paid' = Paid /\ reserved' = reserved /\ outlived' = outlived
        /\ call'[c].step = "idle"
    BY <1>9, <1>t DEF Dies, Only, Paid, SpendingTypeOK, Idle
  <2>2. Worst * Held' <= Worst * Held /\ Worst * Going' <= Worst * Going
    BY <1>t, <1>w, <2>1, WorstCosts
  <2> QED
    BY <1>t, <1>s, <2>1, <2>2, WorstCosts, NoneTakesMore
<1> QED
  BY <1>1, <1>2, <1>3, <1>4, <1>5, <1>6, <1>7, <1>8, <1>9 DEF SpendingNext

-----------------------------------------------------------------------------

\* The reservations are kept as they are meant to be: whatever is read, reserved, given
\* back, recorded, lost or forgotten, in whatever order (checkCostCap and recordAiUsage).
THEOREM ReservationsHold == SpendingSpec => []IInv
<1>1. SpendingInit => IInv
  BY InitInv, SpendingAssumption
<1>2. IInv /\ [SpendingNext]_aiVars => IInv'
  BY StepInv, SpendingAssumption
<1> QED
  BY <1>1, <1>2, PTL DEF SpendingSpec

\* As long as no call outlived the key, the calls that were checked never spend beyond the
\* cap (checkCostCap), for any number of calls, any cap and any worst cost.
THEOREM CapIsKept == SpendingSpec => []CapKept
<1>1. IInv => CapKept
  <2> SUFFICES ASSUME IInv, ~outlived PROVE spent <= Cap + extra
    BY DEF CapKept
  <2>1. Worst * Going \in Nat
    BY Counted, SpendingAssumption DEF Going, SpendingAssumption
  <2>2. Paid + Worst * Going <= Cap
    BY DEF IInv, RoomForAdmitted
  <2> QED
    BY <2>1, <2>2, SpendingAssumption DEF IInv, SpendingTypeOK, Paid, SpendingAssumption
<1> QED
  BY <1>1, ReservationsHold, PTL

-----------------------------------------------------------------------------
(* The update: what is true of the attempts, and of the one at work *)

\* A script that has not touched the working copy.
Fresh(a) == script[a].step \in {"none", "preparing", "backed"}

\* An attempt that is only asked for has no script, and is asked for once.
Requested ==
  /\ \A t \in Trigger : trigger[t].step # "idle" =>
       /\ trigger[t].on \in Attempt /\ trigger[t].on <= asked
       /\ script[trigger[t].on].step = "none"
  /\ \A t, u \in Trigger :
       trigger[t].step # "idle" /\ trigger[u].step # "idle" /\ trigger[t].on = trigger[u].on => t = u

ReaperType == [step : {"idle", "found", "state"}, on : Version]

\* What was not deployed does not run, is not checked out, and is nothing to go back to.
Deployments ==
  \A a \in Attempt :
    /\ script[a].from # a
    /\ Fresh(a) => checkout # a /\ code # a /\ \A b \in Attempt : script[b].from # a

InStep ==
  /\ code = checkout /\ code = db.schema
  /\ code # 0 => db.history[code] = "success"

Deployed(a) == code = a /\ checkout = a /\ db.schema = a

\* What is backed up is the database of a version that was in step.
BackedUp(a) ==
  /\ script[a].backup.schema = script[a].from
  /\ script[a].from # 0 => script[a].backup.history[script[a].from] = "success"

\* How far the one script that is at work has come.
Progress(a) ==
  LET step == script[a].step
      outcome == script[a].outcome IN
  /\ step \in {"preparing", "backed"} => InStep
  /\ step = "backed" => script[a].from = checkout
  /\ step \in {"checked", "migrated"} => checkout = a /\ code = script[a].from
  /\ step = "checked" => db.schema = script[a].from
  /\ step = "migrated" => db.schema = a
  /\ step = "restarted" \/ outcome = "success" => Deployed(a)
  /\ step = "task" /\ outcome = "success" => db.history[a] = "success"
  /\ outcome \in {"failed", "rolled_back"} => InStep /\ code # a
  /\ step \in {"backed", "checked", "migrated", "restarted", "rollback"} \/ outcome = "success" =>
       BackedUp(a)

OneAtWork ==
  /\ \A a, b \in Attempt : Alive(a) /\ Alive(b) => a = b
  /\ \A a \in Attempt : Alive(a) => Progress(a)
  /\ (\A a \in Attempt : ~Alive(a)) => InStep

UpInv == UpdateTypeOK /\ Requested /\ Deployments /\ (~disturbed => OneAtWork)

\* What the bookkeeping of a step has to keep.
LEMMA NoneAtWork == NoScript \in Script /\ NoTrigger.step = "idle" /\ NewDb \in Db
<1>1. NewDb \in Db
  BY UpdateBounds DEF UpdateBounds, NewDb, Db, Version
<1> QED
  BY <1>1, UpdateBounds DEF UpdateBounds, NoScript, Script, NoTrigger, Version

\* The version installed first runs, and nothing was attempted.
LEMMA UpInit == UpdateInit => UpInv
<1> SUFFICES ASSUME UpdateInit PROVE UpInv
  OBVIOUS
<1> USE UpdateBounds DEF UpdateBounds
<1>1. /\ \A a \in Attempt : script[a] = NoScript
      /\ NoScript.step = "none" /\ NoScript.from = 0 /\ NoScript.outcome = "none"
      /\ \A t \in Trigger : trigger[t] = NoTrigger
      /\ NoTrigger.step = "idle" /\ NoTrigger.on = 0
      /\ db.schema = 0 /\ code = 0 /\ checkout = 0 /\ asked = 0 /\ disturbed = FALSE
      /\ upMishaps = 0
  BY DEF UpdateInit, NoScript, NoTrigger, NewDb
<1>2. UpdateTypeOK
  <2>1. script \in [Attempt -> Script] /\ db \in Db
    BY NoneAtWork DEF UpdateInit
  <2>2. /\ trigger \in [Trigger -> [step : {"idle", "task", "history", "state", "spawn"}, on : Version]]
        /\ reaper \in [step : {"idle", "found", "state"}, on : Version]
    BY DEF UpdateInit, NoTrigger, NoReaper, Version
  <2>3. disturbed \in BOOLEAN
    BY Zenon DEF UpdateInit
  <2> QED
    BY <1>1, <2>1, <2>2, <2>3 DEF UpdateTypeOK, Version
<1>3. Requested /\ Deployments
  BY <1>1 DEF Requested, Deployments, Attempt, Fresh
<1>4. OneAtWork
  BY <1>1 DEF OneAtWork, Alive, InStep
<1> QED
  BY <1>2, <1>3, <1>4 DEF UpInv

\* What runs and is checked out, and what a script would go back to, was deployed.
LEMMA WhatRuns ==
  ASSUME UpInv
  PROVE  /\ code \in Attempt => ~Fresh(code)
         /\ checkout \in Attempt => ~Fresh(checkout)
         /\ code # 0 => code \in Attempt
         /\ \A a \in Attempt : script[a].from # 0 => script[a].from \in Attempt
<1>1. code \in Version /\ \A a \in Attempt : script[a].from \in Version
  BY DEF UpInv, UpdateTypeOK, Script
<1> QED
  BY <1>1, UpdateBounds DEF UpdateBounds, UpInv, Deployments, Version, Attempt

\* The requests, the timer and the sweep write what they write, and the version that runs,
\* the schema and the history of what a script began stay.
LEMMA Bookkeeping ==
  ASSUME UpInv,
         db' \in Db, db'.schema = db.schema,
         \A a \in Attempt : script[a].step # "none" => db'.history[a] = db.history[a],
         trigger' \in [Trigger -> [step : {"idle", "task", "history", "state", "spawn"}, on : Version]],
         reaper' \in ReaperType,
         Requested', asked' \in Version, asked <= asked',
         upMishaps' \in 0..MaxMishaps,
         UNCHANGED <<code, checkout, script, disturbed>>
  PROVE  UpInv'
<1> USE UpdateBounds DEF UpdateBounds
<1>1. UpdateTypeOK'
  <2>1. \A a \in Attempt : script[a].step # "none" => a <= asked'
    BY DEF UpInv, UpdateTypeOK, Version, Attempt
  <2> QED
    BY <2>1 DEF UpInv, UpdateTypeOK, ReaperType
<1>2. Deployments'
  BY DEF UpInv, Deployments, Fresh
<1>3. InStep => InStep'
  BY WhatRuns DEF InStep, Fresh
<1>4. \A a \in Attempt : Alive(a) /\ Progress(a) => Progress(a)'
  <2> SUFFICES ASSUME NEW a \in Attempt, Alive(a), Progress(a) PROVE Progress(a)'
    OBVIOUS
  <2>1. db'.history[a] = db.history[a]
    BY DEF Alive
  <2> QED
    BY <1>3, <2>1 DEF Progress, Deployed, BackedUp
<1>5. ~disturbed' => OneAtWork'
  BY <1>3, <1>4 DEF UpInv, OneAtWork, Alive
<1> QED
  BY <1>1, <1>2, <1>5 DEF UpInv

\* A step of a script that is at work.
LEMMA ScriptStep ==
  ASSUME UpInv, NEW a \in Attempt, Alive(a), NEW new \in Script,
         script' = [script EXCEPT ![a] = new],
         new.step \notin {"none", "preparing"},
         new.step = "backed" => script[a].step = "preparing",
         new.outcome # "none" <=> new.step \in {"state", "history", "task"},
         new.from \in {script[a].from, checkout, 0}, new.from # a,
         checkout' \in {checkout, a, script[a].from},
         checkout' = a => new.step # "backed",
         code' \in {code, checkout, script[a].from, checkout'},
         db' \in Db,
         trigger' \in {trigger, [t \in Trigger |-> NoTrigger]}, reaper' \in {reaper, NoReaper},
         UNCHANGED asked, upMishaps' \in 0..MaxMishaps, disturbed' \in BOOLEAN,
         ~disturbed' =>
           /\ ~disturbed
           /\ new.step \notin {"ended", "dead"} => Progress(a)'
           /\ new.step \in {"ended", "dead"} => InStep'
  PROVE  UpInv'
<1> USE UpdateBounds DEF UpdateBounds
<1>1. /\ script' \in [Attempt -> Script] /\ script'[a] = new
      /\ \A b \in Attempt : b # a => script'[b] = script[b]
      /\ script[a] \in Script /\ a \in Version
  BY DEF UpInv, UpdateTypeOK, Version, Attempt
<1>2. UpdateTypeOK'
  <2>1. trigger' \in [Trigger -> [step : {"idle", "task", "history", "state", "spawn"}, on : Version]]
    BY DEF UpInv, UpdateTypeOK, NoTrigger, Version
  <2>r. reaper' \in ReaperType
    BY DEF UpInv, UpdateTypeOK, ReaperType, NoReaper, Version
  <2>2. checkout' \in Version /\ code' \in Version
    BY <1>1 DEF UpInv, UpdateTypeOK, Script
  <2>3. a <= asked
    BY DEF UpInv, UpdateTypeOK, Alive
  <2> QED
    BY <1>1, <2>1, <2>2, <2>3, <2>r DEF UpInv, UpdateTypeOK, ReaperType
<1>3. Requested'
  <2>1. CASE trigger' = trigger
    BY <1>1, <2>1 DEF UpInv, Requested, Alive
  <2>2. CASE trigger' = [t \in Trigger |-> NoTrigger]
    BY <2>2, NoneAtWork DEF Requested
  <2> QED
    BY <2>1, <2>2
<1>4. Deployments'
  <2>1. \A b \in Attempt : Fresh(b)' => Fresh(b) /\ (b = a => new.step = "backed")
    BY <1>1 DEF Fresh
  <2> SUFFICES ASSUME NEW b \in Attempt
               PROVE  /\ script'[b].from # b
                      /\ Fresh(b)' => /\ checkout' # b /\ code' # b
                                      /\ \A c \in Attempt : script'[c].from # b
    BY DEF Deployments
  <2>2. script'[b].from # b
    BY <1>1 DEF UpInv, Deployments
  <2>3. ASSUME Fresh(b)' PROVE checkout' # b /\ code' # b /\ \A c \in Attempt : script'[c].from # b
    <3>1. checkout # b /\ code # b /\ \A c \in Attempt : script[c].from # b
      BY <2>1, <2>3 DEF UpInv, Deployments
    <3>2. checkout' # b /\ code' # b
      BY <2>1, <2>3, <3>1
    <3>3. new.from # b
      BY <3>1 DEF Attempt
    <3> QED
      BY <1>1, <3>1, <3>2, <3>3
  <2> QED
    BY <2>2, <2>3
<1>5. ASSUME ~disturbed' PROVE OneAtWork'
  <2>1. \A b \in Attempt : b # a => ~Alive(b) /\ ~Alive(b)'
    BY <1>1, <1>5 DEF UpInv, OneAtWork, Alive
  <2>2. Alive(a)' <=> new.step \notin {"ended", "dead"}
    BY <1>1 DEF Alive
  <2> QED
    BY <1>5, <2>1, <2>2 DEF OneAtWork
<1> QED
  BY <1>2, <1>3, <1>4, <1>5 DEF UpInv

-----------------------------------------------------------------------------
(* The update: its steps *)

\* The rows that are written.
LEMMA Rows ==
  ASSUME UpInv, NEW a \in Attempt
  PROVE  /\ \A b \in BOOLEAN :
              /\ [db EXCEPT !.scheduled = b] \in Db
              /\ [db EXCEPT !.scheduled = b].schema = db.schema
              /\ [db EXCEPT !.scheduled = b].history = db.history
         /\ \A x \in {"running", "completed", "failed"} :
              /\ [db EXCEPT !.task[a] = x] \in Db
              /\ [db EXCEPT !.task[a] = x].schema = db.schema
              /\ [db EXCEPT !.task[a] = x].history = db.history
         /\ \A x \in {"in_progress"} \cup Outcome :
              /\ [db EXCEPT !.history[a] = x] \in Db
              /\ [db EXCEPT !.history[a] = x].schema = db.schema
              /\ [db EXCEPT !.history[a] = x].history[a] = x
              /\ \A b \in Attempt : b # a => [db EXCEPT !.history[a] = x].history[b] = db.history[b]
         /\ /\ [db EXCEPT !.schema = a] \in Db
            /\ [db EXCEPT !.schema = a].schema = a
<1>1. db \in Db /\ a \in Version
  BY UpdateBounds DEF UpdateBounds, UpInv, UpdateTypeOK, Version, Attempt
<1>2. \A b \in BOOLEAN :
        /\ [db EXCEPT !.scheduled = b] \in Db
        /\ [db EXCEPT !.scheduled = b].schema = db.schema
        /\ [db EXCEPT !.scheduled = b].history = db.history
  BY <1>1 DEF Db
<1>3. ASSUME NEW x \in {"running", "completed", "failed"}
      PROVE  /\ [db EXCEPT !.task[a] = x] \in Db
             /\ [db EXCEPT !.task[a] = x].schema = db.schema
             /\ [db EXCEPT !.task[a] = x].history = db.history
  <2>1. [db.task EXCEPT ![a] = x] \in [Attempt -> {"none", "running", "completed", "failed"}]
    BY <1>1 DEF Db
  <2> QED
    BY <1>1, <2>1 DEF Db
<1>4. ASSUME NEW x \in {"in_progress"} \cup Outcome
      PROVE  /\ [db EXCEPT !.history[a] = x] \in Db
             /\ [db EXCEPT !.history[a] = x].schema = db.schema
             /\ [db EXCEPT !.history[a] = x].history[a] = x
             /\ \A b \in Attempt : b # a => [db EXCEPT !.history[a] = x].history[b] = db.history[b]
  <2> DEFINE h == [db.history EXCEPT ![a] = x]
  <2>1. /\ h \in [Attempt -> {"none", "in_progress"} \cup Outcome] /\ h[a] = x
        /\ \A b \in Attempt : b # a => h[b] = db.history[b]
    BY <1>1 DEF Db
  <2> HIDE DEF h
  <2>2. [db EXCEPT !.history[a] = x] = [db EXCEPT !.history = h]
    BY <1>1 DEF Db, h
  <2>3. /\ [db EXCEPT !.history = h] \in Db
        /\ [db EXCEPT !.history = h].schema = db.schema
        /\ [db EXCEPT !.history = h].history = h
    BY <1>1, <2>1 DEF Db
  <2> QED
    BY <2>1, <2>2, <2>3
<1>5. [db EXCEPT !.schema = a] \in Db /\ [db EXCEPT !.schema = a].schema = a
  BY <1>1 DEF Db
<1> QED
  BY <1>2, <1>3, <1>4, <1>5

\* A change of the status or of the schedule leaves schema, history and tasks.
LEMMA StatusRows ==
  ASSUME UpInv, NEW x \in {"in_progress"} \cup Outcome, NEW b \in BOOLEAN
  PROVE  /\ [db EXCEPT !.status = x, !.scheduled = b] \in Db
         /\ [db EXCEPT !.status = x, !.scheduled = b].schema = db.schema
         /\ [db EXCEPT !.status = x, !.scheduled = b].history = db.history
         /\ [db EXCEPT !.status = x, !.overdue = b] \in Db
         /\ [db EXCEPT !.status = x, !.overdue = b].schema = db.schema
         /\ [db EXCEPT !.status = x, !.overdue = b].history = db.history
         /\ [db EXCEPT !.overdue = b] \in Db
         /\ [db EXCEPT !.overdue = b].schema = db.schema
         /\ [db EXCEPT !.overdue = b].history = db.history
         /\ [db EXCEPT !.status = x] \in Db
         /\ [db EXCEPT !.status = x].schema = db.schema
         /\ [db EXCEPT !.status = x].history = db.history
BY DEF UpInv, UpdateTypeOK, Db

\* Another mishap is within the bound.
LEMMA Mishaps ==
  ASSUME UpInv, (upMishaps' = upMishaps + 1 /\ MishapAllowed) \/ UNCHANGED upMishaps
  PROVE  upMishaps' \in 0..MaxMishaps
BY UpdateBounds DEF UpdateBounds, UpInv, UpdateTypeOK, MishapAllowed

\* The requests for an update: an attempt is asked for once, and is written of before its
\* script begins.
LEMMA TriggerInv ==
  ASSUME UpInv, NEW t \in Trigger, Asks(t) \/ CreateTask(t) \/ CreateHistory(t) \/ MarkInProgress(t)
  PROVE  UpInv'
<1> USE UpdateBounds DEF UpdateBounds
<1> DEFINE TriggerType == [step : {"idle", "task", "history", "state", "spawn"}, on : Version]
<1>1. trigger \in [Trigger -> TriggerType] /\ asked \in Version /\ Requested
  BY DEF UpInv, UpdateTypeOK
<1>2. CASE Asks(t)
  <2> DEFINE new == [step |-> "task", on |-> asked + 1]
  <2>1. asked' = asked + 1 /\ asked + 1 \in Attempt /\ asked + 1 \in Version
    BY <1>1, <1>2 DEF Asks, Attempt, Version
  <2>2. script[asked + 1].step = "none"
    BY <1>1, <2>1 DEF UpInv, UpdateTypeOK, Version
  <2>3. \A u \in Trigger : trigger[u].step # "idle" =>
          trigger[u].on <= asked /\ trigger[u].on # asked + 1 /\ trigger[u].on \in Attempt
    BY <1>1 DEF Requested, Version, Attempt
  <2>4. new \in TriggerType /\ new.step = "task" /\ new.on = asked + 1
    BY <2>1
  <2>5. trigger' = [trigger EXCEPT ![t] = new] /\ UNCHANGED <<db, code, checkout, reaper, script, disturbed, upMishaps>>
    BY <1>2 DEF Asks
  <2> HIDE DEF new, TriggerType
  <2>6. /\ trigger' \in [Trigger -> TriggerType] /\ trigger'[t] = new
        /\ \A u \in Trigger : u # t => trigger'[u] = trigger[u]
    BY <1>1, <2>4, <2>5
  <2>7. Requested'
    <3>1. \A u \in Trigger : trigger'[u].step # "idle" =>
            /\ trigger'[u].on \in Attempt /\ trigger'[u].on <= asked + 1
            /\ script[trigger'[u].on].step = "none"
      <4> SUFFICES ASSUME NEW u \in Trigger, trigger'[u].step # "idle"
                   PROVE  /\ trigger'[u].on \in Attempt /\ trigger'[u].on <= asked + 1
                          /\ script[trigger'[u].on].step = "none"
        OBVIOUS
      <4>1. CASE u = t
        BY <2>1, <2>2, <2>4, <2>6, <4>1 DEF Attempt
      <4>2. CASE u # t
        BY <1>1, <2>1, <2>3, <2>6, <4>2 DEF Requested, Attempt, Version
      <4> QED
        BY <4>1, <4>2
    <3>2. \A u, v \in Trigger : trigger'[u].step # "idle" /\ trigger'[v].step # "idle"
                                /\ trigger'[u].on = trigger'[v].on => u = v
      BY <1>1, <2>3, <2>4, <2>6 DEF Requested
    <3> QED
      BY <2>1, <2>5, <3>1, <3>2 DEF Requested
  <2> QED
    BY <1>1, <2>1, <2>5, <2>6, <2>7, Bookkeeping DEF UpInv, UpdateTypeOK, Version, TriggerType, ReaperType
<1>3. ASSUME NEW next \in {"history", "state", "spawn"}, trigger[t].step # "idle",
             trigger' = [trigger EXCEPT ![t].step = next], UNCHANGED <<script, asked>>
      PROVE  trigger' \in [Trigger -> TriggerType] /\ Requested'
  <2>1. /\ trigger' \in [Trigger -> TriggerType]
        /\ \A u \in Trigger : /\ trigger'[u].on = trigger[u].on
                              /\ trigger'[u].step # "idle" => trigger[u].step # "idle"
    BY <1>1, <1>3
  <2> QED
    BY <1>1, <1>3, <2>1 DEF Requested
<1>4. CASE CreateTask(t) \/ CreateHistory(t) \/ MarkInProgress(t)
  <2>1. /\ trigger[t].step # "idle"
        /\ \E next \in {"history", "state", "spawn"} : trigger' = [trigger EXCEPT ![t].step = next]
        /\ UNCHANGED <<code, checkout, reaper, script, asked, disturbed, upMishaps>>
    BY <1>4 DEF CreateTask, CreateHistory, MarkInProgress, Registers
  <2>2. trigger[t].on \in Attempt /\ script[trigger[t].on].step = "none"
    BY <2>1 DEF UpInv, Requested
  <2>3. /\ db' \in Db /\ db'.schema = db.schema
        /\ \A a \in Attempt : a # trigger[t].on => db'.history[a] = db.history[a]
    <3>1. CASE CreateTask(t)
      BY <2>2, <3>1, Rows DEF CreateTask, Registers
    <3>2. CASE CreateHistory(t)
      <4>1. PICK x \in {"in_progress"} \cup Outcome : x = "in_progress"
        OBVIOUS
      <4>2. PICK a \in Attempt : a = trigger[t].on
        BY <2>2
      <4>3. db' = [db EXCEPT !.history[a] = x]
        BY <3>2, <4>1, <4>2 DEF CreateHistory, Registers
      <4>4. /\ [db EXCEPT !.history[a] = x] \in Db
            /\ [db EXCEPT !.history[a] = x].schema = db.schema
            /\ \A b \in Attempt : b # a => [db EXCEPT !.history[a] = x].history[b] = db.history[b]
        BY Rows
      <4> QED
        BY <4>2, <4>3, <4>4
    <3>3. CASE MarkInProgress(t)
      BY <3>3, StatusRows, FALSE \in BOOLEAN DEF MarkInProgress, Registers
    <3> QED
      BY <1>4, <3>1, <3>2, <3>3
  <2>4. trigger' \in [Trigger -> TriggerType] /\ Requested'
    BY <1>3, <2>1
  <2> HIDE DEF TriggerType
  <2>5. /\ asked <= asked' /\ asked' \in Version /\ upMishaps' \in 0..MaxMishaps
        /\ reaper' \in ReaperType
    BY <1>1, <2>1 DEF UpInv, UpdateTypeOK, Version, ReaperType
  <2>6. \A a \in Attempt : script[a].step # "none" => db'.history[a] = db.history[a]
    BY <2>2, <2>3
  <2> QED
    BY <2>1, <2>3, <2>4, <2>5, <2>6, Bookkeeping DEF TriggerType
<1> QED
  BY <1>2, <1>4

\* The schedule, the sweep and the end of the server.
LEMMA SweepInv ==
  ASSUME UpInv, \/ ScheduleUpdate \/ CancelSchedule \/ TurnReportingOn \/ ServerDies
                \/ GrowsOverdue \/ ReapGoesOn \/ ReapFails
  PROVE  UpInv'
<1> USE UpdateBounds DEF UpdateBounds
<1> USE DEF ScheduleUpdate, CancelSchedule, Sets, TurnReportingOn, ServerDies, ServerStops,
            GrowsOverdue, ReapGoesOn, ReapReads, ReapState, ReapTask, Reaps, ReapFails
<1>1. UNCHANGED <<code, checkout, script, asked, disturbed>>
  OBVIOUS
<1>m. upMishaps' \in 0..MaxMishaps
  BY Mishaps DEF UpInv, UpdateTypeOK
<1>r. reaper' \in ReaperType
  <2>1. reaper \in ReaperType /\ NoReaper \in ReaperType
    BY DEF UpInv, UpdateTypeOK, ReaperType, NoReaper, Version
  <2>2. \A a \in Running : [step |-> "found", on |-> a] \in ReaperType
    BY DEF Running, ReaperType, Attempt, Version
  <2>3. [step |-> "found", on |-> 0] \in ReaperType /\ [reaper EXCEPT !.step = "state"] \in ReaperType
    BY <2>1 DEF ReaperType, Version
  <2> QED
    BY <2>1, <2>2, <2>3
<1>2. /\ trigger' \in [Trigger -> [step : {"idle", "task", "history", "state", "spawn"}, on : Version]]
      /\ Requested'
  <2>1. CASE UNCHANGED trigger
    BY <1>1, <2>1 DEF UpInv, UpdateTypeOK, Requested
  <2>2. CASE trigger' = [t \in Trigger |-> NoTrigger]
    <3>1. NoTrigger.step = "idle" /\ \A t \in Trigger : trigger'[t] = NoTrigger
      BY <2>2, NoneAtWork
    <3>2. Requested'
      BY <3>1 DEF Requested
    <3> QED
      BY <2>2, <3>2 DEF NoTrigger, Version
  <2> QED
    BY <2>1, <2>2
<1>3. db' \in Db /\ db'.schema = db.schema /\ db'.history = db.history
  <2>1. db \in Db
    BY DEF UpInv, UpdateTypeOK
  <2>2. CASE ScheduleUpdate \/ CancelSchedule
    <3>1. \E b \in BOOLEAN : db' = [db EXCEPT !.scheduled = b]
      BY <2>2
    <3> QED
      BY <2>1, <3>1 DEF Db
  <2>3. CASE ServerDies
    BY <2>1, <2>3
  <2>4. CASE GrowsOverdue
    BY <2>1, <2>4 DEF Db
  <2>5. CASE ReapReads \/ ReapFails
    BY <2>1, <2>5
  <2>6. CASE ReapState
    BY <2>1, <2>6 DEF Db, Outcome
  <2>7. CASE TurnReportingOn
    BY <2>1, <2>7 DEF Db
  <2>8. CASE ReapTask
    <3> DEFINE reaped == [db.task EXCEPT ![reaper.on] = "failed"]
    <3>1. reaped \in [Attempt -> {"none", "running", "completed", "failed"}]
      BY <2>1 DEF Db
    <3>2. db' = [db EXCEPT !.task = reaped]
      BY <2>1, <2>8 DEF Db
    <3> HIDE DEF reaped
    <3> QED
      BY <2>1, <3>1, <3>2 DEF Db
  <2> QED
    BY <2>2, <2>3, <2>4, <2>5, <2>6, <2>7, <2>8
<1>4. asked <= asked' /\ asked' \in Version
  BY <1>1 DEF UpInv, UpdateTypeOK, Version
<1> QED
  BY <1>1, <1>2, <1>3, <1>4, <1>m, <1>r, Bookkeeping

\* A script begins while everything is in step, or beside another.
LEMMA SpawnInv == ASSUME UpInv, NEW t \in Trigger, Spawn(t) PROVE UpInv'
<1> USE UpdateBounds DEF UpdateBounds
<1> PICK a \in Attempt : a = trigger[t].on
  BY DEF Spawn, UpInv, Requested
<1> DEFINE new == [script[a] EXCEPT !.step = "preparing"]
<1>1. /\ a \in Attempt /\ a <= asked /\ script[a].step = "none" /\ trigger[t].step = "spawn"
      /\ \A u \in Trigger : u # t /\ trigger[u].step # "idle" => trigger[u].on # a
  BY DEF Spawn, UpInv, Requested
<1>2. /\ script' = [script EXCEPT ![a] = new] /\ trigger' = [trigger EXCEPT ![t] = NoTrigger]
      /\ disturbed' = (disturbed \/ \E b \in Attempt : Alive(b))
      /\ UNCHANGED <<db, code, checkout, reaper, asked, upMishaps>>
  BY <1>1 DEF Spawn, UpInv, UpdateTypeOK
<1>3. /\ new \in Script /\ new.step = "preparing" /\ new.from = script[a].from
      /\ new.outcome = script[a].outcome /\ new.outcome = "none"
  BY <1>1 DEF UpInv, UpdateTypeOK, Script
<1> HIDE DEF new
<1>4. /\ script' \in [Attempt -> Script] /\ script'[a] = new
      /\ \A b \in Attempt : b # a => script'[b] = script[b]
  BY <1>1, <1>2, <1>3 DEF UpInv, UpdateTypeOK
<1>5. UpdateTypeOK'
  <2>1. trigger' \in [Trigger -> [step : {"idle", "task", "history", "state", "spawn"}, on : Version]]
    BY <1>2 DEF UpInv, UpdateTypeOK, NoTrigger, Version
  <2>2. disturbed' \in BOOLEAN
    BY <1>2, Zenon
  <2> QED
    BY <1>1, <1>2, <1>3, <1>4, <2>1, <2>2 DEF UpInv, UpdateTypeOK
<1>6. Requested'
  <2>1. /\ trigger'[t].step = "idle"
        /\ \A u \in Trigger : u # t => trigger'[u] = trigger[u]
    BY <1>2, NoneAtWork DEF UpInv, UpdateTypeOK
  <2> QED
    BY <1>1, <1>2, <1>4, <2>1 DEF UpInv, Requested
<1>7. Deployments'
  BY <1>1, <1>2, <1>3, <1>4 DEF UpInv, Deployments, Fresh
<1>8. ASSUME ~disturbed' PROVE OneAtWork'
  <2>1. ~disturbed /\ \A b \in Attempt : ~Alive(b)
    BY <1>2, <1>8
  <2>2. InStep'
    BY <1>2, <2>1 DEF UpInv, OneAtWork, InStep
  <2>3. Alive(a)' /\ \A b \in Attempt : b # a => ~Alive(b)'
    BY <1>3, <1>4, <2>1 DEF Alive
  <2>4. Progress(a)'
    BY <1>3, <1>4, <2>2 DEF Progress
  <2> QED
    BY <1>1, <2>3, <2>4 DEF OneAtWork
<1> QED
  BY <1>5, <1>6, <1>7, <1>8 DEF UpInv

\* What is known of a script that is at work.
LEMMA AtWork ==
  ASSUME UpInv, NEW a \in Attempt, Alive(a)
  PROVE  /\ script[a] \in Script /\ script[a].from # a
         /\ db \in Db /\ disturbed \in BOOLEAN /\ upMishaps \in 0..MaxMishaps
         /\ script[a].outcome # "none" <=> script[a].step \in {"state", "history", "task"}
         /\ a # 0
         /\ ~disturbed => Progress(a)
BY DEF UpInv, UpdateTypeOK, Deployments, OneAtWork, Attempt

\* The backup is made of what is in step.
LEMMA BackupInv == ASSUME UpInv, NEW a \in Attempt, Backup(a) PROVE UpInv'
<1> DEFINE new == [script[a] EXCEPT !.step = "backed", !.from = checkout, !.backup = db]
<1>1. /\ script[a].step = "preparing" /\ Alive(a) /\ checkout \in Version /\ checkout # a
      /\ UNCHANGED <<db, code, checkout, trigger, reaper, asked, disturbed, upMishaps>>
  BY DEF Backup, Alive, UpInv, UpdateTypeOK, Deployments, Fresh
<1>2. script' = [script EXCEPT ![a] = new]
  BY DEF Backup, UpInv, UpdateTypeOK
<1>3. /\ new \in Script /\ new.step = "backed" /\ new.from = checkout /\ new.backup = db
      /\ new.outcome = "none"
  BY <1>1, AtWork DEF Script
<1> HIDE DEF new
<1>4. script'[a] = new
  BY <1>2 DEF UpInv, UpdateTypeOK
<1>5. ASSUME ~disturbed PROVE Progress(a)'
  <2>1. InStep /\ script[a].outcome = "none"
    BY <1>1, <1>5, AtWork DEF Progress
  <2>2. code = checkout /\ code = db.schema /\ (code # 0 => db.history[code] = "success")
    BY <2>1 DEF InStep
  <2>3. InStep' /\ BackedUp(a)'
    BY <1>1, <1>3, <1>4, <2>2 DEF InStep, BackedUp
  <2> QED
    BY <1>1, <1>3, <1>4, <2>1, <2>3 DEF Progress
<1> QED
  BY <1>1, <1>2, <1>3, <1>5, AtWork, ScriptStep

\* The release is checked out, migrated to and started, and is well, or fails.
LEMMA DeployInv ==
  ASSUME UpInv, NEW a \in Attempt, Checkout(a) \/ Migrate(a) \/ Restart(a) \/ Healthy(a) \/ Fail(a)
  PROVE  UpInv'
<1>1. CASE Checkout(a)
  <2> DEFINE new == [script[a] EXCEPT !.step = "checked"]
  <2>1. /\ script[a].step = "backed" /\ Alive(a) /\ checkout' = a
        /\ UNCHANGED <<db, code, trigger, reaper, asked, disturbed, upMishaps>>
        /\ script' = [script EXCEPT ![a] = new]
    BY <1>1 DEF Checkout, Steps, Alive, UpInv, UpdateTypeOK
  <2>2. /\ new \in Script /\ new.step = "checked" /\ new.from = script[a].from
        /\ new.backup = script[a].backup /\ new.outcome = "none"
    BY <2>1, AtWork DEF Script
  <2> HIDE DEF new
  <2>3. script'[a] = new
    BY <2>1 DEF UpInv, UpdateTypeOK
  <2>4. ~disturbed => Progress(a)'
    BY <2>1, <2>2, <2>3, AtWork DEF Progress, InStep, BackedUp
  <2> QED
    BY <2>1, <2>2, <2>4, AtWork, ScriptStep
<1>2. CASE Migrate(a)
  <2> DEFINE new == [script[a] EXCEPT !.step = "migrated"]
  <2>1. /\ script[a].step = "checked" /\ Alive(a) /\ db' = [db EXCEPT !.schema = a]
        /\ UNCHANGED <<code, checkout, trigger, reaper, asked, disturbed, upMishaps>>
        /\ script' = [script EXCEPT ![a] = new]
    BY <1>2 DEF Migrate, Steps, Alive, UpInv, UpdateTypeOK
  <2>2. /\ new \in Script /\ new.step = "migrated" /\ new.from = script[a].from
        /\ new.backup = script[a].backup /\ new.outcome = "none"
    BY <2>1, AtWork DEF Script
  <2> HIDE DEF new
  <2>3. script'[a] = new /\ db' \in Db /\ db'.schema = a
    BY <2>1, Rows DEF UpInv, UpdateTypeOK
  <2>4. ~disturbed => Progress(a)'
    BY <2>1, <2>2, <2>3, AtWork DEF Progress, BackedUp
  <2> QED
    BY <2>1, <2>2, <2>3, <2>4, AtWork, ScriptStep
<1>3. CASE Restart(a)
  <2> DEFINE new == [script[a] EXCEPT !.step = "restarted"]
  <2>1. /\ script[a].step = "migrated" /\ Alive(a) /\ code' = checkout
        /\ trigger' = [t \in Trigger |-> NoTrigger] /\ reaper' = NoReaper
        /\ UNCHANGED <<db, checkout, asked, disturbed, upMishaps>>
        /\ script' = [script EXCEPT ![a] = new]
    BY <1>3 DEF Restart, ServerStops, Steps, Alive, UpInv, UpdateTypeOK
  <2>2. /\ new \in Script /\ new.step = "restarted" /\ new.from = script[a].from
        /\ new.backup = script[a].backup /\ new.outcome = "none"
    BY <2>1, AtWork DEF Script
  <2> HIDE DEF new
  <2>3. script'[a] = new
    BY <2>1 DEF UpInv, UpdateTypeOK
  <2>4. ~disturbed => Progress(a)'
    BY <2>1, <2>2, <2>3, AtWork DEF Progress, BackedUp, Deployed
  <2> QED
    BY <2>1, <2>2, <2>4, AtWork, ScriptStep
<1>4. CASE Healthy(a)
  <2> DEFINE new == [script[a] EXCEPT !.step = "state", !.outcome = "success"]
  <2>1. /\ script[a].step = "restarted" /\ Alive(a)
        /\ UNCHANGED <<db, code, checkout, trigger, reaper, asked, disturbed, upMishaps>>
        /\ script' = [script EXCEPT ![a] = new]
    BY <1>4 DEF Healthy, Tells, Alive, UpInv, UpdateTypeOK
  <2>2. /\ new \in Script /\ new.step = "state" /\ new.from = script[a].from
        /\ new.backup = script[a].backup /\ new.outcome = "success"
    BY <2>1, AtWork DEF Script, Outcome
  <2> HIDE DEF new
  <2>3. script'[a] = new
    BY <2>1 DEF UpInv, UpdateTypeOK
  <2>4. ~disturbed => Progress(a)'
    BY <2>1, <2>2, <2>3, AtWork DEF Progress, BackedUp, Deployed
  <2> QED
    BY <2>1, <2>2, <2>4, AtWork, ScriptStep
<1>5. CASE Fail(a) /\ script[a].step = "preparing"
  <2> DEFINE new == [script[a] EXCEPT !.step = "state", !.outcome = "failed"]
  <2>1. /\ script[a].step = "preparing" /\ Alive(a)
        /\ UNCHANGED <<db, code, checkout, trigger, reaper, asked, disturbed, upMishaps>>
        /\ script' = [script EXCEPT ![a] = new]
    BY <1>5 DEF Fail, Tells, Alive, UpInv, UpdateTypeOK
  <2>2. /\ new \in Script /\ new.step = "state" /\ new.from = script[a].from
        /\ new.backup = script[a].backup /\ new.outcome = "failed"
    BY <2>1, AtWork DEF Script, Outcome
  <2> HIDE DEF new
  <2>3. script'[a] = new /\ code # a
    BY <2>1 DEF UpInv, UpdateTypeOK, Deployments, Fresh
  <2>4. ~disturbed => Progress(a)'
    BY <2>1, <2>2, <2>3, AtWork DEF Progress, InStep
  <2> QED
    BY <2>1, <2>2, <2>4, AtWork, ScriptStep
<1>6. CASE Fail(a) /\ script[a].step # "preparing"
  <2> DEFINE new == [script[a] EXCEPT !.step = "rollback"]
  <2>1. /\ script[a].step \in {"backed", "checked", "migrated", "restarted"} /\ Alive(a)
        /\ UNCHANGED <<db, code, checkout, trigger, reaper, asked, disturbed, upMishaps>>
        /\ script' = [script EXCEPT ![a] = new]
    BY <1>6 DEF Fail, Alive, UpInv, UpdateTypeOK
  <2>2. /\ new \in Script /\ new.step = "rollback" /\ new.from = script[a].from
        /\ new.backup = script[a].backup /\ new.outcome = "none"
    BY <2>1, AtWork DEF Script
  <2> HIDE DEF new
  <2>3. script'[a] = new
    BY <2>1 DEF UpInv, UpdateTypeOK
  <2>4. ~disturbed => Progress(a)'
    BY <2>1, <2>2, <2>3, AtWork DEF Progress, BackedUp
  <2> QED
    BY <2>1, <2>2, <2>4, AtWork, ScriptStep
<1> QED
  BY <1>1, <1>2, <1>3, <1>4, <1>5, <1>6

\* What was backed up is back, or the rollback disturbed the update.
LEMMA RollbackInv ==
  ASSUME UpInv, NEW a \in Attempt, Rollback(a) \/ RollbackPartly(a) PROVE UpInv'
<1>1. /\ script[a].step = "rollback" /\ Alive(a)
      /\ trigger' = [t \in Trigger |-> NoTrigger] /\ reaper' = NoReaper /\ asked' = asked
      /\ checkout' \in {checkout, script[a].from} /\ code' \in {code, checkout'}
      /\ db' \in {db, script[a].backup}
      /\ upMishaps' \in 0..MaxMishaps
      /\ Rollback(a) \/ disturbed'
  BY Mishaps DEF Rollback, RollbackPartly, ServerStops, Restored, Alive
<1>2. script[a] \in Script /\ script[a].from # a /\ script[a].backup \in Db /\ db \in Db
  BY <1>1, AtWork DEF Script
<1>3. PICK outcome \in {"rolled_back", "failed"} : Tells(a, outcome)
  BY DEF Rollback, RollbackPartly
<1> DEFINE new == [script[a] EXCEPT !.step = "state", !.outcome = outcome]
<1>4. script' = [script EXCEPT ![a] = new]
  BY <1>3 DEF Tells, UpInv, UpdateTypeOK
<1>5. /\ new \in Script /\ new.step = "state" /\ new.from = script[a].from
      /\ new.backup = script[a].backup /\ new.outcome = outcome
  BY <1>2 DEF Script, Outcome
<1> HIDE DEF new
<1>6. script'[a] = new
  BY <1>4 DEF UpInv, UpdateTypeOK
<1>7. disturbed' \in BOOLEAN
  BY DEF Rollback, RollbackPartly, UpInv, UpdateTypeOK
<1>8. ASSUME ~disturbed' PROVE ~disturbed /\ Progress(a)'
  <2>1. /\ ~disturbed /\ checkout' = script[a].from /\ code' = script[a].from
        /\ db' = script[a].backup
    BY <1>1, <1>8 DEF Rollback, Restored
  <2>2. BackedUp(a)
    BY <1>1, <2>1, AtWork DEF Progress
  <2>3. InStep' /\ code' # a
    BY <1>2, <2>1, <2>2 DEF InStep, BackedUp
  <2> QED
    BY <1>5, <1>6, <2>1, <2>3 DEF Progress
<1>9. checkout' = a => new.step # "backed"
  BY <1>5
<1> QED
  BY <1>1, <1>2, <1>4, <1>5, <1>7, <1>8, <1>9, ScriptStep

\* The script is over.
LEMMA StopInv ==
  ASSUME UpInv, NEW a \in Attempt, Alive(a), NEW how \in {"ended", "dead"}, Stops(a, how),
         db' \in Db, UNCHANGED <<code, checkout, trigger, reaper, asked>>,
         upMishaps' \in 0..MaxMishaps, disturbed' \in BOOLEAN,
         ~disturbed' => ~disturbed /\ InStep'
  PROVE  UpInv'
<1> DEFINE new == [NoScript EXCEPT !.step = how]
<1>1. new \in Script /\ new.step = how /\ new.from = 0 /\ new.outcome = "none"
  BY NoneAtWork DEF NoScript, Script
<1>2. script' = [script EXCEPT ![a] = new]
  BY DEF Stops
<1> HIDE DEF new
<1>3. 0 # a
  BY AtWork
<1> QED
  BY <1>1, <1>2, <1>3, ScriptStep

\* The outcome is told to the state, the history and the task, as far as that goes; of what
\* runs only a success is told.
LEMMA TellInv ==
  ASSUME UpInv, NEW a \in Attempt,
         TellState(a) \/ TellHistory(a) \/ TellTask(a) \/ TellFails(a) \/ ScriptDies(a)
  PROVE  UpInv'
<1>1. CASE TellState(a)
  <2> DEFINE new == [script[a] EXCEPT !.step = "history"]
             b == db.scheduled /\ script[a].outcome # "success"
  <2>1. /\ script[a].step = "state" /\ Alive(a)
        /\ db' = [db EXCEPT !.status = script[a].outcome, !.scheduled = b]
        /\ UNCHANGED <<code, checkout, trigger, reaper, asked, disturbed, upMishaps>>
        /\ script' = [script EXCEPT ![a] = new]
    BY <1>1 DEF TellState, Writes, Steps, Alive, UpInv, UpdateTypeOK, Db
  <2>2. /\ new \in Script /\ new.step = "history" /\ new.from = script[a].from
        /\ new.backup = script[a].backup /\ new.outcome = script[a].outcome
    BY <2>1, AtWork DEF Script
  <2>3. b \in BOOLEAN
    BY Zenon
  <2> HIDE DEF new, b
  <2>4. script'[a] = new
    BY <2>1 DEF UpInv, UpdateTypeOK
  <2>5. db' \in Db /\ db'.schema = db.schema /\ db'.history = db.history
    <3>1. script[a].outcome \in Outcome
      BY <2>1, AtWork DEF Script
    <3> QED
      BY <2>1, <2>3, <3>1, StatusRows
  <2>6. ~disturbed => Progress(a)'
    BY <2>1, <2>2, <2>4, <2>5, AtWork DEF Progress, InStep, BackedUp, Deployed
  <2> QED
    BY <2>1, <2>2, <2>5, <2>6, AtWork, ScriptStep
<1>2. CASE TellHistory(a)
  <2> DEFINE new == [script[a] EXCEPT !.step = "task"]
  <2>1. /\ script[a].step = "history" /\ Alive(a)
        /\ db' = [db EXCEPT !.history[a] = script[a].outcome]
        /\ UNCHANGED <<code, checkout, trigger, reaper, asked, disturbed, upMishaps>>
        /\ script' = [script EXCEPT ![a] = new]
    BY <1>2 DEF TellHistory, Writes, Steps, Alive, UpInv, UpdateTypeOK
  <2>2. /\ new \in Script /\ new.step = "task" /\ new.from = script[a].from
        /\ new.backup = script[a].backup /\ new.outcome = script[a].outcome
    BY <2>1, AtWork DEF Script
  <2> HIDE DEF new
  <2>3. script'[a] = new
    BY <2>1 DEF UpInv, UpdateTypeOK
  <2>4. /\ db' \in Db /\ db'.schema = db.schema /\ db'.history[a] = script[a].outcome
        /\ \A b \in Attempt : b # a => db'.history[b] = db.history[b]
    <3>1. script[a].outcome \in {"in_progress"} \cup Outcome
      BY <2>1, AtWork DEF Script
    <3> DEFINE dbAfter == [db EXCEPT !.history[a] = script[a].outcome]
    <3>2. /\ dbAfter \in Db /\ dbAfter.schema = db.schema /\ dbAfter.history[a] = script[a].outcome
          /\ \A b \in Attempt : b # a => dbAfter.history[b] = db.history[b]
      BY <3>1, Rows
    <3>3. db' = dbAfter
      BY <2>1
    <3> QED
      BY <3>2, <3>3
  <2>5. code # 0 => code \in Attempt
    BY WhatRuns
  <2>6. ~disturbed => Progress(a)'
    <3> SUFFICES ASSUME ~disturbed PROVE Progress(a)'
      OBVIOUS
    <3>1. Progress(a) /\ script[a].outcome # "none"
      BY <2>1, AtWork
    <3>2. CASE script[a].outcome = "success"
      BY <2>1, <2>2, <2>3, <2>4, <3>1, <3>2 DEF Progress, BackedUp, Deployed
    <3>3. CASE script[a].outcome # "success"
      <4>1. script[a].outcome \in {"failed", "rolled_back"}
        BY <2>1, <3>1, <3>3, AtWork DEF Script, Outcome
      <4>2. InStep /\ code # a
        BY <3>1, <4>1 DEF Progress
      <4>3. InStep' /\ code' # a
        BY <2>1, <2>4, <2>5, <4>2 DEF InStep
      <4> QED
        BY <2>2, <2>3, <3>3, <4>3 DEF Progress
    <3> QED
      BY <3>2, <3>3
  <2> QED
    BY <2>1, <2>2, <2>4, <2>6, AtWork, ScriptStep
<1>3. CASE TellTask(a)
  <2>1. /\ script[a].step = "task" /\ Alive(a) /\ Stops(a, "ended")
        /\ db' = [db EXCEPT !.task[a] = TaskOutcome(script[a].outcome)]
        /\ UNCHANGED <<code, checkout, trigger, reaper, asked, disturbed, upMishaps>>
    BY <1>3 DEF TellTask, Alive
  <2>2. db' \in Db /\ db'.schema = db.schema /\ db'.history = db.history
    <3>1. PICK x \in {"running", "completed", "failed"} : x = TaskOutcome(script[a].outcome)
      BY DEF TaskOutcome
    <3> QED
      BY <2>1, <3>1, Rows
  <2>3. ASSUME ~disturbed PROVE InStep'
    <3>1. Progress(a) /\ script[a].outcome \in Outcome
      BY <2>1, <2>3, AtWork DEF Script
    <3>2. InStep
      BY <2>1, <3>1 DEF Progress, Outcome, Deployed, InStep
    <3> QED
      BY <2>1, <2>2, <3>2 DEF InStep
  <2> QED
    BY <2>1, <2>2, <2>3, AtWork, StopInv
<1>4. CASE TellFails(a)
  <2>1. /\ script[a].step \in {"state", "history", "task"} /\ Alive(a)
        /\ upMishaps' \in 0..MaxMishaps
        /\ UNCHANGED <<db, code, checkout, trigger, reaper, asked, disturbed>>
    BY <1>4, Mishaps DEF TellFails, Alive
  <2>2. CASE script[a].outcome = "success"
    <3> DEFINE new == [script[a] EXCEPT !.step = "rollback", !.outcome = "none"]
    <3>1. script' = [script EXCEPT ![a] = new]
      BY <1>4, <2>2 DEF TellFails, UpInv, UpdateTypeOK
    <3>2. /\ new \in Script /\ new.step = "rollback" /\ new.outcome = "none"
          /\ new.from = script[a].from /\ new.backup = script[a].backup
      BY <2>1, AtWork DEF Script
    <3> HIDE DEF new
    <3>3. script'[a] = new
      BY <3>1 DEF UpInv, UpdateTypeOK
    <3>4. ~disturbed => Progress(a)'
      BY <2>1, <2>2, <3>2, <3>3, AtWork DEF Progress, BackedUp
    <3> QED
      BY <2>1, <3>1, <3>2, <3>4, AtWork, ScriptStep
  <2>3. CASE script[a].outcome # "success"
    <3>1. Stops(a, "ended")
      BY <1>4, <2>3 DEF TellFails
    <3>2. ASSUME ~disturbed PROVE InStep'
      <4>1. Progress(a) /\ script[a].outcome \in {"failed", "rolled_back"}
        BY <2>1, <2>3, <3>2, AtWork DEF Script, Outcome
      <4> QED
        BY <2>1, <4>1 DEF Progress, InStep
    <3> QED
      BY <2>1, <3>1, <3>2, AtWork, StopInv
  <2> QED
    BY <2>2, <2>3
<1>5. CASE ScriptDies(a)
  <2>1. /\ Alive(a) /\ Stops(a, "dead") /\ disturbed' = TRUE /\ upMishaps' \in 0..MaxMishaps
        /\ UNCHANGED <<db, code, checkout, trigger, reaper, asked>>
    BY <1>5, Mishaps DEF ScriptDies
  <2> QED
    BY <2>1, AtWork, StopInv
<1> QED
  BY <1>1, <1>2, <1>3, <1>4, <1>5

\* Every step of an update keeps its invariant.
LEMMA UpStep == UpInv /\ [UpdateNext]_upVars => UpInv'
<1> SUFFICES ASSUME UpInv, [UpdateNext]_upVars PROVE UpInv'
  OBVIOUS
<1>1. CASE UNCHANGED upVars
  BY <1>1 DEF upVars, UpInv, UpdateTypeOK, Requested, Deployments, Fresh, OneAtWork, Alive, Progress,
    InStep, Deployed, BackedUp
<1>2. CASE \/ ScheduleUpdate \/ CancelSchedule \/ TurnReportingOn \/ ServerDies
           \/ GrowsOverdue \/ ReapGoesOn \/ ReapFails
  BY <1>2, SweepInv
<1>3. ASSUME NEW t \in Trigger, UpdateNow(t) \/ UpdateScheduled(t) \/ TriggerGoesOn(t) PROVE UpInv'
  BY <1>3, TriggerInv, SpawnInv DEF UpdateNow, UpdateScheduled, TriggerGoesOn
<1>4. ASSUME NEW a \in Attempt,
             ScriptGoesOn(a) \/ RollbackPartly(a) \/ TellFails(a) \/ ScriptDies(a)
      PROVE  UpInv'
  BY <1>4, BackupInv, DeployInv, RollbackInv, TellInv DEF ScriptGoesOn
<1> QED
  BY <1>1, <1>2, <1>3, <1>4 DEF UpdateNext

\* With no script at work, and unless two of them met, one died or a rollback was left half
\* done, the version that runs is checked out and is the one the database was migrated to,
\* and the history calls it a success (update.sh and the runner's reports), for any number
\* of attempts and of requests for them.
THEOREM UpdateKeepsStep == UpdateSpec => []CodeAndDatabaseInStep
<1>1. UpInv => CodeAndDatabaseInStep
  BY DEF UpInv, OneAtWork, InStep, CodeAndDatabaseInStep
<1> QED
  BY <1>1, UpInit, UpStep, PTL DEF UpdateSpec

-----------------------------------------------------------------------------
(* The deadlines: what a sweep has recorded it alone tells *)

ToBeTold(v) == stage[v[1]] = "purged" \/ (v[2] \in breach[v[1]] /\ told[v[1]][v[2]] = 0)

SlaInv ==
  /\ SlaTypeOK
  /\ \A w \in Sweep : \A v \in sweep[w].on : ToBeTold(v)
  /\ \A w, x \in Sweep : \A v \in sweep[w].on \cap sweep[x].on : w = x \/ stage[v[1]] = "purged"

SweepType == [step : {"resting", "sweeping"}, left : SUBSET Violation, on : SUBSET Violation]

\* No deadline has passed.
LEMMA SlaInitInv == SlaInit => SlaInv
<1> SUFFICES ASSUME SlaInit PROVE SlaInv
  OBVIOUS
<1>1. sweep \in [Sweep -> SweepType] /\ \A w \in Sweep : sweep[w].on = {}
  BY DEF SlaInit, Resting, SweepType
<1>2. \A w \in Sweep : Cardinality(sweep[w].on) <= 1
  BY <1>1, FS_EmptySet
<1>3. told \in [SlaDemand -> [Stage -> 0..1]] /\ \A d \in SlaDemand, s \in Stage : told[d][s] = 0
  BY DEF SlaInit
<1> QED
  BY <1>1, <1>2, <1>3, SlaBounds DEF SlaBounds, SlaInit, SlaInv, SlaTypeOK, SweepType, Stage

\* A demand that goes on, or ends, or is late, changes nothing of what is to be told; of one
\* that is purged nothing is.
LEMMA DemandMoves ==
  ASSUME SlaInv, NEW d \in SlaDemand, NEW s \in Stage \cup {"ended", "purged"},
         stage' = [stage EXCEPT ![d] = s],
         breach' = [breach EXCEPT ![d] = IF s = "purged" THEN {} ELSE @],
         late' \subseteq late, d \notin late',
         stage[d] # "purged", UNCHANGED <<told, sweep, unheard, slaMishaps>>
  PROVE  SlaInv'
<1>1. /\ stage' \in [SlaDemand -> Stage \cup {"ended", "purged"}] /\ stage'[d] = s
      /\ \A e \in SlaDemand : e # d => stage'[e] = stage[e]
      /\ breach' \in [SlaDemand -> SUBSET Stage] /\ (s # "purged" => breach'[d] = breach[d])
      /\ \A e \in SlaDemand : e # d => breach'[e] = breach[e]
  BY DEF SlaInv, SlaTypeOK
<1>2. \A w \in Sweep : \A v \in sweep[w].on : v[1] \in SlaDemand
  BY DEF SlaInv, SlaTypeOK, Violation
<1>3. \A e \in SlaDemand : stage[e] = "purged" => stage'[e] = "purged"
  BY <1>1
<1>4. SlaTypeOK'
  BY <1>1 DEF SlaInv, SlaTypeOK
<1>5. \A w \in Sweep : \A v \in sweep[w].on : ToBeTold(v)'
  BY <1>1, <1>2 DEF SlaInv, ToBeTold
<1> QED
  BY <1>2, <1>3, <1>4, <1>5 DEF SlaInv

\* A step of one sweep, that may record what no other has on, and tells what it has.
LEMMA SweepStep ==
  ASSUME SlaInv, NEW w \in Sweep, NEW new \in SweepType,
         sweep' = [sweep EXCEPT ![w] = new],
         UNCHANGED <<stage, late>>, slaMishaps' \in 0..MaxSlaMishaps,
         unheard' \subseteq Violation,
         breach' \in [SlaDemand -> SUBSET Stage], told' \in [SlaDemand -> [Stage -> 0..1]],
         \A d \in SlaDemand : breach[d] \subseteq breach'[d],
         \A v \in Violation : told'[v[1]][v[2]] = told[v[1]][v[2]]
           \/ (v \in sweep[w].on /\ v \notin new.on /\ stage[v[1]] # "purged"),
         Cardinality(new.on) <= 1,
         \A v \in new.on : v \in sweep[w].on
           \/ /\ stage[v[1]] # "purged" /\ v[2] \notin breach[v[1]] /\ v[2] \in breach'[v[1]]
              /\ told' = told
  PROVE  SlaInv'
<1>1. /\ sweep' \in [Sweep -> SweepType] /\ sweep'[w] = new
      /\ \A x \in Sweep : x # w => sweep'[x] = sweep[x]
      /\ \A x \in Sweep : sweep[x].on \subseteq Violation /\ sweep'[x].on \subseteq Violation
  BY DEF SlaInv, SlaTypeOK, SweepType
<1>2. \A v \in Violation : v[1] \in SlaDemand /\ v[2] \in Stage
  BY DEF Violation
<1>3. \A x \in Sweep : \A v \in sweep'[x].on : ToBeTold(v)'
  <2> SUFFICES ASSUME NEW x \in Sweep, NEW v \in sweep'[x].on, stage[v[1]] # "purged"
               PROVE  v[2] \in breach'[v[1]] /\ told'[v[1]][v[2]] = 0
    BY stage' = stage DEF ToBeTold
  <2>1. v \in Violation /\ v[1] \in SlaDemand /\ v[2] \in Stage
    BY <1>1, <1>2
  <2>2. CASE v \in sweep[x].on
    <3>1. v[2] \in breach[v[1]] /\ told[v[1]][v[2]] = 0
      BY <2>2 DEF SlaInv, ToBeTold
    <3>2. ~(v \in sweep[w].on /\ v \notin new.on)
      BY <1>1, <2>2 DEF SlaInv
    <3> QED
      BY <2>1, <3>1, <3>2
  <2>3. CASE v \notin sweep[x].on
    <3>1. x = w /\ v[2] \notin breach[v[1]] /\ v[2] \in breach'[v[1]] /\ told' = told
      BY <1>1, <2>3
    <3>2. told[v[1]][v[2]] = 0
      BY <2>1, <3>1 DEF SlaInv, SlaTypeOK
    <3> QED
      BY <3>1, <3>2
  <2> QED
    BY <2>2, <2>3
<1>4. \A x, y \in Sweep : \A v \in sweep'[x].on \cap sweep'[y].on : x = y \/ stage[v[1]] = "purged"
  <2>1. \A x \in Sweep : \A v \in sweep[x].on : v[2] \in breach[v[1]] \/ stage[v[1]] = "purged"
    BY DEF SlaInv, ToBeTold
  <2> QED
    BY <1>1, <2>1 DEF SlaInv
<1>5. \A d \in SlaDemand, s \in Stage : told'[d][s] > 0 => s \in breach'[d] \/ stage[d] = "purged"
  <2> SUFFICES ASSUME NEW d \in SlaDemand, NEW s \in Stage, told'[d][s] > 0, stage[d] # "purged"
               PROVE  s \in breach'[d]
    OBVIOUS
  <2>1. PICK v \in Violation : v[1] = d /\ v[2] = s
    <3>1. <<d, s>> \in Violation
      BY DEF Violation
    <3> QED
      BY <3>1
  <2>2. CASE told'[d][s] = told[d][s]
    BY <2>2 DEF SlaInv, SlaTypeOK
  <2>3. CASE v \in sweep[w].on
    BY <2>1, <2>3 DEF SlaInv, ToBeTold
  <2> QED
    BY <2>1, <2>2, <2>3
<1>6. \A x \in Sweep : Cardinality(sweep'[x].on) <= 1
  BY <1>1 DEF SlaInv, SlaTypeOK
<1> QED
  BY <1>1, <1>3, <1>4, <1>5, <1>6 DEF SlaInv, SlaTypeOK, SweepType

\* A sweep that has nothing to tell any more.
LEMMA SweepForgets ==
  ASSUME SlaInv, NEW w \in Sweep, NEW new \in SweepType, new.on = {},
         sweep' = [sweep EXCEPT ![w] = new],
         UNCHANGED <<stage, late, breach, told>>, slaMishaps' \in 0..MaxSlaMishaps,
         unheard' \subseteq Violation
  PROVE  SlaInv'
<1>1. /\ breach' \in [SlaDemand -> SUBSET Stage] /\ told' \in [SlaDemand -> [Stage -> 0..1]]
      /\ \A d \in SlaDemand : breach[d] \subseteq breach'[d]
      /\ \A v \in Violation : told'[v[1]][v[2]] = told[v[1]][v[2]]
           \/ (v \in sweep[w].on /\ v \notin new.on /\ stage[v[1]] # "purged")
  BY DEF SlaInv, SlaTypeOK
<1>2. Cardinality(new.on) <= 1
  BY FS_EmptySet
<1>3. \A v \in new.on : v \in sweep[w].on
        \/ /\ stage[v[1]] # "purged" /\ v[2] \notin breach[v[1]] /\ v[2] \in breach'[v[1]]
           /\ told' = told
  OBVIOUS
<1> QED
  BY <1>1, <1>2, <1>3, SweepStep

\* Every step of the demands and the sweeps keeps their invariant.
LEMMA SlaStep == SlaInv /\ [SlaNext]_slaVars => SlaInv'
<1> SUFFICES ASSUME SlaInv, [SlaNext]_slaVars PROVE SlaInv'
  OBVIOUS
<1>t. /\ sweep \in [Sweep -> SweepType] /\ slaMishaps \in 0..MaxSlaMishaps
      /\ late \subseteq {d \in SlaDemand : stage[d] \in Stage}
      /\ stage \in [SlaDemand -> Stage \cup {"ended", "purged"}]
      /\ breach \in [SlaDemand -> SUBSET Stage] /\ told \in [SlaDemand -> [Stage -> 0..1]]
      /\ \A w \in Sweep : Cardinality(sweep[w].on) <= 1
      /\ unheard \subseteq Violation
  BY DEF SlaInv, SlaTypeOK, SweepType
<1>e. Cardinality({}) <= 1 /\ Resting \in SweepType /\ Resting.on = {}
  BY FS_EmptySet DEF Resting, SweepType
<1>1. CASE UNCHANGED slaVars
  BY <1>1 DEF slaVars, SlaInv, SlaTypeOK, ToBeTold
<1>2. ASSUME NEW d \in SlaDemand, Advance(d) \/ EndDemand(d) PROVE SlaInv'
  <2>1. PICK s \in Stage \cup {"ended"} : Moves(d, s)
    BY <1>2 DEF Advance, EndDemand, Follows, Stage
  <2>2. s # "purged" /\ stage[d] # "purged"
    BY <1>2 DEF Stage, Advance, EndDemand
  <2>3. breach' = [breach EXCEPT ![d] = IF s = "purged" THEN {} ELSE @]
    BY <1>t, <2>1, <2>2 DEF Moves
  <2> QED
    BY <2>1, <2>2, <2>3, DemandMoves DEF Moves
<1>3. ASSUME NEW d \in SlaDemand, DeadlinePasses(d) PROVE SlaInv'
  <2>1. late' \subseteq {e \in SlaDemand : stage[e] \in Stage}
    BY <1>t, <1>3 DEF DeadlinePasses
  <2> QED
    BY <1>3, <2>1 DEF DeadlinePasses, SlaInv, SlaTypeOK, ToBeTold
<1>4. ASSUME NEW d \in SlaDemand, PurgeDemand(d) PROVE SlaInv'
  BY <1>4, DemandMoves DEF PurgeDemand
<1>5. ASSUME NEW w \in Sweep, SweepReads(w) PROVE SlaInv'
  <2> DEFINE new == [step |-> "sweeping", left |-> Violations, on |-> {}]
  <2>1. new \in SweepType /\ new.on = {}
    BY <1>t DEF Violations, Violation, SweepType
  <2>2. sweep' = [sweep EXCEPT ![w] = new] /\ UNCHANGED <<stage, late, breach, told, unheard, slaMishaps>>
    BY <1>5 DEF SweepReads
  <2> HIDE DEF new
  <2> QED
    BY <1>t, <1>e, <2>1, <2>2, SweepForgets
<1>6. ASSUME NEW w \in Sweep, Record(w) PROVE SlaInv'
  <2>1. PICK v \in sweep[w].left :
          IF MayRecord(v[1], v[2])
            THEN /\ breach' = [breach EXCEPT ![v[1]] = @ \cup {v[2]}]
                 /\ sweep' = [sweep EXCEPT ![w].left = @ \ {v}, ![w].on = {v}]
            ELSE sweep' = [sweep EXCEPT ![w].left = AfterKnown(w, v)] /\ UNCHANGED breach
    BY <1>6 DEF Record
  <2>2. /\ sweep[w].on = {} /\ sweep[w].step \in {"resting", "sweeping"}
        /\ UNCHANGED <<stage, late, told, unheard, slaMishaps>>
        /\ v \in Violation /\ v[1] \in SlaDemand /\ v[2] \in Stage
        /\ sweep[w].left \ {v} \in SUBSET Violation /\ {v} \in SUBSET Violation
    BY <1>t, <1>6 DEF Record, SweepType, Violation
  <2>3. CASE MayRecord(v[1], v[2])
    <3> DEFINE left == sweep[w].left \ {v}
               on == {v}
               new == [sweep[w] EXCEPT !.left = left, !.on = on]
    <3>1. new \in SweepType /\ new.on = {v} /\ sweep' = [sweep EXCEPT ![w] = new]
      <4>1. sweep' = [sweep EXCEPT ![w] = new]
        BY <1>t, <2>1, <2>3 DEF SweepType
      <4>2. left \in SUBSET Violation /\ on \in SUBSET Violation
        BY <2>2
      <4>3. sweep[w] \in SweepType
        BY <1>t
      <4> HIDE DEF left, on
      <4>4. new \in SweepType /\ new.on = on
        BY <4>2, <4>3 DEF SweepType
      <4> QED
        BY <4>1, <4>4 DEF on
    <3> HIDE DEF new
    <3>2. /\ breach' \in [SlaDemand -> SUBSET Stage] /\ v[2] \in breach'[v[1]]
          /\ \A d \in SlaDemand : breach[d] \subseteq breach'[d]
      <4> DEFINE stages == breach[v[1]] \cup {v[2]}
      <4>1. stages \in SUBSET Stage /\ v[2] \in stages /\ breach[v[1]] \subseteq stages
        BY <1>t, <2>2
      <4>2. breach' = [breach EXCEPT ![v[1]] = stages]
        BY <2>1, <2>3
      <4> HIDE DEF stages
      <4> QED
        BY <1>t, <2>2, <4>1, <4>2
    <3>3. Cardinality(new.on) <= 1
      BY <3>1, FS_Singleton
    <3>4. /\ \A u \in Violation : told'[u[1]][u[2]] = told[u[1]][u[2]]
                \/ (u \in sweep[w].on /\ u \notin new.on /\ stage[u[1]] # "purged")
          /\ \A u \in new.on : u \in sweep[w].on
               \/ /\ stage[u[1]] # "purged" /\ u[2] \notin breach[u[1]] /\ u[2] \in breach'[u[1]]
                  /\ told' = told
      BY <2>2, <2>3, <3>1, <3>2 DEF MayRecord
    <3>5. told' \in [SlaDemand -> [Stage -> 0..1]] /\ slaMishaps' \in 0..MaxSlaMishaps
      BY <1>t, <2>2
    <3> QED
      BY <1>t, <2>2, <3>1, <3>2, <3>3, <3>4, <3>5, SweepStep
  <2>4. CASE ~MayRecord(v[1], v[2])
    <3> DEFINE new == [sweep[w] EXCEPT !.left = @ \ {v}]
    <3>1. new \in SweepType /\ new.on = {} /\ sweep' = [sweep EXCEPT ![w] = new]
      BY <1>t, <2>1, <2>2, <2>4 DEF SweepType, AfterKnown
    <3> HIDE DEF new
    <3> QED
      BY <1>t, <1>e, <2>1, <2>2, <2>4, <3>1, SweepForgets
  <2> QED
    BY <2>3, <2>4
<1>7. ASSUME NEW w \in Sweep, Tell(w) PROVE SlaInv'
  <2> DEFINE new == [sweep[w] EXCEPT !.on = {}]
  <2>1. new \in SweepType /\ new.on = {} /\ sweep' = [sweep EXCEPT ![w] = new]
    <3>1. sweep' = [sweep EXCEPT ![w] = new]
      BY <1>t, <1>7 DEF SweepType, Tell
    <3>2. sweep[w] \in SweepType /\ {} \in SUBSET Violation
      BY <1>t
    <3> QED
      BY <3>1, <3>2 DEF SweepType
  <2> HIDE DEF new
  <2>2. PICK v \in sweep[w].on :
          told' = [told EXCEPT ![v[1]][v[2]] = IF stage[v[1]] = "purged" THEN @ ELSE @ + 1]
    BY <1>7 DEF Tell
  <2>3. /\ UNCHANGED <<stage, late, breach, unheard, slaMishaps>>
        /\ v \in Violation /\ v[1] \in SlaDemand /\ v[2] \in Stage /\ v = <<v[1], v[2]>>
    BY <1>t, <1>7 DEF Tell, SweepType, Violation
  <2>4. stage[v[1]] # "purged" => told[v[1]][v[2]] = 0
    BY DEF SlaInv, ToBeTold
  <2>5. /\ told' \in [SlaDemand -> [Stage -> 0..1]]
        /\ \A u \in Violation : told'[u[1]][u[2]] = told[u[1]][u[2]]
             \/ (u = v /\ stage[v[1]] # "purged")
    <3> DEFINE n == IF stage[v[1]] = "purged" THEN told[v[1]][v[2]] ELSE told[v[1]][v[2]] + 1
               m == [told[v[1]] EXCEPT ![v[2]] = n]
    <3>1. n \in 0..1 /\ (stage[v[1]] = "purged" => n = told[v[1]][v[2]])
      BY <1>t, <2>3, <2>4
    <3>2. told' = [told EXCEPT ![v[1]] = m]
      BY <1>t, <2>2, <2>3
    <3> HIDE DEF n
    <3>3. m \in [Stage -> 0..1] /\ m[v[2]] = n /\ \A s \in Stage : s # v[2] => m[s] = told[v[1]][s]
      BY <1>t, <2>3, <3>1
    <3> HIDE DEF m
    <3>4. /\ told' \in [SlaDemand -> [Stage -> 0..1]] /\ told'[v[1]] = m
          /\ \A d \in SlaDemand : d # v[1] => told'[d] = told[d]
      BY <1>t, <2>3, <3>2, <3>3
    <3>5. \A u \in Violation : u[1] \in SlaDemand /\ u[2] \in Stage
                               /\ ((u[1] = v[1] /\ u[2] = v[2]) => u = v)
      BY <2>3 DEF Violation
    <3> QED
      BY <3>1, <3>3, <3>4, <3>5
  <2>6. /\ \A u \in Violation : told'[u[1]][u[2]] = told[u[1]][u[2]]
             \/ (u \in sweep[w].on /\ u \notin new.on /\ stage[u[1]] # "purged")
        /\ \A u \in new.on : u \in sweep[w].on
             \/ /\ stage[u[1]] # "purged" /\ u[2] \notin breach[u[1]] /\ u[2] \in breach'[u[1]]
                /\ told' = told
        /\ \A d \in SlaDemand : breach[d] \subseteq breach'[d]
    BY <2>1, <2>3, <2>5
  <2>7. /\ breach' \in [SlaDemand -> SUBSET Stage] /\ slaMishaps' \in 0..MaxSlaMishaps
        /\ Cardinality(new.on) <= 1
    BY <1>t, <1>e, <2>1, <2>3
  <2> QED
    BY <1>t, <2>1, <2>3, <2>5, <2>6, <2>7, SweepStep
<1>8. ASSUME NEW w \in Sweep, SweepEnds(w) PROVE SlaInv'
  BY <1>8, <1>t, <1>e, SweepForgets DEF SweepEnds
<1>9. ASSUME NEW w \in Sweep, SweepDies(w) \/ CannotTell(w) PROVE SlaInv'
  <2> DEFINE new == IF SweepDies(w) THEN Resting ELSE [sweep[w] EXCEPT !.on = {}]
  <2>1. slaMishaps' \in 0..MaxSlaMishaps /\ unheard' \subseteq Violation
    BY <1>9, <1>t, SlaBounds DEF SweepDies, CannotTell, Mishap, SlaBounds, SweepType
  <2>2. new \in SweepType /\ new.on = {}
    <3>1. sweep[w] \in SweepType /\ {} \in SUBSET Violation
      BY <1>t
    <3> QED
      BY <1>e, <3>1 DEF SweepType
  <2>3. sweep' = [sweep EXCEPT ![w] = new] /\ UNCHANGED <<stage, late, breach, told>>
    BY <1>9, <1>t DEF SweepDies, CannotTell, SweepType
  <2> HIDE DEF new
  <2> QED
    BY <2>1, <2>2, <2>3, SweepForgets
<1> QED
  BY <1>1, <1>2, <1>3, <1>4, <1>5, <1>6, <1>7, <1>8, <1>9 DEF SlaNext, SweepGoesOn

-----------------------------------------------------------------------------
(* The analyses: what is written was made by somebody, and what was read was too *)

Sound(k, r) ==
  /\ k.step \in {"update", "saved", "told"} => r # NoRow
  /\ k.kind = "analysis" => k.on = Section
  /\ k.step # "idle" => k.kind # "none"
  /\ k.kind # "none" => k.on # {}
  /\ k.kind = "edit" => k.step \in {"answered", "update", "create", "ended"}
  /\ k.read # NoRow => \A s \in Section : k.read[s] # "nobody"

WorkInv ==
  WorkTypeOK /\ \A w \in Work : Sound(work[w], row) /\ (work[w].kind = "none" => task[w] = "none")

WorkType == [kind : {"none", "analysis", "section", "edit"},
             step : Started \cup {"idle", "ended"},
             on : SUBSET Section, read : Row]
JobStatus == {"none", "running", "completed", "failed"}
TaskStatus == {"none", "queued", "running", "completed", "failed"}

\* A row, once there, stays, and every section of it was written by somebody.
RowStays ==
  /\ row' \in Row /\ (NoRow # row' => \A s \in Section : row'[s] # "nobody")
  /\ row # NoRow => row' # NoRow

\* There is no row, and no work is under way.
LEMMA NothingYet ==
  /\ NoRow \in Row /\ NoWork \in WorkType
  /\ NoWork.step = "idle" /\ NoWork.kind = "none" /\ NoWork.read = NoRow
<1>1. NoRow \in Row
  BY DEF NoRow, Row
<1> QED
  BY <1>1 DEF NoWork, WorkType, Started

\* Nothing was analysed yet.
LEMMA WorkInitInv == WorkInit => WorkInv
<1> SUFFICES ASSUME WorkInit PROVE WorkInv
  OBVIOUS
<1>1. \A w \in Work : work[w] = NoWork /\ task[w] = "none" /\ job[w] = "none"
  BY DEF WorkInit
<1>2. work \in [Work -> WorkType] /\ row \in Row
  BY NothingYet DEF WorkInit
<1>3. unswept \in BOOLEAN
  BY Zenon DEF WorkInit
<1>4. WorkTypeOK
  BY <1>1, <1>2, <1>3, NothingYet, WorkBounds
    DEF WorkInit, WorkTypeOK, WorkType, WorkBounds
<1>5. \A w \in Work : Sound(work[w], row) /\ task[w] = "none"
  BY <1>1, NothingYet DEF Sound
<1> QED
  BY <1>4, <1>5 DEF WorkInv

\* One work goes on, and what it leaves behind is sound.
LEMMA OneWorks ==
  ASSUME WorkInv, NEW w \in Work, NEW new \in WorkType, work' = [work EXCEPT ![w] = new],
         RowStays, Sound(new, row'),
         job' \in [Work -> JobStatus], \A x \in Work : x # w => job'[x] = job[x],
         job'[w] = "completed" => row' # NoRow,
         task' \in [Work -> TaskStatus], \A x \in Work : x # w => task'[x] = task[x],
         new.kind \in {"edit", "none"} => task'[w] = "none",
         UNCHANGED boot, unswept' = unswept, stranded' \subseteq Work,
         trouble' \in 0..MaxTrouble
  PROVE  WorkInv'
<1>1. /\ work' \in [Work -> WorkType] /\ work'[w] = new
      /\ \A x \in Work : x # w => work'[x] = work[x]
  BY DEF WorkInv, WorkTypeOK, WorkType
<1>2. WorkTypeOK'
  <2>1. \A x \in Work : work'[x].kind = "edit" => task'[x] = "none"
    BY <1>1 DEF WorkInv, WorkTypeOK
  <2>2. \A x \in Work : job'[x] = "completed" => row' # NoRow
    BY DEF WorkInv, WorkTypeOK, RowStays
  <2>3. boot' \in {"up", "sweeping"} /\ unswept' \in BOOLEAN
    BY DEF WorkInv, WorkTypeOK
  <2> QED
    BY <1>1, <2>1, <2>2, <2>3 DEF WorkTypeOK, WorkType, RowStays, JobStatus, TaskStatus
<1>3. ASSUME NEW x \in Work PROVE Sound(work'[x], row') /\ (work'[x].kind = "none" => task'[x] = "none")
  <2>1. CASE x = w
    BY <1>1, <2>1 DEF Sound
  <2>2. CASE x # w
    BY <1>1, <2>2 DEF WorkInv, Sound, RowStays
  <2> QED
    BY <2>1, <2>2
<1> QED
  BY <1>2, <1>3 DEF WorkInv

\* It goes on to its next step.
LEMMA WorkTakes ==
  ASSUME WorkInv, NEW w \in Work, NEW to \in Started \cup {"ended"},
         work[w].step # "idle", work' = [work EXCEPT ![w].step = to],
         work[w].kind = "edit" => to \in {"answered", "update", "create", "ended"},
         to \in {"update", "saved", "told"} => row' # NoRow,
         RowStays,
         job' \in [Work -> JobStatus], \A x \in Work : x # w => job'[x] = job[x],
         job'[w] = "completed" => row' # NoRow,
         task' \in [Work -> TaskStatus], \A x \in Work : x # w => task'[x] = task[x],
         work[w].kind = "edit" => task'[w] = "none",
         UNCHANGED boot, unswept' = unswept, stranded' \subseteq Work,
         trouble' \in 0..MaxTrouble
  PROVE  WorkInv'
<1> DEFINE new == [work[w] EXCEPT !.step = to]
<1>1. /\ new \in WorkType /\ new.step = to /\ new.kind = work[w].kind
      /\ new.on = work[w].on /\ new.read = work[w].read
      /\ work' = [work EXCEPT ![w] = new]
  <2>1. work[w] \in WorkType /\ work' = [work EXCEPT ![w] = new]
    BY DEF WorkInv, WorkTypeOK, WorkType
  <2> QED
    BY <2>1, to \in Started \cup {"idle", "ended"} DEF WorkType
<1> HIDE DEF new
<1>2. Sound(new, row')
  <2>1. Sound(work[w], row)
    BY DEF WorkInv
  <2> QED
    BY <1>1, <2>1 DEF Sound
<1>3. new.kind \in {"edit", "none"} => task'[w] = "none"
  BY <1>1 DEF WorkInv, Sound
<1> QED
  BY <1>1, <1>2, <1>3, OneWorks

\* What a work writes is a whole row.
LEMMA WholeRow ==
  ASSUME WorkInv, NEW w \in Work, row # NoRow \/ work[w].kind = "analysis",
         work[w].step # "idle", row' = Written(w)
  PROVE  RowStays /\ row' # NoRow
<1>1. /\ work[w].on \subseteq Section /\ work[w].read \in Row /\ row \in Row
      /\ Sound(work[w], row) /\ (row # NoRow => \A s \in Section : row[s] # "nobody")
  BY DEF WorkInv, WorkTypeOK
<1>2. \A s \in Section : row'[s] = IF s \in work[w].on THEN w
                                   ELSE IF work[w].read = NoRow THEN row[s] ELSE work[w].read[s]
  BY DEF Written
<1>3. ASSUME NEW s \in Section PROVE row'[s] \in Work /\ row'[s] # "nobody"
  <2>1. w # "nobody"
    BY WorkSections DEF WorkSections
  <2>2. CASE s \in work[w].on
    BY <1>2, <2>1, <2>2
  <2>3. CASE s \notin work[w].on /\ work[w].read = NoRow
    <3>1. row # NoRow
      BY <1>1, <2>3 DEF Sound
    <3> QED
      BY <1>1, <1>2, <2>3, <3>1 DEF Row
  <2>4. CASE s \notin work[w].on /\ work[w].read # NoRow
    BY <1>1, <1>2, <2>4 DEF Row, Sound
  <2> QED
    BY <2>2, <2>3, <2>4
<1>4. row' \in Row
  <2>1. row' = [s \in Section |-> row'[s]]
    BY DEF Written
  <2> QED
    BY <1>3, <2>1 DEF Row
<1>5. row' # NoRow
  <2>1. PICK s \in Section : TRUE
    BY WorkSections DEF WorkSections
  <2> QED
    BY <1>3, <2>1 DEF NoRow
<1> QED
  BY <1>3, <1>4, <1>5 DEF RowStays

\* The process ends, and with it whatever was under way.
LEMMA ExitsInv ==
  ASSUME WorkInv, Exits, UNCHANGED <<row, job, task, unswept>>, stranded' \subseteq Work,
         trouble' \in 0..MaxTrouble
  PROVE  WorkInv'
<1>1. ASSUME NEW w \in Work
      PROVE  /\ work'[w] \in WorkType /\ work'[w].kind = work[w].kind
             /\ work'[w].on = work[w].on /\ work'[w].read = work[w].read
             /\ (work'[w].step = "ended" /\ work[w].step # "idle") \/ work'[w] = work[w]
  <2>1. /\ work'[w] = IF work[w].step \in Started THEN [work[w] EXCEPT !.step = "ended"]
                      ELSE work[w]
        /\ work[w] \in WorkType
    BY DEF Exits, WorkInv, WorkTypeOK, WorkType
  <2>2. work[w].step \in Started => work[w].step # "idle"
    BY DEF Started
  <2> QED
    BY <2>1, <2>2 DEF WorkType
<1>2. work' \in [Work -> WorkType]
  <2>1. work' = [w \in Work |-> work'[w]]
    BY DEF Exits
  <2> QED
    BY <1>1, <2>1
<1>3. WorkTypeOK'
  <2>1. boot' \in {"up", "sweeping"}
    BY DEF Exits
  <2>2. \A w \in Work : work'[w].kind = work[w].kind
    BY <1>1
  <2> QED
    BY <1>2, <2>1, <2>2 DEF WorkInv, WorkTypeOK, WorkType
<1>4. ASSUME NEW w \in Work PROVE Sound(work'[w], row') /\ (work'[w].kind = "none" => task'[w] = "none")
  <2>1. Sound(work[w], row)
    BY DEF WorkInv
  <2> QED
    BY <1>1, <2>1 DEF Sound, WorkInv
<1> QED
  BY <1>3, <1>4 DEF WorkInv

\* Every step of the analyses keeps their invariant.
LEMMA WorkStep == WorkInv /\ [WorkNext]_workVars => WorkInv'
<1> SUFFICES ASSUME WorkInv, [WorkNext]_workVars PROVE WorkInv'
  OBVIOUS
<1>t. /\ job \in [Work -> JobStatus] /\ task \in [Work -> TaskStatus]
      /\ work \in [Work -> WorkType] /\ row \in Row
      /\ trouble \in 0..MaxTrouble /\ boot \in {"up", "sweeping"} /\ unswept \in BOOLEAN
      /\ stranded \subseteq Work
      /\ \A w \in Work : Sound(work[w], row) /\ (work[w].kind \in {"edit", "none"} => task[w] = "none")
                         /\ (job[w] = "completed" => row # NoRow)
  BY DEF WorkInv, WorkTypeOK, JobStatus, TaskStatus, WorkType
<1>r. UNCHANGED row => RowStays
  BY DEF WorkInv, WorkTypeOK, RowStays
<1>m. Trouble => trouble' \in 0..MaxTrouble
  BY <1>t, WorkBounds DEF Trouble, WorkBounds
<1>1. CASE UNCHANGED workVars
  BY <1>1 DEF workVars, WorkInv, WorkTypeOK, Sound
<1>2. ASSUME NEW w \in Work, NEW kind \in {"analysis", "section", "edit"}, NEW on \in SUBSET Section,
             on # {}, kind = "analysis" => on = Section, NEW read \in {NoRow, row},
             NEW step \in {"queue", "answered"}, kind = "edit" <=> step = "answered",
             Opens(w, kind, on, step, read), job' \in {job, [job EXCEPT ![w] = "running"]}
      PROVE  WorkInv'
  <2> DEFINE new == [kind |-> kind, step |-> step, on |-> on, read |-> read]
  <2>1. read \in Row /\ (read # NoRow => \A s \in Section : read[s] # "nobody")
    BY <1>t, NothingYet DEF WorkInv, WorkTypeOK
  <2>2. /\ new \in WorkType /\ new.step = step /\ new.kind = kind
        /\ new.on = on /\ new.read = read
    BY <2>1 DEF WorkType, Started
  <2>3. work' = [work EXCEPT ![w] = new] /\ UNCHANGED <<row, task, boot, unswept, stranded, trouble>>
    BY <1>2 DEF Opens
  <2> HIDE DEF new
  <2>4. Sound(new, row')
    BY <1>2, <2>1, <2>2, <2>3 DEF Sound
  <2>5. /\ job' \in [Work -> JobStatus] /\ \A x \in Work : x # w => job'[x] = job[x]
        /\ job'[w] = "completed" => row' # NoRow
    BY <1>2, <1>t, <2>3 DEF JobStatus
  <2>6. task' = task /\ task[w] = "none"
    BY <1>2, <1>t, <2>3, NothingYet DEF Opens
  <2> QED
    BY <1>r, <1>t, <2>2, <2>3, <2>4, <2>5, <2>6, OneWorks
<1>3. ASSUME NEW w \in Work, Analyze(w) PROVE WorkInv'
  BY <1>2, <1>3, WorkSections DEF Analyze, WorkSections
<1>4. ASSUME NEW w \in Work, NEW s \in Section, Reanalyze(w, s) \/ Edit(w, s) PROVE WorkInv'
  <2> DEFINE on == {s}
  <2>1. on \in SUBSET Section /\ on # {}
    OBVIOUS
  <2>2. Opens(w, "section", on, "queue", NoRow) \/ Opens(w, "edit", on, "answered", row)
    BY <1>4 DEF Reanalyze, Edit
  <2>3. job' \in {job, [job EXCEPT ![w] = "running"]}
    BY <1>4 DEF Reanalyze, Edit
  <2> HIDE DEF on
  <2> QED
    BY <1>2, <2>1, <2>2, <2>3
\* What goes on with the row, the job and the task left alone.
<1>5. ASSUME NEW w \in Work, NEW to \in Started \cup {"ended"},
             work[w].step # "idle", work' = [work EXCEPT ![w].step = to],
             work[w].kind = "edit" => to \in {"answered", "update", "create", "ended"},
             to \in {"update", "saved", "told"} => row # NoRow,
             UNCHANGED <<row, job, boot, unswept>>, stranded' \subseteq Work,
             trouble' \in 0..MaxTrouble,
             NEW new \in TaskStatus,
             task' \in {task, [task EXCEPT ![w] = new]},
             work[w].kind = "edit" => task' = task
      PROVE  WorkInv'
  BY <1>r, <1>t, <1>5, WorkTakes
<1>6. ASSUME NEW w \in Work
      PROVE  /\ Caught(w) \in Started \cup {"ended"}
             /\ Caught(w) \notin {"update", "saved", "told", "completed"}
             /\ work[w].kind = "edit" => Caught(w) = "ended"
             /\ work[w].step \in Started => work[w].step # "idle"
             /\ Again(w) \in {task, [task EXCEPT ![w] = "running"]}
             /\ work[w].kind = "edit" => Again(w) = task
  BY DEF Caught, Started, Again
<1>7. ASSUME NEW w \in Work,
             \/ QueueTask(w) \/ Runs(w) \/ ModelAnswers(w) \/ CompleteTask(w) \/ FailTask(w)
      PROVE  WorkInv'
  <2>1. /\ work[w].kind # "edit" \/ work[w].step \notin {"queue", "queued", "asked", "told", "failed"}
        /\ Sound(work[w], row)
    BY <1>t DEF Sound
  <2>2. {"publish", "running", "answered", "completed", "ended"} \subseteq Started \cup {"ended"}
    BY DEF Started
  <2>3. PICK to \in {"publish", "running", "answered", "completed", "ended"} :
          /\ work' = [work EXCEPT ![w].step = to]
          /\ work[w].step \in {"queue", "queued", "asked", "told", "failed"}
          /\ UNCHANGED <<row, job, boot, unswept, stranded, trouble>>
    BY <1>7 DEF QueueTask, Runs, ModelAnswers, CompleteTask, FailTask, TakesTask, Takes
  <2>4. PICK new \in TaskStatus : task' \in {task, [task EXCEPT ![w] = new]}
    BY <1>6, <1>7
      DEF QueueTask, Runs, ModelAnswers, CompleteTask, FailTask, TakesTask, TaskStatus
  <2>5. work[w].kind # "edit" /\ work[w].step # "idle"
    BY <2>1, <2>3
  <2> QED
    BY <1>t, <1>5, <2>2, <2>3, <2>4, <2>5
<1>8. ASSUME NEW w \in Work, ModelFails(w) \/ Looks(w) \/ CannotCreate(w) \/ RecordUsage(w) \/ Publish(w)
      PROVE  WorkInv'
  <2>1. {"create", "update", "queued", "ended"} \subseteq Started \cup {"ended"} /\ "none" \in TaskStatus
    BY DEF Started, TaskStatus
  <2> QED
    BY <1>t, <1>5, <1>6, <1>8, <2>1
      DEF ModelFails, Looks, CannotCreate, RecordUsage, Publish, Goes, Takes, Sound
<1>9. ASSUME NEW w \in Work, AsksModel(w) PROVE WorkInv'
  <2> DEFINE read == IF work[w].kind = "section" THEN row ELSE work[w].read
             new == [work[w] EXCEPT !.step = "asked", !.read = read]
  <2>1. work[w] \in WorkType /\ Sound(work[w], row) /\ work[w].step = "running" /\ work[w].kind # "edit"
    BY <1>t, <1>9 DEF AsksModel, Sound
  <2>2. read \in Row /\ (read # NoRow => \A s \in Section : read[s] # "nobody")
    BY <1>t, <2>1 DEF WorkInv, WorkTypeOK, WorkType, Sound
  <2>3. work' = [work EXCEPT ![w] = new] /\ UNCHANGED <<row, job, boot, unswept, stranded, trouble>>
    BY <1>t, <1>9 DEF AsksModel, WorkType
  <2>4. task' \in {task, [task EXCEPT ![w] = "running"]}
    BY <1>6, <1>9 DEF AsksModel
  <2> HIDE DEF read
  <2>5. /\ new \in WorkType /\ new.step = "asked" /\ new.kind = work[w].kind
        /\ new.on = work[w].on /\ new.read = read
    BY <2>1, <2>2, "asked" \in Started DEF WorkType, Started
  <2> HIDE DEF new
  <2>6. Sound(new, row') /\ new.kind \notin {"edit", "none"}
    BY <2>1, <2>2, <2>3, <2>5 DEF Sound
  <2>7. task' \in [Work -> TaskStatus] /\ \A x \in Work : x # w => task'[x] = task[x]
    BY <1>t, <2>4 DEF TaskStatus
  <2> QED
    BY <1>r, <1>t, <2>3, <2>5, <2>6, <2>7, OneWorks
<1>10. ASSUME NEW w \in Work, Saves(w) PROVE WorkInv'
  <2>1. /\ work[w].step \in {"update", "create"} /\ row' = Written(w)
        /\ UNCHANGED <<job, task, boot, unswept, stranded, trouble>>
        /\ work[w].step = "create" => work[w].kind = "analysis"
    BY <1>10 DEF Saves, Takes
  <2>2. RowStays /\ row' # NoRow
    BY <1>t, <2>1, WholeRow DEF Sound
  <2>3. PICK to \in {"ended", "saved"} :
          /\ work' = [work EXCEPT ![w].step = to]
          /\ work[w].kind = "edit" => to = "ended"
    BY <1>10 DEF Saves, Takes, AfterSave
  <2>4. to \in Started \cup {"ended"}
    BY DEF Started
  <2>5. /\ work[w].step # "idle" /\ trouble' \in 0..MaxTrouble
        /\ job' \in [Work -> JobStatus] /\ \A x \in Work : x # w => job'[x] = job[x]
        /\ task' \in [Work -> TaskStatus] /\ \A x \in Work : x # w => task'[x] = task[x]
        /\ work[w].kind = "edit" => task'[w] = "none"
    BY <1>t, <2>1
  <2>6. /\ to \in {"update", "saved", "told"} => row' # NoRow
        /\ job'[w] = "completed" => row' # NoRow
        /\ work[w].kind = "edit" => to \in {"answered", "update", "create", "ended"}
    BY <2>2, <2>3
  <2>7. /\ UNCHANGED boot /\ unswept' = unswept /\ RowStays /\ stranded' \subseteq Work
        /\ work' = [work EXCEPT ![w].step = to]
    BY <1>t, <2>1, <2>2, <2>3
  <2> QED
    BY <2>4, <2>5, <2>6, <2>7, WorkTakes
<1>11. ASSUME NEW w \in Work, UpdateJob(w) \/ FailJob(w) PROVE WorkInv'
  <2>1. PICK new \in JobStatus :
          /\ job' = [job EXCEPT ![w] = new]
          /\ new = "completed" => row # NoRow
    <3>1. CASE UpdateJob(w)
      <4>1. row # NoRow /\ job[w] \in JobStatus
        BY <1>t, <3>1 DEF UpdateJob, Takes, Sound
      <4> QED
        BY <3>1, <4>1 DEF UpdateJob, JobStatus
    <3>2. CASE FailJob(w)
      BY <3>2 DEF FailJob, JobStatus
    <3> QED
      BY <1>11, <3>1, <3>2
  <2>2. PICK to \in {"told", "failed"} :
          /\ work' = [work EXCEPT ![w].step = to] /\ work[w].step \in {"saved", "failing"}
          /\ to = "told" => work[w].step = "saved"
    BY <1>11 DEF UpdateJob, FailJob, Takes
  <2>3. /\ to \in Started \cup {"ended"} /\ work[w].kind # "edit"
        /\ to = "told" => row # NoRow
    BY <1>t, <2>2 DEF Started, Sound
  <2>4. UNCHANGED <<row, task, boot, unswept, stranded, trouble>>
    BY <1>11 DEF UpdateJob, FailJob
  <2>5. /\ job' \in [Work -> JobStatus] /\ \A x \in Work : x # w => job'[x] = job[x]
        /\ job'[w] = "completed" => row' # NoRow
    BY <1>t, <2>1, <2>4
  <2> QED
    BY <1>r, <1>t, <2>2, <2>3, <2>4, <2>5, WorkTakes
<1>12. ASSUME NEW w \in Work, StatementFails(w) PROVE WorkInv'
  <2>1. /\ trouble' \in 0..MaxTrouble /\ UNCHANGED <<row, job, task, unswept>>
        /\ stranded' \subseteq Work
    BY <1>m, <1>t, <1>12 DEF StatementFails, RequestFails, WorkFails
  <2>2. CASE Exits
    BY <2>1, <2>2, ExitsInv
  <2>3. CASE ~Exits
    <3>1. PICK to \in {"ended", Caught(w)} :
            /\ work' = [work EXCEPT ![w].step = to]
            /\ UNCHANGED boot /\ work[w].step \in Started
      BY <1>12, <2>3 DEF StatementFails, RequestFails, WorkFails, Started
    <3>2. work[w].kind = "edit" => to = "ended"
      BY <1>6, <3>1
    <3>3. "none" \in TaskStatus
      BY DEF TaskStatus
    <3> QED
      BY <1>5, <1>6, <2>1, <3>1, <3>2, <3>3
  <2> QED
    BY <2>2, <2>3
<1>13. CASE ProcessDies
  BY <1>13, <1>m, <1>t, ExitsInv DEF ProcessDies
<1>14. CASE SweepTasks
  <2>1. /\ task' = [w \in Work |-> IF Orphan(task[w]) THEN "failed" ELSE task[w]]
        /\ boot' = "up" /\ UNCHANGED <<row, job, work, unswept, trouble>> /\ stranded' = {}
    BY <1>14 DEF SweepTasks
  <2>2. task' \in [Work -> TaskStatus] /\ \A w \in Work : task[w] = "none" => task'[w] = "none"
    BY <1>t, <2>1 DEF TaskStatus, Orphan
  <2> QED
    BY <2>1, <2>2 DEF WorkInv, WorkTypeOK, Sound, TaskStatus
<1>15. CASE SweepFails
  <2>1. /\ boot' = "up" /\ unswept' = TRUE /\ UNCHANGED <<row, job, task, work, stranded>>
        /\ trouble' \in 0..MaxTrouble
    BY <1>15, <1>m DEF SweepFails
  <2> QED
    BY <2>1 DEF WorkInv, WorkTypeOK, Sound
<1> QED
  BY <1>1, <1>3, <1>4, <1>7, <1>8, <1>9, <1>10, <1>11, <1>12, <1>13, <1>14, <1>15
    DEF WorkNext, WorkGoesOn

-----------------------------------------------------------------------------
(* The tasks: who will end them *)

\* The work of a task from its first row to its last.
TakenUp == Started \ {"queue", "completed"}

\* Somebody waits for the task of w.
Waits(w) == task[w] \in {"queued", "running"}

\* A task that somebody waits for has its work still to end it, or the sweep of the boot,
\* unless its request failed on the way to that work.
TaskHasEnd ==
  \A w \in Work :
    Waits(w) => work[w].step \in TakenUp \/ boot = "sweeping" \/ unswept \/ w \in stranded

\* A request that has not made its task has none.
NoTaskYet == \A w \in Work : work[w].step = "queue" => task[w] = "none"

\* Of one work: its next step is one of its task, or nobody waits for it.
LEMMA OneFollowed ==
  ASSUME WorkInv, TaskHasEnd, NoTaskYet, NEW w \in Work, NEW to, to # "queue",
         work' = [work EXCEPT ![w].step = to], UNCHANGED <<boot, unswept>>,
         \A x \in Work : x # w => task'[x] = task[x],
         to \in TakenUp \/ ~Waits(w)' \/ boot = "sweeping" \/ unswept \/ w \in stranded',
         stranded \subseteq stranded'
  PROVE  TaskHasEnd' /\ NoTaskYet'
<1>1. \A x \in Work : x # w => work'[x] = work[x]
  BY DEF WorkInv, WorkTypeOK
<1>2. work'[w].step = to
  BY DEF WorkInv, WorkTypeOK
<1>3. NoTaskYet'
  BY <1>1, <1>2 DEF NoTaskYet
<1>4. ASSUME NEW x \in Work, Waits(x)'
      PROVE  work'[x].step \in TakenUp \/ boot' = "sweeping" \/ unswept' \/ x \in stranded'
  <2>1. CASE x = w
    BY <1>2, <1>4, <2>1
  <2>2. CASE x # w
    BY <1>1, <1>4, <2>2 DEF TaskHasEnd, Waits
  <2> QED
    BY <2>1, <2>2
<1> QED
  BY <1>3, <1>4 DEF TaskHasEnd

\* The process ends before it is started again, and sweeps when it is.
LEMMA ExitsFollowed ==
  ASSUME WorkInv, TaskHasEnd, NoTaskYet, Exits, UNCHANGED task PROVE TaskHasEnd' /\ NoTaskYet'
<1>1. boot' = "sweeping"
  BY DEF Exits
<1>2. ASSUME NEW w \in Work PROVE work'[w].step # "queue"
  <2>1. work'[w] = IF work[w].step \in Started THEN [work[w] EXCEPT !.step = "ended"] ELSE work[w]
    BY DEF Exits
  <2>2. work[w].step \in Started => work'[w].step = "ended"
    BY <2>1 DEF WorkInv, WorkTypeOK
  <2> QED
    BY <2>1, <2>2 DEF Started
<1> QED
  BY <1>1, <1>2 DEF TaskHasEnd, NoTaskYet

\* Every step of the analyses leaves an end to each task.
LEMMA FollowedStep ==
  WorkInv /\ TaskHasEnd /\ NoTaskYet /\ [WorkNext]_workVars => TaskHasEnd' /\ NoTaskYet'
<1> SUFFICES ASSUME WorkInv, TaskHasEnd, NoTaskYet, [WorkNext]_workVars
             PROVE  TaskHasEnd' /\ NoTaskYet'
  OBVIOUS
<1>t. /\ task \in [Work -> TaskStatus] /\ work \in [Work -> WorkType]
      /\ \A w \in Work : Sound(work[w], row) /\ (work[w].kind \in {"edit", "none"} => task[w] = "none")
  BY DEF WorkInv, WorkTypeOK, TaskStatus, WorkType
<1>u. {"publish", "queued", "running", "asked", "answered", "update", "create", "saved", "told", "failing",
       "failed"} \subseteq TakenUp
  BY DEF TakenUp, Started
<1>c. ASSUME NEW w \in Work
      PROVE  Caught(w) # "queue" /\ (Caught(w) \in TakenUp \/ (Caught(w) = "ended" /\ ~Waits(w))
                                     \/ work[w].step = "idle")
  BY <1>t, <1>u DEF Caught, Sound, Waits, WorkType
<1>1. CASE UNCHANGED workVars
  BY <1>1 DEF workVars, TaskHasEnd, NoTaskYet, Waits
<1>2. ASSUME NEW w \in Work, NEW kind, NEW on, NEW step, NEW read, Opens(w, kind, on, step, read)
      PROVE  TaskHasEnd' /\ NoTaskYet'
  <2>1. /\ task[w] = "none" /\ UNCHANGED <<task, boot, unswept, stranded>>
        /\ \A x \in Work : x # w => work'[x] = work[x]
    BY <1>2, <1>t, NothingYet DEF Opens
  <2> QED
    BY <2>1 DEF TaskHasEnd, NoTaskYet, Waits
<1>3. ASSUME NEW w \in Work, NEW s \in Section, Analyze(w) \/ Reanalyze(w, s) \/ Edit(w, s)
      PROVE  TaskHasEnd' /\ NoTaskYet'
  BY <1>2, <1>3 DEF Analyze, Reanalyze, Edit
\* The steps that end the task, or go on with it.
<1>4. ASSUME NEW w \in Work, NEW from, NEW to, NEW new, to # "queue",
             TakesTask(w, from, to, new),
             to \in TakenUp \/ new \notin {"queued", "running"}
      PROVE  TaskHasEnd' /\ NoTaskYet'
  <2>1. /\ work' = [work EXCEPT ![w].step = to] /\ UNCHANGED <<boot, unswept, stranded>>
        /\ \A x \in Work : x # w => task'[x] = task[x]
        /\ task'[w] = new
    BY <1>4, <1>t DEF TakesTask, Takes
  <2> QED
    BY <1>4, <2>1, OneFollowed DEF Waits
<1>5. ASSUME NEW w \in Work,
             QueueTask(w) \/ Runs(w) \/ CompleteTask(w) \/ FailTask(w)
      PROVE  TaskHasEnd' /\ NoTaskYet'
  BY <1>4, <1>5, <1>u DEF QueueTask, Runs, CompleteTask, FailTask
<1>6. ASSUME NEW w \in Work, AsksModel(w) \/ ModelAnswers(w) PROVE TaskHasEnd' /\ NoTaskYet'
  <2>1. PICK to \in {"asked", "answered"} :
          /\ work'[w].step = to /\ \A x \in Work : x # w => work'[x] = work[x]
    BY <1>6, <1>t DEF AsksModel, ModelAnswers, Takes, WorkType
  <2>2. /\ UNCHANGED <<boot, unswept, stranded>>
        /\ \A x \in Work : x # w => task'[x] = task[x]
    BY <1>6, <1>t DEF AsksModel, ModelAnswers, Again
  <2> QED
    BY <1>u, <2>1, <2>2 DEF TaskHasEnd, NoTaskYet, Waits
\* The steps that leave the task alone.
<1>7. ASSUME NEW w \in Work, NEW to, work' = [work EXCEPT ![w].step = to], to # "queue",
             UNCHANGED <<task, boot, unswept>>, stranded \subseteq stranded',
             to \in TakenUp \/ ~Waits(w) \/ boot = "sweeping" \/ unswept \/ w \in stranded'
      PROVE  TaskHasEnd' /\ NoTaskYet'
  BY <1>7, OneFollowed DEF Waits
<1>8. ASSUME NEW w \in Work,
             \/ ModelFails(w) \/ Looks(w) \/ CannotCreate(w) \/ UpdateJob(w) \/ FailJob(w)
             \/ Publish(w)
      PROVE  TaskHasEnd' /\ NoTaskYet'
  <2>1. PICK to \in {Caught(w), "create", "update", "told", "failed", "queued"} :
          /\ work' = [work EXCEPT ![w].step = to]
          /\ work[w].step # "idle"
    BY <1>8 DEF ModelFails, Looks, CannotCreate, UpdateJob, FailJob, Publish, Goes, Takes
  <2>2. UNCHANGED <<task, boot, unswept, stranded>>
    BY <1>8 DEF ModelFails, Looks, CannotCreate, UpdateJob, FailJob, Publish, Goes
  <2> QED
    BY <1>7, <1>c, <1>u, <2>1, <2>2
<1>9. ASSUME NEW w \in Work, Saves(w) PROVE TaskHasEnd' /\ NoTaskYet'
  <2>1. PICK to \in {"ended", "saved"} :
          /\ work' = [work EXCEPT ![w].step = to]
          /\ to = "ended" => work[w].kind = "edit"
    BY <1>9 DEF Saves, Takes, AfterSave
  <2>2. work[w].kind = "edit" => ~Waits(w)
    BY <1>t DEF Waits
  <2>3. UNCHANGED <<task, boot, unswept, stranded>>
    BY <1>9 DEF Saves
  <2> QED
    BY <1>7, <1>u, <2>1, <2>2, <2>3
<1>10. ASSUME NEW w \in Work, RecordUsage(w) PROVE TaskHasEnd' /\ NoTaskYet'
  <2>1. /\ work' = [work EXCEPT ![w].step = "ended"] /\ UNCHANGED <<task, boot, unswept, stranded>>
        /\ work[w].step = "completed"
    BY <1>10 DEF RecordUsage, Goes, Takes
  <2>2. ~Waits(w) \/ boot = "sweeping" \/ unswept \/ w \in stranded
    BY <2>1 DEF TaskHasEnd, TakenUp
  <2> QED
    BY <1>7, <2>1, <2>2
<1>11. ASSUME NEW w \in Work, StatementFails(w) PROVE TaskHasEnd' /\ NoTaskYet'
  <2>1. UNCHANGED <<row, job, task, unswept>>
    BY <1>11 DEF StatementFails
  <2>2. CASE Exits
    BY <2>1, <2>2, ExitsFollowed
  <2>3. CASE RequestFails(w)
    <3>1. /\ work' = [work EXCEPT ![w].step = "ended"] /\ UNCHANGED boot
          /\ stranded \subseteq stranded'
          /\ work[w].step = "queue" \/ w \in stranded'
      BY <2>3 DEF RequestFails
    <3>2. ~Waits(w) \/ w \in stranded'
      BY <3>1 DEF NoTaskYet, Waits
    <3> QED
      BY <1>7, <2>1, <3>1, <3>2
  <2>4. CASE WorkFails(w) /\ ~Exits
    <3>1. /\ work[w].step \in Started /\ work' = [work EXCEPT ![w].step = Caught(w)]
          /\ UNCHANGED <<boot, stranded>>
      BY <2>4 DEF WorkFails
    <3>2. work[w].step # "idle"
      BY <3>1 DEF Started
    <3> QED
      BY <1>7, <1>c, <2>1, <3>1, <3>2
  <2> QED
    BY <1>11, <2>2, <2>3, <2>4 DEF StatementFails
<1>12. CASE ProcessDies
  BY <1>12, ExitsFollowed DEF ProcessDies
<1>13. CASE SweepTasks
  BY <1>13, <1>t DEF SweepTasks, Orphan, TaskHasEnd, NoTaskYet, Waits
<1>14. CASE SweepFails
  BY <1>14 DEF SweepFails, TaskHasEnd, NoTaskYet
<1> QED
  BY <1>1, <1>3, <1>5, <1>6, <1>8, <1>9, <1>10, <1>11, <1>12, <1>13, <1>14, WorkSections
    DEF WorkNext, WorkGoesOn, WorkSections

\* No task is left to nobody: whoever polls one that is not ended (backgroundTasks.ts) has a
\* work that will end it, or a server that sweeps the orphans when it boots, wherever a
\* statement failed or the server died, unless such a sweep failed.
THEOREM NoTaskForgotten == WorkSpec => []TaskHasEnd
<1>1. WorkInit => TaskHasEnd /\ NoTaskYet
  BY DEF WorkInit, TaskHasEnd, NoTaskYet, Waits
<1> QED
  BY <1>1, WorkInitInv, WorkStep, FollowedStep, PTL DEF WorkSpec

-----------------------------------------------------------------------------
(* The four beside each other *)

AllInv == SlaInv /\ UpInv /\ SpendingTypeOK /\ WorkInv

\* The four parts start one beside the other.
LEMMA JobsInit == Init => AllInv
BY SlaInitInv, UpInit, InitInv, WorkInitInv, SpendingAssumption DEF Init, AllInv, IInv

\* Whichever moves, each of the four steps or stutters.
LEMMA JobsStep == AllInv /\ [Queue \/ Deadlines \/ Update \/ Spending \/ Analysis]_allVars => AllInv'
<1> SUFFICES ASSUME AllInv, [Queue \/ Deadlines \/ Update \/ Spending \/ Analysis]_allVars PROVE AllInv'
  OBVIOUS
<1>1. [SlaNext]_slaVars /\ [UpdateNext]_upVars /\ [SpendingNext]_aiVars /\ [WorkNext]_workVars
  BY DEF Queue, Deadlines, Update, Spending, Analysis, allVars
<1> QED
  BY <1>1, SlaStep, UpStep, TypeStep, WorkStep, SpendingAssumption DEF AllInv

\* Each kind of work keeps its state as it is meant to be: among it, that a breach is told at
\* most once and never before it is recorded (varrerPrazos), that an attempt is numbered and
\* has told no outcome before it has one (update.sh), and that a job that is completed has
\* left its row (saveAnalysisResult).
THEOREM JobsTyped == Spec => []TypeOK
<1>1. AllInv => TypeOK
  BY DEF AllInv, SlaInv, UpInv, WorkInv, TypeOK
<1> QED
  BY <1>1, JobsInit, JobsStep, PTL DEF Spec

=============================================================================
