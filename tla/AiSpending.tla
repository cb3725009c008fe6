----------------------------- MODULE AiSpending -----------------------------
(***************************************************************************)
(* The monthly cap on what the calls to the models cost (aiOrchestrator,   *)
(* checkCostCap and recordAiUsage).  A call is checked first: what was     *)
(* spent is read, the worst cost of one call is reserved in Redis, and     *)
(* both together are held against the cap.  What the call cost is recorded *)
(* when it ends; its reservation is never released, the key that holds all *)
(* of them expires, counted from the first.                                *)
(*                                                                         *)
(* One company with a cap, in one month; the cap is not changed.  Costs    *)
(* are whole numbers.                                                      *)
(***************************************************************************)
EXTENDS Integers, FiniteSets

CONSTANTS
  Call,      \* calls that may be under way at once
  Cap,       \* monthly_cost_cap_usd
  Worst,     \* MAX_SINGLE_CALL_RESERVATION_USD, and what a call costs at most
  MaxExtra   \* bound on what is spent without a check

ASSUME SpendingAssumption ==
  IsFiniteSet(Call) /\ Cap \in Nat /\ Worst \in Nat \ {0} /\ MaxExtra \in Nat

VARIABLES
  spent,     \* the sum of ai_usage_log
  extra,     \* the part of it that no reservation stood for
  reserved,  \* the number under the key, 0 when there is none
  key,       \* whether the key is there, and whether it expires
  call,      \* [Call -> its step and what it saw spent]
  outlived   \* the key expired under a call

aiVars == <<spent, extra, reserved, key, call, outlived>>

CallStep == {"idle", "read", "refused", "admitted", "refusing", "calling"}
Idle == [step |-> "idle", saw |-> 0]

\* The calls that hold a reservation, and those of them that will spend it.
Holding == {c \in Call : call[c].step \in {"refused", "admitted", "refusing", "calling"}}
Admitted == {c \in Call : call[c].step \in {"admitted", "calling"}}

SpendingTypeOK ==
  /\ spent \in Nat /\ extra \in Nat /\ reserved \in Int
  /\ key \in {"none", "lasting", "expiring"}
  /\ call \in [Call -> [step : CallStep, saw : Nat]]
  /\ outlived \in BOOLEAN

SpendingInit ==
  /\ spent = 0 /\ extra = 0
  /\ reserved = 0 /\ key = "none"
  /\ call = [c \in Call |-> Idle]
  /\ outlived = FALSE

-----------------------------------------------------------------------------
(* checkCostCap *)

Reads(c) ==
  /\ call[c].step = "idle"
  /\ call' = [call EXCEPT ![c] = [step |-> "read", saw |-> spent]]
  /\ UNCHANGED <<spent, extra, reserved, key, outlived>>

\* INCRBYFLOAT makes the key where there is none, without a time to live.
Increments(by) ==
  /\ reserved' = reserved + by
  /\ key' = IF key = "none" THEN "lasting" ELSE key

\* Mutant of WouldExceed: the reservations of the other calls are not counted.
WouldExceedAlone(saw, held) == saw + Worst > Cap

WouldExceed(saw, held) == saw + held > Cap

\* The call is refused as well when what it saw is the cap or more; then its
\* reservation stays.
Reserves(c) ==
  /\ call[c].step = "read"
  /\ Increments(Worst)
  /\ call' = [call EXCEPT ![c].step =
                IF WouldExceed(call[c].saw, reserved + Worst) THEN "refused" ELSE "admitted"]
  /\ UNCHANGED <<spent, extra, outlived>>

\* EXPIRE NX: only a key that has no time to live gets one.
Arms(c) ==
  /\ \/ /\ call[c].step = "refused"
        /\ call' = [call EXCEPT ![c].step = "refusing"]
     \/ /\ call[c].step = "admitted" /\ call[c].saw < Cap
        /\ call' = [call EXCEPT ![c].step = "calling"]
     \/ /\ call[c].step = "admitted" /\ call[c].saw >= Cap
        /\ call' = [call EXCEPT ![c] = Idle]
  /\ key' = IF key = "lasting" THEN "expiring" ELSE key
  /\ UNCHANGED <<spent, extra, reserved, outlived>>

GivesBack(c) ==
  /\ call[c].step = "refusing"
  /\ Increments(-Worst)
  /\ call' = [call EXCEPT ![c] = Idle]
  /\ UNCHANGED <<spent, extra, outlived>>

-----------------------------------------------------------------------------
(* The call, and recordAiUsage *)

Ends(c, cost) ==
  /\ call[c].step = "calling"
  /\ spent' = spent + cost
  /\ call' = [call EXCEPT ![c] = Idle]
  /\ UNCHANGED <<extra, reserved, key, outlived>>

Records(c) == \E cost \in 1..Worst : Ends(c, cost)

\* The call fails, or the server dies under it or its check: nothing is recorded and
\* nothing given back.  Bound: reservations left behind stop at the cap.
Dies(c) ==
  /\ call[c].step # "idle"
  /\ reserved <= Cap + Worst
  /\ call' = [call EXCEPT ![c] = Idle]
  /\ UNCHANGED <<spent, extra, reserved, key, outlived>>

\* The classification of a document, the reconciliation of the knowledge base, and the
\* further searches of a call that was checked once (enrichBomWithWebSearch).
SpendsUnchecked ==
  /\ extra < MaxExtra
  /\ spent' = spent + 1
  /\ extra' = extra + 1
  /\ UNCHANGED <<reserved, key, call, outlived>>

\* Two minutes after the first reservation; a call may take longer.
Expires ==
  /\ key = "expiring"
  /\ key' = "none" /\ reserved' = 0
  /\ outlived' = (outlived \/ \E c \in Call : call[c].step # "idle")
  /\ UNCHANGED <<spent, extra, call>>

-----------------------------------------------------------------------------

SpendingNext ==
  \/ \E c \in Call :
       Reads(c) \/ Reserves(c) \/ Arms(c) \/ GivesBack(c) \/ Records(c) \/ Dies(c)
  \/ SpendsUnchecked \/ Expires

SpendingSpec == SpendingInit /\ [][SpendingNext]_aiVars

-----------------------------------------------------------------------------

\* As long as no call outlived the key, the calls that were checked never spend beyond
\* the cap, whichever of them were checked at the same time, refused, or died
\* (the comment above MAX_SINGLE_CALL_RESERVATION_USD).
CapKept == ~outlived => spent <= Cap + extra

=============================================================================
