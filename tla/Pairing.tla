------------------------------- MODULE Pairing ------------------------------
(***************************************************************************)
(* The pairing with the CRM, in both directions.  Inwards, verifyPairKey   *)
(* (utils/pairKey.ts) asks the fleet manager about the key the CRM         *)
(* presents and keeps the verdict in the cache, a yes for 60 s and a no    *)
(* for 30.  Outwards (utils/crmPort.ts), the key and the return address    *)
(* that came with the last POST /demands are the row crm_pair_keys, and    *)
(* resolverDestino checks the address against the key's pair before it is  *)
(* used, for ten minutes.                                                  *)
(*                                                                         *)
(* Keys are numbered in the order they are issued.  Abstracted: the        *)
(* tenants (one), the encryption, the answers' wording, verify_error,      *)
(* which nothing reads back, and the other routes of the door, which       *)
(* verify the key the same way and store nothing.                          *)
(***************************************************************************)
EXTENDS Naturals

CONSTANTS
  LastKey,        \* the keys issued, one after the other, are 1..LastKey
  Address,        \* return addresses, numbers; 0 is an envelope without one
  Home,           \* [PairKey -> Address]: where the CRM of the key's pair answers
  Presenter,      \* POSTs of the CRM that may be in flight at the same time
  Caller,         \* callers of resolverDestino at the same time
  MaxPairTrouble  \* bound on crashes, suspensions, unreachable authorities and failed writes

PairKey == 1..LastKey

ASSUME PairingAssumption ==
  /\ LastKey \in Nat /\ MaxPairTrouble \in Nat
  /\ 0 \notin Address
  /\ Home \in [PairKey -> Address]

VARIABLES
  current,      \* the key in force at the fleet manager, 0 before the first
  suspended,    \* the fleet manager has suspended the pair
  verdict,      \* [PairKey -> Verdict]: the cache of verifyPairKey
  row,          \* the row of crm_pair_keys
  presenter,    \* [Presenter -> PresenterState]
  caller,       \* [Caller -> CallerState]
  crossed,      \* ghost: somebody wrote, or went on, by a row that was another by then
  pairTroubles

pairVars == <<current, suspended, verdict, row, presenter, caller, crossed, pairTroubles>>

Verdict == {"none", "yes", "no"}

\* verified: verified_at is there, and not older than CONFERENCIA_VALE_MS.
Row == [key : PairKey \cup {0}, base : Address \cup {0}, verified : BOOLEAN]
NoRow == [key |-> 0, base |-> 0, verified |-> FALSE]

\* What a handler read of the row and goes by.
Seen == [key : PairKey \cup {0}, base : Address \cup {0}]
Unseen == [key |-> 0, base |-> 0]

PresenterState ==
  [step : {"idle", "asking", "accepted", "refused", "reading", "writing"},
   key : PairKey \cup {0}, base : Address \cup {0}, saw : Seen]
NoPresenter == [step |-> "idle", key |-> 0, base |-> 0, saw |-> Unseen]

CallerState ==
  [step : {"idle", "checking", "asking", "recording", "calling"},
   key : PairKey \cup {0}, base : Address \cup {0}]
NoCaller == [step |-> "idle", key |-> 0, base |-> 0]

\* Only a key that was presented is stored, and nobody calls before one is.
PairingTypeOK ==
  /\ current \in PairKey \cup {0}
  /\ suspended \in BOOLEAN
  /\ verdict \in [PairKey -> Verdict]
  /\ row \in Row
  /\ presenter \in [Presenter -> PresenterState]
  /\ caller \in [Caller -> CallerState]
  /\ crossed \in BOOLEAN
  /\ pairTroubles \in 0..MaxPairTrouble
  /\ row.key = 0 => row = NoRow
  /\ \A h \in Presenter : presenter[h].step # "idle" => presenter[h].key # 0
  /\ \A c \in Caller : caller[c].step # "idle" => row.key # 0

PairingInit ==
  /\ current = 0
  /\ suspended = FALSE
  /\ verdict = [k \in PairKey |-> "none"]
  /\ row = NoRow
  /\ presenter = [h \in Presenter |-> NoPresenter]
  /\ caller = [c \in Caller |-> NoCaller]
  /\ crossed = FALSE
  /\ pairTroubles = 0

PairTrouble ==
  /\ pairTroubles < MaxPairTrouble
  /\ pairTroubles' = pairTroubles + 1

-----------------------------------------------------------------------------
(* External: the fleet manager and the two clocks. *)

\* The next key is issued, and the one before it is revoked.
Issue ==
  /\ current < LastKey
  /\ current' = current + 1
  /\ UNCHANGED <<suspended, verdict, row, presenter, caller, crossed, pairTroubles>>

\* The pair is suspended, or resumed.
Suspend ==
  /\ \/ ~suspended /\ current # 0 /\ PairTrouble
     \/ suspended /\ UNCHANGED pairTroubles
  /\ suspended' = ~suspended
  /\ UNCHANGED <<current, verdict, row, presenter, caller, crossed>>

\* Mutant of Expires: what was accepted once is accepted from then on.
OnlyNoExpires(k) == verdict[k] = "no"

Expires(k) == verdict[k] # "none"

\* CACHE_TTL_OK_SECONDS or CACHE_TTL_NEGATIVE_SECONDS have passed.
Expire(k) ==
  /\ Expires(k)
  /\ verdict' = [verdict EXCEPT ![k] = "none"]
  /\ UNCHANGED <<current, suspended, row, presenter, caller, crossed, pairTroubles>>

\* Ten minutes have passed since the address was checked.
Lapse ==
  /\ row.verified
  /\ row' = [row EXCEPT !.verified = FALSE]
  /\ UNCHANGED <<current, suspended, verdict, presenter, caller, crossed, pairTroubles>>

-----------------------------------------------------------------------------
(* Inwards: the CRM presents a key. *)

\* The verdict is in the cache, or the fleet manager is asked.
Present(h, k, b) ==
  /\ presenter[h].step = "idle"
  /\ verdict[k] # "no"
  /\ presenter' = [presenter EXCEPT ![h] =
       [step |-> IF verdict[k] = "yes" THEN "reading" ELSE "asking",
        key |-> k, base |-> b, saw |-> Unseen]]
  /\ UNCHANGED <<current, suspended, verdict, row, caller, crossed, pairTroubles>>

\* The fleet manager knows the key in force; it answers nothing (502, not kept), or this
\* installation does not know who it is as long as no licence came (refused).
AskAuthority(h) ==
  LET Becomes(step) == presenter' = [presenter EXCEPT ![h].step = step] IN
  /\ presenter[h].step = "asking"
  /\ \/ /\ Becomes(IF presenter[h].key = current /\ ~suspended THEN "accepted" ELSE "refused")
        /\ UNCHANGED pairTroubles
     \/ /\ PairTrouble
        /\ Becomes("refused") \/ presenter' = [presenter EXCEPT ![h] = NoPresenter]
  /\ UNCHANGED <<current, suspended, verdict, row, caller, crossed>>

\* guardar: the verdict goes to the cache, whose failure is swallowed.
KeepVerdict(h) ==
  LET k == presenter[h].key IN
  \E kept \in BOOLEAN :
    /\ \/ /\ presenter[h].step = "accepted"
          /\ verdict' = IF kept THEN [verdict EXCEPT ![k] = "yes"] ELSE verdict
          /\ presenter' = [presenter EXCEPT ![h].step = "reading"]
       \/ /\ presenter[h].step = "refused"
          /\ verdict' = IF kept THEN [verdict EXCEPT ![k] = "no"] ELSE verdict
          /\ presenter' = [presenter EXCEPT ![h] = NoPresenter]
    /\ UNCHANGED <<current, suspended, row, caller, crossed, pairTroubles>>

\* guardarChaveApresentada, the read.
ReadRow(h) ==
  /\ presenter[h].step = "reading"
  /\ presenter' = [presenter EXCEPT ![h].step = "writing", ![h].saw = [key |-> row.key, base |-> row.base]]
  /\ UNCHANGED <<current, suspended, verdict, row, caller, crossed, pairTroubles>>

\* Mutant of Invalidates: a new key invalidates the check of the address, a new address
\* does not.
InvalidatesByKey(k, b, saw) == saw.key # k

\* chaveMudou, or an address other than the one that was read.
Invalidates(k, b, saw) == saw.key # k \/ (b # 0 /\ b # saw.base)

Stored(k, b, saw) ==
  [key |-> k, base |-> IF b # 0 THEN b ELSE row.base,
   verified |-> row.verified /\ ~Invalidates(k, b, saw)]

Other(saw) == saw.key # row.key \/ saw.base # row.base

\* The write: an update, or a create, which the row of another refuses.  A failure is
\* swallowed, and the key waits for the next POST.
WriteRow(h) ==
  LET p == presenter[h] IN
  /\ p.step = "writing"
  /\ \/ /\ p.saw.key = 0 => row.key = 0
        /\ row' = Stored(p.key, p.base, p.saw)
        /\ crossed' = (crossed \/ Other(p.saw))
        /\ UNCHANGED pairTroubles
     \/ /\ p.saw.key = 0 /\ row.key # 0
        /\ UNCHANGED <<row, crossed, pairTroubles>>
     \/ /\ PairTrouble
        /\ UNCHANGED <<row, crossed>>
  /\ presenter' = [presenter EXCEPT ![h] = NoPresenter]
  /\ UNCHANGED <<current, suspended, verdict, caller>>

-----------------------------------------------------------------------------
(* Outwards: resolverDestino. *)

Moves(c, step) == caller' = [caller EXCEPT ![c].step = step]

\* lerChaveDoCrm: the key and the address; without either there is no destination.
ReadKey(c) ==
  /\ caller[c].step = "idle"
  /\ row.key # 0 /\ row.base # 0
  /\ caller' = [caller EXCEPT ![c] = [step |-> "checking", key |-> row.key, base |-> row.base]]
  /\ UNCHANGED <<current, suspended, verdict, row, presenter, crossed, pairTroubles>>

\* The second read of the row: was the address checked in the last ten minutes?
ReadCheck(c) ==
  /\ caller[c].step = "checking"
  /\ Moves(c, IF row.verified THEN "calling" ELSE "asking")
  /\ crossed' = (crossed \/ (row.verified /\ Other(caller[c])))
  /\ UNCHANGED <<current, suspended, verdict, row, presenter, pairTroubles>>

\* GET {base}/pair/verify: it is the installation of the pair that answers, and it knows
\* the key; or there is no destination, for now or for good.
AskAddress(c) ==
  /\ caller[c].step = "asking"
  /\ \/ caller[c].base = Home[caller[c].key] /\ Moves(c, "recording")
     \/ caller' = [caller EXCEPT ![c] = NoCaller]
  /\ UNCHANGED <<current, suspended, verdict, row, presenter, crossed, pairTroubles>>

\* verified_at, on the row of the tenant.
RecordCheck(c) ==
  /\ caller[c].step = "recording"
  /\ row' = [row EXCEPT !.verified = TRUE]
  /\ Moves(c, "calling")
  /\ crossed' = (crossed \/ Other(caller[c]))
  /\ UNCHANGED <<current, suspended, verdict, presenter, pairTroubles>>

\* The call is made, and its answer is the queue's.
EndCall(c) ==
  /\ caller[c].step = "calling"
  /\ caller' = [caller EXCEPT ![c] = NoCaller]
  /\ UNCHANGED <<current, suspended, verdict, row, presenter, crossed, pairTroubles>>

\* The process dies; the row and the cache stay.
PairCrash ==
  /\ PairTrouble
  /\ presenter' = [h \in Presenter |-> NoPresenter]
  /\ caller' = [c \in Caller |-> NoCaller]
  /\ UNCHANGED <<current, suspended, verdict, row, crossed>>

-----------------------------------------------------------------------------

PresenterStep(h) == AskAuthority(h) \/ KeepVerdict(h) \/ ReadRow(h) \/ WriteRow(h)

CallerStep(c) == ReadKey(c) \/ ReadCheck(c) \/ AskAddress(c) \/ RecordCheck(c) \/ EndCall(c)

Posts(k) == \E h \in Presenter, b \in Address \cup {0} : Present(h, k, b)

PairingNext ==
  \/ Issue \/ Suspend \/ Lapse \/ PairCrash
  \/ \E k \in PairKey : Expire(k) \/ Posts(k)
  \/ \E h \in Presenter : PresenterStep(h)
  \/ \E c \in Caller : CallerStep(c)

PairingSpec == PairingInit /\ [][PairingNext]_pairVars

\* A POST that lives goes on, the cache forgets, and the CRM goes on presenting the key
\* in force, whatever else it presents.
PairingFairness ==
  /\ \A h \in Presenter : WF_pairVars(PresenterStep(h))
  /\ \A k \in PairKey : WF_pairVars(Expire(k)) /\ SF_pairVars(k = current /\ Posts(k))

-----------------------------------------------------------------------------

\* No call leaves for an address that is not the home of its key, and the row shows no
\* such address as checked, unless the row became another between somebody's read of it
\* and what was done by that read (resolverDestino: "O ENDERECO DE VOLTA E CONFERIDO").
CalledIsHome ==
  ~crossed =>
    /\ row.verified => row.base = Home[row.key]
    /\ \A c \in Caller : caller[c].step = "calling" => caller[c].base = Home[caller[c].key]

\* Whatever was presented, refused and kept on the way, the key that stays in force is
\* the one that is stored for the return in the end: neither an old yes nor an old no
\* outlives its time (guardar, guardarChaveApresentada).
KeyInForceIsStored ==
  \A k \in PairKey : <>[](current = k /\ ~suspended) => <>[](row.key = k)

=============================================================================
