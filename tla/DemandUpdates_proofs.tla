------------------------- MODULE DemandUpdates_proofs -------------------------
(***************************************************************************)
(* Theorems about DemandUpdates, for any documents, any kinds of PATCH,    *)
(* any number of them and any number of handlers.                          *)
(***************************************************************************)
EXTENDS DemandUpdates, TLAPS

USE KindsAssumption, BoundAssumption DEF KindsAssumption, BoundAssumption

\* What a handler holds: a PATCH comes alone and has a number left; a decision is about an
\* update, and the documents it will hang have content.
Fits ==
  /\ \A r \in Request : req[r].step = "patching" =>
       n < MaxUpdates /\ \A q \in Request : req[q].step = "patching" => q = r
  /\ \A r \in Request : req[r].step \in {"incorporating", "dismissing"} => req[r].u \in Update
  /\ \A r \in Request : req[r].step # "patching" => req[r].docs \subseteq stored

TypeInv == TypeOK /\ Fits

-----------------------------------------------------------------------------
(* The types *)

\* A handler that is not at work.
LEMMA IdleType == Idle \in RequestState /\ Idle.step = "idle" /\ Idle.docs = {}
<1>1. [p \in Part |-> 0] \in [Part -> Version]
  BY DEF Version
<1>2. 0 \in Version
  BY DEF Version
<1> QED
  BY <1>1, <1>2 DEF Idle, RequestState, Deciding

\* A demand in the queue.
LEMMA InitType == Init => TypeInv
<1> SUFFICES ASSUME Init PROVE TypeInv
  OBVIOUS
<1>1. 0 \in Version
  BY DEF Version
<1>2. TypeOK
  BY <1>1, IdleType DEF Init, TypeOK, UpdateState
<1>3. Fits
  BY IdleType DEF Init, Fits
<1> QED
  BY <1>2, <1>3 DEF TypeInv

\* The reads of a PATCH and of the three decisions.
Reads(r) ==
  \/ \E kind \in PatchKinds, docs \in SUBSET Doc : PatchRead(r, kind, docs)
  \/ \E u \in Update : IncorporateRead(r, u) \/ DismissRead(r, u)
  \/ AssumeRead(r)

\* A PATCH that found an owner, or the columns that will be the project's, as they are now.
AsRead(new) ==
  /\ new.step = "patching" => (new.owned => phase = "owned")
  /\ new.step = "assuming" => new.crm = crm

\* A handler that reads holds what it read.
LEMMA ReadsEffect ==
  ASSUME TypeOK, NEW r \in Request, Reads(r)
  PROVE  \E new \in RequestState :
           /\ req' = [req EXCEPT ![r] = new]
           /\ AsRead(new)
           /\ \/ /\ new.step = "patching"
                 /\ n < MaxUpdates
                 /\ \A q \in Request : req[q].step # "patching"
              \/ /\ new.step \in Deciding
                 /\ new.docs \subseteq stored \ hung
                 /\ new.step \in {"incorporating", "dismissing"} =>
                      new.u \in Update /\ update[new.u] = "pending"
<1>1. Idle \in RequestState /\ Idle.docs = {}
  BY IdleType
<1>2. ASSUME NEW kind \in PatchKinds, NEW docs \in SUBSET Doc, PatchRead(r, kind, docs)
      PROVE  \E new \in RequestState :
               /\ req' = [req EXCEPT ![r] = new] /\ new.step = "patching"
               /\ new.owned => phase = "owned"
               /\ n < MaxUpdates /\ \A q \in Request : req[q].step # "patching"
  <2> DEFINE new == [Idle EXCEPT !.step = "patching", !.owned = (phase = "owned"),
                                 !.parts = kind, !.docs = docs \ declared]
  <2>1. (phase = "owned") \in BOOLEAN /\ kind \in SUBSET Part /\ docs \ declared \in SUBSET Doc
    OBVIOUS
  <2>2. new \in RequestState /\ new.step = "patching" /\ new.owned = (phase = "owned")
    BY <1>1, <2>1 DEF RequestState
  <2>3. req' = [req EXCEPT ![r] = new] /\ n < MaxUpdates
        /\ \A q \in Request : req[q].step # "patching"
    BY <1>2 DEF PatchRead, At
  <2> QED
    BY <2>2, <2>3
<1>3. ToHang \in SUBSET Doc /\ ToHang \subseteq stored \ hung
  BY DEF ToHang, TypeOK
<1>4. ASSUME NEW u \in Update, IncorporateRead(r, u)
      PROVE  \E new \in RequestState :
               /\ req' = [req EXCEPT ![r] = new] /\ new.step = "incorporating"
               /\ new.docs \subseteq stored \ hung
               /\ new.u = u /\ update[u] = "pending"
  <2> DEFINE new == [Idle EXCEPT !.step = "incorporating", !.u = u, !.docs = ToHang]
  <2>1. u \in Version
    BY DEF Update, Version
  <2>2. new \in RequestState /\ new.step = "incorporating" /\ new.u = u /\ new.docs = ToHang
    BY <1>1, <1>3, <2>1 DEF RequestState, Deciding
  <2>3. req' = [req EXCEPT ![r] = new] /\ update[u] = "pending"
    BY <1>4 DEF IncorporateRead
  <2> QED
    BY <1>3, <2>2, <2>3
<1>5. ASSUME NEW u \in Update, DismissRead(r, u)
      PROVE  \E new \in RequestState :
               /\ req' = [req EXCEPT ![r] = new] /\ new.step = "dismissing"
               /\ new.docs = {}
               /\ new.u = u /\ update[u] = "pending"
  <2> DEFINE new == [Idle EXCEPT !.step = "dismissing", !.u = u]
  <2>1. u \in Version
    BY DEF Update, Version
  <2>2. new \in RequestState /\ new.step = "dismissing" /\ new.u = u /\ new.docs = {}
    BY <1>1, <2>1 DEF RequestState, Deciding
  <2>3. req' = [req EXCEPT ![r] = new] /\ update[u] = "pending"
    BY <1>5 DEF DismissRead
  <2> QED
    BY <2>2, <2>3
<1>6. ASSUME AssumeRead(r)
      PROVE  \E new \in RequestState :
               /\ req' = [req EXCEPT ![r] = new] /\ new.step = "assuming" /\ new.crm = crm
               /\ new.docs \subseteq stored \ hung
  <2> DEFINE new == [Idle EXCEPT !.step = "assuming", !.docs = ToHang, !.crm = crm]
  <2>1. crm \in [Part -> Version]
    BY DEF TypeOK
  <2>2. new \in RequestState /\ new.step = "assuming" /\ new.docs = ToHang /\ new.crm = crm
    BY <1>1, <1>3, <2>1 DEF RequestState, Deciding
  <2>3. req' = [req EXCEPT ![r] = new]
    BY <1>6 DEF AssumeRead
  <2> QED
    BY <1>3, <2>2, <2>3
<1> QED
  BY <1>2, <1>4, <1>5, <1>6 DEF Deciding, Reads, AsRead

\* Every action keeps the types and what handlers hold.
LEMMA TypeStep == TypeInv /\ [Next]_vars => TypeInv'
<1> SUFFICES ASSUME TypeOK, Fits, [Next]_vars PROVE TypeOK' /\ Fits'
  BY DEF TypeInv
<1> USE IdleType
<1>1. ASSUME NEW r \in Request, Reads(r)
      PROVE  TypeOK' /\ Fits'
  <2>1. UNCHANGED <<phase, contentVars, linked, n, parts, update, overtaken, rewound, docVars>>
    BY <1>1 DEF Reads, PatchRead, IncorporateRead, DismissRead, AssumeRead
  <2>2. PICK new \in RequestState :
          /\ req' = [req EXCEPT ![r] = new]
          /\ \/ /\ new.step = "patching"
                /\ n < MaxUpdates
                /\ \A q \in Request : req[q].step # "patching"
             \/ /\ new.step \in Deciding
                /\ new.docs \subseteq stored
                /\ new.step \in {"incorporating", "dismissing"} => new.u \in Update
    BY <1>1, ReadsEffect
  <2>3. TypeOK'
    BY <2>1, <2>2 DEF TypeOK, contentVars, docVars
  <2>4. Fits'
    BY <2>1, <2>2 DEF TypeOK, Fits, docVars, Deciding
  <2> QED
    BY <2>3, <2>4
<1>2. ASSUME NEW r \in Request, PatchWrite(r)
      PROVE  TypeOK' /\ Fits'
  <2>1. /\ n \in Nat /\ n < MaxUpdates
        /\ req[r].parts \in SUBSET Part /\ req[r].docs \in SUBSET Doc
    BY <1>2 DEF PatchWrite, At, TypeOK, Fits, RequestState, Version
  <2>2. n' = n + 1 /\ n + 1 \in Update /\ n + 1 \in Version
    BY <1>2, <2>1 DEF PatchWrite, Update, Version
  <2>3. crm' \in [Part -> Version] /\ parts' \in [Update -> SUBSET Part]
    BY <1>2, <2>1, <2>2 DEF PatchWrite, TypeOK
  <2>4. /\ update' \in [Update -> UpdateState] /\ overtaken' \subseteq Update
        /\ rewound' \subseteq Part
    BY <1>2, <2>2 DEF PatchWrite, TypeOK, UpdateState
  <2>5. req' \in [Request -> RequestState] /\ \A q \in Request : req'[q].step # "patching"
    BY <1>2 DEF PatchWrite, At, Finish, TypeOK, Fits
  <2>6. stored' \subseteq declared' /\ declared' \subseteq Doc
    BY <1>2, <2>1 DEF PatchWrite, TypeOK
  <2>7. TypeOK'
    BY <1>2, <2>2, <2>3, <2>4, <2>5, <2>6 DEF PatchWrite, TypeOK
  <2>8. Fits'
    BY <1>2, <2>5 DEF PatchWrite, Finish, TypeOK, Fits
  <2> QED
    BY <2>7, <2>8
<1>3. ASSUME NEW r \in Request, AssumeClaim(r)
      PROVE  TypeOK' /\ Fits'
  <2>1. req[r].crm \in [Part -> Version] /\ req[r].docs \subseteq stored
    BY <1>3 DEF AssumeClaim, At, TypeOK, Fits, RequestState
  <2>2. copies' \in [Doc -> Nat]
    BY <1>3 DEF AssumeClaim, Hang, TypeOK
  <2>3. TypeOK'
    BY <1>3, <2>1, <2>2 DEF AssumeClaim, Hang, Finish, TypeOK
  <2>4. Fits'
    BY <1>3 DEF AssumeClaim, Hang, Finish, TypeOK, Fits
  <2> QED
    BY <2>3, <2>4
<1>4. ASSUME NEW r \in Request, IncorporateWrite(r)
      PROVE  TypeOK' /\ Fits'
  <2>1. req[r].u \in Update /\ req[r].u \in Version /\ req[r].docs \subseteq stored
    <3>1. req[r].u \in Update /\ req[r].docs \subseteq stored
      BY <1>4 DEF IncorporateWrite, At, Fits
    <3> QED
      BY <3>1 DEF Update, Version
  <2>2. copies' \in [Doc -> Nat]
    BY <1>4 DEF IncorporateWrite, Hang, TypeOK
  <2>3. /\ project' \in [Part -> Version] /\ update' \in [Update -> UpdateState]
        /\ rewound' \subseteq Part
    BY <1>4, <2>1 DEF IncorporateWrite, TypeOK, UpdateState
  <2>4. TypeOK'
    BY <1>4, <2>1, <2>2, <2>3 DEF IncorporateWrite, Hang, Finish, TypeOK
  <2>5. Fits'
    BY <1>4 DEF IncorporateWrite, Hang, Finish, TypeOK, Fits
  <2> QED
    BY <2>4, <2>5
<1>5. ASSUME NEW r \in Request, DismissWrite(r)
      PROVE  TypeOK' /\ Fits'
  <2>1. update' \in [Update -> UpdateState]
    BY <1>5 DEF DismissWrite, TypeOK, UpdateState
  <2>2. TypeOK'
    BY <1>5, <2>1 DEF DismissWrite, Finish, TypeOK, contentVars, docVars
  <2>3. Fits'
    BY <1>5 DEF DismissWrite, Finish, TypeOK, Fits, docVars
  <2> QED
    BY <2>2, <2>3
<1>6. ASSUME NEW r \in Request, Refused(r)
      PROVE  TypeOK' /\ Fits'
  BY <1>6 DEF Refused, Finish, TypeOK, Fits, contentVars, docVars
<1>7. ASSUME NEW x \in Doc, Upload(x)
      PROVE  TypeOK' /\ Fits'
  BY <1>7 DEF Upload, TypeOK, Fits, contentVars
<1>8. ASSUME NEW x \in Doc, DeleteDocument(x)
      PROVE  TypeOK' /\ Fits'
  <2>1. copies' \in [Doc -> Nat]
    BY <1>8 DEF DeleteDocument, TypeOK
  <2>2. TypeOK'
    BY <1>8, <2>1 DEF DeleteDocument, TypeOK, contentVars
  <2>3. Fits'
    BY <1>8 DEF DeleteDocument, Fits
  <2> QED
    BY <2>2, <2>3
<1>9. CASE End
  BY <1>9 DEF End, TypeOK, Fits, contentVars, docVars
<1>10. CASE DeleteProject
  <2>1. 0 \in Version
    BY DEF Version
  <2> QED
    BY <1>10, <2>1 DEF DeleteProject, TypeOK, Fits
<1>11. CASE UNCHANGED vars
  BY <1>11 DEF vars, TypeOK, Fits, contentVars, docVars
<1> QED
  BY <1>1, <1>2, <1>3, <1>4, <1>5, <1>6, <1>7, <1>8, <1>9, <1>10, <1>11 DEF Next, Reads

\* The types, whatever overlaps.
THEOREM TypeCorrect == Spec => []TypeOK
<1>1. TypeInv => TypeOK
  BY DEF TypeInv
<1> QED
  BY <1>1, InitType, TypeStep, PTL DEF Spec

-----------------------------------------------------------------------------
(* Updates are numbered in the order of their PATCHes, and a decision is about one that
   exists, whatever others have decided of it. *)
Numbered ==
  /\ \A u \in Update : update[u] # "absent" => u <= n
  /\ \A r \in Request : req[r].step \in {"incorporating", "dismissing"} =>
       update[req[r].u] # "absent"

DecInv == TypeInv /\ Numbered

\* In the queue nothing is numbered.
LEMMA InitDecInv == Init => DecInv
BY InitType, IdleType DEF Init, DecInv, Numbered

\* No action makes an update disappear.
LEMMA DecStep == DecInv /\ [Next]_vars => DecInv'
<1> SUFFICES ASSUME TypeOK, Fits, Numbered, [Next]_vars PROVE Numbered'
  BY TypeStep DEF DecInv, TypeInv
<1> USE IdleType
<1>1. ASSUME NEW r \in Request, Reads(r)
      PROVE  Numbered'
  <2>1. UNCHANGED <<n, update>>
    BY <1>1 DEF Reads, PatchRead, IncorporateRead, DismissRead, AssumeRead
  <2>2. PICK new \in RequestState :
          /\ req' = [req EXCEPT ![r] = new]
          /\ new.step \in {"incorporating", "dismissing"} => update[new.u] = "pending"
    BY <1>1, ReadsEffect
  <2> QED
    BY <2>1, <2>2 DEF TypeOK, Numbered
<1>2. ASSUME NEW r \in Request, PatchWrite(r)
      PROVE  Numbered'
  <2>1. n \in Nat /\ n' = n + 1 /\ n + 1 \in Update
    BY <1>2 DEF PatchWrite, At, TypeOK, Fits, Version, Update
  <2>2. /\ \A u \in Update : u # n + 1 => update'[u] = update[u]
        /\ update'[n + 1] # "absent"
    BY <1>2, <2>1 DEF PatchWrite, TypeOK
  <2>3. \A u \in Update : update'[u] # "absent" => u <= n + 1
    BY <2>1, <2>2 DEF Numbered, Update
  <2>4. \A q \in Request : req'[q] = req[q] \/ req'[q].step = "idle"
    BY <1>2 DEF PatchWrite, Finish, TypeOK
  <2> QED
    BY <2>1, <2>2, <2>3, <2>4 DEF Numbered, Fits
<1>3. ASSUME NEW r \in Request,
             AssumeClaim(r) \/ IncorporateWrite(r) \/ DismissWrite(r) \/ Refused(r)
      PROVE  Numbered'
  <2>1. \A q \in Request : req'[q] = req[q] \/ req'[q].step = "idle"
    BY <1>3 DEF AssumeClaim, IncorporateWrite, DismissWrite, Refused, Finish, TypeOK
  <2>2. n' = n /\ \A u \in Update : (update[u] = "absent") = (update'[u] = "absent")
    <3>1. CASE AssumeClaim(r)
      BY <3>1 DEF AssumeClaim
    <3>2. CASE IncorporateWrite(r)
      BY <3>2 DEF IncorporateWrite, At, Covers, Numbered, TypeOK
    <3>3. CASE DismissWrite(r)
      BY <3>3 DEF DismissWrite, At, Numbered, TypeOK
    <3>4. CASE Refused(r)
      BY <3>4 DEF Refused
    <3> QED
      BY <1>3, <3>1, <3>2, <3>3, <3>4
  <2> QED
    BY <2>1, <2>2 DEF Numbered, Fits
<1>4. ASSUME NEW x \in Doc, Upload(x) \/ DeleteDocument(x)
      PROVE  Numbered'
  BY <1>4 DEF Upload, DeleteDocument, Numbered
<1>5. CASE End \/ DeleteProject \/ UNCHANGED vars
  BY <1>5 DEF End, DeleteProject, vars, Numbered
<1> QED
  BY <1>1, <1>2, <1>3, <1>4, <1>5 DEF Next, Reads

-----------------------------------------------------------------------------
(***************************************************************************)
(* The order of the PATCHes.  What waits for a decision is newer than what *)
(* the project says: it was born after the project, and incorporating an   *)
(* update settles the older ones.                                          *)
(***************************************************************************)
Ordered ==
  /\ \A p \in Part : project[p] <= n /\ crm[p] <= n
  /\ \A r \in Request : req[r].step = "assuming" => \A p \in Part : req[r].crm[p] <= n
  /\ \A u \in Update : update[u] = "pending" => \A p \in Part : project[p] < u
  /\ phase = "queued" =>
       /\ ~linked
       /\ \A u \in Update : update[u] # "pending"
       /\ \A r \in Request : req[r].step = "patching" => ~req[r].owned

\* Every action keeps the order, and none takes a part of the project back but the write of
\* an update that somebody else has decided.
LEMMA OrderStep ==
  ASSUME DecInv, Ordered, Next
  PROVE  /\ Ordered'
         /\ linked /\ linked' =>
              \A p \in Part : project'[p] >= project[p] \/ p \in rewound'
<1> DEFINE Forward ==
             linked /\ linked' => \A p \in Part : project'[p] >= project[p] \/ p \in rewound'
<1>0. TypeOK /\ Fits /\ Numbered
  BY DEF DecInv, TypeInv
<1>00. /\ n \in Nat
       /\ \A p \in Part : project[p] \in Nat /\ crm[p] \in Nat
  BY <1>0 DEF TypeOK, Version
<1> USE IdleType
<1>1. ASSUME NEW r \in Request, Reads(r)
      PROVE  Ordered' /\ Forward
  <2>1. UNCHANGED <<n, phase, linked, crm, project, update>>
    BY <1>1 DEF Reads, PatchRead, IncorporateRead, DismissRead, AssumeRead, contentVars
  <2>2. PICK new \in RequestState :
          /\ req' = [req EXCEPT ![r] = new]
          /\ AsRead(new)
    BY <1>0, <1>1, ReadsEffect
  <2>3. Ordered'
    BY <1>0, <2>1, <2>2 DEF TypeOK, Ordered, AsRead
  <2> QED
    BY <1>00, <2>1, <2>3
<1>2. ASSUME NEW r \in Request, PatchWrite(r)
      PROVE  Ordered' /\ Forward
  <2>1. n' = n + 1 /\ n + 1 \in Update /\ UNCHANGED <<project, phase, linked>>
    BY <1>0, <1>00, <1>2 DEF PatchWrite, At, Fits, Update
  <2>2. \A p \in Part : crm'[p] <= n + 1 /\ project[p] < n + 1
    BY <1>0, <1>00, <1>2 DEF PatchWrite, Ordered
  <2>3. /\ \A u \in Update : u # n + 1 => update'[u] = update[u]
        /\ phase = "queued" => update'[n + 1] # "pending"
    BY <1>0, <1>2, <2>1 DEF PatchWrite, At, DecisionNeeded, TypeOK, Ordered
  <2>4. \A q \in Request : req'[q] = req[q] \/ req'[q].step = "idle"
    BY <1>0, <1>2 DEF PatchWrite, Finish, TypeOK
  <2>5. \A q \in Request : req[q].step = "assuming" => \A p \in Part : req[q].crm[p] <= n + 1
    <3>1. \A q \in Request, p \in Part : req[q].crm[p] \in Nat
      BY <1>0 DEF TypeOK, RequestState, Version
    <3> QED
      BY <1>00, <3>1 DEF Ordered
  <2> QED
    BY <1>00, <2>1, <2>2, <2>3, <2>4, <2>5 DEF Ordered
<1>3. ASSUME NEW r \in Request, AssumeClaim(r)
      PROVE  Ordered' /\ Forward
  <2>1. /\ project' = req[r].crm /\ \A p \in Part : req[r].crm[p] <= n
        /\ \A u \in Update : update[u] # "pending"
    BY <1>3 DEF AssumeClaim, At, Ordered
  <2>2. ~linked
    BY <1>3 DEF AssumeClaim, Ordered
  <2> QED
    BY <1>0, <1>3, <2>1, <2>2 DEF AssumeClaim, Finish, TypeOK, Ordered
<1>4. ASSUME NEW r \in Request, IncorporateWrite(r)
      PROVE  Ordered' /\ Forward
  <2> DEFINE u == req[r].u
  <2>1. u \in Update /\ u \in Nat /\ u <= n
    BY <1>0, <1>4 DEF IncorporateWrite, At, Fits, Numbered, Update
  <2>2. \A p \in Part : project'[p] = IF p \in parts[u] THEN u ELSE project[p]
    BY <1>4 DEF IncorporateWrite
  <2>3. \A v \in Update : update'[v] = "pending" => update[v] = "pending" /\ v > u
    BY <1>4, <2>1 DEF IncorporateWrite, Covers, Update
  <2>4. \A q \in Request : req'[q] = req[q] \/ req'[q].step = "idle"
    BY <1>0, <1>4 DEF IncorporateWrite, Finish, TypeOK
  <2>5. UNCHANGED <<n, crm, phase, linked>>
    BY <1>4 DEF IncorporateWrite
  <2>6. \A v \in Update : v \in Nat
    BY DEF Update
  <2>7. Ordered'
    BY <1>00, <2>1, <2>2, <2>3, <2>4, <2>5, <2>6 DEF Ordered
  <2>8. CASE Late(u)
    <3>1. rewound' = rewound \cup {p \in parts[u] : u < project[p]}
      BY <1>4, <2>8 DEF IncorporateWrite
    <3> QED
      BY <1>00, <2>1, <2>2, <2>7, <3>1
  <2>9. CASE ~Late(u)
    <3>1. \A p \in Part : project[p] < u
      BY <2>1, <2>9 DEF Late, Ordered
    <3> QED
      BY <1>00, <2>1, <2>2, <2>7, <3>1
  <2> QED
    BY <2>8, <2>9
<1>5. ASSUME NEW r \in Request, DismissWrite(r) \/ Refused(r)
      PROVE  Ordered' /\ Forward
  <2>1. UNCHANGED <<n, phase, linked, crm, project>>
    BY <1>5 DEF DismissWrite, Refused, contentVars
  <2>2. \A u \in Update : update'[u] = "pending" => update[u] = "pending"
    BY <1>0, <1>5 DEF DismissWrite, Refused, TypeOK
  <2>3. \A q \in Request : req'[q] = req[q] \/ req'[q].step = "idle"
    BY <1>0, <1>5 DEF DismissWrite, Refused, Finish, TypeOK
  <2> QED
    BY <1>00, <2>1, <2>2, <2>3 DEF Ordered
<1>6. ASSUME NEW x \in Doc, Upload(x) \/ DeleteDocument(x)
      PROVE  Ordered' /\ Forward
  BY <1>00, <1>6 DEF Upload, DeleteDocument, contentVars, Ordered
<1>7. CASE End
  BY <1>00, <1>7 DEF End, contentVars, Ordered
<1>8. CASE DeleteProject
  BY <1>0, <1>00, <1>8 DEF DeleteProject, Ordered, Update
<1> QED
  BY <1>1, <1>2, <1>3, <1>4, <1>5, <1>6, <1>7, <1>8 DEF Next, Reads

\* Whatever decisions overlap, incorporating an update that still waits never takes a part of
\* the project back to what the CRM has corrected since: only the late write of one that
\* somebody else decided can (incorporarAtualizacao).
THEOREM ProjectGoesForward == Spec => NeverGoesBack
<1> DEFINE Forward ==
             linked /\ linked' => \A p \in Part : project'[p] >= project[p] \/ p \in rewound'
           Inv == DecInv /\ Ordered
<1>1. Init => Inv
  <2> SUFFICES ASSUME Init PROVE Ordered
    BY InitDecInv
  <2> QED
    BY IdleType DEF Init, Ordered
<1>2. Inv /\ [Next]_vars => Inv'
  <2>1. CASE UNCHANGED vars
    BY <2>1, DecStep DEF vars, contentVars, Ordered
  <2> QED
    BY <2>1, DecStep, OrderStep
<1>3. Inv /\ [Next]_vars => [Forward]_vars
  BY OrderStep
<1> QED
  BY <1>1, <1>2, <1>3, PTL DEF Spec, NeverGoesBack

-----------------------------------------------------------------------------
(***************************************************************************)
(* Nothing lost unseen.  As long as every PATCH is whole, the demand says  *)
(* what the last one said, and each update newer than the project waits,   *)
(* was dismissed, or was born settled while the demand was being taken.    *)
(***************************************************************************)
Whole == \A u \in 1..n : parts[u] = Part
Reason(u) == update[u] \in {"pending", "dismissed"} \/ u \in overtaken

CrmIsLatest == Whole => \A p \in Part : crm[p] = n

\* Where an update waits, each newer one waits too, was dismissed or was overtaken.
NewerHaveReason ==
  \A u, v \in Update : update[u] = "pending" /\ u < v /\ v <= n => Reason(v)

\* Of the project, and of the one a handler is about to make.
EachHasReason ==
  Whole =>
    /\ linked => \A p \in Part \ rewound, u \in Update : project[p] < u /\ u <= n => Reason(u)
    /\ phase = "queued" =>
         \A r \in Request : req[r].step = "assuming" =>
           \A p \in Part, u \in Update : req[r].crm[p] < u /\ u <= n => u \in overtaken

LagInv == DecInv /\ Ordered /\ CrmIsLatest /\ NewerHaveReason /\ EachHasReason

\* What a step has to keep.
LagGoals == CrmIsLatest' /\ NewerHaveReason' /\ EachHasReason'

\* A step that writes none of these keeps them.
LEMMA LagKept ==
  ASSUME LagInv, UNCHANGED <<n, parts, crm, overtaken, rewound>>,
         linked' => linked /\ project' = project,
         phase' = "queued" => phase = "queued",
         \A u \in Update : Reason(u) => Reason(u)',
         \A u \in Update : update'[u] = "pending" => update[u] = "pending",
         \A r \in Request : req'[r].step = "assuming" => req'[r] = req[r]
  PROVE  LagGoals
<1>1. Whole' => Whole
  BY DEF Whole
<1>2. CrmIsLatest'
  BY <1>1 DEF LagInv, CrmIsLatest
<1>3. EachHasReason'
  BY <1>1 DEF LagInv, EachHasReason
<1>4. NewerHaveReason'
  BY DEF LagInv, NewerHaveReason
<1> QED
  BY <1>2, <1>3, <1>4 DEF LagGoals

\* Every action keeps the reasons.
LEMMA LagStep ==
  ASSUME LagInv, Next
  PROVE  LagGoals
<1>0. TypeOK /\ Fits /\ Numbered /\ Ordered /\ CrmIsLatest /\ NewerHaveReason /\ EachHasReason
  BY DEF LagInv, DecInv, TypeInv
<1>00. /\ n \in Nat
       /\ \A p \in Part : project[p] \in Nat /\ crm[p] \in Nat
       /\ \A u \in Update : u \in Nat
  BY <1>0 DEF TypeOK, Version, Update
<1> USE IdleType
<1>1. ASSUME NEW r \in Request, Reads(r)
      PROVE  LagGoals
  <2>1. UNCHANGED <<n, parts, crm, overtaken, rewound, linked, project, phase, update>>
    BY <1>1 DEF Reads, PatchRead, IncorporateRead, DismissRead, AssumeRead, contentVars
  <2>2. PICK new \in RequestState : req' = [req EXCEPT ![r] = new] /\ AsRead(new)
    BY <1>0, <1>1, ReadsEffect
  <2>3. CrmIsLatest' /\ (Whole' => Whole)
    BY <1>0, <2>1 DEF CrmIsLatest, Whole
  <2>4. ASSUME Whole, NEW q \in Request, req'[q].step = "assuming", phase = "queued",
               NEW p \in Part, NEW u \in Update, req'[q].crm[p] < u, u <= n
        PROVE  u \in overtaken
    <3>1. CASE q = r
      <4>1. req'[q].crm[p] = n
        BY <1>0, <2>2, <2>4, <3>1 DEF AsRead, TypeOK, CrmIsLatest
      <4> QED
        BY <1>00, <2>4, <4>1
    <3>2. CASE q # r
      <4>1. req'[q] = req[q]
        BY <1>0, <2>2, <3>2 DEF TypeOK
      <4> QED
        BY <1>0, <2>4, <4>1 DEF EachHasReason
    <3> QED
      BY <3>1, <3>2
  <2>5. linked /\ Whole =>
          \A p \in Part \ rewound, u \in Update : project[p] < u /\ u <= n => Reason(u)
    BY <1>0 DEF EachHasReason
  <2>6. EachHasReason'
    BY <2>1, <2>3, <2>4, <2>5 DEF EachHasReason, Reason
  <2>7. NewerHaveReason'
    BY <1>0, <2>1 DEF NewerHaveReason, Reason
  <2> QED
    BY <2>3, <2>6, <2>7 DEF LagGoals
<1>2. ASSUME NEW r \in Request, PatchWrite(r)
      PROVE  LagGoals
  <2>1. /\ n' = n + 1 /\ n + 1 \in Update
        /\ UNCHANGED <<project, phase, linked, rewound>>
    BY <1>0, <1>00, <1>2 DEF PatchWrite, At, Fits, Update
  <2>2. /\ parts' = [parts EXCEPT ![n + 1] = req[r].parts]
        /\ \A p \in Part : crm'[p] = IF p \in req[r].parts THEN n + 1 ELSE crm[p]
    BY <1>2 DEF PatchWrite
  <2>3. Whole' => Whole /\ req[r].parts = Part
    <3>1. SUFFICES ASSUME Whole' PROVE Whole /\ req[r].parts = Part
      OBVIOUS
    <3>2. \A u \in 1..(n + 1) : parts'[u] = Part
      BY <2>1, <3>1 DEF Whole
    <3>3. parts'[n + 1] = req[r].parts /\ \A u \in 1..n : parts'[u] = parts[u]
      BY <1>0, <1>00, <2>1, <2>2 DEF TypeOK
    <3> QED
      BY <1>00, <3>2, <3>3 DEF Whole
  <2>4. CrmIsLatest'
    BY <2>1, <2>2, <2>3 DEF CrmIsLatest
  <2>5. \A u \in Update : u # n + 1 => update'[u] = update[u]
    BY <1>0, <1>2, <2>1 DEF PatchWrite, TypeOK
  <2>6. overtaken \subseteq overtaken'
    BY <1>2 DEF PatchWrite
  <2>7. \A u \in Update : linked /\ u = n + 1 => Reason(u)'
    <3>1. linked => phase # "queued"
      BY <1>0 DEF Ordered
    <3>2. CASE req[r].owned
      <4>1. update' = [update EXCEPT ![n + 1] = "pending"]
        BY <1>2, <3>2 DEF PatchWrite, DecisionNeeded
      <4> QED
        BY <1>0, <4>1 DEF Reason, TypeOK
    <3>3. CASE ~req[r].owned
      BY <1>2, <3>1, <3>3 DEF PatchWrite, DecisionNeeded, Reason
    <3> QED
      BY <3>2, <3>3
  <2>8. ASSUME phase = "queued", NEW q \in Request, req'[q].step = "assuming"
        PROVE  n + 1 \in overtaken' /\ req'[q] = req[q]
    <3>1. req'[q] = req[q]
      BY <1>0, <1>2, <2>8 DEF PatchWrite, Finish, TypeOK
    <3>2. ~req[r].owned
      BY <1>0, <1>2, <2>8 DEF PatchWrite, At, Ordered
    <3> QED
      BY <1>2, <2>8, <3>1, <3>2 DEF PatchWrite, DecisionNeeded, At
  <2>9. \A u \in Update : u <= n + 1 => u <= n \/ u = n + 1
    BY <1>00
  <2>10. EachHasReason'
    <3>1. SUFFICES ASSUME Whole'
                   PROVE  /\ linked => \A p \in Part \ rewound, u \in Update :
                               project[p] < u /\ u <= n + 1 => Reason(u)'
                          /\ phase = "queued" =>
                               \A q \in Request : req'[q].step = "assuming" =>
                                 \A p \in Part, u \in Update :
                                   req'[q].crm[p] < u /\ u <= n + 1 => u \in overtaken'
      BY <2>1 DEF EachHasReason
    <3>2. \A u \in Update : u <= n /\ Reason(u) => Reason(u)'
      BY <1>00, <2>5, <2>6 DEF Reason
    <3>3. linked => \A p \in Part \ rewound, u \in Update :
                      project[p] < u /\ u <= n + 1 => Reason(u)'
      BY <1>0, <2>3, <2>7, <2>9, <3>1, <3>2 DEF EachHasReason
    <3>4. ASSUME phase = "queued", NEW q \in Request, req'[q].step = "assuming",
                 NEW p \in Part, NEW u \in Update, req'[q].crm[p] < u, u <= n + 1
          PROVE  u \in overtaken'
      BY <1>0, <2>3, <2>6, <2>8, <2>9, <3>1, <3>4 DEF EachHasReason
    <3> QED
      BY <3>3, <3>4
  <2>11. NewerHaveReason'
    <3>1. SUFFICES ASSUME NEW u \in Update, NEW v \in Update,
                          update'[u] = "pending", u < v, v <= n + 1
                   PROVE  Reason(v)'
      BY <2>1 DEF NewerHaveReason
    <3>2. u <= n /\ u # n + 1 /\ update[u] = "pending"
      BY <1>00, <2>5, <3>1
    <3>3. CASE v = n + 1
      <4>1. phase # "queued"
        BY <1>0, <3>2 DEF Ordered
      <4>2. CASE req[r].owned
        <5>1. update' = [update EXCEPT ![n + 1] = "pending"]
          BY <1>2, <4>2 DEF PatchWrite, DecisionNeeded
        <5> QED
          BY <1>0, <3>3, <5>1 DEF Reason, TypeOK
      <4>3. CASE ~req[r].owned
        BY <1>2, <3>3, <4>1, <4>3 DEF PatchWrite, DecisionNeeded, Reason
      <4> QED
        BY <4>2, <4>3
    <3>4. CASE v # n + 1
      <4>1. v <= n /\ update'[v] = update[v]
        BY <1>00, <2>5, <3>1, <3>4
      <4>2. Reason(v)
        BY <1>0, <3>1, <3>2, <4>1 DEF NewerHaveReason
      <4> QED
        BY <2>6, <4>1, <4>2 DEF Reason
    <3> QED
      BY <3>3, <3>4
  <2> QED
    BY <2>4, <2>10, <2>11 DEF LagGoals
<1>3. ASSUME NEW r \in Request, AssumeClaim(r)
      PROVE  LagGoals
  <2>1. /\ UNCHANGED <<n, parts, crm, update, overtaken, rewound>>
        /\ project' = req[r].crm /\ phase' = "owned"
        /\ req[r].step = "assuming" /\ phase = "queued"
    BY <1>3 DEF AssumeClaim, At
  <2>2. CrmIsLatest' /\ (Whole' => Whole)
    BY <1>0, <2>1 DEF CrmIsLatest, Whole
  <2>3. Whole => \A p \in Part, u \in Update : req[r].crm[p] < u /\ u <= n => u \in overtaken
    BY <1>0, <2>1 DEF EachHasReason
  <2>4. EachHasReason'
    BY <2>1, <2>2, <2>3 DEF EachHasReason, Reason
  <2>5. NewerHaveReason'
    BY <1>0, <2>1 DEF NewerHaveReason, Reason
  <2> QED
    BY <2>2, <2>4, <2>5 DEF LagGoals
<1>4. ASSUME NEW r \in Request, IncorporateWrite(r)
      PROVE  LagGoals
  <2> DEFINE u == req[r].u
  <2>1. u \in Update /\ u \in 1..n /\ u <= n
    <3>1. u \in Update /\ update[u] # "absent"
      BY <1>0, <1>4 DEF IncorporateWrite, At, Fits, Numbered
    <3>2. u <= n
      BY <1>0, <3>1 DEF Numbered
    <3> QED
      BY <1>00, <3>1, <3>2 DEF Update
  <2>2. UNCHANGED <<n, parts, crm, overtaken, phase, linked>>
    BY <1>4 DEF IncorporateWrite
  <2>3. CrmIsLatest' /\ (Whole' => Whole)
    BY <1>0, <2>2 DEF CrmIsLatest, Whole
  <2>4. Whole => parts[u] = Part /\ \A p \in Part : project'[p] = u
    BY <1>4, <2>1 DEF IncorporateWrite, Whole
  <2>5. \A v \in Update : u < v => update'[v] = update[v]
    BY <1>00, <1>4, <2>1 DEF IncorporateWrite, Covers
  <2>6. \A q \in Request : req'[q].step = "assuming" => req'[q] = req[q]
    BY <1>0, <1>4 DEF IncorporateWrite, Finish, TypeOK
  <2>7. ASSUME Whole, linked, NEW p \in Part \ rewound', NEW v \in Update, project'[p] < v, v <= n
        PROVE  Reason(v)'
    <3>1. u < v
      BY <2>4, <2>7
    <3>2. Reason(v)
      <4>1. CASE ~Late(u)
        BY <1>0, <2>1, <2>7, <3>1, <4>1 DEF Late, NewerHaveReason
      <4>2. CASE Late(u)
        <5>1. rewound' = rewound \cup {q \in parts[u] : u < project[q]}
          BY <1>4, <4>2 DEF IncorporateWrite
        <5>2. p \in Part \ rewound /\ ~(u < project[p])
          BY <2>4, <2>7, <5>1
        <5>3. project[p] < v
          BY <1>00, <2>1, <3>1, <5>2
        <5> QED
          BY <1>0, <2>7, <5>2, <5>3 DEF EachHasReason
      <4> QED
        BY <4>1, <4>2
    <3> QED
      BY <2>2, <2>5, <3>1, <3>2 DEF Reason
  <2>8. EachHasReason'
    BY <1>0, <2>2, <2>3, <2>6, <2>7 DEF EachHasReason
  <2>9. NewerHaveReason'
    <3>1. \A v \in Update : update'[v] = "pending" => update[v] = "pending" /\ u < v
      BY <1>00, <1>4, <2>1 DEF IncorporateWrite, Covers
    <3>2. SUFFICES ASSUME NEW v \in Update, NEW w \in Update,
                          update'[v] = "pending", v < w, w <= n
                   PROVE  Reason(w)'
      BY <2>2 DEF NewerHaveReason
    <3>3. Reason(w)
      BY <1>0, <3>1, <3>2 DEF NewerHaveReason
    <3>4. u < w
      BY <1>00, <2>1, <3>1, <3>2
    <3> QED
      BY <2>2, <2>5, <3>3, <3>4 DEF Reason
  <2> QED
    BY <2>3, <2>8, <2>9 DEF LagGoals
<1>5. ASSUME NEW r \in Request, DismissWrite(r) \/ Refused(r)
      PROVE  LagGoals
  <2>1. UNCHANGED <<n, phase, linked, parts, overtaken, rewound, crm, project>>
    BY <1>5 DEF DismissWrite, Refused, contentVars
  <2>2. \A u \in Update : Reason(u) => Reason(u)'
    BY <1>0, <1>5, <2>1 DEF DismissWrite, Refused, TypeOK, Reason
  <2>4. \A u \in Update : update'[u] = "pending" => update[u] = "pending"
    BY <1>0, <1>5 DEF DismissWrite, Refused, TypeOK
  <2>3. \A q \in Request : req'[q].step = "assuming" => req'[q] = req[q]
    BY <1>0, <1>5 DEF DismissWrite, Refused, Finish, TypeOK
  <2> QED
    BY <2>1, <2>2, <2>3, <2>4, LagKept
<1>6. ASSUME NEW x \in Doc, Upload(x) \/ DeleteDocument(x)
      PROVE  LagGoals
  <2>1. UNCHANGED <<phase, n, parts, linked, update, overtaken, rewound, crm, project, req>>
    BY <1>6 DEF Upload, DeleteDocument, contentVars
  <2> QED
    BY <2>1, LagKept DEF Reason
<1>7. CASE End \/ DeleteProject
  <2>1. /\ UNCHANGED <<n, parts, update, overtaken, rewound, crm, req>>
        /\ linked' => linked /\ project' = project
        /\ phase' = "queued" => phase = "queued"
    BY <1>7 DEF End, DeleteProject, contentVars
  <2> QED
    BY <2>1, LagKept DEF Reason
<1> QED
  BY <1>1, <1>2, <1>3, <1>4, <1>5, <1>6, <1>7 DEF Next, Reads

\* As long as PATCHes are whole, and whatever decisions overlap, no correction of the CRM is
\* lost unseen: where the project lags, an update waits, was dismissed, or was born settled
\* while the demand was being taken, but in a part that a late decision took back
\* (incorporarAtualizacao, descartarAtualizacao).
THEOREM NothingLostUnseen == Spec => []LagHasReason
<1>1. Init => LagInv
  <2> SUFFICES ASSUME Init PROVE Ordered /\ CrmIsLatest /\ NewerHaveReason /\ EachHasReason
    BY InitDecInv DEF LagInv
  <2> QED
    BY IdleType DEF Init, Ordered, CrmIsLatest, NewerHaveReason, EachHasReason
<1>2. LagInv /\ [Next]_vars => LagInv'
  <2>1. CASE UNCHANGED vars
    <3>1. LagInv => Ordered'
      BY <2>1 DEF LagInv, vars, contentVars, Ordered
    <3> QED
      BY <2>1, <3>1, DecStep, LagKept DEF LagInv, LagGoals, vars, contentVars, Reason
  <2> QED
    BY <2>1, DecStep, OrderStep, LagStep DEF LagInv, LagGoals
<1>3. LagInv => LagHasReason
  <2> SUFFICES ASSUME LagInv, linked, Whole, NEW p \in Part \ rewound, project[p] < crm[p]
               PROVE  \E u \in Update : u > project[p] /\ Reason(u)
    BY DEF LagHasReason, Whole, Reason
  <2>1. /\ crm[p] = n /\ n \in Version /\ project[p] \in Nat
        /\ \A u \in Update : project[p] < u /\ u <= n => Reason(u)
    BY DEF LagInv, DecInv, TypeInv, TypeOK, CrmIsLatest, EachHasReason, Version
  <2>2. n \in Update /\ n > project[p]
    BY <2>1 DEF Version, Update
  <2> QED
    BY <2>1, <2>2 DEF Update
<1> QED
  BY <1>1, <1>2, <1>3, PTL DEF Spec
=============================================================================
