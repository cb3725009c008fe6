---------------------------- MODULE DemandUpdates ---------------------------
(***************************************************************************)
(* What the CRM says of a demand after sending it, and how it reaches the  *)
(* project (decision D27).  A PATCH is applied to the demand at once and   *)
(* leaves an update that waits for a person; the project changes only when *)
(* somebody incorporates the update (demandLifecycleService.ts).  Documents*)
(* are declared first, uploaded later and hung on the project when the     *)
(* demand is assumed or an update is incorporated (utils/demands.ts).      *)
(*                                                                         *)
(* One demand.  The content of a part is the number of the PATCH that      *)
(* wrote it, 0 being the POST; PATCHes are numbered by changed_at, and the *)
(* CRM sends the next one after the answer to the last.  As in             *)
(* DemandLifecycle, a transaction is a read and a later write: from the    *)
(* first row it writes to its commit it is one step.  Decisions overlap:   *)
(* nothing re-reads the status of the update that is being decided.        *)
(*                                                                         *)
(* Abstracted: which columns a part has, the diff shown to the person, the *)
(* objective (a PATCH of no part and no document here: the project has no  *)
(* such column), who may decide, and the purge.                            *)
(***************************************************************************)
EXTENDS Naturals

CONSTANTS
  Doc,          \* documents the CRM may declare, by document_ref
  PatchKinds,   \* the sets of parts a PATCH may carry
  MaxUpdates,   \* bound on the PATCHes explored
  Request       \* handlers that may be in flight at the same time, decisions included

Part == {"opportunity", "sheet"}

ASSUME KindsAssumption == PatchKinds \subseteq SUBSET Part

ASSUME BoundAssumption == MaxUpdates \in Nat

Version == 0..MaxUpdates
Update == 1..MaxUpdates

VARIABLES
  phase,    \* "queued", "owned" or "ended": what the updates see of demands.status
  crm,      \* [Part -> Version]: the columns of the demand
  project,  \* [Part -> Version]: the columns of its project
  linked,   \* project_id is set
  n,        \* PATCHes accepted so far
  parts,    \* [Update -> SUBSET Part]: the payload
  update,   \* [Update -> UpdateState]: demand_updates.status
  rewound,  \* parts that the project shows older than it did, by the write of an update that
            \* somebody else had decided since it was read
  overtaken,\* updates born settled while somebody was taking the demand, or had since the read
  declared, \* documents declared
  stored,   \* documents whose storage_path is recorded
  file,     \* documents whose binary is in the storage
  hung,     \* documents whose document_id points to a Document of the project
  copies,   \* [Doc -> Nat]: Documents made of this declaration, in the project
  req       \* [Request -> RequestState]: handlers in flight

docVars == <<declared, stored, file, hung, copies>>
contentVars == <<crm, project>>
vars == <<phase, contentVars, linked, n, parts, update, overtaken, rewound, docVars, req>>

UpdateState == {"absent", "pending", "incorporated", "dismissed"}
Deciding == {"assuming", "incorporating", "dismissing"}

RequestState ==
  [step : {"idle", "patching"} \cup Deciding, u : Version, owned : BOOLEAN,
   parts : SUBSET Part, docs : SUBSET Doc, crm : [Part -> Version]]

Idle == [step |-> "idle", u |-> 0, owned |-> FALSE, parts |-> {}, docs |-> {},
         crm |-> [p \in Part |-> 0]]

TypeOK ==
  /\ phase \in {"queued", "owned", "ended"}
  /\ crm \in [Part -> Version] /\ project \in [Part -> Version]
  /\ linked \in BOOLEAN
  /\ n \in Version
  /\ parts \in [Update -> SUBSET Part]
  /\ update \in [Update -> UpdateState]
  /\ overtaken \subseteq Update /\ rewound \subseteq Part
  /\ hung \subseteq stored /\ stored \subseteq declared /\ declared \subseteq Doc
  /\ file \subseteq stored
  /\ copies \in [Doc -> Nat]
  /\ req \in [Request -> RequestState]

Init ==
  /\ phase = "queued"
  /\ crm = [p \in Part |-> 0] /\ project = [p \in Part |-> 0]
  /\ linked = FALSE
  /\ n = 0
  /\ parts = [u \in Update |-> {}]
  /\ update = [u \in Update |-> "absent"]
  /\ overtaken = {} /\ rewound = {}
  /\ declared \in SUBSET Doc
  /\ stored = {} /\ file = {} /\ hung = {}
  /\ copies = [x \in Doc |-> 0]
  /\ req = [r \in Request |-> Idle]

-----------------------------------------------------------------------------
(* The PATCH *)

At(r, step) == req[r].step = step

Finish(r) == req' = [req EXCEPT ![r] = Idle]

\* registrarAtualizacao reads the status and the documents already declared.
PatchRead(r, kind, docs) ==
  /\ At(r, "idle")
  /\ \A q \in Request : ~At(q, "patching")
  /\ n < MaxUpdates
  /\ phase # "ended"
  /\ req' = [req EXCEPT ![r] = [Idle EXCEPT !.step = "patching", !.owned = (phase = "owned"),
                                            !.parts = kind, !.docs = docs \ declared]]
  /\ UNCHANGED <<phase, contentVars, linked, n, parts, update, overtaken, rewound, docVars>>

\* precisaDeDecisao: in the queue there is nobody to ask.
DecisionNeeded(owned) == owned

\* The columns of the parts that came, the new declarations and the update, which is
\* born decided when the read found the demand in the queue.
PatchWrite(r) ==
  LET p == req[r] IN
  /\ At(r, "patching")
  /\ n' = n + 1
  /\ crm' = [q \in Part |-> IF q \in p.parts THEN n + 1 ELSE crm[q]]
  /\ parts' = [parts EXCEPT ![n + 1] = p.parts]
  /\ update' = [update EXCEPT ![n + 1] =
                  IF DecisionNeeded(p.owned) THEN "pending" ELSE "incorporated"]
  /\ overtaken' = IF /\ ~DecisionNeeded(p.owned)
                     /\ phase # "queued" \/ \E q \in Request : At(q, "assuming")
                   THEN overtaken \cup {n + 1} ELSE overtaken
  /\ declared' = declared \cup p.docs
  /\ Finish(r)
  /\ UNCHANGED <<phase, project, linked, rewound, stored, file, hung, copies>>

\* PUT .../content: the hash was checked, and content that is recorded already is not
\* stored again.
Upload(x) ==
  /\ x \in declared \ stored
  /\ stored' = stored \cup {x}
  /\ file' = file \cup {x}
  /\ UNCHANGED <<phase, contentVars, linked, n, parts, update, overtaken, rewound, declared, hung,
                 copies, req>>

-----------------------------------------------------------------------------
(* What people decide *)

\* materializarDocumentos hangs the documents that have content and no Document yet,
\* as they were when the transaction read them.
ToHang == stored \ hung

Hang(docs) ==
  /\ copies' = [x \in Doc |-> copies[x] + (IF x \in docs THEN 1 ELSE 0)]
  /\ hung' = hung \cup docs
  /\ UNCHANGED <<declared, stored, file>>

AssumeRead(r) ==
  /\ At(r, "idle")
  /\ phase = "queued"
  /\ req' = [req EXCEPT ![r] = [Idle EXCEPT !.step = "assuming", !.docs = ToHang, !.crm = crm]]
  /\ UNCHANGED <<phase, contentVars, linked, n, parts, update, overtaken, rewound, docVars>>

\* The claim, and the project, born of the demand as it was read.
AssumeClaim(r) ==
  /\ At(r, "assuming")
  /\ phase = "queued"
  /\ phase' = "owned"
  /\ project' = req[r].crm
  /\ linked' = TRUE
  /\ Hang(req[r].docs)
  /\ Finish(r)
  /\ UNCHANGED <<crm, n, parts, update, overtaken, rewound>>

IncorporateRead(r, u) ==
  /\ At(r, "idle")
  /\ update[u] = "pending"
  /\ linked
  /\ req' = [req EXCEPT ![r] = [Idle EXCEPT !.step = "incorporating", !.u = u, !.docs = ToHang]]
  /\ UNCHANGED <<phase, contentVars, linked, n, parts, update, overtaken, rewound, docVars>>

\* Mutants of Covers: everything pending is covered, or nothing is.
CoversAllPending(u, v) == update[v] = "pending"
CoversNone(u, v) == FALSE

\* Incorporating u settles v: v is pending and says something older.
Covers(u, v) == update[v] = "pending" /\ v < u

\* Somebody decided u, or a newer update that covers it, since a handler read it pending.
Late(u) == update[u] # "pending"

\* The payload of this update goes to the project, its documents are hung, and the
\* older pending updates are incorporated with it.  Nothing re-reads the update's own
\* status.  Without the project there is nothing to write to, and all is undone.
IncorporateWrite(r) ==
  LET u == req[r].u IN
  /\ At(r, "incorporating")
  /\ linked \/ (parts[u] = {} /\ req[r].docs = {})
  /\ project' = [p \in Part |-> IF p \in parts[u] THEN u ELSE project[p]]
  /\ update' = [v \in Update |-> IF v = u \/ Covers(u, v) THEN "incorporated" ELSE update[v]]
  /\ Hang(req[r].docs)
  /\ Finish(r)
  /\ rewound' = IF Late(u) THEN rewound \cup {p \in parts[u] : u < project[p]}
                            ELSE rewound \ parts[u]
  /\ UNCHANGED <<phase, crm, linked, n, parts, overtaken>>

DismissRead(r, u) ==
  /\ At(r, "idle")
  /\ update[u] = "pending"
  /\ req' = [req EXCEPT ![r] = [Idle EXCEPT !.step = "dismissing", !.u = u]]
  /\ UNCHANGED <<phase, contentVars, linked, n, parts, update, overtaken, rewound, docVars>>

\* A plain update, whatever the status has become.
DismissWrite(r) ==
  /\ At(r, "dismissing")
  /\ update' = [update EXCEPT ![req[r].u] = "dismissed"]
  /\ Finish(r)
  /\ UNCHANGED <<phase, contentVars, linked, n, parts, overtaken, rewound, docVars>>

\* Somebody else took the demand, or the project was deleted, in between.
Refused(r) ==
  /\ \/ At(r, "assuming") /\ phase # "queued"
     \/ At(r, "incorporating") /\ ~linked /\ (parts[req[r].u] # {} \/ req[r].docs # {})
  /\ Finish(r)
  /\ UNCHANGED <<phase, contentVars, linked, n, parts, update, overtaken, rewound, docVars>>

-----------------------------------------------------------------------------
(* What happens around them *)

\* Any of the three endings.  The updates stay as they are.
End ==
  /\ phase # "ended"
  /\ phase' = "ended"
  /\ UNCHANGED <<contentVars, linked, n, parts, update, overtaken, rewound, docVars, req>>

\* DELETE /projects/:id takes the Documents with it; the links become null.
DeleteProject ==
  /\ linked
  /\ linked' = FALSE
  /\ project' = [p \in Part |-> 0]
  /\ copies' = [x \in Doc |-> 0]
  /\ hung' = {}
  /\ UNCHANGED <<phase, crm, n, parts, update, overtaken, rewound, declared, stored, file, req>>

\* DELETE /documents/:id removes the binary and then the row; the declaration keeps
\* its storage_path, and document_id becomes null if it pointed to this Document.
DeleteDocument(x) ==
  /\ copies[x] > 0
  /\ file' = file \ {x}
  /\ copies' = [copies EXCEPT ![x] = @ - 1]
  /\ hung' \in IF copies[x] = 1 THEN {hung \ {x}} ELSE {hung, hung \ {x}}
  /\ UNCHANGED <<phase, contentVars, linked, n, parts, update, overtaken, rewound, declared, stored,
                 req>>

-----------------------------------------------------------------------------

Next ==
  \/ \E r \in Request :
       \/ \E kind \in PatchKinds, docs \in SUBSET Doc : PatchRead(r, kind, docs)
       \/ \E u \in Update : IncorporateRead(r, u) \/ DismissRead(r, u)
       \/ AssumeRead(r)
       \/ PatchWrite(r) \/ AssumeClaim(r) \/ IncorporateWrite(r) \/ DismissWrite(r) \/ Refused(r)
  \/ \E x \in Doc : Upload(x) \/ DeleteDocument(x)
  \/ End
  \/ DeleteProject

Spec == Init /\ [][Next]_vars

-----------------------------------------------------------------------------

\* Incorporating an update that still waits never takes a part of the project back to
\* what the CRM has corrected since: this is what the covering of older updates is for.
\* What overlapping decisions can undo is exactly the write of an update that somebody
\* else decided since it was read (incorporarAtualizacao).
NeverGoesBack ==
  [][linked /\ linked' => \A p \in Part : project'[p] >= project[p] \/ p \in rewound']_vars

\* Where the project lags behind what the CRM says, some update with the missing part
\* waits for a decision or was dismissed, or was born settled while the demand was being
\* taken: as long as PATCHes are whole, no other correction of the CRM is lost unseen,
\* whatever decisions overlap, except in a part that a late decision took back
\* (incorporarAtualizacao, descartarAtualizacao).
LagHasReason ==
  linked /\ (\A u \in 1..n : parts[u] = Part) =>
    \A p \in Part \ rewound : project[p] < crm[p] =>
      \E u \in Update :
        u > project[p] /\ (update[u] \in {"pending", "dismissed"} \/ u \in overtaken)

\* "Sem esta regra, incorporar a mais nova e depois a mais antiga escreveria no projeto um
\* valor que o CRM ja corrigiu": with the rule, no decision takes a part of the project back
\* to an older content (incorporarAtualizacao).
NoDecisionGoesBack ==
  [][linked /\ linked' => \A p \in Part : project'[p] >= project[p]]_vars

=============================================================================
