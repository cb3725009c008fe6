------------------------------- MODULE Purge --------------------------------
(***************************************************************************)
(* The purge that the CRM asks for (utils/crmPurge.ts), against the steps  *)
(* that put content where it looks: the upload, which stores a file and    *)
(* then records its path (routes/externalCrm.ts), the Documents hung on a  *)
(* project (utils/demands.ts) and their deletion by hand                   *)
(* (routes/documents.ts).                                                  *)
(*                                                                         *)
(* One company with one demand.  The purge reads everything first; then,   *)
(* document by document, it deletes the file, and in a transaction the     *)
(* rows; then the demand, whose declarations go by cascade; then the       *)
(* project loses the company; then the execution is recorded and answered. *)
(* Another purge may name one document.  An addendum that is declared      *)
(* meanwhile is left out.  Names of files are random, so a file is a       *)
(* number that is used once.  An administrator may change the storage mode *)
(* of the installation at any time; what was stored stays where it is.     *)
(***************************************************************************)
EXTENDS Naturals, FiniteSets

CONSTANTS
  Doc,         \* documents of the demand, by document_ref
  Providers,   \* the storage modes there may be; "local" stands for the file system and GCS,
               \* which refuse to delete a file they do not have
  Named,       \* those that a purge of one document may name: in the code, any of Doc
  MaxFiles,    \* bound on the uploads that store a file
  MaxMishaps   \* bound on crashes, on deletions that the storage refuses and on changes of mode

ASSUME ProviderNames == Providers \subseteq {"local", "s3"}
ASSUME PurgeBounds == MaxFiles \in Nat /\ MaxMishaps \in Nat

VARIABLES
  mode,      \* settings.storage_mode
  demand,    \* the demand is there
  decl,      \* [Doc -> Declaration]: demand_documents
  document,  \* [Doc -> Path]: the Document of the project, by its path; 0 is none
  project,   \* what the project says of the company
  file,      \* the files that are stored
  home,      \* [File -> Providers]: where each was stored
  used,      \* files stored so far
  flying,    \* uploads that stored their file and have not recorded it
  deleting,  \* Documents whose file was deleted by hand and whose row was not yet
  purge,     \* [Target -> Purging]
  cleaned,   \* a purge of the company was answered without an error
  left,      \* files of uploads that died before they recorded them
  missed,    \* files that a purge was told were gone by a storage that never had them
  stale,     \* somebody wrote, or deleted, a row that changed since its read
  mishaps

rowVars == <<demand, decl, document, project>>
fileVars == <<file, home, used, flying, deleting, left, missed>>
vars == <<mode, rowVars, fileVars, purge, cleaned, stale, mishaps>>

File == 1..MaxFiles
Path == 0..MaxFiles
Target == {"company", "document"}

Declaration == [there : BOOLEAN, path : Path, hung : BOOLEAN]
Declared == [there |-> TRUE, path |-> 0, hung |-> FALSE]
Gone == [there |-> FALSE, path |-> 0, hung |-> FALSE]

\* saw: the declarations as they were read, of those not yet dealt with; now: the one
\* whose rows come next; failed: those whose file stayed; storage: the adapter, which the
\* purge makes for the first file it meets.
Purging ==
  [step : {"idle", "files", "rows", "demand", "project", "record"},
   saw : [Doc -> Declaration], now : SUBSET Doc, failed : SUBSET Doc,
   storage : Providers \cup {"none"}]

Idle == [step |-> "idle", saw |-> [d \in Doc |-> Gone], now |-> {}, failed |-> {},
         storage |-> "none"]

There(d) == decl[d].there
ToDo(t) == {d \in Doc : purge[t].saw[d].there}

TypeOK ==
  /\ mode \in Providers /\ home \in [File -> Providers]
  /\ demand \in BOOLEAN
  /\ decl \in [Doc -> Declaration]
  /\ document \in [Doc -> Path]
  /\ project \in {"none", "named", "unlinked"}
  /\ file \subseteq 1..used /\ used \in Path
  /\ flying \subseteq Doc \X File
  /\ deleting \subseteq Doc
  /\ purge \in [Target -> Purging]
  /\ cleaned \in BOOLEAN /\ stale \in BOOLEAN
  /\ left \subseteq File /\ missed \subseteq File
  /\ mishaps \in 0..MaxMishaps
  /\ \A d \in Doc : There(d) => demand /\ (decl[d].hung => document[d] # 0)

\* The demand arrived with its documents declared.
Init ==
  /\ mode \in Providers /\ home = [f \in File |-> mode]
  /\ demand = TRUE
  /\ decl = [d \in Doc |-> Declared]
  /\ document = [d \in Doc |-> 0]
  /\ project = "none"
  /\ file = {} /\ used = 0 /\ flying = {} /\ deleting = {} /\ left = {} /\ missed = {}
  /\ purge = [t \in Target |-> Idle]
  /\ cleaned = FALSE /\ stale = FALSE
  /\ mishaps = 0

-----------------------------------------------------------------------------
(* What the CRM and people do to the documents *)

\* PUT .../content: no content is recorded yet, so the file is stored, as the settings say.
UploadStore(d) ==
  /\ There(d) /\ decl[d].path = 0
  /\ used < MaxFiles
  /\ used' = used + 1
  /\ file' = file \cup {used + 1} /\ home' = [home EXCEPT ![used + 1] = mode]
  /\ flying' = flying \cup {<<d, used + 1>>}
  /\ UNCHANGED <<mode, rowVars, deleting, left, missed, purge, cleaned, stale, mishaps>>

\* The path is recorded by the declaration's id, or there is none to record it in.
UploadRecord(d, f) ==
  /\ <<d, f>> \in flying
  /\ flying' = flying \ {<<d, f>>}
  /\ IF There(d)
     THEN decl' = [decl EXCEPT ![d].path = f] /\ stale' = (stale \/ decl[d].path # 0)
     ELSE stale' = TRUE /\ UNCHANGED decl
  /\ UNCHANGED <<mode, demand, document, project, file, home, used, deleting, left, missed,
                 purge, cleaned, mishaps>>

\* The demand is taken, or an update incorporated: materializarDocumentos.
Hang ==
  LET docs == {d \in Doc : There(d) /\ decl[d].path # 0 /\ ~decl[d].hung} IN
  /\ demand
  /\ project = "none" \/ docs # {}
  /\ project' = IF project = "none" THEN "named" ELSE project
  /\ document' = [d \in Doc |-> IF d \in docs THEN decl[d].path ELSE document[d]]
  /\ decl' = [d \in Doc |-> IF d \in docs THEN [decl[d] EXCEPT !.hung = TRUE] ELSE decl[d]]
  /\ UNCHANGED <<mode, demand, fileVars, purge, cleaned, stale, mishaps>>

\* DELETE /documents/:id: the binary, in the storage its row names and whatever that
\* answers, and then the row.
DocumentFile(d) ==
  /\ document[d] # 0 /\ d \notin deleting
  /\ file' = file \ {document[d]}
  /\ deleting' = deleting \cup {d}
  /\ UNCHANGED <<mode, rowVars, home, used, flying, left, missed, purge, cleaned, stale,
                 mishaps>>

\* document_id becomes null, and the declaration keeps its path.
DocumentRow(d) ==
  /\ d \in deleting
  /\ deleting' = deleting \ {d}
  /\ document' = [document EXCEPT ![d] = 0]
  /\ decl' = [decl EXCEPT ![d].hung = FALSE]
  /\ UNCHANGED <<mode, demand, project, file, home, used, flying, left, missed, purge, cleaned,
                 stale, mishaps>>

-----------------------------------------------------------------------------
(* executarExpurgo *)

At(t, step) == purge[t].step = step

\* The targets' declarations, read at once.
PurgeRead(t, docs) ==
  /\ At(t, "idle")
  /\ docs = {d \in docs : There(d)}
  /\ t = "company" => docs = {d \in Doc : There(d)}
  /\ t = "document" => Cardinality(docs) = 1
  /\ purge' = [purge EXCEPT ![t] = [Idle EXCEPT !.step = "files",
                           !.saw = [d \in Doc |-> IF d \in docs THEN decl[d] ELSE Gone]]]
  /\ UNCHANGED <<mode, rowVars, fileVars, cleaned, stale, mishaps>>

\* createStorageAdapter(getSettings()), once in a purge, whatever the row says of its file.
Adapter(t) == IF purge[t].storage = "none" THEN mode ELSE purge[t].storage

\* Mutant of Confirms: S3 answers as the local storage does.
ConfirmsKnown(a, f) == f \in file /\ home[f] = a

\* A storage that knows no missing file answers true: S3 does, the local one does not.
Confirms(a, f) == (f \in file /\ home[f] = a) \/ a = "s3"

\* The adapter's deletion of a file: there is nothing to delete but in the file's own storage.
Delete(a, f) ==
  /\ file' = {g \in file : g # f \/ home[g] # a}
  /\ missed' = missed \cup {g \in file : g = f /\ home[g] # a}

\* Mutant of PurgeFile: the rows go although the storage refused.
PurgeFileAnyway(t, d) ==
  LET f == purge[t].saw[d].path IN
  /\ At(t, "files") /\ d \in ToDo(t)
  /\ \/ /\ f = 0 \/ Confirms(Adapter(t), f)
        /\ Delete(Adapter(t), f)
        /\ UNCHANGED mishaps
     \/ /\ f # 0
        /\ mishaps < MaxMishaps
        /\ mishaps' = mishaps + 1
        /\ UNCHANGED <<file, missed>>
  /\ purge' = [purge EXCEPT ![t].step = "rows", ![t].now = {d},
                              ![t].storage = IF f = 0 THEN @ ELSE Adapter(t)]
  /\ UNCHANGED <<mode, rowVars, home, used, flying, deleting, left, cleaned, stale>>

\* apagarDocumento: without the storage's yes the rows stay, and the target failed.
PurgeFile(t, d) ==
  LET f == purge[t].saw[d].path IN
  /\ At(t, "files") /\ d \in ToDo(t)
  /\ \/ /\ f = 0
        /\ purge' = [purge EXCEPT ![t].step = "rows", ![t].now = {d}]
        /\ UNCHANGED <<file, missed, mishaps>>
     \/ /\ f # 0 /\ Confirms(Adapter(t), f)
        /\ Delete(Adapter(t), f)
        /\ purge' = [purge EXCEPT ![t].step = "rows", ![t].now = {d},
                                    ![t].storage = Adapter(t)]
        /\ UNCHANGED mishaps
     \/ /\ f # 0
        /\ \/ ~Confirms(Adapter(t), f) /\ UNCHANGED mishaps
           \/ mishaps < MaxMishaps /\ mishaps' = mishaps + 1
        /\ purge' = [purge EXCEPT ![t].saw[d] = Gone, ![t].failed = @ \cup {d},
                                    ![t].storage = Adapter(t)]
        /\ UNCHANGED <<file, missed>>
  /\ UNCHANGED <<mode, rowVars, home, used, flying, deleting, left, cleaned, stale>>

\* Mutant of PurgeRows: the declaration stays.
PurgeRowsDocument(t) ==
  /\ At(t, "rows")
  /\ document' = [d \in Doc |-> IF d \in purge[t].now THEN 0 ELSE document[d]]
  /\ purge' = [purge EXCEPT ![t].step = "files", ![t].now = {},
                              ![t].saw = [d \in Doc |-> IF d \in purge[t].now THEN Gone ELSE @[d]]]
  /\ UNCHANGED <<mode, demand, decl, project, fileVars, cleaned, stale, mishaps>>

\* The Document that was read, and the declaration, in one transaction.
PurgeRows(t) ==
  /\ At(t, "rows")
  /\ \E d \in purge[t].now :
       /\ document' = IF purge[t].saw[d].hung THEN [document EXCEPT ![d] = 0] ELSE document
       /\ decl' = [decl EXCEPT ![d] = Gone]
       /\ stale' = (stale \/ (There(d) /\ decl[d] # purge[t].saw[d]))
  /\ purge' = [purge EXCEPT ![t].step = "files", ![t].now = {},
                              ![t].saw = [d \in Doc |-> IF d \in purge[t].now THEN Gone ELSE @[d]]]
  /\ UNCHANGED <<mode, demand, project, fileVars, cleaned, mishaps>>

\* Every file was dealt with: a company's demand comes next.
PurgeNext(t) ==
  /\ At(t, "files") /\ ToDo(t) = {}
  /\ purge' = [purge EXCEPT ![t].step = IF t = "company" THEN "demand" ELSE "record"]
  /\ UNCHANGED <<mode, rowVars, fileVars, cleaned, stale, mishaps>>

\* Mutant of KeepsDemand: the demand goes although a file stayed.
KeepsNoDemand == FALSE

\* travou: a file that stayed keeps the demand, whose cascade would take the way to it.
KeepsDemand == purge["company"].failed # {}

PurgeDemand ==
  /\ At("company", "demand")
  /\ IF KeepsDemand
     THEN UNCHANGED <<demand, decl, stale>>
     ELSE /\ demand' = FALSE
          /\ decl' = [d \in Doc |-> IF There(d) THEN Gone ELSE decl[d]]
          /\ stale' = (stale \/ \E d \in Doc \ purge["company"].failed : There(d))
  /\ purge' = [purge EXCEPT !["company"].step = "project"]
  /\ UNCHANGED <<mode, document, project, fileVars, cleaned, mishaps>>

PurgeProject ==
  /\ At("company", "project")
  /\ project' = IF project = "named" THEN "unlinked" ELSE project
  /\ purge' = [purge EXCEPT !["company"].step = "record"]
  /\ UNCHANGED <<mode, demand, decl, document, fileVars, cleaned, stale, mishaps>>

PurgeRecord(t) ==
  /\ At(t, "record")
  /\ cleaned' = (cleaned \/ (t = "company" /\ purge[t].failed = {}))
  /\ purge' = [purge EXCEPT ![t] = Idle]
  /\ UNCHANGED <<mode, rowVars, fileVars, stale, mishaps>>

\* The process dies, with what was in flight.
Crash ==
  /\ mishaps < MaxMishaps
  /\ mishaps' = mishaps + 1
  /\ purge' = [t \in Target |-> Idle]
  /\ left' = left \cup {upload[2] : upload \in flying}
  /\ flying' = {} /\ deleting' = {}
  /\ UNCHANGED <<mode, rowVars, file, home, used, missed, cleaned, stale>>

\* PUT /settings: the storage mode of what is stored from now on.
ChangeMode ==
  /\ mishaps < MaxMishaps
  /\ mishaps' = mishaps + 1
  /\ mode' \in Providers \ {mode}
  /\ UNCHANGED <<rowVars, fileVars, purge, cleaned, stale>>

-----------------------------------------------------------------------------

PurgeStep(t) ==
  \/ \E d \in Doc : PurgeFile(t, d)
  \/ PurgeRows(t) \/ PurgeNext(t) \/ PurgeRecord(t)
  \/ t = "company" /\ (PurgeDemand \/ PurgeProject)

CompanyAsked == PurgeRead("company", {d \in Doc : There(d)})

Next ==
  \/ \E d \in Doc :
       \/ UploadStore(d) \/ DocumentFile(d) \/ DocumentRow(d)
       \/ \E f \in File : UploadRecord(d, f)
       \/ d \in Named /\ PurgeRead("document", {d})
  \/ Hang
  \/ CompanyAsked
  \/ \E t \in Target : PurgeStep(t)
  \/ Crash \/ ChangeMode

Spec == Init /\ [][Next]_vars

\* A purge goes on once it was asked for, and the CRM asks until nothing is left.
FairSpec == Spec /\ WF_vars(PurgeStep("company")) /\ WF_vars(CompanyAsked /\ demand)

-----------------------------------------------------------------------------

\* Whatever crashed or failed, unless somebody wrote or deleted a row that had changed since
\* its read, a file that is stored can be found by a row, or is on its way to one, or was
\* left by an upload that died, or is one that another storage than its own, the one of the
\* settings, said was gone: the purge deletes files before the rows that know them
\* (crmPurge.ts, decision 1).
FileBeforeRow ==
  ~stale =>
    \A f \in file \ (left \cup missed) :
      \E d \in Doc :
        \/ There(d) /\ decl[d].path = f
        \/ document[d] = f
        \/ <<d, f>> \in flying

\* With the same exceptions, a purge of the company that was answered without an error left
\* nothing of it: rows, Documents, files, or its name on the project (crmPurge.ts).
PurgedForGood ==
  cleaned /\ ~stale =>
    /\ ~demand /\ project # "named"
    /\ \A d \in Doc : ~There(d) /\ document[d] = 0
    /\ file \subseteq left \cup missed \cup {upload[2] : upload \in flying}

\* With a storage that does not mind a missing file, a purge that is asked for again and
\* again finishes, whatever crashed, failed, was deleted by hand or stored elsewhere
\* (POST /purge).
RepeatedPurgeFinishes == <>[](mode = "s3") => <>~demand

=============================================================================
