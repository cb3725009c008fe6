----------------------------- MODULE Purge_proofs -----------------------------
(***************************************************************************)
(* Theorems about Purge, for any documents, uploads, crashes and refusals  *)
(* of the storage, and any changes of the storage mode.                    *)
(*                                                                         *)
(* The purge deletes a file and then the rows that know it.  Between the   *)
(* two it holds a path that nobody stores again (RowsAfterFile); the rows  *)
(* of one document agree about its path (Linked); and the project and the  *)
(* demand of a company that was dealt with do not come back (CompanyGoes). *)
(***************************************************************************)
EXTENDS Purge, TLAPS

\* Only what was stored has a path, and a path is stored once.
KnownFiles ==
  /\ \A d \in Doc : decl[d].path <= used
  /\ \A t \in Target, d \in Doc : purge[t].saw[d].path <= used
  /\ \A d \in Doc, f \in File : <<d, f>> \in flying => f <= used

\* A declaration that is gone says nothing.
GoneIsGone == \A d \in Doc : ~There(d) => decl[d].path = 0 /\ ~decl[d].hung

\* The rows come after their file, or after one that the storage of the settings never had.
RowsAfterFile ==
  \A t \in Target : At(t, "rows") =>
    \E d \in Doc : purge[t].now = {d} /\ purge[t].saw[d].path \notin file \ missed

\* The Document of the project and the declaration it was hung from know the same file.
Linked ==
  \A d \in Doc : document[d] # 0 \/ decl[d].hung =>
    There(d) /\ decl[d].hung /\ document[d] # 0 /\ decl[d].path = document[d]

\* What a company's purge has dealt with.
CompanyGoes ==
  LET company == purge["company"] IN
  /\ company.step \in {"project", "record"} /\ company.failed = {} => ~demand
  /\ company.step = "record" /\ company.failed = {} => project # "named"
  /\ cleaned => ~demand /\ project # "named"

IInv ==
  /\ TypeOK /\ KnownFiles /\ GoneIsGone /\ RowsAfterFile /\ CompanyGoes
  /\ ~stale => Linked /\ FileBeforeRow

USE PurgeBounds DEF PurgeBounds

-----------------------------------------------------------------------------
(* The initial state, and the shape of what is read and written *)

\* What rests is of its type, and no file is 0.
LEMMA Shapes ==
  /\ Idle \in Purging /\ Idle.step = "idle"
  /\ Gone \in Declaration /\ Declared \in Declaration
  /\ 0 \notin File
BY DEF Idle, Purging, Gone, Declared, Declaration, Path, File

\* Nothing is stored and nothing was purged yet.
LEMMA InitIInv == Init => IInv
<1> SUFFICES ASSUME Init PROVE IInv
  OBVIOUS
<1>1. TypeOK
  <2>1. decl \in [Doc -> Declaration] /\ document \in [Doc -> Path] /\ purge \in [Target -> Purging]
    BY Shapes DEF Init, Path
  <2>2. \A d \in Doc : There(d) => demand /\ (decl[d].hung => document[d] # 0)
    BY DEF Init, There, Declared
  <2>3. /\ mode \in Providers /\ home \in [File -> Providers] /\ missed = {} /\ demand = TRUE
        /\ project = "none" /\ cleaned = FALSE
        /\ stale = FALSE /\ file = {} /\ used = 0 /\ flying = {} /\ deleting = {} /\ left = {}
        /\ mishaps = 0
    BY DEF Init
  <2>4. /\ demand \in BOOLEAN /\ cleaned \in BOOLEAN /\ stale \in BOOLEAN
        /\ project \in {"none", "named", "unlinked"}
    BY <2>3, Zenon
  <2>5. /\ file \subseteq 1..used /\ used \in Path /\ mishaps \in 0..MaxMishaps
        /\ flying \subseteq Doc \X File /\ deleting \subseteq Doc /\ left \subseteq File
        /\ missed \subseteq File
    BY <2>3 DEF Path
  <2> QED
    BY <2>1, <2>2, <2>3, <2>4, <2>5, Zenon DEF TypeOK
<1>2. KnownFiles /\ GoneIsGone /\ RowsAfterFile
  BY DEF Init, KnownFiles, GoneIsGone, RowsAfterFile, Idle, Gone, Declared, There, At, Target
<1>3. CompanyGoes /\ Linked /\ FileBeforeRow
  BY DEF Init, CompanyGoes, Linked, FileBeforeRow, Idle, Declared, Target
<1> QED
  BY <1>1, <1>2, <1>3 DEF IInv

\* A purge of a company that was answered without an error left nothing of it.
LEMMA NothingLeft == IInv => PurgedForGood
<1> SUFFICES ASSUME IInv, cleaned, ~stale
             PROVE  /\ ~demand /\ project # "named"
                    /\ \A d \in Doc : ~There(d) /\ document[d] = 0
                    /\ file \subseteq left \cup missed \cup {upload[2] : upload \in flying}
  BY DEF PurgedForGood
<1>1. ~demand /\ project # "named"
  BY DEF IInv, CompanyGoes
<1>2. \A d \in Doc : ~There(d) /\ document[d] = 0
  BY <1>1 DEF IInv, TypeOK, Linked
<1>3. ASSUME NEW f \in file, f \notin left \cup missed
      PROVE  f \in {upload[2] : upload \in flying}
  <2>1. f # 0
    BY DEF IInv, TypeOK, Path
  <2>2. PICK d \in Doc : <<d, f>> \in flying
    BY <1>2, <1>3, <2>1 DEF IInv, FileBeforeRow
  <2>3. <<d, f>>[2] = f
    OBVIOUS
  <2> QED
    BY <2>2, <2>3
<1> QED
  BY <1>1, <1>2, <1>3

-----------------------------------------------------------------------------
(* Uploads and Documents: the purges are left as they are *)

\* A new file is one that no purge has read and no row has recorded.
LEMMA UploadStoreInv ==
  ASSUME IInv, NEW d \in Doc, UploadStore(d) PROVE IInv'
<1>1. /\ used \in Nat /\ used' = used + 1 /\ used + 1 \in File /\ used' \in Path
      /\ file' = file \cup {used + 1} /\ flying' = flying \cup {<<d, used + 1>>}
      /\ home' \in [File -> Providers] /\ missed' = missed
  BY DEF IInv, TypeOK, UploadStore, Path, File
<1>2. TypeOK'
  BY <1>1 DEF IInv, TypeOK, UploadStore, rowVars, There
<1>3. KnownFiles'
  BY <1>1 DEF IInv, TypeOK, KnownFiles, UploadStore, rowVars, Purging, Declaration, Path, File
<1>4. GoneIsGone' /\ CompanyGoes'
  BY DEF IInv, GoneIsGone, CompanyGoes, UploadStore, rowVars, There
<1>5. RowsAfterFile'
  <2>1. \A t \in Target, e \in Doc : purge[t].saw[e].path # used + 1
    BY <1>1 DEF IInv, KnownFiles, TypeOK, Purging, Declaration, Path
  <2> QED
    BY <1>1, <2>1 DEF IInv, RowsAfterFile, UploadStore, At
<1>6. ~stale' => Linked' /\ FileBeforeRow'
  BY <1>1 DEF IInv, Linked, FileBeforeRow, UploadStore, rowVars, There
<1> QED
  BY <1>2, <1>3, <1>4, <1>5, <1>6 DEF IInv

\* The path is recorded; over another one only by the way.
LEMMA UploadRecordInv ==
  ASSUME IInv, NEW d \in Doc, NEW f \in File, UploadRecord(d, f) PROVE IInv'
<1>1. /\ flying' = flying \ {<<d, f>>} /\ <<d, f>> \in flying /\ f <= used /\ f \in Path /\ f # 0
      /\ UNCHANGED <<mode, demand, document, project, file, home, used, deleting, left, missed,
                     purge, cleaned, mishaps>>
  BY DEF IInv, KnownFiles, UploadRecord, File, Path
<1>2. CASE There(d)
  <2>1. decl' = [decl EXCEPT ![d].path = f] /\ stale' = (stale \/ decl[d].path # 0)
    BY <1>2 DEF UploadRecord
  <2>2. /\ decl' \in [Doc -> Declaration]
        /\ \A e \in Doc : /\ decl'[e].there = decl[e].there /\ decl'[e].hung = decl[e].hung
                          /\ e # d => decl'[e] = decl[e]
        /\ decl'[d].path = f
    BY <1>1, <2>1 DEF IInv, TypeOK, Declaration
  <2>3. TypeOK'
    <3>1. stale' \in BOOLEAN
      BY <2>1, Zenon
    <3> QED
      BY <1>1, <2>2, <3>1 DEF IInv, TypeOK, There
  <2>4. KnownFiles'
    BY <1>1, <2>2 DEF IInv, KnownFiles
  <2>5. GoneIsGone' /\ RowsAfterFile' /\ CompanyGoes'
    BY <1>1, <1>2, <2>2 DEF IInv, GoneIsGone, RowsAfterFile, CompanyGoes, There, At
  <2>6. ASSUME ~stale' PROVE Linked' /\ FileBeforeRow'
    <3>1. ~stale /\ decl[d].path = 0
      BY <2>1, <2>6
    <3>2. document[d] = 0 /\ ~decl[d].hung
      BY <3>1 DEF IInv, Linked
    <3>3. Linked'
      BY <1>1, <2>2, <3>1, <3>2 DEF IInv, Linked, There
    <3>4. FileBeforeRow'
      <4> SUFFICES ASSUME NEW g \in file \ (left \cup missed)
                   PROVE  \E e \in Doc : \/ There(e)' /\ decl'[e].path = g
                                         \/ document[e] = g
                                         \/ <<e, g>> \in flying'
        BY <1>1 DEF FileBeforeRow
      <4>1. g # 0
        BY DEF IInv, TypeOK, Path
      <4>2. PICK e \in Doc : \/ There(e) /\ decl[e].path = g
                             \/ document[e] = g
                             \/ <<e, g>> \in flying
        BY <3>1 DEF IInv, FileBeforeRow
      <4>3. CASE <<e, g>> = <<d, f>>
        BY <1>2, <2>2, <4>3 DEF There
      <4>4. CASE <<e, g>> # <<d, f>>
        BY <1>1, <2>2, <3>1, <4>1, <4>2, <4>4 DEF There
      <4> QED
        BY <4>3, <4>4
    <3> QED
      BY <3>3, <3>4
  <2> QED
    BY <2>3, <2>4, <2>5, <2>6 DEF IInv
<1>3. CASE ~There(d)
  <2>1. UNCHANGED decl /\ stale'
    BY <1>3 DEF UploadRecord
  <2>2. TypeOK'
    <3>1. stale' \in BOOLEAN
      BY <1>3, Zenon DEF UploadRecord
    <3> QED
      BY <1>1, <2>1, <3>1 DEF IInv, TypeOK, There
  <2> QED
    BY <1>1, <2>1, <2>2 DEF IInv, KnownFiles, GoneIsGone, RowsAfterFile, CompanyGoes, There, At
<1> QED
  BY <1>2, <1>3

\* What is hung has a path, and its Document is new.
LEMMA HangInv == ASSUME IInv, Hang PROVE IInv'
<1> DEFINE docs == {d \in Doc : There(d) /\ decl[d].path # 0 /\ ~decl[d].hung}
<1>1. /\ demand
      /\ project' \in {"none", "named", "unlinked"}
      /\ document' = [d \in Doc |-> IF d \in docs THEN decl[d].path ELSE document[d]]
      /\ decl' = [d \in Doc |-> IF d \in docs THEN [decl[d] EXCEPT !.hung = TRUE] ELSE decl[d]]
      /\ UNCHANGED <<mode, demand, fileVars, purge, cleaned, stale, mishaps>>
  BY DEF Hang, IInv, TypeOK
<1>2. /\ decl' \in [Doc -> Declaration]
      /\ \A d \in Doc : /\ decl'[d].there = decl[d].there /\ decl'[d].path = decl[d].path
                        /\ d \in docs => decl'[d].hung /\ document'[d] = decl[d].path
                        /\ d \notin docs => decl'[d] = decl[d] /\ document'[d] = document[d]
  <2>1. \A d \in Doc : decl[d] \in Declaration
    BY DEF IInv, TypeOK
  <2> QED
    BY <1>1, <2>1 DEF Declaration
<1>3. document' \in [Doc -> Path]
  BY <1>1 DEF IInv, TypeOK, Declaration
<1>4. \A d \in docs : d \in Doc /\ There(d) /\ decl[d].path # 0 /\ ~decl[d].hung
  OBVIOUS
<1> HIDE DEF docs
<1>5. TypeOK'
  BY <1>1, <1>2, <1>3, <1>4 DEF IInv, TypeOK, There, fileVars
<1>6. KnownFiles' /\ GoneIsGone' /\ RowsAfterFile' /\ CompanyGoes'
  BY <1>1, <1>2, <1>4
  DEF IInv, KnownFiles, GoneIsGone, RowsAfterFile, CompanyGoes, There, At, fileVars
<1>7. ASSUME ~stale PROVE Linked' /\ FileBeforeRow'
  <2>1. Linked'
    BY <1>2, <1>4, <1>7 DEF IInv, Linked, There
  <2>2. FileBeforeRow'
    <3>1. \A d \in docs : document[d] = 0
      BY <1>4, <1>7 DEF IInv, Linked, There
    <3>2. \A g \in file : g # 0
      BY DEF IInv, TypeOK, Path
    <3> QED
      BY <1>1, <1>2, <1>7, <3>1, <3>2 DEF IInv, FileBeforeRow, There, fileVars
  <2> QED
    BY <2>1, <2>2
<1> QED
  BY <1>1, <1>5, <1>6, <1>7 DEF IInv

\* A Document's file is deleted by hand, whatever the storage says.
LEMMA DocumentFileInv == ASSUME IInv, NEW d \in Doc, DocumentFile(d) PROVE IInv'
<1>1. /\ file' = file \ {document[d]} /\ deleting' \subseteq Doc
      /\ UNCHANGED <<mode, rowVars, home, used, flying, left, missed, purge, cleaned, stale,
                     mishaps>>
  BY DEF DocumentFile, IInv, TypeOK
<1>2. TypeOK'
  BY <1>1 DEF IInv, TypeOK, rowVars, There
<1>3. KnownFiles' /\ GoneIsGone' /\ RowsAfterFile' /\ CompanyGoes'
  BY <1>1 DEF IInv, KnownFiles, GoneIsGone, RowsAfterFile, CompanyGoes, There, At, rowVars
<1>4. ~stale' => Linked' /\ FileBeforeRow'
  BY <1>1 DEF IInv, Linked, FileBeforeRow, There, rowVars
<1> QED
  BY <1>2, <1>3, <1>4 DEF IInv

\* Its row goes, and the declaration keeps the path.
LEMMA DocumentRowInv == ASSUME IInv, NEW d \in Doc, DocumentRow(d) PROVE IInv'
<1>1. /\ deleting' = deleting \ {d}
      /\ document' = [document EXCEPT ![d] = 0]
      /\ decl' = [decl EXCEPT ![d].hung = FALSE]
      /\ UNCHANGED <<mode, demand, project, file, home, used, flying, left, missed, purge, cleaned,
                     stale, mishaps>>
  BY DEF DocumentRow
<1>2. /\ decl' \in [Doc -> Declaration]
      /\ \A e \in Doc : /\ decl'[e].there = decl[e].there /\ decl'[e].path = decl[e].path
                        /\ e # d => decl'[e] = decl[e]
      /\ ~decl'[d].hung
  <2>1. decl[d] \in Declaration /\ decl \in [Doc -> Declaration]
    BY DEF IInv, TypeOK
  <2> DEFINE new == [decl[d] EXCEPT !.hung = FALSE]
  <2>2. /\ new \in Declaration /\ new.there = decl[d].there /\ new.path = decl[d].path
        /\ new.hung = FALSE
    BY <2>1 DEF Declaration
  <2>3. decl' = [decl EXCEPT ![d] = new]
    BY <1>1, <2>1
  <2> HIDE DEF new
  <2> QED
    BY <2>1, <2>2, <2>3
<1>3. /\ document' \in [Doc -> Path] /\ document'[d] = 0
      /\ \A e \in Doc : e # d => document'[e] = document[e]
  BY <1>1 DEF IInv, TypeOK, Path
<1>4. TypeOK'
  BY <1>1, <1>2, <1>3 DEF IInv, TypeOK, There
<1>5. KnownFiles' /\ GoneIsGone' /\ RowsAfterFile' /\ CompanyGoes'
  BY <1>1, <1>2 DEF IInv, KnownFiles, GoneIsGone, RowsAfterFile, CompanyGoes, There, At
<1>6. ASSUME ~stale' PROVE Linked' /\ FileBeforeRow'
  <2>1. Linked'
    BY <1>1, <1>2, <1>3, <1>6 DEF IInv, Linked, There
  <2>2. document[d] # 0 => There(d) /\ decl[d].path = document[d]
    BY <1>1, <1>6 DEF IInv, Linked
  <2>3. \A f \in file : f # 0
    BY DEF IInv, TypeOK, Path
  <2>4. FileBeforeRow'
    <3> SUFFICES ASSUME NEW f \in file \ (left \cup missed)
                 PROVE  \E e \in Doc : \/ decl'[e].there /\ decl'[e].path = f
                                      \/ document'[e] = f
                                      \/ <<e, f>> \in flying
      BY <1>1 DEF FileBeforeRow, There
    <3>1. PICK e \in Doc : \/ There(e) /\ decl[e].path = f
                           \/ document[e] = f
                           \/ <<e, f>> \in flying
      BY <1>1, <1>6 DEF IInv, FileBeforeRow
    <3>2. decl'[e].there = decl[e].there /\ decl'[e].path = decl[e].path
      BY <1>2
    <3>3. CASE e = d
      BY <2>2, <2>3, <3>1, <3>2, <3>3 DEF There
    <3>4. CASE e # d
      BY <1>3, <3>1, <3>2, <3>4 DEF There
    <3> QED
      BY <3>3, <3>4
  <2> QED
    BY <2>1, <2>4
<1> QED
  BY <1>1, <1>4, <1>5, <1>6 DEF IInv

-----------------------------------------------------------------------------
(* The purge *)

\* When only the purge's own record changes, what is left to show is about that record.
LEMMA PurgingInv ==
  ASSUME IInv, NEW t \in Target, NEW new \in Purging, purge' = [purge EXCEPT ![t] = new],
         UNCHANGED <<mode, rowVars, fileVars, cleaned, stale, mishaps>>,
         \A d \in Doc : new.saw[d].path <= used,
         new.step # "rows",
         t = "company" /\ new.failed = {} =>
           /\ new.step \in {"project", "record"} => ~demand
           /\ new.step = "record" => project # "named"
  PROVE  IInv'
<1>1. /\ purge' \in [Target -> Purging] /\ purge'[t] = new
      /\ \A u \in Target : u # t => purge'[u] = purge[u]
  BY DEF IInv, TypeOK
<1>2. TypeOK'
  BY <1>1 DEF IInv, TypeOK, rowVars, fileVars, There
<1>3. KnownFiles' /\ GoneIsGone' /\ RowsAfterFile'
  BY <1>1 DEF IInv, KnownFiles, GoneIsGone, RowsAfterFile, rowVars, fileVars, There, At
<1>4. CompanyGoes'
  BY <1>1 DEF IInv, CompanyGoes, rowVars, fileVars, Target
<1>5. ~stale' => Linked' /\ FileBeforeRow'
  BY DEF IInv, Linked, FileBeforeRow, rowVars, fileVars, There
<1> QED
  BY <1>2, <1>3, <1>4, <1>5 DEF IInv

\* What a purge reads of the declarations is what there is.
LEMMA PurgeReadInv ==
  ASSUME IInv, NEW t \in Target, NEW docs \in SUBSET Doc, PurgeRead(t, docs) PROVE IInv'
<1> DEFINE saw == [d \in Doc |-> IF d \in docs THEN decl[d] ELSE Gone]
           new == [Idle EXCEPT !.step = "files", !.saw = saw]
<1>1. /\ purge' = [purge EXCEPT ![t] = new]
      /\ UNCHANGED <<mode, rowVars, fileVars, cleaned, stale, mishaps>>
  BY DEF PurgeRead
<1>2. saw \in [Doc -> Declaration]
  BY Shapes DEF IInv, TypeOK
<1>3. \A d \in Doc : saw[d].path <= used
  BY DEF IInv, TypeOK, KnownFiles, Gone, Path
<1> HIDE DEF saw
<1>4. new \in Purging /\ new.step = "files" /\ new.saw = saw
  BY <1>2 DEF Idle, Purging
<1> HIDE DEF new
<1> QED
  BY <1>1, <1>3, <1>4, PurgingInv

\* The file goes before its rows; when it stays, the rows stay, and so does the demand.
LEMMA PurgeFileInv == ASSUME IInv, NEW t \in Target, NEW d \in Doc, PurgeFile(t, d) PROVE IInv'
<1> DEFINE f == purge[t].saw[d].path
           old == purge[t]
           Rows(new) == /\ new.step = "rows" /\ new.saw = old.saw /\ new.now = {d}
                        /\ new.failed = old.failed
           Kept(new) == new.step = "files" /\ \A e \in Doc : new.saw[e].path <= used
<1>1. /\ old \in Purging /\ old.step = "files" /\ f \in Path
      /\ UNCHANGED <<mode, rowVars, home, used, flying, deleting, left, cleaned, stale>>
      /\ mishaps' \in 0..MaxMishaps
  BY DEF PurgeFile, IInv, TypeOK, Purging, Declaration, At
<1>2. Adapter(t) \in Providers \cup {"none"}
  BY <1>1 DEF Adapter, IInv, TypeOK, Purging
<1>3. /\ file' \subseteq file /\ missed \subseteq missed' /\ missed' \subseteq File
      /\ \A g \in file : g \notin file' => g = f
  BY <1>1 DEF PurgeFile, Delete, IInv, TypeOK, Path, File
<1>4. \E new \in Purging :
        /\ purge' = [purge EXCEPT ![t] = new]
        /\ \/ Rows(new) /\ f \notin file' \ missed'
           \/ Kept(new) /\ file' = file /\ missed' = missed
  <2>1. CASE f = 0 /\ purge' = [purge EXCEPT ![t].step = "rows", ![t].now = {d}]
             /\ UNCHANGED <<file, missed, mishaps>>
    <3> DEFINE new == [old EXCEPT !.step = "rows", !.now = {d}]
    <3>1. new \in Purging /\ Rows(new)
      BY <1>1 DEF Purging
    <3>2. purge' = [purge EXCEPT ![t] = new]
      BY <1>1, <2>1 DEF IInv, TypeOK
    <3>3. f \notin file'
      BY <2>1 DEF IInv, TypeOK, Path
    <3> QED
      BY <3>1, <3>2, <3>3
  <2>2. CASE Delete(Adapter(t), f)
             /\ purge' = [purge EXCEPT ![t].step = "rows", ![t].now = {d},
                                        ![t].storage = Adapter(t)]
    <3> DEFINE new == [old EXCEPT !.step = "rows", !.now = {d}, !.storage = Adapter(t)]
    <3>1. new \in Purging /\ Rows(new)
      BY <1>1, <1>2 DEF Purging
    <3>2. purge' = [purge EXCEPT ![t] = new]
      BY <1>1, <2>2 DEF IInv, TypeOK
    <3>3. f \notin file' \ missed'
      BY <2>2 DEF Delete
    <3> QED
      BY <3>1, <3>2, <3>3
  <2>3. CASE purge' = [purge EXCEPT ![t].saw[d] = Gone, ![t].failed = @ \cup {d},
                                    ![t].storage = Adapter(t)]
             /\ UNCHANGED <<file, missed>>
    <3> DEFINE saw == [old.saw EXCEPT ![d] = Gone]
               new == [old EXCEPT !.saw = saw, !.failed = @ \cup {d}, !.storage = Adapter(t)]
    <3>1. saw \in [Doc -> Declaration] /\ \A e \in Doc : saw[e].path <= used
      BY <1>1, Shapes DEF Purging, IInv, KnownFiles, TypeOK, Gone, Path
    <3> HIDE DEF saw
    <3>2. new \in Purging /\ Kept(new)
      BY <1>1, <1>2, <3>1 DEF Purging
    <3>3. purge' = [purge EXCEPT ![t] = new]
      BY <1>1, <2>3 DEF IInv, TypeOK, saw
    <3> QED
      BY <2>3, <3>2, <3>3
  <2> QED
    BY <2>1, <2>2, <2>3 DEF PurgeFile
<1>5. PICK new \in Purging :
        /\ purge' = [purge EXCEPT ![t] = new]
        /\ \/ Rows(new) /\ f \notin file' \ missed'
           \/ Kept(new) /\ file' = file /\ missed' = missed
  BY <1>4
<1>6. /\ purge' \in [Target -> Purging] /\ purge'[t] = new
      /\ \A u \in Target : u # t => purge'[u] = purge[u]
  BY <1>5 DEF IInv, TypeOK
<1>7. TypeOK'
  BY <1>1, <1>3, <1>6 DEF IInv, TypeOK, rowVars, There
<1>8. KnownFiles' /\ GoneIsGone'
  BY <1>1, <1>5, <1>6 DEF IInv, KnownFiles, GoneIsGone, rowVars, There
<1>9. RowsAfterFile'
  BY <1>3, <1>5, <1>6 DEF IInv, RowsAfterFile, At
<1>10. CompanyGoes'
  BY <1>1, <1>5, <1>6 DEF IInv, CompanyGoes, rowVars, Target
<1>11. ~stale' => Linked' /\ FileBeforeRow'
  BY <1>1, <1>3 DEF IInv, Linked, FileBeforeRow, rowVars, There
<1> QED
  BY <1>7, <1>8, <1>9, <1>10, <1>11 DEF IInv

\* What nobody changed since the read names a file that is gone.
LEMMA PurgeRowsInv == ASSUME IInv, NEW t \in Target, PurgeRows(t) PROVE IInv'
<1>1. PICK d \in Doc : purge[t].now = {d} /\ purge[t].saw[d].path \notin file \ missed
  BY DEF PurgeRows, IInv, RowsAfterFile
<1> DEFINE read == purge[t].saw[d]
           saw == [e \in Doc |-> IF e = d THEN Gone ELSE purge[t].saw[e]]
           new == [purge[t] EXCEPT !.step = "files", !.now = {}, !.saw = saw]
<1>2. /\ document' = IF read.hung THEN [document EXCEPT ![d] = 0] ELSE document
      /\ decl' = [decl EXCEPT ![d] = Gone]
      /\ stale' = (stale \/ (There(d) /\ decl[d] # read))
      /\ UNCHANGED <<mode, demand, project, fileVars, cleaned, mishaps>>
  BY <1>1 DEF PurgeRows
<1>3. purge[t] \in Purging
  BY DEF IInv, TypeOK
<1>4. /\ new \in Purging /\ new.step = "files" /\ new.failed = purge[t].failed
      /\ \A e \in Doc : new.saw[e].path <= used
  <2>1. saw \in [Doc -> Declaration]
    BY <1>3, Shapes DEF Purging
  <2>2. \A e \in Doc : saw[e].path <= used
    BY DEF IInv, KnownFiles, TypeOK, Gone, Path
  <2> HIDE DEF saw
  <2> QED
    BY <1>3, <2>1, <2>2 DEF Purging
<1>5. purge' = [purge EXCEPT ![t] = new]
  BY <1>1, <1>3 DEF PurgeRows, IInv, TypeOK
<1> HIDE DEF new
<1>6. /\ purge' \in [Target -> Purging] /\ purge'[t] = new
      /\ \A u \in Target : u # t => purge'[u] = purge[u]
  BY <1>4, <1>5 DEF IInv, TypeOK
<1>7. /\ decl' \in [Doc -> Declaration] /\ decl'[d] = Gone
      /\ \A e \in Doc : e # d => decl'[e] = decl[e]
  BY <1>2, Shapes DEF IInv, TypeOK
<1>8. /\ document' \in [Doc -> Path]
      /\ \A e \in Doc : e # d => document'[e] = document[e]
      /\ document'[d] = document[d] \/ document'[d] = 0
      /\ read.hung => document'[d] = 0
  BY <1>2 DEF IInv, TypeOK, Path
<1>9. ~Gone.there /\ ~Gone.hung /\ Gone.path = 0
  BY DEF Gone
<1>10. TypeOK'
  <2>1. stale' \in BOOLEAN
    BY <1>2, Zenon
  <2> QED
    BY <1>2, <1>6, <1>7, <1>8, <1>9, <2>1 DEF IInv, TypeOK, fileVars, There
<1>11. KnownFiles' /\ GoneIsGone' /\ RowsAfterFile'
  <2>1. 0 <= used
    BY DEF IInv, TypeOK, Path
  <2> QED
    BY <1>2, <1>4, <1>6, <1>7, <1>9, <2>1
    DEF IInv, KnownFiles, GoneIsGone, RowsAfterFile, fileVars, There, At
<1>12. CompanyGoes'
  BY <1>2, <1>4, <1>6 DEF IInv, CompanyGoes, Target
<1>13. ASSUME ~stale' PROVE Linked' /\ FileBeforeRow'
  <2> HIDE DEF read
  <2>1. ~stale /\ (There(d) => decl[d] = read)
    BY <1>2, <1>13
  <2>2. read.path \notin file \ missed
    BY <1>1 DEF read
  <2>3. document'[d] = 0
    BY <1>8, <2>1 DEF IInv, Linked
  <2>4. Linked'
    BY <1>7, <1>8, <1>9, <2>1, <2>3 DEF IInv, Linked, There
  <2>5. \A f \in file : f # 0
    BY DEF IInv, TypeOK, Path
  <2>6. document[d] \notin file \ missed
    BY <2>1, <2>2, <2>5 DEF IInv, Linked
  <2>7. FileBeforeRow'
    <3> SUFFICES ASSUME NEW f \in file \ (left \cup missed)
                 PROVE  \E e \in Doc : \/ decl'[e].there /\ decl'[e].path = f
                                      \/ document'[e] = f
                                      \/ <<e, f>> \in flying
      BY <1>2 DEF FileBeforeRow, There, fileVars
    <3>1. PICK e \in Doc : \/ There(e) /\ decl[e].path = f
                           \/ document[e] = f
                           \/ <<e, f>> \in flying
      BY <2>1 DEF IInv, FileBeforeRow
    <3>2. CASE e = d
      BY <2>1, <2>2, <2>6, <3>1, <3>2
    <3>3. CASE e # d
      BY <1>7, <1>8, <3>1, <3>3 DEF There
    <3> QED
      BY <3>2, <3>3
  <2> QED
    BY <2>4, <2>7
<1> QED
  BY <1>10, <1>11, <1>12, <1>13 DEF IInv

\* A purge that is through with the documents goes on to the rows around them.
LEMMA PurgeNextInv == ASSUME IInv, NEW t \in Target, PurgeNext(t) PROVE IInv'
<1> DEFINE new == [purge[t] EXCEPT !.step = IF t = "company" THEN "demand" ELSE "record"]
<1>1. purge[t] \in Purging
  BY DEF IInv, TypeOK
<1>2. new \in Purging /\ new.saw = purge[t].saw /\ new.step # "rows"
  BY <1>1 DEF Purging
<1>3. t = "company" => new.step = "demand"
  BY <1>1 DEF Purging
<1>4. purge' = [purge EXCEPT ![t] = new]
  BY <1>1 DEF PurgeNext, IInv, TypeOK
<1>5. \A d \in Doc : new.saw[d].path <= used
  BY <1>2 DEF IInv, KnownFiles
<1> HIDE DEF new
<1> QED
  BY <1>2, <1>3, <1>4, <1>5, PurgingInv DEF PurgeNext

\* A demand that no file keeps goes with its declarations; in order, none was left.
LEMMA PurgeDemandInv == ASSUME IInv, PurgeDemand PROVE IInv'
<1> DEFINE new == [purge["company"] EXCEPT !.step = "project"]
<1>1. "company" \in Target /\ purge["company"] \in Purging
  BY DEF IInv, TypeOK, Target
<1>2. /\ new \in Purging /\ new.saw = purge["company"].saw /\ new.step = "project"
      /\ new.failed = purge["company"].failed
  BY <1>1 DEF Purging
<1>3. /\ purge' = [purge EXCEPT !["company"] = new]
      /\ UNCHANGED <<mode, document, project, fileVars, cleaned, mishaps>>
  BY <1>1 DEF PurgeDemand, IInv, TypeOK
<1>4. \A d \in Doc : new.saw[d].path <= used
  BY <1>1, <1>2 DEF IInv, KnownFiles
<1> HIDE DEF new
<1>5. CASE KeepsDemand
  <2>1. UNCHANGED <<rowVars, stale>>
    BY <1>3, <1>5 DEF PurgeDemand, rowVars
  <2>2. new.failed # {}
    BY <1>2, <1>5 DEF KeepsDemand
  <2> QED
    BY <1>1, <1>2, <1>3, <1>4, <2>1, <2>2, PurgingInv
<1>6. CASE ~KeepsDemand
  <2>1. /\ demand' = FALSE
        /\ decl' = [d \in Doc |-> IF There(d) THEN Gone ELSE decl[d]]
        /\ stale' = (stale \/ \E d \in Doc \ purge["company"].failed : There(d))
    BY <1>6 DEF PurgeDemand
  <2>2. /\ purge' \in [Target -> Purging] /\ purge'["company"] = new
        /\ \A u \in Target : u # "company" => purge'[u] = purge[u]
    BY <1>1, <1>2, <1>3 DEF IInv, TypeOK
  <2>3. ~Gone.there /\ ~Gone.hung /\ Gone.path = 0
    BY DEF Gone
  <2>4. /\ decl' \in [Doc -> Declaration]
        /\ \A d \in Doc : ~decl'[d].there /\ ~decl'[d].hung /\ decl'[d].path = 0
    BY <2>1, <2>3, Shapes DEF IInv, TypeOK, GoneIsGone, There
  <2>5. TypeOK'
    <3>1. stale' \in BOOLEAN
      BY <2>1, Zenon
    <3> QED
      BY <1>3, <2>1, <2>2, <2>3, <2>4, <3>1 DEF IInv, TypeOK, fileVars, There
  <2>6. KnownFiles' /\ GoneIsGone' /\ RowsAfterFile'
    <3>1. 0 <= used
      BY DEF IInv, TypeOK, Path
    <3> QED
      BY <1>2, <1>3, <1>4, <2>2, <2>3, <2>4, <3>1
      DEF IInv, KnownFiles, GoneIsGone, RowsAfterFile, fileVars, There, At
  <2>7. CompanyGoes'
    BY <1>1, <1>2, <1>3, <2>1, <2>2 DEF IInv, CompanyGoes
  <2>8. ASSUME ~stale' PROVE Linked' /\ FileBeforeRow'
    <3>1. ~stale /\ \A d \in Doc : ~There(d)
      BY <1>6, <2>1, <2>8 DEF KeepsDemand
    <3>2. \A d \in Doc : decl'[d] = decl[d]
      BY <2>1, <3>1
    <3> QED
      BY <1>3, <3>1, <3>2 DEF IInv, Linked, FileBeforeRow, fileVars, There
  <2> QED
    BY <2>5, <2>6, <2>7, <2>8 DEF IInv
<1> QED
  BY <1>5, <1>6

\* The purge of a company forgets its name on the project.
LEMMA PurgeProjectInv == ASSUME IInv, PurgeProject PROVE IInv'
<1> DEFINE new == [purge["company"] EXCEPT !.step = "record"]
<1>1. "company" \in Target /\ purge["company"] \in Purging /\ purge["company"].step = "project"
  BY DEF IInv, TypeOK, Target, PurgeProject, At
<1>2. /\ new \in Purging /\ new.saw = purge["company"].saw /\ new.step = "record"
      /\ new.failed = purge["company"].failed
  BY <1>1 DEF Purging
<1>3. /\ purge' = [purge EXCEPT !["company"] = new]
      /\ project' \in {"none", "named", "unlinked"} /\ project' # "named"
      /\ UNCHANGED <<mode, demand, decl, document, fileVars, cleaned, stale, mishaps>>
  BY <1>1 DEF PurgeProject, IInv, TypeOK
<1> HIDE DEF new
<1>4. /\ purge' \in [Target -> Purging] /\ purge'["company"] = new
      /\ \A u \in Target : u # "company" => purge'[u] = purge[u]
  BY <1>1, <1>2, <1>3 DEF IInv, TypeOK
<1>5. TypeOK'
  BY <1>3, <1>4 DEF IInv, TypeOK, fileVars, There
<1>6. KnownFiles' /\ GoneIsGone' /\ RowsAfterFile' /\ CompanyGoes'
  BY <1>1, <1>2, <1>3, <1>4
  DEF IInv, KnownFiles, GoneIsGone, RowsAfterFile, CompanyGoes, fileVars, There, At
<1>7. ~stale' => Linked' /\ FileBeforeRow'
  BY <1>3 DEF IInv, Linked, FileBeforeRow, fileVars, There
<1> QED
  BY <1>5, <1>6, <1>7 DEF IInv

\* What is answered without an error was dealt with.
LEMMA PurgeRecordInv == ASSUME IInv, NEW t \in Target, PurgeRecord(t) PROVE IInv'
<1>1. /\ purge[t].step = "record"
      /\ cleaned' = (cleaned \/ (t = "company" /\ purge[t].failed = {}))
      /\ purge' = [purge EXCEPT ![t] = Idle]
      /\ UNCHANGED <<mode, rowVars, fileVars, stale, mishaps>>
  BY DEF PurgeRecord, At
<1>2. /\ purge' \in [Target -> Purging] /\ purge'[t] = Idle
      /\ \A u \in Target : u # t => purge'[u] = purge[u]
  BY <1>1, Shapes DEF IInv, TypeOK
<1>3. TypeOK'
  <2>1. cleaned' \in BOOLEAN
    BY <1>1, Zenon
  <2> QED
    BY <1>1, <1>2, <2>1 DEF IInv, TypeOK, rowVars, fileVars, There
<1>4. KnownFiles' /\ GoneIsGone' /\ RowsAfterFile'
  <2>1. \A d \in Doc : Idle.saw[d].path <= used
    BY DEF Idle, Gone, IInv, TypeOK, Path
  <2> QED
    BY <1>1, <1>2, <2>1, Shapes
    DEF IInv, KnownFiles, GoneIsGone, RowsAfterFile, rowVars, fileVars, There, At
<1>5. CompanyGoes'
  <2>1. cleaned' => ~demand /\ project # "named"
    BY <1>1 DEF IInv, CompanyGoes
  <2> QED
    BY <1>1, <1>2, <2>1, Shapes DEF IInv, CompanyGoes, rowVars, Target
<1>6. ~stale' => Linked' /\ FileBeforeRow'
  BY <1>1 DEF IInv, Linked, FileBeforeRow, rowVars, fileVars, There
<1> QED
  BY <1>3, <1>4, <1>5, <1>6 DEF IInv

\* What was on its way is left in the storage, and no purge goes on.
LEMMA CrashInv == ASSUME IInv, Crash PROVE IInv'
<1>1. /\ purge' = [t \in Target |-> Idle]
      /\ left' = left \cup {upload[2] : upload \in flying}
      /\ flying' = {} /\ deleting' = {} /\ mishaps' \in 0..MaxMishaps
      /\ UNCHANGED <<mode, rowVars, file, home, used, missed, cleaned, stale>>
  BY DEF Crash, IInv, TypeOK
<1>2. purge' \in [Target -> Purging] /\ \A t \in Target : purge'[t] = Idle
  BY <1>1, Shapes
<1>3. TypeOK'
  <2>1. left' \subseteq File
    BY <1>1 DEF IInv, TypeOK
  <2> QED
    BY <1>1, <1>2, <2>1 DEF IInv, TypeOK, rowVars, There
<1>4. KnownFiles' /\ GoneIsGone' /\ RowsAfterFile' /\ CompanyGoes'
  <2>1. \A d \in Doc : Idle.saw[d].path <= used
    BY DEF Idle, Gone, IInv, TypeOK, Path
  <2> QED
    BY <1>1, <1>2, <2>1, Shapes
    DEF IInv, KnownFiles, GoneIsGone, RowsAfterFile, CompanyGoes, rowVars, There, At, Target
<1>5. ~stale' => Linked' /\ FileBeforeRow'
  <2>1. \A d \in Doc, f \in file : <<d, f>> \in flying => f \in left'
    <3> SUFFICES ASSUME NEW d \in Doc, NEW f \in file, <<d, f>> \in flying PROVE f \in left'
      OBVIOUS
    <3>1. <<d, f>>[2] = f
      OBVIOUS
    <3> QED
      BY <1>1, <3>1
  <2> QED
    BY <1>1, <2>1 DEF IInv, Linked, FileBeforeRow, rowVars, There
<1> QED
  BY <1>3, <1>4, <1>5 DEF IInv

\* What is stored stays where it is.
LEMMA ChangeModeInv == ASSUME IInv, ChangeMode PROVE IInv'
<1>1. /\ mode' \in Providers /\ mishaps' \in 0..MaxMishaps
      /\ UNCHANGED <<rowVars, fileVars, purge, cleaned, stale>>
  BY DEF ChangeMode, IInv, TypeOK
<1> QED
  BY <1>1 DEF rowVars, fileVars, IInv, TypeOK, KnownFiles, GoneIsGone, RowsAfterFile,
              CompanyGoes, Linked, FileBeforeRow, There, At

-----------------------------------------------------------------------------
(* Every step, and what follows *)

\* IInv is inductive.
LEMMA StepIInv == IInv /\ [Next]_vars => IInv'
<1> SUFFICES ASSUME IInv, [Next]_vars PROVE IInv'
  OBVIOUS
<1>1. ASSUME NEW d \in Doc, UploadStore(d) PROVE IInv'
  BY <1>1, UploadStoreInv
<1>2. ASSUME NEW d \in Doc, DocumentFile(d) PROVE IInv'
  BY <1>2, DocumentFileInv
<1>3. ASSUME NEW d \in Doc, DocumentRow(d) PROVE IInv'
  BY <1>3, DocumentRowInv
<1>4. ASSUME NEW d \in Doc, NEW f \in File, UploadRecord(d, f) PROVE IInv'
  BY <1>4, UploadRecordInv
<1>5. ASSUME NEW d \in Doc, PurgeRead("document", {d}) PROVE IInv'
  <2>1. "document" \in Target /\ {d} \in SUBSET Doc
    BY DEF Target
  <2> QED
    BY <1>5, <2>1, PurgeReadInv
<1>6. CASE Hang
  BY <1>6, HangInv
<1>7. CASE CompanyAsked
  <2>1. "company" \in Target /\ {d \in Doc : There(d)} \in SUBSET Doc
    BY DEF Target
  <2> QED
    BY <1>7, <2>1, PurgeReadInv DEF CompanyAsked
<1>8. ASSUME NEW t \in Target, NEW d \in Doc, PurgeFile(t, d) PROVE IInv'
  BY <1>8, PurgeFileInv
<1>9. ASSUME NEW t \in Target, PurgeRows(t) \/ PurgeNext(t) \/ PurgeRecord(t) PROVE IInv'
  BY <1>9, PurgeRowsInv, PurgeNextInv, PurgeRecordInv
<1>10. CASE PurgeDemand \/ PurgeProject
  BY <1>10, PurgeDemandInv, PurgeProjectInv
<1>11. CASE Crash \/ ChangeMode
  BY <1>11, CrashInv, ChangeModeInv
<1>12. CASE UNCHANGED vars
  BY <1>12 DEF vars, rowVars, fileVars, IInv, TypeOK, KnownFiles, GoneIsGone, RowsAfterFile,
               CompanyGoes, Linked, FileBeforeRow, There, At
<1> QED
  BY <1>1, <1>2, <1>3, <1>4, <1>5, <1>6, <1>7, <1>8, <1>9, <1>10, <1>11, <1>12
  DEF Next, PurgeStep

\* IInv holds in every reachable state, for any documents, uploads, crashes, refusals of the
\* storage and changes of its mode (crmPurge.ts, and the uploads and deletions beside it).
THEOREM Invariant == Spec => []IInv
<1> QED
  BY InitIInv, StepIInv, PTL DEF Spec

\* Every variable keeps its type; a declaration has its demand, and one that was hung its
\* Document.
THEOREM TypeCorrect == Spec => []TypeOK
<1>1. IInv => TypeOK
  BY DEF IInv
<1> QED
  BY <1>1, Invariant, PTL

\* The purge deletes a file before the rows that know it (crmPurge.ts, decision 1): one
\* that is still stored can be found by a row, is on its way to one, was left by an upload
\* that died, or was asked of a storage it is not in, whatever crashed, whatever the storage
\* refused and however its mode changed.
THEOREM FilesGoFirst == Spec => []FileBeforeRow
<1>1. IInv => FileBeforeRow
  BY DEF IInv, FileBeforeRow
<1> QED
  BY <1>1, Invariant, PTL

\* With the same exceptions, a company's purge that was answered without an error left none
\* of its rows, Documents or files, nor its name on the project (crmPurge.ts).
THEOREM NothingOfItStays == Spec => []PurgedForGood
<1> QED
  BY NothingLeft, Invariant, PTL

=============================================================================
