---------------------------- MODULE AnalysisWork ----------------------------
(***************************************************************************)
(* The work of the models on the analysis of one project: the analysis of  *)
(* its documents, the reanalysis of one section, and the edits by hand     *)
(* (routes/analysis.ts), each of which ends in saveAnalysisResult.  The    *)
(* first two run on after their request was answered and are followed      *)
(* through a BackgroundTask (backgroundTasks.ts), which the server ends    *)
(* when it boots again.                                                    *)
(*                                                                         *)
(* The result is one row; of a section only who wrote it is kept.  What    *)
(* the documents and the knowledge base say, and the cost, are left out.   *)
(***************************************************************************)
EXTENDS Naturals

CONSTANTS
  Work,       \* analyses, reanalyses and edits, each done once
  Section,    \* the fields of analysis_results
  MaxTrouble  \* bound on statements that fail and servers that die

ASSUME WorkBounds == MaxTrouble \in Nat

\* analysis_results has columns.
ASSUME WorkSections == Section # {} /\ "nobody" \notin Work

VARIABLES
  row,      \* [Section -> who wrote it]; NoRow before the first analysis
  job,      \* [Work -> the status of its AIAnalysisJob]
  task,     \* [Work -> the status of its BackgroundTask]
  work,     \* [Work -> its kind, step, sections, and the row as it was read]
  boot,     \* whether the sweep of the last boot is still to come
  unswept,  \* such a sweep failed
  stranded, \* ghost: works whose request failed after it had queued their task
  trouble

workVars == <<row, job, task, work, boot, unswept, stranded, trouble>>

Row == [Section -> Work \cup {"nobody"}]
NoRow == [s \in Section |-> "nobody"]
NoWork == [kind |-> "none", step |-> "idle", on |-> {}, read |-> NoRow]

Started == {"queue", "publish", "queued", "running", "asked", "answered", "update", "create",
            "saved", "told", "completed", "failing", "failed"}

WorkTypeOK ==
  /\ row \in Row /\ (NoRow # row => \A s \in Section : row[s] # "nobody")
  /\ job \in [Work -> {"none", "running", "completed", "failed"}]
  /\ task \in [Work -> {"none", "queued", "running", "completed", "failed"}]
  /\ work \in [Work -> [kind : {"none", "analysis", "section", "edit"},
                        step : Started \cup {"idle", "ended"},
                        on : SUBSET Section, read : Row]]
  /\ \A w \in Work :
       /\ work[w].kind = "edit" => task[w] = "none"
       /\ job[w] = "completed" => row # NoRow
  /\ boot \in {"up", "sweeping"}
  /\ unswept \in BOOLEAN
  /\ stranded \subseteq Work
  /\ trouble \in 0..MaxTrouble

WorkInit ==
  /\ row = NoRow
  /\ job = [w \in Work |-> "none"]
  /\ task = [w \in Work |-> "none"]
  /\ work = [w \in Work |-> NoWork]
  /\ boot = "up"
  /\ unswept = FALSE
  /\ stranded = {}
  /\ trouble = 0

-----------------------------------------------------------------------------
(* The requests *)

Opens(w, kind, on, step, read) ==
  /\ work[w] = NoWork
  /\ work' = [work EXCEPT ![w] = [kind |-> kind, step |-> step, on |-> on, read |-> read]]
  /\ UNCHANGED <<row, task, boot, unswept, stranded, trouble>>

\* POST analyze: the job first, then the task.
Analyze(w) ==
  /\ Opens(w, "analysis", Section, "queue", NoRow)
  /\ job' = [job EXCEPT ![w] = "running"]

Reanalyze(w, s) == Opens(w, "section", {s}, "queue", NoRow) /\ UNCHANGED job

\* POST analysis-result: what is sent replaces its own fields in the row just read.
Edit(w, s) == Opens(w, "edit", {s}, "answered", row) /\ UNCHANGED job

-----------------------------------------------------------------------------
(* The work *)

Takes(w, from, to) == work[w].step = from /\ work' = [work EXCEPT ![w].step = to]

TakesTask(w, from, to, status) ==
  /\ Takes(w, from, to)
  /\ task' = [task EXCEPT ![w] = status]
  /\ UNCHANGED <<row, job, boot, unswept, stranded, trouble>>

Goes(w, from, to) ==
  Takes(w, from, to) /\ UNCHANGED <<row, job, task, boot, unswept, stranded, trouble>>

\* createTask inserts the row, and then tells whoever listens (Redis).
QueueTask(w) == TakesTask(w, "queue", "publish", "queued")

\* The request is answered, and its work runs on.
Publish(w) == Goes(w, "publish", "queued")
Runs(w) == TakesTask(w, "queued", "running", "running")

\* A reanalysis reads the row before it asks, and says "running" with every progress.
Again(w) == IF work[w].kind = "section" THEN [task EXCEPT ![w] = "running"] ELSE task

AsksModel(w) ==
  /\ work[w].step = "running"
  /\ work' = [work EXCEPT ![w].step = "asked",
                          ![w].read = IF work[w].kind = "section" THEN row ELSE @]
  /\ task' = Again(w)
  /\ UNCHANGED <<row, job, boot, unswept, stranded, trouble>>

\* Minutes later.
ModelAnswers(w) ==
  /\ Takes(w, "asked", "answered")
  /\ task' = Again(w)
  /\ UNCHANGED <<row, job, boot, unswept, stranded, trouble>>

\* The catch of the detached block; an edit answers its request with the error.
Caught(w) ==
  CASE work[w].kind = "analysis" -> "failing" [] work[w].kind = "section" -> "failed"
    [] OTHER -> "ended"

ModelFails(w) == Goes(w, "asked", Caught(w))

\* saveAnalysisResult.
Looks(w) == Goes(w, "answered", IF row = NoRow THEN "create" ELSE "update")

AfterSave(w) == IF work[w].kind = "edit" THEN "ended" ELSE "saved"

\* A field that was not read is undefined, and left alone.
Written(w) ==
  [s \in Section |->
     IF s \in work[w].on THEN w
     ELSE IF work[w].read = NoRow THEN row[s] ELSE work[w].read[s]]

Saves(w) ==
  /\ \/ Takes(w, "update", AfterSave(w))
     \/ /\ Takes(w, "create", "saved")
        /\ work[w].kind = "analysis" /\ row = NoRow
  /\ row' = Written(w)
  /\ UNCHANGED <<job, task, boot, unswept, stranded, trouble>>

\* The project has its row by now; or a row is to be made of one section, with no job.
CannotCreate(w) ==
  /\ work[w].kind # "analysis" \/ row # NoRow
  /\ Goes(w, "create", Caught(w))

UpdateJob(w) ==
  /\ Takes(w, "saved", "told")
  /\ job' = [job EXCEPT ![w] = IF work[w].kind = "analysis" THEN "completed" ELSE @]
  /\ UNCHANGED <<row, task, boot, unswept, stranded, trouble>>

CompleteTask(w) == TakesTask(w, "told", "completed", "completed")
RecordUsage(w) == Goes(w, "completed", "ended")

FailJob(w) ==
  /\ Takes(w, "failing", "failed")
  /\ job' = [job EXCEPT ![w] = "failed"]
  /\ UNCHANGED <<row, task, boot, unswept, stranded, trouble>>

FailTask(w) == TakesTask(w, "failed", "ended", "failed")

-----------------------------------------------------------------------------
(* Statements that fail, and the end of the process *)

Trouble == trouble < MaxTrouble /\ trouble' = trouble + 1

\* What every work was doing is lost.
Exits ==
  /\ work' = [w \in Work |-> IF work[w].step \in Started THEN [work[w] EXCEPT !.step = "ended"]
                             ELSE work[w]]
  /\ boot' = "sweeping"

\* A statement of the request fails, which is answered with the error: no work begins,
\* and a task that was queued already is left as it is.
RequestFails(w) ==
  /\ work[w].step \in {"queue", "publish"}
  /\ work' = [work EXCEPT ![w].step = "ended"]
  /\ stranded' = IF work[w].step = "publish" THEN stranded \cup {w} ELSE stranded
  /\ UNCHANGED boot

\* A statement of the work fails, or one of its catch, whose rejection nobody handles
\* (process.on "unhandledRejection").
WorkFails(w) ==
  /\ \/ work[w].step \in Started \ {"queue", "publish", "failing", "failed"}
        /\ work' = [work EXCEPT ![w].step = Caught(w)] /\ UNCHANGED boot
     \/ work[w].step \in {"failing", "failed"} /\ Exits
  /\ UNCHANGED stranded

StatementFails(w) ==
  /\ Trouble
  /\ RequestFails(w) \/ WorkFails(w)
  /\ UNCHANGED <<row, job, task, unswept>>

ProcessDies == Trouble /\ Exits /\ UNCHANGED <<row, job, task, unswept, stranded>>

\* Mutant of Orphan: only what was running is an orphan.
OrphanRunning(status) == status = "running"

Orphan(status) == status \in {"queued", "running"}

\* The server listens already: a task just made is an orphan too.
SweepTasks ==
  /\ boot = "sweeping"
  /\ boot' = "up"
  /\ task' = [w \in Work |-> IF Orphan(task[w]) THEN "failed" ELSE task[w]]
  /\ stranded' = {}
  /\ UNCHANGED <<row, job, work, unswept, trouble>>

\* The failure is logged, and that is all.
SweepFails ==
  /\ boot = "sweeping"
  /\ Trouble
  /\ boot' = "up" /\ unswept' = TRUE
  /\ UNCHANGED <<row, job, task, work, stranded>>

-----------------------------------------------------------------------------

WorkGoesOn(w) ==
  \/ QueueTask(w) \/ Publish(w) \/ Runs(w) \/ AsksModel(w) \/ ModelAnswers(w) \/ ModelFails(w)
  \/ Looks(w) \/ Saves(w) \/ CannotCreate(w) \/ UpdateJob(w) \/ CompleteTask(w)
  \/ RecordUsage(w) \/ FailJob(w) \/ FailTask(w)

WorkNext ==
  \/ \E w \in Work :
       \/ Analyze(w)
       \/ \E s \in Section : Reanalyze(w, s) \/ Edit(w, s)
       \/ WorkGoesOn(w) \/ StatementFails(w)
  \/ ProcessDies \/ SweepTasks \/ SweepFails

WorkSpec == WorkInit /\ [][WorkNext]_workVars

-----------------------------------------------------------------------------

\* Whoever waits for a task learns how it ended, wherever the work failed or the server
\* died, unless the sweep of the boot failed (the comment on it in server.ts).  Excused is
\* the task alone whose request failed between its row and its publication: it has no work,
\* and stays queued until the server boots again.
EveryTaskEnds ==
  \A w \in Work :
    task[w] \in {"queued", "running"} ~>
      task[w] \in {"completed", "failed"} \/ unswept \/ w \in stranded

\* A reanalysis of one section leaves the others as they were (the comment above the
\* save in regenerateAnalysisSection).
OthersAsTheyWere ==
  [][\A w \in Work : Saves(w) /\ work[w].kind = "section" =>
       \A s \in Section \ work[w].on : row'[s] = row[s]]_workVars

=============================================================================
