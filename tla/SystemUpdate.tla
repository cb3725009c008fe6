---------------------------- MODULE SystemUpdate ----------------------------
(***************************************************************************)
(* Updating an installation: an attempt is registered and spawned by the   *)
(* server (utils/updateScheduler.ts) and carried out by a detached script  *)
(* (scripts/update.sh), which backs the database up, deploys the release,  *)
(* restarts the server, and rolls code and database back when anything     *)
(* fails; the server ends the attempts whose script died, where reporting  *)
(* to the fleet manager is on.                                             *)
(*                                                                         *)
(* The bookkeeping lives in the database that a rollback restores, so all  *)
(* of it is one variable, db, and a backup is a value of it.  An attempt   *)
(* is also the version it deploys; version 0 is the one installed first.   *)
(* The script's health check and commands fail at will.                    *)
(***************************************************************************)
EXTENDS Naturals

CONSTANTS
  Trigger,      \* updates that may be asked for at once: a person, the timer, the fleet manager
  MaxAsked,     \* bound on the attempts
  MaxMishaps    \* bound on what dies, and on the reports, rollbacks and sweeps that go wrong

ASSUME UpdateBounds == MaxAsked \in Nat /\ MaxMishaps \in Nat

VARIABLES
  db,         \* the database: schema, system_update_state, history, tasks
  code,       \* the version that is running
  checkout,   \* the version of the working copy
  trigger,    \* [Trigger -> the step of its request and its attempt]
  reaper,     \* the sweep of the server: its step, and the task it found
  script,     \* [Attempt -> Script]
  asked,      \* attempts so far
  disturbed,  \* two scripts ran at once, one died, or a rollback was left half done
  upMishaps

upVars == <<db, code, checkout, trigger, reaper, script, asked, disturbed, upMishaps>>

Attempt == 1..MaxAsked
Version == 0..MaxAsked

Outcome == {"success", "failed", "rolled_back"}

Db ==
  [schema : Version,
   status : {"none", "in_progress"} \cup Outcome,  \* last_attempt_status
   overdue : BOOLEAN,                              \* that attempt began over 30 minutes ago
   scheduled : BOOLEAN,
   reporting : BOOLEAN,                            \* fleetManagerEnabled
   history : [Attempt -> {"none", "in_progress"} \cup Outcome],
   task : [Attempt -> {"none", "running", "completed", "failed"}]]

\* deploying, in this order: backed, checked, migrated, restarted.
Script ==
  [step : {"none", "preparing", "backed", "checked", "migrated", "restarted", "rollback",
           "state", "history", "task", "ended", "dead"},
   from : Version, backup : Db, outcome : Outcome \cup {"none"}]

NewDb == [schema |-> 0, status |-> "none", overdue |-> FALSE, scheduled |-> FALSE,
          reporting |-> FALSE, history |-> [a \in Attempt |-> "none"],
          task |-> [a \in Attempt |-> "none"]]

NoScript == [step |-> "none", from |-> 0, backup |-> NewDb, outcome |-> "none"]
NoTrigger == [step |-> "idle", on |-> 0]
NoReaper == [step |-> "idle", on |-> 0]

UpdateTypeOK ==
  /\ db \in Db
  /\ code \in Version /\ checkout \in Version
  /\ trigger \in [Trigger -> [step : {"idle", "task", "history", "state", "spawn"}, on : Version]]
  /\ reaper \in [step : {"idle", "found", "state"}, on : Version]
  /\ script \in [Attempt -> Script]
  /\ \A a \in Attempt :
       /\ script[a].outcome # "none" <=> script[a].step \in {"state", "history", "task"}
       /\ script[a].step # "none" => a <= asked
  /\ asked \in Version
  /\ disturbed \in BOOLEAN
  /\ upMishaps \in 0..MaxMishaps

UpdateInit ==
  /\ db = NewDb
  /\ code = 0 /\ checkout = 0
  /\ trigger = [t \in Trigger |-> NoTrigger]
  /\ reaper = NoReaper
  /\ script = [a \in Attempt |-> NoScript]
  /\ asked = 0
  /\ disturbed = FALSE
  /\ upMishaps = 0

-----------------------------------------------------------------------------
(* The schedule and the settings *)

Alive(a) == script[a].step \notin {"none", "ended", "dead"}
Running == {a \in Attempt : db.task[a] = "running"}

Sets(scheduled) ==
  /\ db' = [db EXCEPT !.scheduled = scheduled]
  /\ UNCHANGED <<code, checkout, trigger, reaper, script, asked, disturbed, upMishaps>>

\* POST schedule, and POST cancel.
ScheduleUpdate == db.status # "in_progress" /\ ~db.scheduled /\ Sets(TRUE)
CancelSchedule == db.scheduled /\ Sets(FALSE)

\* PUT settings turns the reporting to the fleet manager on (bound: not off again, as only
\* a rollback to a backup from before does).
TurnReportingOn ==
  /\ ~db.reporting
  /\ db' = [db EXCEPT !.reporting = TRUE]
  /\ UNCHANGED <<code, checkout, trigger, reaper, script, asked, disturbed, upMishaps>>

-----------------------------------------------------------------------------
(* triggerImmediateUpdate *)

\* It found no other update running.
Asks(t) ==
  /\ trigger[t] = NoTrigger
  /\ Running = {}
  /\ asked < MaxAsked
  /\ asked' = asked + 1
  /\ trigger' = [trigger EXCEPT ![t] = [step |-> "task", on |-> asked + 1]]
  /\ UNCHANGED <<db, code, checkout, reaper, script, disturbed, upMishaps>>

\* POST run-now, or the command apply_update of the fleet manager.
UpdateNow(t) == Asks(t)

\* The timer, where reporting is on, within 15 minutes of the time that was set, which is
\* left open: a schedule that was missed waits for a person.  Only a success clears it.
UpdateScheduled(t) ==
  db.reporting /\ db.status # "in_progress" /\ db.scheduled /\ Asks(t)

Registers(t, step, next, row) ==
  /\ trigger[t].step = step
  /\ db' = row
  /\ trigger' = [trigger EXCEPT ![t].step = next]
  /\ UNCHANGED <<code, checkout, reaper, script, asked, disturbed, upMishaps>>

CreateTask(t) ==
  Registers(t, "task", "history", [db EXCEPT !.task[trigger[t].on] = "running"])

CreateHistory(t) ==
  Registers(t, "history", "state", [db EXCEPT !.history[trigger[t].on] = "in_progress"])

MarkInProgress(t) ==
  Registers(t, "state", "spawn", [db EXCEPT !.status = "in_progress", !.overdue = FALSE])

Spawn(t) ==
  /\ trigger[t].step = "spawn"
  /\ script' = [script EXCEPT ![trigger[t].on].step = "preparing"]
  /\ trigger' = [trigger EXCEPT ![t] = NoTrigger]
  /\ disturbed' = (disturbed \/ \E a \in Attempt : Alive(a))
  /\ UNCHANGED <<db, code, checkout, reaper, asked, upMishaps>>

-----------------------------------------------------------------------------
(* scripts/update.sh *)

\* Bound: one disturbance at a time, and MaxMishaps of them.
MishapAllowed == upMishaps < MaxMishaps /\ ~disturbed

Steps(a, from, to) == script[a].step = from /\ script' = [script EXCEPT ![a].step = to]

Backup(a) ==
  /\ script[a].step = "preparing"
  /\ script' = [script EXCEPT ![a].step = "backed", ![a].from = checkout, ![a].backup = db]
  /\ UNCHANGED <<db, code, checkout, trigger, reaper, asked, disturbed, upMishaps>>

Checkout(a) ==
  /\ Steps(a, "backed", "checked")
  /\ checkout' = a
  /\ UNCHANGED <<db, code, trigger, reaper, asked, disturbed, upMishaps>>

Migrate(a) ==
  /\ Steps(a, "checked", "migrated")
  /\ db' = [db EXCEPT !.schema = a]
  /\ UNCHANGED <<code, checkout, trigger, reaper, asked, disturbed, upMishaps>>

\* What the server was doing is lost.
ServerStops == trigger' = [t \in Trigger |-> NoTrigger] /\ reaper' = NoReaper

\* The server comes up with the working copy.
Restart(a) ==
  /\ Steps(a, "migrated", "restarted")
  /\ code' = checkout
  /\ ServerStops
  /\ UNCHANGED <<db, checkout, asked, disturbed, upMishaps>>

Tells(a, outcome) == script' = [script EXCEPT ![a].step = "state", ![a].outcome = outcome]

Healthy(a) ==
  /\ script[a].step = "restarted"
  /\ Tells(a, "success")
  /\ UNCHANGED <<db, code, checkout, trigger, reaper, asked, disturbed, upMishaps>>

\* on_exit: a step fails; with the backup made there is something to roll back.
Fail(a) ==
  /\ \/ script[a].step = "preparing" /\ Tells(a, "failed")
     \/ /\ script[a].step \in {"backed", "checked", "migrated", "restarted"}
        /\ script' = [script EXCEPT ![a].step = "rollback"]
  /\ UNCHANGED <<db, code, checkout, trigger, reaper, asked, disturbed, upMishaps>>

\* Mutant of Restored: only the code is rolled back.
RestoredCode(a) == db

\* The dump replaces the database, with all that was written since.
Restored(a) == script[a].backup

\* rollback: both outcomes of its own health check.
Rollback(a) ==
  /\ script[a].step = "rollback"
  /\ checkout' = script[a].from
  /\ db' = Restored(a)
  /\ code' = script[a].from
  /\ ServerStops
  /\ Tells(a, "rolled_back") \/ Tells(a, "failed")
  /\ UNCHANGED <<asked, disturbed, upMishaps>>

\* set +e: a command of the rollback fails and the others go on, whatever was left.
RollbackPartly(a) ==
  /\ script[a].step = "rollback"
  /\ MishapAllowed
  /\ checkout' \in {checkout, script[a].from}
  /\ db' \in {db, Restored(a)}
  /\ code' \in {code, checkout'}
  /\ ServerStops
  /\ Tells(a, "rolled_back") \/ Tells(a, "failed")
  /\ disturbed' = TRUE
  /\ upMishaps' = upMishaps + 1
  /\ UNCHANGED asked

-----------------------------------------------------------------------------
(* systemUpdateRunner: markAttemptSucceeded and markAttemptFailed *)

\* The script is over: what it held is forgotten.
Stops(a, how) == script' = [script EXCEPT ![a] = [NoScript EXCEPT !.step = how]]

Writes(a, from, to, row) ==
  /\ Steps(a, from, to)
  /\ db' = row
  /\ UNCHANGED <<code, checkout, trigger, reaper, asked, disturbed, upMishaps>>

\* A success also clears the schedule.
TellState(a) ==
  Writes(a, "state", "history",
         [db EXCEPT !.status = script[a].outcome,
                    !.scheduled = @ /\ script[a].outcome # "success"])

TellHistory(a) ==
  Writes(a, "history", "task", [db EXCEPT !.history[a] = script[a].outcome])

\* Mutant of TaskOutcome: the task takes the attempt's outcome, which no task has.
TaskOutcomeRaw(outcome) == IF outcome = "success" THEN "completed" ELSE outcome

\* A task has failed whether or not the attempt was rolled back.
TaskOutcome(outcome) == IF outcome = "success" THEN "completed" ELSE "failed"

TellTask(a) ==
  /\ script[a].step = "task"
  /\ db' = [db EXCEPT !.task[a] = TaskOutcome(script[a].outcome)]
  /\ Stops(a, "ended")
  /\ UNCHANGED <<code, checkout, trigger, reaper, asked, disturbed, upMishaps>>

\* A write of the runner fails: under set -e a success that could not be told is
\* rolled back, and anything else is the end of the script.
TellFails(a) ==
  /\ script[a].step \in {"state", "history", "task"}
  /\ MishapAllowed
  /\ IF script[a].outcome = "success"
       THEN script' = [script EXCEPT ![a].step = "rollback", ![a].outcome = "none"]
       ELSE Stops(a, "ended")
  /\ upMishaps' = upMishaps + 1
  /\ UNCHANGED <<db, code, checkout, trigger, reaper, asked, disturbed>>

-----------------------------------------------------------------------------
(* Crashes, and the sweep of the server *)

ScriptDies(a) ==
  /\ Alive(a)
  /\ MishapAllowed
  /\ Stops(a, "dead")
  /\ disturbed' = TRUE
  /\ upMishaps' = upMishaps + 1
  /\ UNCHANGED <<db, code, checkout, trigger, reaper, asked>>

\* The server dies with the requests it had, and comes up again.
ServerDies ==
  /\ \E t \in Trigger : trigger[t] # NoTrigger
  /\ MishapAllowed
  /\ ServerStops
  /\ upMishaps' = upMishaps + 1
  /\ UNCHANGED <<db, code, checkout, script, asked, disturbed>>

\* No script that is alive takes 30 minutes (MAX_UPDATE_DURATION_MS).
GrowsOverdue ==
  /\ db.status = "in_progress" /\ ~db.overdue
  /\ \A a \in Attempt : ~Alive(a)
  /\ \A t \in Trigger : trigger[t] = NoTrigger
  /\ db' = [db EXCEPT !.overdue = TRUE]
  /\ UNCHANGED <<code, checkout, trigger, reaper, script, asked, disturbed, upMishaps>>

\* Mutant of Overdue: an attempt is looked at only where an update is scheduled.
OverdueIfScheduled == db.status = "in_progress" /\ db.overdue /\ db.scheduled

Overdue == db.status = "in_progress" /\ db.overdue

Reaps(step, next, row) ==
  /\ reaper.step = step
  /\ reaper' = next
  /\ db' = row
  /\ UNCHANGED <<code, checkout, trigger, script, asked, disturbed, upMishaps>>

\* At boot and every five minutes, of an installation that reports: an attempt that is
\* overdue, and one of the running tasks, if there is one.
ReapReads ==
  /\ db.reporting /\ Overdue
  /\ \/ \E a \in Running : Reaps("idle", [step |-> "found", on |-> a], db)
     \/ Running = {} /\ Reaps("idle", [step |-> "found", on |-> 0], db)

\* markAttemptFailed, of the state and of that task, and of no history.
ReapState ==
  Reaps("found", IF reaper.on = 0 THEN NoReaper ELSE [reaper EXCEPT !.step = "state"],
        [db EXCEPT !.status = "failed"])

ReapTask == Reaps("state", NoReaper, [db EXCEPT !.task[reaper.on] = "failed"])

\* A statement of it fails, which is logged; of a status that was written nothing is left
\* to be found again.
ReapFails ==
  /\ reaper # NoReaper
  /\ upMishaps < MaxMishaps
  /\ reaper' = NoReaper
  /\ upMishaps' = upMishaps + 1
  /\ UNCHANGED <<db, code, checkout, trigger, script, asked, disturbed>>

-----------------------------------------------------------------------------

TriggerGoesOn(t) == CreateTask(t) \/ CreateHistory(t) \/ MarkInProgress(t) \/ Spawn(t)

ReapGoesOn == ReapReads \/ ReapState \/ ReapTask

ScriptGoesOn(a) ==
  \/ Backup(a) \/ Checkout(a) \/ Migrate(a) \/ Restart(a) \/ Healthy(a) \/ Fail(a)
  \/ Rollback(a) \/ TellState(a) \/ TellHistory(a) \/ TellTask(a)

UpdateNext ==
  \/ ScheduleUpdate \/ CancelSchedule \/ TurnReportingOn
  \/ \E t \in Trigger : UpdateNow(t) \/ UpdateScheduled(t) \/ TriggerGoesOn(t)
  \/ \E a \in Attempt :
       ScriptGoesOn(a) \/ RollbackPartly(a) \/ TellFails(a) \/ ScriptDies(a)
  \/ ServerDies \/ GrowsOverdue \/ ReapGoesOn \/ ReapFails

UpdateSpec == UpdateInit /\ [][UpdateNext]_upVars

\* Requests and scripts go on until they end or die; time passes, and the timer is an
\* interval of the server, which is restarted whenever it ends.
UpdateFairness ==
  /\ \A t \in Trigger : WF_upVars(TriggerGoesOn(t))
  /\ \A a \in Attempt : WF_upVars(ScriptGoesOn(a))
  /\ WF_upVars(GrowsOverdue) /\ WF_upVars(ReapGoesOn)

-----------------------------------------------------------------------------

\* Code and database keep step: with no script at work, and unless two of them met, one
\* died or a rollback was left half done, the version that runs is the one that is
\* checked out and the one the database was migrated to, and it is the first one or an
\* update that the history calls a success (update.sh and the runner's reports).
CodeAndDatabaseInStep ==
  ~disturbed /\ (\A a \in Attempt : ~Alive(a)) =>
    /\ code = checkout /\ code = db.schema
    /\ code # 0 => db.history[code] = "success"

\* Where reporting is on for good, no attempt is in progress for ever: whatever died, at the
\* request, the script or the report, the installation learns that its last attempt has ended
\* (the sweep of checkScheduledUpdatesForAllTenants, which passes by the others).
AttemptEnds ==
  db.status = "in_progress" ~> db.status # "in_progress" \/ ~db.reporting

=============================================================================
