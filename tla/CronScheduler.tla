----------------------------- MODULE CronScheduler -----------------------------
(***************************************************************************)
(* One scheduled job of aionui-cron: its row in cron_jobs, its entry in    *)
(* CronScheduler.handles, and the operations of CronService that run       *)
(* concurrently on it.  A tick is spawned by the timer and is not aborted  *)
(* with it; HTTP requests run on other tasks.  Each of them reads the row, *)
(* works for a while (execute builds an agent and sends a message), writes *)
(* the row and re-arms the timer from the copy it read.                    *)
(*                                                                         *)
(* Jobs meet only in the conversation they post to, and whether that one   *)
(* is busy, missing or broken is a choice of the environment here.  Left   *)
(* out as data: names, prompts, agent configuration, last_status,          *)
(* run_count, the bound conversation, emitted events.                      *)
(***************************************************************************)
EXTENDS Naturals

CONSTANTS
  Ticks,       \* the tasks that run tick, as many as may overlap
  Requests,    \* the tasks that run the requests of users
  Kinds,       \* the kinds of schedule users give the job
  MaxRetries,  \* max_retries of the job
  MaxRestarts, \* bound on the restarts of the server
  MaxFaults    \* bound on the database calls that fail

\* "periodic": an interval, or a cron expression that never runs out of dates;
\* "manual": a cron schedule without a next run, its expression empty or past
\* its last date.  An expression whose last date passes while the server runs
\* would go from the one to the other, its timer ending with the row enabled:
\* that change is left out.
ScheduleKinds == {"at", "periodic", "manual"}

ASSUME CronAssumption ==
  /\ Ticks \cap Requests = {}
  /\ Kinds \subseteq ScheduleKinds
  /\ MaxRetries \in Nat
  /\ MaxRestarts \in Nat
  /\ MaxFaults \in Nat

VARIABLES
  stored,   \* whether the row is in cron_jobs: "new", "stored" or "deleted"
  row,      \* the fields of the row; timed: next_run_at is not NULL
  timer,    \* the task behind the job's handle in CronScheduler.handles
  leaked,   \* the running timers whose handle was dropped without an abort
  pc,       \* the next step of each task
  job,      \* the CronJob each task holds
  edit,     \* the fields the update request of a task sets
  editing,  \* the tasks inside update_job
  steady,   \* always periodic so far, and no two edits overlapped
  faults,   \* the number of database calls that failed
  lost,     \* whether one of them left the job without a timer
  restarts

vars == <<stored, row, timer, leaked, pc, job, edit, editing, steady,
          faults, lost, restarts>>

Procs == Ticks \cup Requests

CronJob == [enabled : BOOLEAN, kind : ScheduleKinds, timed : BOOLEAN,
            retry : 0 .. MaxRetries]

\* "keep" stands for a field that the request leaves alone.
UpdateRequest == [enabled : {"keep", "on", "off"}, kind : Kinds \cup {"keep"}]

Steps == {"idle", "cancel", "insert", "load", "execute", "retry", "settle",
          "rearm", "update", "delete", "runNow", "missed", "rearmMissed"}

\* The timers whose task still runs; "spent" is a finished task whose handle
\* is still in the map.
Running == {"once", "periodic"}

--------------------------------------------------------------------------------
\* compute_next_run: a cron schedule with an empty expression, or with one that
\* has no further date, has none.
compute_next_run(kind) == kind # "manual"

\* The timer that schedule_job spawns.  The one of a cron schedule ends when no
\* next run can be computed, so that of an empty expression fires once.
spawn_timer(kind) == IF kind = "periodic" THEN "periodic" ELSE "once"

NoJob == [enabled |-> FALSE, kind |-> "manual", timed |-> FALSE, retry |-> 0]

NewJob(kind) ==
  [enabled |-> TRUE, kind |-> kind, timed |-> compute_next_run(kind),
   retry |-> 0]

NoEdit == [enabled |-> "keep", kind |-> "keep"]

\* What a task keeps of a row once its retry_count is not looked at any more.
Copy(r) == [r EXCEPT !.retry = 0]

Init ==
  /\ stored = "new"
  /\ row = NoJob
  /\ timer = "none"
  /\ leaked = {}
  /\ pc = [p \in Procs |-> "idle"]
  /\ job = [p \in Procs |-> NoJob]
  /\ edit = [p \in Procs |-> NoEdit]
  /\ editing = {}
  /\ steady = TRUE
  /\ faults = 0
  /\ lost = FALSE
  /\ restarts = 0

\* Task p goes on to a step with the job it holds.
Goto(p, step, held) ==
  /\ pc' = [pc EXCEPT ![p] = step]
  /\ job' = [job EXCEPT ![p] = held]

\* Task p is done; what it held is gone.
End(p) ==
  /\ Goto(p, "idle", NoJob)
  /\ editing' = editing \ {p}
  /\ edit' = [edit EXCEPT ![p] = NoEdit]

\* A database call that succeeds or, where faults are possible, fails.
Db(ok) ==
  /\ ok \/ faults < MaxFaults
  /\ faults' = IF ok THEN faults ELSE faults + 1

\* UPDATE of the row: without effect when it fails or the row is not there.
Write(fields, ok) ==
  /\ row' = IF stored = "stored" /\ ok THEN fields ELSE row
  /\ Db(ok)

--------------------------------------------------------------------------------
(***************************************************************************)
(* CronScheduler.  schedule_job removes and aborts the handle of the job,  *)
(* then spawns a timer and inserts its handle: two operations of the map.  *)
(* An insert that finds another handle drops it, and a dropped JoinHandle  *)
(* leaves its task running.                                                *)
(***************************************************************************)

cancel_job == timer' = "none"

\* The first half of schedule_job, cancel_job; it is all of it for a job that
\* is disabled or has no next run.
ScheduleCancel(p) ==
  /\ pc[p] = "cancel"
  /\ cancel_job
  /\ IF job[p].enabled /\ job[p].timed
       THEN /\ Goto(p, "insert", job[p])
            /\ UNCHANGED <<edit, editing>>
       ELSE End(p)
  /\ UNCHANGED <<stored, row, leaked, steady, faults, lost, restarts>>

\* The second half of schedule_job.
ScheduleInsert(p) ==
  /\ pc[p] = "insert"
  /\ leaked' = leaked \cup ({timer} \cap Running)
  /\ timer' = spawn_timer(job[p].kind)
  /\ End(p)
  /\ UNCHANGED <<stored, row, steady, faults, lost, restarts>>

\* The timer of the handle calls the tick callback, which spawns a tick.  A
\* one-shot timer then ends.
TimerFires(p) ==
  /\ timer \in Running
  /\ pc[p] = "idle"
  /\ timer' = IF timer = "once" THEN "spent" ELSE timer
  /\ Goto(p, "load", NoJob)
  /\ UNCHANGED <<stored, row, leaked, edit, editing, steady, faults, lost,
                 restarts>>

\* So does a timer that no handle reaches any more.  Several one-shot timers
\* may have been leaked, so the first that ends need not be the last.
LeakedTimerFires(p) ==
  /\ pc[p] = "idle"
  /\ leaked # {}
  /\ leaked' \in {leaked, leaked \ {"once"}}
  /\ Goto(p, "load", NoJob)
  /\ UNCHANGED <<stored, row, timer, edit, editing, steady, faults, lost,
                 restarts>>

--------------------------------------------------------------------------------
(***************************************************************************)
(* CronService::tick and handle_execution_result.                          *)
(***************************************************************************)

\* Faulty variant of TickLoad: the timer of a missing row is left alone.
TickLoadKeepingTimer(p) ==
  /\ pc[p] = "load"
  /\ \E ok \in BOOLEAN :
       /\ Db(ok)
       /\ lost' = (lost \/ (~ok /\ timer # "periodic"))
       /\ IF ok /\ stored = "stored" /\ row.enabled
            THEN /\ Goto(p, "execute", row)
                 /\ UNCHANGED <<edit, editing>>
            ELSE End(p)
  /\ UNCHANGED <<stored, row, timer, leaked, steady, restarts>>

\* tick loads the row: a missing one cancels the timer, a disabled one or a
\* failed read ends the tick.
TickLoad(p) ==
  /\ pc[p] = "load"
  /\ \E ok \in BOOLEAN :
       /\ Db(ok)
       /\ lost' = (lost \/ (~ok /\ timer # "periodic"))
       /\ timer' = IF ok /\ stored # "stored" THEN "none" ELSE timer
       /\ IF ok /\ stored = "stored" /\ row.enabled
            THEN /\ Goto(p, "execute", row)
                 /\ UNCHANGED <<edit, editing>>
            ELSE End(p)
  /\ UNCHANGED <<stored, row, leaked, steady, restarts>>

\* Faulty variant of handle_busy: one retry too many.
HandleBusyOnceMore(held) == IF held.retry > MaxRetries THEN "settle" ELSE "retry"

\* handle_busy: a busy conversation is retried until the retries are used up,
\* then the run is skipped.
handle_busy(held) == IF held.retry >= MaxRetries THEN "settle" ELSE "retry"

\* execute sends the message, fails, or finds the conversation busy.
Execute(p) ==
  /\ pc[p] = "execute"
  /\ \E next \in {"settle", handle_busy(job[p])} : Goto(p, next, job[p])
  /\ UNCHANGED <<stored, row, timer, leaked, edit, editing, steady, faults, lost,
                 restarts>>

\* Retrying: the attempt is recorded and schedule_retry arms a one-shot timer.
RetryLater(p) ==
  /\ pc[p] = "retry"
  /\ \E ok \in BOOLEAN : Write([row EXCEPT !.retry = job[p].retry + 1], ok)
  /\ Goto(p, "cancel", NewJob("at"))
  /\ UNCHANGED <<stored, timer, leaked, edit, editing, steady, lost, restarts>>

\* Faulty variant of Settle: the retry count is not reset.
SettleKeepingRetries(p) ==
  /\ pc[p] = "settle"
  /\ Goto(p, "rearm", Copy(job[p]))
  /\ UNCHANGED <<stored, row, timer, leaked, edit, editing, steady, faults, lost,
                 restarts>>

\* update_job_after_success, update_job_after_error and the update of Skipped
\* reset the retry count.
Settle(p) ==
  /\ pc[p] = "settle"
  /\ \E ok \in BOOLEAN : Write([row EXCEPT !.retry = 0], ok)
  /\ Goto(p, "rearm", Copy(job[p]))
  /\ UNCHANGED <<stored, timer, leaked, edit, editing, steady, lost, restarts>>

\* What reschedule_after_execution and reschedule_after_missed write to a row,
\* and make of the copy they schedule.  A one-shot job is disabled.
Rescheduled(held, r) ==
  IF held.kind = "at"
    THEN [r EXCEPT !.enabled = FALSE, !.timed = FALSE]
    ELSE [r EXCEPT !.timed = compute_next_run(held.kind)]

\* reschedule_after_execution: goes on to the timer even when the write fails.
\* (A one-shot job is only cancelled, as scheduling its disabled copy does.)
Reschedule(p) ==
  /\ pc[p] = "rearm"
  /\ \E ok \in BOOLEAN : Write(Rescheduled(job[p], row), ok)
  /\ Goto(p, "cancel", Rescheduled(job[p], job[p]))
  /\ UNCHANGED <<stored, timer, leaked, edit, editing, steady, lost, restarts>>

--------------------------------------------------------------------------------
(***************************************************************************)
(* Requests.                                                               *)
(***************************************************************************)

\* add_job: the row is inserted, then the timer is armed.
AddJob(p, kind) ==
  /\ pc[p] = "idle"
  /\ stored = "new"
  /\ stored' = "stored"
  /\ row' = NewJob(kind)
  /\ steady' = (steady /\ kind = "periodic")
  /\ Goto(p, "cancel", NewJob(kind))
  /\ UNCHANGED <<timer, leaked, edit, editing, faults, lost, restarts>>

\* The row of update_job with the requested fields set.
Merged(r, req) ==
  LET kind == IF req.kind = "keep" THEN r.kind ELSE req.kind
  IN [Copy(r) EXCEPT
        !.enabled = IF req.enabled = "keep" THEN @ ELSE req.enabled = "on",
        !.kind = kind,
        !.timed = IF req = NoEdit THEN @ ELSE compute_next_run(kind)]

\* update_job reads the row, merges the request into its copy and validates.
UpdateRead(p, req) ==
  /\ pc[p] = "idle"
  /\ stored = "stored"
  /\ Goto(p, "update", Merged(row, req))
  /\ edit' = [edit EXCEPT ![p] = req]
  /\ editing' = editing \cup {p}
  /\ steady' = (steady /\ editing = {} /\ req.kind \in {"keep", "periodic"})
  /\ UNCHANGED <<stored, row, timer, leaked, faults, lost, restarts>>

\* What build_update_params writes: the requested fields, and the next run
\* computed from the copy.
Updated(r, req, held) ==
  [r EXCEPT !.enabled = IF req.enabled = "keep" THEN @ ELSE req.enabled = "on",
            !.kind = IF req.kind = "keep" THEN @ ELSE req.kind,
            !.timed = IF req = NoEdit THEN @ ELSE held.timed]

\* Faulty variant of UpdateWrite: only a changed schedule re-arms the timer.
UpdateWriteRearmingSchedules(p) ==
  /\ pc[p] = "update"
  /\ \E ok \in BOOLEAN :
       /\ Write(Updated(row, edit[p], job[p]), ok)
       /\ IF ok /\ stored = "stored" /\ edit[p].kind # "keep"
            THEN /\ Goto(p, "cancel", job[p])
                 /\ edit' = [edit EXCEPT ![p] = NoEdit]
                 /\ UNCHANGED editing
            ELSE End(p)
  /\ UNCHANGED <<stored, timer, leaked, steady, lost, restarts>>

\* update_job writes the requested fields and re-arms from its copy; it
\* returns the error of a failed write or of a row that is gone, but a request
\* that sets nothing writes nothing, and re-arms a row that is gone too.
UpdateWrite(p) ==
  /\ pc[p] = "update"
  /\ \E ok \in BOOLEAN :
       /\ Write(Updated(row, edit[p], job[p]), ok)
       /\ IF ok /\ (stored = "stored" \/ edit[p] = NoEdit)
            THEN /\ Goto(p, "cancel", job[p])
                 /\ edit' = [edit EXCEPT ![p] = NoEdit]
                 /\ UNCHANGED editing
            ELSE End(p)
  /\ UNCHANGED <<stored, timer, leaked, steady, lost, restarts>>

\* remove_job, and delete_jobs_by_conversation of the delete hook, cancel the
\* timer first ...
RemoveCancel(p) ==
  /\ pc[p] = "idle"
  /\ stored = "stored"
  /\ cancel_job
  /\ Goto(p, "delete", NoJob)
  /\ UNCHANGED <<stored, row, leaked, edit, editing, steady, faults, lost,
                 restarts>>

\* ... and then delete the row.
RemoveDelete(p) ==
  /\ pc[p] = "delete"
  /\ \E ok \in BOOLEAN :
       /\ Db(ok)
       /\ lost' = (lost \/ ~ok)
       /\ stored' = IF ok THEN "deleted" ELSE stored
       /\ row' = IF ok THEN NoJob ELSE row
  /\ End(p)
  /\ UNCHANGED <<timer, leaked, steady, restarts>>

\* run_now reads the row and runs the job on a task of its own ...
RunNow(p) ==
  /\ pc[p] = "idle"
  /\ stored = "stored"
  /\ Goto(p, "runNow", NoJob)
  /\ UNCHANGED <<stored, row, timer, leaked, edit, editing, steady, faults, lost,
                 restarts>>

\* ... whose result is recorded but does not touch the timer.  A busy
\* conversation is an error here, never a retry.
HandleRunNowResult(p) ==
  /\ pc[p] = "runNow"
  /\ \E ok \in BOOLEAN : Write([row EXCEPT !.retry = 0], ok)
  /\ End(p)
  /\ UNCHANGED <<stored, timer, leaked, steady, lost, restarts>>

\* handle_system_resume lists the enabled rows; one whose next run is in the
\* past is missed, the others are re-armed.
SystemResume(p) ==
  /\ pc[p] = "idle"
  /\ stored = "stored"
  /\ row.enabled
  /\ \E overdue \in BOOLEAN :
       /\ overdue => row.timed
       /\ Goto(p, IF overdue THEN "missed" ELSE "cancel", Copy(row))
  /\ UNCHANGED <<stored, row, timer, leaked, edit, editing, steady, faults, lost,
                 restarts>>

\* record_missed_execution.
RecordMissed(p) ==
  /\ pc[p] = "missed"
  /\ \E ok \in BOOLEAN : Write([row EXCEPT !.retry = 0], ok)
  /\ Goto(p, "rearmMissed", job[p])
  /\ UNCHANGED <<stored, timer, leaked, edit, editing, steady, lost, restarts>>

\* reschedule_after_missed: returns when the write of a periodic job fails.
RescheduleMissed(p) ==
  /\ pc[p] = "rearmMissed"
  /\ \E ok \in BOOLEAN :
       /\ Write(Rescheduled(job[p], row), ok)
       /\ IF job[p].kind = "at" \/ (ok /\ stored = "stored")
            THEN /\ Goto(p, "cancel", Rescheduled(job[p], job[p]))
                 /\ UNCHANGED <<edit, editing>>
            ELSE End(p)
  /\ UNCHANGED <<stored, timer, leaked, steady, lost, restarts>>

\* The process stops and starts again.  Timers and tasks are gone; init, which
\* is awaited before the server listens, lists the enabled rows, deletes a job
\* whose conversation is gone (orphan) and arms the others.  A failed list, or
\* the failed delete of an orphan, leaves the row as it is and arms nothing.
Restart ==
  /\ restarts < MaxRestarts
  /\ restarts' = restarts + 1
  /\ \E ok \in BOOLEAN, orphan \in BOOLEAN :
       /\ orphan => stored = "stored" /\ row.enabled
       /\ Db(ok)
       /\ lost' = (lost \/ ~ok)
       /\ stored' = IF orphan /\ ok THEN "deleted" ELSE stored
       /\ row' = IF orphan /\ ok THEN NoJob ELSE row
       /\ timer' = IF ok /\ ~orphan /\ stored = "stored" /\ row.enabled /\ row.timed
                     THEN spawn_timer(row.kind) ELSE "none"
  /\ leaked' = {}
  /\ pc' = [p \in Procs |-> "idle"]
  /\ job' = [p \in Procs |-> NoJob]
  /\ edit' = [p \in Procs |-> NoEdit]
  /\ editing' = {}
  /\ UNCHANGED steady

--------------------------------------------------------------------------------
Tick(p) ==
  TickLoad(p) \/ Execute(p) \/ RetryLater(p) \/ Settle(p) \/ Reschedule(p)

Request(p) ==
  \/ UpdateWrite(p) \/ RemoveDelete(p) \/ HandleRunNowResult(p)
  \/ RecordMissed(p) \/ RescheduleMissed(p)

Schedule(p) == ScheduleCancel(p) \/ ScheduleInsert(p)

User(p) ==
  \/ \E kind \in Kinds : AddJob(p, kind)
  \/ \E req \in UpdateRequest : UpdateRead(p, req)
  \/ RemoveCancel(p) \/ RunNow(p) \/ SystemResume(p)

Next ==
  \/ \E p \in Ticks :
       TimerFires(p) \/ LeakedTimerFires(p) \/ Tick(p) \/ Schedule(p)
  \/ \E p \in Requests : User(p) \/ Request(p) \/ Schedule(p)
  \/ Restart

\* Every task runs on, and a running timer fires: a tick is spawned for it
\* however many are under way, so it may not wait for ever for one of Ticks.
\* Of a removed job so do the leaked timers, until the one-shot ones have ended:
\* only the tasks that were under way can leak another.
Fairness ==
  /\ \A p \in Ticks : WF_vars(Tick(p) \/ Schedule(p))
  /\ \A p \in Requests : WF_vars(Request(p) \/ Schedule(p))
  /\ SF_vars(\E p \in Ticks : TimerFires(p))
  /\ SF_vars(stored = "deleted" /\ \E p \in Ticks :
                LeakedTimerFires(p) /\ leaked' = leaked \ {"once"})

Spec == Init /\ [][Next]_vars /\ Fairness

--------------------------------------------------------------------------------
\* Every variable has its type; retry_count never passes max_retries.
TypeOK ==
  /\ stored \in {"new", "stored", "deleted"}
  /\ row \in CronJob
  /\ timer \in Running \cup {"none", "spent"}
  /\ leaked \subseteq Running
  /\ pc \in [Procs -> Steps]
  /\ job \in [Procs -> CronJob]
  /\ edit \in [Procs -> UpdateRequest]
  /\ editing \subseteq Requests
  /\ steady \in BOOLEAN
  /\ faults \in 0 .. MaxFaults
  /\ lost \in BOOLEAN
  /\ restarts \in 0 .. MaxRestarts

Quiet == \A p \in Procs : pc[p] = "idle"

\* An enabled periodic job is never left without a timer.  Retries replace its
\* timer by a one-shot one, and edits, ticks, resumes and restarts cancel and
\* re-arm from copies of the row that may be stale, some of their writes
\* failing; yet whenever no task is under way the job's handle belongs to a
\* running timer.  Excluded is what the code does lose: the jobs of a failed
\* list or of the failed delete of an orphan in init, of a failed read in the
\* tick of a retry and of a failed delete by a request (lost), overlapping
\* edits and a change of the kind of schedule (steady).
PeriodicStaysArmed ==
  (Quiet /\ steady /\ ~lost /\ stored = "stored" /\ row.enabled)
    => timer \in Running

\* A busy conversation does not hold a job back for ever: a retry count that
\* was raised goes back to zero, by a run or by giving up, though overlapping
\* ticks write counts computed from a stale one (service.rs handle_busy).
RetriesEnd ==
  (row.retry > 0) ~> (row.retry = 0 \/ ~row.enabled \/ ~steady \/ lost)

\* A removed job falls silent for good: the tick or request that was under way
\* may arm its timer again after the removal, and overlapping schedule_job
\* calls may leak timers that no handle reaches, yet in the end none is left
\* that ticks.  Excluded is what the code does not stop: a periodic timer that
\* was leaked ticks until the server restarts (scheduler.rs schedule_job).
RemovedJobsFallSilent ==
  (stored = "deleted") ~>
    ("periodic" \in leaked \/ [](timer \notin Running /\ leaked = {}))
================================================================================
