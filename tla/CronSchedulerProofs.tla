------------------------- MODULE CronSchedulerProofs -------------------------
(***************************************************************************)
(* A periodic job stays armed, for any number of overlapping ticks and     *)
(* requests, restarts and failing database calls.  The inductive invariant *)
(* says who is about to arm the timer whenever it does not run, and that   *)
(* the stale copies the tasks arm it from are good enough.                 *)
(***************************************************************************)
EXTENDS CronScheduler, TLAPS

\* The records that the operations compute from a row are jobs again.
LEMMA JobsAreJobs ==
    /\ NoJob \in CronJob
    /\ NoEdit \in UpdateRequest
    /\ \A kind \in Kinds \cup {"at"} : NewJob(kind) \in CronJob
    /\ \A r \in CronJob, held \in CronJob : Rescheduled(held, r) \in CronJob
    /\ \A r \in CronJob, req \in UpdateRequest : Merged(r, req) \in CronJob
    /\ \A r \in CronJob, req \in UpdateRequest, held \in CronJob : Updated(r, req, held) \in CronJob
    /\ \A r \in CronJob : [r EXCEPT !.retry = 0] \in CronJob /\ Copy(r) \in CronJob
<1> USE CronAssumption DEF CronJob, ScheduleKinds, UpdateRequest
<1>1. NoJob \in CronJob /\ NoEdit \in UpdateRequest
    BY DEF NoJob, NoEdit
<1>2. \A kind \in Kinds \cup {"at"} : NewJob(kind) \in CronJob
    BY DEF NewJob, compute_next_run
<1>3. \A r \in CronJob, held \in CronJob : Rescheduled(held, r) \in CronJob
    BY DEF Rescheduled, compute_next_run
<1>4. ASSUME NEW r \in CronJob, NEW req \in UpdateRequest
      PROVE  Merged(r, req) \in CronJob
    <2> DEFINE enabled == IF req.enabled = "keep" THEN r.enabled ELSE req.enabled = "on"
               kind == IF req.kind = "keep" THEN r.kind ELSE req.kind
               timed == IF req = NoEdit THEN r.timed ELSE compute_next_run(kind)
    <2>1. enabled \in BOOLEAN /\ kind \in ScheduleKinds /\ timed \in BOOLEAN
        BY DEF compute_next_run
    <2>2. Merged(r, req) = [Copy(r) EXCEPT !.enabled = enabled, !.kind = kind, !.timed = timed]
        BY DEF Merged, Copy
    <2>3. Copy(r) \in CronJob
        BY DEF Copy
    <2> HIDE DEF enabled, kind, timed
    <2> QED BY <2>1, <2>2, <2>3
<1>5. ASSUME NEW r \in CronJob, NEW req \in UpdateRequest, NEW held \in CronJob
      PROVE  Updated(r, req, held) \in CronJob
    <2> DEFINE enabled == IF req.enabled = "keep" THEN r.enabled ELSE req.enabled = "on"
               kind == IF req.kind = "keep" THEN r.kind ELSE req.kind
               timed == IF req = NoEdit THEN r.timed ELSE held.timed
    <2>1. enabled \in BOOLEAN /\ kind \in ScheduleKinds /\ timed \in BOOLEAN
        OBVIOUS
    <2>2. Updated(r, req, held) = [r EXCEPT !.enabled = enabled, !.kind = kind, !.timed = timed]
        BY DEF Updated
    <2> HIDE DEF enabled, kind, timed
    <2> QED BY <2>1, <2>2
<1>6. \A r \in CronJob : [r EXCEPT !.retry = 0] \in CronJob /\ Copy(r) \in CronJob
    BY DEF Copy
<1> QED BY <1>1, <1>2, <1>3, <1>4, <1>5, <1>6

\* What a task may do next with the job it holds: the half of TypeOK about the
\* tasks is kept by every step that ends or goes on.
LEMMA GotoKeepsTypes ==
    ASSUME TypeOK, NEW p \in Procs, NEW step \in Steps, NEW held \in CronJob, Goto(p, step, held)
    PROVE  pc' \in [Procs -> Steps] /\ job' \in [Procs -> CronJob]
BY DEF TypeOK, Goto

\* A task that is done holds nothing: the same half, and that about the edits, kept.
LEMMA EndKeepsTypes ==
    ASSUME TypeOK, NEW p \in Procs, End(p)
    PROVE  /\ pc' \in [Procs -> Steps] /\ job' \in [Procs -> CronJob]
           /\ edit' \in [Procs -> UpdateRequest] /\ editing' \subseteq Requests
<1>1. Goto(p, "idle", NoJob) /\ NoJob \in CronJob /\ NoEdit \in UpdateRequest
    BY JobsAreJobs DEF End
<1> QED BY <1>1, GotoKeepsTypes DEF TypeOK, End, Steps

\* A write leaves a job in the row and counts the calls that fail.
LEMMA WriteKeepsTypes ==
    ASSUME TypeOK, NEW fields \in CronJob, NEW ok \in BOOLEAN, Write(fields, ok)
    PROVE  row' \in CronJob /\ faults' \in 0 .. MaxFaults
BY CronAssumption DEF TypeOK, Write, Db

\* The steps of the timers.
LEMMA TimerTypes ==
    ASSUME TypeOK, NEW p \in Procs,
           ScheduleCancel(p) \/ ScheduleInsert(p) \/ TimerFires(p) \/ LeakedTimerFires(p)
    PROVE  TypeOK'
<1>1. CASE ScheduleCancel(p)
    BY <1>1, EndKeepsTypes, GotoKeepsTypes DEF ScheduleCancel, cancel_job, TypeOK, Steps
<1>2. CASE ScheduleInsert(p)
    BY <1>2, EndKeepsTypes DEF ScheduleInsert, spawn_timer, Running, TypeOK
<1>3. CASE TimerFires(p)
    BY <1>3, JobsAreJobs, GotoKeepsTypes DEF TimerFires, Running, TypeOK, Steps
<1>4. CASE LeakedTimerFires(p)
    BY <1>4, JobsAreJobs, GotoKeepsTypes DEF LeakedTimerFires, Running, TypeOK, Steps
<1> QED BY <1>1, <1>2, <1>3, <1>4

\* handle_busy grants a retry only to a job with retries left.
RetriesLeft == \A p \in Procs : pc[p] = "retry" => job[p].retry < MaxRetries

\* TypeOK with what makes it inductive.
TypeInv == TypeOK /\ RetriesLeft

\* The steps of a tick.
LEMMA TickTypes ==
    ASSUME TypeInv, NEW p \in Procs, Tick(p)
    PROVE  TypeOK'
<1> USE DEF TypeInv, Steps
<1>1. job[p] \in CronJob /\ row \in CronJob
    BY DEF TypeOK
<1>2. CASE TickLoad(p)
    <2>1. PICK ok \in BOOLEAN :
              /\ Db(ok) /\ timer' \in {"none", timer} /\ lost' = (lost \/ (~ok /\ timer # "periodic"))
              /\ (Goto(p, "execute", row) /\ UNCHANGED <<edit, editing>>) \/ End(p)
        BY <1>2 DEF TickLoad
    <2>2. faults' \in 0 .. MaxFaults /\ lost' \in BOOLEAN
        BY <2>1, CronAssumption DEF Db, TypeOK
    <2> QED BY <1>1, <1>2, <2>1, <2>2, EndKeepsTypes, GotoKeepsTypes DEF TickLoad, TypeOK
<1>3. CASE Execute(p)
    <2>1. PICK next \in {"settle", "retry"} : Goto(p, next, job[p])
        BY <1>3 DEF Execute, handle_busy
    <2> QED BY <1>1, <1>3, <2>1, GotoKeepsTypes DEF Execute, TypeOK
<1>4. CASE RetryLater(p)
    <2>1. [row EXCEPT !.retry = job[p].retry + 1] \in CronJob
        BY <1>1, <1>4, CronAssumption DEF RetryLater, RetriesLeft, CronJob
    <2>2. NewJob("at") \in CronJob
        BY JobsAreJobs
    <2> QED BY <1>4, <2>1, <2>2, WriteKeepsTypes, GotoKeepsTypes DEF RetryLater, TypeOK
<1>5. CASE Settle(p)
    BY <1>1, <1>5, JobsAreJobs, WriteKeepsTypes, GotoKeepsTypes DEF Settle, TypeOK
<1>6. CASE Reschedule(p)
    BY <1>1, <1>6, JobsAreJobs, WriteKeepsTypes, GotoKeepsTypes DEF Reschedule, TypeOK
<1> QED BY <1>2, <1>3, <1>4, <1>5, <1>6 DEF Tick

\* The first steps of the requests.
LEMMA UserTypes ==
    ASSUME TypeInv, NEW p \in Requests, User(p)
    PROVE  TypeOK'
<1> USE DEF TypeInv, Steps
<1>1. p \in Procs /\ row \in CronJob
    BY DEF TypeOK, Procs
<1>2. CASE \E kind \in Kinds : AddJob(p, kind)
    <2>1. PICK kind \in Kinds : AddJob(p, kind)
        BY <1>2
    <2>2. NewJob(kind) \in CronJob
        BY JobsAreJobs
    <2> QED BY <1>1, <2>1, <2>2, GotoKeepsTypes DEF AddJob, TypeOK
<1>3. CASE \E req \in UpdateRequest : UpdateRead(p, req)
    <2>1. PICK req \in UpdateRequest : UpdateRead(p, req)
        BY <1>3
    <2>2. Merged(row, req) \in CronJob
        BY <1>1, JobsAreJobs
    <2>3. edit' \in [Procs -> UpdateRequest] /\ editing' \subseteq Requests /\ steady' \in BOOLEAN
        BY <1>1, <2>1 DEF UpdateRead, TypeOK
    <2> QED BY <1>1, <2>1, <2>2, <2>3, GotoKeepsTypes DEF UpdateRead, TypeOK
<1>4. CASE RemoveCancel(p)
    BY <1>1, <1>4, JobsAreJobs, GotoKeepsTypes DEF RemoveCancel, cancel_job, TypeOK
<1>5. CASE RunNow(p)
    BY <1>1, <1>5, JobsAreJobs, GotoKeepsTypes DEF RunNow, TypeOK
<1>6. CASE SystemResume(p)
    BY <1>1, <1>6, JobsAreJobs, GotoKeepsTypes DEF SystemResume, TypeOK
<1> QED BY <1>2, <1>3, <1>4, <1>5, <1>6 DEF User

\* The further steps of the requests.
LEMMA RequestTypes ==
    ASSUME TypeInv, NEW p \in Procs, Request(p)
    PROVE  TypeOK'
<1> USE DEF TypeInv, Steps
<1>1. job[p] \in CronJob /\ row \in CronJob /\ edit[p] \in UpdateRequest
    BY DEF TypeOK
<1>2. CASE UpdateWrite(p)
    <2>1. Updated(row, edit[p], job[p]) \in CronJob
        BY <1>1, JobsAreJobs
    <2>2. PICK ok \in BOOLEAN :
              /\ Write(Updated(row, edit[p], job[p]), ok)
              /\ \/ /\ Goto(p, "cancel", job[p])
                    /\ edit' = [edit EXCEPT ![p] = NoEdit] /\ UNCHANGED editing
                 \/ End(p)
        BY <1>2 DEF UpdateWrite
    <2> QED BY <1>1, <1>2, <2>1, <2>2, JobsAreJobs, WriteKeepsTypes, GotoKeepsTypes, EndKeepsTypes
            DEF UpdateWrite, TypeOK
<1>3. CASE RemoveDelete(p)
    <2>1. faults' \in 0 .. MaxFaults /\ lost' \in BOOLEAN /\ row' \in CronJob
        BY <1>1, <1>3, JobsAreJobs, CronAssumption DEF RemoveDelete, Db, TypeOK
    <2> QED BY <1>3, <2>1, EndKeepsTypes DEF RemoveDelete, TypeOK
<1>4. CASE HandleRunNowResult(p)
    BY <1>1, <1>4, JobsAreJobs, WriteKeepsTypes, EndKeepsTypes DEF HandleRunNowResult, TypeOK
<1>5. CASE RecordMissed(p)
    BY <1>1, <1>5, JobsAreJobs, WriteKeepsTypes, GotoKeepsTypes DEF RecordMissed, TypeOK
<1>6. CASE RescheduleMissed(p)
    <2>1. Rescheduled(job[p], row) \in CronJob /\ Rescheduled(job[p], job[p]) \in CronJob
        BY <1>1, JobsAreJobs
    <2>2. PICK ok \in BOOLEAN :
              /\ Write(Rescheduled(job[p], row), ok)
              /\ \/ Goto(p, "cancel", Rescheduled(job[p], job[p])) /\ UNCHANGED <<edit, editing>>
                 \/ End(p)
        BY <1>6 DEF RescheduleMissed
    <2> QED BY <1>6, <2>1, <2>2, WriteKeepsTypes, GotoKeepsTypes, EndKeepsTypes
            DEF RescheduleMissed, TypeOK
<1> QED BY <1>2, <1>3, <1>4, <1>5, <1>6 DEF Request

\* A restart.
LEMMA RestartTypes ==
    ASSUME TypeInv, Restart
    PROVE  TypeOK'
<1>1. NoJob \in CronJob /\ NoEdit \in UpdateRequest /\ "idle" \in Steps
    BY JobsAreJobs DEF Steps
<1>2. faults' \in 0 .. MaxFaults /\ lost' \in BOOLEAN /\ stored' \in {"new", "stored", "deleted"}
      /\ row' \in CronJob /\ timer' \in Running \cup {"none"} /\ restarts' \in 0 .. MaxRestarts
    BY <1>1, CronAssumption DEF Restart, Db, TypeInv, TypeOK, spawn_timer, Running
<1> QED BY <1>1, <1>2 DEF Restart, TypeInv, TypeOK

\* Only Execute lets a task retry.
LEMMA RetriesLeftKept ==
    ASSUME TypeInv, Next
    PROVE  RetriesLeft'
<1> SUFFICES ASSUME NEW q \in Procs, pc'[q] = "retry"
             PROVE  job'[q].retry < MaxRetries
    BY DEF RetriesLeft
<1>1. ASSUME NEW p \in Procs, Execute(p)
      PROVE  job'[q].retry < MaxRetries
    <2>1. PICK next \in {"settle", handle_busy(job[p])} : Goto(p, next, job[p])
        BY <1>1 DEF Execute
    <2>2. job[p].retry \in 0 .. MaxRetries
        BY DEF TypeInv, TypeOK, CronJob
    <2> QED BY <2>1, <2>2, CronAssumption DEF Goto, handle_busy, TypeInv, TypeOK, RetriesLeft
<1>2. ASSUME NEW p \in Procs, NEW step \in Steps \ {"retry"}, NEW held, Goto(p, step, held)
      PROVE  job'[q].retry < MaxRetries
    BY <1>2 DEF Goto, TypeInv, TypeOK, RetriesLeft
<1>3. ASSUME NEW p \in Procs, TickLoad(p) \/ RetryLater(p) \/ Settle(p) \/ Reschedule(p)
                              \/ Schedule(p) \/ TimerFires(p) \/ LeakedTimerFires(p)
      PROVE  job'[q].retry < MaxRetries
    BY <1>2, <1>3 DEF TickLoad, RetryLater, Settle, Reschedule, Schedule, ScheduleCancel,
                      ScheduleInsert, TimerFires, LeakedTimerFires, End, Steps
<1>4. ASSUME NEW p \in Procs, User(p)
      PROVE  job'[q].retry < MaxRetries
    BY <1>2, <1>4 DEF User, AddJob, UpdateRead, RemoveCancel, RunNow, SystemResume, Steps
<1>5. ASSUME NEW p \in Procs, Request(p)
      PROVE  job'[q].retry < MaxRetries
    BY <1>2, <1>5 DEF Request, UpdateWrite, RemoveDelete, HandleRunNowResult, RecordMissed,
                      RescheduleMissed, End, Steps
<1>6. CASE Restart
    BY <1>6 DEF Restart
<1> QED BY <1>1, <1>3, <1>4, <1>5, <1>6 DEF Next, Tick, Procs

\* Types are kept by every step.
LEMMA TypeStep == TypeInv /\ [Next]_vars => TypeInv'
<1> SUFFICES ASSUME TypeInv, [Next]_vars PROVE TypeInv'
    OBVIOUS
<1>1. CASE Next
    <2>1. TypeOK'
        BY <1>1, TimerTypes, TickTypes, UserTypes, RequestTypes, RestartTypes
           DEF Next, Schedule, Procs, TypeInv
    <2> QED BY <1>1, <2>1, RetriesLeftKept DEF TypeInv
<1>2. CASE UNCHANGED vars
    BY <1>2 DEF vars, TypeInv, TypeOK, RetriesLeft
<1> QED BY <1>1, <1>2

\* The types hold at the start.
LEMMA InitTypes == Init => TypeInv
<1> SUFFICES ASSUME Init PROVE TypeInv
    OBVIOUS
<1>1. NoJob \in CronJob /\ NoEdit \in UpdateRequest
    BY JobsAreJobs
<1>2. TypeOK
    <2>1. faults \in 0 .. MaxFaults /\ restarts \in 0 .. MaxRestarts
        BY CronAssumption DEF Init
    <2>2. pc \in [Procs -> Steps] /\ job \in [Procs -> CronJob] /\ edit \in [Procs -> UpdateRequest]
        BY <1>1 DEF Init, Steps
    <2>3. steady \in BOOLEAN /\ lost \in BOOLEAN
        BY DEF Init
    <2>4. /\ stored \in {"new", "stored", "deleted"} /\ row \in CronJob
          /\ timer \in Running \cup {"none", "spent"}
          /\ leaked \subseteq Running /\ editing \subseteq Requests
        BY <1>1 DEF Init
    <2> QED BY <2>1, <2>2, <2>3, <2>4 DEF TypeOK
<1>3. RetriesLeft
    BY DEF Init, RetriesLeft
<1> QED BY <1>2, <1>3 DEF TypeInv

\* The types hold throughout; in particular retry_count never passes
\* max_retries, however ticks overlap.
THEOREM CronTypes == Spec => []TypeOK
BY InitTypes, TypeStep, PTL DEF Spec, TypeInv

--------------------------------------------------------------------------------
\* The row of a job that is steady is that of a periodic one.
RowPeriodic == stored = "stored" => row.kind = "periodic" /\ row.timed

\* Edits do not overlap.
OneEdit == \A p, q \in editing : p = q

\* The copies that tasks hold: ticks and resumes hold an enabled periodic job,
\* an update holds one that agrees with the row it is going to leave, or left.
Copies(p) ==
    /\ pc[p] \in {"execute", "retry", "settle", "rearm", "missed", "rearmMissed"} =>
           job[p].kind = "periodic" /\ job[p].enabled
    /\ pc[p] = "update" => p \in editing /\ job[p].kind = "periodic" /\ job[p].timed
    /\ pc[p] \in {"cancel", "insert"} => job[p].timed /\ (p \notin editing => job[p].enabled)
    /\ p \in editing => /\ stored # "new" /\ pc[p] \in {"update", "cancel", "insert"}
                        /\ edit[p].kind \in {"keep", "periodic"}
    /\ p \in editing /\ stored = "stored" /\ pc[p] = "update" =>
           job[p].enabled = IF edit[p].enabled = "keep" THEN row.enabled
                                                        ELSE edit[p].enabled = "on"
    /\ p \in editing /\ stored = "stored" /\ pc[p] \in {"cancel", "insert"} =>
           job[p].enabled = row.enabled

\* Task p is about to arm the timer, or to make sure that it need not.
Arms(p) ==
    \/ pc[p] \in {"load", "execute", "retry", "settle", "rearm", "insert", "delete"}
    \/ pc[p] = "cancel" /\ job[p].enabled

\* An enabled job has a running timer or a task that arms one.
Covered ==
    ~lost /\ stored = "stored" /\ row.enabled => timer \in Running \/ \E p \in Procs : Arms(p)

\* The inductive invariant.
Steady ==
    steady => RowPeriodic /\ OneEdit /\ (\A p \in Procs : Copies(p)) /\ Covered

ArmedInv == TypeInv /\ Steady

\* What is assumed of a step that leaves the job steady.
StepsSteadily == ArmedInv /\ steady /\ steady' /\ TypeInv'

\* A tick starts.
LEMMA TimerFiresKeepsSteady ==
    ASSUME StepsSteadily, NEW p \in Procs, TimerFires(p) \/ LeakedTimerFires(p)
    PROVE  Steady'
<1> USE DEF StepsSteadily, ArmedInv, Steady, TimerFires, LeakedTimerFires, Goto
<1>1. pc' = [pc EXCEPT ![p] = "load"] /\ pc \in [Procs -> Steps] /\ job \in [Procs -> CronJob]
    BY DEF TypeInv, TypeOK
<1>2. RowPeriodic' /\ OneEdit'
    BY DEF RowPeriodic, OneEdit
<1>3. \A q \in Procs : Copies(q)'
    BY <1>1 DEF Copies
<1>4. Covered'
    BY <1>1 DEF Covered, Arms
<1> QED BY <1>2, <1>3, <1>4

\* schedule_job.
LEMMA ScheduleKeepsSteady ==
    ASSUME StepsSteadily, NEW p \in Procs, Schedule(p)
    PROVE  Steady'
<1> USE DEF StepsSteadily, ArmedInv, Steady
<1>1. pc \in [Procs -> Steps] /\ job \in [Procs -> CronJob] /\ edit \in [Procs -> UpdateRequest]
      /\ job[p].enabled \in BOOLEAN /\ row.enabled \in BOOLEAN
    BY DEF TypeInv, TypeOK, CronJob
<1>2. RowPeriodic' /\ OneEdit'
    BY DEF RowPeriodic, OneEdit, Schedule, ScheduleCancel, ScheduleInsert, End
<1>3. \A q \in Procs : Copies(q)'
    BY <1>1 DEF Copies, Schedule, ScheduleCancel, ScheduleInsert, End, Goto
<1>4. ASSUME ScheduleCancel(p) PROVE Covered'
    <2>1. job[p].timed /\ (p \notin editing => job[p].enabled)
          /\ (p \in editing /\ stored = "stored" => job[p].enabled = row.enabled)
        BY <1>4 DEF ScheduleCancel, Copies
    <2>2. CASE job[p].enabled
        <3>1. pc' = [pc EXCEPT ![p] = "insert"]
            BY <1>4, <2>1, <2>2 DEF ScheduleCancel, Goto
        <3> QED BY <1>1, <3>1 DEF Covered, Arms
    <2>3. CASE ~job[p].enabled
        BY <1>4, <2>1, <2>3 DEF ScheduleCancel, Covered
    <2> QED BY <2>2, <2>3
<1>5. ASSUME ScheduleInsert(p) PROVE Covered'
    BY <1>5 DEF ScheduleInsert, Covered, spawn_timer, Running
<1> QED BY <1>2, <1>3, <1>4, <1>5 DEF Schedule

\* The steps of a tick.  Writes leave an enabled periodic row enabled and timed.
LEMMA TickKeepsSteady ==
    ASSUME StepsSteadily, NEW p \in Procs, Tick(p)
    PROVE  Steady'
<1> USE DEF StepsSteadily, ArmedInv, Steady
<1>1. /\ pc \in [Procs -> Steps] /\ job \in [Procs -> CronJob] /\ edit \in [Procs -> UpdateRequest]
      /\ row \in CronJob /\ job[p] \in CronJob
    BY DEF TypeInv, TypeOK
<1>2. Copies(p) /\ RowPeriodic
    OBVIOUS
<1>3. CASE TickLoad(p)
    <2>1. PICK ok \in BOOLEAN :
              /\ lost' = (lost \/ (~ok /\ timer # "periodic"))
              /\ timer' = IF ok /\ stored # "stored" THEN "none" ELSE timer
              /\ IF ok /\ stored = "stored" /\ row.enabled
                     THEN Goto(p, "execute", row) /\ UNCHANGED <<edit, editing>>
                     ELSE End(p)
        BY <1>3 DEF TickLoad
    <2>2. pc[p] = "load" /\ UNCHANGED <<stored, row>>
        BY <1>3 DEF TickLoad
    <2>3. p \notin editing
        BY <1>2, <2>2 DEF Copies
    <2>4. RowPeriodic' /\ OneEdit'
        BY <2>1, <2>2 DEF RowPeriodic, OneEdit, End
    <2>5. \A q \in Procs : Copies(q)'
        BY <1>1, <2>1, <2>2, <2>3 DEF Copies, RowPeriodic, Goto, End
    <2>6. Covered'
        <3>1. CASE ok /\ stored = "stored" /\ row.enabled
            <4>1. pc' = [pc EXCEPT ![p] = "execute"]
                BY <2>1, <3>1 DEF Goto
            <4> QED BY <1>1, <4>1 DEF Arms, Covered
        <3>2. CASE ~(ok /\ stored = "stored" /\ row.enabled)
            BY <2>1, <2>2, <3>2 DEF Covered, Running
        <3> QED BY <3>1, <3>2
    <2> QED BY <2>4, <2>5, <2>6
<1>4. ASSUME NEW next \in {"retry", "settle", "rearm"}, NEW held \in {job[p], Copy(job[p])},
             Goto(p, next, held), pc[p] \in {"execute", "settle"}, row' \in {row, [row EXCEPT !.retry = 0]},
             UNCHANGED <<stored, timer, edit, editing, lost>>
      PROVE  Steady'
    <2>1. /\ row'.kind = row.kind /\ row'.timed = row.timed /\ row'.enabled = row.enabled
          /\ pc' = [pc EXCEPT ![p] = next] /\ job' = [job EXCEPT ![p] = held]
          /\ held.kind = job[p].kind /\ held.enabled = job[p].enabled
        BY <1>1, <1>4 DEF CronJob, Goto, Copy
    <2>2. RowPeriodic' /\ OneEdit'
        BY <1>4, <2>1 DEF RowPeriodic, OneEdit
    <2>3. \A q \in Procs : Copies(q)'
        BY <1>1, <1>2, <1>4, <2>1 DEF Copies
    <2>4. Covered'
        BY <1>1, <1>4, <2>1 DEF Covered, Arms
    <2> QED BY <2>2, <2>3, <2>4
<1>5. CASE Execute(p)
    BY <1>4, <1>5 DEF Execute, handle_busy
<1>6. CASE Settle(p)
    BY <1>4, <1>6 DEF Settle, Write
<1>7. ASSUME NEW held \in CronJob, Goto(p, "cancel", held), held.enabled, held.timed,
             pc[p] \in {"retry", "rearm"},
             row'.kind = row.kind, row'.timed = row.timed, row'.enabled = row.enabled,
             UNCHANGED <<stored, timer, edit, editing, lost>>
      PROVE  Steady'
    <2>1. pc' = [pc EXCEPT ![p] = "cancel"] /\ job' = [job EXCEPT ![p] = held] /\ p \notin editing
        BY <1>2, <1>7 DEF Goto, Copies
    <2>2. RowPeriodic' /\ OneEdit'
        BY <1>7, <2>1 DEF RowPeriodic, OneEdit
    <2>3. \A q \in Procs : Copies(q)'
        BY <1>1, <1>7, <2>1 DEF Copies
    <2>4. Covered'
        BY <1>1, <1>7, <2>1 DEF Covered, Arms
    <2> QED BY <2>2, <2>3, <2>4
<1>8. CASE RetryLater(p)
    <2>1. NewJob("at") \in CronJob /\ NewJob("at").enabled /\ NewJob("at").timed
        BY JobsAreJobs DEF NewJob, compute_next_run
    <2>2. row'.kind = row.kind /\ row'.timed = row.timed /\ row'.enabled = row.enabled
        BY <1>1, <1>8 DEF RetryLater, Write, CronJob
    <2> QED BY <1>7, <1>8, <2>1, <2>2 DEF RetryLater
<1>9. CASE Reschedule(p)
    <2>1. job[p].kind = "periodic" /\ job[p].enabled
        BY <1>2, <1>9 DEF Reschedule, Copies
    <2>2. \A r \in CronJob : Rescheduled(job[p], r) = [r EXCEPT !.timed = TRUE]
        BY <2>1 DEF Rescheduled, compute_next_run
    <2>3. Rescheduled(job[p], job[p]).enabled /\ Rescheduled(job[p], job[p]).timed
          /\ Rescheduled(job[p], job[p]) \in CronJob
        BY <1>1, <2>1, <2>2 DEF CronJob
    <2>4. ASSUME stored = "stored"
          PROVE  row'.kind = row.kind /\ row'.timed = row.timed /\ row'.enabled = row.enabled
        <3>1. row' \in {row, Rescheduled(job[p], row)}
            BY <1>9 DEF Reschedule, Write
        <3>2. Rescheduled(job[p], row) = [row EXCEPT !.timed = TRUE] /\ row.timed = TRUE
            BY <1>1, <1>2, <2>2, <2>4 DEF RowPeriodic, CronJob
        <3> QED BY <1>1, <3>1, <3>2 DEF CronJob
    <2>5. stored # "stored" => row' = row
        BY <1>9 DEF Reschedule, Write
    <2> QED BY <1>7, <1>9, <2>3, <2>4, <2>5 DEF Reschedule
<1> QED BY <1>3, <1>5, <1>6, <1>8, <1>9 DEF Tick

\* The first steps of the requests.
LEMMA UserKeepsSteady ==
    ASSUME StepsSteadily, NEW p \in Requests, User(p)
    PROVE  Steady'
<1> USE DEF StepsSteadily, ArmedInv, Steady
<1>1. /\ pc \in [Procs -> Steps] /\ job \in [Procs -> CronJob] /\ edit \in [Procs -> UpdateRequest]
      /\ row \in CronJob /\ p \in Procs
    BY DEF TypeInv, TypeOK, Procs
<1>2. Copies(p) /\ RowPeriodic
    BY <1>1
<1>3. ASSUME NEW kind \in Kinds, AddJob(p, kind) PROVE Steady'
    <2>1. kind = "periodic" /\ editing = {} /\ editing' = {} /\ stored = "new"
        BY <1>1, <1>3 DEF AddJob, Copies, TypeInv, TypeOK, Procs
    <2>2. /\ pc' = [pc EXCEPT ![p] = "cancel"] /\ job' = [job EXCEPT ![p] = NewJob(kind)]
          /\ row' = NewJob(kind) /\ NewJob(kind).enabled /\ NewJob(kind).timed
          /\ NewJob(kind).kind = "periodic"
        BY <1>3, <2>1 DEF AddJob, Goto, NewJob, compute_next_run
    <2>3. RowPeriodic' /\ OneEdit'
        BY <2>1, <2>2 DEF RowPeriodic, OneEdit
    <2>4. \A q \in Procs : Copies(q)'
        BY <1>1, <2>1, <2>2 DEF Copies
    <2>5. Covered'
        BY <1>1, <2>2 DEF Covered, Arms
    <2> QED BY <2>3, <2>4, <2>5
<1>4. ASSUME NEW req \in UpdateRequest, UpdateRead(p, req) PROVE Steady'
    <2>1. editing = {} /\ editing' = {p} /\ req.kind \in {"keep", "periodic"}
        BY <1>4 DEF UpdateRead
    <2>2. /\ pc' = [pc EXCEPT ![p] = "update"] /\ job' = [job EXCEPT ![p] = Merged(row, req)]
          /\ edit' = [edit EXCEPT ![p] = req]
          /\ stored = "stored" /\ UNCHANGED <<stored, row, timer, lost>> /\ pc[p] = "idle"
        BY <1>4 DEF UpdateRead, Goto
    <2>3. /\ Merged(row, req).kind = "periodic" /\ Merged(row, req).timed
          /\ Merged(row, req).enabled =
                 IF req.enabled = "keep" THEN row.enabled ELSE req.enabled = "on"
        BY <1>1, <1>2, <2>1, <2>2 DEF Merged, Copy, compute_next_run, RowPeriodic, CronJob
    <2>4. RowPeriodic' /\ OneEdit'
        BY <1>2, <2>1, <2>2 DEF RowPeriodic, OneEdit
    <2>5. \A q \in Procs : Copies(q)'
        BY <1>1, <2>1, <2>2, <2>3 DEF Copies
    <2>6. Covered'
        BY <1>1, <2>2 DEF Covered, Arms
    <2> QED BY <2>4, <2>5, <2>6
<1>5. ASSUME NEW step \in {"delete", "runNow", "missed", "cancel"}, NEW held, Goto(p, step, held),
             pc[p] = "idle", step \in {"missed", "cancel"} => held = Copy(row) /\ row.enabled,
             stored = "stored", timer' = timer \/ step = "delete",
             UNCHANGED <<stored, row, edit, editing, lost>>
      PROVE  Steady'
    <2>1. pc' = [pc EXCEPT ![p] = step] /\ job' = [job EXCEPT ![p] = held] /\ p \notin editing
        BY <1>2, <1>5 DEF Goto, Copies
    <2>2. Copy(row).kind = row.kind /\ Copy(row).timed = row.timed /\ Copy(row).enabled = row.enabled
        BY <1>1 DEF Copy, CronJob
    <2>3. RowPeriodic' /\ OneEdit'
        BY <1>5 DEF RowPeriodic, OneEdit
    <2>4. \A q \in Procs : Copies(q)'
        BY <1>1, <1>2, <1>5, <2>1, <2>2 DEF Copies, RowPeriodic
    <2>5. Covered'
        BY <1>1, <1>5, <2>1, <2>2 DEF Covered, Arms
    <2> QED BY <2>3, <2>4, <2>5
<1>6. ASSUME RemoveCancel(p) \/ RunNow(p) \/ SystemResume(p) PROVE Steady'
    BY <1>5, <1>6 DEF RemoveCancel, RunNow, SystemResume
<1> QED BY <1>3, <1>4, <1>6 DEF User

\* The further steps of the requests.
LEMMA RequestKeepsSteady ==
    ASSUME StepsSteadily, NEW p \in Procs, Request(p)
    PROVE  Steady'
<1> USE DEF StepsSteadily, ArmedInv, Steady
<1>1. /\ pc \in [Procs -> Steps] /\ job \in [Procs -> CronJob] /\ edit \in [Procs -> UpdateRequest]
      /\ row \in CronJob /\ job[p] \in CronJob /\ edit[p] \in UpdateRequest
    BY DEF TypeInv, TypeOK
<1>2. Copies(p) /\ RowPeriodic
    OBVIOUS
<1>3. ASSUME UpdateWrite(p) PROVE Steady'
    <2>1. PICK ok \in BOOLEAN :
              /\ Write(Updated(row, edit[p], job[p]), ok)
              /\ IF ok /\ (stored = "stored" \/ edit[p] = NoEdit)
                     THEN /\ Goto(p, "cancel", job[p])
                          /\ edit' = [edit EXCEPT ![p] = NoEdit] /\ UNCHANGED editing
                     ELSE End(p)
        BY <1>3 DEF UpdateWrite
    <2>2. /\ pc[p] = "update" /\ UNCHANGED <<stored, timer, lost>>
          /\ p \in editing /\ job[p].kind = "periodic" /\ job[p].timed
        BY <1>2, <1>3 DEF UpdateWrite, Copies
    <2>3. CASE ok /\ stored = "stored"
        <3>1. row' = Updated(row, edit[p], job[p]) /\ pc' = [pc EXCEPT ![p] = "cancel"]
              /\ job' = [job EXCEPT ![p] = job[p]] /\ edit' = [edit EXCEPT ![p] = NoEdit]
              /\ UNCHANGED editing
            BY <2>1, <2>3 DEF Write, Goto
        <3>2. row'.enabled = IF edit[p].enabled = "keep" THEN row.enabled
                                                          ELSE edit[p].enabled = "on"
            BY <1>1, <3>1 DEF Updated, CronJob
        <3>3. row'.enabled = job[p].enabled
            BY <1>2, <2>2, <2>3, <3>2 DEF Copies
        <3>4. row'.timed
            BY <1>1, <1>2, <2>2, <2>3, <3>1 DEF Updated, CronJob, RowPeriodic
        <3>5. row'.kind = "periodic"
            <4>1. edit[p].kind \in {"keep", "periodic"}
                BY <1>2, <2>2 DEF Copies
            <4> QED BY <1>1, <1>2, <2>3, <3>1, <4>1 DEF Updated, CronJob, RowPeriodic
        <3>6. RowPeriodic' /\ OneEdit'
            BY <3>1, <3>4, <3>5 DEF RowPeriodic, OneEdit
        <3>7. \A q \in Procs : Copies(q)'
            BY <1>1, <2>2, <3>1, <3>3 DEF Copies, OneEdit, NoEdit
        <3>8. Covered'
            BY <1>1, <3>1, <3>3 DEF Covered, Arms
        <3> QED BY <3>6, <3>7, <3>8
    <2>4. CASE ok /\ stored # "stored" /\ edit[p] = NoEdit
        <3>1. row' = row /\ pc' = [pc EXCEPT ![p] = "cancel"] /\ job' = [job EXCEPT ![p] = job[p]]
              /\ edit' = [edit EXCEPT ![p] = NoEdit] /\ UNCHANGED editing
            BY <2>1, <2>4 DEF Write, Goto
        <3>2. RowPeriodic' /\ OneEdit'
            BY <2>2, <2>4, <3>1 DEF RowPeriodic, OneEdit
        <3>3. \A q \in Procs : Copies(q)'
            BY <1>1, <2>2, <2>4, <3>1 DEF Copies, NoEdit
        <3>4. Covered'
            BY <2>2, <2>4 DEF Covered
        <3> QED BY <3>2, <3>3, <3>4
    <2>5. CASE ~(ok /\ (stored = "stored" \/ edit[p] = NoEdit))
        <3>1. row' = row /\ pc' = [pc EXCEPT ![p] = "idle"] /\ job' = [job EXCEPT ![p] = NoJob]
              /\ editing' = editing \ {p} /\ edit' = [edit EXCEPT ![p] = NoEdit]
            BY <2>1, <2>5 DEF Write, End, Goto
        <3>2. RowPeriodic' /\ OneEdit'
            BY <2>2, <3>1 DEF RowPeriodic, OneEdit
        <3>3. \A q \in Procs : Copies(q)'
            BY <1>1, <2>2, <3>1 DEF Copies
        <3>4. Covered'
            BY <1>1, <2>2, <3>1 DEF Covered, Arms
        <3> QED BY <3>2, <3>3, <3>4
    <2> QED BY <2>3, <2>4, <2>5
<1>4. ASSUME RemoveDelete(p) PROVE Steady'
    <2>1. PICK ok \in BOOLEAN :
              /\ lost' = (lost \/ ~ok)
              /\ stored' = IF ok THEN "deleted" ELSE stored
              /\ row' = IF ok THEN NoJob ELSE row
        BY <1>4 DEF RemoveDelete
    <2>2. /\ pc' = [pc EXCEPT ![p] = "idle"] /\ job' = [job EXCEPT ![p] = NoJob]
          /\ editing' = editing \ {p} /\ edit' = [edit EXCEPT ![p] = NoEdit]
        BY <1>4 DEF RemoveDelete, End, Goto
    <2>3. RowPeriodic' /\ OneEdit'
        BY <2>1, <2>2 DEF RowPeriodic, OneEdit
    <2>4. \A q \in Procs : Copies(q)'
        BY <1>1, <2>1, <2>2 DEF Copies
    <2>5. Covered'
        BY <2>1 DEF Covered
    <2> QED BY <2>3, <2>4, <2>5
<1>5. ASSUME NEW step \in {"idle", "rearmMissed", "cancel"}, NEW held, Goto(p, step, held),
             pc[p] \in {"runNow", "missed", "rearmMissed"},
             \/ step = "idle"
             \/ step = "cancel" /\ held.enabled /\ held.timed
             \/ step = "rearmMissed" /\ pc[p] = "missed" /\ held = job[p],
             row'.kind = row.kind, row'.timed = row.timed, row'.enabled = row.enabled,
             UNCHANGED <<stored, timer, lost>>,
             editing' \in {editing, editing \ {p}},
             edit' \in {edit, [edit EXCEPT ![p] = NoEdit]}
      PROVE  Steady'
    <2>1. pc' = [pc EXCEPT ![p] = step] /\ job' = [job EXCEPT ![p] = held] /\ p \notin editing
          /\ editing' = editing
        BY <1>2, <1>5 DEF Goto, Copies
    <2>2. RowPeriodic' /\ OneEdit'
        BY <1>5, <2>1 DEF RowPeriodic, OneEdit
    <2>3. \A q \in Procs : Copies(q)'
        BY <1>1, <1>2, <1>5, <2>1 DEF Copies
    <2>4. Covered'
        BY <1>1, <1>5, <2>1 DEF Covered, Arms
    <2> QED BY <2>2, <2>3, <2>4
<1>6. ASSUME HandleRunNowResult(p) \/ RecordMissed(p) PROVE Steady'
    <2>1. row'.kind = row.kind /\ row'.timed = row.timed /\ row'.enabled = row.enabled
        BY <1>1, <1>6 DEF HandleRunNowResult, RecordMissed, Write, CronJob
    <2> QED BY <1>5, <1>6, <2>1 DEF HandleRunNowResult, RecordMissed, End
<1>7. ASSUME RescheduleMissed(p) PROVE Steady'
    <2>1. job[p].kind = "periodic" /\ job[p].enabled /\ pc[p] = "rearmMissed"
        BY <1>2, <1>7 DEF RescheduleMissed, Copies
    <2>2. \A r \in CronJob : Rescheduled(job[p], r) = [r EXCEPT !.timed = TRUE]
        BY <2>1 DEF Rescheduled, compute_next_run
    <2>3. /\ Rescheduled(job[p], job[p]).enabled /\ Rescheduled(job[p], job[p]).timed
          /\ Rescheduled(job[p], job[p]).kind = "periodic"
        BY <1>1, <2>1, <2>2 DEF CronJob
    <2>4. PICK ok \in BOOLEAN :
              /\ Write(Rescheduled(job[p], row), ok)
              /\ \/ Goto(p, "cancel", Rescheduled(job[p], job[p])) /\ UNCHANGED <<edit, editing>>
                 \/ End(p)
        BY <1>7 DEF RescheduleMissed
    <2>5. row'.kind = row.kind /\ row'.timed = row.timed /\ row'.enabled = row.enabled
        <3>1. row' = row \/ (stored = "stored" /\ row' = Rescheduled(job[p], row))
            BY <2>4 DEF Write
        <3>2. stored = "stored" =>
                  Rescheduled(job[p], row) = [row EXCEPT !.timed = TRUE] /\ row.timed = TRUE
            BY <1>1, <1>2, <2>2 DEF RowPeriodic, CronJob
        <3> QED BY <1>1, <3>1, <3>2 DEF CronJob
    <2>6. UNCHANGED <<stored, timer, lost>>
        BY <1>7 DEF RescheduleMissed
    <2>7. CASE Goto(p, "cancel", Rescheduled(job[p], job[p])) /\ UNCHANGED <<edit, editing>>
        BY <1>5, <2>1, <2>3, <2>5, <2>6, <2>7
    <2>8. CASE End(p)
        BY <1>5, <2>1, <2>5, <2>6, <2>8 DEF End
    <2> QED BY <2>4, <2>7, <2>8
<1> QED BY <1>3, <1>4, <1>6, <1>7 DEF Request

\* A restart: the jobs that init lists are armed, the others are disabled,
\* gone, or lost with a failed list or a failed delete of an orphan.
LEMMA RestartKeepsSteady ==
    ASSUME StepsSteadily, Restart
    PROVE  Steady'
<1> USE DEF StepsSteadily, ArmedInv, Steady
<1>1. PICK ok \in BOOLEAN, orphan \in BOOLEAN :
          /\ lost' = (lost \/ ~ok)
          /\ stored' = IF orphan /\ ok THEN "deleted" ELSE stored
          /\ row' = IF orphan /\ ok THEN NoJob ELSE row
          /\ timer' = IF ok /\ ~orphan /\ stored = "stored" /\ row.enabled /\ row.timed
                          THEN spawn_timer(row.kind) ELSE "none"
    BY DEF Restart
<1>2. RowPeriodic' /\ OneEdit'
    BY <1>1 DEF Restart, RowPeriodic, OneEdit
<1>3. \A q \in Procs : Copies(q)'
    BY DEF Restart, Copies
<1>4. Covered'
    BY <1>1 DEF Covered, RowPeriodic, spawn_timer, Running
<1> QED BY <1>2, <1>3, <1>4

\* A job that was not steady never is again.
LEMMA SteadyIsLost == TypeOK /\ Next /\ steady' => steady
<1> SUFFICES ASSUME TypeOK, Next, steady' PROVE steady
    OBVIOUS
<1>1. ASSUME NEW p \in Procs, Tick(p)
      PROVE  steady
    <2>1. CASE TickLoad(p)
        BY <2>1 DEF TickLoad
    <2>2. CASE Execute(p)
        BY <2>2 DEF Execute
    <2>3. CASE RetryLater(p)
        BY <2>3 DEF RetryLater
    <2>4. CASE Settle(p)
        BY <2>4 DEF Settle
    <2>5. CASE Reschedule(p)
        BY <2>5 DEF Reschedule
    <2> QED BY <1>1, <2>1, <2>2, <2>3, <2>4, <2>5 DEF Tick
<1>2. ASSUME NEW p \in Procs, Schedule(p) \/ TimerFires(p) \/ LeakedTimerFires(p)
      PROVE  steady
    BY <1>2 DEF Schedule, ScheduleCancel, ScheduleInsert, TimerFires, LeakedTimerFires
<1>3. ASSUME NEW p \in Procs, User(p)
      PROVE  steady
    BY <1>3 DEF User, AddJob, UpdateRead, RemoveCancel, RunNow, SystemResume
<1>4. ASSUME NEW p \in Procs, Request(p)
      PROVE  steady
    <2>1. CASE UpdateWrite(p)
        BY <2>1 DEF UpdateWrite
    <2>2. CASE RemoveDelete(p)
        BY <2>2 DEF RemoveDelete
    <2>3. CASE HandleRunNowResult(p)
        BY <2>3 DEF HandleRunNowResult
    <2>4. CASE RecordMissed(p)
        BY <2>4 DEF RecordMissed
    <2>5. CASE RescheduleMissed(p)
        BY <2>5 DEF RescheduleMissed
    <2> QED BY <1>4, <2>1, <2>2, <2>3, <2>4, <2>5 DEF Request
<1>5. CASE Restart
    BY <1>5 DEF Restart
<1> QED BY <1>1, <1>2, <1>3, <1>4, <1>5 DEF Next, Procs

\* Every step keeps the inductive invariant.
LEMMA ArmedStep == ArmedInv /\ [Next]_vars => ArmedInv'
<1> SUFFICES ASSUME ArmedInv, [Next]_vars PROVE ArmedInv'
    OBVIOUS
<1>1. TypeInv'
    BY TypeStep DEF ArmedInv
<1>2. CASE Next
    <2>1. ASSUME steady' PROVE Steady'
        <3>1. StepsSteadily
            BY <1>1, <1>2, <2>1, SteadyIsLost DEF StepsSteadily, ArmedInv, TypeInv
        <3> QED BY <1>2, <3>1, TimerFiresKeepsSteady, ScheduleKeepsSteady, TickKeepsSteady,
                   UserKeepsSteady, RequestKeepsSteady, RestartKeepsSteady DEF Next, Procs
    <2> QED BY <1>1, <2>1 DEF ArmedInv, Steady
<1>3. CASE UNCHANGED vars
    BY <1>1, <1>3 DEF ArmedInv, Steady, vars, RowPeriodic, OneEdit, Copies, Covered, Arms
<1> QED BY <1>2, <1>3

\* An enabled periodic job is never left without a timer, however many ticks
\* overlap with however many requests and restarts.
THEOREM PeriodicJobsStayArmed == Spec => []PeriodicStaysArmed
<1>1. Init => ArmedInv
    <2> SUFFICES ASSUME Init PROVE ArmedInv
        OBVIOUS
    <2>1. RowPeriodic /\ OneEdit /\ Covered
        BY DEF Init, RowPeriodic, OneEdit, Covered
    <2>2. \A p \in Procs : Copies(p)
        BY DEF Init, Copies
    <2> QED BY <2>1, <2>2, InitTypes DEF ArmedInv, Steady
<1>2. ArmedInv => PeriodicStaysArmed
    BY DEF ArmedInv, Steady, Covered, Arms, PeriodicStaysArmed, Quiet
<1> QED BY <1>1, <1>2, ArmedStep, PTL DEF Spec
==============================================================================
