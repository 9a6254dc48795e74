------------------------------- MODULE TaskBoard -------------------------------
(***************************************************************************)
(* The task board of one team (crates/aionui-team/src/task_board.rs) over   *)
(* its table (crates/aionui-db/src/repository/sqlite_team.rs).              *)
(*                                                                         *)
(* A dependency is stored twice: in the blocked_by column of the waiting    *)
(* task and in the blocks column of the task it waits for.  create_task     *)
(* and update_task are called by the MCP server on behalf of the agents,    *)
(* each call of an agent in its own task, and write the two columns in       *)
(* separate statements.  Every statement may fail (a busy database), which   *)
(* ends the call with what it has written so far.                           *)
(*                                                                         *)
(* Rows are removed only with the whole team, which is not modelled, so the  *)
(* existence check of create_task can not become stale and is one step with  *)
(* the INSERT.                                                             *)
(***************************************************************************)
EXTENDS Naturals, FiniteSets

CONSTANTS
    Agents,     \* the agents of the team: one tool call each at a time
    Tasks,      \* the ids generate_id returns, at most one row each
    Statuses,   \* those of TaskStatus: the code tells "completed" from the others
    MaxUpsets   \* bound: failed statements plus updates of a blocked_by list

ASSUME BoardAssumption ==
    /\ {"pending", "completed"} \subseteq Statuses
    /\ Statuses \subseteq {"pending", "in_progress", "completed", "deleted"}
    /\ MaxUpsets \in Nat

VARIABLES
    row,     \* task |-> its row of team_tasks
    call,    \* agent |-> the call it has under way
    late,    \* history: links written after a completing call read the row
    owed,    \* history: tasks that were waiting when their dependency completed
    broken,  \* history: links and unblocks given up after a failed statement
    edits    \* history: the number of blocked_by edits, and their tasks

vars == <<row, call, late, owed, broken, edits>>

Absent == [status |-> "absent", blocked_by |-> {}, blocks |-> {}]
Idle == [op |-> "idle"]

\* The optional fields of a TaskUpdate: a status or "keep", and the set that
\* holds the new blocked_by list, if any.
KeepStatus == "keep"
KeepList == {}
Given(list) == {list}

CanUpset == Cardinality(broken) + edits.n < MaxUpsets

Exists(t) == row[t] # Absent

\* `dep` is a dependency of t that some call has still to copy into blocks.
Linking(dep, t) ==
    \E a \in Agents : call[a].op = "link" /\ call[a].task = t /\ dep \in call[a].ids

\* Some completing call has still to take `dep` out of blocked_by of t.
Unblocking(dep, t) ==
    \E a \in Agents :
        call[a].op = "unblock" /\ call[a].task = dep /\ t \in call[a].ids

\* `dep` completed without unblocking t, or a call is about to complete it with
\* a copy of the row in which t is not listed.
Overlooks(dep, t) ==
    \/ <<dep, t>> \in owed
    \/ \E a \in Agents :
        /\ call[a].op = "write" /\ call[a].task = dep
        /\ call[a].status = "completed" /\ t \notin call[a].ids

Init ==
    /\ row = [t \in Tasks |-> Absent]
    /\ call = [a \in Agents |-> Idle]
    /\ late = {} /\ owed = {} /\ broken = {}
    /\ edits = [n |-> 0, of |-> {}]

(***************************************************************************)
(* create_task                                                             *)
(***************************************************************************)
\* Every dependency exists; the row is inserted with its blocked_by list.
CreateTask(a, t, deps) ==
    /\ call[a] = Idle
    /\ ~Exists(t)
    /\ \A d \in deps : Exists(d)
    /\ row' = [row EXCEPT ![t] =
                [status |-> "pending", blocked_by |-> deps, blocks |-> {}]]
    /\ call' = [call EXCEPT ![a] =
                IF deps = {} THEN Idle ELSE [op |-> "link", task |-> t, ids |-> deps]]
    /\ UNCHANGED <<late, owed, broken, edits>>

\* Faulty variant of Advance: the call does not return after the last id.
AdvanceForEver(a, id) == call' = [call EXCEPT ![a].ids = @ \ {id}]

\* Faulty variant of Advance: the call returns after its first id.
AdvanceOnce(a, id) == call' = [call EXCEPT ![a] = Idle]

\* The call goes on to the next id of its list, and returns after the last.
Advance(a, id) ==
    call' = IF call[a].ids = {id} THEN [call EXCEPT ![a] = Idle]
            ELSE [call EXCEPT ![a].ids = @ \ {id}]

\* Faulty variant of Appended: the column is overwritten.
AppendedAlone(blocks, t) == {t}

\* A blocks column with one more task.
Appended(blocks, t) == blocks \cup {t}

\* append_to_blocks reads, extends and writes the column in one transaction.
AppendToBlocks(a, dep) ==
    /\ call[a].op = "link" /\ dep \in call[a].ids
    /\ LET t == call[a].task IN
        /\ row' = [row EXCEPT ![dep].blocks = Appended(@, t)]
        /\ late' = IF t \notin edits.of /\ Overlooks(dep, t) THEN late \cup {<<dep, t>>} ELSE late
    /\ Advance(a, dep)
    /\ UNCHANGED <<owed, broken, edits>>

(***************************************************************************)
(* update_task                                                             *)
(***************************************************************************)
\* The row is read; its blocks column is what check_unblocks will use.
ReadTask(a, t, status, list) ==
    /\ call[a] = Idle
    /\ Exists(t)
    /\ list # KeepList => CanUpset
    /\ call' = [call EXCEPT ![a] =
                [op |-> "write", task |-> t, status |-> status, list |-> list,
                 ids |-> row[t].blocks]]
    /\ IF list = KeepList
       THEN UNCHANGED <<edits, late, owed>>
       ELSE /\ edits' = [n |-> edits.n + 1, of |-> edits.of \cup {t}]
            /\ late' = {p \in late : p[2] # t}
            /\ owed' = {p \in owed : p[2] # t}
    /\ UNCHANGED <<row, broken>>

\* The tasks that wait for `dep`, those with an edited list apart.
Waiting(dep) == {t \in Tasks \ edits.of : dep \in row[t].blocked_by}

\* Faulty variant of Unblocks: every update unblocks, whatever its status.
UnblocksAlways(status) == TRUE

\* The updates after which update_task calls check_unblocks.
Unblocks(status) == status = "completed"

\* UPDATE of the given columns; a new blocked_by list is written as it is,
\* neither checked nor copied into blocks.  A completed task unblocks the
\* tasks of the copy read before.
WriteTask(a) ==
    LET c == call[a] IN
    /\ c.op = "write"
    /\ row' = [row EXCEPT
                ![c.task].status = IF c.status = KeepStatus THEN @ ELSE c.status,
                ![c.task].blocked_by = IF c.list = KeepList THEN @ ELSE UNION c.list]
    /\ call' = [call EXCEPT ![a] =
                IF Unblocks(c.status) /\ c.ids # {}
                THEN [op |-> "unblock", task |-> c.task, ids |-> c.ids] ELSE Idle]
    /\ owed' = IF c.status = "completed"
               THEN owed \cup {<<c.task, t>> : t \in Waiting(c.task)} ELSE owed
    /\ UNCHANGED <<late, broken, edits>>

\* remove_from_blocked_by, for one task of the copy.
RemoveFromBlockedBy(a, t) ==
    /\ call[a].op = "unblock" /\ t \in call[a].ids
    /\ row' = [row EXCEPT ![t].blocked_by = @ \ {call[a].task}]
    /\ owed' = owed \ {<<call[a].task, t>>}
    /\ late' = late \ {<<call[a].task, t>>}
    /\ Advance(a, t)
    /\ UNCHANGED <<broken, edits>>

(***************************************************************************)
(* A statement fails: `?` ends the call where it is.                        *)
(***************************************************************************)
Fails(a) ==
    LET c == call[a] IN
    /\ c.op \in {"link", "write", "unblock"}
    /\ CanUpset
    /\ call' = [call EXCEPT ![a] = Idle]
    /\ broken' = broken \cup {[op |-> c.op, task |-> c.task, ids |-> c.ids]}
    /\ UNCHANGED <<row, late, owed, edits>>

GaveUp(op, t, id) == \E b \in broken : b.op = op /\ b.task = t /\ id \in b.ids

Create(a) == \E t \in Tasks : \E deps \in SUBSET Tasks : CreateTask(a, t, deps)
Update(a) ==
    \E t \in Tasks, status \in Statuses \cup {KeepStatus} :
        \/ ReadTask(a, t, status, KeepList)
        \/ \E list \in SUBSET {x \in Tasks : Exists(x)} : ReadTask(a, t, status, Given(list))

Next == \E a \in Agents :
    \/ Create(a) \/ Update(a) \/ WriteTask(a) \/ Fails(a)
    \/ \E id \in Tasks : AppendToBlocks(a, id) \/ RemoveFromBlockedBy(a, id)

Spec == Init /\ [][Next]_vars

(***************************************************************************)
(* Properties                                                              *)
(***************************************************************************)
Row == {Absent} \cup
       [status : Statuses, blocked_by : SUBSET Tasks, blocks : SUBSET Tasks]
Call == {Idle}
    \cup [op : {"link", "unblock"}, task : Tasks, ids : SUBSET Tasks]
    \cup [op : {"write"}, task : Tasks, status : Statuses \cup {KeepStatus},
          list : {KeepList} \cup {Given(l) : l \in SUBSET Tasks}, ids : SUBSET Tasks]
Failure == [op : {"link", "write", "unblock"}, task : Tasks, ids : SUBSET Tasks]

\* Every column holds ids of tasks, and a call in its loop has an id left.
TypeOK ==
    /\ row \in [Tasks -> Row]
    /\ call \in [Agents -> Call]
    /\ \A a \in Agents : call[a].op \in {"link", "unblock"} => call[a].ids # {}
    /\ late \subseteq Tasks \X Tasks
    /\ owed \subseteq Tasks \X Tasks
    /\ broken \subseteq Failure
    /\ edits \in [n : Nat, of : SUBSET Tasks]

\* The two columns agree (create_task, "writes back the blocks of the task it
\* depends on"): a dependency without its mirror is being linked, or its
\* create_task failed on the way, or an update wrote the blocked_by list.
LinksMirrored ==
    \A t, dep \in Tasks :
        (dep \in row[t].blocked_by /\ t \notin row[dep].blocks) =>
            \/ Linking(dep, t)
            \/ GaveUp("link", t, dep)
            \/ t \in edits.of

\* check_unblocks reaches everyone it can know of: a task that waited for a
\* dependency when it completed, and still does, is about to be unblocked, or
\* entered the blocks column after the completing call had read it, or has not
\* entered it yet; failed statements apart (owed leaves out edited lists).
CompletionUnblocks ==
    \A dep, t \in Tasks : <<dep, t>> \in owed =>
        \/ Unblocking(dep, t)
        \/ Linking(dep, t)
        \/ <<dep, t>> \in late
        \/ GaveUp("link", t, dep) \/ GaveUp("unblock", dep, t)

\* A dependency leaves a blocked_by list only because it completed, or with an
\* edit of the list: no task is started before what it waits for was done.
ReleasedByCompletion ==
    [][\A t, dep \in Tasks :
        (dep \in row[t].blocked_by /\ dep \notin row'[t].blocked_by) =>
            <<dep, t>> \in owed \/ t \in edits.of]_vars

\* "When a task completes, its id is taken out of blocked_by of the tasks that
\* depend on it" (docs/phase1/backend-audit.md): between calls, with no failed
\* statement and no edited list, no task waits for one that completed after
\* the dependency was recorded.
CompletedTasksBlockNobody ==
    ((\A a \in Agents : call[a] = Idle) /\ broken = {} /\ edits.n = 0) => owed = {}
================================================================================
