----------------------------- MODULE TaskBoardProofs -----------------------------
(***************************************************************************)
(* The task board for any number of agents, tasks, failed statements and    *)
(* edits.  The inductive invariant adds to the two properties what the ids   *)
(* held by a call refer to, and how the copy of a completing call falls      *)
(* behind the row.                                                         *)
(***************************************************************************)
EXTENDS TaskBoard, TLAPS

\* The ids in the columns and in the calls are those of existing rows.
RefsExist ==
    /\ \A t \in Tasks : \A x \in row[t].blocks : Exists(x)
    /\ \A a \in Agents : call[a] # Idle =>
        /\ Exists(call[a].task)
        /\ \A x \in call[a].ids : Exists(x)

\* A call with a new list has noted it.
EditsNoted ==
    \A a \in Agents :
        (call[a].op = "write" /\ call[a].list # KeepList) => call[a].task \in edits.of

\* What is owed is still waited for.
OwedWait ==
    \A dep, t \in Tasks : <<dep, t>> \in owed =>
        dep \in row[t].blocked_by /\ t \notin edits.of

\* A link that the copy of a completing call does not show is late.
MissedAreLate ==
    \A a \in Agents, t \in Tasks :
        (/\ call[a].op = "write" /\ call[a].status = "completed"
         /\ t \in row[call[a].task].blocks \ call[a].ids
         /\ call[a].task \in row[t].blocked_by
         /\ t \notin edits.of) => <<call[a].task, t>> \in late

\* check_unblocks takes out only what is owed.
UnblocksOwed ==
    \A a \in Agents, t \in Tasks :
        (/\ call[a].op = "unblock" /\ t \in call[a].ids
         /\ call[a].task \in row[t].blocked_by
         /\ t \notin edits.of) => <<call[a].task, t>> \in owed

BoardInv ==
    /\ TypeOK
    /\ RefsExist
    /\ EditsNoted
    /\ LinksMirrored
    /\ OwedWait
    /\ MissedAreLate
    /\ CompletionUnblocks
    /\ UnblocksOwed

\* A row that exists has the three columns, and no other row is absent.
LEMMA Rows ==
    ASSUME TypeOK, NEW t \in Tasks
    PROVE  /\ row[t].status \in Statuses \cup {"absent"}
           /\ row[t].blocked_by \in SUBSET Tasks
           /\ row[t].blocks \in SUBSET Tasks
           /\ Exists(t) <=> row[t].status # "absent"
           /\ ~Exists(t) => row[t].blocked_by = {} /\ row[t].blocks = {}
           /\ Exists(t) => row[t] \in [status : Statuses, blocked_by : SUBSET Tasks, blocks : SUBSET Tasks]
BY BoardAssumption DEF TypeOK, Row, Absent, Exists

\* A call is idle, links or unblocks the ids it has left, or writes.
LEMMA Calls ==
    ASSUME TypeOK, NEW a \in Agents
    PROVE  /\ call[a] # Idle <=> call[a].op \in {"link", "unblock", "write"}
           /\ call[a] = Idle => call[a].op = "idle"
           /\ call[a].op \in {"link", "unblock", "write"} =>
                call[a].task \in Tasks /\ call[a].ids \in SUBSET Tasks
           /\ call[a].op \in {"link", "unblock"} => call[a].ids # {}
           /\ call[a].op = "write" =>
                /\ call[a].status \in Statuses \cup {KeepStatus}
                /\ call[a].list = KeepList \/ \E l \in SUBSET Tasks : call[a].list = {l}
<1>1. call[a] \in Call
    BY DEF TypeOK
<1>2. CASE call[a] = Idle
    BY <1>2 DEF Idle
<1>3. CASE call[a] \in [op : {"link", "unblock"}, task : Tasks, ids : SUBSET Tasks]
    BY <1>3 DEF TypeOK, Idle
<1>4. CASE call[a] \in [op : {"write"}, task : Tasks, status : Statuses \cup {KeepStatus},
                        list : {KeepList} \cup {Given(l) : l \in SUBSET Tasks}, ids : SUBSET Tasks]
    BY <1>4 DEF Idle, Given
<1> QED BY <1>1, <1>2, <1>3, <1>4 DEF Call
\* create_task inserts the row: its dependencies wait to be linked.
LEMMA CreateTaskKeeps ==
    ASSUME BoardInv, NEW a \in Agents, NEW t \in Tasks, NEW deps \in SUBSET Tasks,
           CreateTask(a, t, deps)
    PROVE  BoardInv'
<1> DEFINE new == [status |-> "pending", blocked_by |-> deps, blocks |-> {}]
           loop == [op |-> "link", task |-> t, ids |-> deps]
<1>1. TypeOK
    BY DEF BoardInv
<1>2. /\ call[a] = Idle /\ ~Exists(t) /\ row' = [row EXCEPT ![t] = new]
      /\ \A d \in deps : Exists(d)
      /\ call' = [call EXCEPT ![a] = IF deps = {} THEN Idle ELSE loop]
      /\ UNCHANGED <<late, owed, broken, edits>>
    BY DEF CreateTask
<1>3. row \in [Tasks -> Row] /\ call \in [Agents -> Call]
    BY <1>1 DEF TypeOK
<1>4. new \in Row
    BY BoardAssumption DEF Row
<1>5. (IF deps = {} THEN Idle ELSE loop) \in Call
    BY DEF Call
<1>6. /\ row'[t] = new
      /\ \A x \in Tasks : x # t => row'[x] = row[x]
      /\ call'[a] = Idle \/ (call'[a] = loop /\ deps # {})
      /\ deps # {} => call'[a] = loop
      /\ \A b \in Agents : b # a => call'[b] = call[b]
    BY <1>2, <1>3
<1>7. TypeOK'
    <2>1. row' \in [Tasks -> Row] /\ call' \in [Agents -> Call]
        BY <1>2, <1>3, <1>4, <1>5
    <2>2. \A b \in Agents : call'[b].op \in {"link", "unblock"} => call'[b].ids # {}
        BY <1>1, <1>6 DEF TypeOK, Idle
    <2> QED BY <1>1, <1>2, <2>1, <2>2 DEF TypeOK
<1>8. new # Absent
    BY DEF Absent
<1>9. /\ \A x \in Tasks : Exists(x) => x # t /\ Exists(x)'
      /\ row[t].blocked_by = {} /\ row[t].blocks = {}
    BY <1>1, <1>2, <1>6, Rows DEF Exists
<1> HIDE DEF new, loop
<1>10. new.blocked_by = deps /\ new.blocks = {}
    BY DEF new
<1>11. loop.op = "link" /\ loop.task = t /\ loop.ids = deps /\ Idle.op = "idle"
    BY DEF loop, Idle
<1>12. /\ \A x \in Tasks : row'[x].blocks = row[x].blocks
       /\ \A x \in Tasks : x # t => row'[x].blocked_by = row[x].blocked_by
       /\ row'[t].blocked_by = deps
    BY <1>6, <1>9, <1>10
<1>13. RefsExist'
    <2>1. row'[t] # Absent /\ \A x \in Tasks : row[x] # Absent => row'[x] # Absent
        BY <1>6, <1>8, <1>9 DEF Exists
    <2>2. \A x \in Tasks : \A y \in row'[x].blocks : row'[y] # Absent
        BY <1>1, <1>12, <2>1, Rows DEF BoardInv, RefsExist, Exists
    <2>3. ASSUME NEW b \in Agents, call'[b] # Idle
          PROVE  row'[call'[b].task] # Absent /\ \A y \in call'[b].ids : row'[y] # Absent
        <3>1. CASE b = a
            BY <1>1, <1>2, <1>6, <1>11, <2>1, <2>3, <3>1 DEF Exists
        <3>2. CASE b # a
            BY <1>1, <1>6, <2>1, <2>3, <3>2, Calls DEF BoardInv, RefsExist, Exists
        <3> QED BY <3>1, <3>2
    <2> QED BY <2>2, <2>3 DEF RefsExist, Exists
<1>14. EditsNoted'
    BY <1>2, <1>6, <1>11 DEF BoardInv, EditsNoted
<1>15. \A dep, x \in Tasks : Linking(dep, x) => Linking(dep, x)'
    BY <1>2, <1>6, <1>11 DEF Linking
<1>16. LinksMirrored'
    <2>1. \A dep \in deps : Linking(dep, t)'
        BY <1>6, <1>11 DEF Linking
    <2> QED BY <1>2, <1>12, <1>15, <2>1 DEF BoardInv, LinksMirrored, GaveUp
<1>17. OwedWait'
    BY <1>2, <1>9, <1>12 DEF BoardInv, OwedWait
<1>18. MissedAreLate'
    BY <1>1, <1>2, <1>6, <1>9, <1>11, <1>12, Calls DEF BoardInv, MissedAreLate, RefsExist
<1>19. CompletionUnblocks'
    <2>1. \A dep, x \in Tasks : Unblocking(dep, x) => Unblocking(dep, x)'
        BY <1>2, <1>6, <1>11 DEF Unblocking
    <2> QED BY <1>2, <1>15, <2>1 DEF BoardInv, CompletionUnblocks, GaveUp
<1>20. UnblocksOwed'
    BY <1>1, <1>2, <1>6, <1>9, <1>11, <1>12, Calls DEF BoardInv, UnblocksOwed, RefsExist
<1> QED BY <1>7, <1>13, <1>14, <1>16, <1>17, <1>18, <1>19, <1>20 DEF BoardInv
\* The loop of a call goes on with a smaller list, or ends.
LEMMA Advances ==
    ASSUME TypeOK, NEW a \in Agents, NEW id \in call[a].ids,
           call[a].op \in {"link", "unblock"}, Advance(a, id)
    PROVE  /\ call' \in [Agents -> Call]
           /\ \A b \in Agents : call'[b].op \in {"link", "unblock"} => call'[b].ids # {}
           /\ \A b \in Agents : b # a => call'[b] = call[b]
           /\ \/ call'[a] = Idle /\ call[a].ids = {id}
              \/ /\ call'[a].op = call[a].op /\ call'[a].task = call[a].task
                 /\ call'[a].ids = call[a].ids \ {id}
<1> DEFINE c == call[a]
           d == [c EXCEPT !.ids = @ \ {id}]
<1>1. c \in [op : {"link", "unblock"}, task : Tasks, ids : SUBSET Tasks]
    <2>1. c \in Call /\ c.op # "idle" /\ c.op # "write"
        BY DEF TypeOK
    <2> QED BY <2>1 DEF Call, Idle
<1>2. d \in Call /\ d.op = c.op /\ d.task = c.task /\ d.ids = c.ids \ {id}
    BY <1>1 DEF Call
<1>3. call' = [call EXCEPT ![a] = IF c.ids = {id} THEN Idle ELSE d]
    BY DEF Advance, TypeOK
<1>4. Idle \in Call /\ Idle.op = "idle"
    BY DEF Call, Idle
<1>5. c.ids # {id} => d.ids # {}
    BY <1>1, <1>2
<1> HIDE DEF d
<1> QED BY <1>2, <1>3, <1>4, <1>5 DEF TypeOK

\* append_to_blocks mirrors the link; the link is late if the task is owed.
LEMMA AppendToBlocksKeeps ==
    ASSUME BoardInv, NEW a \in Agents, NEW dep \in Tasks, AppendToBlocks(a, dep)
    PROVE  BoardInv'
<1> DEFINE t == call[a].task
           new == [row[dep] EXCEPT !.blocks = @ \cup {t}]
<1>1. TypeOK
    BY DEF BoardInv
<1>2. /\ call[a].op = "link" /\ dep \in call[a].ids
      /\ row' = [row EXCEPT ![dep].blocks = @ \cup {t}]
      /\ late' = IF t \notin edits.of /\ Overlooks(dep, t) THEN late \cup {<<dep, t>>} ELSE late
      /\ Advance(a, dep)
      /\ UNCHANGED <<owed, broken, edits>>
    BY DEF AppendToBlocks, Appended
<1>3. /\ row \in [Tasks -> Row] /\ t \in Tasks /\ call[a] # Idle
      /\ call[a].ids \in SUBSET Tasks
    BY <1>1, <1>2, Calls DEF TypeOK
<1>4. Exists(dep) /\ Exists(t)
    BY <1>2, <1>3 DEF BoardInv, RefsExist
<1>5. /\ row[dep] \in [status : Statuses, blocked_by : SUBSET Tasks, blocks : SUBSET Tasks]
      /\ row[dep] # Absent
    BY <1>1, <1>4, Rows DEF Exists
<1>6. /\ new \in [status : Statuses, blocked_by : SUBSET Tasks, blocks : SUBSET Tasks]
      /\ new.blocked_by = row[dep].blocked_by /\ new.blocks = row[dep].blocks \cup {t}
    BY <1>3, <1>5
<1>7. new \in Row /\ new # Absent
    BY <1>6, BoardAssumption DEF Row, Absent
<1>8. row' = [row EXCEPT ![dep] = new]
    BY <1>2, <1>3
<1> HIDE DEF new
<1>9. /\ \A x \in Tasks : row'[x].blocked_by = row[x].blocked_by
      /\ \A x \in Tasks : row[x].blocks \subseteq row'[x].blocks
      /\ \A x \in Tasks : row'[x].blocks \subseteq row[x].blocks \cup {t}
      /\ \A x \in Tasks : x # dep => row'[x].blocks = row[x].blocks
      /\ \A x \in Tasks : row[x] # Absent => row'[x] # Absent
      /\ t \in row'[dep].blocks
    BY <1>3, <1>6, <1>7, <1>8
<1>10. /\ call' \in [Agents -> Call]
       /\ \A b \in Agents : call'[b].op \in {"link", "unblock"} => call'[b].ids # {}
       /\ \A b \in Agents : b # a => call'[b] = call[b]
       /\ \/ call'[a] = Idle /\ call[a].ids = {dep}
          \/ call'[a].op = "link" /\ call'[a].task = t /\ call'[a].ids = call[a].ids \ {dep}
    BY <1>1, <1>2, Advances
<1>11. Idle.op = "idle"
    BY DEF Idle
<1> HIDE DEF t
<1>12. TypeOK'
    <2>1. row' \in [Tasks -> Row]
        BY <1>3, <1>7, <1>8
    <2>2. late' \subseteq Tasks \X Tasks
        BY <1>1, <1>2, <1>3 DEF TypeOK
    <2> QED BY <1>1, <1>2, <1>10, <2>1, <2>2 DEF TypeOK
<1>13. RefsExist'
    <2>1. \A x \in Tasks : \A y \in row'[x].blocks : row'[y] # Absent
        BY <1>1, <1>3, <1>4, <1>9, Rows DEF BoardInv, RefsExist, Exists
    <2>2. ASSUME NEW b \in Agents, call'[b] # Idle
          PROVE  row'[call'[b].task] # Absent /\ \A y \in call'[b].ids : row'[y] # Absent
        <3>1. CASE b = a
            BY <1>3, <1>4, <1>9, <1>10, <2>2, <3>1 DEF BoardInv, RefsExist, Exists
        <3>2. CASE b # a
            BY <1>1, <1>9, <1>10, <2>2, <3>2, Calls DEF BoardInv, RefsExist, Exists
        <3> QED BY <3>1, <3>2
    <2> QED BY <2>1, <2>2 DEF RefsExist, Exists
<1>14. EditsNoted'
    BY <1>2, <1>10, <1>11 DEF BoardInv, EditsNoted
<1>15. ASSUME NEW d \in Tasks, NEW x \in Tasks, Linking(d, x)
       PROVE  Linking(d, x)' \/ (d = dep /\ x = t)
    <2>1. PICK b \in Agents : call[b].op = "link" /\ call[b].task = x /\ d \in call[b].ids
        BY <1>15 DEF Linking
    <2>2. CASE b = a
        BY <1>3, <1>10, <2>1, <2>2 DEF Linking, t
    <2>3. CASE b # a
        BY <1>10, <2>1, <2>3 DEF Linking
    <2> QED BY <2>2, <2>3
<1>16. LinksMirrored'
    BY <1>2, <1>9, <1>15 DEF BoardInv, LinksMirrored, GaveUp
<1>17. OwedWait'
    BY <1>2, <1>9 DEF BoardInv, OwedWait
<1>18. MissedAreLate'
    <2> SUFFICES ASSUME NEW b \in Agents, NEW x \in Tasks,
                        call'[b].op = "write", call'[b].status = "completed",
                        x \in row'[call'[b].task].blocks, x \notin call'[b].ids,
                        call'[b].task \in row'[x].blocked_by, x \notin edits'.of
                 PROVE  <<call'[b].task, x>> \in late'
        BY DEF MissedAreLate
    <2>1. b # a /\ call'[b] = call[b] /\ call[b].task \in Tasks
        BY <1>1, <1>10, <1>11, Calls
    <2>2. CASE x \in row[call[b].task].blocks
        BY <1>2, <1>9, <2>1, <2>2 DEF BoardInv, MissedAreLate
    <2>3. CASE x \notin row[call[b].task].blocks
        <3>1. call[b].task = dep /\ x = t
            BY <1>9, <2>1, <2>3
        <3>2. Overlooks(dep, t)
            BY <2>1, <3>1 DEF Overlooks
        <3> QED BY <1>2, <2>1, <3>1, <3>2
    <2> QED BY <2>2, <2>3
<1>19. CompletionUnblocks'
    <2> SUFFICES ASSUME NEW d \in Tasks, NEW x \in Tasks, <<d, x>> \in owed
                 PROVE  \/ Unblocking(d, x)' \/ Linking(d, x)' \/ <<d, x>> \in late'
                        \/ GaveUp("link", x, d)' \/ GaveUp("unblock", d, x)'
        BY <1>2 DEF CompletionUnblocks
    <2>1. CASE Unblocking(d, x)
        BY <1>2, <1>10, <2>1 DEF Unblocking
    <2>2. CASE Linking(d, x)
        <3>1. x \notin edits.of
            BY DEF BoardInv, OwedWait
        <3> QED BY <1>2, <1>15, <2>2, <3>1 DEF Overlooks
    <2> QED BY <1>2, <2>1, <2>2 DEF BoardInv, CompletionUnblocks, GaveUp
<1>20. UnblocksOwed'
    BY <1>2, <1>9, <1>10, <1>11 DEF BoardInv, UnblocksOwed
<1> QED BY <1>12, <1>13, <1>14, <1>16, <1>17, <1>18, <1>19, <1>20 DEF BoardInv

\* The read of update_task copies the blocks column; a new list takes the task
\* out of the history.
LEMMA ReadTaskKeeps ==
    ASSUME BoardInv, NEW a \in Agents, NEW t \in Tasks, NEW status \in Statuses \cup {KeepStatus},
           NEW list, list = KeepList \/ \E l \in SUBSET Tasks : list = Given(l),
           ReadTask(a, t, status, list)
    PROVE  BoardInv'
<1> DEFINE new == [op |-> "write", task |-> t, status |-> status, list |-> list,
                   ids |-> row[t].blocks]
<1>1. TypeOK
    BY DEF BoardInv
<1>2. /\ call[a] = Idle /\ Exists(t)
      /\ call' = [call EXCEPT ![a] = new]
      /\ UNCHANGED <<row, broken>>
      /\ edits.of \subseteq edits'.of
      /\ list # KeepList => t \in edits'.of
      /\ late' = {p \in late : p[2] # t} \/ late' = late
      /\ owed' \subseteq owed
      /\ \A d, x \in Tasks : x \notin edits'.of /\ <<d, x>> \in late => <<d, x>> \in late'
      /\ \A d, x \in Tasks : x \notin edits'.of /\ <<d, x>> \in owed => <<d, x>> \in owed'
      /\ \A d, x \in Tasks : <<d, x>> \in owed' =>
            <<d, x>> \in owed /\ x \notin edits'.of
      /\ edits' \in [n : Nat, of : SUBSET Tasks]
    <2>1. edits \in [n : Nat, of : SUBSET Tasks]
        BY <1>1 DEF TypeOK
    <2>2. CASE list = KeepList
        BY <2>2, <2>1 DEF ReadTask, BoardInv, OwedWait
    <2>3. CASE list # KeepList
        BY <2>3, <2>1 DEF ReadTask, BoardInv, OwedWait
    <2> QED BY <2>2, <2>3
<1>3. new \in Call
    BY <1>1, Rows DEF Call
<1>4. /\ new.op = "write" /\ new.task = t /\ new.list = list /\ new.ids = row[t].blocks
      /\ Idle.op = "idle"
    BY DEF Idle
<1> HIDE DEF new
<1>5. call'[a] = new /\ \A b \in Agents : b # a => call'[b] = call[b]
    BY <1>1, <1>2 DEF TypeOK
<1>6. TypeOK'
    <2>1. call' \in [Agents -> Call]
        BY <1>1, <1>2, <1>3 DEF TypeOK
    <2>2. \A b \in Agents : call'[b].op \in {"link", "unblock"} => call'[b].ids # {}
        BY <1>1, <1>4, <1>5 DEF TypeOK
    <2> QED BY <1>1, <1>2, <2>1, <2>2 DEF TypeOK
<1>7. RefsExist'
    <2>1. \A b \in Agents : call'[b] # Idle =>
            row[call'[b].task] # Absent /\ \A y \in call'[b].ids : row[y] # Absent
        BY <1>2, <1>4, <1>5 DEF BoardInv, RefsExist, Exists
    <2> QED BY <1>2, <2>1 DEF BoardInv, RefsExist, Exists
<1>8. EditsNoted'
    BY <1>2, <1>4, <1>5 DEF BoardInv, EditsNoted
<1>9. \A d, x \in Tasks : Linking(d, x) => Linking(d, x)'
    BY <1>2, <1>4, <1>5 DEF Linking
<1>10. LinksMirrored'
    BY <1>2, <1>9 DEF BoardInv, LinksMirrored, GaveUp
<1>11. OwedWait'
    BY <1>2 DEF BoardInv, OwedWait
<1>12. MissedAreLate'
    BY <1>1, <1>2, <1>4, <1>5, Calls DEF BoardInv, MissedAreLate
<1>13. CompletionUnblocks'
    <2>1. \A d, x \in Tasks : Unblocking(d, x) => Unblocking(d, x)'
        BY <1>2, <1>4, <1>5 DEF Unblocking
    <2> QED BY <1>2, <1>9, <2>1 DEF BoardInv, CompletionUnblocks, GaveUp
<1>14. UnblocksOwed'
    BY <1>1, <1>2, <1>4, <1>5, Calls DEF BoardInv, UnblocksOwed
<1> QED BY <1>6, <1>7, <1>8, <1>10, <1>11, <1>12, <1>13, <1>14 DEF BoardInv
\* The write of update_task; a completing one owes every task that waits.
LEMMA WriteTaskKeeps ==
    ASSUME BoardInv, NEW a \in Agents, WriteTask(a)
    PROVE  BoardInv'
<1> DEFINE c == call[a]
           k == call[a].task
           status == IF c.status = KeepStatus THEN row[k].status ELSE c.status
           list == IF c.list = KeepList THEN row[k].blocked_by ELSE UNION c.list
           new == [row[k] EXCEPT !.status = status, !.blocked_by = list]
           loop == [op |-> "unblock", task |-> k, ids |-> c.ids]
<1>1. TypeOK
    BY DEF BoardInv
<1>2. /\ c.op = "write" /\ c # Idle /\ k \in Tasks /\ c.ids \in SUBSET Tasks
      /\ c.status \in Statuses \cup {KeepStatus}
      /\ c.list = KeepList \/ \E l \in SUBSET Tasks : c.list = {l}
    BY <1>1, Calls DEF WriteTask
<1>3. /\ row \in [Tasks -> Row] /\ call \in [Agents -> Call]
      /\ row[k] \in [status : Statuses, blocked_by : SUBSET Tasks, blocks : SUBSET Tasks]
      /\ row[k] # Absent
    BY <1>1, <1>2, Rows DEF TypeOK, BoardInv, RefsExist, Exists
<1>4. status \in Statuses
    BY <1>2, <1>3
<1>5. list \in SUBSET Tasks /\ (c.list = KeepList => list = row[k].blocked_by)
    BY <1>2, <1>3
<1> HIDE DEF status, list
<1>6. /\ new \in [status : Statuses, blocked_by : SUBSET Tasks, blocks : SUBSET Tasks]
      /\ new.blocked_by = list /\ new.blocks = row[k].blocks
    BY <1>3, <1>4, <1>5
<1>7. new \in Row /\ new # Absent
    BY <1>6, BoardAssumption DEF Row, Absent
<1>8. row' = [row EXCEPT ![k] = new]
    BY <1>2, <1>3 DEF WriteTask, status, list
<1> HIDE DEF new
<1>9. /\ \A x \in Tasks : row'[x].blocks = row[x].blocks
      /\ \A x \in Tasks : x # k => row'[x].blocked_by = row[x].blocked_by
      /\ k \notin edits.of => row'[k].blocked_by = row[k].blocked_by
      /\ \A x \in Tasks : row[x] # Absent => row'[x] # Absent
    <2>1. k \notin edits.of => list = row[k].blocked_by
        BY <1>2, <1>5 DEF BoardInv, EditsNoted
    <2> QED BY <1>2, <1>3, <1>6, <1>7, <1>8, <2>1
<1>10. /\ call'[a] = IF c.status = "completed" /\ c.ids # {} THEN loop ELSE Idle
       /\ \A b \in Agents : b # a => call'[b] = call[b]
       /\ loop \in Call /\ Idle \in Call
       /\ call' \in [Agents -> Call]
       /\ loop.op = "unblock" /\ loop.task = k /\ loop.ids = c.ids /\ Idle.op = "idle"
    <2>1. loop \in Call /\ Idle \in Call
        BY <1>2 DEF Call
    <2>2. call' = [call EXCEPT ![a] = IF c.status = "completed" /\ c.ids # {} THEN loop ELSE Idle]
        BY DEF WriteTask, Unblocks
    <2> QED BY <1>3, <2>1, <2>2 DEF Idle
<1>11. UNCHANGED <<late, broken, edits>>
    BY DEF WriteTask
<1>12. owed' = IF c.status = "completed"
               THEN owed \cup {<<k, t>> : t \in Waiting(k)} ELSE owed
    BY DEF WriteTask
<1>13. /\ owed \subseteq owed'
       /\ \A d, x \in Tasks : <<d, x>> \in owed' =>
            \/ <<d, x>> \in owed
            \/ /\ c.status = "completed" /\ d = k
               /\ x \notin edits.of /\ k \in row[x].blocked_by
       /\ c.status = "completed" =>
            \A x \in Tasks : (x \notin edits.of /\ k \in row[x].blocked_by) => <<k, x>> \in owed'
    BY <1>2, <1>12 DEF Waiting
<1> HIDE DEF loop, c, k
<1>14. TypeOK'
    <2>1. row' \in [Tasks -> Row]
        BY <1>2, <1>3, <1>7, <1>8
    <2>2. owed' \subseteq Tasks \X Tasks
        BY <1>1, <1>2, <1>12 DEF TypeOK, Waiting
    <2>3. \A b \in Agents : call'[b].op \in {"link", "unblock"} => call'[b].ids # {}
        BY <1>1, <1>10 DEF TypeOK
    <2> QED BY <1>1, <1>10, <1>11, <2>1, <2>2, <2>3 DEF TypeOK
<1>15. RefsExist'
    <2>1. \A x \in Tasks : \A y \in row'[x].blocks : row'[y] # Absent
        BY <1>1, <1>9, Rows DEF BoardInv, RefsExist, Exists
    <2>2. ASSUME NEW b \in Agents, call'[b] # Idle
          PROVE  row'[call'[b].task] # Absent /\ \A y \in call'[b].ids : row'[y] # Absent
        <3>1. CASE b = a
            BY <1>2, <1>9, <1>10, <2>2, <3>1 DEF BoardInv, RefsExist, Exists, c, k
        <3>2. CASE b # a
            BY <1>1, <1>9, <1>10, <2>2, <3>2, Calls DEF BoardInv, RefsExist, Exists
        <3> QED BY <3>1, <3>2
    <2> QED BY <2>1, <2>2 DEF RefsExist, Exists
<1>16. EditsNoted'
    BY <1>10, <1>11 DEF BoardInv, EditsNoted
<1>17. \A d, x \in Tasks : Linking(d, x) => Linking(d, x)'
    BY <1>2, <1>10 DEF Linking, c
<1>18. LinksMirrored'
    BY <1>9, <1>11, <1>17 DEF BoardInv, LinksMirrored, GaveUp
<1>19. OwedWait'
    BY <1>2, <1>9, <1>11, <1>13 DEF BoardInv, OwedWait
<1>20. MissedAreLate'
    BY <1>1, <1>9, <1>10, <1>11, Calls DEF BoardInv, MissedAreLate
<1>21. CompletionUnblocks'
    <2> SUFFICES ASSUME NEW d \in Tasks, NEW x \in Tasks, <<d, x>> \in owed'
                 PROVE  \/ Unblocking(d, x)' \/ Linking(d, x)' \/ <<d, x>> \in late'
                        \/ GaveUp("link", x, d)' \/ GaveUp("unblock", d, x)'
        BY DEF CompletionUnblocks
    <2>1. CASE <<d, x>> \in owed
        <3>1. Unblocking(d, x) => Unblocking(d, x)'
            BY <1>2, <1>10 DEF Unblocking, c
        <3> QED BY <1>11, <1>17, <2>1, <3>1 DEF BoardInv, CompletionUnblocks, GaveUp
    <2>2. CASE c.status = "completed" /\ d = k /\ x \notin edits.of /\ k \in row[x].blocked_by
        <3>1. CASE x \in c.ids
            BY <1>10, <2>2, <3>1 DEF Unblocking
        <3>2. CASE x \notin c.ids /\ x \in row[k].blocks
            BY <1>2, <1>11, <2>2, <3>2 DEF BoardInv, MissedAreLate, c, k
        <3>3. CASE x \notin row[k].blocks
            BY <1>2, <1>11, <1>17, <2>2, <3>3 DEF BoardInv, LinksMirrored, GaveUp
        <3> QED BY <3>1, <3>2, <3>3
    <2> QED BY <1>13, <2>1, <2>2
<1>22. UnblocksOwed'
    <2> SUFFICES ASSUME NEW b \in Agents, NEW x \in Tasks,
                        call'[b].op = "unblock", x \in call'[b].ids,
                        call'[b].task \in row'[x].blocked_by, x \notin edits'.of
                 PROVE  <<call'[b].task, x>> \in owed'
        BY DEF UnblocksOwed
    <2>1. call'[b].task \in row[x].blocked_by /\ x \notin edits.of
        BY <1>9, <1>11
    <2>2. CASE b = a
        BY <1>10, <1>13, <2>1, <2>2
    <2>3. CASE b # a
        BY <1>10, <1>13, <2>1, <2>3 DEF BoardInv, UnblocksOwed
    <2> QED BY <2>2, <2>3
<1> QED BY <1>14, <1>15, <1>16, <1>18, <1>19, <1>20, <1>21, <1>22 DEF BoardInv

\* remove_from_blocked_by settles one task.
LEMMA RemoveFromBlockedByKeeps ==
    ASSUME BoardInv, NEW a \in Agents, NEW t \in Tasks, RemoveFromBlockedBy(a, t)
    PROVE  BoardInv'
<1> DEFINE k == call[a].task
           new == [row[t] EXCEPT !.blocked_by = @ \ {k}]
<1>1. TypeOK
    BY DEF BoardInv
<1>2. /\ call[a].op = "unblock" /\ t \in call[a].ids
      /\ row' = [row EXCEPT ![t].blocked_by = @ \ {k}]
      /\ owed' = owed \ {<<k, t>>} /\ late' = late \ {<<k, t>>}
      /\ Advance(a, t)
      /\ UNCHANGED <<broken, edits>>
    BY DEF RemoveFromBlockedBy
<1>3. /\ row \in [Tasks -> Row] /\ k \in Tasks /\ call[a] # Idle
      /\ call[a].ids \in SUBSET Tasks
    BY <1>1, <1>2, Calls DEF TypeOK
<1>4. /\ row[t] \in [status : Statuses, blocked_by : SUBSET Tasks, blocks : SUBSET Tasks]
      /\ row[t] # Absent
    BY <1>1, <1>2, <1>3, Rows DEF BoardInv, RefsExist, Exists
<1>5. /\ new \in [status : Statuses, blocked_by : SUBSET Tasks, blocks : SUBSET Tasks]
      /\ new.blocked_by = row[t].blocked_by \ {k} /\ new.blocks = row[t].blocks
    BY <1>4
<1>6. new \in Row /\ new # Absent
    BY <1>5, BoardAssumption DEF Row, Absent
<1>7. row' = [row EXCEPT ![t] = new]
    BY <1>2, <1>3
<1> HIDE DEF new
<1>8. /\ \A x \in Tasks : row'[x].blocks = row[x].blocks
      /\ \A x \in Tasks : x # t => row'[x].blocked_by = row[x].blocked_by
      /\ row'[t].blocked_by = row[t].blocked_by \ {k}
      /\ \A x \in Tasks : row[x] # Absent => row'[x] # Absent
    BY <1>3, <1>5, <1>6, <1>7
<1>9. /\ call' \in [Agents -> Call]
      /\ \A b \in Agents : call'[b].op \in {"link", "unblock"} => call'[b].ids # {}
      /\ \A b \in Agents : b # a => call'[b] = call[b]
      /\ \/ call'[a] = Idle /\ call[a].ids = {t}
         \/ call'[a].op = "unblock" /\ call'[a].task = k /\ call'[a].ids = call[a].ids \ {t}
    BY <1>1, <1>2, Advances
<1>10. Idle.op = "idle"
    BY DEF Idle
<1> HIDE DEF k
<1>11. TypeOK'
    <2>1. row' \in [Tasks -> Row]
        BY <1>3, <1>6, <1>7
    <2> QED BY <1>1, <1>2, <1>9, <2>1 DEF TypeOK
<1>12. RefsExist'
    <2>1. \A x \in Tasks : \A y \in row'[x].blocks : row'[y] # Absent
        BY <1>1, <1>8, Rows DEF BoardInv, RefsExist, Exists
    <2>2. ASSUME NEW b \in Agents, call'[b] # Idle
          PROVE  row'[call'[b].task] # Absent /\ \A y \in call'[b].ids : row'[y] # Absent
        <3>1. CASE b = a
            BY <1>3, <1>8, <1>9, <2>2, <3>1 DEF BoardInv, RefsExist, Exists, k
        <3>2. CASE b # a
            BY <1>1, <1>8, <1>9, <2>2, <3>2, Calls DEF BoardInv, RefsExist, Exists
        <3> QED BY <3>1, <3>2
    <2> QED BY <2>1, <2>2 DEF RefsExist, Exists
<1>13. EditsNoted'
    BY <1>2, <1>9, <1>10 DEF BoardInv, EditsNoted
<1>14. \A d, x \in Tasks : Linking(d, x) => Linking(d, x)'
    BY <1>2, <1>9 DEF Linking
<1>15. LinksMirrored'
    BY <1>2, <1>8, <1>14 DEF BoardInv, LinksMirrored, GaveUp
<1>16. OwedWait'
    BY <1>2, <1>8 DEF BoardInv, OwedWait
<1>17. MissedAreLate'
    BY <1>1, <1>2, <1>8, <1>9, <1>10, Calls DEF BoardInv, MissedAreLate
<1>18. CompletionUnblocks'
    <2> SUFFICES ASSUME NEW d \in Tasks, NEW x \in Tasks, <<d, x>> \in owed, <<d, x>> # <<k, t>>
                 PROVE  \/ Unblocking(d, x)' \/ Linking(d, x)' \/ <<d, x>> \in late'
                        \/ GaveUp("link", x, d)' \/ GaveUp("unblock", d, x)'
        BY <1>2 DEF CompletionUnblocks
    <2>1. CASE Unblocking(d, x)
        BY <1>9, <2>1 DEF Unblocking, k
    <2> QED BY <1>2, <1>14, <2>1 DEF BoardInv, CompletionUnblocks, GaveUp
<1>19. UnblocksOwed'
    <2> SUFFICES ASSUME NEW b \in Agents, NEW x \in Tasks,
                        call'[b].op = "unblock", x \in call'[b].ids,
                        call'[b].task \in row'[x].blocked_by, x \notin edits'.of
                 PROVE  <<call'[b].task, x>> \in owed'
        BY DEF UnblocksOwed
    <2>1. call'[b].task \in row[x].blocked_by /\ x \notin edits.of
          /\ call[b].op = "unblock" /\ call[b].task = call'[b].task /\ x \in call[b].ids
        BY <1>2, <1>8, <1>9, <1>10 DEF k
    <2>2. <<call'[b].task, x>> # <<k, t>>
        BY <1>8
    <2> QED BY <1>2, <2>1, <2>2 DEF BoardInv, UnblocksOwed
<1> QED BY <1>11, <1>12, <1>13, <1>15, <1>16, <1>17, <1>18, <1>19 DEF BoardInv

\* A failed statement gives up what the call had left.
LEMMA FailsKeeps ==
    ASSUME BoardInv, NEW a \in Agents, Fails(a)
    PROVE  BoardInv'
<1> DEFINE b0 == [op |-> call[a].op, task |-> call[a].task, ids |-> call[a].ids]
<1>1. TypeOK
    BY DEF BoardInv
<1>2. /\ call[a].op \in {"link", "write", "unblock"}
      /\ call' = [call EXCEPT ![a] = Idle]
      /\ broken' = broken \cup {b0}
      /\ UNCHANGED <<row, late, owed, edits>>
    BY DEF Fails
<1>3. /\ call'[a] = Idle /\ Idle.op = "idle" /\ Idle \in Call
      /\ \A b \in Agents : b # a => call'[b] = call[b]
      /\ call' \in [Agents -> Call]
    BY <1>1, <1>2 DEF TypeOK, Idle, Call
<1>4. TypeOK'
    <2>1. b0 \in Failure
        BY <1>1, <1>2, Calls DEF Failure
    <2>2. \A b \in Agents : call'[b].op \in {"link", "unblock"} => call'[b].ids # {}
        BY <1>1, <1>3 DEF TypeOK
    <2> QED BY <1>1, <1>2, <1>3, <2>1, <2>2 DEF TypeOK
<1>5. RefsExist'
    BY <1>2, <1>3 DEF BoardInv, RefsExist, Exists
<1>6. EditsNoted'
    BY <1>2, <1>3 DEF BoardInv, EditsNoted
<1>7. /\ broken \subseteq broken' /\ b0 \in broken'
      /\ b0.op = call[a].op /\ b0.task = call[a].task /\ b0.ids = call[a].ids
    BY <1>2
<1> HIDE DEF b0
<1>8. \A d, x \in Tasks : Linking(d, x) => Linking(d, x)' \/ GaveUp("link", x, d)'
    <2> SUFFICES ASSUME NEW d \in Tasks, NEW x \in Tasks, Linking(d, x)
                 PROVE  Linking(d, x)' \/ GaveUp("link", x, d)'
        OBVIOUS
    <2>1. PICK b \in Agents : call[b].op = "link" /\ call[b].task = x /\ d \in call[b].ids
        BY DEF Linking
    <2>2. CASE b = a
        BY <1>7, <2>1, <2>2 DEF GaveUp
    <2>3. CASE b # a
        BY <1>3, <2>1, <2>3 DEF Linking
    <2> QED BY <2>2, <2>3
<1>9. \A d, x \in Tasks : Unblocking(d, x) => Unblocking(d, x)' \/ GaveUp("unblock", d, x)'
    <2> SUFFICES ASSUME NEW d \in Tasks, NEW x \in Tasks, Unblocking(d, x)
                 PROVE  Unblocking(d, x)' \/ GaveUp("unblock", d, x)'
        OBVIOUS
    <2>1. PICK b \in Agents : call[b].op = "unblock" /\ call[b].task = d /\ x \in call[b].ids
        BY DEF Unblocking
    <2>2. CASE b = a
        BY <1>7, <2>1, <2>2 DEF GaveUp
    <2>3. CASE b # a
        BY <1>3, <2>1, <2>3 DEF Unblocking
    <2> QED BY <2>2, <2>3
<1>10. LinksMirrored'
    BY <1>2, <1>7, <1>8 DEF BoardInv, LinksMirrored, GaveUp
<1>11. OwedWait'
    BY <1>2 DEF BoardInv, OwedWait
<1>12. MissedAreLate'
    BY <1>2, <1>3 DEF BoardInv, MissedAreLate
<1>13. CompletionUnblocks'
    BY <1>2, <1>7, <1>8, <1>9 DEF BoardInv, CompletionUnblocks, GaveUp
<1>14. UnblocksOwed'
    BY <1>2, <1>3 DEF BoardInv, UnblocksOwed
<1> QED BY <1>4, <1>5, <1>6, <1>10, <1>11, <1>12, <1>13, <1>14 DEF BoardInv

\* Every step keeps the inductive invariant.
LEMMA BoardStep == BoardInv /\ [Next]_vars => BoardInv'
<1> SUFFICES ASSUME BoardInv, [Next]_vars PROVE BoardInv'
    OBVIOUS
<1>1. ASSUME NEW a \in Agents, Create(a) PROVE BoardInv'
    BY <1>1, CreateTaskKeeps DEF Create
<1>2. ASSUME NEW a \in Agents, Update(a) PROVE BoardInv'
    <2>1. PICK t \in Tasks, status \in Statuses \cup {KeepStatus} :
            \/ ReadTask(a, t, status, KeepList)
            \/ \E list \in SUBSET {x \in Tasks : Exists(x)} : ReadTask(a, t, status, Given(list))
        BY <1>2 DEF Update
    <2>2. CASE ReadTask(a, t, status, KeepList)
        BY <2>2, ReadTaskKeeps
    <2>3. ASSUME NEW list \in SUBSET Tasks, ReadTask(a, t, status, Given(list))
          PROVE  BoardInv'
        BY <2>3, ReadTaskKeeps
    <2> QED BY <2>1, <2>2, <2>3
<1>3. ASSUME NEW a \in Agents, WriteTask(a) \/ Fails(a) PROVE BoardInv'
    BY <1>3, WriteTaskKeeps, FailsKeeps
<1>4. ASSUME NEW a \in Agents, NEW id \in Tasks, AppendToBlocks(a, id) \/ RemoveFromBlockedBy(a, id)
      PROVE  BoardInv'
    BY <1>4, AppendToBlocksKeeps, RemoveFromBlockedByKeeps
<1>5. CASE UNCHANGED vars
    BY <1>5 DEF BoardInv, vars, TypeOK, RefsExist, Exists, EditsNoted, LinksMirrored, OwedWait,
                MissedAreLate, CompletionUnblocks, UnblocksOwed, Linking, Unblocking, GaveUp
<1> QED BY <1>1, <1>2, <1>3, <1>4, <1>5 DEF Next

\* The board starts empty.
LEMMA BoardInit == Init => BoardInv
<1> SUFFICES ASSUME Init PROVE BoardInv
    OBVIOUS
<1>1. TypeOK
    BY DEF Init, TypeOK, Row, Call, Idle, Absent
<1>2. RefsExist /\ EditsNoted /\ MissedAreLate /\ UnblocksOwed
    BY DEF Init, RefsExist, EditsNoted, MissedAreLate, UnblocksOwed, Idle, Absent
<1>3. LinksMirrored /\ OwedWait /\ CompletionUnblocks
    BY DEF Init, LinksMirrored, OwedWait, CompletionUnblocks, Absent
<1> QED BY <1>1, <1>2, <1>3 DEF BoardInv

\* Every column of the board holds ids of tasks, whatever the agents call.
THEOREM BoardTypes == Spec => []TypeOK
<1>1. BoardInv => TypeOK
    BY DEF BoardInv
<1> QED BY <1>1, BoardInit, BoardStep, PTL DEF Spec

\* The two columns of a dependency agree, up to the calls under way, the failed
\* ones and the edited lists, for any number of agents and tasks.
THEOREM DependenciesAreMirrored == Spec => []LinksMirrored
<1>1. BoardInv => LinksMirrored
    BY DEF BoardInv
<1> QED BY <1>1, BoardInit, BoardStep, PTL DEF Spec

\* check_unblocks misses only the tasks linked after the completing call has
\* read its row, whatever the interleaving of the calls.
THEOREM OnlyLateLinksAreMissed == Spec => []CompletionUnblocks
<1>1. BoardInv => CompletionUnblocks
    BY DEF BoardInv
<1> QED BY <1>1, BoardInit, BoardStep, PTL DEF Spec

\* A task is released by the completion of what it waits for, or by an edit of
\* its list: no other write of the board touches the blocked_by column.
THEOREM TasksAreReleasedByCompletion == Spec => ReleasedByCompletion
<1> DEFINE Released == \A t, dep \in Tasks :
                (dep \in row[t].blocked_by /\ dep \notin row'[t].blocked_by) =>
                    <<dep, t>> \in owed \/ t \in edits.of
<1>1. ASSUME BoardInv, [Next]_vars PROVE [Released]_vars
    <2>1. TypeOK
        BY <1>1 DEF BoardInv
    <2>2. ASSUME NEW a \in Agents, Create(a) PROVE Released
        <3>1. PICK t \in Tasks, deps \in SUBSET Tasks : CreateTask(a, t, deps)
            BY <2>2 DEF Create
        <3>2. row[t].blocked_by = {} /\ \A x \in Tasks : x # t => row'[x] = row[x]
            BY <2>1, <3>1, Rows DEF CreateTask, TypeOK
        <3> QED BY <3>2
    <2>3. ASSUME NEW a \in Agents, Update(a) \/ Fails(a) PROVE Released
        BY <2>3 DEF Update, ReadTask, Fails
    <2>4. ASSUME NEW a \in Agents, WriteTask(a) PROVE Released
        <3> DEFINE k == call[a].task
        <3>1. /\ call[a].op = "write" /\ k \in Tasks
              /\ row' = [row EXCEPT
                   ![k].status = IF call[a].status = KeepStatus THEN @ ELSE call[a].status,
                   ![k].blocked_by = IF call[a].list = KeepList THEN @ ELSE UNION call[a].list]
            BY <2>1, <2>4, Calls DEF WriteTask
        <3>2. call[a].list # KeepList => k \in edits.of
            BY <1>1, <3>1 DEF BoardInv, EditsNoted
        <3>3. row[k] \in [status : Statuses, blocked_by : SUBSET Tasks, blocks : SUBSET Tasks]
            BY <1>1, <2>1, <3>1, Calls, Rows DEF BoardInv, RefsExist
        <3>4. /\ \A x \in Tasks : x # k => row'[x] = row[x]
              /\ call[a].list = KeepList => row'[k].blocked_by = row[k].blocked_by
            BY <2>1, <3>1, <3>3 DEF TypeOK
        <3> QED BY <3>1, <3>2, <3>4
    <2>5. ASSUME NEW a \in Agents, NEW id \in Tasks, AppendToBlocks(a, id) PROVE Released
        <3>1. \A x \in Tasks : row'[x].blocked_by = row[x].blocked_by
            <4>1. row[id] \in [status : Statuses, blocked_by : SUBSET Tasks, blocks : SUBSET Tasks]
                BY <1>1, <2>1, <2>5, Calls, Rows DEF BoardInv, RefsExist, AppendToBlocks
            <4>2. row' = [row EXCEPT ![id].blocks = Appended(@, call[a].task)]
                BY <2>5 DEF AppendToBlocks
            <4> QED BY <2>1, <4>1, <4>2 DEF TypeOK
        <3> QED BY <3>1
    <2>6. ASSUME NEW a \in Agents, NEW id \in Tasks, RemoveFromBlockedBy(a, id) PROVE Released
        <3>1. /\ call[a].op = "unblock" /\ id \in call[a].ids
              /\ row' = [row EXCEPT ![id].blocked_by = @ \ {call[a].task}]
            BY <2>6 DEF RemoveFromBlockedBy
        <3>2. row[id] \in [status : Statuses, blocked_by : SUBSET Tasks, blocks : SUBSET Tasks]
            BY <1>1, <2>1, <3>1, Calls, Rows DEF BoardInv, RefsExist
        <3>3. /\ \A x \in Tasks : x # id => row'[x] = row[x]
              /\ row'[id].blocked_by = row[id].blocked_by \ {call[a].task}
            BY <2>1, <3>1, <3>2 DEF TypeOK
        <3> QED BY <1>1, <3>1, <3>3 DEF BoardInv, UnblocksOwed
    <2>7. CASE UNCHANGED vars
        BY <2>7
    <2> QED BY <1>1, <2>2, <2>3, <2>4, <2>5, <2>6, <2>7 DEF Next
<1> QED BY <1>1, BoardInit, BoardStep, PTL DEF Spec, ReleasedByCompletion
================================================================================
