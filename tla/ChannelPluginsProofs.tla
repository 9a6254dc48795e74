------------------------ MODULE ChannelPluginsProofs ------------------------
(***************************************************************************)
(* Proofs about ChannelPlugins, for every number of requests, instances,     *)
(* updates, failures and restarts.                                           *)
(***************************************************************************)
EXTENDS ChannelPlugins, FiniteSetTheorems, TLAPS

Task == [at : {"gone", "loop", "asked", "handing", "backoff"}, told : BOOLEAN,
         held : BOOLEAN, offset : 0..MaxUpdates, next : 0..MaxUpdates,
         last : 0..MaxUpdates, errors : 0..MaxErrors - 1]
Process == [op : {"none", "enable", "disable", "restore"}, pc : PCs, inst : SUBSET Pollers]

\* At most one instance.
AtMostOne(S) == S = {} \/ \E p \in Pollers : S = {p}

\* What a poll task knows: it handled the updates up to its offset, and those before
\* the rest of its batch.
Sound(p) ==
    /\ poller[p].offset <= posted
    /\ 1..poller[p].offset \subseteq handed
    /\ poller[p].at = "handing" =>
          /\ 1 <= poller[p].next /\ poller[p].next <= poller[p].last
          /\ poller[p].last <= posted
          /\ 1..(poller[p].next - 1) \subseteq handed

\* The updates after a step of a poll task, and that all up to n are handed over then.
UpdatesAfter == /\ confirmed' \in 0..posted /\ handed' \in SUBSET (1..posted)
                /\ handed \subseteq handed' /\ 1..confirmed' \subseteq handed'
HandedAfter(n) == n \in 0..posted /\ 1..n \subseteq handed'

FetchInv == /\ TypeOK
            /\ AtMostOne(table)
            /\ \A r \in Procs : AtMostOne(proc[r].inst)
            /\ NothingSkipped
            /\ \A p \in Pollers : Sound(p)

\* An optional instance has at most one element.
LEMMA OptionsAreSmall ==
    ASSUME NEW S, AtMostOne(S)
    PROVE  S \in SUBSET Pollers /\ Cardinality(S) <= 1
<1>1. CASE S = {}
    BY <1>1, FS_EmptySet
<1>2. CASE \E p \in Pollers : S = {p}
    BY <1>2, FS_Singleton
<1> QED BY <1>1, <1>2 DEF AtMostOne

\* The bounds are natural numbers.
LEMMA Bounds == MaxUpdates \in Nat /\ MaxErrors \in Nat /\ MaxErrors >= 1 /\ Boot \in Procs
BY PluginsAssumption DEF Procs

\* Dropping and stopping instances changes the signals of their tasks, and nothing else.
LEMMA SignalsOnly ==
    ASSUME poller \in [Pollers -> Task], NEW ps,
           NEW after, after = Dropped(ps) \/ after = Stopped(ps)
    PROVE  /\ after \in [Pollers -> Task]
           /\ \A p \in Pollers : /\ after[p].at = poller[p].at
                                 /\ after[p].offset = poller[p].offset
                                 /\ after[p].next = poller[p].next
                                 /\ after[p].last = poller[p].last
<1> DEFINE told(p) == [poller[p] EXCEPT !.told = TRUE, !.held = FALSE]
           dropped(p) == [poller[p] EXCEPT !.held = FALSE]
<1>1. \A p \in Pollers : /\ poller[p] \in Task
                         /\ told(p) \in Task /\ dropped(p) \in Task
    BY DEF Task
<1>2. \A p \in Pollers : /\ told(p).at = poller[p].at /\ dropped(p).at = poller[p].at
                         /\ told(p).offset = poller[p].offset
                         /\ dropped(p).offset = poller[p].offset
                         /\ told(p).next = poller[p].next /\ dropped(p).next = poller[p].next
                         /\ told(p).last = poller[p].last /\ dropped(p).last = poller[p].last
    BY <1>1 DEF Task
<1>3. /\ after = [p \in Pollers |-> after[p]]
      /\ \A p \in Pollers : after[p] \in {poller[p], told(p), dropped(p)}
    BY DEF Dropped, Stopped
<1> HIDE DEF told, dropped
<1> QED BY <1>1, <1>2, <1>3

\* A new task has handled nothing; nor has one that is gone.
LEMMA NewTask ==
    /\ Gone \in Task /\ Gone.offset = 0 /\ Gone.at = "gone"
    /\ New \in Task /\ New.offset = 0 /\ New.at = "loop"
<1>1. 0 \in 0..MaxUpdates /\ 0 \in 0..MaxErrors - 1
    BY Bounds
<1>2. Gone \in Task /\ Gone.offset = 0 /\ Gone.at = "gone"
    BY <1>1 DEF Gone, Task
<1>3. New \in Task /\ New.offset = 0 /\ New.at = "loop"
    BY <1>1 DEF New, Task
<1> QED BY <1>2, <1>3

\* A step that leaves the updates alone and the progress of every task alone, or
\* starts it afresh, keeps what the tasks know.
LEMMA ProgressKept ==
    ASSUME FetchInv, UNCHANGED updates,
           poller' \in [Pollers -> Task],
           \A p \in Pollers :
              \/ poller'[p].offset = 0 /\ poller'[p].at # "handing"
              \/ /\ poller'[p].at = poller[p].at
                 /\ poller'[p].offset = poller[p].offset
                 /\ poller'[p].next = poller[p].next
                 /\ poller'[p].last = poller[p].last
    PROVE  NothingSkipped' /\ \A p \in Pollers : Sound(p)'
BY DEF FetchInv, TypeOK, updates, NothingSkipped, Sound, Task

\* The processes a start of the program has.
LEMMA StartTypes ==
    /\ Idle \in Process /\ Restoring \in Process
    /\ Started \in [Procs -> Process]
    /\ \A r \in Procs : Started[r].inst = {} /\ AtMostOne(Started[r].inst)
<1>1. Idle \in Process /\ Restoring \in Process /\ Idle.inst = {} /\ Restoring.inst = {}
    BY DEF Idle, Restoring, Process, PCs
<1> QED BY <1>1 DEF Started, AtMostOne

\* The invariant holds when the process first starts.
LEMMA FetchInit == Init => FetchInv
<1> SUFFICES ASSUME Init PROVE FetchInv
    OBVIOUS
<1>1. proc \in [Procs -> Process] /\ \A r \in Procs : AtMostOne(proc[r].inst)
    BY StartTypes DEF Init
<1>2. AtMostOne(table) /\ table \in SUBSET Pollers /\ Cardinality(table) <= 1
    BY OptionsAreSmall DEF Init, AtMostOne
<1>3. poller \in [Pollers -> Task]
    BY NewTask DEF Init
<1>4. row \in [enabled : BOOLEAN, status : Statuses]
    BY DEF Init, Statuses
<1>5. posted \in 0..MaxUpdates /\ confirmed \in 0..posted /\ handed \in SUBSET (1..posted)
    BY Bounds DEF Init
<1>8. disturbed \in BOOLEAN
    BY DEF Init
<1>6. TypeOK
    BY <1>1, <1>2, <1>3, <1>4, <1>5, <1>8 DEF TypeOK, Task, Process
<1>7. NothingSkipped /\ \A p \in Pollers : Sound(p)
    BY Bounds, NewTask DEF Init, NothingSkipped, Sound
<1> QED BY <1>1, <1>2, <1>6, <1>7 DEF FetchInv
\* A step of a request or of the startup task keeps the invariant when what it
\* writes has its type and no task makes progress.
LEMMA ManagerKept ==
    ASSUME FetchInv, UNCHANGED updates,
           row' \in [enabled : BOOLEAN, status : Statuses], disturbed' \in BOOLEAN,
           AtMostOne(table'),
           proc' \in [Procs -> Process], \A r \in Procs : AtMostOne(proc'[r].inst),
           poller' \in [Pollers -> Task],
           \A p \in Pollers :
              \/ poller'[p].offset = 0 /\ poller'[p].at # "handing"
              \/ /\ poller'[p].at = poller[p].at
                 /\ poller'[p].offset = poller[p].offset
                 /\ poller'[p].next = poller[p].next
                 /\ poller'[p].last = poller[p].last
    PROVE  FetchInv'
<1>1. NothingSkipped' /\ \A p \in Pollers : Sound(p)'
    BY ProgressKept
<1>2. table' \in SUBSET Pollers /\ Cardinality(table') <= 1
    BY OptionsAreSmall
<1>3. TypeOK'
    BY <1>2 DEF FetchInv, TypeOK, updates, Task, Process
<1>4. AtMostOne(table)' /\ \A r \in Procs : AtMostOne(proc'[r].inst)
    BY DEF AtMostOne
<1> QED BY <1>1, <1>3, <1>4 DEF FetchInv, AtMostOne

\* What a process may do next: go on with the instance it holds, or end.
LEMMA ProcessKept ==
    ASSUME FetchInv, NEW r \in Procs, NEW pc \in PCs, Goto(r, pc) \/ End(r)
    PROVE  proc' \in [Procs -> Process] /\ \A s \in Procs : AtMostOne(proc'[s].inst)
<1> DEFINE next == [proc[r] EXCEPT !.pc = pc]
<1>1. proc \in [Procs -> Process] /\ \A s \in Procs : AtMostOne(proc[s].inst)
    BY DEF FetchInv, TypeOK, Process
<1>2. next \in Process /\ next.inst = proc[r].inst
    BY <1>1 DEF Process
<1>3. Idle \in Process /\ AtMostOne(Idle.inst)
    BY StartTypes DEF Idle, AtMostOne
<1>4. proc' = [proc EXCEPT ![r] = next] \/ proc' = [proc EXCEPT ![r] = Idle]
    BY <1>1 DEF Goto, End
<1> HIDE DEF next
<1> QED BY <1>1, <1>2, <1>3, <1>4

\* Outcomes of a database statement.
LEMMA OutcomeKept ==
    ASSUME FetchInv, Fails \/ Succeeds \/ UNCHANGED disturbed
    PROVE  disturbed' \in BOOLEAN
BY DEF FetchInv, TypeOK, Fails, Succeeds

\* What a write makes of the row.
LEMMA RowKept ==
    ASSUME FetchInv
    PROVE  /\ row \in [enabled : BOOLEAN, status : Statuses]
           /\ [row EXCEPT !.status = "running"] \in [enabled : BOOLEAN, status : Statuses]
           /\ [row EXCEPT !.status = "error"] \in [enabled : BOOLEAN, status : Statuses]
           /\ [enabled |-> TRUE, status |-> "created"] \in [enabled : BOOLEAN, status : Statuses]
           /\ [enabled |-> FALSE, status |-> "stopped"] \in [enabled : BOOLEAN, status : Statuses]
<1>1. row \in [enabled : BOOLEAN, status : Statuses]
    BY DEF FetchInv, TypeOK
<1> QED BY <1>1 DEF Statuses

\* Every step of a request or of the startup task keeps the invariant.
LEMMA ProcKeepsFetch ==
    ASSUME FetchInv, NEW r \in Procs, ProcStep(r) PROVE FetchInv'
<1> USE RowKept
<1>t. /\ poller \in [Pollers -> Task] /\ AtMostOne(table) /\ AtMostOne({})
      /\ proc \in [Procs -> Process] /\ \A s \in Procs : AtMostOne(proc[s].inst)
    BY DEF FetchInv, TypeOK, Task, Process, AtMostOne
<1>1. CASE StopPlugin(r)
    <2>1. AtMostOne(table') /\ UNCHANGED updates /\ UNCHANGED row
        BY <1>1, <1>t DEF StopPlugin
    <2>2. proc' \in [Procs -> Process] /\ \A s \in Procs : AtMostOne(proc'[s].inst)
        BY <1>1, ProcessKept DEF StopPlugin, PCs
    <2>3. disturbed' \in BOOLEAN
        BY <1>1, OutcomeKept DEF StopPlugin
    <2>4. poller' = Stopped(table)
        BY <1>1 DEF StopPlugin
    <2>5. /\ poller' \in [Pollers -> Task]
          /\ \A p \in Pollers : /\ poller'[p].at = poller[p].at
                                /\ poller'[p].offset = poller[p].offset
                                /\ poller'[p].next = poller[p].next
                                /\ poller'[p].last = poller[p].last
        BY <2>4, <1>t, SignalsOnly
    <2> QED BY <2>1, <2>2, <2>3, <2>5, ManagerKept
<1>2. CASE Upsert(r)
    <2>1. UNCHANGED table /\ UNCHANGED updates /\ UNCHANGED poller
        BY <1>2 DEF Upsert
    <2>2. proc' \in [Procs -> Process] /\ \A s \in Procs : AtMostOne(proc'[s].inst)
        BY <1>2, ProcessKept DEF Upsert, PCs
    <2>3. disturbed' \in BOOLEAN
        BY <1>2, OutcomeKept DEF Upsert
    <2>4. row' \in [enabled : BOOLEAN, status : Statuses]
        BY <1>2 DEF Upsert
    <2> QED BY <2>1, <2>2, <2>3, <2>4, <1>t, ManagerKept
<1>3. CASE Connect(r)
    <2>1. UNCHANGED table /\ UNCHANGED updates /\ UNCHANGED row
        BY <1>3 DEF Connect
    <2>2. disturbed' \in BOOLEAN
        BY <1>3, OutcomeKept DEF Connect
    <2>3. CASE UNCHANGED poller /\ Goto(r, "fail")
        <3>1. proc' \in [Procs -> Process] /\ \A s \in Procs : AtMostOne(proc'[s].inst)
            BY <2>3, ProcessKept DEF PCs
        <3> QED BY <3>1, <2>1, <2>2, <2>3, <1>t, ManagerKept
    <2>4. ASSUME NEW p \in Pollers, poller' = [poller EXCEPT ![p] = New],
                 Hold(r, "mark", {p})
          PROVE  FetchInv'
        <3> DEFINE next == [op |-> proc[r].op, pc |-> "mark", inst |-> {p}]
        <3>1. next \in Process /\ AtMostOne(next.inst)
            BY <1>t DEF Process, PCs, AtMostOne
        <3>2. proc' = [proc EXCEPT ![r] = next]
            BY <2>4 DEF Hold
        <3> HIDE DEF next
        <3>3. proc' \in [Procs -> Process] /\ \A s \in Procs : AtMostOne(proc'[s].inst)
            BY <3>1, <3>2, <1>t
        <3>4. /\ poller' \in [Pollers -> Task]
              /\ \A q \in Pollers : poller'[q] = poller[q] \/ poller'[q] = New
            BY <2>4, <1>t, NewTask
        <3> QED BY <3>3, <3>4, <2>1, <2>2, <1>t, NewTask, ManagerKept
    <2> QED BY <2>3, <2>4, <1>3 DEF Connect
<1>4. CASE MarkRunning(r)
    <2>1. UNCHANGED table /\ UNCHANGED updates
        BY <1>4 DEF MarkRunning
    <2>2. disturbed' \in BOOLEAN
        BY <1>4, OutcomeKept DEF MarkRunning
    <2>3. row' \in [enabled : BOOLEAN, status : Statuses]
        BY <1>4 DEF MarkRunning
    <2>4. poller' = poller \/ poller' = Dropped(proc[r].inst)
        BY <1>4 DEF MarkRunning
    <2>5. proc' \in [Procs -> Process] /\ \A s \in Procs : AtMostOne(proc'[s].inst)
        <3>1. CASE Goto(r, "insert") \/ End(r)
            BY <3>1, ProcessKept DEF PCs
        <3>2. CASE Hold(r, "fail", {})
            <4> DEFINE next == [op |-> proc[r].op, pc |-> "fail", inst |-> {}]
            <4>1. next \in Process /\ AtMostOne(next.inst)
                BY <1>t DEF Process, PCs
            <4>2. proc' = [proc EXCEPT ![r] = next]
                BY <3>2 DEF Hold
            <4> HIDE DEF next
            <4> QED BY <4>1, <4>2, <1>t
        <3> QED BY <3>1, <3>2, <1>4 DEF MarkRunning
    <2>6. /\ poller' \in [Pollers -> Task]
          /\ \A p \in Pollers : /\ poller'[p].at = poller[p].at
                                /\ poller'[p].offset = poller[p].offset
                                /\ poller'[p].next = poller[p].next
                                /\ poller'[p].last = poller[p].last
        BY <2>4, <1>t, SignalsOnly
    <2> QED BY <2>1, <2>2, <2>3, <2>5, <2>6, <1>t, ManagerKept
<1>5. CASE Insert(r)
    <2>1. AtMostOne(table') /\ UNCHANGED updates /\ UNCHANGED row
        BY <1>5, <1>t DEF Insert
    <2>2. proc' \in [Procs -> Process] /\ \A s \in Procs : AtMostOne(proc'[s].inst)
        BY <1>5, ProcessKept DEF Insert, PCs
    <2>3. disturbed' \in BOOLEAN
        BY <1>5, OutcomeKept DEF Insert
    <2>4. poller' = Dropped(table)
        BY <1>5 DEF Insert
    <2>5. /\ poller' \in [Pollers -> Task]
          /\ \A p \in Pollers : /\ poller'[p].at = poller[p].at
                                /\ poller'[p].offset = poller[p].offset
                                /\ poller'[p].next = poller[p].next
                                /\ poller'[p].last = poller[p].last
        BY <2>4, <1>t, SignalsOnly
    <2> QED BY <2>1, <2>2, <2>3, <2>5, ManagerKept
<1>6. CASE MarkError(r) \/ SwitchOff(r)
    <2>1. UNCHANGED table /\ UNCHANGED updates /\ UNCHANGED poller
        BY <1>6 DEF MarkError, SwitchOff
    <2>2. proc' \in [Procs -> Process] /\ \A s \in Procs : AtMostOne(proc'[s].inst)
        BY <1>6, ProcessKept DEF MarkError, SwitchOff, PCs
    <2>3. disturbed' \in BOOLEAN
        BY <1>6, OutcomeKept DEF MarkError, SwitchOff
    <2>4. row' \in [enabled : BOOLEAN, status : Statuses]
        BY <1>6 DEF MarkError, SwitchOff
    <2> QED BY <2>1, <2>2, <2>3, <2>4, <1>t, ManagerKept
<1> QED BY <1>1, <1>2, <1>3, <1>4, <1>5, <1>6 DEF ProcStep

\* So does every step of a poll task.
LEMMA PollKeepsFetch ==
    ASSUME FetchInv, NEW p \in Pollers, PollStep(p) PROVE FetchInv'
<1> USE Bounds
<1>t. /\ poller \in [Pollers -> Task] /\ poller[p] \in Task
      /\ posted \in 0..MaxUpdates /\ confirmed \in 0..posted /\ handed \in SUBSET (1..posted)
      /\ 1..confirmed \subseteq handed /\ \A q \in Pollers : Sound(q)
    BY DEF FetchInv, TypeOK, Task, NothingSkipped
<1>u. UNCHANGED manager /\ UNCHANGED posted /\ UNCHANGED disturbed
    BY DEF PollStep, Ask, Answer, Hand, AnswerFails, BackOff, updates
\* What is left to show: the task of the step, and the updates.
<1>v. ASSUME NEW t \in Task, poller' = [poller EXCEPT ![p] = t],
             UpdatesAfter, HandedAfter(t.offset),
             t.at = "handing" => /\ 1 <= t.next /\ t.next <= t.last /\ t.last <= posted
                                 /\ HandedAfter(t.next - 1)
      PROVE  FetchInv'
    <2>1. poller' \in [Pollers -> Task]
        BY <1>t, <1>v
    <2>2. NothingSkipped'
        BY <1>v DEF NothingSkipped, UpdatesAfter
    <2>3. ASSUME NEW q \in Pollers PROVE Sound(q)'
        <3>1. CASE q = p
            BY <3>1, <1>t, <1>u, <1>v DEF Sound, HandedAfter
        <3>2. CASE q # p
            <4>1. poller'[q] = poller[q] /\ Sound(q)
                BY <3>2, <1>t, <1>v
            <4> QED BY <4>1, <1>u, <1>v DEF Sound, UpdatesAfter
        <3> QED BY <3>1, <3>2
    <2>4. TypeOK'
        BY <2>1, <1>u, <1>v DEF FetchInv, TypeOK, manager, Task, UpdatesAfter
    <2>5. AtMostOne(table)' /\ \A r \in Procs : AtMostOne(proc[r].inst)'
        BY <1>u DEF FetchInv, manager, AtMostOne
    <2> QED BY <2>2, <2>3, <2>4, <2>5 DEF FetchInv
<1>g. ASSUME NEW at \in {"loop", "handing", "backoff"}, NEW offset \in 0..MaxUpdates,
             NEW next \in 0..MaxUpdates, NEW last \in 0..MaxUpdates,
             NEW errors \in 0..MaxErrors - 1, Goes(p, at, offset, next, last, errors),
             UpdatesAfter, HandedAfter(offset),
             at = "handing" => /\ 1 <= next /\ next <= last /\ last <= posted
                               /\ HandedAfter(next - 1)
      PROVE  FetchInv'
    <2> DEFINE t == [at |-> at, told |-> poller[p].told, held |-> poller[p].held,
                     offset |-> offset, next |-> next, last |-> last, errors |-> errors]
    <2>1. /\ t \in Task /\ t.at = at /\ t.offset = offset /\ t.next = next /\ t.last = last
        BY <1>t DEF Task
    <2>2. poller' = [poller EXCEPT ![p] = t]
        BY <1>g DEF Goes
    <2> HIDE DEF t
    <2> QED BY <2>1, <2>2, <1>g, <1>v
\* What holds of the updates when the step leaves them alone.
<1>k. ASSUME UNCHANGED <<confirmed, handed>>
      PROVE  UpdatesAfter /\ HandedAfter(0) /\ HandedAfter(confirmed)
             /\ HandedAfter(poller[p].offset) /\ poller[p].offset \in 0..MaxUpdates
    BY <1>k, <1>t DEF UpdatesAfter, HandedAfter, Sound, Task
<1>z. 0 \in 0..MaxUpdates /\ 0 \in 0..MaxErrors - 1 /\ posted \in 0..MaxUpdates
    BY <1>t
<1>1. CASE Ask(p)
    <2>1. CASE poller[p].told
        <3>1. poller' = [poller EXCEPT ![p] = Gone] /\ UNCHANGED <<confirmed, handed>>
            BY <2>1, <1>1 DEF Ask
        <3> QED BY <3>1, <1>k, <1>v, NewTask
    <2>2. CASE ~poller[p].told
        <3> DEFINE t == [poller[p] EXCEPT !.at = "asked"]
        <3>1. t \in Task /\ t.at = "asked" /\ t.offset = poller[p].offset
            BY <1>t DEF Task
        <3>2. poller' = [poller EXCEPT ![p] = t] /\ UNCHANGED handed
            BY <2>2, <1>1, <1>t DEF Ask
        <3>3. confirmed' = confirmed \/ confirmed' = poller[p].offset
            BY <2>2, <1>1, <1>t DEF Ask, Larger, NextOffset, Task
        <3> HIDE DEF t
        <3>4. poller[p].offset \in 0..posted /\ 1..poller[p].offset \subseteq handed
            BY <1>t DEF Sound, Task
        <3>5. UpdatesAfter /\ HandedAfter(t.offset)
            BY <3>1, <3>2, <3>3, <3>4, <1>t DEF UpdatesAfter, HandedAfter
        <3> QED BY <3>1, <3>2, <3>5, <1>v
    <2> QED BY <2>1, <2>2
<1>2. CASE Answer(p)
    <2> DEFINE first == Larger(confirmed + 1, NextOffset(p))
    <2>1. UNCHANGED <<confirmed, handed>>
        BY <1>2 DEF Answer, updates
    <2>2. /\ first \in Nat /\ 1 <= first
          /\ first - 1 = confirmed \/ first - 1 = poller[p].offset
        BY <1>t DEF Larger, NextOffset, Task
    <2>3. HandedAfter(first - 1)
        BY <2>1, <2>2, <1>k
    <2>4. IF first > posted THEN Goes(p, "loop", poller[p].offset, 0, 0, 0)
                            ELSE Goes(p, "handing", poller[p].offset, first, posted, 0)
        BY <1>2 DEF Answer
    <2> HIDE DEF first
    <2>5. CASE first > posted
        <3>1. Goes(p, "loop", poller[p].offset, 0, 0, 0)
            BY <2>4, <2>5
        <3> QED BY <3>1, <2>1, <1>k, <1>z, <1>g
    <2>6. CASE ~(first > posted)
        <3>1. first \in 0..MaxUpdates /\ first <= posted
            BY <2>2, <2>6, <1>t
        <3>2. Goes(p, "handing", poller[p].offset, first, posted, 0)
            BY <2>4, <2>6
        <3>3. posted <= posted
            BY <1>t
        <3> QED BY <3>1, <3>2, <3>3, <2>1, <2>2, <2>3, <1>k, <1>z, <1>g
    <2> QED BY <2>5, <2>6
<1>3. CASE Hand(p)
    <2> DEFINE u == poller[p].next
    <2>1. /\ poller[p].at = "handing" /\ UNCHANGED confirmed /\ handed' = handed \cup {u}
          /\ IF u = poller[p].last THEN Goes(p, "loop", u, 0, 0, 0)
                                   ELSE Goes(p, "handing", u, u + 1, poller[p].last, 0)
        BY <1>3 DEF Hand
    <2>2. /\ 1 <= u /\ u <= poller[p].last /\ poller[p].last <= posted
          /\ 1..(u - 1) \subseteq handed
          /\ u \in 0..MaxUpdates /\ poller[p].last \in 0..MaxUpdates
        BY <2>1, <1>t DEF Sound, Task
    <2> HIDE DEF u
    <2>3. UpdatesAfter /\ HandedAfter(u)
        BY <2>1, <2>2, <1>t DEF UpdatesAfter, HandedAfter
    <2>4. CASE u = poller[p].last
        <3>1. Goes(p, "loop", u, 0, 0, 0)
            BY <2>1, <2>4
        <3> QED BY <3>1, <2>2, <2>3, <1>z, <1>g
    <2>5. CASE u # poller[p].last
        <3>1. u + 1 \in 0..MaxUpdates /\ u + 1 <= poller[p].last /\ u + 1 - 1 = u /\ 1 <= u + 1
            BY <2>2, <2>5, <1>t
        <3>2. Goes(p, "handing", u, u + 1, poller[p].last, 0)
            BY <2>1, <2>5
        <3> QED BY <3>1, <3>2, <2>2, <2>3, <1>z, <1>g
    <2> QED BY <2>4, <2>5
<1>4. CASE AnswerFails(p)
    <2>1. UNCHANGED <<confirmed, handed>>
        BY <1>4 DEF AnswerFails, updates
    <2>2. CASE poller[p].errors + 1 >= MaxErrors
        <3>1. poller' = [poller EXCEPT ![p] = Gone]
            BY <2>2, <1>4 DEF AnswerFails
        <3> QED BY <3>1, <2>1, <1>k, <1>v, NewTask
    <2>3. CASE ~(poller[p].errors + 1 >= MaxErrors)
        <3>1. poller[p].errors + 1 \in 0..MaxErrors - 1
            BY <2>3, <1>t DEF Task
        <3>2. Goes(p, "backoff", poller[p].offset, 0, 0, poller[p].errors + 1)
            BY <2>3, <1>4 DEF AnswerFails
        <3> QED BY <3>1, <3>2, <2>1, <1>k, <1>z, <1>g
    <2> QED BY <2>2, <2>3
<1>5. CASE BackOff(p)
    <2> DEFINE t == [poller[p] EXCEPT !.at = "loop"]
    <2>1. UNCHANGED <<confirmed, handed>>
        BY <1>5 DEF BackOff, updates
    <2>2. t \in Task /\ t.at = "loop" /\ t.offset = poller[p].offset
        BY <1>t DEF Task
    <2>3. poller' = [poller EXCEPT ![p] = t] \/ poller' = [poller EXCEPT ![p] = Gone]
        BY <1>5 DEF BackOff
    <2> HIDE DEF t
    <2> QED BY <2>1, <2>2, <2>3, <1>k, <1>v, NewTask
<1> QED BY <1>1, <1>2, <1>3, <1>4, <1>5 DEF PollStep
\* And so do the arrival of a request, the startup task's read, a user's post, a
\* restart and a stuttering step.
LEMMA OthersKeepFetch ==
    ASSUME FetchInv,
           \/ \E r \in Requests, op \in {"enable", "disable"} : Arrive(r, op)
           \/ ReadRows \/ Post \/ Restart \/ UNCHANGED vars
    PROVE  FetchInv'
<1> USE Bounds
<1>t. /\ poller \in [Pollers -> Task] /\ AtMostOne(table) /\ AtMostOne({})
      /\ proc \in [Procs -> Process] /\ \A s \in Procs : AtMostOne(proc[s].inst)
      /\ disturbed \in BOOLEAN
    BY DEF FetchInv, TypeOK, Task, Process, AtMostOne
<1>1. ASSUME NEW r \in Requests, NEW op \in {"enable", "disable"}, Arrive(r, op)
      PROVE  FetchInv'
    <2> DEFINE new == [op |-> op, pc |-> "stop", inst |-> {}]
    <2>1. new \in Process /\ AtMostOne(new.inst) /\ r \in Procs
        BY <1>t DEF Process, PCs, Procs
    <2>2. proc' = [proc EXCEPT ![r] = new]
        BY <1>1 DEF Arrive
    <2> HIDE DEF new
    <2>3. proc' \in [Procs -> Process] /\ \A s \in Procs : AtMostOne(proc'[s].inst)
        BY <2>1, <2>2, <1>t
    <2>4. UNCHANGED <<row, table, poller, updates>> /\ disturbed' = (disturbed \/ ~Quiet)
        BY <1>1 DEF Arrive
    <2>5. disturbed' \in BOOLEAN
        BY <2>4
    <2> QED BY <2>3, <2>4, <2>5, <1>t, RowKept, ManagerKept
<1>2. CASE ReadRows
    <2>1. proc' \in [Procs -> Process] /\ \A s \in Procs : AtMostOne(proc'[s].inst)
        BY <1>2, ProcessKept DEF ReadRows, PCs
    <2>2. disturbed' \in BOOLEAN
        BY <1>2, OutcomeKept DEF ReadRows
    <2>3. UNCHANGED <<row, table, poller, updates>>
        BY <1>2 DEF ReadRows
    <2> QED BY <2>1, <2>2, <2>3, <1>t, RowKept, ManagerKept
<1>3. CASE Post
    <2>1. posted \in 0..MaxUpdates /\ posted < MaxUpdates /\ posted' = posted + 1
        BY <1>3 DEF Post, FetchInv, TypeOK
    <2>2. UNCHANGED <<manager, poller, confirmed, handed, disturbed>>
        BY <1>3 DEF Post
    <2>3. TypeOK'
        BY <2>1, <2>2 DEF FetchInv, TypeOK, manager
    <2>4. NothingSkipped' /\ AtMostOne(table)' /\ \A r \in Procs : AtMostOne(proc[r].inst)'
        BY <2>2 DEF FetchInv, NothingSkipped, AtMostOne, manager
    <2>5. ASSUME NEW p \in Pollers PROVE Sound(p)'
        <3>1. Sound(p) /\ poller[p] \in Task
            BY DEF FetchInv, TypeOK, Task
        <3> QED BY <3>1, <2>1, <2>2 DEF Sound, Task
    <2> QED BY <2>3, <2>4, <2>5 DEF FetchInv
<1>4. CASE Restart
    <2>1. AtMostOne(table') /\ UNCHANGED <<row, updates>> /\ proc' = Started
        BY <1>4, <1>t DEF Restart
    <2>2. disturbed' \in BOOLEAN
        BY <1>4 DEF Restart
    <2>3. /\ poller' \in [Pollers -> Task]
          /\ \A p \in Pollers : poller'[p].offset = 0 /\ poller'[p].at # "handing"
        BY <1>4, NewTask DEF Restart
    <2> QED BY <2>1, <2>2, <2>3, StartTypes, RowKept, ManagerKept
<1>5. CASE UNCHANGED vars
    <2>1. UNCHANGED <<row, table, proc, poller, disturbed, updates>>
        BY <1>5 DEF vars, manager
    <2> QED BY <2>1, <1>t, RowKept, ManagerKept
<1> QED BY <1>1, <1>2, <1>3, <1>4, <1>5

\* The invariant holds of every behaviour.
LEMMA FetchAlways == Spec => []FetchInv
<1>1. ASSUME FetchInv, [Next]_vars PROVE FetchInv'
    <2>1. CASE \E r \in Procs : ProcStep(r)
        BY <1>1, <2>1, ProcKeepsFetch
    <2>2. CASE \E p \in Pollers : PollStep(p)
        BY <1>1, <2>2, PollKeepsFetch
    <2> QED BY <1>1, <2>1, <2>2, OthersKeepFetch DEF Next
<1> QED BY <1>1, FetchInit, PTL DEF Spec

\* The state of the plugin and of its poll tasks keeps its types: one instance at
\* most is active, and no loop counts its failures past the limit (enable_plugin,
\* poll_loop).
THEOREM PluginTypes == Spec => []TypeOK
<1>1. FetchInv => TypeOK
    BY DEF FetchInv
<1> QED BY <1>1, FetchAlways, PTL

\* Whatever connections are started, stopped, dropped or lost, and however many poll
\* the bot at the same time, the platform is told to forget only updates that are in
\* the message queue (poll_loop).
THEOREM UpdatesAreNotSkipped == Spec => []NothingSkipped
<1>1. FetchInv => NothingSkipped
    BY DEF FetchInv
<1> QED BY <1>1, FetchAlways, PTL

(***************************************************************************)
(* One connection at a time.                                                *)
(***************************************************************************)
Connected == [enabled |-> TRUE, status |-> "running"]

\* An instance is held between its start and its entry in the map.
InstancesHeld == \A r \in Procs : proc[r].inst # {} <=> proc[r].pc \in {"mark", "insert"}

\* Nothing overlaps; every loop that listens is accounted for; nothing is active
\* while a request that stopped the plugin goes on; and the row is on its way to
\* say what the map says.
OneAtATime == \A r, s \in Procs : proc[r].pc # "idle" /\ proc[s].pc # "idle" => r = s
Accounted  == \A p \in Pollers : Listening(p) => \/ p \in table
                                                 \/ \E r \in Procs : p \in proc[r].inst
NoneActive == \A r \in Procs : proc[r].pc \notin {"idle", "stop"} => table = {}
RowFollows == /\ \A r \in Procs : proc[r].pc \in {"connect", "mark"} => row.enabled
              /\ \A r \in Procs : proc[r].pc = "insert" => row = Connected
              /\ Quiet => (table # {} <=> row = Connected)
Steady == OneAtATime /\ Accounted /\ NoneActive /\ RowFollows

SteadyInv == FetchInv /\ InstancesHeld /\ (~disturbed => Steady)

\* The process starts with the startup task alone, and nothing connected.
LEMMA StartIsSteady ==
    ASSUME proc' = Started, table' = {}, \A p \in Pollers : poller'[p].at = "gone"
    PROVE  InstancesHeld' /\ Steady'
<1>1. \A r \in Procs : /\ proc'[r].inst = {}
                       /\ proc'[r].pc = IF r = Boot THEN "read" ELSE "idle"
    BY DEF Started, Restoring, Idle
<1>2. InstancesHeld' /\ OneAtATime' /\ NoneActive'
    BY <1>1 DEF InstancesHeld, OneAtATime, NoneActive
<1>3. Accounted'
    BY DEF Accounted, Listening, Live
<1>4. ~Quiet'
    BY <1>1, Bounds DEF Quiet
<1>5. RowFollows'
    BY <1>1, <1>4 DEF RowFollows
<1> QED BY <1>2, <1>3, <1>5 DEF Steady

\* The invariant holds when the process first starts.
LEMMA SteadyInit == Init => SteadyInv
<1> SUFFICES ASSUME Init PROVE SteadyInv
    OBVIOUS
<1>1. \A r \in Procs : /\ proc[r].inst = {}
                       /\ proc[r].pc = IF r = Boot THEN "read" ELSE "idle"
    BY DEF Init, Started, Restoring, Idle
<1>2. InstancesHeld /\ OneAtATime /\ NoneActive
    BY <1>1 DEF Init, InstancesHeld, OneAtATime, NoneActive
<1>3. Accounted
    BY NewTask DEF Init, Accounted, Listening, Live
<1>4. ~Quiet
    BY <1>1, Bounds DEF Quiet
<1>5. RowFollows
    BY <1>1, <1>4 DEF RowFollows
<1> QED BY <1>2, <1>3, <1>5, FetchInit DEF Steady, SteadyInv

\* A poll task's step starts no loop and takes back no stop.
LEMMA PollKeepsSteady ==
    ASSUME SteadyInv, NEW p \in Pollers, PollStep(p)
    PROVE  SteadyInv'
<1>1. FetchInv'
    BY PollKeepsFetch DEF SteadyInv
<1>2. UNCHANGED <<row, table, proc, disturbed>>
    BY DEF PollStep, Ask, Answer, Hand, AnswerFails, BackOff, manager
<1>t. poller \in [Pollers -> Task] /\ poller[p] \in Task
    BY DEF SteadyInv, FetchInv, TypeOK, Task
<1>3. ASSUME NEW q \in Pollers, Listening(q)' PROVE Listening(q)
    <2>1. CASE q # p
        <3>1. poller'[q] = poller[q]
            BY <2>1, <1>t DEF PollStep, Ask, Answer, Hand, AnswerFails, BackOff, Goes
        <3> QED BY <3>1, <1>3 DEF Listening, Live
    <2>2. CASE q = p
        <3>1. poller[p].at # "gone"
            BY DEF PollStep, Ask, Answer, Hand, AnswerFails, BackOff
        <3>2. poller' = [poller EXCEPT ![p] = Gone] \/ poller'[p].told = poller[p].told
            BY <1>t DEF PollStep, Ask, Answer, Hand, AnswerFails, BackOff, Goes, Task
        <3>3. poller'[p].at # "gone" /\ ~poller'[p].told
            BY <1>3, <2>2 DEF Listening, Live
        <3>4. poller'[p].told = poller[p].told
            BY <3>2, <3>3, <1>t, NewTask
        <3> QED BY <3>1, <3>3, <3>4, <2>2 DEF Listening, Live
    <2> QED BY <2>1, <2>2
<1>4. InstancesHeld'
    BY <1>2 DEF SteadyInv, InstancesHeld
<1>5. ASSUME ~disturbed' PROVE Steady'
    <2>1. Steady
        BY <1>5, <1>2 DEF SteadyInv
    <2>2. Accounted'
        BY <2>1, <1>2, <1>3 DEF Steady, Accounted
    <2>3. OneAtATime' /\ NoneActive' /\ RowFollows'
        BY <2>1, <1>2 DEF Steady, OneAtATime, NoneActive, RowFollows, Quiet
    <2> QED BY <2>2, <2>3 DEF Steady
<1> QED BY <1>1, <1>4, <1>5 DEF SteadyInv

\* A step of process r that leads to pc, holding inst, keeps InstancesHeld.
LEMMA HeldKept ==
    ASSUME InstancesHeld, NEW r \in Procs, NEW pc, NEW inst,
           proc'[r].pc = pc, proc'[r].inst = inst,
           \A s \in Procs : s # r => proc'[s] = proc[s],
           inst # {} <=> pc \in {"mark", "insert"}
    PROVE  InstancesHeld'
BY DEF InstancesHeld

\* The only process under way keeps Steady when the loops that listen after its step
\* belong to the active instance or to the one it holds, and the row follows.
LEMMA SteadyStep ==
    ASSUME SteadyInv, ~disturbed, NEW r \in Procs, NEW pc, NEW inst,
           proc[r].pc # "idle",
           proc'[r].pc = pc, proc'[r].inst = inst,
           \A s \in Procs : s # r => proc'[s] = proc[s],
           \A p \in Pollers : Listening(p)' => p \in table' \/ p \in inst,
           pc \notin {"idle", "stop"} => table' = {},
           pc \in {"connect", "mark"} => row'.enabled,
           pc = "insert" => row' = Connected,
           pc = "idle" => (table' # {} <=> row' = Connected)
    PROVE  Steady'
<1>1. \A s \in Procs : s # r => proc'[s].pc = "idle"
    BY DEF SteadyInv, Steady, OneAtATime
<1>2. OneAtATime' /\ NoneActive'
    BY <1>1 DEF OneAtATime, NoneActive
<1>3. Accounted'
    BY DEF Accounted
<1>4. Quiet' => pc = "idle"
    BY DEF Quiet
<1>5. RowFollows'
    BY <1>1, <1>4 DEF RowFollows
<1> QED BY <1>2, <1>3, <1>5 DEF Steady

\* What the only process under way finds.
LEMMA AloneFinds ==
    ASSUME SteadyInv, ~disturbed, NEW r \in Procs, proc[r].pc # "idle"
    PROVE  /\ \A p \in Pollers : Listening(p) => p \in table \/ p \in proc[r].inst
           /\ proc[r].pc # "stop" => table = {}
           /\ proc[r].pc \in {"connect", "mark"} => row.enabled
           /\ proc[r].pc = "insert" => row = Connected
           /\ proc[r].inst # {} <=> proc[r].pc \in {"mark", "insert"}
<1>1. \A s \in Procs : s # r => proc[s].pc = "idle"
    BY DEF SteadyInv, Steady, OneAtATime
<1>2. \A s \in Procs : s # r => proc[s].inst = {}
    BY <1>1 DEF SteadyInv, InstancesHeld
<1>3. \A p \in Pollers : Listening(p) => p \in table \/ p \in proc[r].inst
    BY <1>2 DEF SteadyInv, Steady, Accounted
<1> QED BY <1>3 DEF SteadyInv, Steady, NoneActive, RowFollows, InstancesHeld

\* How a process moves: on with its instance, to the end, or with another instance.
LEMMA Moves ==
    ASSUME FetchInv, NEW r \in Procs
    PROVE  /\ \A pc : Goto(r, pc) => /\ proc'[r].pc = pc /\ proc'[r].inst = proc[r].inst
                                     /\ \A s \in Procs : s # r => proc'[s] = proc[s]
           /\ End(r) => /\ proc'[r].pc = "idle" /\ proc'[r].inst = {}
                        /\ \A s \in Procs : s # r => proc'[s] = proc[s]
           /\ \A pc, inst : Hold(r, pc, inst) =>
                 /\ proc'[r].pc = pc /\ proc'[r].inst = inst
                 /\ \A s \in Procs : s # r => proc'[s] = proc[s]
<1>1. proc \in [Procs -> Process] /\ proc[r] \in Process
    BY DEF FetchInv, TypeOK, Process
<1>2. ASSUME NEW pc, Goto(r, pc)
      PROVE  /\ proc'[r].pc = pc /\ proc'[r].inst = proc[r].inst
             /\ \A s \in Procs : s # r => proc'[s] = proc[s]
    BY <1>1, <1>2 DEF Goto, Process
<1>3. ASSUME End(r)
      PROVE  /\ proc'[r].pc = "idle" /\ proc'[r].inst = {}
             /\ \A s \in Procs : s # r => proc'[s] = proc[s]
    BY <1>1, <1>3 DEF End, Idle
<1>4. ASSUME NEW pc, NEW inst, Hold(r, pc, inst)
      PROVE  /\ proc'[r].pc = pc /\ proc'[r].inst = inst
             /\ \A s \in Procs : s # r => proc'[s] = proc[s]
    BY <1>1, <1>4 DEF Hold
<1> QED BY <1>2, <1>3, <1>4

\* Dropping instances leaves every loop listening that listened; stopping them ends
\* the listening of theirs.
LEMMA SignalsHeard ==
    ASSUME poller \in [Pollers -> Task], NEW ps, NEW p \in Pollers
    PROVE  /\ poller' = Dropped(ps) => (Listening(p)' => Listening(p))
           /\ poller' = Stopped(ps) => (Listening(p)' => Listening(p) /\ p \notin ps)
<1>1. poller[p] \in Task
    OBVIOUS
<1>2. ASSUME poller' = Dropped(ps), Listening(p)' PROVE Listening(p)
    BY <1>1, <1>2 DEF Dropped, Listening, Live, Task
<1>3. ASSUME poller' = Stopped(ps), Listening(p)' PROVE Listening(p) /\ p \notin ps
    <2>1. poller'[p] = IF p \in ps /\ Live(p)
                       THEN [poller[p] EXCEPT !.told = TRUE, !.held = FALSE] ELSE poller[p]
        BY <1>3 DEF Stopped
    <2>2. CASE p \in ps /\ Live(p)
        <3>1. poller'[p].told
            BY <2>1, <2>2, <1>1 DEF Task
        <3> QED BY <3>1, <1>3 DEF Listening
    <2>3. CASE ~(p \in ps /\ Live(p))
        <3>1. poller'[p] = poller[p]
            BY <2>1, <2>3
        <3> QED BY <3>1, <2>3, <1>3 DEF Listening, Live
    <2> QED BY <2>2, <2>3
<1> QED BY <1>2, <1>3

\* Every step of a request or of the startup task keeps the invariant.
LEMMA ProcKeepsSteady ==
    ASSUME SteadyInv, NEW r \in Procs, ProcStep(r) \/ (r = Boot /\ ReadRows)
    PROVE  SteadyInv'
<1> USE Moves
<1>f. FetchInv /\ InstancesHeld /\ poller \in [Pollers -> Task] /\ AtMostOne(table)
      /\ AtMostOne(proc[r].inst) /\ row \in [enabled : BOOLEAN, status : Statuses]
    BY DEF SteadyInv, FetchInv, TypeOK, Task
<1>g. FetchInv'
    BY <1>f, ProcKeepsFetch, OthersKeepFetch
<1>h. proc[r].inst # {} <=> proc[r].pc \in {"mark", "insert"}
    BY <1>f DEF InstancesHeld
\* What each step does to the process, and what a steady state makes of it.
<1>1. CASE StopPlugin(r)
    <2>1. PICK pc \in {"upsert", "off"} : Goto(r, pc)
        BY <1>1 DEF StopPlugin
    <2>2. proc[r].pc = "stop" /\ table' = {} /\ poller' = Stopped(table) /\ UNCHANGED disturbed
        BY <1>1 DEF StopPlugin
    <2>3. proc[r].inst = {}
        BY <2>2, <1>h
    <2>4. InstancesHeld'
        BY <2>1, <2>3, <1>f, HeldKept
    <2>5. ASSUME ~disturbed' PROVE Steady'
        <3>1. ~disturbed
            BY <2>2, <2>5
        <3>2. \A p \in Pollers : Listening(p) => p \in table
            BY <3>1, <2>2, <2>3, AloneFinds
        <3>3. \A p \in Pollers : ~Listening(p)'
            BY <3>2, <2>2, <1>f, SignalsHeard
        <3> QED BY <3>1, <3>3, <2>1, <2>2, <2>3, <1>f, SteadyStep
    <2> QED BY <2>4, <2>5, <1>g DEF SteadyInv
<1>2. CASE Upsert(r)
    <2>1. /\ proc[r].pc = "upsert" /\ UNCHANGED <<table, poller>>
          /\ \/ row' = [enabled |-> TRUE, status |-> "created"] /\ Goto(r, "connect") /\ Succeeds
             \/ End(r) /\ Fails
        BY <1>2 DEF Upsert
    <2>2. proc[r].inst = {}
        BY <2>1, <1>h
    <2>3. InstancesHeld'
        BY <2>1, <2>2, <1>f, HeldKept
    <2>4. ASSUME ~disturbed' PROVE Steady'
        <3>1. ~disturbed /\ row'.enabled /\ Goto(r, "connect")
            BY <2>1, <2>4 DEF Succeeds, Fails
        <3>2. table' = {} /\ \A p \in Pollers : ~Listening(p)
            BY <3>1, <2>1, <2>2, AloneFinds
        <3>3. \A p \in Pollers : ~Listening(p)'
            BY <3>2, <2>1 DEF Listening, Live
        <3> QED BY <3>1, <3>2, <3>3, <2>1, <2>2, <1>f, SteadyStep
    <2> QED BY <2>3, <2>4, <1>g DEF SteadyInv
<1>3. CASE Connect(r)
    <2>1. proc[r].pc = "connect" /\ UNCHANGED <<row, table, disturbed>>
        BY <1>3 DEF Connect
    <2>2. proc[r].inst = {}
        BY <2>1, <1>h
    <2>3. CASE UNCHANGED poller /\ Goto(r, "fail")
        <3>1. InstancesHeld'
            BY <2>2, <2>3, <1>f, HeldKept
        <3>2. ASSUME ~disturbed' PROVE Steady'
            <4>1. ~disturbed
                BY <2>1, <3>2
            <4>2. table' = {} /\ \A p \in Pollers : ~Listening(p)
                BY <4>1, <2>1, <2>2, AloneFinds
            <4>3. \A p \in Pollers : ~Listening(p)'
                BY <4>2, <2>3 DEF Listening, Live
            <4> QED BY <4>1, <4>2, <4>3, <2>1, <2>2, <2>3, <1>f, SteadyStep
        <3> QED BY <3>1, <3>2, <1>g DEF SteadyInv
    <2>4. ASSUME NEW p \in Pollers, poller' = [poller EXCEPT ![p] = New], Hold(r, "mark", {p})
          PROVE  SteadyInv'
        <3>1. InstancesHeld'
            BY <2>4, <1>f, HeldKept
        <3>2. ASSUME ~disturbed' PROVE Steady'
            <4>1. ~disturbed
                BY <2>1, <3>2
            <4>2. table' = {} /\ row'.enabled /\ \A q \in Pollers : ~Listening(q)
                BY <4>1, <2>1, <2>2, AloneFinds
            <4>3. \A q \in Pollers : Listening(q)' => q \in {p}
                BY <4>2, <2>4, <1>f DEF Listening, Live
            <4> QED BY <4>1, <4>2, <4>3, <2>1, <2>4, <1>f, SteadyStep
        <3> QED BY <3>1, <3>2, <1>g DEF SteadyInv
    <2> QED BY <2>3, <2>4, <1>3 DEF Connect
<1>4. CASE MarkRunning(r)
    <2>1. proc[r].pc = "mark" /\ UNCHANGED table
        BY <1>4 DEF MarkRunning
    <2>2. proc[r].inst # {}
        BY <2>1, <1>h
    <2>3. CASE row' = [row EXCEPT !.status = "running"] /\ Goto(r, "insert")
               /\ UNCHANGED poller /\ Succeeds
        <3>1. InstancesHeld'
            BY <2>2, <2>3, <1>f, HeldKept
        <3>2. ASSUME ~disturbed' PROVE Steady'
            <4>1. ~disturbed
                BY <2>3, <3>2 DEF Succeeds
            <4>2. /\ table' = {} /\ row.enabled
                  /\ \A p \in Pollers : Listening(p) => p \in proc[r].inst
                BY <4>1, <2>1, AloneFinds
            <4>3. \A p \in Pollers : Listening(p)' => p \in proc[r].inst
                BY <4>2, <2>3 DEF Listening, Live
            <4>4. row' = Connected
                BY <4>2, <2>3, <1>f DEF Connected
            <4> QED BY <4>1, <4>2, <4>3, <4>4, <2>1, <2>3, <1>f, SteadyStep
        <3> QED BY <3>1, <3>2, <1>g DEF SteadyInv
    <2>4. CASE Fails /\ (Hold(r, "fail", {}) \/ End(r))
        <3>1. InstancesHeld'
            BY <2>4, <1>f, HeldKept
        <3>2. disturbed'
            BY <2>4 DEF Fails
        <3> QED BY <3>1, <3>2, <1>g DEF SteadyInv
    <2> QED BY <2>3, <2>4, <1>4 DEF MarkRunning
<1>5. CASE Insert(r)
    <2>1. /\ proc[r].pc = "insert" /\ table' = proc[r].inst /\ poller' = Dropped(table)
          /\ End(r) /\ UNCHANGED <<row, disturbed>>
        BY <1>5 DEF Insert
    <2>2. InstancesHeld'
        BY <2>1, <1>f, HeldKept
    <2>3. ASSUME ~disturbed' PROVE Steady'
        <3>1. ~disturbed
            BY <2>1, <2>3
        <3>2. /\ table = {} /\ row' = Connected /\ proc[r].inst # {}
              /\ \A p \in Pollers : Listening(p) => p \in proc[r].inst
            BY <3>1, <2>1, AloneFinds
        <3>3. \A p \in Pollers : Listening(p)' => p \in table'
            BY <3>2, <2>1, <1>f, SignalsHeard
        <3> QED BY <3>1, <3>2, <3>3, <2>1, <1>f, SteadyStep
    <2> QED BY <2>2, <2>3, <1>g DEF SteadyInv
<1>6. CASE MarkError(r) \/ SwitchOff(r) \/ (r = Boot /\ ReadRows)
    <2>1. /\ proc[r].pc \in {"fail", "off", "read"} /\ UNCHANGED <<table, poller>>
          /\ \/ End(r)
             \/ Goto(r, "connect") /\ row.enabled /\ UNCHANGED row
        BY <1>6 DEF MarkError, SwitchOff, ReadRows
    <2>2. proc[r].inst = {}
        BY <2>1, <1>h
    <2>3. InstancesHeld'
        BY <2>1, <2>2, <1>f, HeldKept
    <2>4. disturbed' \/ (UNCHANGED disturbed /\ (End(r) => row' # Connected))
        <3>1. CASE MarkError(r)
            <4>1. CASE row' = [row EXCEPT !.status = "error"] /\ Succeeds
                <5>1. row'.status = "error"
                    BY <4>1, <1>f
                <5>2. UNCHANGED disturbed
                    BY <4>1 DEF Succeeds
                <5>3. row' # Connected
                    BY <5>1 DEF Connected
                <5> QED BY <5>2, <5>3
            <4> QED BY <3>1, <4>1 DEF MarkError, Fails
        <3>2. CASE SwitchOff(r)
            <4>1. CASE row.status = "absent" /\ row' = row /\ Succeeds
                BY <4>1, <1>f DEF Connected, Succeeds
            <4>2. CASE row' = [enabled |-> FALSE, status |-> "stopped"] /\ Succeeds
                BY <4>2 DEF Connected, Succeeds
            <4> QED BY <3>2, <4>1, <4>2 DEF SwitchOff, Fails
        <3>3. CASE r = Boot /\ ReadRows
            <4>1. CASE row.enabled /\ Goto(r, "connect") /\ Succeeds
                <5>1. ~End(r)
                    BY <4>1, <1>f
                <5> QED BY <5>1, <4>1 DEF Succeeds
            <4>2. CASE ~row.enabled /\ UNCHANGED row /\ Succeeds
                BY <4>2, <1>f DEF Connected, Succeeds
            <4> QED BY <3>3, <4>1, <4>2 DEF ReadRows, Fails
        <3> QED BY <3>1, <3>2, <3>3, <1>6
    <2>5. ASSUME ~disturbed' PROVE Steady'
        <3>1. ~disturbed /\ (End(r) => row' # Connected)
            BY <2>4, <2>5
        <3>2. table' = {} /\ \A p \in Pollers : ~Listening(p)
            BY <3>1, <2>1, <2>2, AloneFinds
        <3>3. \A p \in Pollers : ~Listening(p)'
            BY <3>2, <2>1 DEF Listening, Live
        <3>4. CASE End(r)
            BY <3>1, <3>2, <3>3, <3>4, <2>1, <1>f, SteadyStep
        <3>5. CASE Goto(r, "connect") /\ row.enabled /\ UNCHANGED row
            BY <3>1, <3>2, <3>3, <3>5, <2>1, <2>2, <1>f, SteadyStep
        <3> QED BY <3>4, <3>5, <2>1
    <2> QED BY <2>3, <2>5, <1>g DEF SteadyInv
<1> QED BY <1>1, <1>2, <1>3, <1>4, <1>5, <1>6 DEF ProcStep

\* So do the arrival of a request, a user's post, a restart and a stuttering step.
LEMMA OthersKeepSteady ==
    ASSUME SteadyInv,
           \/ \E r \in Requests, op \in {"enable", "disable"} : Arrive(r, op)
           \/ Post \/ Restart \/ UNCHANGED vars
    PROVE  SteadyInv'
<1>f. FetchInv /\ FetchInv' /\ proc \in [Procs -> Process]
    BY OthersKeepFetch DEF SteadyInv, FetchInv, TypeOK, Process
<1>1. ASSUME NEW r \in Requests, NEW op \in {"enable", "disable"}, Arrive(r, op)
      PROVE  SteadyInv'
    <2>1. /\ r \in Procs /\ proc'[r].pc = "stop" /\ proc'[r].inst = {}
          /\ \A s \in Procs : s # r => proc'[s] = proc[s]
        BY <1>1, <1>f DEF Arrive, Procs
    <2>2. UNCHANGED <<row, table, poller>> /\ disturbed' = (disturbed \/ ~Quiet)
        BY <1>1 DEF Arrive
    <2>3. InstancesHeld'
        BY <2>1, HeldKept DEF SteadyInv
    <2>4. ASSUME ~disturbed' PROVE Steady'
        <3>1. ~disturbed /\ Quiet
            BY <2>2, <2>4
        <3>2. \A s \in Procs : proc[s].inst = {}
            BY <3>1 DEF SteadyInv, InstancesHeld, Quiet
        <3>3. OneAtATime' /\ NoneActive'
            BY <3>1, <2>1 DEF OneAtATime, NoneActive, Quiet
        <3>4. Accounted'
            BY <3>1, <3>2, <2>2 DEF SteadyInv, Steady, Accounted, Listening, Live
        <3>5. RowFollows'
            BY <3>1, <2>1 DEF RowFollows, Quiet
        <3> QED BY <3>3, <3>4, <3>5 DEF Steady
    <2> QED BY <2>3, <2>4, <1>f DEF SteadyInv
<1>2. CASE Post \/ UNCHANGED vars
    <2>1. UNCHANGED <<row, table, proc, poller, disturbed>>
        BY <1>2 DEF Post, vars, manager
    <2> QED BY <2>1, <1>f DEF SteadyInv, InstancesHeld, Steady, OneAtATime, Accounted,
                              Listening, Live, NoneActive, RowFollows, Quiet
<1>3. CASE Restart
    <2>1. proc' = Started /\ table' = {} /\ \A p \in Pollers : poller'[p].at = "gone"
        BY <1>3, NewTask DEF Restart
    <2> QED BY <2>1, <1>f, StartIsSteady DEF SteadyInv
<1> QED BY <1>1, <1>2, <1>3

\* While no two requests overlap and no write fails, one poll loop at most has not
\* been told to stop, and when nothing is in progress it is the active instance's and
\* the row says so (enable_plugin, disable_plugin, restore_plugins).
THEOREM OneConnectionAlways == Spec => []OneConnection
<1>1. ASSUME SteadyInv, [Next]_vars PROVE SteadyInv'
    <2>1. CASE \E r \in Procs : ProcStep(r)
        BY <1>1, <2>1, ProcKeepsSteady
    <2>2. CASE ReadRows
        BY <1>1, <2>2, ProcKeepsSteady, Bounds
    <2>3. CASE \E p \in Pollers : PollStep(p)
        BY <1>1, <2>3, PollKeepsSteady
    <2> QED BY <1>1, <2>1, <2>2, <2>3, OthersKeepSteady DEF Next
<1>2. ASSUME SteadyInv PROVE OneConnection
    <2> SUFFICES ASSUME ~disturbed PROVE /\ \A p, q \in Pollers : Listening(p) /\ Listening(q) => p = q
                                         /\ Quiet => /\ \A p \in Pollers : Listening(p) => p \in table
                                                     /\ table # {} <=> row = Connected
        BY DEF OneConnection, Connected
    <2>1. Steady /\ InstancesHeld /\ AtMostOne(table) /\ \A r \in Procs : AtMostOne(proc[r].inst)
        BY <1>2 DEF SteadyInv, FetchInv
    <2>2. CASE Quiet
        <3>1. \A p \in Pollers : Listening(p) => p \in table
            BY <2>1, <2>2 DEF Steady, Accounted, InstancesHeld, Quiet
        <3> QED BY <3>1, <2>1, <2>2 DEF AtMostOne, Steady, RowFollows
    <2>3. CASE ~Quiet
        <3>1. PICK r \in Procs : proc[r].pc # "idle"
            BY <2>3 DEF Quiet
        <3>2. /\ \A p \in Pollers : Listening(p) => p \in table \/ p \in proc[r].inst
              /\ table = {} \/ proc[r].inst = {}
            BY <3>1, <1>2, AloneFinds
        <3> QED BY <3>2, <2>1, <2>3 DEF AtMostOne
    <2> QED BY <2>2, <2>3
<1> QED BY <1>1, <1>2, SteadyInit, PTL DEF Spec
=============================================================================
