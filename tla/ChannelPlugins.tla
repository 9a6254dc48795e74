--------------------------- MODULE ChannelPlugins ---------------------------
(***************************************************************************)
(* The lifecycle of one channel plugin (aionui-channel, manager.rs) and of  *)
(* the long-polling connection it owns (plugins/telegram/plugin.rs): the    *)
(* row of assistant_plugins, the entry of the plugins map, the poll tasks    *)
(* and the requests that enable and disable the plugin while the startup     *)
(* task restores it.                                                         *)
(*                                                                           *)
(* A plugin instance is named by its poll task, a member of Pollers.  An     *)
(* optional instance is a set with at most one member.  Updates are the      *)
(* messages users post to the bot; the platform forgets an update when a     *)
(* later get_updates call asks for the ones after it.                        *)
(***************************************************************************)
EXTENDS Integers, FiniteSets

CONSTANTS Requests,       \* slots for concurrent HTTP requests
          Boot,           \* the startup task that restores the plugins
          Pollers,        \* names of plugin instances and their poll tasks
          MaxRequests,    \* bound: requests made in all
          MaxUpdates,     \* bound: updates users post
          MaxErrors,      \* TELEGRAM_MAX_RECONNECT_ATTEMPTS
          MaxFaults,      \* bound: database statements that fail
          MaxRestarts     \* bound: restarts of the process

ASSUME PluginsAssumption ==
    /\ Boot \notin Requests
    /\ MaxErrors \in Nat \ {0}
    /\ {MaxRequests, MaxUpdates, MaxFaults, MaxRestarts} \subseteq Nat

VARIABLES row,        \* the plugin's row: enabled and status, "absent" if none
          table,      \* plugins: the active instance, if any
          proc,       \* the requests and the startup task
          poller,     \* the poll tasks
          posted,     \* updates posted so far
          confirmed,  \* updates the platform has been told to forget
          handed,     \* updates put in the message queue
          disturbed,  \* since the process started: two procs overlapped, or a write failed
          requests, faults, restarts

manager == <<row, table, proc>>
updates == <<posted, confirmed, handed>>
bounds  == <<requests, faults, restarts>>
vars == <<manager, poller, updates, disturbed, bounds>>

Procs    == Requests \cup {Boot}
Statuses == {"absent", "created", "running", "stopped", "error"}
PCs      == {"idle", "stop", "upsert", "read", "connect", "mark", "insert", "fail", "off"}

Idle      == [op |-> "none", pc |-> "idle", inst |-> {}]
Restoring == [op |-> "restore", pc |-> "read", inst |-> {}]
Started   == [r \in Procs |-> IF r = Boot THEN Restoring ELSE Idle]

\* A poll task: where it is, whether it was told to end, whether the sender of its
\* shutdown signal exists, the last update it handled, the updates next..last it
\* has yet to handle, and its failures in a row.
Gone == [at |-> "gone", told |-> FALSE, held |-> FALSE, offset |-> 0,
         next |-> 0, last |-> 0, errors |-> 0]
New  == [at |-> "loop", told |-> FALSE, held |-> TRUE, offset |-> 0,
         next |-> 0, last |-> 0, errors |-> 0]

Live(p)      == poller[p].at # "gone"
Listening(p) == Live(p) /\ ~poller[p].told
Quiet        == \A r \in Procs : proc[r].pc = "idle"
\* Bound: a name is reused only when nothing refers to the instance any more.
Free(p) == /\ ~Live(p)
           /\ p \notin table
           /\ \A r \in Procs : p \notin proc[r].inst

Init ==
    /\ row = [enabled |-> FALSE, status |-> "absent"]
    /\ table = {}
    /\ proc = Started
    /\ poller = [p \in Pollers |-> Gone]
    /\ posted = 0 /\ confirmed = 0 /\ handed = {}
    /\ disturbed = FALSE
    /\ requests = 0 /\ faults = 0 /\ restarts = 0

(***************************************************************************)
(* Steps of a request or of the startup task.                               *)
(***************************************************************************)
Goto(r, pc) == proc' = [proc EXCEPT ![r].pc = pc]
End(r)      == proc' = [proc EXCEPT ![r] = Idle]
\* It goes on with another instance, or with none.
Hold(r, pc, inst) ==
    proc' = [proc EXCEPT ![r] = [op |-> proc[r].op, pc |-> pc, inst |-> inst]]

\* A database statement fails.
Fails == /\ faults < MaxFaults
         /\ faults' = faults + 1
         /\ disturbed' = TRUE
         /\ UNCHANGED <<requests, restarts>>
Succeeds == UNCHANGED <<disturbed, bounds>>

\* A plugin instance is dropped without stop: the sender of its shutdown signal
\* goes away, its poll task is detached and goes on.
Dropped(ps) == [p \in Pollers |-> IF p \in ps /\ Live(p)
                                  THEN [poller[p] EXCEPT !.held = FALSE] ELSE poller[p]]

\* Faulty variant of Stopped: the instance is dropped, its stop is never called.
StoppedByDrop(ps) == [p \in Pollers |-> IF p \in ps /\ Live(p)
                                        THEN [poller[p] EXCEPT !.held = FALSE] ELSE poller[p]]

\* An instance is stopped: its poll task is told to end.  stop() waits for the
\* task for a few seconds only, so what follows may come before the task ends.
Stopped(ps) == [p \in Pollers |-> IF p \in ps /\ Live(p)
                                  THEN [poller[p] EXCEPT !.told = TRUE, !.held = FALSE]
                                  ELSE poller[p]]

\* A request arrives at the routes: enable_plugin or disable_plugin.
Arrive(r, op) ==
    /\ r # Boot /\ proc[r] = Idle
    /\ requests < MaxRequests
    /\ proc' = [proc EXCEPT ![r] = [op |-> op, pc |-> "stop", inst |-> {}]]
    /\ requests' = requests + 1
    /\ disturbed' = (disturbed \/ ~Quiet)
    /\ UNCHANGED <<row, table, poller, updates, faults, restarts>>

\* stop_plugin: the active instance is removed and stopped.
StopPlugin(r) ==
    /\ proc[r].pc = "stop"
    /\ table' = {}
    /\ poller' = Stopped(table)
    /\ Goto(r, IF proc[r].op = "enable" THEN "upsert" ELSE "off")
    /\ UNCHANGED <<row, updates, disturbed, bounds>>

\* enable_plugin persists the row before it connects.
Upsert(r) ==
    /\ proc[r].pc = "upsert"
    /\ \/ /\ row' = [enabled |-> TRUE, status |-> "created"]
          /\ Goto(r, "connect")
          /\ Succeeds
       \/ UNCHANGED row /\ End(r) /\ Fails
    /\ UNCHANGED <<table, poller, updates>>

\* restore_plugins reads the rows once and goes on with the enabled ones.
ReadRows ==
    /\ proc[Boot].pc = "read"
    /\ \/ /\ IF row.enabled THEN Goto(Boot, "connect") ELSE End(Boot)
          /\ Succeeds
       \/ End(Boot) /\ Fails
    /\ UNCHANGED <<row, table, poller, updates>>

\* initialize, then start, which spawns the poll task; either may fail, and then
\* the instance is dropped before it has a task.
Connect(r) ==
    /\ proc[r].pc = "connect"
    /\ \/ /\ \E p \in Pollers : Free(p)
          /\ LET p == CHOOSE q \in Pollers : Free(q)
             IN  /\ poller' = [poller EXCEPT ![p] = New]
                 /\ Hold(r, "mark", {p})
       \/ UNCHANGED poller /\ Goto(r, "fail")
    /\ UNCHANGED <<row, table, updates, disturbed, bounds>>

\* The running status is written.  When that fails the started instance is
\* dropped; restore_plugins then records the error, enable_plugin returns it.
MarkRunning(r) ==
    /\ proc[r].pc = "mark"
    /\ \/ /\ row' = [row EXCEPT !.status = "running"]
          /\ Goto(r, "insert")
          /\ UNCHANGED poller
          /\ Succeeds
       \/ /\ UNCHANGED row
          /\ poller' = Dropped(proc[r].inst)
          /\ IF proc[r].op = "restore"
             THEN Hold(r, "fail", {})
             ELSE End(r)
          /\ Fails
    /\ UNCHANGED <<table, updates>>

\* The instance enters the map; one that is still there is dropped.
Insert(r) ==
    /\ proc[r].pc = "insert"
    /\ table' = proc[r].inst
    /\ poller' = Dropped(table)
    /\ End(r)
    /\ UNCHANGED <<row, updates, disturbed, bounds>>

\* update_plugin_error: a failure to write it is only logged.
MarkError(r) ==
    /\ proc[r].pc = "fail"
    /\ \/ row' = [row EXCEPT !.status = "error"] /\ Succeeds
       \/ UNCHANGED row /\ Fails
    /\ End(r)
    /\ UNCHANGED <<table, poller, updates>>

\* disable_plugin updates the row; with no row to update it returns an error.
SwitchOff(r) ==
    /\ proc[r].pc = "off"
    /\ \/ /\ row' = IF row.status = "absent" THEN row
                    ELSE [enabled |-> FALSE, status |-> "stopped"]
          /\ Succeeds
       \/ UNCHANGED row /\ Fails
    /\ End(r)
    /\ UNCHANGED <<table, poller, updates>>

(***************************************************************************)
(* poll_loop, and the platform it polls.                                    *)
(***************************************************************************)
\* The poll task goes on at a place, its signals as they are.
Goes(p, at, offset, next, last, errors) ==
    poller' = [poller EXCEPT ![p] =
        [at |-> at, told |-> poller[p].told, held |-> poller[p].held, offset |-> offset,
         next |-> next, last |-> last, errors |-> errors]]

Larger(a, b) == IF a > b THEN a ELSE b

\* Faulty variant of NextOffset: the offset skips an update.
NextOffsetTooFar(p) == IF poller[p].offset = 0 THEN 1 ELSE poller[p].offset + 2

\* The first update the loop asks for; the first of all when it has no offset.
NextOffset(p) == poller[p].offset + 1

\* The loop looks at the shutdown signal and calls get_updates; the call's offset
\* tells the platform to forget the updates before it.
Ask(p) ==
    /\ poller[p].at = "loop"
    /\ IF poller[p].told
       THEN /\ poller' = [poller EXCEPT ![p] = Gone]
            /\ UNCHANGED confirmed
       ELSE /\ poller' = [poller EXCEPT ![p].at = "asked"]
            /\ confirmed' = Larger(confirmed, NextOffset(p) - 1)
    /\ UNCHANGED <<manager, posted, handed, disturbed, bounds>>

\* get_updates returns, with the updates the platform still has, or with none.
Answer(p) ==
    /\ poller[p].at = "asked"
    /\ LET first == Larger(confirmed + 1, NextOffset(p))
       IN  IF first > posted THEN Goes(p, "loop", poller[p].offset, 0, 0, 0)
                             ELSE Goes(p, "handing", poller[p].offset, first, posted, 0)
    /\ UNCHANGED <<manager, updates, disturbed, bounds>>

\* An update of the batch is put in the message queue.
Hand(p) ==
    /\ poller[p].at = "handing"
    /\ LET u == poller[p].next
       IN  /\ handed' = handed \cup {u}
           /\ IF u = poller[p].last THEN Goes(p, "loop", u, 0, 0, 0)
                                    ELSE Goes(p, "handing", u, u + 1, poller[p].last, 0)
    /\ UNCHANGED <<manager, posted, confirmed, disturbed, bounds>>

\* Faulty variant of AnswerFails: one failure too many before the loop gives up.
AnswerFailsOnceMore(p) ==
    /\ poller[p].at = "asked"
    /\ IF poller[p].errors + 1 > MaxErrors
       THEN poller' = [poller EXCEPT ![p] = Gone]
       ELSE Goes(p, "backoff", poller[p].offset, 0, 0, poller[p].errors + 1)
    /\ UNCHANGED <<manager, updates, disturbed, bounds>>

\* get_updates fails: after MaxErrors failures in a row the loop gives up.
AnswerFails(p) ==
    /\ poller[p].at = "asked"
    /\ IF poller[p].errors + 1 >= MaxErrors
       THEN poller' = [poller EXCEPT ![p] = Gone]
       ELSE Goes(p, "backoff", poller[p].offset, 0, 0, poller[p].errors + 1)
    /\ UNCHANGED <<manager, updates, disturbed, bounds>>

\* Faulty variant of BackOff: the loop waits for the shutdown signal alone.
BackOffForSignal(p) ==
    /\ poller[p].at = "backoff"
    /\ poller[p].told \/ ~poller[p].held
    /\ poller' = [poller EXCEPT ![p] = Gone]
    /\ UNCHANGED <<manager, updates, disturbed, bounds>>

\* The backoff ends with the sleep, or because the shutdown signal changed: it is
\* set, or its sender is gone.
BackOff(p) ==
    /\ poller[p].at = "backoff"
    /\ \/ poller' = [poller EXCEPT ![p].at = "loop"]
       \/ /\ poller[p].told \/ ~poller[p].held
          /\ poller' = [poller EXCEPT ![p] = Gone]
    /\ UNCHANGED <<manager, updates, disturbed, bounds>>

\* A user posts an update.
Post == /\ posted < MaxUpdates
        /\ posted' = posted + 1
        /\ UNCHANGED <<manager, poller, confirmed, handed, disturbed, bounds>>

\* The process ends and starts again: the row is all that is left.
Restart ==
    /\ restarts < MaxRestarts
    /\ restarts' = restarts + 1
    /\ table' = {}
    /\ proc' = Started
    /\ poller' = [p \in Pollers |-> Gone]
    /\ disturbed' = FALSE
    /\ UNCHANGED <<row, updates, requests, faults>>

ProcStep(r) == \/ StopPlugin(r) \/ Upsert(r) \/ Connect(r) \/ MarkRunning(r)
               \/ Insert(r) \/ MarkError(r) \/ SwitchOff(r)
PollStep(p) == Ask(p) \/ Answer(p) \/ Hand(p) \/ AnswerFails(p) \/ BackOff(p)

Next == \/ \E r \in Procs : ProcStep(r)
        \/ \E r \in Requests, op \in {"enable", "disable"} : Arrive(r, op)
        \/ ReadRows
        \/ \E p \in Pollers : PollStep(p)
        \/ Post
        \/ Restart

\* The runtime goes on running its tasks.
Fairness == /\ \A r \in Procs : WF_vars(ProcStep(r))
            /\ WF_vars(ReadRows)
            /\ \A p \in Pollers : WF_vars(PollStep(p))

Spec == Init /\ [][Next]_vars /\ Fairness

(***************************************************************************)
(* Properties.                                                              *)
(***************************************************************************)
\* The state stays within its types: the failures a poll loop has counted stay
\* below the limit at which it gives up, and the platform is never told to forget
\* an update nobody posted.
TypeOK ==
    /\ row \in [enabled : BOOLEAN, status : Statuses]
    /\ table \in SUBSET Pollers /\ Cardinality(table) <= 1
    /\ proc \in [Procs -> [op : {"none", "enable", "disable", "restore"}, pc : PCs,
                           inst : SUBSET Pollers]]
    /\ poller \in [Pollers -> [at : {"gone", "loop", "asked", "handing", "backoff"},
                               told : BOOLEAN, held : BOOLEAN, offset : 0..MaxUpdates,
                               next : 0..MaxUpdates, last : 0..MaxUpdates,
                               errors : 0..MaxErrors - 1]]
    /\ posted \in 0..MaxUpdates /\ confirmed \in 0..posted /\ handed \in SUBSET (1..posted)
    /\ disturbed \in BOOLEAN

\* While no two requests overlapped and no write failed, at most one poll loop is
\* not told to stop, however often the plugin was enabled, disabled, restored or
\* failed to connect; and when nothing is in progress such a loop belongs to the
\* active instance, and there is an active instance exactly if the row says enabled
\* and running (enable_plugin, disable_plugin, restore_plugins, stop_plugin).
OneConnection ==
    ~disturbed =>
      /\ \A p, q \in Pollers : Listening(p) /\ Listening(q) => p = q
      /\ Quiet => /\ \A p \in Pollers : Listening(p) => p \in table
                  /\ table # {} <=> row = [enabled |-> TRUE, status |-> "running"]

\* The platform is told to forget an update only when the update is in the message
\* queue, with several loops polling the same bot too: the offset of poll_loop moves
\* as updates are handed over, and reaches the platform with the next call only.
NothingSkipped == 1..confirmed \subseteq handed

\* As long as, from some time on, a poll loop that was not told to stop is alive,
\* every update users post reaches the message queue: failed calls delay the loop
\* or end it, and what a stopped, dropped or crashed loop had not handed over is
\* fetched again.
UpdatesArrive == (<>[] \E p \in Pollers : Listening(p)) => []<>(handed = 1..posted)
=============================================================================
