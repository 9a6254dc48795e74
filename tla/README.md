# A TLA+ verification project for AlineaCopilot-Core

The repository is a Rust workspace (`crates/aionui-*`): the backend of a desktop
copilot that runs AI agents as child processes and exposes them over HTTP and
WebSocket. This project models the parts in which its concurrency lives: the *team*
subsystem (several agents work on one run, each behind an event loop of its own), the
*conversation runtime* under it (turns, their agents, cancel, delete and shutdown), the
*cron scheduler*, the *task board* of a team, and the *channels* (bots, pairing codes
and the way of a message to its agent). It checks the models with TLC and proves the
central results with TLAPS.

Contents: 1 inventory, 2 plan, 3 the modules and the code, 4 runs and what they
show, 5 bounds, 6 fairness, 7 proofs, 8 disagreements with the repository's own
statements, 9 what is not modelled.

## 1. Inventory

### 1.1 The team subsystem

**Team run record** (`team_run.rs`). State: one `Option<TeamRunRecord>` behind one
async mutex: a status (accepted, running, cancelling), the active child turn of each
slot, the starting reservations, and a queue of pending wakes for each slot.
Operations: `accept_user_message`, `record_pending_wake`, `claim_wake_for_turn`,
`record_empty_wake_observed`, `record_child_started`, `record_child_start_failed`,
`record_child_completed`, `maybe_complete`, `begin_cancel`, `try_complete_cancelled`,
`complete_failed`, `begin_cancel_child`, `record_child_cancelled`. Each is atomic;
what is hard is that their callers interleave. Correct when: a run tracks only work
of its own; it is announced completed, failed or cancelled exactly once, and
completed or cancelled only when nothing is outstanding; once cancelled it starts
nothing.

**Event loops** (`event_loop.rs`). State: one Tokio task and one `Notify` (a single
stored permit) for each slot, and the locals of `run_event_loop`: the rows it peeked,
the run id it read, the reservation, the turn. Operations: wait, compute the wake
input, claim, run the turn through the port, mark rows read, finalize, drain again.
Hard because every `await` lets the other loops and the requests in, and because
values read before an `await` are used after it. Correct when: no wake-up is lost,
nothing the run waits for is orphaned, and a run does not end under its turns.

**Mailbox** (`mailbox.rs`, table of `aionui-db`). State: rows with a read flag; the
only team state that survives a restart. Operations: write, peek, mark read, mark all
of a set of agents read. Correct when no agent is prompted twice with a row, a
cancelled run leaves nothing to a later one, and old rows are drained after a restart.

**Teammate statuses** (`scheduler/state.rs`). State: the status of each slot behind a
mutex. Operations: `set_status`, `mark_idle` (which writes the idle notification and
decides whether the lead is to be woken). The decision is taken under the lock and
used after it.

**Requests** (`session.rs`, `service.rs`, `mcp/server.rs`): `send_message`,
`send_message_to_agent`, `team_send_message` of an agent's MCP client, `cancel_run`,
`cancel_child_turn`, and `ensure_session`, which starts the loops and then pokes each
slot to drain rows of an earlier session. Each is a task of several steps that takes
the run's mutex anew for every step.

**Turn ports** (`router/team_conversation_adapters.rs`): `run_agent_turn` either
fails before its start callback or mints a turn id, calls back and ends as completed
or failed; `cancel_agent_turn` takes a turn id and does nothing, successfully, when
another turn is running.

**Task board** (`task_board.rs`, `sqlite_team.rs`). State: a row for each task, which
stores every dependency twice, in `blocked_by` of the task that waits and in `blocks`
of the task it waits for. Operations: `create_task` and `update_task`, several statements
each, called by the MCP tools of different agents at the same time. Correct when the two
columns agree and the completion of a task releases those that wait for it, and nothing
else does.

**Agent lifecycle** (`scheduler/agent_lifecycle.rs`, `crash_recovery.rs`, `dedup.rs`,
`wake.rs`, `session.rs`): spawning, renaming and removing agents, recovery from a
crashed agent, wake deduplication and timeouts.

### 1.2 The rest of the system

**Conversation runtime** (`aionui-conversation`: `runtime_state.rs`, `service.rs`,
`turn_orchestrator.rs`, `stream_relay.rs`, `runtime_completion.rs`; `aionui-ai-agent`:
`task_manager.rs`, `idle_scanner.rs`, `agent_runtime.rs`, the ACP manager). State of a
conversation: its row, the active turn, the marks cancelling and deleting, the shutdown
flag, its cell in the agent table, the status of each agent. Operations: `send_message`,
`run_agent_turn`, `warmup`, `cancel` with its drain timer, `delete` with its hooks, the
idle scan, the shutdown. Hard because a turn is a chain of tasks (claim, build, prompt,
relay, continuation, release, completion), and every other operation acts by
conversation id on what it saw earlier. Correct when turns do not overlap, no mark
outlives its owner, no relay waits for an end that can not come, cancelled turns end,
and the end of a turn is announced.

**Cron** (`aionui-cron`). State: the row of a job, its timer handle, and the copies of
the row the running tasks hold. Operations: add, update, remove, run now, tick, resume
of the system, start of the server. Hard because `schedule_job` is two steps and every
task writes and arms from the copy it read. Correct when a periodic job keeps a timer,
busy retries end, and a removed job falls silent.

**Channel plugins** (`aionui-channel/manager.rs`, `plugins/telegram`). State: the row of
a plugin, the table of instances, a polling task with its offset for each instance that
was started. Operations: enable, disable, restore, poll. Correct when one instance is
connected, and every update is handed over before the platform is told to forget it.

**Channel chats** (`pairing.rs`, `session.rs`, `orchestrator.rs`, `action.rs`,
`message_service.rs`). State: pairing codes, authorized users, sessions, conversations.
Operations: a message or button of the chat, approval, rejection and expiry of a code,
revocation, synchronisation, the cleanup timer, deletion of a conversation. Correct when
a code that grants access is one that was approved, a chat keeps its conversation, and
only authorized users reach an agent.

| Other component | State and operations | Hard behaviour |
|---|---|---|
| Permission requests (`permission_router.rs`) | pending questions by id | answers after a timeout |
| Authentication (`aionui-auth`) | one-time QR tokens, rate limits, JWT secret | expiry and single use, under one lock each |
| Realtime (`aionui-realtime`) | connections by user | broadcast against disconnect, best effort |
| File, office, shell (`aionui-file`, `-office`, `-shell`) | watchers and child processes | mostly I/O |
| Database, API types, common (`aionui-db`, `-api-types`, `-common`) | SQL, data types, helpers | none of its own |
| Extensions, assistants, MCP, assets, system, projects, runtime | configuration over files and tables | none of its own |
| Application (`aionui-app`) | wiring and routes | none of its own |

`PROJECT.json` lists the same components with their sources and status, and the
hazards at the line where each bites.

### 1.3 How the parts of a team interact

```
 user ---- send / cancel ----> requests --- rows ---> mailbox <--- peek, mark --- event loop of slot s
                                  |                      ^                          |        |
 agent -- team_send_message ------+                      +--- idle notification ----+        | run_agent_turn,
                                  |  accept, wake, cancel                           |        v start callback
                                  +-------------> run record <--- claim, start, end +---- turn port
                                  |                                                 |
                                  +------------- notify (one permit) -------------->+
```

A send accepts the message in the run record, stores the row, queues a wake for the
slot and pokes its loop: four steps, each under a lock of its own or none. The loop
peeks its rows, reads the run id, turns a queued wake into a reservation, calls the
port, is called back when the turn starts (the reservation becomes an active child),
marks the rows read, tells the lead, and records the end of the child. The run is
over when the three collections are empty.

```
 event loop ---- turn port ----> run_agent_turn --+                      +--> agent table --> agent (prompt)
 user, cron, channel ----------> send_message ----+--> claim, run, release                     |
 user ----------> cancel, delete, warmup -------------> marks of the conversation <-- relay <--+
```

The turn port of a team, an execution of a cron job and a message of a channel all end
in a turn of the conversation runtime: the claim decides which of them runs, and the
completion tells the others.

## 2. Plan

Done, in this order:

1. `TeamRunManager` and its abstract specification `RunLifecycle`, with the refinement
   checked and proved.
2. `TeamSession`, which composes the run record with the event loops, mailbox,
   statuses, requests, port failures and restarts, with its types and its safety
   invariants proved.
3. `ConversationRuntime`, with the promise it makes to its callers as `TurnPort`, the
   refinement checked and proved, its types and safety invariants proved.
4. `CronScheduler`, with the invariant of periodic jobs proved.
5. `TaskBoard`, with its four properties proved.
6. `ChannelPlugins`, with its safety properties proved, and `ChannelChats`, with its types
   and its three properties proved.

Left, in this order:

7. Agents added and removed during a session (`spawn_agent`, `remove_agent`,
   `EventLoopRegistry::remove`) and the shutdown handshake in `TeamSession`: what
   happens to wakes, reservations and rows of a slot that goes away.
8. The permission router of the ACP manager, and engines other than ACP.
9. Lark, DingTalk and Weixin connections; the expiry tables of `aionui-auth`.

Theorems to come: `ClaimsHoldRunOpen` (section 8) for sessions in which no second run
opens and nothing is cancelled; `NoStrandedWake` and `ActiveRunIsDriven` beside the sends of
an agent, which needs the bound of section 7.1 for rows and wakes of several slots.

## 3. Modules and code

| Module | Models |
|---|---|
| `RunLifecycle` | abstract: what a run promises to whoever follows its events |
| `TeamRunManager` | `team_run.rs`, one action for each method, under the most general client |
| `MCTeamRunManager` | its instance for TLC |
| `TeamSession` | the event loops, mailbox, statuses, requests, restarts; extends `TeamRunManager` and conjoins its actions with the steps of the callers |
| `MCTeamSession` | its instances for TLC, one `.cfg` for each run |
| `TeamRunManagerProofs` | the inductive invariant of the run record |
| `RunLifecycleProofs` | the refinement of `RunLifecycle` |
| `TeamSessionProofs` | the inductive invariant of loops, requests and record; no orphans, no early end, no stranded wake, no run left alone, the refinement of `RunLifecycle` by a session |
| `TurnPort` | abstract: what a conversation promises to whoever starts turns on it |
| `ConversationRuntime`, `MCConversationRuntime` | the turns of one conversation and everything that interrupts them |
| `ConversationRuntimeProofs` | one turn at a time, the deleting mark, the refinement of `TurnPort`; types, announced ends, relays, prompts |
| `CronScheduler`, `MCCronScheduler` | one scheduled job, its timer and the tasks on it |
| `CronSchedulerProofs` | the invariant of periodic jobs |
| `TaskBoard`, `MCTaskBoard` | the statements of concurrent `create_task` and `update_task` calls |
| `TaskBoardProofs` | the invariant of the board |
| `ChannelPlugins`, `MCChannelPlugins` | the life of one bot and its polling tasks |
| `ChannelPluginsProofs` | what is handed over, and one connection at a time |
| `ChannelChats`, `MCChannelChats` | pairing, sessions and messages of one chat |
| `ChannelChatsProofs` | authorization, pairing, one conversation, types |

**`TeamRunManager`.** `status = "none"` is the `None` of the `Option`; `lastRun` is
the id of the current or the last run; `active`, `starting` and `pending` are the three
collections, a queue of wakes being its length because role and source of a wake only
reach the log. `outcome` records the terminal event of each run, which in the code is
only broadcast. Actions have the names of the methods. A call that returns an error
and changes nothing has no action of its own: it is the negation of the guard, and the
callers in `TeamSession` handle it (`UserRefused`, `WakeRejected`, `ClaimRefused`,
the second disjunct of `CancelBegins`).

**`TeamSession`.** `loop[s]` is the event loop of slot `s`, a program counter with its
locals; `permit[s]` is the stored permit of its `Notify`; `member[s]` its status;
`unread[s]` its unread rows; `req[q]` the state of a request; `restore` the slots
`ensure_session` has still to poke. A step is the code between two awaits that touch
shared state:

| Code | Actions |
|---|---|
| `run_event_loop`, `compute_wake_input` | `LoopWakes`, `Peeks`, `PeekFails`, `Plans`, `ObservesEmpty` |
| `execute_turn` | `Claims`, `ClaimRefused`, `SetsWorking`, `PortRefusesTurn`, `PortStartsTurn`, `TurnEnds` |
| start callback that lost to a cancellation | `LateStartCancels`, `LateStartRecords`, `LateStartTries` |
| `finalize_turn`, `mark_idle`, `maybe_wake_leader_when_all_idle` | `MarksError`, `MarksIdle`, `TellsLead`, `ChecksAllIdle`, `WakesLead`, `PokesLead`, `RecordsChild`, `CompletesRun` |
| `send_message`, `send_message_to_agent`, `exec_send_message` | `UserAccepts`, `UserRefused`, `ToolAccepts`, `WritesRow`, `WriteFails`, `ReservesWake`, `WakeRejected`, `Notifies` |
| `cancel_run` | `CancelChecks`, `CancelBegins`, `CancelPeeks`, `CancelMarks`, `CancelDrainFails`, `CancelLists`, `CancelAsks`, `CancelRecords`, `Settles` |
| `cancel_child_turn` | `CancelsActiveChild`, `CancelsStartingChild`, `CancelAsks`, `ChildCancelFails`, `ChildCancelRecords`, `ChildCancelCompletes`, and the write and wake of the lead |
| `ensure_session_inner` | `Restart`, `RestoreDrains` |

Abstractions: role and conversation are functions of the slot; a reservation is named
by its slot, because the single loop of a slot has at most one; row and turn ids are
fresh with respect to every id still referred to; `sent` is a history variable (rows
that already went into a started turn). `loop[s].claim` is the run the reservation of the
turn was claimed from and `loop[s].dropped` says that a cancellation took another turn's
child out of the record in place of this one (`DropsTurn`); no action reads either, only
properties do. A turn whose claim is of the run it read before, and which was not dropped,
is one its run counts (`Counted`). The turn port is external: it refuses a turn or
starts it and lets it end either way, and the adapter never fails a turn after its
callback, so the `started_seen` branch of `execute_turn` has no action. A call of the
cancellation port that fails is logged by `cancel_run` and by the start callback, which
go on; `asked` says that the port was called. `Restart` is the death of the process.

**`ConversationRuntime`.** Every map of the code is keyed by conversation, so the model
is of one conversation. `active`, `deleting`, `cancelling` and `shuttingDown` are the
maps of `runtime_state.rs`; `slot` is the cell of the conversation in the agent table,
`agent[i]` and `status[i]` the process of cell `i` and its absorbing status; `pc`, `held`,
`terminal`, `round`, `sender` are the locals of a turn and of the prompts it spawns; `cpc`
and `dpc` the cancels and deletes.

| Code | Actions |
|---|---|
| `send_message`, `run_agent_turn`, `warmup` | `LoadRow`, `ClaimTurn`, `StoreUserMessage`, `GiveUp` |
| `get_or_build_task` | `EnterTable`, `EnterCell`, `EndBuild` |
| `run_user_turn`, `StreamRelay`, the ACP `send_message` | `PersistWorkspace`, `OpenPrompt`, `PromptReturns`, `FinishRelay`, `ReadLifecycle`, `EvictAgent`, `Continue`, `Stop`, `ReleaseClaim`, `Complete` |
| `cancel` and its drain timer | `RequestCancel`, `MarkCancelling`, `CheckDrain`, `KillCancelled` |
| `delete` | `FindRow`, `DeleteMark`, `DeleteHook`, `DeleteRow`, `ClearDeleting` |
| idle scanner, shutdown, `EventLoopRegistry::remove` | `CollectIdle`, `KillIdle`, `MarkShuttingDown`, `ClearTable`, `Abort` |

Its agents are ACP agents: only those have a drain timer, are scanned and are evicted.
`TurnPort` is the composition with `TeamSession`: the event loops assume of their port
what `TurnPort` says (a turn is refused, or starts alone and finishes once), and
`ConversationRuntime` implements it.

**`CronScheduler`.** One job: jobs meet only in the conversation they post to, and
whether that is busy, missing or broken is a choice of the environment. `row` is the row
of `cron_jobs`, `timer` the task behind its handle, `leaked` the timers whose handle was
dropped without an abort, told apart by kind; `job[p]` is the copy of the row task `p` works
from, without what it does not use any more (`Copy`). A schedule is `at` (once), `periodic`
(an interval, or a cron expression that always has a next date) or `manual` (no next run). Actions
have the names of the functions of `service.rs` and `scheduler.rs`, one for each step
between two awaits; `schedule_job` is `ScheduleCancel` and `ScheduleInsert`. Any
statement may fail, up to `MaxFaults`. `steady` and `lost` are history: the user kept the
job periodic and did not edit it twice at once; a failure took its timer.

**`TaskBoard`.** `row[t]` is a row of `team_tasks`; `call[a]` the call of agent `a`, with
what it read and the ids its loop has left. `CreateTask` and `AppendToBlocks` are
`create_task`; `ReadTask`, `WriteTask` and `RemoveFromBlockedBy` are `update_task` with
`check_unblocks`; `Fails` ends a call at any statement. `late`, `owed`, `broken` and
`edits` are history the properties speak of.

**`ChannelPlugins`.** `row` and `table` are the row and the map entry of a plugin,
`proc[r]` a request or the task that restores plugins at the start, `poller[p]` the
polling task of an instance. The server of Telegram is external: it queues updates
(`Post`), answers from an offset (`Answer`) and forgets what lies before it
(`confirmed`). An optional instance is a set with at most one member.

**`ChannelChats`.** The database is the state; the orchestrator runs a task for each
message, and each await between two statements is a step. `task[t]` is a message or a
request of the administrator. Deletion of a conversation is external and sets the
column of the session to null. `granted`, `reached` and `raced` are history.

## 4. Runs

Passing runs:

| Run | Configuration | Checks |
|---|---|---|
| `manager` | 2 slots, 2 reservations, 2 runs, any call in any order | the books of a run are its own (`TracksOwnRun`), cancellation freezes it (`CancelFreezesRun`), each run has one end (`EndedRunsHaveOutcome`), and the record implements `RunLifecycle` |
| `restarts` | 2 sends, 2 runs, a restart anywhere | `PromptedOnce`: until the restart no agent is prompted twice with a row; `TrackedWorkIsLive`: the run never waits for work no loop will retire; `CompletesAfterTurns`: nor ends under a turn it counts, also when the run changes between the read of its id and the claim; `NoStrandedWake`: no wake-up is lost while sends race with the start of a session and each other; `ActiveRunIsDriven`: an active run always has a loop or a request under way |
| `requests` | a user send, then a send or broadcast of an agent, a `cancel_run` or a `cancel_child_turn`; one failing call | `TrackedWorkIsLive`; `CancelReachesTurns`: announced cancelled only after the port was called for every turn, late starts included; `CompletesAfterTurns`: not announced completed under a counted turn nobody asked to stop |
| `liveness` | a user send, then a send of an agent or a `cancel_run`; fair | `RunEnds`: no run stays active for ever; `CancelSettles`: none stays in Cancelling |
| `conversation` | 2 sends, then two of a cancel, a delete, a warm-up and the shutdown; idle scans at any time | `OneTurnAtATime`; `PromptsAlone`: no agent gets a second prompt under the first; `NoStaleDeleteMark`; `RelayNeverStranded`: a relay waits only for an end that can come; `EndIsAnnounced`: every end but those whose publication the database failed |
| `team_conversation` | 2 agent turns, one of which may be aborted, and a cancel, a delete or the shutdown; fair | `PortSpec`: the conversation implements `TurnPort`; `CancelledTurnsEnd`: also when the agent does not answer |
| `cron` | one periodic job, two overlapping ticks beside one request, one retry, one failing statement, one restart; fair | `PeriodicStaysArmed`: the job keeps a running timer; `RetriesEnd`: a raised retry count goes back to zero, though one tick writes the count it read before the other |
| `cron_removal` | one job, once or periodic, two overlapping requests and a tick; fair | `RemovedJobsFallSilent`: no timer of a removed job is left in the end, unless a periodic one was leaked |
| `task_board` | 2 agents, 3 tasks, one failing statement or edited list | `LinksMirrored`, `CompletionUnblocks`, `ReleasedByCompletion` |
| `plugins` | 2 overlapping requests beside the restore, 2 instances, one update, one failing statement, one restart; fair | `OneConnection`, `NothingSkipped`, `UpdatesArrive` |
| `chats` | 3 messages, two at a time, 3 requests of the administrator, two at a time, one task cut off | `PairingHolds`, `OneConversation`, `OnlyAuthorizedReachAgent` |

Every property of these runs has a mutant in `PROJECT.json`: an operator beside the
definition it varies ("Faulty variant of ..."), a plausible slip under which TLC finds
the property violated.

The run `swallowed_send` states what a comment of the repository says of the program and
ends in a counterexample; section 8 explains it, and says how to find the other
disagreements.

## 5. Bounds

Two slots, the lead and one teammate, are the least with which every role exists and a
loop can interfere with another's run. A second teammate multiplies the states without
adding a kind of step: teammates interact only through the lead and the run record.
`MaxTurns = 3` exceeds the turn ids in use at once (the tracked child, one held by each
cancellation, the next turn). `MaxRows = 6` and `MaxWakes = 6` exceed what the requests
of a configuration can produce, so `WriteRow` and `RecordPendingWake` are never
disabled by them. `MaxRuns` is 1 where one run poses the question and 2
where the change of run does. `MaxRestarts` and `MaxFaults` are at most 1: one crash or
failing call, at any point.

Bounds that matter. `NoStrandedWake` and `ActiveRunIsDriven` hold for two user sends, by
proof for any slots, runs and restarts, and `RunEnds` is checked for a user send and a send
of an agent. A run
counts every wake and `Notify` keeps one permit; a turn settles one wake and the empty
wake after it another, so a third send that coalesces with two others leaves a wake
queued and the run active until something pokes the slot; TLC finds it with a third
element in `UserSends` of `Restarts.cfg` (with `MaxRuns = 1`, `MaxRestarts = 0`, without
symmetry). One failed read of the mailbox has the same effect. `CancelSettles` is checked without failures: an error of the drain
returns from `cancel_run` after `begin_cancel`, and without a reservation in flight
nothing then closes the run. These limits are listed among the hazards.

A request of a configuration may belong to several of the sets `UserSends`,
`ToolSends`, `RunCancels` and `ChildCancels`; it becomes one of them when it arrives, so
that one run covers every second request. User sends are interchangeable, so runs with
two of them that check safety declare them symmetric; a run that checks liveness
declares no symmetry.

The other modules. Two sends and two requests of `conversation` suffice for every pair of
operations to meet at any point of a turn, with another turn before or after it; two cells
are a killed agent and its successor, and `MaxContinuations = 1` one continued round.
`MaxSlots` stops a third build, which is a build like the others. Two ticks
of `cron` are a stale copy and the one it is stale to; a removal, an edit and a leaked
timer meet in the two requests of `cron_removal`, whose tick is enough because a leaked
timer does not depend on how often it fires. A job without next runs (`manual`) arms
nothing and is left to the theorems, which cover all kinds and any number of ticks and
requests; a job that runs once needs no timer kept, and is in `cron_removal`. Three tasks
are a chain with a middle, which is completed and waits at once. `plugins` names two
instances, the running one and its successor; one update is enough because an offset
that is off by one skips it; `MaxErrors = 2` stands for ten. Three messages of `chats`
are what `OneConversation` needs: one to open the session, one to meet a deletion or a
failure, one to tell what is left.

What their properties leave out, because the code does not provide it. `PromptsAlone`
speaks of turns no event loop was aborted in: an aborted turn leaves its prompt behind
and the next turn prompts the same agent. `PeriodicStaysArmed` leaves out overlapping
edits, a change of the kind of schedule, and the failing statements after which the code
arms nothing until the next start: the read in the tick of a retry, the delete after a
request cancelled the timer, and at a start the list or the delete of an orphan.
`RemovedJobsFallSilent` leaves out a periodic timer leaked by two overlapping calls of
`schedule_job`: no handle reaches it, and it ticks for the removed job until the server
restarts. `EndIsAnnounced` leaves out the turns whose end the publisher gave up
(`unannounced`): when it can not read or write the row it logs the error and returns, and
nobody tries again. `PromptedOnce` leaves out what follows a failed call or a restart. `OneConnection` leaves out overlapping operations of one bot (`disturbed`):
two enables can leave a polling task nobody can stop. `CompletesAfterTurns` and
`CancelReachesTurns` speak of counted turns (section 8 has the others). `OneConversation`
leaves out two first messages at once, which make two conversations, and the conversation
deleted or the bind failed under a message. `PairingHolds` keeps "approved means granted" always,
and the converse unless requests about one person overlapped or an approval broke off
between its two statements. Each is a conjunct named in the property, and a hazard in
`PROJECT.json` at the line where it bites.

## 6. Fairness

`FairSpec` assumes weak fairness of every step a loop, an arrived request or the restore
poke can take by itself: Tokio runs every task that is ready, and none of these steps
waits for anything but the mutex, which is fair. The condition of a loop includes the two
steps in which it waits for the port: a port that does not refuse a turn starts it, and
a turn that runs ends. The last is an assumption about the agent, not about this code: a
prompt has no time limit, and only a cancelled ACP turn is killed after a while
(`ACP_CANCEL_DRAIN_TIMEOUT` of `aionui-conversation`). A run with an agent that never
answers does not end, as intended, until the user cancels it.
A loop has one kind of step at a time, so one condition for each slot covers them.
Nothing is assumed about arrivals, failures and restarts.

`ConversationRuntime` assumes weak fairness of the steps of a turn and of the drain
timer. It does not assume that an agent answers: `PromptReturns` is fair only when its
agent was killed, because the ACP connection then closes. `CronScheduler` assumes weak
fairness of running tasks and strong fairness of the timer, which Tokio spawns a tick for
however many are running; the model has finitely many tick tasks, and one may be busy
when the timer is due. The same is assumed of the leaked one-shot timers of a removed job:
each of them fires and is gone. `ChannelPlugins` assumes weak fairness of requests and polling
tasks, failing calls included: `UpdatesArrive` is conditional on a loop that goes on
polling. Deadlock is checked where a system that stops would be wrong (the team runs and
the task board); in the other runs a bounded number of requests ends.

## 7. Proofs

All theorems hold for any sets of slots, tasks and requests, infinite ones included, and
for any bounds; what the constants are assumed to be is named with each component.

### 7.1 The team

**The run record** (`ManagerAssumption`: the bounds are naturals and the two "absent"
values are not records). `MgrInvariant` proves `MgrSpec => []MgrInv`. None of the safety
invariants is inductive alone, and `RecordInv` conjoins what they need of each other: that
a started child belongs to the current run needs the reservations to (`TracksOwnRun`); that
a wake is never claimed in a cancelling run needs the queues to be empty then
(`CancelFreezesRun`); that opening a run leaves no foreign work, and that `Close` writes
the outcome of the right run, need `ClosedRunIsEmpty`, `OpenRunHasId` and
`OpenRunUndecided`. `MgrInv` adds that every run that is over was announced
(`EndedRunsHaveOutcome`), which a restart of a session breaks and `RecordInv` survives. The
proof follows the code: every method ends in `Close` or in `Keep`, so `CloseKeepsInv` and
`KeepKeepsInv` carry most of it, and the methods that add work have a lemma each.
`RecordTypes`, `RunsTrackTheirOwn`, `CancelIsFinal` and `RunsEndOnce` are its consequences.

`ManagerImplementsLifecycle` proves `MgrSpec => ImplementsRunLifecycle`, that is,
`RunLifecycle` with a run's phase read off its status or outcome and its work read off
the three collections. The step that needs an argument is the end of a run: completed
and cancelled are only announced by a step that retires the last piece of work
(`RetiresLast`), shown for a wake, a child and a reservation (`RetiresWake`,
`RetiresChild`, `RetiresReservation`) and combined in `MaybeMaps`.

**The session** (`SessionAssumption`: the lead is a slot, reservations are named by slots,
the bounds are naturals). `SessionInvariant` proves `Spec => []SessionInv`, under faults,
cancellations and restarts at any point. `SessionInv` joins the types and `RecordInv` to
what each loop and each cancellation knows of the record:

- `Placed`: the program counter of a loop fixes what its locals mean (no claim before the
  turn is planned; a turn past the port has an id; a late one was told to stop).
- `Books`: a reservation is held by a loop on its way to the port, and a child is the very
  turn its loop is in. This is `TrackedWorkIsLive` (`NoOrphans`), and it is inductive only
  with `RecordInv`, which keeps a new run from inheriting the work of an old one.
- `Held`, `Entered`: a counted turn is in the record, was told to stop, or its run failed,
  so neither `maybe_complete_locked` nor `maybe_cancelled_locked` can find the record empty
  under it (`CountedHoldsRun`, hence `CompletionWaits` and `CancellationReaches`).
- `Told`, `Orderly`: between the call of the cancellation port and
  `record_child_cancelled`, the turn about to be taken out is over or was told to stop.

Most steps of one task leave the others in step: a step of a loop moves one loop (`Moves`),
a step of a request one request (`Proceeds`), and each calls one method of the manager, so
`Quiet` says what a call leaves alone and the proof treats each caller against it.
`RowsArePromptedOnce` adds `SentInTurn`, that a row in a prompt is one the turn in progress
has read until a call fails or the session restarts: both leave rows unread whose turn
is over.

`NoWakeIsStranded` and `ActiveRunsAreDriven` speak of sessions of at most two user messages
in which nothing else is sent, nothing is cancelled (`TwoSends`) and no call fails, with any
slots, runs, restarts and bounds. Each of these hypotheses is one the code needs: TLC finds a
stranded wake when a third message, a send of an agent or a `cancel_child_turn` joins the
two, or a `cancel_run` when a second run may open (`Restarts.cfg` with one more request,
`MaxRestarts = 0` and without symmetry), and when one call may fail. The reason is that a permit stands for
any number of wakes, while a loop that wakes settles one wake with the turn and another with
the empty mailbox after it, so that two may share a permit, and only if there is a row to
have the turn about. `WakesKept` says this, slot by slot:

- `Few`: of all that is or may still become a wake of the slot (messages to come, for the
  lead also unread rows of the teammates and the reports of their turns, wakes about to be
  reserved, wakes reserved) there are at most two. Every step moves an element
  of one of these sets to another or drops it (`FewTransfers`), which is what bounds them.
- `Delivers`, `Fresh`, `Backed`: a turn carries rows that are still unread, and while two
  wakes are due, a row is there beside those of the turn in progress.
- `Attended`: whoever sleeps on a wake is about to be woken, and whoever found the mailbox
  empty settles the last one.

`EmptyRunsAreServed` is about the other way a run could wait for nobody, and holds of any
sends, failures and restarts as long as nothing is cancelled. An active run with no child, no
reservation and no wake is either one whose user message is still to store its row or
reserve its wake (`Owing`), or one whose wake was taken by a turn that had read the id of
an earlier run: the start of that turn is ignored, and only the `maybe_complete` that follows
every turn of a run, whatever run it is, ends it (`Finishing`). TLC found this second case as
a counterexample to the formula without it. `cancel_child_turn` breaks it: once the turn of
the lead it marked is refused or starts late, the record is empty, and nothing tests for
completion before the loop has ended that turn (`team_run.rs:471`, a hazard). With
`NoOrphans` and `NoWakeIsStranded` it gives `ActiveRunsAreDriven`, the safety half of
`RunEnds`: an active run is never left waiting with all loops asleep and all requests over.

`SessionIsClient` shows that without a restart a session is a client of the
manager, so that what is proved of `MgrSpec`, the refinement of `RunLifecycle` included,
holds of it (`SessionImplementsLifecycle`); a restart drops an open run unannounced, and
what remains then is `SessionKeepsRecord` and that no announcement is taken back
(`EndsAreFinal`).

TLC confirmed before the proofs that the invariants hold, and where one was too strong the
counterexample showed a fact about the code: `CompletesAfterTurns` once spoke of
every turn with a claim and held only within the bounds of its runs; section 8 lists the
two cases that break it.

### 7.2 The conversation runtime

`OneTurnAlways` and `ConversationImplementsPort` (assumptions `RequestsAreDistinct`,
`BoundsAreNatural`) rest on `ClaimInv`: the types of the claim and the program counters
joined to `OneTurnAtATime`, which is inductive with them, because every step but
`ClaimTurn` and the releases leaves the claim and the holding of a turn as they are
(`MovePreservesClaim`). Each such step then maps to a stutter of `TurnPort`, a refusal, a
start or a finish. `DeleteMarkNeverStale` adds who is going to clear the mark: the turn in
possession, or a delete that found none (`MarkInv`).

`ConversationTypeCorrect` is the type invariant, cells and rounds within their bounds.
`EndsAreAnnounced` rests on `AnnounceInv`: until a delete marks the conversation or the
server shuts down, the row exists and no release has seen a deleting mark, so a turn that is
done was published. A turn whose publication failed is `unannounced`, not done. `RelaysAreNeverStranded` and `AgentsServeOnePrompt` share `AgentInv`:
a cell has one builder and is built for those that went on from it (`CellInv`), a prompt is
open only on a built cell and past the build (`PromptedInv`), and a relay outside its loop
has heard nothing (`LoopInv`). A relay that waits on a finished agent has then its own
prompt still to send, which resets the status; every `Emit` reaches the relays of its agent
(`EmitReachesRelays`). For the prompts, `AloneInv` says of each turn that an open prompt on
a living agent is of the relay that waits and of its current round (`Own`); with `ClaimInv`
only one turn is in its relay.

### 7.3 Cron, task board, plugins

`PeriodicJobsStayArmed` (`CronAssumption`) needs more than its statement: who arms the
timer when it does not run (`Covered`, `Arms`), and that the stale copies it is armed from
are good enough (`Copies`: a tick or a resume holds an enabled periodic job; an update
holds a copy that agrees with the row it leaves). `CronTypes` is its type invariant and
bounds the retry count.

The four theorems of `TaskBoardProofs` (`BoardAssumption`) share `BoardInv`: the ids a
call holds are of existing rows, an edit is noted before it is written, a link the copy
of a completing call does not show is late (`MissedAreLate`), and `check_unblocks` takes
out only what is owed (`UnblocksOwed`).

`ChannelPluginsProofs` (`PluginsAssumption`): `UpdatesAreNotSkipped` from `FetchInv`, that
a polling task has handed over everything up to its offset and, in a batch, up to the
update it is at (`Sound`), which holds for any number of loops on one bot;
`OneConnectionAlways` from `SteadyInv`, that without overlap every connected instance is
in the table or in the hands of the one operation under way (`Accounted`), which found
the table empty after its stop (`NoneActive`).

### 7.4 Channel chats

`OnlyAuthorizedAlways` (`ChatsAssumption`) is an action property: the step that takes a
message to its conversation is the second read of its session (`OnlyRereadGoesOn`), and
`AuthInv` says what that read proves. No session outlives its user (`SessionsRefer`), and
a session a task has found is, if it is still there, one of the task's user (`Linked`);
sessions are numbered as they are made, so no later row takes its place.

`PairingHoldsAlways`: that an approved code granted access is inductive with what the
task about to mark it approved has done (`ApprovedGranted`); the rest, while nothing
raced, needs that one task at a time is about the person's pairing (`OnePairing`) and that
the codes it read are still what it read when it writes (`MarksSafely`): a code about to expire, lapse or be rejected authorized nobody,
and the task about to insert a code has the pending one on its list.

`ChatsTypeCorrect` is more than it looks: ids are drawn from `Ids`, and that a new one is in
it is a count. `Budget` says that what was made plus the tasks that may still make one
(`Holders`, by cardinality) does not exceed what has arrived; `Stages`, `RowsNumbered` and
`UsersNumbered` give the locals of a task at each step their meaning.

`OneConversationAlways` rests on `SessInv`. While nothing raced, one task inserts a session
at a time (`OneInsert`), the message that opened a session is alone with it until it has
bound the conversation (`Alone`), afterwards what the session's messages have reached or
are about to reach is what its row is bound to (`Kept`), one such conversation at most
exists (`OneLive`), and every message after the first finds the row bound when it reads it
again (`Continues`).

### 7.5 Only model-checked

The liveness properties (`RunEnds`, `CancelSettles`, `CancelledTurnsEnd`, `RetriesEnd`,
`RemovedJobsFallSilent`, `UpdatesArrive`), which TLAPS does not handle. Every other property
of a passing run is stated by a theorem.

## 8. Disagreements with the repository's statements

- `swallowed_send` (a run): `cancel` reads the active turn, looks up its agent and then
  marks the conversation as cancelling. When the turn released the conversation in
  between, the mark stays and is taken for a cancellation of the next turn: the next
  `send_message` finds it at its persistence check, stores nothing and answers as if it
  had. Its doc comment lists "Stores the user message" as a step (`service.rs:2229`).

The following are not runs. Each is found with the formula and the constants named,
starting from the configuration named, in about a minute at most. "Two sends" is `Restarts.cfg`
with `MaxRuns = 1` and `MaxRestarts = 0`, without symmetry and without its invariants.

- A wake error is returned for a stored row. `send_message` of a team says wake failures
  are logged and not propagated (`session.rs:321-324`), and ends in `.await?`
  (`session.rs:382`). No failure is needed: an empty wake of another slot completes the
  accepted run before its first wake is queued. `PROPERTY WakeFailureNotPropagated`,
  two sends with `UserSends = {u1}`.
- A wake is claimed of a run the turn does not belong to. The run id is read before the
  claim and the claim does not compare it (`event_loop.rs:199`); the child is then ignored
  and that run completes under the turn, where a test says a claimed wake holds the run
  open (`team_run.rs:1027`). `INVARIANT ClaimsHoldRunOpen`, two sends with `MaxRuns = 2`.
  `CompletesAfterTurns` is the part of it that holds.
- A cancellation drops the next turn. `record_child_cancelled` does not compare turn ids
  (`team_run.rs:700`), so one overtaken by the end of its turn removes the slot's next
  turn. `INVARIANT ClaimsHoldRunOpen`, two sends with `ChildCancels = {k1}`.
- A cancellation hits a newer run. The id check of `cancel_run` and `begin_cancel` are two
  critical sections (`session.rs:594`, `session.rs:598`). `PROPERTY CancelsTheCheckedRun`,
  two sends with `MaxRuns = 2`, `RunCancels = {c1}`.
- Rows are delivered twice. They are marked read after the turn (`event_loop.rs:354`), so
  a restart in between delivers them again; `docs/internals.md:159` states at-most-once
  delivery. `INVARIANT DeliveredOnce`, two sends with `UserSends = {u1}`,
  `MaxRestarts = 1`. `PromptedOnce` is the part of it that holds.
- Old rows stay unread. A user message that opens a run while a new session is poking its
  slots leaves older rows unread for good, where the comment says that all agents are
  notified to drain them (`service.rs:548-549`). `PROPERTY RestoreDrainsRows`, two
  sends with `SPECIFICATION FairSpec`, `MaxRuns = 2`, `MaxWakes = 4`, `MaxRows = 3`,
  `MaxRestarts = 1`.
- A completed task goes on blocking. `update_task` unblocks the tasks in the `blocks`
  column it read before its update, and a task linked in between is missed
  (`task_board.rs:93`), where the audit of the crate says that its id is taken out of
  `blocked_by` of the tasks downstream (`docs/phase1/backend-audit.md`, from line 240).
  `INVARIANT CompletedTasksBlockNobody`, `TaskBoard.cfg` with `Tasks = {k1, k2}`,
  `MaxUpsets = 0`.

## 9. Not modelled

In the team subsystem: agents added or removed during a session, crash recovery, wake
deduplication and timeouts, the MCP tools other than `team_send_message` and those of the
task board, prompts, projection of messages into conversations. Self-addressed rows are
left out because `compute_wake_input` filters them. A session stopped while the process
lives is not modelled: its requests finish on the abandoned session. The removal of a team
deletes its tasks and is not modelled on the board.

In the conversation runtime: engines other than ACP, the text and the segments of a
stream, conversation CRUD and search, attachments, usage limits (a limit that is exceeded
is one of the failures of `GiveUp`), resumption, modes and models of ACP sessions, and the
permission router. A cancel of an ACP agent never returns an error, so the branch that
clears the mark then has no action.

In cron: the parsing of expressions (`compute_next_run` is modelled by whether it yields a
time), skills, the creation and the lazy binding of a conversation, the run count, and
overlapping executions of several jobs in one conversation. A cron expression whose last
date passes while the server runs ends its timer with the row enabled; that change from
`periodic` to `manual` is left out.

In the channels: Lark, DingTalk and Weixin, extension plugins and `test_plugin`, the
relay of an answer and the confirmation of tools, the choice of agents, the action `session.status`, which may also create a session; more than one
person, whose rows are disjoint. `ChannelManager::shutdown` is not called by the
application.

Outside them: authentication keeps small tables under one lock each, which unit tests
reach; the realtime hub broadcasts without promising order or delivery; files, office and
shell are I/O; the rest is configuration, data types or wiring.
