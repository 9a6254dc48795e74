------------------------ MODULE ConversationRuntime ------------------------
(***************************************************************************)
(* The turns of one conversation (aionui-conversation) on its agent        *)
(* process (aionui-ai-agent): sends and agent turns that claim the         *)
(* conversation, the agent table with one build for each slot, the prompt  *)
(* and its terminal event, and the requests that come in between: cancel   *)
(* with its drain timer, delete, warm-up, the idle scanner, shutdown.      *)
(*                                                                         *)
(* Every map of the code is keyed by conversation and no operation touches *)
(* two keys, so the model is of one conversation. Its agents are ACP: only *)
(* those have a drain timer, are scanned and are evicted. A step is what   *)
(* runs between two awaits or under one lock.                              *)
(***************************************************************************)
EXTENDS Integers, FiniteSets

CONSTANTS Sends,            \* turns started by send_message
          AgentTurns,       \* turns started by run_agent_turn
          Cancels,          \* cancel requests
          Deletes,          \* delete requests
          Warmups,          \* warm-up requests
          Aborts,           \* agent turns whose event loop may be aborted
          MaxRequests,      \* bound: requests other than turns
          MaxSlots,         \* bound: entries ever made in the agent table
          MaxContinuations, \* MAX_CRON_CONTINUATIONS_PER_TURN
          NoTurn

Turns    == Sends \cup AgentTurns
Builders == Turns \cup Warmups
Slots    == 1 .. MaxSlots
Rounds   == 0 .. MaxContinuations

ASSUME RequestsAreDistinct ==
    /\ Sends \cap AgentTurns = {}
    /\ Turns \cap Warmups = {}
    /\ NoTurn \notin Turns
    /\ Aborts \subseteq AgentTurns
ASSUME BoundsAreNatural == MaxSlots \in Nat /\ MaxRequests \in Nat /\ MaxContinuations \in Nat

VARIABLES
    row,          \* the conversation's row exists
    teamOwned,    \* and belongs to a team: only the team starts turns on it
    active,       \* active_turns of the conversation, or NoTurn
    deleting, cancelling, shuttingDown,
    slot,         \* the OnceCell in the agent table, 0 when there is none
    lastSlot,     \* cells made so far
    agent,        \* of each cell: "absent", "building", "live" or "killed"
    status,       \* AgentRuntime.status: "none", "running" or "finished"
    pc,           \* of each turn and warm-up
    held,         \* the cell a turn or warm-up took from the table
    terminal,     \* terminal event the relay of a turn has received
    again,        \* the relay found system responses to continue with
    seen,         \* the lifecycle the turn read after its relay
    round,        \* continuation_count
    sender,       \* of each turn and round: the spawned send_message
    wasDeleting,  \* what release returned
    stored,       \* the user message is in the table
    published,    \* turn.completed was broadcast for the turn
    cpc, target, asked,  \* of a cancel: position, turn, the agent it called
    dpc, hadTurn,        \* of a delete: position, had_active_turn
    scanning,     \* the idle scanner has collected the conversation
    clearing      \* shutdown is about to clear the agent table

stateVars == <<active, deleting, cancelling, shuttingDown>>
tableVars == <<slot, lastSlot, agent>>
relayVars == <<terminal, again, seen, round, sender>>
turnVars  == <<pc, held, relayVars, wasDeleting, stored, published>>
cancelVars == <<cpc, target, asked>>
deleteVars == <<dpc, hadTurn>>
backVars  == <<scanning, clearing>>
vars == <<row, teamOwned, stateVars, tableVars, status, turnVars, cancelVars, deleteVars, backVars>>

Init ==
    /\ row = TRUE /\ teamOwned \in BOOLEAN
    /\ active = NoTurn
    /\ deleting = FALSE /\ cancelling = FALSE /\ shuttingDown = FALSE
    /\ slot = 0 /\ lastSlot = 0
    /\ agent = [i \in Slots |-> "absent"]
    /\ status = [i \in Slots |-> "none"]
    /\ pc = [p \in Builders |-> "new"]
    /\ held = [p \in Builders |-> 0]
    /\ terminal = [t \in Turns |-> "none"]
    /\ again = [t \in Turns |-> FALSE]
    /\ seen = [t \in Turns |-> "Active"]
    /\ round = [t \in Turns |-> 0]
    /\ sender = [t \in Turns |-> [k \in Rounds |-> "idle"]]
    /\ wasDeleting = [t \in Turns |-> FALSE]
    /\ stored = [t \in Sends |-> FALSE]
    /\ published = [t \in Turns |-> FALSE]
    /\ cpc = [c \in Cancels |-> "new"]
    /\ target = [c \in Cancels |-> NoTurn]
    /\ asked = [c \in Cancels |-> 0]
    /\ dpc = [d \in Deletes |-> "new"]
    /\ hadTurn = [d \in Deletes |-> FALSE]
    /\ scanning = FALSE /\ clearing = FALSE

-----------------------------------------------------------------------------
(* The runtime state and the agent's runtime. *)

\* lifecycle_for: shutdown before delete before cancel.
Lifecycle ==
    IF shuttingDown THEN "ShuttingDown"
    ELSE IF deleting THEN "Deleting"
    ELSE IF cancelling THEN "Cancelling"
    ELSE "Active"

\* RuntimePersistenceCoordinator, for the two kinds of write followed here.
AllowsUserMessage == Lifecycle # "Cancelling"
\* Faulty variant of AllowsFinished: a cancelled turn does not end publicly.
AllowsFinishedOnlyActive == Lifecycle = "Active"

AllowsFinished    == Lifecycle \in {"Active", "Cancelling"}

\* release: only the claim of this turn, and the marks go with it.
Release(t) ==
    IF active = t
    THEN /\ active' = NoTurn
         /\ deleting' = FALSE
         /\ cancelling' = FALSE
         /\ wasDeleting' = [wasDeleting EXCEPT ![t] = deleting]
    ELSE UNCHANGED <<active, deleting, cancelling, wasDeleting>>

\* emit_finish, emit_error_data: Finished is absorbing, so only the first one
\* of a turn is broadcast, to the relays subscribed to that agent.
Emit(i, kind) ==
    /\ status' = [status EXCEPT ![i] = "finished"]
    /\ terminal' = [t \in Turns |->
          IF /\ status[i] # "finished"
             /\ pc[t] = "relay" /\ held[t] = i /\ terminal[t] = "none"
          THEN kind ELSE terminal[t]]

\* kill_and_wait(conversation_id): the cell leaves the table; only an agent
\* that is already built is told.
KillTask(kind) ==
    /\ slot' = 0
    /\ UNCHANGED lastSlot
    /\ IF slot # 0 /\ agent[slot] = "live"
       THEN /\ agent' = [agent EXCEPT ![slot] = "killed"]
            /\ Emit(slot, kind)
       ELSE UNCHANGED <<agent, status, terminal>>

Goto(p, where) == pc' = [pc EXCEPT ![p] = where]

\* The turn gives its claim back, leaves the relay's loop and goes on at `where`.
ReleaseTo(t, where) ==
    /\ Release(t)
    /\ Goto(t, where)
    /\ terminal' = [terminal EXCEPT ![t] = "none"]
    /\ again' = [again EXCEPT ![t] = FALSE]
    /\ seen' = [seen EXCEPT ![t] = "Active"]
    /\ round' = [round EXCEPT ![t] = 0]
    /\ UNCHANGED <<shuttingDown, held, sender, stored, published>>

\* Bound: warm-ups, cancels, deletes and the shutdown together.
CanRequest ==
    Cardinality({w \in Warmups : pc[w] # "new"}) + Cardinality({c \in Cancels : cpc[c] # "new"})
      + Cardinality({d \in Deletes : dpc[d] # "new"}) + (IF shuttingDown THEN 1 ELSE 0) < MaxRequests

others == <<cancelVars, deleteVars, backVars>>   \* not the turns' business

-----------------------------------------------------------------------------
(* send_message, run_agent_turn, warmup: up to the agent. *)

\* The row is read before anything is claimed. Ordinary sends are for ordinary
\* conversations; only a team runs agent turns, and only on its own.
LoadRow(p) ==
    /\ pc[p] = "new"
    /\ p \in AgentTurns => teamOwned
    /\ p \in Warmups => CanRequest
    /\ Goto(p, IF ~row \/ (p \in Sends /\ teamOwned) THEN "refused"
               ELSE IF p \in Turns THEN "loaded" ELSE "build")
    /\ UNCHANGED <<row, teamOwned, stateVars, tableVars, status, held, relayVars, wasDeleting,
                   stored, published, others>>

\* Faulty variant of ClaimTurn: a turn that is already running is not looked at.
ClaimTurnUnchecked(t) ==
    /\ pc[t] = "loaded"
    /\ IF shuttingDown \/ deleting
       THEN Goto(t, "refused") /\ UNCHANGED active
       ELSE /\ active' = t
            /\ Goto(t, IF t \in Sends THEN "claimed" ELSE "build")
    /\ UNCHANGED <<row, teamOwned, deleting, cancelling, shuttingDown, tableVars, status, held,
                   relayVars, wasDeleting, stored, published, others>>

\* try_claim_turn.
ClaimTurn(t) ==
    /\ pc[t] = "loaded"
    /\ IF shuttingDown \/ deleting \/ active # NoTurn
       THEN Goto(t, "refused") /\ UNCHANGED active
       ELSE /\ active' = t
            /\ Goto(t, IF t \in Sends THEN "claimed" ELSE "build")
    /\ UNCHANGED <<row, teamOwned, deleting, cancelling, shuttingDown, tableVars, status, held,
                   relayVars, wasDeleting, stored, published, others>>

\* The write is skipped when the conversation is being cancelled, and the
\* caller is still told Ok; it fails when the row is gone or the database is
\* not reachable, and the dropped claim releases the turn unannounced.
StoreUserMessage(t) ==
    /\ pc[t] = "claimed"
    /\ \/ /\ ~AllowsUserMessage
          /\ ReleaseTo(t, "complete")
       \/ /\ AllowsUserMessage /\ row
          /\ stored' = [stored EXCEPT ![t] = TRUE]
          /\ Goto(t, "build")
          /\ UNCHANGED <<stateVars, held, relayVars, wasDeleting, published>>
       \/ /\ AllowsUserMessage
          /\ ReleaseTo(t, "failed")
    /\ UNCHANGED <<row, teamOwned, tableVars, status, others>>

\* Task options can not be built, or a spending limit is reached.
GiveUp(p) ==
    /\ pc[p] = "build"
    /\ IF p \in Turns
       THEN ReleaseTo(p, "complete")
       ELSE /\ Goto(p, "failed")
            /\ UNCHANGED <<stateVars, held, relayVars, wasDeleting, stored, published>>
    /\ UNCHANGED <<row, teamOwned, tableVars, status, others>>

\* get_or_build_task: the entry of the table, made when there is none.
EnterTable(p) ==
    /\ pc[p] = "build"
    /\ IF slot # 0
       THEN UNCHANGED <<slot, lastSlot>>
       ELSE /\ lastSlot < MaxSlots
            /\ slot' = lastSlot + 1
            /\ lastSlot' = lastSlot + 1
    /\ held' = [held EXCEPT ![p] = slot']
    /\ Goto(p, "cell")
    /\ UNCHANGED <<row, teamOwned, stateVars, agent, status, relayVars, wasDeleting, stored,
                   published, others>>

\* get_or_try_init: the first one builds, the others wait for the same cell.
EnterCell(p) ==
    /\ pc[p] = "cell"
    /\ \/ /\ agent[held[p]] = "absent"
          /\ agent' = [agent EXCEPT ![held[p]] = "building"]
          /\ Goto(p, "building")
       \/ /\ agent[held[p]] \in {"live", "killed"}
          /\ Goto(p, "built")
          /\ UNCHANGED agent
    /\ UNCHANGED <<row, teamOwned, stateVars, slot, lastSlot, status, held, relayVars, wasDeleting,
                   stored, published, others>>

\* The factory answers; its error leaves the cell empty for the next one.
EndBuild(p) ==
    /\ pc[p] = "building"
    /\ \/ /\ agent' = [agent EXCEPT ![held[p]] = "live"]
          /\ Goto(p, "built")
          /\ UNCHANGED <<stateVars, held, relayVars, wasDeleting, stored, published>>
       \/ /\ agent' = [agent EXCEPT ![held[p]] = "absent"]
          /\ IF p \in Turns
             THEN ReleaseTo(p, "complete")
             ELSE /\ Goto(p, "failed")
                  /\ UNCHANGED <<stateVars, held, relayVars, wasDeleting, stored, published>>
    /\ UNCHANGED <<row, teamOwned, slot, lastSlot, status, others>>

\* maybe_persist_workspace writes only in the Active lifecycle, so only there
\* can it fail; then the relay subscribes and the prompt is sent from a task
\* of its own.
PersistWorkspace(p) ==
    /\ pc[p] = "built"
    /\ \/ /\ Goto(p, IF p \in Turns THEN "relay" ELSE "done")
          /\ sender' = IF p \in Turns THEN [sender EXCEPT ![p][0] = "opening"] ELSE sender
          /\ UNCHANGED <<stateVars, held, terminal, again, seen, round, wasDeleting, stored, published>>
       \/ /\ Lifecycle = "Active"
          /\ IF p \in Turns
             THEN ReleaseTo(p, "complete")
             ELSE /\ Goto(p, "failed")
                  /\ UNCHANGED <<stateVars, held, relayVars, wasDeleting, stored, published>>
    /\ UNCHANGED <<row, teamOwned, tableVars, status, others>>

-----------------------------------------------------------------------------
(* The prompt, its terminal event and the end of the turn. *)

\* Faulty variant of OpenPrompt: the status of the last turn is left as it is.
OpenPromptWithoutReset(t, k) ==
    /\ sender[t][k] = "opening"
    /\ sender' = [sender EXCEPT ![t][k] = "prompting"]
    /\ UNCHANGED <<row, teamOwned, stateVars, tableVars, status, pc, held, terminal, again, seen,
                   round, wasDeleting, stored, published, others>>

\* ensure_session_and_send: reset_for_new_turn, then the prompt.
OpenPrompt(t, k) ==
    /\ sender[t][k] = "opening"
    /\ status' = [status EXCEPT ![held[t]] = "running"]
    /\ sender' = [sender EXCEPT ![t][k] = "prompting"]
    /\ UNCHANGED <<row, teamOwned, stateVars, tableVars, pc, held, terminal, again, seen, round,
                   wasDeleting, stored, published, others>>

PromptReturns(t, k) ==
    /\ sender[t][k] = "prompting"
    /\ \E kind \in {"finish", "error"} : Emit(held[t], kind)
    /\ sender' = [sender EXCEPT ![t][k] = "over"]
    /\ UNCHANGED <<row, teamOwned, stateVars, tableVars, pc, held, again, seen, round, wasDeleting,
                   stored, published, others>>

\* The relay takes the terminal event; only the text of a turn that ends
\* normally, and not under a delete, can carry commands to answer.
FinishRelay(t) ==
    /\ pc[t] = "relay" /\ terminal[t] # "none"
    /\ \E more \in BOOLEAN :
          /\ more => terminal[t] = "finish" /\ ~deleting
          /\ again' = [again EXCEPT ![t] = more]
    /\ Goto(t, "drained")
    /\ UNCHANGED <<row, teamOwned, stateVars, tableVars, status, held, terminal, seen, round, sender,
                   wasDeleting, stored, published, others>>

ReadLifecycle(t) ==
    /\ pc[t] = "drained"
    /\ seen' = [seen EXCEPT ![t] = Lifecycle]
    /\ Goto(t, "decide")
    /\ UNCHANGED <<row, teamOwned, stateVars, tableVars, status, held, terminal, again, round, sender,
                   wasDeleting, stored, published, others>>

\* AgentHealthPolicy: the conversation's agent is thrown away after an error.
EvictAgent(t) ==
    /\ pc[t] = "decide" /\ seen[t] = "Active" /\ terminal[t] = "error"
    /\ KillTask("error")
    /\ Goto(t, "release")
    /\ UNCHANGED <<row, teamOwned, stateVars, held, again, seen, round, sender, wasDeleting, stored,
                   published, others>>

\* Faulty variant of Continue: one continuation too many.
ContinueOnceMore(t) ==
    /\ pc[t] = "decide" /\ seen[t] = "Active" /\ again[t] /\ round[t] <= MaxContinuations
    /\ round' = [round EXCEPT ![t] = @ + 1]
    /\ sender' = [sender EXCEPT ![t][round[t]] = "opening"]
    /\ terminal' = [terminal EXCEPT ![t] = "none"]
    /\ again' = [again EXCEPT ![t] = FALSE]
    /\ Goto(t, "relay")
    /\ UNCHANGED <<row, teamOwned, stateVars, tableVars, status, held, seen, wasDeleting, stored,
                   published, others>>

\* TurnContinuationPolicy: another prompt in the same turn, or the end.
Continue(t) ==
    /\ pc[t] = "decide" /\ seen[t] = "Active" /\ again[t] /\ round[t] < MaxContinuations
    /\ round' = [round EXCEPT ![t] = @ + 1]
    /\ sender' = [sender EXCEPT ![t][round'[t]] = "opening"]
    /\ terminal' = [terminal EXCEPT ![t] = "none"]
    /\ again' = [again EXCEPT ![t] = FALSE]
    /\ Goto(t, "relay")
    /\ UNCHANGED <<row, teamOwned, stateVars, tableVars, status, held, seen, wasDeleting, stored,
                   published, others>>

Stop(t) ==
    /\ pc[t] = "decide"
    /\ \/ seen[t] # "Active"
       \/ terminal[t] = "finish" /\ (again[t] => round[t] = MaxContinuations)
    /\ Goto(t, "release")
    /\ UNCHANGED <<row, teamOwned, stateVars, tableVars, status, held, relayVars, wasDeleting, stored,
                   published, others>>

ReleaseClaim(t) ==
    /\ pc[t] = "release"
    /\ ReleaseTo(t, "complete")
    /\ UNCHANGED <<row, teamOwned, tableVars, status, others>>

\* complete_released_turn: the publisher looks at the lifecycle, then reads the
\* row and writes its status; when either call fails it logs the error, returns
\* and nobody tries again, so that the turn stays unannounced.
Complete(t) ==
    /\ pc[t] = "complete"
    /\ \/ /\ published' = [published EXCEPT ![t] = ~wasDeleting[t] /\ AllowsFinished /\ row]
          /\ Goto(t, "done")
       \/ /\ ~wasDeleting[t] /\ AllowsFinished
          /\ Goto(t, "unannounced")
          /\ UNCHANGED published
    /\ wasDeleting' = [wasDeleting EXCEPT ![t] = FALSE]
    /\ UNCHANGED <<row, teamOwned, stateVars, tableVars, status, held, relayVars, stored, others>>

\* The event loop that awaits an agent turn is aborted: the turn's future is
\* dropped where it stands, the claim with it; the prompt's task lives on.
Abort(t) ==
    /\ t \in Aborts
    /\ pc[t] \notin {"new", "refused", "failed", "done", "unannounced", "dropped"}
    /\ ReleaseTo(t, IF pc[t] = "loaded" THEN "refused" ELSE "dropped")
    /\ agent' = IF pc[t] = "building" THEN [agent EXCEPT ![held[t]] = "absent"] ELSE agent
    /\ UNCHANGED <<row, teamOwned, slot, lastSlot, status, others>>

-----------------------------------------------------------------------------
(* cancel *)

\* The turn named by the request is the active one and its agent is built, or
\* the request does nothing.
RequestCancel(c) ==
    /\ cpc[c] = "new" /\ CanRequest
    /\ IF row /\ active # NoTurn /\ slot # 0 /\ agent[slot] = "live"
       THEN /\ cpc' = [cpc EXCEPT ![c] = "mark"]
            /\ target' = [target EXCEPT ![c] = active]
            /\ asked' = [asked EXCEPT ![c] = slot]
       ELSE cpc' = [cpc EXCEPT ![c] = "done"] /\ UNCHANGED <<target, asked>>
    /\ UNCHANGED <<row, teamOwned, stateVars, tableVars, status, turnVars, deleteVars, backVars>>

\* Faulty variant of MarkCancelling: the cancel itself ends the agent's turn,
\* before the prompt has returned.
MarkCancellingAndFinish(c) ==
    /\ cpc[c] = "mark"
    /\ cancelling' = TRUE
    /\ Emit(asked[c], "finish")
    /\ cpc' = [cpc EXCEPT ![c] = "timer"]
    /\ UNCHANGED <<row, teamOwned, active, deleting, shuttingDown, tableVars, pc, held, again, seen,
                   round, sender, wasDeleting, stored, published, target, asked, deleteVars, backVars>>

\* Faulty variant of MarkCancelling: the cancel frees the conversation.
MarkCancellingAndFree(c) ==
    /\ cpc[c] = "mark"
    /\ cancelling' = TRUE
    /\ active' = NoTurn
    /\ cpc' = [cpc EXCEPT ![c] = "timer"]
    /\ UNCHANGED <<row, teamOwned, deleting, shuttingDown, tableVars, status, turnVars,
                   target, asked, deleteVars, backVars>>

\* mark_cancelling, then the notification to the agent, which ends the turn
\* only when the prompt returns, and the drain timer.
MarkCancelling(c) ==
    /\ cpc[c] = "mark"
    /\ cancelling' = TRUE
    /\ cpc' = [cpc EXCEPT ![c] = "timer"]
    /\ UNCHANGED <<row, teamOwned, active, deleting, shuttingDown, tableVars, status, turnVars,
                   target, asked, deleteVars, backVars>>

\* Faulty variant of CheckDrain: the comparison of the turn ids is negated.
CheckDrainNegated(c) ==
    /\ cpc[c] = "timer"
    /\ cpc' = [cpc EXCEPT ![c] = IF active # target[c] /\ cancelling THEN "kill" ELSE "done"]
    /\ UNCHANGED <<row, teamOwned, stateVars, tableVars, status, turnVars, target, asked,
                   deleteVars, backVars>>

\* ACP_CANCEL_DRAIN_TIMEOUT is over.
CheckDrain(c) ==
    /\ cpc[c] = "timer"
    /\ cpc' = [cpc EXCEPT ![c] = IF active = target[c] /\ cancelling THEN "kill" ELSE "done"]
    /\ UNCHANGED <<row, teamOwned, stateVars, tableVars, status, turnVars, target, asked,
                   deleteVars, backVars>>

KillCancelled(c) ==
    /\ cpc[c] = "kill"
    /\ KillTask("finish")
    /\ cpc' = [cpc EXCEPT ![c] = "done"]
    /\ UNCHANGED <<row, teamOwned, stateVars, pc, held, again, seen, round, sender, wasDeleting,
                   stored, published, target, asked, deleteVars, backVars>>

-----------------------------------------------------------------------------
(* delete *)

DeleteMark(d) ==
    /\ dpc[d] = "found"
    /\ deleting' = TRUE
    /\ hadTurn' = [hadTurn EXCEPT ![d] = active # NoTurn]
    /\ dpc' = [dpc EXCEPT ![d] = "hooks"]
    /\ UNCHANGED <<row, teamOwned, active, cancelling, shuttingDown, tableVars, status, turnVars,
                   cancelVars, backVars>>

\* The delete hook of the agent table.
DeleteHook(d) ==
    /\ dpc[d] = "hooks"
    /\ KillTask("error")
    /\ dpc' = [dpc EXCEPT ![d] = "row"]
    /\ UNCHANGED <<row, teamOwned, stateVars, pc, held, again, seen, round, sender, wasDeleting,
                   stored, published, cancelVars, hadTurn, backVars>>

FindRow(d) ==
    /\ dpc[d] = "new" /\ CanRequest
    /\ dpc' = [dpc EXCEPT ![d] = IF row THEN "found" ELSE "done"]
    /\ UNCHANGED <<row, teamOwned, stateVars, tableVars, status, turnVars, cancelVars, hadTurn, backVars>>

\* Faulty variant of DeleteRow: the mark is always left to a turn.
DeleteRowLeavingMark(d) ==
    /\ dpc[d] = "row"
    /\ row' = FALSE
    /\ dpc' = [dpc EXCEPT ![d] = "done"]
    /\ UNCHANGED <<teamOwned, stateVars, tableVars, status, turnVars, cancelVars, hadTurn, backVars>>

\* repo.delete succeeds; the turn that was active is left to clear the mark.
DeleteRow(d) ==
    /\ dpc[d] = "row"
    /\ row' = FALSE
    /\ dpc' = [dpc EXCEPT ![d] = IF hadTurn[d] THEN "done" ELSE "clear"]
    /\ UNCHANGED <<teamOwned, stateVars, tableVars, status, turnVars, cancelVars, hadTurn, backVars>>

\* clear_deleting: repo.delete failed, or there was no turn to do it.
ClearDeleting(d) ==
    /\ dpc[d] \in {"row", "clear"}
    /\ deleting' = FALSE
    /\ dpc' = [dpc EXCEPT ![d] = "done"]
    /\ UNCHANGED <<row, teamOwned, active, cancelling, shuttingDown, tableVars, status, turnVars,
                   cancelVars, hadTurn, backVars>>

-----------------------------------------------------------------------------
(* The idle scanner and the graceful shutdown. *)

CollectIdle ==
    /\ ~scanning
    /\ slot # 0 /\ agent[slot] = "live" /\ status[slot] = "finished"
    /\ scanning' = TRUE
    /\ UNCHANGED <<row, teamOwned, stateVars, tableVars, status, turnVars, cancelVars, deleteVars, clearing>>

\* By now the conversation may have another agent, or a turn on this one.
KillIdle ==
    /\ scanning
    /\ KillTask("error")
    /\ scanning' = FALSE
    /\ UNCHANGED <<row, teamOwned, stateVars, pc, held, again, seen, round, sender, wasDeleting,
                   stored, published, cancelVars, deleteVars, clearing>>

MarkShuttingDown ==
    /\ ~shuttingDown /\ CanRequest
    /\ shuttingDown' = TRUE
    /\ clearing' = TRUE
    /\ UNCHANGED <<row, teamOwned, active, deleting, cancelling, tableVars, status, turnVars, cancelVars,
                   deleteVars, scanning>>

ClearTable ==
    /\ clearing
    /\ KillTask("error")
    /\ clearing' = FALSE
    /\ UNCHANGED <<row, teamOwned, stateVars, pc, held, again, seen, round, sender, wasDeleting,
                   stored, published, cancelVars, deleteVars, scanning>>

-----------------------------------------------------------------------------
BuildStep(p) == LoadRow(p) \/ GiveUp(p) \/ EnterTable(p) \/ EnterCell(p) \/ EndBuild(p) \/ PersistWorkspace(p)

EndStep(t) ==
    \/ FinishRelay(t) \/ ReadLifecycle(t) \/ EvictAgent(t) \/ Continue(t)
    \/ Stop(t) \/ ReleaseClaim(t) \/ Complete(t)

TurnStep(t) == ClaimTurn(t) \/ StoreUserMessage(t) \/ EndStep(t) \/ Abort(t)

PromptStep(t, k) == OpenPrompt(t, k) \/ PromptReturns(t, k)

CancelStep(c) == RequestCancel(c) \/ MarkCancelling(c) \/ CheckDrain(c) \/ KillCancelled(c)

DeleteStep(d) ==
    FindRow(d) \/ DeleteMark(d) \/ DeleteHook(d) \/ DeleteRow(d) \/ ClearDeleting(d)

Background == CollectIdle \/ KillIdle \/ MarkShuttingDown \/ ClearTable

Next ==
    \/ \E p \in Builders : BuildStep(p)
    \/ \E t \in Turns : TurnStep(t)
    \/ \E t \in Turns, k \in Rounds : PromptStep(t, k)
    \/ \E c \in Cancels : CancelStep(c)
    \/ \E d \in Deletes : DeleteStep(d)
    \/ Background

\* The runtime schedules what is ready: the turn's task, the task of its
\* prompt, a cancel once accepted. Nothing makes a living agent answer; the
\* protocol answers for one that was killed.
Fairness ==
    /\ \A t \in Turns :
          /\ WF_vars(EnterCell(t)) /\ WF_vars(PersistWorkspace(t)) /\ WF_vars(EndStep(t))
          /\ \A k \in Rounds :
                /\ WF_vars(OpenPrompt(t, k))
                /\ WF_vars(held[t] # 0 /\ agent[held[t]] = "killed" /\ PromptReturns(t, k))
    /\ \A c \in Cancels : WF_vars(CheckDrain(c)) /\ WF_vars(KillCancelled(c))

Spec == Init /\ [][Next]_vars /\ Fairness

-----------------------------------------------------------------------------
TurnPc == {"new", "refused", "loaded", "claimed", "build", "cell", "building", "built", "relay",
           "drained", "decide", "release", "complete", "done", "unannounced", "failed", "dropped"}

\* The types; a turn never goes past MAX_CRON_CONTINUATIONS_PER_TURN rounds.
TypeOK ==
    /\ row \in BOOLEAN /\ teamOwned \in BOOLEAN
    /\ active \in Turns \cup {NoTurn}
    /\ deleting \in BOOLEAN /\ cancelling \in BOOLEAN /\ shuttingDown \in BOOLEAN
    /\ slot \in 0 .. MaxSlots /\ lastSlot \in 0 .. MaxSlots
    /\ agent \in [Slots -> {"absent", "building", "live", "killed"}]
    /\ status \in [Slots -> {"none", "running", "finished"}]
    /\ pc \in [Builders -> TurnPc]
    /\ held \in [Builders -> 0 .. MaxSlots]
    /\ terminal \in [Turns -> {"none", "finish", "error"}]
    /\ again \in [Turns -> BOOLEAN]
    /\ seen \in [Turns -> {"Active", "Deleting", "Cancelling", "ShuttingDown"}]
    /\ round \in [Turns -> Rounds]
    /\ sender \in [Turns -> [Rounds -> {"idle", "opening", "prompting", "over"}]]
    /\ wasDeleting \in [Turns -> BOOLEAN]
    /\ stored \in [Sends -> BOOLEAN]
    /\ published \in [Turns -> BOOLEAN]
    /\ cpc \in [Cancels -> {"new", "mark", "timer", "kill", "done"}]
    /\ target \in [Cancels -> Turns \cup {NoTurn}]
    /\ asked \in [Cancels -> 0 .. MaxSlots]
    /\ dpc \in [Deletes -> {"new", "found", "hooks", "row", "clear", "done"}]
    /\ hadTurn \in [Deletes -> BOOLEAN]
    /\ scanning \in BOOLEAN /\ clearing \in BOOLEAN

\* From the claim to its release.
Holding == {"claimed", "build", "cell", "building", "built", "relay", "drained", "decide", "release"}

\* One turn at a time: the turns that are between their claim and its release
\* are the one the runtime state names, whatever cancels, deletes, aborts and
\* kills come in between (TurnClaim is released exactly once, runtime_state.rs).
OneTurnAtATime == \A t \in Turns : pc[t] \in Holding <=> active = t

Prompts(i) == {x \in Turns \X Rounds : held[x[1]] = i /\ sender[x[1]][x[2]] \in {"opening", "prompting"}}

\* While no event loop was aborted, a living agent serves one prompt, and that
\* of the turn in possession: no turn ends, by a cancel, an eviction or a
\* continuation, while its own prompt is still with an agent the next turn
\* would use (the relay waits for the prompt's terminal event, stream_relay.rs).
PromptsAlone ==
    (\A t \in Turns : pc[t] # "dropped") =>
        \A i \in Slots : agent[i] = "live" =>
            /\ Cardinality(Prompts(i)) <= 1
            /\ \A x \in Prompts(i) : active = x[1]

\* A mark left behind would refuse every later turn: the deleting mark is up
\* only while a delete is on its way or a turn holds the claim whose release
\* clears it (service.rs delete, runtime_state.rs release).
NoStaleDeleteMark ==
    deleting => active # NoTurn \/ \E d \in Deletes : dpc[d] \in {"hooks", "row", "clear"}

\* A relay waits for an event that can still come: the prompt of its round is
\* about to be sent, or is out with the agent's status reset, so that its end,
\* or the agent's, is broadcast and not swallowed by the absorbing Finished
\* (agent_runtime.rs emit_finish, reset_for_new_turn).
RelayNeverStranded ==
    \A t \in Turns : pc[t] = "relay" /\ terminal[t] = "none" =>
        \/ sender[t][round[t]] = "opening"
        \/ sender[t][round[t]] = "prompting" /\ status[held[t]] = "running"

\* Clients learn that the turn is over: a turn that ran to its end was
\* announced, unless the conversation was being deleted, the server shut down,
\* or the publisher could not read or write the row: such an end is dropped,
\* and the turn is "unannounced" (runtime_completion.rs publish,
\* runtime_persistence.rs decide).
EndIsAnnounced ==
    (~shuttingDown /\ \A d \in Deletes : dpc[d] \in {"new", "found"}) =>
        \A t \in Turns : pc[t] = "done" => published[t]

\* A cancel that reached the agent of its turn ends that turn, at the latest
\* after the drain timer, however the agent behaves (service.rs cancel).
CancelledTurnsEnd ==
    \A c \in Cancels :
        (cpc[c] = "timer" /\ active = target[c] /\ held[target[c]] = asked[c]) ~> active # target[c]

\* What has become of a turn, as its caller sees it.
FateOf(where) ==
    IF where \in {"new", "loaded"} THEN "new"
    ELSE IF where = "refused" THEN "refused"
    ELSE IF where \in Holding THEN "running"
    ELSE "over"
Fate == [t \in Turns |-> FateOf(pc[t])]

Port == INSTANCE TurnPort WITH running <- active, fate <- Fate

\* Every step of the runtime is a step of the port or none: a turn is refused
\* or starts alone, and only its own release ends it.
PortSpec == Port!PortSpec

\* send_message promises to store the user's message (service.rs, the list of
\* steps in its doc): an accepted one, of a turn that nobody cancelled, was.
AcceptedSendsAreStored ==
    \A t \in Sends :
        pc[t] \in {"complete", "done", "unannounced"} /\ (\A c \in Cancels : target[c] # t) => stored[t]
=============================================================================
