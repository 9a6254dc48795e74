---- MODULE TeamSession ----
(***************************************************************************)
(* One live team session: the per-slot event loops (event_loop.rs), the    *)
(* mailbox (mailbox.rs), the teammate statuses (scheduler/state.rs) and    *)
(* the requests that run beside them (session.rs, mcp/server.rs), all      *)
(* sharing the run record of TeamRunManager.tla.                           *)
(*                                                                         *)
(* A step is the code between two awaits that touch shared state, so the   *)
(* interleavings are those of the Tokio tasks.  The manager's actions are  *)
(* conjoined with the step of the caller.                                  *)
(*                                                                         *)
(* Abstractions.  The mailbox of a slot is the set of its unread rows.  A  *)
(* row a slot sends to itself never shows in its wakes (the filter of      *)
(* compute_wake_input) and is left out.  Row ids and turn ids are new with *)
(* respect to every id still in use; a loop forgets its locals when they   *)
(* go out of scope, and a request when it ends.  One loop per slot claims  *)
(* and starts in sequence, so a reservation is named by its slot           *)
(* (Reservations = Slots).  The turn port is external: it refuses a turn   *)
(* before it starts or runs it to an ok or failed end; the adapter never   *)
(* fails a turn after its start callback, so the loop's branch for that is *)
(* absent.                                                                 *)
(***************************************************************************)
EXTENDS TeamRunManager

CONSTANTS
    Lead,             \* the slot with role Lead
    UserSends,        \* requests that may be a send_message or send_message_to_agent
    ToolSends,        \* ... a team_send_message of an agent's MCP client
    RunCancels,       \* ... a cancel_run
    ChildCancels,     \* ... a cancel_child_turn
    MaxRows,          \* bound on the rows of one slot in use at a time
    MaxRestarts,      \* bound on session restarts
    MaxFaults         \* bound on the failed calls of the mailbox and the turn ports

Requests == UserSends \cup ToolSends \cup RunCancels \cup ChildCancels
Rows == 1..MaxRows

ASSUME SessionAssumption ==
    /\ Lead \in Slots
    /\ Reservations = Slots
    /\ MaxRows \in Nat
    /\ MaxRestarts \in Nat
    /\ MaxFaults \in Nat

VARIABLES
    loop,       \* the event loop of each slot: where it is, and its locals
    permit,     \* the stored permit of each slot's Notify
    member,     \* TeammateStatus of each slot
    unread,     \* unread mailbox rows of each slot
    req,        \* the requests
    sent,       \* history: unread rows that were already part of a started turn
    restore,    \* slots ensure_session has not yet poked to drain old rows
    restarts,   \* restarts so far
    faults      \* failed calls so far

kept == <<sent, restore, restarts, faults>>
vars == <<mgrVars, loop, permit, member, unread, req, kept>>

LoopPcs == {"wait", "peek", "plan", "empty", "claim", "work", "port", "lateCancel",
            "lateRecord", "lateTry", "running", "markError", "markIdle", "tellLead",
            "allIdle", "wakeLead", "pokeLead", "record", "maybe"}

\* peeked is WakeInput.unread and run WakeInput.team_run_id (0 for None); claim is
\* the run of the reservation claimed (0 for none), turn the turn in progress (0
\* for none), asked whether the cancellation port was called for it (cancel_run
\* and the start callback go on after an error of that call), dropped whether the end
\* of another turn's cancellation took it out of the run's books, and result how the
\* port call ended.
Loop == [pc : LoopPcs, peeked : SUBSET Rows, run : 0..MaxRuns, claim : 0..MaxRuns,
         turn : 0..MaxTurns, asked : BOOLEAN, dropped : BOOLEAN,
         result : {"ok", "failed", "refused"}]

LoopAt(l) == [pc |-> l, peeked |-> {}, run |-> 0, claim |-> 0, turn |-> 0,
              asked |-> FALSE, dropped |-> FALSE, result |-> "ok"]

Nothing == [s \in Slots |-> {}]

RequestPcs == {"new", "write", "wake", "notify", "begin", "peek", "mark", "list", "cancel",
               "record", "complete", "settle", "done", "refused", "error", "lost"}

\* kind is what the request turned out to be when it arrived;
\* to and left are the slots a request writes to, wakes or peeks at, all of them
\* and the ones still to do; run is the run id a cancellation was checked against, marks
\* the rows it peeked at, kids the children it still has to cancel.
Kinds == {"none", "userSend", "toolSend", "runCancel", "childCancel"}

Request == [kind : Kinds, pc : RequestPcs, to : SUBSET Slots, left : SUBSET Slots, at : Slots,
            run : 0..MaxRuns, marks : [Slots -> SUBSET Rows], kids : SUBSET Child]

RequestAt(l) == [kind |-> "none", pc |-> l, to |-> {}, left |-> {}, at |-> Lead, run |-> 0,
                 marks |-> Nothing, kids |-> {}]

\* One type invariant for the session, the manager's included.
TypeOK ==
    /\ MgrTypeOK
    /\ loop \in [Slots -> Loop]
    /\ permit \in [Slots -> BOOLEAN]
    /\ member \in [Slots -> {"idle", "working", "error"}]
    /\ unread \in [Slots -> SUBSET Rows]
    /\ DOMAIN req = Requests /\ \A q \in Requests : req[q] \in Request
    /\ sent \in [Slots -> SUBSET Rows]
    /\ restore \subseteq Slots
    /\ restarts \in 0..MaxRestarts
    /\ faults \in 0..MaxFaults

\* A session ensure_session has just entered in its table: every loop waits, and
\* every slot is still to be poked for the rows of an earlier session.
FreshLoops == [s \in Slots |-> LoopAt("wait")]
NoPermits  == [s \in Slots |-> FALSE]
AllIdle    == [s \in Slots |-> "idle"]

Init ==
    /\ MgrInit
    /\ target = Lead
    /\ loop = FreshLoops
    /\ permit = NoPermits
    /\ member = AllIdle
    /\ restore = Slots
    /\ unread = Nothing
    /\ req = [q \in Requests |-> RequestAt("new")]
    /\ sent = Nothing
    /\ restarts = 0
    /\ faults = 0

----------------------------------------------------------------------------
\* Building blocks.

At(s, l) == loop[s].pc = l
Goto(s, l) == loop' = [loop EXCEPT ![s].pc = l]
Restarting(s, l) == loop' = [loop EXCEPT ![s] = LoopAt(l)]

\* The turn of s belongs to a run.
Tracked(s) == loop[s].run /= 0
ChildOf(s, t) == [run |-> loop[s].run, slot |-> s, turn |-> t]

SetMember(s, m) == member' = [member EXCEPT ![s] = m]

Least(S) == CHOOSE x \in S : \A y \in S : x <= y

\* mailbox.write: one more unread row, with an id that nothing refers to.
RowsInUse(s) == unread[s] \cup loop[s].peeked \cup UNION {req[q].marks[s] : q \in Requests}

WriteRow(s) ==
    /\ Rows \ RowsInUse(s) /= {}
    /\ unread' = [unread EXCEPT ![s] = @ \cup {Least(Rows \ RowsInUse(s))}]

\* mailbox.mark_read_batch of the rows m[s] of every slot s.
MarkRead(m) ==
    /\ unread' = [s \in Slots |-> unread[s] \ m[s]]
    /\ sent' = [s \in Slots |-> sent[s] \ m[s]]

\* mint_turn_id.
TurnsInUse(s) ==
    {c.turn : c \in {k \in {active[s]} \cup UNION {req[q].kids : q \in Requests} :
                       k /= NoChild /\ k.slot = s}}

NewTurn(s) == Least(Turns \ TurnsInUse(s))

\* Notify::notify_one keeps at most one permit.
Notify(s) == permit' = [permit EXCEPT ![s] = TRUE]

\* cancellation_port.cancel_agent_turn: ignored unless the turn is the running one.
AskToStop(c) == loop' = [loop EXCEPT ![c.slot].asked = @ \/ loop[c.slot].turn = c.turn]

\* record_child_cancelled of c takes out whatever turn of the slot is tracked.
DropsTurn(c) ==
    loop' = [loop EXCEPT ![c.slot].dropped =
                @ \/ (active[c.slot] /= NoChild /\ active[c.slot].turn /= c.turn)]

\* A call fails.
Fault == faults < MaxFaults /\ faults' = faults + 1

OnlyLoop == UNCHANGED <<unread, req, kept>>
----------------------------------------------------------------------------
\* The event loop of slot s: run_event_loop.

LoopWakes(s) ==
    /\ At(s, "wait")
    /\ permit[s]
    /\ permit' = [permit EXCEPT ![s] = FALSE]
    /\ Goto(s, "peek")
    /\ OnlyLoop /\ UNCHANGED <<mgrVars, member>>

\* compute_wake_input up to the peek; whether there is anything to send is
\* settled here.
Peeks(s) ==
    /\ At(s, "peek")
    /\ loop' = [loop EXCEPT ![s].peeked = unread[s],
                            ![s].pc = IF unread[s] = {} THEN "empty" ELSE "plan"]
    /\ OnlyLoop /\ UNCHANGED <<mgrVars, permit, member>>

\* compute_wake_input failed: back to waiting after a pause.
PeekFails(s) ==
    /\ At(s, "peek")
    /\ Fault
    /\ Restarting(s, "wait")
    /\ UNCHANGED <<mgrVars, permit, member, unread, req, sent, restore, restarts>>

\* The last await of compute_wake_input reads the active run.
Plans(s) ==
    /\ At(s, "plan")
    /\ loop' = [loop EXCEPT ![s].run = IF IsActive THEN lastRun ELSE 0,
                            ![s].pc = IF IsActive THEN "claim" ELSE "work"]
    /\ OnlyLoop /\ UNCHANGED <<mgrVars, permit, member>>

\* Faulty variant of ObservesEmpty: the empty wake is not recorded.
ForgetsEmpty(s) ==
    /\ At(s, "empty")
    /\ Restarting(s, "wait")
    /\ OnlyLoop /\ UNCHANGED <<mgrVars, permit, member>>

ObservesEmpty(s) ==
    /\ At(s, "empty")
    /\ RecordEmptyWakeObserved(s)
    /\ Restarting(s, "wait")
    /\ OnlyLoop /\ UNCHANGED <<permit, member>>

\* execute_turn with a run: the turn needs a wake of the current run.
Claims(s) ==
    /\ At(s, "claim")
    /\ ClaimWakeForTurn(s, s)
    /\ loop' = [loop EXCEPT ![s].claim = lastRun, ![s].pc = "work"]
    /\ OnlyLoop /\ UNCHANGED <<permit, member>>

ClaimRefused(s) ==
    /\ At(s, "claim")
    /\ ~CanClaim(s)
    /\ SetMember(s, "idle")
    /\ Restarting(s, "wait")
    /\ OnlyLoop /\ UNCHANGED <<mgrVars, permit>>

SetsWorking(s) ==
    /\ At(s, "work")
    /\ SetMember(s, "working")
    /\ Goto(s, "port")
    /\ OnlyLoop /\ UNCHANGED <<mgrVars, permit>>

\* Faulty variant of PortRefusesTurn: the reservation is not released.
PortRefusesSilently(s) ==
    /\ At(s, "port")
    /\ Fault
    /\ loop' = [loop EXCEPT ![s] = [LoopAt("markError") EXCEPT !.result = "refused"]]
    /\ UNCHANGED <<mgrVars, permit, member, unread, req, sent, restore, restarts>>

\* run_agent_turn fails before its start callback; the rows stay unread.
PortRefusesTurn(s) ==
    /\ At(s, "port")
    /\ Fault
    /\ IF Tracked(s) THEN RecordChildStartFailed(s) ELSE UNCHANGED mgrVars
    /\ loop' = [loop EXCEPT ![s] = [LoopAt("markError") EXCEPT !.result = "refused"]]
    /\ UNCHANGED <<permit, member, unread, req, sent, restore, restarts>>

\* run_agent_turn mints a turn id and calls back on_started.
PortStartsTurn(s) ==
    /\ At(s, "port")
    /\ Turns \ TurnsInUse(s) /= {}
    /\ LET child == ChildOf(s, NewTurn(s))
           late == Tracked(s) /\ ChildStartDecision(s, child) = "cancelImmediately"
       IN  /\ IF Tracked(s) THEN RecordChildStarted(s, child) ELSE UNCHANGED mgrVars
           /\ loop' = [loop EXCEPT ![s].turn = child.turn,
                                   ![s].pc = IF late THEN "lateCancel" ELSE "running"]
    /\ sent' = [sent EXCEPT ![s] = @ \cup loop[s].peeked]
    /\ UNCHANGED <<permit, member, unread, req, restore, restarts, faults>>

\* Faulty variant of LateStartCancels: the turn is not told to stop.
LateStartGoesOn(s) ==
    /\ At(s, "lateCancel")
    /\ Goto(s, "lateRecord")
    /\ OnlyLoop /\ UNCHANGED <<mgrVars, permit, member>>

\* A start that lost the race with a cancellation: cancel, record, complete.
LateStartCancels(s) ==
    /\ At(s, "lateCancel")
    /\ loop' = [loop EXCEPT ![s].asked = TRUE, ![s].pc = "lateRecord"]
    /\ OnlyLoop /\ UNCHANGED <<mgrVars, permit, member>>

LateStartRecords(s) ==
    /\ At(s, "lateRecord")
    /\ RecordChildCancelled(ChildOf(s, loop[s].turn))
    /\ Goto(s, "lateTry")
    /\ OnlyLoop /\ UNCHANGED <<permit, member>>

LateStartTries(s) ==
    /\ At(s, "lateTry")
    /\ TryCompleteCancelled
    /\ Goto(s, "running")
    /\ OnlyLoop /\ UNCHANGED <<permit, member>>

\* Faulty variant of TurnEnds: rows are marked read only after a good turn.
TurnEndsUnmarked(s) ==
    /\ At(s, "running")
    /\ \/ /\ loop' = [loop EXCEPT ![s].result = "ok", ![s].peeked = {}, ![s].asked = FALSE,
                                   ![s].pc = "markIdle"]
          /\ MarkRead([Nothing EXCEPT ![s] = loop[s].peeked])
       \/ /\ loop' = [loop EXCEPT ![s].result = "failed", ![s].peeked = {},
                                   ![s].asked = FALSE, ![s].pc = "markError"]
          /\ UNCHANGED <<unread, sent>>
    /\ UNCHANGED <<mgrVars, permit, member, req, restore, restarts, faults>>

\* The port returns an outcome; the peeked rows are marked read whatever it is.
TurnEnds(s) ==
    /\ At(s, "running")
    /\ \E r \in {"ok", "failed"} :
         loop' = [loop EXCEPT ![s].result = r, ![s].peeked = {}, ![s].asked = FALSE,
                              ![s].pc = IF r = "ok" THEN "markIdle" ELSE "markError"]
    /\ \/ MarkRead([Nothing EXCEPT ![s] = loop[s].peeked]) /\ UNCHANGED faults
       \/ Fault /\ UNCHANGED <<unread, sent>>
    /\ UNCHANGED <<mgrVars, permit, member, req, restore, restarts>>

\* finalize_turn: Error for a turn that did not end well, then mark_idle.
MarksError(s) ==
    /\ At(s, "markError")
    /\ SetMember(s, "error")
    /\ Goto(s, "markIdle")
    /\ OnlyLoop /\ UNCHANGED <<mgrVars, permit>>

MarksIdle(s) ==
    /\ At(s, "markIdle")
    /\ SetMember(s, "idle")
    /\ Goto(s, IF s = Lead THEN "record" ELSE "tellLead")
    /\ OnlyLoop /\ UNCHANGED <<mgrVars, permit>>

\* The idle notification of a teammate; a failed write ends the finalization.
TellsLead(s) ==
    /\ At(s, "tellLead")
    /\ \/ WriteRow(Lead) /\ Goto(s, "allIdle") /\ UNCHANGED faults
       \/ Fault /\ UNCHANGED unread /\ Goto(s, "record")
    /\ UNCHANGED <<mgrVars, permit, member, req, sent, restore, restarts>>

\* maybe_wake_leader_when_all_idle.
AllSettled == \A s \in Slots \ {Lead} : member[s] \in {"idle", "error"}

ChecksAllIdle(s) ==
    /\ At(s, "allIdle")
    /\ Goto(s, IF AllSettled /\ member[Lead] = "idle" THEN "wakeLead" ELSE "record")
    /\ OnlyLoop /\ UNCHANGED <<mgrVars, permit, member>>

\* wake_agent_for_team_work(lead): without an active run it only warns.
WakesLead(s) ==
    /\ At(s, "wakeLead")
    /\ \/ RecordPendingWake(Lead) /\ Goto(s, "pokeLead")
       \/ ~IsActive /\ UNCHANGED mgrVars /\ Goto(s, "record")
    /\ OnlyLoop /\ UNCHANGED <<permit, member>>

PokesLead(s) ==
    /\ At(s, "pokeLead")
    /\ Notify(Lead)
    /\ Goto(s, "record")
    /\ OnlyLoop /\ UNCHANGED <<mgrVars, member>>

\* A turn with a run and a turn id is recorded as completed, then maybe_complete;
\* then the drain loop goes round.
Recorded(s) == Tracked(s) /\ loop[s].result /= "refused"

\* Faulty variant of RecordsChild: the end of the turn is not recorded.
RecordsNothing(s) ==
    /\ At(s, "record")
    /\ Restarting(s, IF Recorded(s) THEN "maybe" ELSE "peek")
    /\ OnlyLoop /\ UNCHANGED <<mgrVars, permit, member>>

RecordsChild(s) ==
    /\ At(s, "record")
    /\ \/ /\ Recorded(s)
          /\ RecordChildCompleted(s, loop[s].turn, loop[s].result = "ok")
          /\ Restarting(s, "maybe")
       \/ ~Recorded(s) /\ UNCHANGED mgrVars /\ Restarting(s, "peek")
    /\ OnlyLoop /\ UNCHANGED <<permit, member>>

CompletesRun(s) ==
    /\ At(s, "maybe")
    /\ MaybeComplete
    /\ Goto(s, "peek")
    /\ OnlyLoop /\ UNCHANGED <<permit, member>>

----------------------------------------------------------------------------
\* Requests.  Each is a task of its own that runs once.

ReqAt(q, l) == req[q].pc = l
Is(q, k) == req[q].kind = k
Becomes(q, r) == req' = [req EXCEPT ![q] = r]
ReqGoto(q, l) == Becomes(q, [req[q] EXCEPT !.pc = l])

\* Request q at l, its locals out of scope.
Forgets(q, l) == [RequestAt(l) EXCEPT !.kind = req[q].kind]
Ends(q, l) == Becomes(q, RequestAt(l))
OnlyReq == UNCHANGED <<loop, permit, member, unread, kept>>

\* accept_user_message: only a teammate may be written to during a run.
UserAccepts(q, s) ==
    /\ ReqAt(q, "new")
    /\ \/ AcceptUserMessage(s)
       \/ IsActive /\ s /= Lead /\ UNCHANGED mgrVars
    /\ Becomes(q, [req[q] EXCEPT !.kind = "userSend", !.pc = "write", !.to = {s}, !.left = {s}])
    /\ OnlyReq

UserRefused(q, s) ==
    /\ ReqAt(q, "new")
    /\ Exists
    /\ s = Lead \/ status = "cancelling"
    /\ Ends(q, "refused")
    /\ OnlyReq /\ UNCHANGED mgrVars

\* team_send_message of an agent in a turn, to one slot or to all the others:
\* require_active_team_run_for_team_work, then the rows, then the wakes.
ToolAccepts(q, s, to) ==
    /\ ReqAt(q, "new")
    /\ At(s, "running")
    /\ IsActive
    /\ Becomes(q, [req[q] EXCEPT !.kind = "toolSend", !.to = to, !.left = to,
                                 !.pc = IF to = {s} THEN "wake" ELSE "write"])
    /\ OnlyReq /\ UNCHANGED mgrVars

WritesRow(q, s) ==
    /\ ReqAt(q, "write")
    /\ s \in req[q].left
    /\ WriteRow(s)
    /\ Becomes(q, IF req[q].left = {s}
                  THEN [req[q] EXCEPT !.pc = "wake", !.left = req[q].to]
                  ELSE [req[q] EXCEPT !.left = @ \ {s}])
    /\ UNCHANGED <<mgrVars, loop, permit, member, kept>>

\* A failed write of a user message fails whatever run is current.
WriteFails(q) ==
    /\ ReqAt(q, "write")
    /\ Fault
    /\ IF Is(q, "userSend") THEN CompleteFailed ELSE UNCHANGED mgrVars
    /\ Ends(q, "refused")
    /\ UNCHANGED <<loop, permit, member, unread, sent, restore, restarts>>

\* wake_agent_for_team_work: reserve, then notify.  Its error is returned.
ReservesWake(q, s) ==
    /\ ReqAt(q, "wake")
    /\ s \in req[q].left
    /\ RecordPendingWake(s)
    /\ Becomes(q, [req[q] EXCEPT !.pc = "notify", !.at = s])
    /\ OnlyReq

WakeRejected(q) ==
    /\ ReqAt(q, "wake")
    /\ ~IsActive
    /\ Ends(q, "error")
    /\ OnlyReq /\ UNCHANGED mgrVars

\* After the wake that tells the lead of a starting child's cancellation,
\* cancel_child_turn still calls try_complete_cancelled.
Notifies(q) ==
    /\ ReqAt(q, "notify")
    /\ Notify(req[q].at)
    /\ IF req[q].left /= {req[q].at}
       THEN Becomes(q, [req[q] EXCEPT !.pc = "wake", !.left = @ \ {req[q].at}])
       ELSE IF Is(q, "childCancel") /\ req[q].kids = {} THEN ReqGoto(q, "settle")
       ELSE Ends(q, "done")
    /\ UNCHANGED <<mgrVars, loop, member, unread, kept>>

----------------------------------------------------------------------------
\* cancel_run: the id check and begin_cancel take the lock separately; then the
\* unread rows are peeked, slot by slot, and marked read together, and the
\* children listed at that point are cancelled one by one.

CancelChecks(q) ==
    /\ ReqAt(q, "new")
    /\ Exists
    /\ Becomes(q, [req[q] EXCEPT !.kind = "runCancel", !.pc = "begin", !.run = lastRun])
    /\ OnlyReq /\ UNCHANGED mgrVars

CancelBegins(q) ==
    /\ ReqAt(q, "begin")
    /\ \/ BeginCancel /\ Becomes(q, [req[q] EXCEPT !.pc = "peek", !.left = Slots])
       \/ /\ ~IsActive \/ \E s \in Slots : ~MayCancelFor(s)
          /\ UNCHANGED mgrVars
          /\ Ends(q, "refused")
    /\ OnlyReq

CancelPeeks(q, s) ==
    /\ ReqAt(q, "peek")
    /\ s \in req[q].left
    /\ Becomes(q, [req[q] EXCEPT !.marks[s] = unread[s], !.left = @ \ {s},
                                 !.pc = IF req[q].left = {s} THEN "mark" ELSE "peek"])
    /\ OnlyReq /\ UNCHANGED mgrVars

CancelMarks(q) ==
    /\ ReqAt(q, "mark")
    /\ MarkRead(req[q].marks)
    /\ Becomes(q, [Forgets(q, "list") EXCEPT !.run = req[q].run])
    /\ UNCHANGED <<mgrVars, loop, permit, member, restore, restarts, faults>>

\* The drain failed: cancel_run returns here, after begin_cancel.
CancelDrainFails(q) ==
    /\ ReqAt(q, "peek") \/ (ReqAt(q, "mark") /\ req[q].marks /= Nothing)
    /\ Fault
    /\ Ends(q, "error")
    /\ UNCHANGED <<mgrVars, loop, permit, member, unread, sent, restore, restarts>>

CancelLists(q) ==
    /\ ReqAt(q, "list")
    /\ LET kids == {active[s] : s \in Slots} \ {NoChild}
       IN  Becomes(q, [req[q] EXCEPT !.kids = kids,
                                     !.pc = IF kids = {} THEN "settle" ELSE "cancel"])
    /\ OnlyReq /\ UNCHANGED mgrVars

\* Faulty variant of CancelAsks: the port is not called.
CancelSkips(q, c) ==
    /\ ReqAt(q, "cancel")
    /\ c \in req[q].kids
    /\ Becomes(q, [req[q] EXCEPT !.pc = "record", !.at = c.slot])
    /\ OnlyReq /\ UNCHANGED mgrVars

CancelAsks(q, c) ==
    /\ ReqAt(q, "cancel")
    /\ c \in req[q].kids
    /\ AskToStop(c)
    /\ Becomes(q, [req[q] EXCEPT !.pc = "record", !.at = c.slot])
    /\ UNCHANGED <<mgrVars, permit, member, unread, kept>>

CancelRecords(q, c) ==
    /\ ReqAt(q, "record")
    /\ Is(q, "runCancel")
    /\ c \in req[q].kids /\ c.slot = req[q].at
    /\ RecordChildCancelled(c)
    /\ DropsTurn(c)
    /\ Becomes(q, [req[q] EXCEPT !.kids = @ \ {c},
                                 !.pc = IF req[q].kids = {c} THEN "settle" ELSE "cancel"])
    /\ UNCHANGED <<permit, member, unread, kept>>

\* Faulty variant of Settles: try_complete_cancelled is not called.
SettlesNothing(q) ==
    /\ ReqAt(q, "settle")
    /\ Ends(q, "done")
    /\ OnlyReq /\ UNCHANGED mgrVars

Settles(q) ==
    /\ ReqAt(q, "settle")
    /\ TryCompleteCancelled
    /\ Ends(q, "done")
    /\ OnlyReq

----------------------------------------------------------------------------
\* cancel_child_turn(run, s): the run id is compared after begin_cancel_child.

CancelsActiveChild(q, s, r) ==
    /\ ReqAt(q, "new")
    /\ IsActive
    /\ active[s] /= NoChild
    /\ Becomes(q, IF active[s].run = r
                  THEN [req[q] EXCEPT !.kind = "childCancel", !.pc = "cancel",
                                      !.kids = {active[s]}]
                  ELSE RequestAt("refused"))
    /\ OnlyReq /\ UNCHANGED mgrVars

\* The lead is told of an interrupted teammate.
TellLead(q) == [req[q] EXCEPT !.kind = "childCancel", !.pc = "write", !.to = {Lead}, !.left = {Lead}]

CancelsStartingChild(q, s, r) ==
    /\ ReqAt(q, "new")
    /\ BeginCancelChildStarting(s, s)
    /\ Becomes(q, IF r /= lastRun THEN RequestAt("refused")
                  ELSE IF s = Lead THEN [RequestAt("settle") EXCEPT !.kind = "childCancel"]
                  ELSE TellLead(q))
    /\ OnlyReq

\* The cancellation port failed: the request ends with its error.
ChildCancelFails(q) ==
    /\ Is(q, "childCancel")
    /\ ReqAt(q, "cancel")
    /\ Fault
    /\ Ends(q, "error")
    /\ UNCHANGED <<mgrVars, loop, permit, member, unread, sent, restore, restarts>>

ChildCancelRecords(q, c) ==
    /\ ReqAt(q, "record")
    /\ Is(q, "childCancel")
    /\ c \in req[q].kids
    /\ RecordChildCancelled(c)
    /\ DropsTurn(c)
    /\ Becomes(q, IF c.slot = Lead THEN Forgets(q, "complete") ELSE TellLead(q))
    /\ UNCHANGED <<permit, member, unread, kept>>

ChildCancelCompletes(q) ==
    /\ ReqAt(q, "complete")
    /\ MaybeComplete
    /\ Ends(q, "done")
    /\ OnlyReq

----------------------------------------------------------------------------
\* A request that is not under way.
Over == {"new", "done", "refused", "error", "lost"}

\* Faulty variant of Restart: the run record survives its event loops.
RestartKeepsRun ==
    /\ restarts < MaxRestarts
    /\ restarts' = restarts + 1
    /\ loop' = FreshLoops
    /\ permit' = NoPermits
    /\ member' = AllIdle
    /\ restore' = Slots
    /\ req' = [q \in Requests |-> IF req[q].pc \in Over THEN req[q] ELSE RequestAt("lost")]
    /\ UNCHANGED <<mgrVars, unread, sent, faults>>

\* The process dies and ensure_session starts the session again: only the
\* mailbox survives.
Restart ==
    /\ restarts < MaxRestarts
    /\ restarts' = restarts + 1
    /\ status' = "none"
    /\ active' = NoChildren
    /\ starting' = NoReservations
    /\ pending' = NoWakes
    /\ loop' = FreshLoops
    /\ permit' = NoPermits
    /\ member' = AllIdle
    /\ restore' = Slots
    /\ req' = [q \in Requests |-> IF req[q].pc \in Over THEN req[q] ELSE RequestAt("lost")]
    /\ UNCHANGED <<lastRun, target, outcome, unread, sent, faults>>

\* ensure_session pokes each slot of the new session, unless a run was opened in
\* the meantime.
RestoreDrains(s) ==
    /\ s \in restore
    /\ restore' = restore \ {s}
    /\ permit' = [permit EXCEPT ![s] = @ \/ ~IsActive]
    /\ UNCHANGED <<mgrVars, loop, member, unread, req, sent, restarts, faults>>

----------------------------------------------------------------------------
\* What the event loop of s does by itself, apart from the agent's turn.
LoopStep(s) ==
    \/ LoopWakes(s) \/ Peeks(s) \/ PeekFails(s) \/ Plans(s) \/ ObservesEmpty(s)
    \/ Claims(s) \/ ClaimRefused(s) \/ SetsWorking(s)
    \/ LateStartCancels(s) \/ LateStartRecords(s) \/ LateStartTries(s)
    \/ MarksError(s) \/ MarksIdle(s) \/ TellsLead(s) \/ ChecksAllIdle(s)
    \/ WakesLead(s) \/ PokesLead(s) \/ RecordsChild(s) \/ CompletesRun(s)

\* A request arrives.
Arrives ==
    \/ \E q \in UserSends, s \in Slots : UserAccepts(q, s) \/ UserRefused(q, s)
    \/ \E q \in ToolSends, s \in Slots :
         \E to \in {{t} : t \in Slots} \cup {Slots \ {s}} : ToolAccepts(q, s, to)
    \/ \E q \in RunCancels : CancelChecks(q)
    \/ \E q \in ChildCancels, s \in Slots, r \in 1..lastRun :
         CancelsActiveChild(q, s, r) \/ CancelsStartingChild(q, s, r)

\* A request that has arrived goes on.
RequestStep(q) ==
    \/ \E s \in Slots : WritesRow(q, s) \/ ReservesWake(q, s) \/ CancelPeeks(q, s)
    \/ WriteFails(q) \/ WakeRejected(q) \/ Notifies(q)
    \/ CancelBegins(q) \/ CancelMarks(q) \/ CancelDrainFails(q)
    \/ CancelLists(q) \/ Settles(q)
    \/ \E c \in req[q].kids : CancelAsks(q, c) \/ CancelRecords(q, c) \/ ChildCancelRecords(q, c)
    \/ ChildCancelFails(q) \/ ChildCancelCompletes(q)

\* Every loop waits without a permit and every request is over: the session
\* rests until the user writes again.
Rests ==
    /\ restore = {}
    /\ \A s \in Slots : At(s, "wait") /\ ~permit[s]
    /\ \A q \in Requests : req[q].pc \in Over
    /\ UNCHANGED vars

Next ==
    \/ \E s \in Slots : LoopStep(s) \/ PortRefusesTurn(s) \/ PortStartsTurn(s) \/ TurnEnds(s)
    \/ \E s \in Slots : RestoreDrains(s)
    \/ Arrives
    \/ \E q \in Requests : RequestStep(q)
    \/ Restart
    \/ Rests

\* Tokio runs every task that is ready, so the steps of a loop and of a request
\* that has arrived are weakly fair.  The port starts a turn it does not refuse,
\* and the agent is assumed to end a turn that runs; a loop has only one kind of
\* step at a time, so one condition covers them.  No arrival, fault or restart is promised.
Fairness ==
    /\ \A s \in Slots : WF_vars(LoopStep(s) \/ PortStartsTurn(s) \/ TurnEnds(s))
    /\ \A s \in Slots : WF_vars(RestoreDrains(s))
    /\ \A q \in Requests : WF_vars(RequestStep(q))

Spec == Init /\ [][Next]_vars
FairSpec == Spec /\ Fairness

----------------------------------------------------------------------------
\* Nothing the run waits for is an orphan: a reservation is held by a loop that
\* is on its way to the port, and a tracked child is the turn its loop is in.
\* An orphan would keep the run open for ever.
TrackedWorkIsLive ==
    \A s \in Slots :
        /\ starting[s] /= NoReservation => loop[s].pc \in {"work", "port"} /\ Tracked(s)
        /\ active[s] /= NoChild =>
             /\ active[s].turn = loop[s].turn
             /\ loop[s].pc \in {"lateCancel", "lateRecord", "running", "markError", "markIdle",
                                "tellLead", "allIdle", "wakeLead", "pokeLead", "record"}

\* The turn of s, or the one it is about to have, is one its run counts: the wake it
\* claimed is of the run it read before, and no other turn's cancellation dropped it.
Counted(s) ==
    /\ loop[s].pc \in {"work", "port", "running"}
    /\ loop[s].claim /= 0 /\ loop[s].run = loop[s].claim
    /\ ~loop[s].dropped

\* A run is not announced completed while a turn it counts still has to start or
\* still runs, unless that turn was told to stop (the counts tested by
\* maybe_complete_locked cover every reservation and child).
CompletesAfterTurns ==
    \A s \in Slots : Counted(s) => outcome[loop[s].claim] /= "completed" \/ loop[s].asked

\* A run is not announced completed while any turn claimed for it is to come or runs,
\* as a test of team_run.rs has it: a turn whose wake was of a later run than the one
\* it read, or which another turn's cancellation dropped, is not counted.
ClaimsHoldRunOpen ==
    \A s \in Slots :
        loop[s].pc \in {"work", "port", "running"} /\ loop[s].claim /= 0 =>
            outcome[loop[s].claim] /= "completed" \/ loop[s].asked

\* No wake-up is lost: while a wake is queued for a slot, its loop is on the move,
\* has a stored permit, or is about to be notified.  Notify keeps one permit for
\* any number of wakes, so this rests on the loop settling a wake per turn and
\* one more when it finds the mailbox empty.
AboutToNotify(s) ==
    \/ \E q \in Requests : req[q].pc = "notify" /\ req[q].at = s
    \/ s = Lead /\ \E t \in Slots : loop[t].pc = "pokeLead"

NoStrandedWake ==
    \A s \in Slots : pending[s] > 0 => permit[s] \/ ~At(s, "wait") \/ AboutToNotify(s)

\* Nobody waits for nobody: while a run is active, a loop or a request is under way
\* or a loop has a stored permit, so that whatever the run waits for can still come.
ActiveRunIsDriven ==
    IsActive => \/ \E s \in Slots : permit[s] \/ ~At(s, "wait")
                \/ \E q \in Requests : req[q].pc \notin Over

\* A run is not announced cancelled before the cancellation has been sent to
\* every turn that it counts, the ones that started late included.
CancelReachesTurns ==
    \A s \in Slots : Counted(s) => outcome[loop[s].claim] /= "cancelled" \/ loop[s].asked

\* No agent is prompted twice with the same mailbox row: what the loop peeked is
\* still unread only until the turn it went into has ended.
DeliveredOnce ==
    \A s \in Slots : loop[s].pc \in {"claim", "work", "port"} => loop[s].peeked \cap sent[s] = {}

\* The same until a call fails or the session is restarted: either leaves a row
\* unread whose turn has ended (event_loop.rs, mark_read_batch after the turn).
PromptedOnce == faults = 0 /\ restarts = 0 => DeliveredOnce

\* A send that persisted its row does not end in an error (send_message promises
\* to log a failed wake and not to return it).
WakeFailureNotPropagated ==
    [][\A q \in Requests : Is(q, "userSend") /\ req[q].pc = "wake" => req'[q].pc /= "error"]_vars

\* cancel_run cancels the run whose id it was given and checked, and no other.
CancelsTheCheckedRun ==
    [][\A q \in Requests :
         req[q].pc = "begin" /\ req'[q].pc = "peek" => req[q].run = lastRun]_vars

\* A run does not stay active for ever: whatever the loops do to each other's
\* wakes, in the end one of them finds nothing outstanding and completes it.
RunEnds == IsActive ~> ~IsActive

\* A cancellation that has begun is brought to an end: the run never stays in the
\* state Cancelling, in which every user message is refused.
CancelSettles == status = "cancelling" ~> status /= "cancelling"

\* The rows an earlier session left are drained by the new one, which pokes every
\* slot for them when it starts (ensure_session_inner).
JustStarted ==
    /\ restore = Slots
    /\ ~Exists
    /\ \A q \in Requests : req[q].pc \in Over

RestoreDrainsRows ==
    \A s \in Slots, m \in Rows : JustStarted /\ m \in unread[s] ~> m \notin unread[s]
====
