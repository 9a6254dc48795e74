---- MODULE TeamRunManager ----
(***************************************************************************)
(* The run record of one team session: crates/aionui-team/src/team_run.rs. *)
(*                                                                         *)
(* TeamRunManager keeps at most one run, behind one async mutex.  A run    *)
(* owns three kinds of outstanding work: wakes queued for a slot, start    *)
(* reservations claimed by a slot's event loop, and child turns that have  *)
(* started.  Every method holds the mutex from its first read to its last  *)
(* write, so every method is one atomic action here.                       *)
(*                                                                         *)
(* Next is the most general client: any method, in any order, with any     *)
(* argument.  TeamSession.tla conjoins the same actions with the steps of  *)
(* the event loops and of the request handlers that call them.             *)
(*                                                                         *)
(* Abstractions.  `Option<TeamRunRecord>` is flattened: status = "none"    *)
(* stands for None, and the id of the current run is lastRun, the number   *)
(* of runs opened so far.  A queue of PendingWake is its length: role and  *)
(* source only reach the log.  generate_id() is a counter for runs; a      *)
(* reservation id is an element of Reservations that no live reservation   *)
(* has.  Of the broadcasts only the terminal ones are kept (outcome);      *)
(* started_at, which only picks the name of a progress event, is not.      *)
(***************************************************************************)
EXTENDS Naturals

CONSTANTS
    Slots,          \* agent slots of the team
    Reservations,   \* reservation ids
    MaxRuns,        \* bound on the runs opened
    MaxTurns,       \* bound on the conversation turn ids
    MaxWakes,       \* bound on the wakes queued for one slot
    NoChild,        \* absent entry of active_child_turns
    NoReservation   \* absent entry of starting_reservations

Runs  == 1..MaxRuns
Turns == 1..MaxTurns

\* ActiveChildTurn: role and conversation are functions of the slot.
Child == [run : Runs, slot : Slots, turn : Turns]

\* StartingChildReservation.
Reservation == [run : Runs, slot : Slots, state : {"starting", "cancelling"}]

ASSUME ManagerAssumption ==
    /\ MaxRuns \in Nat
    /\ MaxTurns \in Nat
    /\ MaxWakes \in Nat
    /\ NoChild \notin Child
    /\ NoReservation \notin Reservation

VARIABLES
    status,     \* TeamRunStatus of the current run, "none" when there is none
    lastRun,    \* id of the current run, or of the last one
    target,     \* target_slot_id
    active,     \* active_child_turns, by slot
    starting,   \* starting_reservations, by reservation id
    pending,    \* number of pending_wakes, by slot
    outcome     \* terminal event broadcast for each run, "none" before it

mgrVars == <<status, lastRun, target, active, starting, pending, outcome>>

NoChildren     == [s \in Slots |-> NoChild]
NoReservations == [r \in Reservations |-> NoReservation]
NoWakes        == [s \in Slots |-> 0]

MgrTypeOK ==
    /\ status \in {"none", "accepted", "running", "cancelling"}
    /\ lastRun \in 0..MaxRuns
    /\ target \in Slots
    /\ active \in [Slots -> Child \cup {NoChild}]
    /\ starting \in [Reservations -> Reservation \cup {NoReservation}]
    /\ pending \in [Slots -> 0..MaxWakes]
    /\ outcome \in [Runs -> {"none", "completed", "failed", "cancelled"}]

MgrInit ==
    /\ status = "none"
    /\ lastRun = 0
    /\ target \in Slots
    /\ active = NoChildren
    /\ starting = NoReservations
    /\ pending = NoWakes
    /\ outcome = [r \in Runs |-> "none"]

----------------------------------------------------------------------------
IsActive == status \in {"accepted", "running"}

Exists == status /= "none"

\* Faulty variant of Drained: reservations are not counted.
DrainedButStarting(a, st, p) == a = NoChildren /\ p = NoWakes

\* Nothing is outstanding once active, starting and pending are a, st and p.
Drained(a, st, p) == a = NoChildren /\ st = NoReservations /\ p = NoWakes

\* Faulty variant of Close: the terminal event is not broadcast.
CloseSilently(e) ==
    /\ status' = "none"
    /\ active' = NoChildren
    /\ starting' = NoReservations
    /\ pending' = NoWakes
    /\ UNCHANGED <<lastRun, target, outcome>>

\* `*guard = None` after the terminal event e.
Close(e) ==
    /\ status' = "none"
    /\ outcome' = [outcome EXCEPT ![lastRun] = e]
    /\ active' = NoChildren
    /\ starting' = NoReservations
    /\ pending' = NoWakes
    /\ UNCHANGED <<lastRun, target>>

Keep(a, st, p) ==
    /\ active' = a
    /\ starting' = st
    /\ pending' = p
    /\ UNCHANGED <<status, lastRun, target, outcome>>

\* The run, updated to a, st and p under the lock, completes if it is active
\* and has nothing outstanding.
MaybeCompleteLocked(a, st, p) ==
    \/ Drained(a, st, p) /\ IsActive /\ Close("completed")
    \/ ~(Drained(a, st, p) /\ IsActive) /\ Keep(a, st, p)

MaybeCancelledLocked(a, st, p) ==
    \/ status = "cancelling" /\ Drained(a, st, p) /\ Close("cancelled")
    \/ ~(status = "cancelling" /\ Drained(a, st, p)) /\ Keep(a, st, p)

----------------------------------------------------------------------------
\* accept_user_message when there is no run: a new one is opened.  With an
\* active run the call is acknowledged without a change (intervention) or
\* refused; with a cancelling one it is refused.
AcceptUserMessage(s) ==
    /\ ~Exists
    /\ lastRun < MaxRuns
    /\ status' = "accepted"
    /\ lastRun' = lastRun + 1
    /\ target' = s
    /\ active' = NoChildren
    /\ starting' = NoReservations
    /\ pending' = NoWakes
    /\ UNCHANGED outcome

\* record_pending_wake; an error unless IsActive.
RecordPendingWake(s) ==
    /\ IsActive
    /\ pending[s] < MaxWakes
    /\ pending' = [pending EXCEPT ![s] = @ + 1]
    /\ UNCHANGED <<status, lastRun, target, active, starting, outcome>>

\* claim_wake_for_turn; None unless CanClaim(s).
CanClaim(s) == IsActive /\ pending[s] > 0

ClaimWakeForTurn(s, r) ==
    /\ CanClaim(s)
    /\ starting[r] = NoReservation
    /\ pending' = [pending EXCEPT ![s] = @ - 1]
    /\ starting' = [starting EXCEPT
                      ![r] = [run |-> lastRun, slot |-> s, state |-> "starting"]]
    /\ UNCHANGED <<status, lastRun, target, active, outcome>>

\* Faulty variant of RecordEmptyWakeObserved: the queue may be empty.
EmptyWakeUnchecked(s) ==
    \/ ~Exists /\ UNCHANGED mgrVars
    \/ Exists /\ MaybeCompleteLocked(active, starting, [pending EXCEPT ![s] = @ - 1])

\* Faulty variant of RecordEmptyWakeObserved: completion is not tested.
EmptyWakeKeepsRun(s) ==
    \/ ~Exists /\ UNCHANGED mgrVars
    \/ Exists /\ Keep(active, starting, [pending EXCEPT ![s] = IF @ > 0 THEN @ - 1 ELSE 0])

\* record_empty_wake_observed: one wake of the slot, if it has any, is consumed.
RecordEmptyWakeObserved(s) ==
    \/ ~Exists /\ UNCHANGED mgrVars
    \/ /\ Exists
       /\ MaybeCompleteLocked(active, starting,
             [pending EXCEPT ![s] = IF @ > 0 THEN @ - 1 ELSE 0])

\* Faulty variant of ChildStartDecision: the run id is not compared.
ChildStartOfAnyRun(r, c) ==
    IF ~Exists \/ starting[r] = NoReservation THEN "ignored"
    ELSE IF status = "cancelling" \/ starting[r].state = "cancelling"
         THEN "cancelImmediately"
         ELSE "accepted"

\* record_child_started: the ChildStartDecision for child c and the change.
ChildStartDecision(r, c) ==
    IF ~Exists \/ starting[r] = NoReservation \/ c.run /= lastRun THEN "ignored"
    ELSE IF status = "cancelling" \/ starting[r].state = "cancelling"
         THEN "cancelImmediately"
         ELSE "accepted"

RecordChildStarted(r, c) ==
    \/ (~Exists \/ starting[r] = NoReservation) /\ UNCHANGED mgrVars
    \/ /\ Exists
       /\ starting[r] /= NoReservation
       /\ starting' = [starting EXCEPT ![r] = NoReservation]
       /\ active' = IF ChildStartDecision(r, c) = "ignored"
                    THEN active ELSE [active EXCEPT ![c.slot] = c]
       /\ status' = IF ChildStartDecision(r, c) = "accepted" THEN "running" ELSE status
       /\ UNCHANGED <<lastRun, target, pending, outcome>>

RecordChildStartFailed(r) ==
    \/ (~Exists \/ starting[r] = NoReservation) /\ UNCHANGED mgrVars
    \/ /\ Exists
       /\ starting[r] /= NoReservation
       /\ \/ /\ status = "cancelling" \/ starting[r].state = "cancelling"
             /\ MaybeCancelledLocked(active, [starting EXCEPT ![r] = NoReservation], pending)
          \/ /\ status /= "cancelling" /\ starting[r].state /= "cancelling"
             /\ Close("failed")

\* record_child_completed: the entry must be turn t of slot s.
Tracks(s, t) == Exists /\ active[s] /= NoChild /\ active[s].turn = t

RecordChildCompleted(s, t, ok) ==
    \/ ~Tracks(s, t) /\ UNCHANGED mgrVars
    \/ Tracks(s, t) /\ ~ok /\ Close("failed")
    \/ /\ Tracks(s, t)
       /\ ok
       /\ MaybeCompleteLocked([active EXCEPT ![s] = NoChild], starting, pending)

MaybeComplete ==
    \/ ~Exists /\ UNCHANGED mgrVars
    \/ Exists /\ MaybeCompleteLocked(active, starting, pending)

\* begin_cancel; an error unless the run is active and the optional target
\* slot is the run's target or has work that started.
MayCancelFor(s) ==
    \/ s = target
    \/ active[s] /= NoChild
    \/ \E r \in Reservations : starting[r] /= NoReservation /\ starting[r].slot = s

\* Faulty variant of BeginCancel: the queued wakes survive.
BeginCancelKeepsWakes ==
    /\ IsActive
    /\ status' = "cancelling"
    /\ starting' = [r \in Reservations |->
                      IF starting[r] = NoReservation THEN NoReservation
                      ELSE [starting[r] EXCEPT !.state = "cancelling"]]
    /\ UNCHANGED <<lastRun, target, active, pending, outcome>>

BeginCancel ==
    /\ IsActive
    /\ status' = "cancelling"
    /\ pending' = NoWakes
    /\ starting' = [r \in Reservations |->
                      IF starting[r] = NoReservation THEN NoReservation
                      ELSE [starting[r] EXCEPT !.state = "cancelling"]]
    /\ UNCHANGED <<lastRun, target, active, outcome>>

BeginCancelFor(s) == MayCancelFor(s) /\ BeginCancel

TryCompleteCancelled ==
    \/ ~Exists /\ UNCHANGED mgrVars
    \/ Exists /\ MaybeCancelledLocked(active, starting, pending)

CompleteFailed ==
    \/ ~Exists /\ UNCHANGED mgrVars
    \/ Exists /\ Close("failed")

\* begin_cancel_child: an active child is only looked up; a starting one is
\* marked.
BeginCancelChildStarting(s, r) ==
    /\ IsActive
    /\ active[s] = NoChild
    /\ starting[r] /= NoReservation
    /\ starting[r].slot = s
    /\ starting' = [starting EXCEPT ![r].state = "cancelling"]
    /\ UNCHANGED <<status, lastRun, target, active, pending, outcome>>

\* record_child_cancelled: whatever turn of the slot is tracked is dropped.
RecordChildCancelled(c) ==
    \/ ~Exists /\ UNCHANGED mgrVars
    \/ /\ Exists
       /\ MaybeCancelledLocked([active EXCEPT ![c.slot] = NoChild], starting, pending)

----------------------------------------------------------------------------
MgrNext ==
    \/ \E s \in Slots : AcceptUserMessage(s)
    \/ \E s \in Slots : RecordPendingWake(s)
    \/ \E s \in Slots, r \in Reservations : ClaimWakeForTurn(s, r)
    \/ \E s \in Slots : RecordEmptyWakeObserved(s)
    \/ \E r \in Reservations, c \in Child : RecordChildStarted(r, c)
    \/ \E r \in Reservations : RecordChildStartFailed(r)
    \/ \E s \in Slots, t \in Turns, ok \in BOOLEAN : RecordChildCompleted(s, t, ok)
    \/ MaybeComplete
    \/ BeginCancel
    \/ \E s \in Slots : BeginCancelFor(s)
    \/ TryCompleteCancelled
    \/ CompleteFailed
    \/ \E s \in Slots, r \in Reservations : BeginCancelChildStarting(s, r)
    \/ \E c \in Child : RecordChildCancelled(c)

MgrSpec == MgrInit /\ [][MgrNext]_mgrVars

----------------------------------------------------------------------------
\* Everything tracked belongs to the current run and sits under its own slot:
\* a late start of an earlier run can not enter the books of a later one
\* (the run id check of record_child_started).
TracksOwnRun ==
    /\ \A s \in Slots : active[s] /= NoChild =>
                         active[s].run = lastRun /\ active[s].slot = s
    /\ \A r \in Reservations : starting[r] /= NoReservation => starting[r].run = lastRun

\* A cancelled run can not start new turns: no wake is left to claim, and every
\* reservation still in flight is marked, so that its late start is cancelled.
CancelFreezesRun ==
    status = "cancelling" =>
        /\ pending = NoWakes
        /\ \A r \in Reservations :
              starting[r] /= NoReservation => starting[r].state = "cancelling"

\* Work is outstanding only in an open run.
ClosedRunIsEmpty == ~Exists => Drained(active, starting, pending)

\* Each run that was opened and is over has exactly one terminal event, and the
\* open run has none.
EndedRunsHaveOutcome ==
    \A r \in Runs : outcome[r] /= "none" <=> (r < lastRun \/ (r = lastRun /\ ~Exists))

\* An open run has an id.
OpenRunHasId == Exists => lastRun \in Runs

\* The inductive invariant of the manager.
MgrInv ==
    /\ MgrTypeOK
    /\ OpenRunHasId
    /\ TracksOwnRun
    /\ CancelFreezesRun
    /\ ClosedRunIsEmpty
    /\ EndedRunsHaveOutcome

----------------------------------------------------------------------------
\* The run lifecycle the manager implements: a run's phase is its status while
\* it is the current one and its outcome afterwards; its work is what it tracks.
Phase(r) == IF r > lastRun THEN "fresh"
            ELSE IF r = lastRun /\ Exists THEN status
            ELSE outcome[r]

Items == ({"active", "pending"} \X Slots) \cup ({"starting"} \X Reservations)

Work == {<<"active", s>> : s \in {x \in Slots : active[x] /= NoChild}}
          \cup {<<"pending", s>> : s \in {x \in Slots : pending[x] > 0}}
          \cup {<<"starting", r>> : r \in {x \in Reservations : starting[x] /= NoReservation}}

Life == INSTANCE RunLifecycle WITH phase <- [r \in Runs |-> Phase(r)], work <- Work

\* The manager keeps the lifecycle's promises under any client.
ImplementsRunLifecycle == Life!LifeSpec
====
