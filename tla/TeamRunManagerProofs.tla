---- MODULE TeamRunManagerProofs ----
(***************************************************************************)
(* Proofs about the run record of TeamRunManager.tla, for any sets of      *)
(* slots and reservations and any bounds.                                  *)
(*                                                                         *)
(* MgrInv is inductive, and so is RecordInv, which leaves open whether     *)
(* every run that is over was announced: a team session that restarts      *)
(* forgets its run without announcing anything.  Every method ends in one  *)
(* of three ways: the run is closed (CloseKeepsInv), its three collections *)
(* are replaced (KeepKeepsInv), or a method writes its own fields; the     *)
(* first two are lemmas that the proof of each method cites.               *)
(***************************************************************************)
EXTENDS TeamRunManager, TLAPS

\* Only runs that are over have a terminal event.
OpenRunUndecided ==
    \A r \in Runs : outcome[r] /= "none" => r < lastRun \/ (r = lastRun /\ ~Exists)

\* What holds of the run record under its methods and restarts.
RecordInv ==
    /\ MgrTypeOK
    /\ OpenRunHasId
    /\ TracksOwnRun
    /\ CancelFreezesRun
    /\ ClosedRunIsEmpty
    /\ OpenRunUndecided

\* The collections a method may leave behind without closing the run.
GoodUpdate(a, st, p) ==
    /\ a \in [Slots -> Child \cup {NoChild}]
    /\ st \in [Reservations -> Reservation \cup {NoReservation}]
    /\ p \in [Slots -> 0..MaxWakes]
    /\ \A s \in Slots : a[s] /= NoChild => a[s].run = lastRun /\ a[s].slot = s
    /\ \A r \in Reservations : st[r] /= NoReservation => st[r].run = lastRun
    /\ status = "cancelling" =>
         /\ p = NoWakes
         /\ \A r \in Reservations : st[r] /= NoReservation => st[r].state = "cancelling"

\* The invariant holds of a session whose manager has seen no message.
LEMMA InitEstablishesInv == MgrInit => RecordInv
  <1> SUFFICES ASSUME MgrInit PROVE RecordInv
      OBVIOUS
  <1>1. MgrTypeOK
      BY ManagerAssumption DEF MgrInit, MgrTypeOK, NoChildren, NoReservations, NoWakes
  <1>2. OpenRunHasId /\ ClosedRunIsEmpty
      BY DEF MgrInit, OpenRunHasId, ClosedRunIsEmpty, Exists, Drained
  <1>3. TracksOwnRun
      BY DEF MgrInit, TracksOwnRun, NoChildren, NoReservations
  <1>4. CancelFreezesRun
      BY DEF MgrInit, CancelFreezesRun
  <1>5. OpenRunUndecided
      BY ManagerAssumption DEF MgrInit, OpenRunUndecided, Exists, Runs
  <1> QED
      BY <1>1, <1>2, <1>3, <1>4, <1>5 DEF RecordInv

\* Closing the open run with a terminal event keeps the invariant.
LEMMA CloseKeepsInv ==
  ASSUME RecordInv, Exists, NEW e \in {"completed", "failed", "cancelled"}, Close(e)
  PROVE  RecordInv'
  <1>1. MgrTypeOK'
    <2>1. /\ active' \in [Slots -> Child \cup {NoChild}]
          /\ starting' \in [Reservations -> Reservation \cup {NoReservation}]
          /\ pending' \in [Slots -> 0..MaxWakes]
        BY ManagerAssumption DEF Close, NoChildren, NoReservations, NoWakes
    <2>2. /\ status' \in {"none", "accepted", "running", "cancelling"}
          /\ lastRun' \in 0..MaxRuns
          /\ target' \in Slots
        BY DEF RecordInv, MgrTypeOK, Close
    <2>3. outcome' \in [Runs -> {"none", "completed", "failed", "cancelled"}]
        BY DEF RecordInv, MgrTypeOK, Close
    <2> QED
        BY <2>1, <2>2, <2>3 DEF MgrTypeOK
  <1>2. OpenRunHasId' /\ ClosedRunIsEmpty'
      BY DEF Close, OpenRunHasId, ClosedRunIsEmpty, Exists, Drained
  <1>3. TracksOwnRun'
      BY DEF Close, TracksOwnRun, NoChildren, NoReservations
  <1>4. CancelFreezesRun'
      BY DEF Close, CancelFreezesRun
  <1>5. OpenRunUndecided'
    <2> SUFFICES ASSUME NEW r \in Runs
                 PROVE  outcome'[r] /= "none" => (r < lastRun' \/ (r = lastRun' /\ ~Exists'))
        BY DEF OpenRunUndecided
    <2>1. /\ lastRun \in Runs /\ lastRun' = lastRun /\ ~Exists'
          /\ outcome' = [outcome EXCEPT ![lastRun] = e]
          /\ outcome \in [Runs -> {"none", "completed", "failed", "cancelled"}]
        BY DEF RecordInv, MgrTypeOK, OpenRunHasId, Close, Exists
    <2>2. outcome[r] /= "none" => r < lastRun
        BY <2>1 DEF RecordInv, OpenRunUndecided, Exists
    <2> QED
        BY <2>1, <2>2, ManagerAssumption DEF Runs
  <1> QED
      BY <1>1, <1>2, <1>3, <1>4, <1>5 DEF RecordInv

\* Replacing the collections of the open run by good ones keeps the invariant.
LEMMA KeepKeepsInv ==
  ASSUME RecordInv, Exists, NEW a, NEW st, NEW p, GoodUpdate(a, st, p), Keep(a, st, p)
  PROVE  RecordInv'
  <1>1. MgrTypeOK'
      BY DEF RecordInv, MgrTypeOK, Keep, GoodUpdate
  <1>2. OpenRunHasId' /\ ClosedRunIsEmpty'
      BY DEF RecordInv, Keep, OpenRunHasId, ClosedRunIsEmpty, Exists
  <1>3. TracksOwnRun'
      BY DEF Keep, TracksOwnRun, GoodUpdate
  <1>4. CancelFreezesRun'
      BY DEF Keep, CancelFreezesRun, GoodUpdate
  <1>5. OpenRunUndecided'
      BY DEF RecordInv, OpenRunUndecided, Keep, Exists
  <1> QED
      BY <1>1, <1>2, <1>3, <1>4, <1>5 DEF RecordInv

\* What the open run holds is itself a good update.
LEMMA InvIsGood ==
  ASSUME RecordInv PROVE GoodUpdate(active, starting, pending)
  BY DEF RecordInv, MgrTypeOK, TracksOwnRun, CancelFreezesRun, GoodUpdate

\* maybe_complete_locked and maybe_cancelled_locked either close the run or keep
\* the collections they were given.
LEMMA MaybeKeepsInv ==
  ASSUME RecordInv, Exists, NEW a, NEW st, NEW p, GoodUpdate(a, st, p),
         MaybeCompleteLocked(a, st, p) \/ MaybeCancelledLocked(a, st, p)
  PROVE  RecordInv'
  <1>1. CASE Keep(a, st, p)
      BY <1>1, KeepKeepsInv
  <1>2. CASE Close("completed")
      BY <1>2, CloseKeepsInv
  <1>3. CASE Close("cancelled")
      BY <1>3, CloseKeepsInv
  <1> QED
      BY <1>1, <1>2, <1>3 DEF MaybeCompleteLocked, MaybeCancelledLocked

\* Dropping a child or a reservation leaves a good update.
LEMMA DropIsGood ==
  ASSUME NEW a, NEW st, NEW p, GoodUpdate(a, st, p)
  PROVE  /\ \A s \in Slots : GoodUpdate([a EXCEPT ![s] = NoChild], st, p)
         /\ \A r \in Reservations : GoodUpdate(a, [st EXCEPT ![r] = NoReservation], p)
  BY DEF GoodUpdate

----------------------------------------------------------------------------
\* One lemma for each method that writes fields of its own.

\* accept_user_message opens a run that owns nothing.
LEMMA AcceptKeepsInv ==
  ASSUME RecordInv, NEW s \in Slots, AcceptUserMessage(s) PROVE RecordInv'
  <1>1. MgrTypeOK'
      BY ManagerAssumption
      DEF RecordInv, MgrTypeOK, AcceptUserMessage, NoChildren, NoReservations, NoWakes
  <1>2. OpenRunHasId' /\ ClosedRunIsEmpty'
      BY ManagerAssumption
      DEF RecordInv, MgrTypeOK, AcceptUserMessage, OpenRunHasId, ClosedRunIsEmpty, Exists, Runs
  <1>3. TracksOwnRun' /\ CancelFreezesRun'
      BY DEF AcceptUserMessage, TracksOwnRun, CancelFreezesRun, NoChildren, NoReservations
  <1>4. OpenRunUndecided'
    <2> SUFFICES ASSUME NEW r \in Runs
                 PROVE  outcome'[r] /= "none" => (r < lastRun' \/ (r = lastRun' /\ ~Exists'))
        BY DEF OpenRunUndecided
    <2>1. outcome[r] /= "none" => (r < lastRun \/ r = lastRun)
        BY DEF RecordInv, OpenRunUndecided, AcceptUserMessage
    <2>2. outcome' = outcome /\ lastRun' = lastRun + 1 /\ Exists'
        BY DEF AcceptUserMessage, Exists
    <2> QED
        BY <2>1, <2>2, ManagerAssumption DEF RecordInv, MgrTypeOK, Runs
  <1> QED
      BY <1>1, <1>2, <1>3, <1>4 DEF RecordInv

\* Methods that keep the status and write good collections: a wake is queued, a
\* wake becomes a reservation, a reservation is marked.
LEMMA QueueKeepsInv ==
  ASSUME RecordInv, NEW s \in Slots,
         \/ RecordPendingWake(s)
         \/ \E r \in Reservations : ClaimWakeForTurn(s, r)
         \/ \E r \in Reservations : BeginCancelChildStarting(s, r)
  PROVE  RecordInv'
  <1>0. GoodUpdate(active, starting, pending)
      BY InvIsGood
  <1>1. IsActive /\ Exists /\ lastRun \in Runs /\ status /= "cancelling"
      BY DEF RecordInv, OpenRunHasId, IsActive, Exists, RecordPendingWake, ClaimWakeForTurn,
             CanClaim, BeginCancelChildStarting
  <1>2. CASE RecordPendingWake(s)
    <2>1. GoodUpdate(active, starting, pending') /\ Keep(active, starting, pending')
        BY <1>0, <1>1, <1>2, ManagerAssumption DEF GoodUpdate, Keep, RecordPendingWake
    <2> QED
        BY <1>1, <2>1, KeepKeepsInv
  <1>3. ASSUME NEW r \in Reservations, ClaimWakeForTurn(s, r)
        PROVE  RecordInv'
    <2>1. [run |-> lastRun, slot |-> s, state |-> "starting"] \in Reservation
        BY <1>1 DEF Reservation
    <2>2. GoodUpdate(active, starting', pending') /\ Keep(active, starting', pending')
        BY <1>0, <1>1, <1>3, <2>1, ManagerAssumption
        DEF GoodUpdate, Keep, ClaimWakeForTurn, CanClaim
    <2> QED
        BY <1>1, <2>2, KeepKeepsInv
  <1>4. ASSUME NEW r \in Reservations, BeginCancelChildStarting(s, r)
        PROVE  RecordInv'
    <2>1. starting[r] \in Reservation
        BY <1>0, <1>4 DEF GoodUpdate, BeginCancelChildStarting
    <2>2. /\ [starting[r] EXCEPT !.state = "cancelling"] \in Reservation
          /\ [starting[r] EXCEPT !.state = "cancelling"].run = starting[r].run
        BY <2>1 DEF Reservation
    <2>3. starting' = [starting EXCEPT ![r] = [starting[r] EXCEPT !.state = "cancelling"]]
        BY <1>4 DEF BeginCancelChildStarting
    <2>4. GoodUpdate(active, starting', pending)
        BY <1>0, <1>1, <1>4, <2>2, <2>3 DEF GoodUpdate, BeginCancelChildStarting
    <2>5. Keep(active, starting', pending)
        BY <1>4 DEF Keep, BeginCancelChildStarting
    <2> QED
        BY <1>1, <2>4, <2>5, KeepKeepsInv
  <1> QED
      BY <1>2, <1>3, <1>4

\* record_child_started: the child of another run is not entered, and a run that
\* is being cancelled stays so.
LEMMA StartedKeepsInv ==
  ASSUME RecordInv, NEW r \in Reservations, NEW c \in Child, RecordChildStarted(r, c)
  PROVE  RecordInv'
  <1>1. CASE UNCHANGED mgrVars
      BY <1>1 DEF mgrVars, RecordInv, MgrTypeOK, OpenRunHasId, TracksOwnRun, CancelFreezesRun,
                  ClosedRunIsEmpty, OpenRunUndecided, Exists, Drained
  <1>2. CASE Exists /\ starting[r] /= NoReservation
    <2> DEFINE d == ChildStartDecision(r, c)
    <2>0. /\ starting' = [starting EXCEPT ![r] = NoReservation]
          /\ active' = IF d = "ignored" THEN active ELSE [active EXCEPT ![c.slot] = c]
          /\ status' = IF d = "accepted" THEN "running" ELSE status
          /\ UNCHANGED <<lastRun, target, pending, outcome>>
        BY <1>2 DEF RecordChildStarted, mgrVars
    <2>1. d /= "ignored" => c.run = lastRun
        BY DEF ChildStartDecision
    <2>2. d = "accepted" => status /= "cancelling"
        BY DEF ChildStartDecision
    <2>3. c.slot \in Slots /\ c /= NoChild
        BY ManagerAssumption DEF Child
    <2> HIDE DEF d
    <2>4. Exists' /\ (status' = "cancelling" => status = "cancelling")
        BY <1>2, <2>0 DEF Exists
    <2>5. MgrTypeOK'
        BY <2>0, <2>3 DEF RecordInv, MgrTypeOK
    <2>6. OpenRunHasId' /\ ClosedRunIsEmpty'
        BY <1>2, <2>0, <2>4 DEF RecordInv, OpenRunHasId, ClosedRunIsEmpty
    <2>7. TracksOwnRun'
        BY <2>0, <2>1, <2>3 DEF RecordInv, MgrTypeOK, TracksOwnRun
    <2>8. CancelFreezesRun'
        BY <2>0, <2>4 DEF RecordInv, MgrTypeOK, CancelFreezesRun
    <2>9. OpenRunUndecided'
        BY <1>2, <2>0, <2>4 DEF RecordInv, OpenRunUndecided
    <2> QED
        BY <2>5, <2>6, <2>7, <2>8, <2>9 DEF RecordInv
  <1> QED
      BY <1>1, <1>2 DEF RecordChildStarted

\* begin_cancel empties the queues and marks every reservation.
LEMMA BeginCancelKeepsInv ==
  ASSUME RecordInv, BeginCancel PROVE RecordInv'
  <1>1. Exists /\ Exists'
      BY DEF BeginCancel, IsActive, Exists
  <1>2. \A r \in Reservations : starting[r] /= NoReservation =>
            /\ [starting[r] EXCEPT !.state = "cancelling"] \in Reservation
            /\ [starting[r] EXCEPT !.state = "cancelling"].run = starting[r].run
            /\ [starting[r] EXCEPT !.state = "cancelling"].state = "cancelling"
      BY DEF RecordInv, MgrTypeOK, Reservation
  <1>3. MgrTypeOK'
      BY <1>2, ManagerAssumption DEF BeginCancel, RecordInv, MgrTypeOK, NoWakes
  <1>4. OpenRunHasId' /\ ClosedRunIsEmpty'
      BY <1>1 DEF BeginCancel, RecordInv, OpenRunHasId, ClosedRunIsEmpty
  <1>5. TracksOwnRun'
      BY <1>2 DEF BeginCancel, RecordInv, TracksOwnRun
  <1>6. CancelFreezesRun'
      BY <1>2 DEF BeginCancel, CancelFreezesRun, NoWakes
  <1>7. OpenRunUndecided'
      BY <1>1 DEF BeginCancel, RecordInv, OpenRunUndecided
  <1> QED
      BY <1>3, <1>4, <1>5, <1>6, <1>7 DEF RecordInv

----------------------------------------------------------------------------
\* Every step of the manager keeps the invariant.
LEMMA NextKeepsInv == RecordInv /\ [MgrNext]_mgrVars => RecordInv'
  <1> SUFFICES ASSUME RecordInv, [MgrNext]_mgrVars PROVE RecordInv'
      OBVIOUS
  <1>0. GoodUpdate(active, starting, pending)
      BY InvIsGood
  <1>1. CASE UNCHANGED mgrVars
      BY <1>1 DEF mgrVars, RecordInv, MgrTypeOK, OpenRunHasId, TracksOwnRun, CancelFreezesRun,
                  ClosedRunIsEmpty, OpenRunUndecided, Exists, Drained
  <1>2. ASSUME NEW s \in Slots, AcceptUserMessage(s) PROVE RecordInv'
      BY <1>2, AcceptKeepsInv
  <1>3. ASSUME NEW s \in Slots, RecordPendingWake(s) PROVE RecordInv'
      BY <1>3, QueueKeepsInv
  <1>4. ASSUME NEW s \in Slots, NEW r \in Reservations, ClaimWakeForTurn(s, r) PROVE RecordInv'
      BY <1>4, QueueKeepsInv
  <1>5. ASSUME NEW s \in Slots, RecordEmptyWakeObserved(s) PROVE RecordInv'
    <2> DEFINE p == [pending EXCEPT ![s] = IF @ > 0 THEN @ - 1 ELSE 0]
    <2>1. GoodUpdate(active, starting, p)
      <3>1. p \in [Slots -> 0..MaxWakes]
          BY <1>0, ManagerAssumption DEF GoodUpdate
      <3>2. ASSUME pending = NoWakes PROVE p = NoWakes
          BY <3>2 DEF NoWakes
      <3> QED
          BY <1>0, <3>1, <3>2 DEF GoodUpdate
    <2> HIDE DEF p
    <2>2. CASE Exists /\ MaybeCompleteLocked(active, starting, p)
        BY <2>1, <2>2, MaybeKeepsInv
    <2> QED
        BY <1>1, <1>5, <2>2 DEF RecordEmptyWakeObserved, p
  <1>6. ASSUME NEW r \in Reservations, NEW c \in Child, RecordChildStarted(r, c) PROVE RecordInv'
      BY <1>6, StartedKeepsInv
  <1>7. ASSUME NEW r \in Reservations, RecordChildStartFailed(r) PROVE RecordInv'
    <2>1. GoodUpdate(active, [starting EXCEPT ![r] = NoReservation], pending)
        BY <1>0, DropIsGood
    <2>2. CASE Exists /\ MaybeCancelledLocked(active, [starting EXCEPT ![r] = NoReservation], pending)
        BY <2>1, <2>2, MaybeKeepsInv
    <2>3. CASE Exists /\ Close("failed")
        BY <2>3, CloseKeepsInv
    <2> QED
        BY <1>1, <1>7, <2>2, <2>3 DEF RecordChildStartFailed
  <1>8. ASSUME NEW s \in Slots, NEW t \in Turns, NEW ok \in BOOLEAN,
               RecordChildCompleted(s, t, ok)
        PROVE  RecordInv'
    <2>1. GoodUpdate([active EXCEPT ![s] = NoChild], starting, pending)
        BY <1>0, DropIsGood
    <2>2. CASE Exists /\ MaybeCompleteLocked([active EXCEPT ![s] = NoChild], starting, pending)
        BY <2>1, <2>2, MaybeKeepsInv
    <2>3. CASE Exists /\ Close("failed")
        BY <2>3, CloseKeepsInv
    <2> QED
        BY <1>1, <1>8, <2>2, <2>3 DEF RecordChildCompleted, Tracks
  <1>9. ASSUME MaybeComplete PROVE RecordInv'
      BY <1>0, <1>1, <1>9, MaybeKeepsInv DEF MaybeComplete
  <1>10. ASSUME BeginCancel \/ \E s \in Slots : BeginCancelFor(s) PROVE RecordInv'
      BY <1>10, BeginCancelKeepsInv DEF BeginCancelFor
  <1>11. ASSUME TryCompleteCancelled PROVE RecordInv'
      BY <1>0, <1>1, <1>11, MaybeKeepsInv DEF TryCompleteCancelled
  <1>12. ASSUME CompleteFailed PROVE RecordInv'
      BY <1>1, <1>12, CloseKeepsInv DEF CompleteFailed
  <1>13. ASSUME NEW s \in Slots, NEW r \in Reservations, BeginCancelChildStarting(s, r)
         PROVE  RecordInv'
      BY <1>13, QueueKeepsInv
  <1>14. ASSUME NEW c \in Child, RecordChildCancelled(c) PROVE RecordInv'
    <2>1. c.slot \in Slots
        BY DEF Child
    <2>2. GoodUpdate([active EXCEPT ![c.slot] = NoChild], starting, pending)
        BY <1>0, <2>1, DropIsGood
    <2>3. CASE Exists /\ MaybeCancelledLocked([active EXCEPT ![c.slot] = NoChild], starting, pending)
        BY <2>2, <2>3, MaybeKeepsInv
    <2> QED
        BY <1>1, <1>14, <2>3 DEF RecordChildCancelled
  <1> QED
      BY <1>1, <1>2, <1>3, <1>4, <1>5, <1>6, <1>7, <1>8, <1>9, <1>10, <1>11, <1>12, <1>13, <1>14
      DEF MgrNext

\* Every method announces a run when it closes it, and only then.
LEMMA NextKeepsOutcomes ==
  ASSUME RecordInv, EndedRunsHaveOutcome, [MgrNext]_mgrVars
  PROVE  EndedRunsHaveOutcome'
  <1>1. CASE Exists' = Exists /\ UNCHANGED <<lastRun, outcome>>
      BY <1>1 DEF EndedRunsHaveOutcome
  <1>2. ASSUME Exists, NEW e \in {"completed", "failed", "cancelled"}, Close(e)
        PROVE  EndedRunsHaveOutcome'
    <2>1. /\ ~Exists' /\ lastRun' = lastRun /\ lastRun \in Runs
          /\ outcome' = [outcome EXCEPT ![lastRun] = e]
          /\ outcome \in [Runs -> {"none", "completed", "failed", "cancelled"}]
        BY <1>2 DEF Close, Exists, RecordInv, OpenRunHasId, MgrTypeOK
    <2>2. \A r \in Runs : outcome[r] /= "none" <=> r < lastRun
        BY <1>2 DEF EndedRunsHaveOutcome
    <2> QED
        BY <2>1, <2>2, ManagerAssumption DEF EndedRunsHaveOutcome, Runs
  <1>3. ASSUME NEW s \in Slots, AcceptUserMessage(s) PROVE EndedRunsHaveOutcome'
      BY <1>3, ManagerAssumption
      DEF AcceptUserMessage, Exists, EndedRunsHaveOutcome, RecordInv, MgrTypeOK, Runs
  <1>4. ASSUME NEW a, NEW st, NEW p, Exists, MaybeCompleteLocked(a, st, p) \/ MaybeCancelledLocked(a, st, p)
        PROVE  EndedRunsHaveOutcome'
      BY <1>1, <1>2, <1>4 DEF MaybeCompleteLocked, MaybeCancelledLocked, Keep, Exists
  <1>5. CASE UNCHANGED mgrVars
      BY <1>1, <1>5 DEF mgrVars, Exists
  <1>6. CASE \/ \E s \in Slots : RecordPendingWake(s)
             \/ \E s \in Slots, r \in Reservations : ClaimWakeForTurn(s, r)
             \/ \E s \in Slots, r \in Reservations : BeginCancelChildStarting(s, r)
             \/ BeginCancel \/ \E s \in Slots : BeginCancelFor(s)
      BY <1>1, <1>6 DEF RecordPendingWake, ClaimWakeForTurn, CanClaim, BeginCancelChildStarting,
                        BeginCancelFor, BeginCancel, IsActive, Exists
  <1>7. ASSUME NEW r \in Reservations, NEW c \in Child, RecordChildStarted(r, c)
        PROVE  EndedRunsHaveOutcome'
      BY <1>1, <1>5, <1>7 DEF RecordChildStarted, Exists
  <1>8. ASSUME NEW r \in Reservations, RecordChildStartFailed(r) PROVE EndedRunsHaveOutcome'
      BY <1>2, <1>4, <1>5, <1>8 DEF RecordChildStartFailed
  <1>9. ASSUME NEW s \in Slots, NEW t \in Turns, NEW ok \in BOOLEAN, RecordChildCompleted(s, t, ok)
        PROVE  EndedRunsHaveOutcome'
      BY <1>2, <1>4, <1>5, <1>9 DEF RecordChildCompleted, Tracks
  <1>10. ASSUME NEW s \in Slots, RecordEmptyWakeObserved(s) PROVE EndedRunsHaveOutcome'
      BY <1>4, <1>5, <1>10 DEF RecordEmptyWakeObserved
  <1>11. CASE MaybeComplete \/ TryCompleteCancelled \/ CompleteFailed
      BY <1>2, <1>4, <1>5, <1>11 DEF MaybeComplete, TryCompleteCancelled, CompleteFailed
  <1>12. ASSUME NEW c \in Child, RecordChildCancelled(c) PROVE EndedRunsHaveOutcome'
      BY <1>4, <1>5, <1>12 DEF RecordChildCancelled
  <1> QED
      BY <1>3, <1>5, <1>6, <1>7, <1>8, <1>9, <1>10, <1>11, <1>12 DEF MgrNext

\* Under any sequence of calls of the manager's methods the invariant holds.
THEOREM MgrInvariant == MgrSpec => []MgrInv
  <1>1. MgrInv <=> RecordInv /\ EndedRunsHaveOutcome
      BY DEF MgrInv, RecordInv, EndedRunsHaveOutcome, OpenRunUndecided
  <1>2. MgrInit => MgrInv
      BY <1>1, InitEstablishesInv, ManagerAssumption DEF MgrInit, EndedRunsHaveOutcome, Exists, Runs
  <1>3. MgrInv /\ [MgrNext]_mgrVars => MgrInv'
    <2>1. MgrInv' <=> RecordInv' /\ EndedRunsHaveOutcome'
        BY DEF MgrInv, RecordInv, EndedRunsHaveOutcome, OpenRunUndecided
    <2> QED
        BY <1>1, <2>1, NextKeepsInv, NextKeepsOutcomes
  <1> QED
      BY <1>2, <1>3, PTL DEF MgrSpec

\* The record of the run and its three collections keep their types (the fields of
\* TeamRunRecord, each method writing what the next one expects to read).
THEOREM RecordTypes == MgrSpec => []MgrTypeOK
  <1>1. MgrInv => MgrTypeOK
      BY DEF MgrInv
  <1> QED
      BY <1>1, MgrInvariant, PTL

\* What a run tracks is its own (record_child_started compares run ids).
THEOREM RunsTrackTheirOwn == MgrSpec => []TracksOwnRun
  <1>1. MgrInv => TracksOwnRun
      BY DEF MgrInv
  <1> QED
      BY <1>1, MgrInvariant, PTL

\* No wake and no unmarked reservation survives begin_cancel.
THEOREM CancelIsFinal == MgrSpec => []CancelFreezesRun
  <1>1. MgrInv => CancelFreezesRun
      BY DEF MgrInv
  <1> QED
      BY <1>1, MgrInvariant, PTL

\* Each run that is over was announced, and the open one was not.
THEOREM RunsEndOnce == MgrSpec => []EndedRunsHaveOutcome
  <1>1. MgrInv => EndedRunsHaveOutcome
      BY DEF MgrInv
  <1> QED
      BY <1>1, MgrInvariant, PTL
====
