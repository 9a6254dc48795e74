---- MODULE RunLifecycleProofs ----
(***************************************************************************)
(* The run record implements RunLifecycle.tla: under the mapping Phase and *)
(* Work of TeamRunManager.tla every method is a step of the lifecycle or a *)
(* stutter.  A method either opens a run, changes the work of the open one *)
(* (QuietIsProgress), begins its cancellation, or closes it (CloseMaps);   *)
(* for the closing steps the work left before is at most one item.         *)
(***************************************************************************)
EXTENDS TeamRunManagerProofs

\* The mapped phases of all runs.
PhaseMap == [r \in Runs |-> Phase(r)]

\* The open run has its status for a phase, and no other run is open.
LEMMA PhaseOfOpen ==
  ASSUME MgrInv, Exists
  PROVE  /\ lastRun \in Runs
         /\ PhaseMap[lastRun] = status
         /\ PhaseMap \in [Runs -> {"fresh", "none", "accepted", "running", "cancelling",
                                   "completed", "failed", "cancelled"}]
  BY ManagerAssumption
  DEF MgrInv, MgrTypeOK, OpenRunHasId, PhaseMap, Phase, Exists, Runs

\* The work of the manager is made of items.
LEMMA WorkIsItems == Work \in SUBSET Items
  BY DEF Work, Items

\* The same of the state after a step.
LEMMA WorkIsItemsNext == Work' \in SUBSET Items
  BY DEF Work, Items

\* Nothing tracked, no work.
LEMMA DrainedIsNoWork == Drained(active, starting, pending) => Work = {}
  BY DEF Drained, Work, NoChildren, NoReservations, NoWakes

\* The initial states correspond.
LEMMA InitMaps == MgrInit => Life!LifeInit
  <1> SUFFICES ASSUME MgrInit PROVE Life!LifeInit
      OBVIOUS
  <1>1. Drained(active, starting, pending)
      BY DEF MgrInit, Drained
  <1>2. \A r \in Runs : Phase(r) = "fresh"
      BY ManagerAssumption DEF MgrInit, Phase, Runs
  <1> QED
      BY <1>1, <1>2, DrainedIsNoWork DEF Life!LifeInit

\* Closing the open run with e: its phase becomes e and no work is left.
LEMMA CloseMaps ==
  ASSUME MgrInv, Exists, NEW e, Close(e)
  PROVE  /\ PhaseMap' = [PhaseMap EXCEPT ![lastRun] = e]
         /\ Work' = {}
  <1>1. Work' = {}
      BY DEF Close, Work, NoChildren, NoReservations, NoWakes
  <1>2. lastRun \in Runs /\ lastRun' = lastRun /\ status' = "none"
        /\ outcome' = [outcome EXCEPT ![lastRun] = e]
        /\ outcome \in [Runs -> {"none", "completed", "failed", "cancelled"}]
      BY DEF Close, MgrInv, MgrTypeOK, OpenRunHasId
  <1>3. ASSUME NEW r \in Runs PROVE Phase(r)' = IF r = lastRun THEN e ELSE Phase(r)
      BY <1>2, ManagerAssumption DEF Phase, Exists, Runs
  <1>4. PhaseMap' = [r \in Runs |-> Phase(r)']
      BY DEF PhaseMap
  <1> QED
      BY <1>1, <1>2, <1>3, <1>4 DEF PhaseMap

\* A step that leaves the run open with the status m gives it the phase m.
LEMMA StatusMaps ==
  ASSUME MgrInv, Exists, Exists', lastRun' = lastRun, outcome' = outcome
  PROVE  PhaseMap' = [PhaseMap EXCEPT ![lastRun] = status']
  <1>1. lastRun \in Runs
      BY PhaseOfOpen
  <1>2. ASSUME NEW r \in Runs PROVE Phase(r)' = IF r = lastRun THEN status' ELSE Phase(r)
      BY <1>1, ManagerAssumption DEF Phase, Runs
  <1>3. PhaseMap' = [r \in Runs |-> Phase(r)']
      BY DEF PhaseMap
  <1> QED
      BY <1>1, <1>2, <1>3 DEF PhaseMap

\* A step that keeps the run open and active, or cancelling, is Progress.
LEMMA QuietIsProgress ==
  ASSUME MgrInv, Exists, lastRun' = lastRun, outcome' = outcome,
         status' = status \/ (IsActive /\ status' = "running")
  PROVE  Life!LifeNext
  <1>1. Exists'
      BY DEF Exists
  <1>2. /\ lastRun \in Runs /\ PhaseMap[lastRun] = status
        /\ PhaseMap' = [PhaseMap EXCEPT ![lastRun] = status']
        /\ status \in {"accepted", "running", "cancelling"}
      BY <1>1, PhaseOfOpen, StatusMaps DEF MgrInv, MgrTypeOK, Exists
  <1>3. status' = status => PhaseMap' = PhaseMap
      BY <1>2, PhaseOfOpen
  <1>4. Life!Progress(lastRun)
      BY <1>2, <1>3, WorkIsItemsNext
      DEF Life!Progress, Life!Open, Life!Active, Life!Enter, PhaseMap, IsActive
  <1> QED
      BY <1>2, <1>4 DEF Life!LifeNext

\* accept_user_message opens the next run.
LEMMA AcceptMaps ==
  ASSUME MgrInv, NEW s \in Slots, AcceptUserMessage(s) PROVE Life!LifeNext
  <1>1. /\ lastRun \in 0..MaxRuns /\ lastRun < MaxRuns /\ status = "none"
        /\ lastRun' = lastRun + 1 /\ status' = "accepted" /\ outcome' = outcome
      BY DEF AcceptUserMessage, MgrInv, MgrTypeOK, Exists
  <1>2. lastRun' \in Runs /\ Phase(lastRun') = "fresh"
      BY <1>1, ManagerAssumption DEF Phase, Runs
  <1>3. ASSUME NEW r \in Runs PROVE Phase(r) \notin Life!Open
      BY <1>1, ManagerAssumption
      DEF Phase, Exists, Runs, MgrInv, MgrTypeOK, Life!Open, Life!Active
  <1>4. ASSUME NEW r \in Runs PROVE Phase(r)' = IF r = lastRun' THEN "accepted" ELSE Phase(r)
      BY <1>1, ManagerAssumption DEF Phase, Exists, Runs
  <1>5. PhaseMap' = [PhaseMap EXCEPT ![lastRun'] = "accepted"]
    <2>1. PhaseMap' = [r \in Runs |-> Phase(r)']
        BY DEF PhaseMap
    <2> QED
        BY <1>2, <1>4, <2>1 DEF PhaseMap
  <1>6. Work' = {}
      BY DEF AcceptUserMessage, Work, NoChildren, NoReservations, NoWakes
  <1>7. Life!Accept(lastRun')
      BY <1>2, <1>3, <1>5, <1>6 DEF Life!Accept, Life!NoneOpen, Life!Enter, PhaseMap
  <1> QED
      BY <1>2, <1>7 DEF Life!LifeNext

\* begin_cancel only removes work.
LEMMA BeginCancelMaps ==
  ASSUME MgrInv, BeginCancel PROVE Life!LifeNext
  <1>1. Exists /\ Exists' /\ lastRun' = lastRun /\ outcome' = outcome /\ status' = "cancelling"
      BY DEF BeginCancel, IsActive, Exists
  <1>2. /\ lastRun \in Runs /\ PhaseMap[lastRun] = status
        /\ PhaseMap' = [PhaseMap EXCEPT ![lastRun] = "cancelling"]
      BY <1>1, PhaseOfOpen, StatusMaps
  <1>3. Work' \in SUBSET Work
    <2>1. \A r \in Reservations : starting'[r] /= NoReservation => starting[r] /= NoReservation
        BY DEF BeginCancel
    <2>2. active' = active /\ \A s \in Slots : ~(pending'[s] > 0)
        BY DEF BeginCancel, NoWakes
    <2> QED
        BY <2>1, <2>2 DEF Work
  <1>4. Life!BeginCancel(lastRun)
      BY <1>2, <1>3 DEF Life!BeginCancel, Life!Active, Life!Enter, PhaseMap, BeginCancel, IsActive
  <1> QED
      BY <1>2, <1>4 DEF Life!LifeNext

\* The run fails.
LEMMA FailMaps ==
  ASSUME MgrInv, Exists, Close("failed") PROVE Life!LifeNext
  <1>1. lastRun \in Runs /\ PhaseMap[lastRun] = status
        /\ status \in {"accepted", "running", "cancelling"}
      BY PhaseOfOpen DEF MgrInv, MgrTypeOK, Exists
  <1>2. PhaseMap' = [PhaseMap EXCEPT ![lastRun] = "failed"] /\ Work' = {}
      BY CloseMaps
  <1>3. Life!Fail(lastRun)
      BY <1>1, <1>2 DEF Life!Fail, Life!Open, Life!Active, Life!Enter, PhaseMap
  <1> QED
      BY <1>1, <1>3 DEF Life!LifeNext

\* At most the item i is outstanding.
AtMost(i) == i \in Items /\ Work \subseteq {i}

\* maybe_complete_locked and maybe_cancelled_locked, called when at most one item
\* will go away, end the run by retiring its last item or keep it open.
LEMMA MaybeMaps ==
  ASSUME MgrInv, Exists, NEW a, NEW st, NEW p,
         MaybeCompleteLocked(a, st, p) \/ MaybeCancelledLocked(a, st, p),
         Drained(a, st, p) => \E i : AtMost(i)
  PROVE  Life!LifeNext
  <1>1. CASE Keep(a, st, p)
      BY <1>1, QuietIsProgress DEF Keep
  <1>2. lastRun \in Runs /\ PhaseMap[lastRun] = status
      BY PhaseOfOpen
  <1>3. CASE Drained(a, st, p) /\ IsActive /\ Close("completed")
    <2>1. PhaseMap' = [PhaseMap EXCEPT ![lastRun] = "completed"] /\ Work' = {}
        BY <1>3, CloseMaps
    <2>2. Life!RetiresLast
        BY <1>3, <2>1 DEF Life!RetiresLast, AtMost
    <2>3. Life!Complete(lastRun)
        BY <1>2, <1>3, <2>1, <2>2 DEF Life!Complete, Life!Active, Life!Enter, PhaseMap, IsActive
    <2> QED
        BY <1>2, <2>3 DEF Life!LifeNext
  <1>4. CASE status = "cancelling" /\ Drained(a, st, p) /\ Close("cancelled")
    <2>1. PhaseMap' = [PhaseMap EXCEPT ![lastRun] = "cancelled"] /\ Work' = {}
        BY <1>4, CloseMaps
    <2>2. Life!RetiresLast
        BY <1>4, <2>1 DEF Life!RetiresLast, AtMost
    <2>3. Life!Cancelled(lastRun)
        BY <1>2, <1>4, <2>1, <2>2 DEF Life!Cancelled, Life!Enter, PhaseMap
    <2> QED
        BY <1>2, <2>3 DEF Life!LifeNext
  <1> QED
      BY <1>1, <1>3, <1>4 DEF MaybeCompleteLocked, MaybeCancelledLocked

\* Which item a method retires: a wake, a child, a reservation, or none.
LEMMA RetiresWake ==
  ASSUME MgrInv, NEW s \in Slots,
         Drained(active, starting, [pending EXCEPT ![s] = IF @ > 0 THEN @ - 1 ELSE 0])
  PROVE  AtMost(<<"pending", s>>)
  <1>1. active = NoChildren /\ starting = NoReservations
      BY DEF Drained
  <1>2. \A x \in Slots \ {s} : ~(pending[x] > 0)
      BY DEF Drained, NoWakes, MgrInv, MgrTypeOK
  <1> QED
      BY <1>1, <1>2 DEF AtMost, Items, Work, NoChildren, NoReservations

\* A completion test that passes once the child of s is gone retires that child last.
LEMMA RetiresChild ==
  ASSUME MgrInv, NEW s \in Slots, Drained([active EXCEPT ![s] = NoChild], starting, pending)
  PROVE  AtMost(<<"active", s>>)
  <1>1. pending = NoWakes /\ starting = NoReservations
      BY DEF Drained
  <1>2. \A x \in Slots \ {s} : active[x] = NoChild
      BY DEF Drained, NoChildren, MgrInv, MgrTypeOK
  <1> QED
      BY <1>1, <1>2 DEF AtMost, Items, Work, NoWakes, NoReservations

\* The same for the reservation r.
LEMMA RetiresReservation ==
  ASSUME MgrInv, NEW r \in Reservations,
         Drained(active, [starting EXCEPT ![r] = NoReservation], pending)
  PROVE  AtMost(<<"starting", r>>)
  <1>1. pending = NoWakes /\ active = NoChildren
      BY DEF Drained
  <1>2. \A x \in Reservations \ {r} : starting[x] = NoReservation
      BY DEF Drained, NoReservations, MgrInv, MgrTypeOK
  <1> QED
      BY <1>1, <1>2 DEF AtMost, Items, Work, NoWakes, NoChildren

\* A completion test that passes as things stand retires nothing: there was no work.
LEMMA RetiresNothing ==
  ASSUME MgrInv, Drained(active, starting, pending)
  PROVE  AtMost(<<"active", target>>)
  BY DrainedIsNoWork DEF AtMost, Items, MgrInv, MgrTypeOK

\* Every step of the manager is a step of the lifecycle or a stutter.
LEMMA NextMaps ==
  ASSUME MgrInv, [MgrNext]_mgrVars
  PROVE  Life!LifeNext \/ (PhaseMap' = PhaseMap /\ Work' = Work)
  <1> DEFINE Goal == Life!LifeNext \/ (PhaseMap' = PhaseMap /\ Work' = Work)
  <1>1. CASE UNCHANGED mgrVars
      BY <1>1 DEF mgrVars, PhaseMap, Phase, Exists, Work
  <1>2. ASSUME NEW s \in Slots, AcceptUserMessage(s) PROVE Goal
      BY <1>2, AcceptMaps
  <1>3. ASSUME NEW s \in Slots,
               \/ RecordPendingWake(s)
               \/ \E r \in Reservations : ClaimWakeForTurn(s, r)
               \/ \E r \in Reservations : BeginCancelChildStarting(s, r)
        PROVE  Goal
    <2>1. Exists /\ lastRun' = lastRun /\ outcome' = outcome /\ status' = status
        BY <1>3 DEF RecordPendingWake, ClaimWakeForTurn, CanClaim, BeginCancelChildStarting,
                    IsActive, Exists
    <2> QED
        BY <2>1, QuietIsProgress
  <1>4. ASSUME NEW s \in Slots, RecordEmptyWakeObserved(s) PROVE Goal
    <2> DEFINE p == [pending EXCEPT ![s] = IF @ > 0 THEN @ - 1 ELSE 0]
    <2>1. Drained(active, starting, p) => \E i : AtMost(i)
        BY RetiresWake
    <2> HIDE DEF p
    <2>2. CASE Exists /\ MaybeCompleteLocked(active, starting, p)
        BY <2>1, <2>2, MaybeMaps
    <2> QED
        BY <1>1, <1>4, <2>2 DEF RecordEmptyWakeObserved, p
  <1>5. ASSUME NEW r \in Reservations, NEW c \in Child, RecordChildStarted(r, c) PROVE Goal
    <2>1. CASE /\ Exists /\ lastRun' = lastRun /\ outcome' = outcome
               /\ status' = status \/ (IsActive /\ status' = "running")
        BY <2>1, QuietIsProgress
    <2>2. ChildStartDecision(r, c) = "accepted" => IsActive
        BY DEF ChildStartDecision, IsActive, Exists, MgrInv, MgrTypeOK
    <2> QED
        BY <1>1, <1>5, <2>1, <2>2 DEF RecordChildStarted
  <1>6. ASSUME NEW r \in Reservations, RecordChildStartFailed(r) PROVE Goal
    <2>1. CASE Exists /\ MaybeCancelledLocked(active, [starting EXCEPT ![r] = NoReservation], pending)
        BY <2>1, RetiresReservation, MaybeMaps
    <2>2. CASE Exists /\ Close("failed")
        BY <2>2, FailMaps
    <2> QED
        BY <1>1, <1>6, <2>1, <2>2 DEF RecordChildStartFailed
  <1>7. ASSUME NEW s \in Slots, NEW t \in Turns, NEW ok \in BOOLEAN,
               RecordChildCompleted(s, t, ok)
        PROVE  Goal
    <2>1. CASE Exists /\ MaybeCompleteLocked([active EXCEPT ![s] = NoChild], starting, pending)
        BY <2>1, RetiresChild, MaybeMaps
    <2>2. CASE Exists /\ Close("failed")
        BY <2>2, FailMaps
    <2> QED
        BY <1>1, <1>7, <2>1, <2>2 DEF RecordChildCompleted, Tracks
  <1>8. ASSUME MaybeComplete \/ TryCompleteCancelled PROVE Goal
    <2>1. CASE Exists /\ (\/ MaybeCompleteLocked(active, starting, pending)
                          \/ MaybeCancelledLocked(active, starting, pending))
        BY <2>1, RetiresNothing, MaybeMaps
    <2> QED
        BY <1>1, <1>8, <2>1 DEF MaybeComplete, TryCompleteCancelled
  <1>9. ASSUME BeginCancel \/ \E s \in Slots : BeginCancelFor(s) PROVE Goal
      BY <1>9, BeginCancelMaps DEF BeginCancelFor
  <1>10. ASSUME CompleteFailed PROVE Goal
      BY <1>1, <1>10, FailMaps DEF CompleteFailed
  <1>11. ASSUME NEW c \in Child, RecordChildCancelled(c) PROVE Goal
    <2>1. c.slot \in Slots
        BY DEF Child
    <2>2. CASE Exists /\ MaybeCancelledLocked([active EXCEPT ![c.slot] = NoChild], starting, pending)
        BY <2>1, <2>2, RetiresChild, MaybeMaps
    <2> QED
        BY <1>1, <1>11, <2>2 DEF RecordChildCancelled
  <1> QED
      BY <1>1, <1>2, <1>3, <1>4, <1>5, <1>6, <1>7, <1>8, <1>9, <1>10, <1>11 DEF MgrNext

\* The manager, under any client, implements the run lifecycle: one terminal
\* event for each run, and none but "failed" while work is outstanding.
THEOREM ManagerImplementsLifecycle == MgrSpec => ImplementsRunLifecycle
  <1>1. MgrInit => Life!LifeInit
      BY InitMaps
  <1>2. MgrInv /\ [MgrNext]_mgrVars => [Life!LifeNext]_(Life!lifeVars)
    <2> SUFFICES ASSUME MgrInv, [MgrNext]_mgrVars
                 PROVE  Life!LifeNext \/ UNCHANGED Life!lifeVars
        OBVIOUS
    <2>1. Life!LifeNext \/ (PhaseMap' = PhaseMap /\ Work' = Work)
        BY NextMaps
    <2> QED
        BY <2>1 DEF Life!lifeVars, PhaseMap
  <1> QED
      BY <1>1, <1>2, MgrInvariant, PTL DEF MgrSpec, ImplementsRunLifecycle, Life!LifeSpec
====
