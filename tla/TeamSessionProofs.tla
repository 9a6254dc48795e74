---- MODULE TeamSessionProofs ----
(***************************************************************************)
(* Proofs about the team session of TeamSession.tla, for any slots,        *)
(* requests and bounds.                                                    *)
(***************************************************************************)
EXTENDS TeamSession, RunLifecycleProofs, FiniteSetTheorems

----------------------------------------------------------------------------
\* The least of a nonempty set of ids (of rows, of turns) is one of them.
LEMMA LeastIsIn ==
  ASSUME NEW n \in Nat, NEW S \in SUBSET (1..n), S /= {}
  PROVE  Least(S) \in S
  <1> DEFINE Below == {1..x : x \in S}
  <1>1. IsWellFoundedOn(StrictSubsetOrdering(1..n), SUBSET (1..n))
    <2>1. IsFiniteSet(1..n)
        BY FS_Interval
    <2>2. FiniteSubsetsOf(1..n) = SUBSET (1..n)
        BY <2>1, FS_FiniteSubsetsOfFinite
    <2> QED
        BY <2>2, FS_StrictSubsetOrderingWellFounded, Zenon
  <1>2. Below \subseteq SUBSET (1..n) /\ Below /= {}
    <2>1. \A x \in S : 1..x \subseteq 1..n
        OBVIOUS
    <2> QED
        BY <2>1, Zenon
  <1>3. PICK b \in Below : \A c \in Below : ~(<<c, b>> \in StrictSubsetOrdering(1..n))
    <2> HIDE DEF Below
    <2> QED
        BY <1>1, <1>2, WFMin
  <1>4. PICK x \in S : b = 1..x
      OBVIOUS
  <1>5. ASSUME NEW y \in S PROVE x <= y
    <2>1. x \in 1..n /\ y \in 1..n
        OBVIOUS
    <2>2. 1..y \in Below
        OBVIOUS
    <2> HIDE DEF Below
    <2>3. <<1..y, 1..x>> \notin StrictSubsetOrdering(1..n)
        BY <1>3, <1>4, <2>2
    <2>4. 1..y \in SUBSET (1..n) /\ 1..x \in SUBSET (1..n)
        BY <2>1
    <2>5. ~(1..y \subseteq 1..x /\ 1..y /= 1..x)
        BY <2>3, <2>4 DEF StrictSubsetOrdering
    <2>6. y < x => 1..y \subseteq 1..x /\ x \in 1..x /\ x \notin 1..y
        BY <2>1
    <2> QED
        BY <2>1, <2>5, <2>6
  <1> QED
      BY <1>5 DEF Least

\* The types of everything but the run record.
SessionTypes ==
    /\ loop \in [Slots -> Loop]
    /\ permit \in [Slots -> BOOLEAN]
    /\ member \in [Slots -> {"idle", "working", "error"}]
    /\ unread \in [Slots -> SUBSET Rows]
    /\ DOMAIN req = Requests /\ \A q \in Requests : req[q] \in Request
    /\ sent \in [Slots -> SUBSET Rows]
    /\ restore \subseteq Slots
    /\ restarts \in 0..MaxRestarts
    /\ faults \in 0..MaxFaults

\* A new row has an id that nothing refers to (mailbox.write).
LEMMA WriteRowTypes ==
  ASSUME NEW s \in Slots, unread \in [Slots -> SUBSET Rows], WriteRow(s)
  PROVE  /\ unread' \in [Slots -> SUBSET Rows]
         /\ \A x \in Slots : unread[x] \subseteq unread'[x]
  <1>1. Rows \ RowsInUse(s) \in SUBSET (1..MaxRows)
      BY DEF Rows
  <1>2. Least(Rows \ RowsInUse(s)) \in Rows
      BY <1>1, LeastIsIn, SessionAssumption DEF WriteRow
  <1> QED
      BY <1>2 DEF WriteRow

\* A turn of slot s gets an id that no tracked or listed child of s has (mint_turn_id).
LEMMA NewTurnIsNew ==
  ASSUME NEW s \in Slots, Turns \ TurnsInUse(s) /= {}
  PROVE  NewTurn(s) \in Turns /\ NewTurn(s) \notin TurnsInUse(s)
  <1>1. Turns \ TurnsInUse(s) \in SUBSET (1..MaxTurns)
      BY DEF Turns
  <1> QED
      BY <1>1, LeastIsIn, ManagerAssumption DEF NewTurn

----------------------------------------------------------------------------
\* Steps of the event loops.

\* The loop of s moves from its locals to r.
Moves(s, r) ==
    /\ r \in Loop
    /\ loop' \in [Slots -> Loop]
    /\ loop'[s] = r
    /\ \A x \in Slots \ {s} : loop'[x] = loop[x]

\* The locals of a loop at l, in and out of scope (Goto, Restarting).
LEMMA LocalsTypes ==
  ASSUME NEW l \in LoopPcs
  PROVE  /\ LoopAt(l) \in Loop
         /\ \A k \in Loop : [k EXCEPT !.pc = l] \in Loop
  BY ManagerAssumption DEF LoopAt, Loop

\* The loop goes to another statement with its locals.
LEMMA GotoMoves ==
  ASSUME NEW s \in Slots, loop \in [Slots -> Loop], NEW l \in LoopPcs, Goto(s, l)
  PROVE  Moves(s, [loop[s] EXCEPT !.pc = l])
  <1>1. loop' = [loop EXCEPT ![s] = [loop[s] EXCEPT !.pc = l]]
      BY DEF Goto
  <1>2. [loop[s] EXCEPT !.pc = l] \in Loop
      BY LocalsTypes
  <1> QED
      BY <1>1, <1>2 DEF Moves

\* It goes there without them: they are out of scope.
LEMMA RestartingMoves ==
  ASSUME NEW s \in Slots, loop \in [Slots -> Loop], NEW l \in LoopPcs, Restarting(s, l)
  PROVE  Moves(s, LoopAt(l))
  BY LocalsTypes DEF Restarting, Moves

\* The mailbox is read, and its rows are what the turn will deliver.
LEMMA PeeksMoves ==
  ASSUME NEW s \in Slots, SessionTypes, Peeks(s)
  PROVE  Moves(s, [loop[s] EXCEPT !.peeked = unread[s],
                                  !.pc = IF unread[s] = {} THEN "empty" ELSE "plan"])
  <1> DEFINE l == IF unread[s] = {} THEN "empty" ELSE "plan"
             r == [loop[s] EXCEPT !.peeked = unread[s], !.pc = l]
  <1>1. l \in LoopPcs
      BY DEF LoopPcs
  <1> HIDE DEF l
  <1>2. r \in Loop
    <2>1. loop[s] \in Loop /\ unread[s] \in SUBSET Rows
        BY DEF SessionTypes
    <2> QED
        BY <1>1, <2>1 DEF Loop
  <1>3. loop' = [loop EXCEPT ![s] = r]
      BY DEF Peeks, SessionTypes, Loop, l
  <1> QED
      BY <1>2, <1>3 DEF SessionTypes, Moves, l

\* The run of the turn is the one active now, if any.
LEMMA PlansMoves ==
  ASSUME NEW s \in Slots, SessionTypes, MgrTypeOK, Plans(s)
  PROVE  Moves(s, [loop[s] EXCEPT !.run = IF IsActive THEN lastRun ELSE 0,
                                  !.pc = IF IsActive THEN "claim" ELSE "work"])
  <1> DEFINE l == IF IsActive THEN "claim" ELSE "work"
             n == IF IsActive THEN lastRun ELSE 0
             r == [loop[s] EXCEPT !.run = n, !.pc = l]
  <1>1. l \in LoopPcs /\ n \in 0..MaxRuns
      BY ManagerAssumption DEF LoopPcs, MgrTypeOK
  <1>2. loop' = [loop EXCEPT ![s] = r]
      BY DEF Plans, SessionTypes, Loop
  <1> HIDE DEF l, n
  <1>3. r \in Loop
    <2>1. loop[s] \in Loop
        BY DEF SessionTypes
    <2> QED
        BY <1>1, <2>1 DEF Loop
  <1>4. Moves(s, r)
      BY <1>2, <1>3 DEF SessionTypes, Moves
  <1> QED
      BY <1>4 DEF l, n

\* The claim says which run the turn was taken for.
LEMMA ClaimsMoves ==
  ASSUME NEW s \in Slots, SessionTypes, MgrTypeOK, Claims(s)
  PROVE  Moves(s, [loop[s] EXCEPT !.claim = lastRun, !.pc = "work"])
  <1> DEFINE r == [loop[s] EXCEPT !.claim = lastRun, !.pc = "work"]
  <1>1. loop' = [loop EXCEPT ![s] = r]
      BY DEF Claims, SessionTypes, Loop
  <1>2. "work" \in LoopPcs /\ lastRun \in 0..MaxRuns
      BY DEF LoopPcs, MgrTypeOK
  <1>3. r \in Loop
    <2>1. loop[s] \in Loop
        BY DEF SessionTypes
    <2> QED
        BY <1>2, <2>1 DEF Loop
  <1> QED
      BY <1>1, <1>3 DEF SessionTypes, Moves

\* The turn port refuses: no turn began.
LEMMA PortRefusesMoves ==
  ASSUME NEW s \in Slots, SessionTypes, PortRefusesTurn(s)
  PROVE  Moves(s, [LoopAt("markError") EXCEPT !.result = "refused"])
  <1>1. LoopAt("markError") \in Loop
      BY LocalsTypes DEF LoopPcs
  <1>2. [LoopAt("markError") EXCEPT !.result = "refused"] \in Loop
      BY <1>1 DEF Loop
  <1> QED
      BY <1>2 DEF PortRefusesTurn, SessionTypes, Moves

\* The pc after the start callback.
AfterStart(s) ==
    IF Tracked(s) /\ ChildStartDecision(s, ChildOf(s, NewTurn(s))) = "cancelImmediately"
    THEN "lateCancel" ELSE "running"

\* The turn port accepts: the turn has a new id.
LEMMA PortStartsMoves ==
  ASSUME NEW s \in Slots, SessionTypes, PortStartsTurn(s)
  PROVE  Moves(s, [loop[s] EXCEPT !.turn = NewTurn(s), !.pc = AfterStart(s)])
  <1>1. NewTurn(s) \in 0..MaxTurns
      BY NewTurnIsNew, ManagerAssumption DEF PortStartsTurn, Turns
  <1>2. loop' = [loop EXCEPT ![s] = [loop[s] EXCEPT !.turn = NewTurn(s), !.pc = AfterStart(s)]]
    <2>1. ChildOf(s, NewTurn(s)).turn = NewTurn(s)
        BY DEF ChildOf
    <2> QED
        BY <2>1 DEF PortStartsTurn, AfterStart, SessionTypes, Loop
  <1>3. AfterStart(s) \in LoopPcs
      BY DEF AfterStart, LoopPcs
  <1>4. [loop[s] EXCEPT !.turn = NewTurn(s), !.pc = AfterStart(s)] \in Loop
    <2>1. loop[s] \in Loop
        BY DEF SessionTypes
    <2> QED
        BY <1>1, <1>3, <2>1 DEF Loop
  <1> QED
      BY <1>2, <1>4 DEF SessionTypes, Moves

\* A turn that started after its run was cancelled is asked to end.
LEMMA LateStartCancelsMoves ==
  ASSUME NEW s \in Slots, SessionTypes, LateStartCancels(s)
  PROVE  Moves(s, [loop[s] EXCEPT !.asked = TRUE, !.pc = "lateRecord"])
  <1>1. loop' = [loop EXCEPT ![s] = [loop[s] EXCEPT !.asked = TRUE, !.pc = "lateRecord"]]
      BY DEF LateStartCancels, SessionTypes, Loop
  <1>2. "lateRecord" \in LoopPcs
      BY DEF LoopPcs
  <1>3. [loop[s] EXCEPT !.asked = TRUE, !.pc = "lateRecord"] \in Loop
    <2>1. loop[s] \in Loop
        BY DEF SessionTypes
    <2> QED
        BY <1>2, <2>1 DEF Loop
  <1> QED
      BY <1>1, <1>3 DEF SessionTypes, Moves

\* The turn ends well or badly, and its rows are out of scope.
LEMMA TurnEndsMoves ==
  ASSUME NEW s \in Slots, SessionTypes, TurnEnds(s)
  PROVE  \E r \in {"ok", "failed"} :
            Moves(s, [loop[s] EXCEPT !.result = r, !.peeked = {}, !.asked = FALSE,
                                     !.pc = IF r = "ok" THEN "markIdle" ELSE "markError"])
  <1>1. PICK r \in {"ok", "failed"} :
            loop' = [loop EXCEPT ![s].result = r, ![s].peeked = {}, ![s].asked = FALSE,
                                 ![s].pc = IF r = "ok" THEN "markIdle" ELSE "markError"]
      BY DEF TurnEnds
  <1> DEFINE l == IF r = "ok" THEN "markIdle" ELSE "markError"
             k == [loop[s] EXCEPT !.result = r, !.peeked = {}, !.asked = FALSE, !.pc = l]
  <1>2. loop' = [loop EXCEPT ![s] = k]
      BY <1>1 DEF SessionTypes, Loop
  <1>3. l \in LoopPcs
      BY DEF LoopPcs
  <1> HIDE DEF l
  <1>4. k \in Loop
    <2>1. loop[s] \in Loop
        BY DEF SessionTypes
    <2> QED
        BY <1>3, <2>1 DEF Loop
  <1>5. Moves(s, k)
      BY <1>2, <1>4 DEF SessionTypes, Moves
  <1> QED
      BY <1>5 DEF l

----------------------------------------------------------------------------
\* Steps of the requests.

\* What a request at any point of its way can rely on: a cancel_run stays one until it
\* lists the children, it has listed one child for each slot, and a cancel_child_turn
\* has one child in all.
Orderly(r) ==
    /\ r.pc = "new" => r.kids = {}
    /\ r.pc \in {"begin", "peek", "mark", "list"} => r.kind = "runCancel"
    /\ \A c, d \in r.kids : c.slot = d.slot => c = d
    /\ r.kind = "childCancel" => \A c, d \in r.kids : c = d
    /\ r.kind = "childCancel" /\ r.pc = "record" => \A c \in r.kids : c.slot = r.at

\* Request q goes on as r, and the others stay.
Proceeds(q, r) ==
    /\ r \in Request
    /\ Orderly(r)
    /\ req'[q] = r
    /\ DOMAIN req' = DOMAIN req
    /\ \A p \in Requests \ {q} : req'[p] = req[p]

\* A request that begins, or is over, holds nothing.
LEMMA RequestAtTypes ==
  ASSUME NEW l \in RequestPcs, NEW k \in Kinds
  PROVE  RequestAt(l) \in Request /\ [RequestAt(l) EXCEPT !.kind = k] \in Request
  <1>1. Nothing \in [Slots -> SUBSET Rows]
      BY DEF Nothing
  <1> QED
      BY <1>1, ManagerAssumption, SessionAssumption DEF RequestAt, Request, Kinds

\* A request that becomes another proceeds, and no other does.
LEMMA BecomesProceeds ==
  ASSUME SessionTypes, NEW q \in Requests, NEW r \in Request, Orderly(r), Becomes(q, r)
  PROVE  Proceeds(q, r)
  BY DEF SessionTypes, Becomes, Proceeds

\* Request q goes on, and not to the recording of a cancelled child.
Passes(q) == \E r \in Request : Proceeds(q, r) /\ r.pc /= "record"

\* A request that ends, or turns into one without children.
LEMMA EndsPasses ==
  ASSUME SessionTypes, NEW q \in Requests,
         NEW l \in RequestPcs \ {"begin", "peek", "mark", "list", "record"}
  PROVE  /\ Ends(q, l) => Passes(q)
         /\ Becomes(q, Forgets(q, l)) => Passes(q)
         /\ \A k \in Kinds : Becomes(q, [RequestAt(l) EXCEPT !.kind = k]) => Passes(q)
  <1>1. ASSUME NEW k \in Kinds, Becomes(q, [RequestAt(l) EXCEPT !.kind = k])
        PROVE  Passes(q)
    <2> DEFINE r == [RequestAt(l) EXCEPT !.kind = k]
    <2>1. r \in Request
        BY RequestAtTypes
    <2>2. Orderly(r) /\ r.pc = l
        BY DEF RequestAt, Orderly
    <2> HIDE DEF r
    <2> QED
        BY <1>1, <2>1, <2>2, BecomesProceeds DEF Passes, r
  <1>2. Ends(q, l) => Becomes(q, [RequestAt(l) EXCEPT !.kind = "none"])
      BY DEF Ends, RequestAt
  <1>3. req[q].kind \in Kinds /\ "none" \in Kinds
      BY DEF SessionTypes, Request, Kinds
  <1> QED
      BY <1>1, <1>2, <1>3 DEF Forgets

\* send_message: the message of the user is taken,
LEMMA UserAcceptsPasses ==
  ASSUME SessionTypes, NEW q \in Requests, NEW s \in Slots, Orderly(req[q]), UserAccepts(q, s)
  PROVE  Passes(q)
  <1> DEFINE r == [req[q] EXCEPT !.kind = "userSend", !.pc = "write", !.to = {s}, !.left = {s}]
  <1>1. "write" \in RequestPcs /\ "userSend" \in Kinds
      BY DEF RequestPcs, Kinds
  <1>2. r \in Request /\ r.pc = "write" /\ r.kind = "userSend" /\ r.kids = req[q].kids
      BY <1>1 DEF SessionTypes, Request
  <1>3. Becomes(q, r)
      BY DEF UserAccepts
  <1> HIDE DEF r
  <1> QED
      BY <1>2, <1>3, BecomesProceeds DEF Orderly, Passes

\* or the message of a tool, to its recipients.
LEMMA ToolAcceptsPasses ==
  ASSUME SessionTypes, NEW q \in Requests, NEW s \in Slots, NEW to \in SUBSET Slots,
         Orderly(req[q]), ToolAccepts(q, s, to)
  PROVE  Passes(q)
  <1> DEFINE l == IF to = {s} THEN "wake" ELSE "write"
             r == [req[q] EXCEPT !.kind = "toolSend", !.to = to, !.left = to, !.pc = l]
  <1>1. Becomes(q, r)
      BY DEF ToolAccepts
  <1>2. l \in RequestPcs /\ l \in {"wake", "write"} /\ "toolSend" \in Kinds
      BY DEF RequestPcs, Kinds
  <1> HIDE DEF l
  <1>3. r \in Request /\ r.pc = l /\ r.kind = "toolSend" /\ r.kids = req[q].kids
      BY <1>2 DEF SessionTypes, Request
  <1> HIDE DEF r
  <1> QED
      BY <1>1, <1>2, <1>3, BecomesProceeds DEF Orderly, Passes, ToolAccepts, ReqAt

\* One row after the other is written,
LEMMA WritesRowPasses ==
  ASSUME SessionTypes, NEW q \in Requests, NEW s \in Slots, Orderly(req[q]), WritesRow(q, s)
  PROVE  Passes(q)
  <1>1. CASE req[q].left = {s}
    <2> DEFINE r == [req[q] EXCEPT !.pc = "wake", !.left = req[q].to]
    <2>1. "wake" \in RequestPcs
        BY DEF RequestPcs
    <2>2. r \in Request /\ r.pc = "wake" /\ r.kind = req[q].kind /\ r.kids = req[q].kids
        BY <2>1 DEF SessionTypes, Request
    <2>3. Becomes(q, r)
        BY <1>1 DEF WritesRow
    <2> HIDE DEF r
    <2> QED
        BY <2>2, <2>3, BecomesProceeds DEF Orderly, Passes
  <1>2. CASE req[q].left /= {s}
    <2> DEFINE r == [req[q] EXCEPT !.left = @ \ {s}]
    <2>1. r \in Request /\ r.pc = req[q].pc /\ r.kind = req[q].kind /\ r.kids = req[q].kids
        BY DEF SessionTypes, Request
    <2>2. Becomes(q, r) /\ req[q].pc = "write"
        BY <1>2 DEF WritesRow, ReqAt
    <2> HIDE DEF r
    <2> QED
        BY <2>1, <2>2, BecomesProceeds DEF Orderly, Passes
  <1> QED
      BY <1>1, <1>2

\* one wake after the other reserved,
LEMMA ReservesWakePasses ==
  ASSUME SessionTypes, NEW q \in Requests, NEW s \in Slots, Orderly(req[q]), ReservesWake(q, s)
  PROVE  Passes(q)
  <1> DEFINE r == [req[q] EXCEPT !.pc = "notify", !.at = s]
  <1>1. "notify" \in RequestPcs
      BY DEF RequestPcs
  <1>2. r \in Request /\ r.pc = "notify" /\ r.kind = req[q].kind /\ r.kids = req[q].kids
      BY <1>1 DEF SessionTypes, Request
  <1>3. Becomes(q, r)
      BY DEF ReservesWake
  <1> HIDE DEF r
  <1> QED
      BY <1>2, <1>3, BecomesProceeds DEF Orderly, Passes

\* and one loop after the other notified.
LEMMA NotifiesPasses ==
  ASSUME SessionTypes, NEW q \in Requests, Orderly(req[q]), Notifies(q)
  PROVE  Passes(q)
  <1>1. CASE req[q].left /= {req[q].at}
    <2> DEFINE r == [req[q] EXCEPT !.pc = "wake", !.left = @ \ {req[q].at}]
    <2>1. "wake" \in RequestPcs
        BY DEF RequestPcs
    <2>2. r \in Request /\ r.pc = "wake" /\ r.kind = req[q].kind /\ r.kids = req[q].kids
        BY <2>1 DEF SessionTypes, Request
    <2>3. Becomes(q, r)
        BY <1>1 DEF Notifies
    <2> HIDE DEF r
    <2> QED
        BY <2>2, <2>3, BecomesProceeds DEF Orderly, Passes
  <1>2. CASE req[q].left = {req[q].at} /\ Is(q, "childCancel") /\ req[q].kids = {}
    <2> DEFINE r == [req[q] EXCEPT !.pc = "settle"]
    <2>1. "settle" \in RequestPcs
        BY DEF RequestPcs
    <2>2. r \in Request /\ r.pc = "settle" /\ r.kids = req[q].kids
        BY <2>1 DEF SessionTypes, Request
    <2>3. Becomes(q, r)
        BY <1>2 DEF Notifies, ReqGoto
    <2> HIDE DEF r
    <2> QED
        BY <1>2, <2>2, <2>3, BecomesProceeds DEF Orderly, Passes
  <1>3. CASE req[q].left = {req[q].at} /\ ~(Is(q, "childCancel") /\ req[q].kids = {})
    <2>1. Ends(q, "done")
        BY <1>3 DEF Notifies
    <2> QED
        BY <2>1, EndsPasses DEF RequestPcs
  <1> QED
      BY <1>1, <1>2, <1>3

\* cancel_run: the run id is checked,
LEMMA CancelChecksPasses ==
  ASSUME SessionTypes, MgrTypeOK, NEW q \in Requests, Orderly(req[q]), CancelChecks(q)
  PROVE  Passes(q)
  <1> DEFINE r == [req[q] EXCEPT !.kind = "runCancel", !.pc = "begin", !.run = lastRun]
  <1>1. "begin" \in RequestPcs /\ "runCancel" \in Kinds
      BY DEF RequestPcs, Kinds
  <1>2. r \in Request /\ r.pc = "begin" /\ r.kind = "runCancel" /\ r.kids = req[q].kids
    <2>1. req[q] \in Request /\ lastRun \in 0..MaxRuns
        BY DEF SessionTypes, MgrTypeOK
    <2> QED
        BY <1>1, <2>1 DEF Request
  <1>3. Becomes(q, r)
      BY DEF CancelChecks
  <1> HIDE DEF r
  <1> QED
      BY <1>2, <1>3, BecomesProceeds DEF Orderly, Passes

\* the cancellation begins,
LEMMA CancelBeginsPasses ==
  ASSUME SessionTypes, NEW q \in Requests, Orderly(req[q]), CancelBegins(q)
  PROVE  Passes(q)
  <1>1. CASE Becomes(q, [req[q] EXCEPT !.pc = "peek", !.left = Slots])
    <2> DEFINE r == [req[q] EXCEPT !.pc = "peek", !.left = Slots]
    <2>1. "peek" \in RequestPcs
        BY DEF RequestPcs
    <2>2. r \in Request /\ r.pc = "peek" /\ r.kind = req[q].kind /\ r.kids = req[q].kids
        BY <2>1 DEF SessionTypes, Request
    <2>3. req[q].pc = "begin"
        BY DEF CancelBegins, ReqAt
    <2> HIDE DEF r
    <2> QED
        BY <1>1, <2>2, <2>3, BecomesProceeds DEF Orderly, Passes, r
  <1>2. CASE Ends(q, "refused")
      BY <1>2, EndsPasses DEF RequestPcs
  <1> QED
      BY <1>1, <1>2 DEF CancelBegins

\* the mailboxes are read,
LEMMA CancelPeeksPasses ==
  ASSUME SessionTypes, NEW q \in Requests, NEW s \in Slots, Orderly(req[q]), CancelPeeks(q, s)
  PROVE  Passes(q)
  <1> DEFINE l == IF req[q].left = {s} THEN "mark" ELSE "peek"
             m == [req[q].marks EXCEPT ![s] = unread[s]]
             r == [req[q] EXCEPT !.marks = m, !.left = @ \ {s}, !.pc = l]
  <1>1. l \in RequestPcs /\ l \in {"mark", "peek"}
      BY DEF RequestPcs
  <1>2. req[q].marks \in [Slots -> SUBSET Rows]
      BY DEF SessionTypes, Request
  <1>3. m \in [Slots -> SUBSET Rows]
      BY <1>2 DEF SessionTypes
  <1>4. Becomes(q, r) /\ req[q].pc = "peek"
      BY DEF CancelPeeks, ReqAt
  <1> HIDE DEF l, m
  <1>5. r \in Request /\ r.pc = l /\ r.kind = req[q].kind /\ r.kids = req[q].kids
      BY <1>1, <1>3 DEF SessionTypes, Request
  <1> HIDE DEF r
  <1> QED
      BY <1>1, <1>4, <1>5, BecomesProceeds DEF Orderly, Passes

\* and marked read,
LEMMA CancelMarksPasses ==
  ASSUME SessionTypes, NEW q \in Requests, Orderly(req[q]), CancelMarks(q)
  PROVE  Passes(q)
  <1> DEFINE r == [Forgets(q, "list") EXCEPT !.run = req[q].run]
  <1>1. req[q].kind = "runCancel" /\ req[q].run \in 0..MaxRuns
      BY DEF CancelMarks, ReqAt, Orderly, SessionTypes, Request
  <1>2. Forgets(q, "list") \in Request
      BY <1>1, RequestAtTypes DEF Forgets, RequestPcs, Kinds
  <1>3. r \in Request
      BY <1>1, <1>2 DEF Request
  <1>4. r.pc = "list" /\ r.kids = {} /\ r.kind = "runCancel"
      BY <1>1 DEF Forgets, RequestAt
  <1>5. Becomes(q, r)
      BY DEF CancelMarks
  <1> HIDE DEF r
  <1> QED
      BY <1>3, <1>4, <1>5, BecomesProceeds DEF Orderly, Passes

\* the children to cancel are listed,
LEMMA CancelListsPasses ==
  ASSUME SessionTypes, RecordInv, NEW q \in Requests, Orderly(req[q]), CancelLists(q)
  PROVE  Passes(q)
  <1> DEFINE kids == {active[s] : s \in Slots} \ {NoChild}
             l == IF kids = {} THEN "settle" ELSE "cancel"
             r == [req[q] EXCEPT !.kids = kids, !.pc = l]
  <1>1. kids \in SUBSET Child
      BY DEF RecordInv, MgrTypeOK
  <1>2. \A c, d \in kids : c.slot = d.slot => c = d
      BY DEF RecordInv, TracksOwnRun
  <1>3. l \in RequestPcs /\ l \in {"settle", "cancel"}
      BY DEF RequestPcs
  <1>4. Becomes(q, r) /\ req[q].pc = "list" /\ req[q].kind = "runCancel"
      BY DEF CancelLists, ReqAt, Orderly
  <1> HIDE DEF kids, l
  <1>5. r \in Request /\ r.pc = l /\ r.kind = req[q].kind /\ r.kids = kids
      BY <1>1, <1>3 DEF SessionTypes, Request
  <1> HIDE DEF r
  <1> QED
      BY <1>2, <1>3, <1>4, <1>5, BecomesProceeds DEF Orderly, Passes

\* and each is recorded as cancelled.
LEMMA CancelRecordsPasses ==
  ASSUME SessionTypes, NEW q \in Requests, Orderly(req[q]), NEW c \in req[q].kids,
         CancelRecords(q, c)
  PROVE  Passes(q)
  <1> DEFINE l == IF req[q].kids = {c} THEN "settle" ELSE "cancel"
             r == [req[q] EXCEPT !.kids = @ \ {c}, !.pc = l]
  <1>1. l \in RequestPcs /\ l \in {"settle", "cancel"}
      BY DEF RequestPcs
  <1>2. Becomes(q, r) /\ req[q].kind = "runCancel"
      BY DEF CancelRecords, Is
  <1> HIDE DEF l
  <1>3. r \in Request /\ r.pc = l /\ r.kind = req[q].kind /\ r.kids = req[q].kids \ {c}
      BY <1>1 DEF SessionTypes, Request
  <1> HIDE DEF r
  <1> QED
      BY <1>1, <1>2, <1>3, BecomesProceeds DEF Orderly, Passes

\* The lead is told of a child.
LEMMA TellLeadPasses ==
  ASSUME SessionTypes, NEW q \in Requests, Orderly(req[q]), Becomes(q, TellLead(q)),
         req[q].kind = "childCancel" \/ req[q].pc = "new"
  PROVE  Passes(q)
  <1>1. "write" \in RequestPcs /\ "childCancel" \in Kinds
      BY DEF RequestPcs, Kinds
  <1>2. TellLead(q) \in Request
      BY <1>1, SessionAssumption DEF TellLead, SessionTypes, Request
  <1>3. TellLead(q).pc = "write" /\ TellLead(q).kids = req[q].kids
      BY DEF TellLead, SessionTypes, Request
  <1>4. Orderly(TellLead(q))
      BY <1>3 DEF Orderly
  <1> QED
      BY <1>2, <1>3, <1>4, BecomesProceeds DEF Passes

\* cancel_child: the child has a turn,
LEMMA CancelsActiveChildPasses ==
  ASSUME SessionTypes, MgrTypeOK, NEW q \in Requests, NEW s \in Slots, NEW r \in Nat,
         CancelsActiveChild(q, s, r)
  PROVE  Passes(q)
  <1>1. CASE active[s].run = r
    <2> DEFINE k == [req[q] EXCEPT !.kind = "childCancel", !.pc = "cancel",
                                   !.kids = {active[s]}]
    <2>1. "cancel" \in RequestPcs /\ "childCancel" \in Kinds /\ {active[s]} \in SUBSET Child
        BY DEF RequestPcs, Kinds, CancelsActiveChild, MgrTypeOK
    <2>2. Becomes(q, k)
        BY <1>1 DEF CancelsActiveChild
    <2>3. k \in Request /\ k.pc = "cancel" /\ k.kids = {active[s]} /\ k.kind = "childCancel"
        BY <2>1 DEF SessionTypes, Request
    <2> HIDE DEF k
    <2> QED
        BY <2>2, <2>3, BecomesProceeds DEF Orderly, Passes
  <1>2. CASE active[s].run /= r
    <2>1. Ends(q, "refused")
        BY <1>2 DEF CancelsActiveChild, Ends
    <2> QED
        BY <2>1, EndsPasses DEF RequestPcs
  <1> QED
      BY <1>1, <1>2

\* or is still starting.
LEMMA CancelsStartingChildPasses ==
  ASSUME SessionTypes, NEW q \in Requests, NEW s \in Slots, NEW r \in Nat,
         Orderly(req[q]), CancelsStartingChild(q, s, r)
  PROVE  Passes(q)
  <1>1. CASE r /= lastRun
    <2>1. Ends(q, "refused")
        BY <1>1 DEF CancelsStartingChild, Ends
    <2> QED
        BY <2>1, EndsPasses DEF RequestPcs
  <1>2. CASE r = lastRun /\ s = Lead
    <2>1. Becomes(q, [RequestAt("settle") EXCEPT !.kind = "childCancel"])
        BY <1>2 DEF CancelsStartingChild
    <2> QED
        BY <2>1, EndsPasses DEF RequestPcs, Kinds
  <1>3. CASE r = lastRun /\ s /= Lead
    <2>1. Becomes(q, TellLead(q)) /\ req[q].pc = "new"
        BY <1>3 DEF CancelsStartingChild, ReqAt
    <2> QED
        BY <2>1, TellLeadPasses
  <1> QED
      BY <1>1, <1>2, <1>3

\* Its cancellation is recorded, and the lead is told if it is a teammate.
LEMMA ChildCancelRecordsPasses ==
  ASSUME SessionTypes, NEW q \in Requests, Orderly(req[q]), NEW c \in req[q].kids,
         ChildCancelRecords(q, c)
  PROVE  Passes(q)
  <1>1. CASE c.slot = Lead
    <2>1. Becomes(q, Forgets(q, "complete"))
        BY <1>1 DEF ChildCancelRecords
    <2> QED
        BY <2>1, EndsPasses DEF RequestPcs
  <1>2. CASE c.slot /= Lead
    <2>1. Becomes(q, TellLead(q)) /\ req[q].kind = "childCancel"
        BY <1>2 DEF ChildCancelRecords, Is
    <2> QED
        BY <2>1, TellLeadPasses
  <1> QED
      BY <1>1, <1>2

\* The call of the cancellation port: the next step records the child it was made for.
LEMMA CancelAsksProceeds ==
  ASSUME SessionTypes, NEW q \in Requests, Orderly(req[q]), NEW c \in req[q].kids,
         CancelAsks(q, c)
  PROVE  Proceeds(q, [req[q] EXCEPT !.pc = "record", !.at = c.slot])
  <1> DEFINE r == [req[q] EXCEPT !.pc = "record", !.at = c.slot]
  <1>1. "record" \in RequestPcs /\ c \in Child /\ c.slot \in Slots
      BY DEF RequestPcs, SessionTypes, Request, Child
  <1>2. r \in Request /\ r.pc = "record" /\ r.kind = req[q].kind /\ r.kids = req[q].kids
        /\ r.at = c.slot
      BY <1>1 DEF SessionTypes, Request
  <1>3. Becomes(q, r)
      BY DEF CancelAsks
  <1> HIDE DEF r
  <1>4. Proceeds(q, r)
      BY <1>2, <1>3, BecomesProceeds DEF Orderly
  <1> QED
      BY <1>4 DEF r

----------------------------------------------------------------------------
\* Type correctness of a step.

\* mark_read_batch takes rows out of the unread and the prompted ones.
LEMMA MarkReadTypes ==
  ASSUME SessionTypes, NEW m, MarkRead(m)
  PROVE  /\ unread' \in [Slots -> SUBSET Rows]
         /\ sent' \in [Slots -> SUBSET Rows]
  BY DEF SessionTypes, MarkRead

\* A fault is counted within its bound.
LEMMA FaultTypes ==
  ASSUME SessionTypes, Fault
  PROVE  faults' \in 0..MaxFaults
  BY SessionAssumption DEF SessionTypes, Fault

\* A teammate gets one of its three statuses.
LEMMA SetMemberTypes ==
  ASSUME SessionTypes, NEW s \in Slots, NEW m \in {"idle", "working", "error"}, SetMember(s, m)
  PROVE  member' \in [Slots -> {"idle", "working", "error"}]
  BY DEF SessionTypes, SetMember

\* A notification leaves one permit at most.
LEMMA NotifyTypes ==
  ASSUME SessionTypes, NEW s \in Slots, Notify(s)
  PROVE  permit' \in [Slots -> BOOLEAN]
  BY DEF SessionTypes, Notify

\* A step of a loop moves that loop, and no other.
LEMMA LoopStepMoves ==
  ASSUME SessionTypes, MgrTypeOK, NEW s \in Slots,
         LoopStep(s) \/ PortRefusesTurn(s) \/ PortStartsTurn(s) \/ TurnEnds(s)
  PROVE  \E r \in Loop : Moves(s, r)
  <1> USE DEF SessionTypes
  <1>1. CASE LoopWakes(s)
      BY <1>1, GotoMoves DEF LoopWakes, Moves, LoopPcs
  <1>2. CASE Peeks(s)
      BY <1>2, PeeksMoves DEF Moves
  <1>3. CASE PeekFails(s)
      BY <1>3, RestartingMoves DEF PeekFails, Moves, LoopPcs
  <1>4. CASE Plans(s)
      BY <1>4, PlansMoves DEF Moves
  <1>5. CASE ObservesEmpty(s)
      BY <1>5, RestartingMoves DEF ObservesEmpty, Moves, LoopPcs
  <1>6. CASE Claims(s)
      BY <1>6, ClaimsMoves DEF Moves
  <1>7. CASE ClaimRefused(s)
      BY <1>7, RestartingMoves DEF ClaimRefused, Moves, LoopPcs
  <1>8. CASE SetsWorking(s)
      BY <1>8, GotoMoves DEF SetsWorking, Moves, LoopPcs
  <1>9. CASE LateStartCancels(s)
      BY <1>9, LateStartCancelsMoves DEF Moves
  <1>10. CASE LateStartRecords(s)
      BY <1>10, GotoMoves DEF LateStartRecords, Moves, LoopPcs
  <1>11. CASE LateStartTries(s)
      BY <1>11, GotoMoves DEF LateStartTries, Moves, LoopPcs
  <1>12. CASE MarksError(s)
      BY <1>12, GotoMoves DEF MarksError, Moves, LoopPcs
  <1>13. CASE MarksIdle(s)
    <2>1. (IF s = Lead THEN "record" ELSE "tellLead") \in LoopPcs
        BY DEF LoopPcs
    <2> QED
        BY <1>13, <2>1, GotoMoves DEF MarksIdle, Moves
  <1>14. CASE TellsLead(s)
      BY <1>14, GotoMoves DEF TellsLead, Moves, LoopPcs
  <1>15. CASE ChecksAllIdle(s)
    <2>1. (IF AllSettled /\ member[Lead] = "idle" THEN "wakeLead" ELSE "record") \in LoopPcs
        BY DEF LoopPcs
    <2> QED
        BY <1>15, <2>1, GotoMoves DEF ChecksAllIdle, Moves
  <1>16. CASE WakesLead(s)
      BY <1>16, GotoMoves DEF WakesLead, Moves, LoopPcs
  <1>17. CASE PokesLead(s)
      BY <1>17, GotoMoves DEF PokesLead, Moves, LoopPcs
  <1>18. CASE RecordsChild(s)
      BY <1>18, RestartingMoves DEF RecordsChild, Moves, LoopPcs
  <1>19. CASE CompletesRun(s)
      BY <1>19, GotoMoves DEF CompletesRun, Moves, LoopPcs
  <1>20. CASE PortRefusesTurn(s)
      BY <1>20, PortRefusesMoves DEF Moves
  <1>21. CASE PortStartsTurn(s)
      BY <1>21, PortStartsMoves DEF Moves
  <1>22. CASE TurnEnds(s)
      BY <1>22, TurnEndsMoves DEF Moves
  <1> QED
      BY <1>1, <1>2, <1>3, <1>4, <1>5, <1>6, <1>7, <1>8, <1>9, <1>10, <1>11, <1>12, <1>13,
         <1>14, <1>15, <1>16, <1>17, <1>18, <1>19, <1>20, <1>21, <1>22 DEF LoopStep

\* A step of a loop keeps the types, and leaves the requests alone.
LEMMA LoopStepTypes ==
  ASSUME SessionTypes, MgrTypeOK, NEW s \in Slots,
         LoopStep(s) \/ PortRefusesTurn(s) \/ PortStartsTurn(s) \/ TurnEnds(s)
  PROVE  SessionTypes' /\ req' = req
  <1>0. loop' \in [Slots -> Loop]
      BY LoopStepMoves DEF Moves
  <1> SUFFICES /\ permit' \in [Slots -> BOOLEAN]
               /\ member' \in [Slots -> {"idle", "working", "error"}]
               /\ unread' \in [Slots -> SUBSET Rows]
               /\ sent' \in [Slots -> SUBSET Rows]
               /\ faults' \in 0..MaxFaults
               /\ UNCHANGED <<req, restore, restarts>>
      BY <1>0 DEF SessionTypes
  <1>1. SessionTypes /\ OnlyLoop =>
            /\ unread' \in [Slots -> SUBSET Rows]
            /\ sent' \in [Slots -> SUBSET Rows]
            /\ faults' \in 0..MaxFaults
            /\ UNCHANGED <<req, restore, restarts>>
      BY DEF SessionTypes, OnlyLoop, kept
  <1>2. CASE /\ OnlyLoop
             /\ permit' = permit \/ permit' = [permit EXCEPT ![s] = FALSE] \/ Notify(Lead)
             /\ \/ member' = member
                \/ \E m \in {"idle", "working", "error"} : SetMember(s, m)
      BY <1>1, <1>2, SetMemberTypes, NotifyTypes, SessionAssumption DEF SessionTypes
  <1>3. CASE \/ LoopWakes(s) \/ Peeks(s) \/ Plans(s) \/ ObservesEmpty(s) \/ Claims(s)
             \/ ClaimRefused(s) \/ SetsWorking(s) \/ LateStartCancels(s) \/ LateStartRecords(s)
             \/ LateStartTries(s) \/ MarksError(s) \/ MarksIdle(s) \/ ChecksAllIdle(s)
             \/ WakesLead(s) \/ PokesLead(s) \/ RecordsChild(s) \/ CompletesRun(s)
    <2>1. OnlyLoop
        BY <1>3 DEF LoopWakes, Peeks, Plans, ObservesEmpty, Claims, ClaimRefused, SetsWorking,
            LateStartCancels, LateStartRecords, LateStartTries, MarksError, MarksIdle,
            ChecksAllIdle, WakesLead, PokesLead, RecordsChild, CompletesRun
    <2>2. permit' = permit \/ permit' = [permit EXCEPT ![s] = FALSE] \/ Notify(Lead)
        BY <1>3 DEF LoopWakes, Peeks, Plans, ObservesEmpty, Claims, ClaimRefused, SetsWorking,
            LateStartCancels, LateStartRecords, LateStartTries, MarksError, MarksIdle,
            ChecksAllIdle, WakesLead, PokesLead, RecordsChild, CompletesRun
    <2>3. \/ member' = member
          \/ \E m \in {"idle", "working", "error"} : SetMember(s, m)
        BY <1>3 DEF LoopWakes, Peeks, Plans, ObservesEmpty, Claims, ClaimRefused, SetsWorking,
            LateStartCancels, LateStartRecords, LateStartTries, MarksError, MarksIdle,
            ChecksAllIdle, WakesLead, PokesLead, RecordsChild, CompletesRun
    <2> QED
        BY <1>2, <2>1, <2>2, <2>3
  <1>4. CASE PeekFails(s)
      BY <1>4, FaultTypes DEF PeekFails, SessionTypes
  <1>5. CASE TellsLead(s)
      BY <1>5, FaultTypes, WriteRowTypes, SessionAssumption DEF TellsLead, SessionTypes
  <1>6. CASE PortRefusesTurn(s)
      BY <1>6, FaultTypes DEF PortRefusesTurn, SessionTypes
  <1>7. CASE PortStartsTurn(s)
    <2>1. loop[s].peeked \in SUBSET Rows
        BY DEF SessionTypes, Loop
    <2> QED
        BY <1>7, <2>1 DEF PortStartsTurn, SessionTypes
  <1>8. CASE TurnEnds(s)
      BY <1>8, FaultTypes, MarkReadTypes DEF TurnEnds, SessionTypes
  <1> QED
      BY <1>3, <1>4, <1>5, <1>6, <1>7, <1>8 DEF LoopStep

\* The requests after a step: each as it was or further on its way.
LEMMA ProceedsTypes ==
  ASSUME SessionTypes, \A q \in Requests : Orderly(req[q]),
         req' = req \/ \E q \in Requests, r \in Request : Proceeds(q, r)
  PROVE  /\ DOMAIN req' = Requests
         /\ \A q \in Requests : req'[q] \in Request /\ Orderly(req'[q])
  BY DEF SessionTypes, Proceeds

\* All the steps of the requests but the call of the cancellation port.
LEMMA RequestPasses ==
  ASSUME SessionTypes, RecordInv, \A q \in Requests : Orderly(req[q]),
         \/ Arrives
         \/ \E q \in Requests : RequestStep(q) /\ ~\E c \in req[q].kids : CancelAsks(q, c)
  PROVE  \E q \in Requests : Passes(q)
  <1>1. ASSUME NEW q \in Requests, RequestStep(q), ~\E c \in req[q].kids : CancelAsks(q, c)
        PROVE  Passes(q)
    <2>1. ASSUME NEW s \in Slots, WritesRow(q, s) \/ ReservesWake(q, s) \/ CancelPeeks(q, s)
          PROVE  Passes(q)
        BY <2>1, WritesRowPasses, ReservesWakePasses, CancelPeeksPasses
    <2>2. CASE \/ WriteFails(q) \/ WakeRejected(q) \/ CancelDrainFails(q) \/ Settles(q)
               \/ ChildCancelFails(q) \/ ChildCancelCompletes(q)
      <3>1. Ends(q, "refused") \/ Ends(q, "error") \/ Ends(q, "done")
          BY <2>2 DEF WriteFails, WakeRejected, CancelDrainFails, Settles, ChildCancelFails,
              ChildCancelCompletes
      <3> QED
          BY <3>1, EndsPasses DEF RequestPcs
    <2>3. CASE Notifies(q) \/ CancelBegins(q) \/ CancelMarks(q) \/ CancelLists(q)
        BY <2>3, NotifiesPasses, CancelBeginsPasses, CancelMarksPasses, CancelListsPasses
    <2>4. ASSUME NEW c \in req[q].kids, CancelRecords(q, c) \/ ChildCancelRecords(q, c)
          PROVE  Passes(q)
        BY <2>4, CancelRecordsPasses, ChildCancelRecordsPasses
    <2> QED
        BY <1>1, <2>1, <2>2, <2>3, <2>4 DEF RequestStep
  <1>2. CASE Arrives
    <2>0. MgrTypeOK
        BY DEF RecordInv
    <2>1. ASSUME NEW q \in UserSends, NEW s \in Slots, UserAccepts(q, s) \/ UserRefused(q, s)
          PROVE  Passes(q)
      <3>1. q \in Requests
          BY DEF Requests
      <3>2. UserRefused(q, s) => Ends(q, "refused")
          BY DEF UserRefused
      <3> QED
          BY <2>1, <3>1, <3>2, UserAcceptsPasses, EndsPasses DEF RequestPcs
    <2>2. ASSUME NEW q \in ToolSends, NEW s \in Slots,
                 NEW to \in {{t} : t \in Slots} \cup {Slots \ {s}}, ToolAccepts(q, s, to)
          PROVE  Passes(q)
      <3>1. q \in Requests /\ to \in SUBSET Slots
          BY DEF Requests
      <3> QED
          BY <2>2, <3>1, ToolAcceptsPasses
    <2>3. ASSUME NEW q \in RunCancels, CancelChecks(q)
          PROVE  Passes(q)
        BY <2>0, <2>3, CancelChecksPasses DEF Requests
    <2>4. ASSUME NEW q \in ChildCancels, NEW s \in Slots, NEW r \in 1..lastRun,
                 CancelsActiveChild(q, s, r) \/ CancelsStartingChild(q, s, r)
          PROVE  Passes(q)
      <3>1. q \in Requests /\ r \in Nat
          BY <2>0, ManagerAssumption DEF Requests, MgrTypeOK
      <3> QED
          BY <2>0, <2>4, <3>1, CancelsActiveChildPasses, CancelsStartingChildPasses
    <2>5. UserSends \subseteq Requests /\ ToolSends \subseteq Requests
          /\ RunCancels \subseteq Requests /\ ChildCancels \subseteq Requests
        BY DEF Requests
    <2> QED
        BY <1>2, <2>1, <2>2, <2>3, <2>4, <2>5 DEF Arrives
  <1> QED
      BY <1>1, <1>2

\* The port marks the turn it was called for, and no other.
LEMMA AskToStopMoves ==
  ASSUME SessionTypes, NEW c \in Child, AskToStop(c)
  PROVE  \E b \in BOOLEAN :
            /\ Moves(c.slot, [loop[c.slot] EXCEPT !.asked = b])
            /\ b <=> loop[c.slot].asked \/ loop[c.slot].turn = c.turn
  <1> DEFINE s == c.slot
  <1>0. s \in Slots
      BY DEF Child
  <1>1. PICK b \in BOOLEAN : b = (loop[s].asked \/ loop[s].turn = c.turn)
      BY Zenon
  <1> DEFINE r == [loop[s] EXCEPT !.asked = b]
  <1>2. loop' = [loop EXCEPT ![s] = r]
      BY <1>1, Zenon DEF AskToStop
  <1>3. r \in Loop
      BY <1>0 DEF SessionTypes, Loop
  <1>4. Moves(s, r)
      BY <1>0, <1>2, <1>3 DEF SessionTypes, Moves
  <1> QED
      BY <1>1, <1>4

\* A cancellation of a child that is not the tracked turn drops the next one.
LEMMA DropsTurnMoves ==
  ASSUME SessionTypes, NEW c \in Child, DropsTurn(c)
  PROVE  \E b \in BOOLEAN :
            /\ Moves(c.slot, [loop[c.slot] EXCEPT !.dropped = b])
            /\ b <=> \/ loop[c.slot].dropped
                     \/ active[c.slot] /= NoChild /\ active[c.slot].turn /= c.turn
  <1> DEFINE s == c.slot
             Out == loop[s].dropped \/ (active[s] /= NoChild /\ active[s].turn /= c.turn)
  <1>0. s \in Slots
      BY DEF Child
  <1>1. PICK b \in BOOLEAN : b = Out
      BY Zenon
  <1> DEFINE r == [loop[s] EXCEPT !.dropped = b]
  <1>2. loop' = [loop EXCEPT ![s] = r]
      BY <1>1, Zenon DEF DropsTurn
  <1>3. r \in Loop
      BY <1>0 DEF SessionTypes, Loop
  <1>4. Moves(s, r)
      BY <1>0, <1>2, <1>3 DEF SessionTypes, Moves
  <1> QED
      BY <1>1, <1>4

\* A step of a request keeps the types and the order of its statements.
LEMMA RequestStepTypes ==
  ASSUME SessionTypes, RecordInv, \A q \in Requests : Orderly(req[q]),
         Arrives \/ \E q \in Requests : RequestStep(q)
  PROVE  SessionTypes' /\ \A q \in Requests : Orderly(req'[q])
  <1>1. \E q \in Requests, r \in Request : Proceeds(q, r)
    <2>1. ASSUME NEW q \in Requests, NEW c \in req[q].kids, CancelAsks(q, c)
          PROVE  \E r \in Request : Proceeds(q, r)
        BY <2>1, CancelAsksProceeds DEF Proceeds
    <2> QED
        BY <2>1, RequestPasses DEF Passes
  <1>2. DOMAIN req' = Requests /\ \A q \in Requests : req'[q] \in Request /\ Orderly(req'[q])
      BY <1>1, ProceedsTypes
  <1> SUFFICES /\ loop' \in [Slots -> Loop]
               /\ permit' \in [Slots -> BOOLEAN]
               /\ unread' \in [Slots -> SUBSET Rows]
               /\ sent' \in [Slots -> SUBSET Rows]
               /\ faults' \in 0..MaxFaults
               /\ UNCHANGED <<member, restore, restarts>>
      BY <1>2 DEF SessionTypes
  <1> USE DEF SessionTypes
  <1>3. CASE OnlyReq
      BY <1>3 DEF OnlyReq, kept
  <1>4. CASE Arrives
      BY <1>3, <1>4 DEF Arrives, UserAccepts, UserRefused, ToolAccepts, CancelChecks,
          CancelsActiveChild, CancelsStartingChild
  <1>5. ASSUME NEW q \in Requests, RequestStep(q)
        PROVE  /\ loop' \in [Slots -> Loop]
               /\ permit' \in [Slots -> BOOLEAN]
               /\ unread' \in [Slots -> SUBSET Rows]
               /\ sent' \in [Slots -> SUBSET Rows]
               /\ faults' \in 0..MaxFaults
               /\ UNCHANGED <<member, restore, restarts>>
    <2>1. ASSUME NEW s \in Slots, ReservesWake(q, s) \/ CancelPeeks(q, s)
          PROVE  OnlyReq
        BY <2>1 DEF ReservesWake, CancelPeeks
    <2>2. ASSUME WakeRejected(q) \/ CancelBegins(q) \/ CancelLists(q) \/ Settles(q)
                 \/ ChildCancelCompletes(q)
          PROVE  OnlyReq
        BY <2>2 DEF WakeRejected, CancelBegins, CancelLists, Settles, ChildCancelCompletes
    <2>3. CASE \E s \in Slots : WritesRow(q, s)
        BY <2>3, WriteRowTypes DEF WritesRow, kept
    <2>4. CASE Notifies(q)
      <3>1. req[q].at \in Slots
          BY DEF Request
      <3> QED
          BY <2>4, <3>1, NotifyTypes DEF Notifies, kept
    <2>5. CASE CancelMarks(q)
        BY <2>5, MarkReadTypes DEF CancelMarks
    <2>6. CASE WriteFails(q) \/ CancelDrainFails(q) \/ ChildCancelFails(q)
      <3>1. Fault /\ UNCHANGED <<loop, permit, member, unread, sent, restore, restarts>>
          BY <2>6 DEF WriteFails, CancelDrainFails, ChildCancelFails
      <3> QED
          BY <3>1, FaultTypes
    <2>7. ASSUME NEW c \in req[q].kids,
                 CancelAsks(q, c) \/ CancelRecords(q, c) \/ ChildCancelRecords(q, c)
          PROVE  /\ loop' \in [Slots -> Loop]
                 /\ UNCHANGED <<permit, member, unread, kept>>
      <3>1. c \in Child
          BY DEF Request
      <3> QED
          BY <2>7, <3>1, AskToStopMoves, DropsTurnMoves
          DEF CancelAsks, CancelRecords, ChildCancelRecords, Moves
    <2>8. CASE \E c \in req[q].kids :
                   CancelAsks(q, c) \/ CancelRecords(q, c) \/ ChildCancelRecords(q, c)
        BY <2>7, <2>8 DEF kept
    <2> QED
        BY <1>3, <1>5, <2>1, <2>2, <2>3, <2>4, <2>5, <2>6, <2>8 DEF RequestStep
  <1> QED
      BY <1>4, <1>5

\* What a restarted application begins with is well typed.
LEMMA FreshTypes ==
  /\ FreshLoops \in [Slots -> Loop]
  /\ NoPermits \in [Slots -> BOOLEAN]
  /\ AllIdle \in [Slots -> {"idle", "working", "error"}]
  <1>1. LoopAt("wait") \in Loop
      BY LocalsTypes DEF LoopPcs
  <1> QED
      BY <1>1 DEF FreshLoops, NoPermits, AllIdle

\* A restart loses the requests that were under way.
LEMMA RestartTypes ==
  ASSUME SessionTypes, \A q \in Requests : Orderly(req[q]), Restart
  PROVE  /\ SessionTypes'
         /\ \A q \in Requests : Orderly(req'[q]) /\ req'[q].pc /= "record"
  <1>1. RequestAt("lost") \in Request /\ Orderly(RequestAt("lost"))
        /\ RequestAt("lost").pc = "lost"
      BY RequestAtTypes DEF RequestPcs, Kinds, RequestAt, Orderly
  <1>2. /\ DOMAIN req' = Requests
        /\ \A q \in Requests : req'[q] = IF req[q].pc \in Over THEN req[q] ELSE RequestAt("lost")
      BY DEF Restart
  <1>3. \A q \in Requests : /\ req'[q] \in Request
                            /\ Orderly(req'[q]) /\ req'[q].pc /= "record"
      BY <1>1, <1>2 DEF SessionTypes, Over
  <1>4. restarts' \in 0..MaxRestarts
      BY SessionAssumption DEF Restart, SessionTypes
  <1> QED
      BY <1>2, <1>3, <1>4, FreshTypes DEF Restart, SessionTypes

\* Every step keeps the types.
LEMMA NextTypes ==
  ASSUME SessionTypes, RecordInv, \A q \in Requests : Orderly(req[q]), [Next]_vars
  PROVE  SessionTypes' /\ \A q \in Requests : Orderly(req'[q])
  <1>0. MgrTypeOK
      BY DEF RecordInv
  <1>1. ASSUME NEW s \in Slots,
               LoopStep(s) \/ PortRefusesTurn(s) \/ PortStartsTurn(s) \/ TurnEnds(s)
        PROVE  SessionTypes' /\ req' = req
      BY <1>0, <1>1, LoopStepTypes
  <1>2. ASSUME NEW s \in Slots, RestoreDrains(s)
        PROVE  SessionTypes' /\ req' = req
    <2>1. PICK b \in BOOLEAN : b = (permit[s] \/ ~IsActive)
        BY Zenon
    <2>2. permit' = [permit EXCEPT ![s] = b]
        BY <1>2, <2>1, Zenon DEF RestoreDrains
    <2> QED
        BY <1>2, <2>2 DEF RestoreDrains, SessionTypes
  <1>3. CASE Arrives \/ \E q \in Requests : RequestStep(q)
      BY <1>3, RequestStepTypes
  <1>4. CASE Restart
      BY <1>4, RestartTypes
  <1>5. CASE UNCHANGED vars
      BY <1>5 DEF vars, kept, SessionTypes
  <1> QED
      BY <1>1, <1>2, <1>3, <1>4, <1>5 DEF Next, Rests

----------------------------------------------------------------------------
\* The session and the run record: every step of the session but a restart is at
\* most one call of a method of the manager.

\* A loop is in step with its locals: no wake is claimed before the turn is planned, a
\* turn with a run has read one, one that the port started has an id, a late one was
\* told to stop, and a turn the port refused is being closed.
Early == {"wait", "peek", "plan", "empty", "claim", "maybe"}
Closing == {"markError", "markIdle", "tellLead", "allIdle", "wakeLead", "pokeLead", "record"}
Started == {"lateCancel", "lateRecord", "lateTry", "running"}

Placed(s) ==
    /\ loop[s].pc \in Early => loop[s].claim = 0
    /\ loop[s].pc \in {"claim", "lateCancel", "lateRecord", "lateTry"} => Tracked(s)
    /\ loop[s].pc \in Started => loop[s].turn /= 0
    /\ loop[s].pc \in {"lateRecord", "lateTry"} => loop[s].asked
    /\ loop[s].result = "refused" => loop[s].pc \in Closing

\* The child a tracked loop speaks of is one the record can hold.
LEMMA ChildOfTypes ==
  ASSUME SessionTypes, NEW s \in Slots, NEW t \in Turns, Tracked(s)
  PROVE  ChildOf(s, t) \in Child
  BY ManagerAssumption DEF SessionTypes, Loop, Tracked, ChildOf, Child, Runs

\* All a step of a loop does to the record is one call of the run manager.
LEMMA LoopStepCallsManager ==
  ASSUME SessionTypes, MgrTypeOK, NEW s \in Slots, Placed(s),
         LoopStep(s) \/ PortRefusesTurn(s) \/ PortStartsTurn(s) \/ TurnEnds(s)
  PROVE  [MgrNext]_mgrVars
  <1>0. s \in Reservations /\ Lead \in Slots
      BY SessionAssumption
  <1>1. CASE UNCHANGED mgrVars
      BY <1>1
  <1>2. CASE \/ LoopWakes(s) \/ Peeks(s) \/ PeekFails(s) \/ Plans(s) \/ ClaimRefused(s)
             \/ SetsWorking(s) \/ LateStartCancels(s) \/ MarksError(s) \/ MarksIdle(s)
             \/ TellsLead(s) \/ ChecksAllIdle(s) \/ PokesLead(s) \/ TurnEnds(s)
      BY <1>2 DEF LoopWakes, Peeks, PeekFails, Plans, ClaimRefused, SetsWorking,
          LateStartCancels, MarksError, MarksIdle, TellsLead, ChecksAllIdle, PokesLead, TurnEnds
  <1>3. CASE ObservesEmpty(s)
      BY <1>3 DEF ObservesEmpty, MgrNext
  <1>4. CASE Claims(s)
      BY <1>0, <1>4 DEF Claims, MgrNext
  <1>5. CASE LateStartRecords(s)
    <2>1. loop[s].turn \in Turns /\ Tracked(s)
        BY <1>5, ManagerAssumption
        DEF LateStartRecords, At, Placed, Started, SessionTypes, Loop, Turns
    <2>2. ChildOf(s, loop[s].turn) \in Child
        BY <2>1, ChildOfTypes
    <2> QED
        BY <1>5, <2>2 DEF LateStartRecords, MgrNext
  <1>6. CASE LateStartTries(s)
      BY <1>6 DEF LateStartTries, MgrNext
  <1>7. CASE WakesLead(s)
      BY <1>0, <1>7 DEF WakesLead, MgrNext
  <1>8. CASE RecordsChild(s)
    <2>1. CASE loop[s].turn \in Turns
      <3>1. (loop[s].result = "ok") \in BOOLEAN
          BY Zenon
      <3> QED
          BY <1>8, <2>1, <3>1, Zenon DEF RecordsChild, MgrNext
    <2>2. CASE loop[s].turn \notin Turns
      <3>1. ~Tracks(s, loop[s].turn)
          BY <2>2 DEF Tracks, MgrTypeOK, Child
      <3> QED
          BY <1>8, <3>1 DEF RecordsChild, RecordChildCompleted
    <2> QED
        BY <2>1, <2>2
  <1>9. CASE CompletesRun(s)
      BY <1>9 DEF CompletesRun, MgrNext
  <1>10. CASE PortRefusesTurn(s)
      BY <1>0, <1>10 DEF PortRefusesTurn, MgrNext
  <1>11. CASE PortStartsTurn(s)
    <2>1. CASE Tracked(s)
      <3>1. ChildOf(s, NewTurn(s)) \in Child
          BY <1>11, <2>1, NewTurnIsNew, ChildOfTypes DEF PortStartsTurn
      <3>2. RecordChildStarted(s, ChildOf(s, NewTurn(s)))
          BY <1>11, <2>1 DEF PortStartsTurn
      <3> QED
          BY <1>0, <3>1, <3>2 DEF MgrNext
    <2>2. CASE ~Tracked(s)
        BY <1>11, <2>2 DEF PortStartsTurn
    <2> QED
        BY <2>1, <2>2
  <1> QED
      BY <1>2, <1>3, <1>4, <1>5, <1>6, <1>7, <1>8, <1>9, <1>10, <1>11 DEF LoopStep

\* The same of a step of a request.
LEMMA RequestStepCallsManager ==
  ASSUME SessionTypes, Arrives \/ \E q \in Requests : RequestStep(q)
  PROVE  [MgrNext]_mgrVars
  <1>1. CASE Arrives
    <2>1. ASSUME NEW s \in Slots, AcceptUserMessage(s)
          PROVE  MgrNext
        BY <2>1 DEF MgrNext
    <2>2. ASSUME NEW s \in Slots, BeginCancelChildStarting(s, s)
          PROVE  MgrNext
        BY <2>2, SessionAssumption DEF MgrNext
    <2> QED
        BY <1>1, <2>1, <2>2 DEF Arrives, UserAccepts, UserRefused, ToolAccepts, CancelChecks,
            CancelsActiveChild, CancelsStartingChild
  <1>2. ASSUME NEW q \in Requests, RequestStep(q)
        PROVE  [MgrNext]_mgrVars
    <2>1. ASSUME NEW s \in Slots, WritesRow(q, s) \/ ReservesWake(q, s) \/ CancelPeeks(q, s)
          PROVE  [MgrNext]_mgrVars
        BY <2>1 DEF WritesRow, ReservesWake, CancelPeeks, MgrNext
    <2>2. CASE \/ WakeRejected(q) \/ Notifies(q) \/ CancelMarks(q) \/ CancelDrainFails(q)
               \/ CancelLists(q) \/ ChildCancelFails(q)
        BY <2>2 DEF WakeRejected, Notifies, CancelMarks, CancelDrainFails, CancelLists,
            ChildCancelFails
    <2>3. CASE WriteFails(q)
        BY <2>3 DEF WriteFails, MgrNext
    <2>4. CASE CancelBegins(q)
        BY <2>4 DEF CancelBegins, MgrNext
    <2>5. CASE Settles(q)
        BY <2>5 DEF Settles, MgrNext
    <2>6. CASE ChildCancelCompletes(q)
        BY <2>6 DEF ChildCancelCompletes, MgrNext
    <2>7. ASSUME NEW c \in req[q].kids,
                 CancelAsks(q, c) \/ CancelRecords(q, c) \/ ChildCancelRecords(q, c)
          PROVE  [MgrNext]_mgrVars
      <3>1. c \in Child
          BY DEF SessionTypes, Request
      <3> QED
          BY <2>7, <3>1 DEF CancelAsks, CancelRecords, ChildCancelRecords, MgrNext
    <2> QED
        BY <1>2, <2>1, <2>2, <2>3, <2>4, <2>5, <2>6, <2>7 DEF RequestStep
  <1> QED
      BY <1>1, <1>2

\* A restart forgets the open run, which keeps the rest of the record in order.
LEMMA RestartKeepsRecord ==
  ASSUME RecordInv, Restart
  PROVE  RecordInv'
  <1>0. /\ NoChildren \in [Slots -> Child \cup {NoChild}]
        /\ NoReservations \in [Reservations -> Reservation \cup {NoReservation}]
        /\ NoWakes \in [Slots -> 0..MaxWakes]
      BY ManagerAssumption DEF NoChildren, NoReservations, NoWakes
  <1>1. MgrTypeOK'
      BY <1>0 DEF RecordInv, MgrTypeOK, Restart
  <1>2. OpenRunHasId' /\ CancelFreezesRun' /\ ClosedRunIsEmpty'
      BY DEF OpenRunHasId, CancelFreezesRun, ClosedRunIsEmpty, Exists, Drained, Restart
  <1>3. TracksOwnRun'
      BY DEF TracksOwnRun, Restart, NoChildren, NoReservations
  <1>4. OpenRunUndecided'
      BY DEF RecordInv, OpenRunUndecided, Exists, Restart
  <1> QED
      BY <1>1, <1>2, <1>3, <1>4 DEF RecordInv

\* So every step, a restart included, keeps the invariant of the record.
LEMMA NextKeepsRecord ==
  ASSUME SessionTypes, RecordInv, \A s \in Slots : Placed(s), [Next]_vars
  PROVE  RecordInv'
  <1>0. MgrTypeOK
      BY DEF RecordInv
  <1>1. CASE [MgrNext]_mgrVars
      BY <1>1, NextKeepsInv
  <1>2. CASE Restart
      BY <1>2, RestartKeepsRecord
  <1>3. ASSUME NEW s \in Slots,
               LoopStep(s) \/ PortRefusesTurn(s) \/ PortStartsTurn(s) \/ TurnEnds(s)
        PROVE  [MgrNext]_mgrVars
      BY <1>0, <1>3, LoopStepCallsManager
  <1>4. ASSUME Arrives \/ \E q \in Requests : RequestStep(q)
        PROVE  [MgrNext]_mgrVars
      BY <1>4, RequestStepCallsManager
  <1>5. ASSUME NEW s \in Slots, RestoreDrains(s)
        PROVE  [MgrNext]_mgrVars
      BY <1>5 DEF RestoreDrains
  <1>6. UNCHANGED vars => [MgrNext]_mgrVars
      BY DEF vars
  <1> QED
      BY <1>1, <1>2, <1>3, <1>4, <1>5, <1>6 DEF Next, Rests

----------------------------------------------------------------------------
\* What a call of the manager does to a slot that it is not about.

\* The terminal event of a run is there to stay.
OutcomesStay == \A r \in Runs : outcome[r] /= "none" => outcome'[r] = outcome[r]

\* The run goes on with what the slot has, or closes without a word of the slot unless it
\* fails.
Quiet(x) ==
    /\ OutcomesStay
    /\ \/ /\ lastRun' = lastRun
          /\ starting'[x] = NoReservation <=> starting[x] = NoReservation
          /\ active'[x] = active[x]
       \/ /\ starting'[x] = NoReservation /\ active'[x] = NoChild
          /\ starting[x] /= NoReservation \/ active[x] /= NoChild
                => outcome'[lastRun] = "failed"

\* The end of a run is written once, and nothing is left in its slots.
LEMMA CloseOutcomes ==
  ASSUME RecordInv, Exists, NEW e \in {"completed", "failed", "cancelled"}, Close(e),
         NEW x \in Slots
  PROVE  /\ OutcomesStay
         /\ outcome'[lastRun] = e
         /\ starting'[x] = NoReservation /\ active'[x] = NoChild
  <1>1. lastRun \in Runs /\ outcome[lastRun] = "none"
    <2>1. lastRun \in Runs
        BY DEF RecordInv, OpenRunHasId
    <2>2. ~(lastRun < lastRun)
        BY DEF RecordInv, MgrTypeOK
    <2> QED
        BY <2>1, <2>2 DEF RecordInv, OpenRunUndecided
  <1>2. OutcomesStay /\ outcome'[lastRun] = e
      BY <1>1 DEF RecordInv, MgrTypeOK, Close, OutcomesStay
  <1>3. x \in Reservations
      BY SessionAssumption
  <1> QED
      BY <1>2, <1>3 DEF Close, NoChildren, NoReservations

\* maybe_complete_locked and try_complete_cancelled's counterpart: the run closes only if
\* nothing at all is left, of this slot either.
LEMMA MaybeEffect ==
  ASSUME RecordInv, Exists, NEW a, NEW st, NEW p, NEW x \in Slots,
         MaybeCompleteLocked(a, st, p) \/ MaybeCancelledLocked(a, st, p),
         st[x] = NoReservation <=> starting[x] = NoReservation
  PROVE  /\ OutcomesStay
         /\ \/ /\ lastRun' = lastRun
               /\ starting'[x] = NoReservation <=> starting[x] = NoReservation
               /\ active'[x] = a[x]
            \/ /\ starting'[x] = NoReservation /\ active'[x] = NoChild
               /\ starting[x] = NoReservation /\ a[x] = NoChild
  <1>0. x \in Reservations
      BY SessionAssumption
  <1>1. CASE Keep(a, st, p)
      BY <1>1 DEF Keep, OutcomesStay
  <1>2. CASE Drained(a, st, p) /\ (Close("completed") \/ Close("cancelled"))
      BY <1>0, <1>2, CloseOutcomes DEF Drained, NoChildren, NoReservations
  <1> QED
      BY <1>1, <1>2 DEF MaybeCompleteLocked, MaybeCancelledLocked

\* A call that may complete the run is quiet for a slot it does not touch.
LEMMA MaybeIsQuiet ==
  ASSUME RecordInv, Exists, NEW a, NEW st, NEW p, NEW x \in Slots,
         MaybeCompleteLocked(a, st, p) \/ MaybeCancelledLocked(a, st, p),
         st[x] = NoReservation <=> starting[x] = NoReservation, a[x] = active[x]
  PROVE  Quiet(x)
  BY MaybeEffect DEF Quiet

\* complete_failed ends the run, and books nothing.
LEMMA CloseFailedIsQuiet ==
  ASSUME RecordInv, Exists, Close("failed"), NEW x \in Slots
  PROVE  Quiet(x)
  BY CloseOutcomes DEF Quiet

\* A step that calls no manager books nothing.
LEMMA StutterIsQuiet ==
  ASSUME UNCHANGED mgrVars, NEW x \in Slots
  PROVE  Quiet(x)
  BY DEF mgrVars, Quiet, OutcomesStay

\* The calls that are about no slot's turn are quiet for every slot.
LEMMA CallsAreQuiet ==
  ASSUME RecordInv, NEW x \in Slots,
         \/ \E s \in Slots : \/ AcceptUserMessage(s) \/ RecordPendingWake(s)
                             \/ RecordEmptyWakeObserved(s) \/ BeginCancelChildStarting(s, s)
         \/ MaybeComplete \/ BeginCancel \/ TryCompleteCancelled \/ CompleteFailed
  PROVE  Quiet(x)
  <1>0. x \in Reservations /\ NoReservation \notin Reservation
      BY SessionAssumption, ManagerAssumption
  <1>1. CASE UNCHANGED mgrVars
      BY <1>1, StutterIsQuiet
  <1>2. ASSUME NEW s \in Slots, AcceptUserMessage(s)
        PROVE  Quiet(x)
      BY <1>0, <1>2 DEF AcceptUserMessage, RecordInv, ClosedRunIsEmpty, Drained, Quiet,
          OutcomesStay, NoChildren, NoReservations
  <1>3. ASSUME NEW s \in Slots, RecordPendingWake(s)
        PROVE  Quiet(x)
      BY <1>3 DEF RecordPendingWake, Quiet, OutcomesStay
  <1>4. ASSUME NEW s \in Slots, RecordEmptyWakeObserved(s)
        PROVE  Quiet(x)
      BY <1>1, <1>4, MaybeIsQuiet DEF RecordEmptyWakeObserved
  <1>5. ASSUME NEW s \in Slots, BeginCancelChildStarting(s, s)
        PROVE  Quiet(x)
    <2>1. s \in Reservations
        BY SessionAssumption
    <2>2. starting[s] \in Reservation
        BY <1>5, <2>1 DEF RecordInv, MgrTypeOK, BeginCancelChildStarting
    <2>3. [starting[s] EXCEPT !.state = "cancelling"] \in Reservation
        BY <2>2 DEF Reservation
    <2>4. starting' = [starting EXCEPT ![s] = [starting[s] EXCEPT !.state = "cancelling"]]
        BY <1>5 DEF BeginCancelChildStarting
    <2>5. starting'[x] = NoReservation <=> starting[x] = NoReservation
        BY <1>0, <2>2, <2>3, <2>4 DEF RecordInv, MgrTypeOK
    <2> QED
        BY <1>5, <2>5 DEF BeginCancelChildStarting, Quiet, OutcomesStay
  <1>6. CASE MaybeComplete
      BY <1>1, <1>6, MaybeIsQuiet DEF MaybeComplete
  <1>7. CASE BeginCancel
    <2>1. starting[x] /= NoReservation => starting[x] \in Reservation
        BY <1>0 DEF RecordInv, MgrTypeOK
    <2>2. starting[x] \in Reservation =>
             [starting[x] EXCEPT !.state = "cancelling"] \in Reservation
        BY DEF Reservation
    <2>3. starting'[x] = IF starting[x] = NoReservation THEN NoReservation
                         ELSE [starting[x] EXCEPT !.state = "cancelling"]
        BY <1>0, <1>7 DEF BeginCancel
    <2>4. starting'[x] = NoReservation <=> starting[x] = NoReservation
        BY <1>0, <2>1, <2>2, <2>3
    <2> QED
        BY <1>7, <2>4 DEF BeginCancel, Quiet, OutcomesStay
  <1>8. CASE TryCompleteCancelled
      BY <1>1, <1>8, MaybeIsQuiet DEF TryCompleteCancelled
  <1>9. CASE CompleteFailed
      BY <1>1, <1>9, CloseFailedIsQuiet DEF CompleteFailed
  <1> QED
      BY <1>2, <1>3, <1>4, <1>5, <1>6, <1>7, <1>8, <1>9

\* The calls that are about a slot's turn are quiet for the other slots.
LEMMA CallsAreQuietForOthers ==
  ASSUME RecordInv, NEW s \in Slots, NEW x \in Slots \ {s}, NEW c, c.slot = s,
         \/ ClaimWakeForTurn(s, s) \/ RecordChildStarted(s, c) \/ RecordChildStartFailed(s)
         \/ \E t, ok : RecordChildCompleted(s, t, ok)
         \/ RecordChildCancelled(c)
  PROVE  Quiet(x)
  <1>0. x \in Reservations /\ s \in Reservations
      BY SessionAssumption
  <1>1. CASE UNCHANGED mgrVars
      BY <1>1, StutterIsQuiet
  <1>2. CASE ClaimWakeForTurn(s, s)
      BY <1>0, <1>2 DEF ClaimWakeForTurn, Quiet, OutcomesStay, RecordInv, MgrTypeOK
  <1>3. CASE RecordChildStarted(s, c)
      BY <1>0, <1>1, <1>3 DEF RecordChildStarted, Quiet, OutcomesStay, RecordInv, MgrTypeOK
  <1>4. CASE RecordChildStartFailed(s)
    <2> DEFINE st == [starting EXCEPT ![s] = NoReservation]
    <2>1. st[x] = starting[x]
        BY <1>0 DEF RecordInv, MgrTypeOK
    <2>2. \/ UNCHANGED mgrVars
          \/ Exists /\ (MaybeCancelledLocked(active, st, pending) \/ Close("failed"))
        BY <1>4 DEF RecordChildStartFailed
    <2> HIDE DEF st
    <2> QED
        BY <1>1, <2>1, <2>2, MaybeIsQuiet, CloseFailedIsQuiet
  <1>5. ASSUME NEW t, NEW ok, RecordChildCompleted(s, t, ok)
        PROVE  Quiet(x)
    <2> DEFINE a == [active EXCEPT ![s] = NoChild]
    <2>1. a[x] = active[x]
        BY DEF RecordInv, MgrTypeOK
    <2>2. \/ UNCHANGED mgrVars
          \/ Exists /\ (MaybeCompleteLocked(a, starting, pending) \/ Close("failed"))
        BY <1>5 DEF RecordChildCompleted, Tracks
    <2> HIDE DEF a
    <2> QED
        BY <1>1, <2>1, <2>2, MaybeIsQuiet, CloseFailedIsQuiet
  <1>6. CASE RecordChildCancelled(c)
    <2> DEFINE a == [active EXCEPT ![s] = NoChild]
    <2>1. a[x] = active[x]
        BY DEF RecordInv, MgrTypeOK
    <2>2. \/ UNCHANGED mgrVars
          \/ Exists /\ MaybeCancelledLocked(a, starting, pending)
        BY <1>6 DEF RecordChildCancelled
    <2> HIDE DEF a
    <2> QED
        BY <1>1, <2>1, <2>2, MaybeIsQuiet
  <1> QED
      BY <1>2, <1>3, <1>4, <1>5, <1>6

----------------------------------------------------------------------------
\* The books of a slot: what the run record and its loop say of each other.

\* A reservation is held on the way to the port, and a tracked child is the turn the
\* loop is in.
Books(s) ==
    /\ starting[s] /= NoReservation => loop[s].pc \in {"work", "port"} /\ Tracked(s)
    /\ active[s] /= NoChild =>
         /\ active[s].turn = loop[s].turn
         /\ Tracked(s) /\ loop[s].result /= "refused"
         /\ loop[s].pc \in {"lateCancel", "lateRecord", "running"} \cup Closing

\* Until the port answers, the run of a claim is held open by the reservation, unless it
\* failed in the meantime.
Held(s) ==
    loop[s].pc \in {"work", "port"} /\ loop[s].claim /= 0 =>
        \/ outcome[loop[s].claim] = "failed"
        \/ starting[s] /= NoReservation /\ loop[s].claim = lastRun

\* A running turn that its run counts is tracked, was told to stop, or its run failed.
Entered(s) ==
    loop[s].pc = "running" /\ Counted(s) =>
        \/ loop[s].asked
        \/ outcome[loop[s].claim] = "failed"
        \/ active[s] /= NoChild /\ loop[s].claim = lastRun

InStep(s) == Placed(s) /\ Books(s) /\ Held(s) /\ Entered(s)

\* A claim is of a run that exists.
LEMMA ClaimTypes ==
  ASSUME SessionTypes, NEW s \in Slots, loop[s].claim /= 0
  PROVE  loop[s].claim \in Runs
  BY ManagerAssumption DEF SessionTypes, Loop, Runs

\* A slot with nothing in the books, at a place where nothing is due.
LEMMA EmptyIsInStep ==
  ASSUME NEW s \in Slots, starting'[s] = NoReservation, active'[s] = NoChild,
         loop'[s].pc \notin {"work", "port", "running"}, Placed(s)'
  PROVE  InStep(s)'
  BY DEF InStep, Books, Held, Entered

\* A quiet call leaves nothing in the books of a slot that had nothing there.
LEMMA QuietKeepsEmpty ==
  ASSUME NEW s \in Slots, InStep(s), Quiet(s), loop[s].pc \in Early \cup {"lateTry"}
  PROVE  starting'[s] = NoReservation /\ active'[s] = NoChild
  BY DEF InStep, Books, Quiet, Early, Closing

\* The slot of a loop that stands still, when others call the manager.
LEMMA StillIsInStep ==
  ASSUME SessionTypes, RecordInv, NEW s \in Slots, InStep(s), Quiet(s), loop'[s] = loop[s]
  PROVE  InStep(s)'
  <1>0. loop[s].claim /= 0 => loop[s].claim \in Runs
      BY ClaimTypes
  <1>1. Placed(s)'
      BY DEF InStep, Placed, Tracked
  <1>2. Books(s)'
      BY DEF InStep, Books, Quiet, Tracked
  <1>3. Held(s)'
      BY <1>0 DEF InStep, Held, Quiet, OutcomesStay
  <1>4. Entered(s)'
      BY <1>0 DEF InStep, Entered, Counted, Quiet, OutcomesStay
  <1> QED
      BY <1>1, <1>2, <1>3, <1>4 DEF InStep

\* finalize_turn up to the recording of the turn: the child stays in the books.
LEMMA ClosingIsInStep ==
  ASSUME SessionTypes, NEW s \in Slots, InStep(s), Quiet(s),
         loop[s].pc \in {"running"} \cup Closing, loop'[s].pc \in Closing,
         loop'[s].run = loop[s].run, loop'[s].turn = loop[s].turn,
         loop'[s].result \in {loop[s].result, "ok", "failed"}
  PROVE  InStep(s)'
  <1>1. Placed(s)'
      BY DEF Placed, Early, Closing, Started
  <1>2. Books(s)'
      BY DEF InStep, Books, Quiet, Tracked, Closing
  <1>3. Held(s)' /\ Entered(s)'
      BY DEF Held, Entered, Closing
  <1> QED
      BY <1>1, <1>2, <1>3 DEF InStep

\* A loop at rest, or between turns, owes nothing.
LEMMA WaitingIsPlaced ==
  ASSUME NEW s \in Slots, NEW l \in {"wait", "peek", "maybe"}, loop'[s] = LoopAt(l)
  PROVE  Placed(s)' /\ loop'[s].pc = l
  BY DEF Placed, LoopAt, Early, Closing, Started

\* The claim puts the loop in step with the record.
LEMMA ClaimsIsInStep ==
  ASSUME SessionTypes, RecordInv, NEW s \in Slots, InStep(s), Claims(s)
  PROVE  InStep(s)'
  <1> DEFINE r == [loop[s] EXCEPT !.claim = lastRun, !.pc = "work"]
  <1>0. MgrTypeOK /\ s \in Reservations
      BY SessionAssumption DEF RecordInv
  <1>1. loop'[s] = r
      BY <1>0, ClaimsMoves DEF Moves
  <1>2. r.pc = "work" /\ r.claim = lastRun /\ r.run = loop[s].run /\ r.result = loop[s].result
      BY DEF SessionTypes, Loop
  <1> HIDE DEF r
  <1>3. /\ starting'[s] \in Reservation
        /\ active' = active /\ lastRun' = lastRun /\ outcome' = outcome
    <2>1. lastRun \in Runs
        BY DEF RecordInv, OpenRunHasId, Claims, ClaimWakeForTurn, CanClaim, IsActive, Exists
    <2> QED
        BY <1>0, <2>1 DEF Claims, ClaimWakeForTurn, MgrTypeOK, Reservation
  <1>4. starting'[s] /= NoReservation
      BY <1>3, ManagerAssumption
  <1>5. loop[s].pc = "claim" /\ active[s] = NoChild /\ Tracked(s)
      BY DEF Claims, At, InStep, Books, Placed, Closing
  <1>6. Placed(s)'
      BY <1>1, <1>2, <1>5 DEF InStep, Placed, Early, Closing, Started
  <1>7. Books(s)'
      BY <1>1, <1>2, <1>3, <1>5 DEF Books, Tracked
  <1>8. Held(s)' /\ Entered(s)'
      BY <1>1, <1>2, <1>3, <1>4 DEF Held, Entered
  <1> QED
      BY <1>6, <1>7, <1>8 DEF InStep

\* on_started: whether the run takes the turn, ignores it or has it cancelled.
LEMMA PortStartsIsInStep ==
  ASSUME SessionTypes, RecordInv, NEW s \in Slots, InStep(s), PortStartsTurn(s)
  PROVE  InStep(s)'
  <1> DEFINE t == NewTurn(s)
             child == ChildOf(s, t)
             r == [loop[s] EXCEPT !.turn = t, !.pc = AfterStart(s)]
  <1>0. MgrTypeOK /\ s \in Reservations /\ loop[s].pc = "port"
      BY SessionAssumption DEF RecordInv, PortStartsTurn, At
  <1>1. t \in Turns /\ t /= 0
    <2>1. t \in Turns
        BY NewTurnIsNew DEF PortStartsTurn
    <2> QED
        BY <2>1, ManagerAssumption DEF Turns
  <1>2. loop'[s] = r
      BY PortStartsMoves DEF Moves
  <1>3. /\ r.pc = AfterStart(s) /\ r.turn = t /\ r.run = loop[s].run /\ r.claim = loop[s].claim
        /\ r.result = loop[s].result /\ r.asked = loop[s].asked /\ r.dropped = loop[s].dropped
      BY DEF SessionTypes, Loop
  <1>4. AfterStart(s) \in {"lateCancel", "running"}
        /\ (AfterStart(s) = "lateCancel" => Tracked(s))
      BY DEF AfterStart
  <1>5. active[s] = NoChild /\ loop[s].result /= "refused"
      BY <1>0 DEF InStep, Books, Placed, Closing
  <1>6. Placed(s)'
      BY <1>1, <1>2, <1>3, <1>4, <1>5 DEF Placed, Tracked, Early, Closing, Started
  <1>7. Held(s)'
      BY <1>2, <1>3, <1>4 DEF Held
  <1>8. CASE UNCHANGED mgrVars /\ (~Tracked(s) \/ starting[s] = NoReservation)
    <2>1. starting[s] = NoReservation
        BY <1>8 DEF InStep, Books
    <2>2. Books(s)'
        BY <1>5, <1>8, <2>1 DEF Books, mgrVars
    <2>3. Entered(s)'
        BY <1>0, <1>2, <1>3, <1>8, <2>1 DEF InStep, Held, Entered, Counted, mgrVars
    <2> QED
        BY <1>6, <1>7, <2>2, <2>3 DEF InStep
  <1>9. CASE Tracked(s) /\ Exists /\ starting[s] /= NoReservation
    <2>1. /\ starting' = [starting EXCEPT ![s] = NoReservation]
          /\ active' = IF ChildStartDecision(s, child) = "ignored"
                       THEN active ELSE [active EXCEPT ![child.slot] = child]
          /\ lastRun' = lastRun /\ outcome' = outcome
        BY <1>9 DEF PortStartsTurn, RecordChildStarted, mgrVars
    <2>2. starting'[s] = NoReservation
        BY <1>0, <2>1 DEF MgrTypeOK
    <2>3. child.slot = s /\ child.turn = t /\ child.run = loop[s].run /\ child \in Child
        BY <1>1, <1>9, ChildOfTypes DEF ChildOf
    <2>4. CASE ChildStartDecision(s, child) = "ignored"
      <3>1. active'[s] = NoChild
          BY <1>5, <2>1, <2>4
      <3>2. loop[s].run /= lastRun
          BY <1>9, <2>3, <2>4 DEF ChildStartDecision
      <3>3. Books(s)'
          BY <2>2, <3>1 DEF Books
      <3>4. Entered(s)'
          BY <1>0, <1>2, <1>3, <2>1, <3>2 DEF InStep, Held, Entered, Counted
      <3> QED
          BY <1>6, <1>7, <3>3, <3>4 DEF InStep
    <2>5. CASE ChildStartDecision(s, child) /= "ignored"
      <3>1. active'[s] = child /\ child /= NoChild
          BY <2>1, <2>3, <2>5, ManagerAssumption DEF RecordInv, MgrTypeOK
      <3>2. Books(s)'
          BY <1>2, <1>3, <1>4, <1>5, <1>9, <2>2, <2>3, <3>1 DEF Books, Tracked
      <3>3. Entered(s)'
          BY <1>0, <1>2, <1>3, <2>1, <3>1 DEF InStep, Held, Entered, Counted
      <3> QED
          BY <1>6, <1>7, <3>2, <3>3 DEF InStep
    <2> QED
        BY <2>4, <2>5
  <1>10. \/ UNCHANGED mgrVars /\ (~Tracked(s) \/ starting[s] = NoReservation)
         \/ Tracked(s) /\ Exists /\ starting[s] /= NoReservation
    <2>1. ~Exists => starting[s] = NoReservation
        BY <1>0 DEF RecordInv, ClosedRunIsEmpty, Drained, NoReservations
    <2> QED
        BY <2>1 DEF PortStartsTurn, RecordChildStarted
  <1> QED
      BY <1>8, <1>9, <1>10

\* A turn that the port refused: whatever the run makes of it, nothing of it is left.
LEMMA PortRefusesIsInStep ==
  ASSUME SessionTypes, RecordInv, NEW s \in Slots, InStep(s), PortRefusesTurn(s)
  PROVE  InStep(s)'
  <1>0. s \in Reservations /\ loop[s].pc = "port" /\ MgrTypeOK
      BY SessionAssumption DEF PortRefusesTurn, At, RecordInv
  <1>1. loop'[s] = [LoopAt("markError") EXCEPT !.result = "refused"]
      BY PortRefusesMoves DEF Moves
  <1>2. loop'[s].pc = "markError" /\ Placed(s)'
      BY <1>1 DEF Placed, LoopAt, Early, Closing, Started
  <1>3. active[s] = NoChild
      BY <1>0 DEF InStep, Books, Closing
  <1>4. starting'[s] = NoReservation /\ active'[s] = NoChild
    <2> DEFINE st == [starting EXCEPT ![s] = NoReservation]
    <2>1. st[s] = NoReservation
        BY <1>0 DEF MgrTypeOK
    <2>2. \/ UNCHANGED mgrVars /\ starting[s] = NoReservation
          \/ Exists /\ Close("failed")
          \/ Exists /\ (Keep(active, st, pending) \/ Close("cancelled"))
      <3>1. ~Tracked(s) \/ ~Exists => starting[s] = NoReservation
          BY <1>0 DEF InStep, Books, RecordInv, ClosedRunIsEmpty, Drained, NoReservations
      <3> QED
          BY <3>1 DEF PortRefusesTurn, RecordChildStartFailed, MaybeCancelledLocked
    <2> HIDE DEF st
    <2>3. UNCHANGED mgrVars /\ starting[s] = NoReservation => starting'[s] = NoReservation
                                                              /\ active'[s] = NoChild
        BY <1>3 DEF mgrVars
    <2> QED
        BY <1>3, <2>1, <2>2, <2>3, CloseOutcomes DEF Keep
  <1> QED
      BY <1>2, <1>4, EmptyIsInStep

\* record_child_cancelled for a slot leaves no child of it in the books.
LEMMA CancelledEffect ==
  ASSUME RecordInv, NEW c, c.slot \in Slots, RecordChildCancelled(c)
  PROVE  /\ OutcomesStay
         /\ active'[c.slot] = NoChild
         /\ \/ /\ lastRun' = lastRun
               /\ starting'[c.slot] = NoReservation <=> starting[c.slot] = NoReservation
            \/ starting'[c.slot] = NoReservation /\ starting[c.slot] = NoReservation
  <1> DEFINE s == c.slot
             a == [active EXCEPT ![s] = NoChild]
  <1>1. a[s] = NoChild
      BY DEF RecordInv, MgrTypeOK
  <1>2. CASE Exists
    <2>1. MaybeCancelledLocked(a, starting, pending)
        BY <1>2 DEF RecordChildCancelled
    <2> HIDE DEF a
    <2> QED
        BY <1>1, <1>2, <2>1, MaybeEffect
  <1>3. CASE ~Exists
    <2>1. active[s] = NoChild
        BY <1>3 DEF RecordInv, ClosedRunIsEmpty, Drained, NoChildren
    <2> QED
        BY <1>3, <2>1 DEF RecordChildCancelled, mgrVars, OutcomesStay
  <1> QED
      BY <1>2, <1>3

\* The late start is recorded as cancelled: the slot is free.
LEMMA LateStartRecordsIsInStep ==
  ASSUME SessionTypes, RecordInv, NEW s \in Slots, InStep(s), LateStartRecords(s)
  PROVE  InStep(s)'
  <1> DEFINE c == ChildOf(s, loop[s].turn)
             r == [loop[s] EXCEPT !.pc = "lateTry"]
  <1>0. loop[s].pc = "lateRecord" /\ RecordChildCancelled(c) /\ c.slot = s
      BY DEF LateStartRecords, At, ChildOf
  <1>1. loop'[s] = r
      BY GotoMoves DEF LateStartRecords, SessionTypes, Moves, LoopPcs
  <1>2. r.pc = "lateTry" /\ r.run = loop[s].run /\ r.turn = loop[s].turn
        /\ r.asked = loop[s].asked /\ r.result = loop[s].result
      BY DEF SessionTypes, Loop
  <1> HIDE DEF c, r
  <1>3. active'[s] = NoChild
      BY <1>0, CancelledEffect
  <1>4. starting'[s] = NoReservation
    <2>1. starting[s] = NoReservation
        BY <1>0 DEF InStep, Books
    <2> QED
        BY <1>0, <2>1, CancelledEffect
  <1>5. Placed(s)'
      BY <1>0, <1>1, <1>2 DEF InStep, Placed, Tracked, Early, Closing, Started
  <1> QED
      BY <1>1, <1>2, <1>3, <1>4, <1>5, EmptyIsInStep

\* record_child_completed takes the turn out of the books: the child the slot has there
\* is the turn that ended.
LEMMA RecordsChildIsInStep ==
  ASSUME SessionTypes, RecordInv, NEW s \in Slots, InStep(s), RecordsChild(s)
  PROVE  InStep(s)'
  <1>0. loop[s].pc = "record" /\ MgrTypeOK
      BY DEF RecordsChild, At, RecordInv
  <1>1. Placed(s)' /\ loop'[s].pc \in {"maybe", "peek"}
    <2>1. loop'[s] = LoopAt("maybe") \/ loop'[s] = LoopAt("peek")
        BY RestartingMoves DEF RecordsChild, SessionTypes, Moves, LoopPcs
    <2> QED
        BY <2>1, WaitingIsPlaced
  <1>2. starting[s] = NoReservation
      BY <1>0 DEF InStep, Books
  <1>3. starting'[s] = NoReservation /\ active'[s] = NoChild
    <2>1. CASE UNCHANGED mgrVars /\ (~Recorded(s) \/ ~Tracks(s, loop[s].turn))
      <3>1. ~Exists => active[s] = NoChild
          BY DEF RecordInv, ClosedRunIsEmpty, Drained, NoChildren
      <3>2. active[s] = NoChild
          BY <2>1, <3>1 DEF InStep, Books, Recorded, Tracks
      <3> QED
          BY <1>2, <2>1, <3>2 DEF mgrVars
    <2>2. CASE Exists /\ Close("failed")
        BY <2>2, CloseOutcomes
    <2>3. CASE Exists /\ MaybeCompleteLocked([active EXCEPT ![s] = NoChild], starting, pending)
      <3> DEFINE a == [active EXCEPT ![s] = NoChild]
      <3>1. a[s] = NoChild /\ MaybeCompleteLocked(a, starting, pending)
          BY <1>0, <2>3 DEF MgrTypeOK
      <3> HIDE DEF a
      <3> QED
          BY <1>2, <2>3, <3>1, MaybeEffect
    <2> QED
        BY <2>1, <2>2, <2>3 DEF RecordsChild, RecordChildCompleted, Tracks
  <1> QED
      BY <1>1, <1>3, EmptyIsInStep

\* Every step of a loop keeps its own slot in step ...
LEMMA LoopStepKeepsOwnSlot ==
  ASSUME SessionTypes, RecordInv, NEW s \in Slots, InStep(s),
         LoopStep(s) \/ PortRefusesTurn(s) \/ PortStartsTurn(s) \/ TurnEnds(s)
  PROVE  InStep(s)'
  <1>0. MgrTypeOK /\ loop \in [Slots -> Loop] /\ loop[s] \in Loop /\ Lead \in Slots
      BY SessionAssumption DEF RecordInv, SessionTypes
  <1>1. CASE Quiet(s) /\ loop[s].pc \in Early \cup {"lateTry"}
             /\ loop'[s].pc \notin {"work", "port", "running"} /\ Placed(s)'
      BY <1>1, QuietKeepsEmpty, EmptyIsInStep
  <1>2. CASE LoopWakes(s)
    <2>1. Quiet(s)
        BY <1>2, StutterIsQuiet DEF LoopWakes
    <2>2. loop[s].pc = "wait" /\ loop'[s] = [loop[s] EXCEPT !.pc = "peek"]
        BY <1>0, <1>2, GotoMoves DEF LoopWakes, At, Moves, LoopPcs
    <2>3. Placed(s)' /\ loop'[s].pc = "peek"
        BY <1>0, <2>2 DEF Loop, InStep, Placed, Early, Closing, Started
    <2> QED
        BY <1>1, <2>1, <2>2, <2>3 DEF Early
  <1>3. CASE Peeks(s)
    <2>1. Quiet(s)
        BY <1>3, StutterIsQuiet DEF Peeks
    <2> DEFINE l == IF unread[s] = {} THEN "empty" ELSE "plan"
    <2>2. loop[s].pc = "peek"
          /\ loop'[s] = [loop[s] EXCEPT !.peeked = unread[s], !.pc = l]
        BY <1>3, PeeksMoves DEF Peeks, At, Moves
    <2>3. l \in {"empty", "plan"}
        OBVIOUS
    <2> HIDE DEF l
    <2>4. Placed(s)' /\ loop'[s].pc = l
        BY <1>0, <2>2, <2>3 DEF Loop, InStep, Placed, Early, Closing, Started
    <2> QED
        BY <1>1, <2>1, <2>2, <2>3, <2>4 DEF Early
  <1>4. CASE PeekFails(s)
    <2>1. Quiet(s)
        BY <1>4, StutterIsQuiet DEF PeekFails
    <2>2. loop[s].pc = "peek" /\ loop'[s] = LoopAt("wait")
        BY <1>0, <1>4, RestartingMoves DEF PeekFails, At, Moves, LoopPcs
    <2> QED
        BY <1>1, <2>1, <2>2, WaitingIsPlaced DEF Early
  <1>5. CASE Plans(s)
    <2>1. Quiet(s)
        BY <1>5, StutterIsQuiet DEF Plans
    <2>2. loop[s].pc = "plan"
        BY <1>5 DEF Plans, At
    <2>3. loop[s].claim = 0 /\ loop[s].result /= "refused"
        BY <2>2 DEF InStep, Placed, Early, Closing
    <2>4. CASE IsActive
      <3>1. loop'[s] = [loop[s] EXCEPT !.run = lastRun, !.pc = "claim"]
          BY <1>0, <1>5, <2>4, PlansMoves DEF Moves
      <3>2. lastRun /= 0
          BY <2>4, ManagerAssumption DEF RecordInv, OpenRunHasId, IsActive, Exists, Runs
      <3>3. Placed(s)' /\ loop'[s].pc = "claim"
          BY <1>0, <2>2, <2>3, <3>1, <3>2
          DEF Loop, InStep, Placed, Tracked, Early, Closing, Started
      <3> QED
          BY <1>1, <2>1, <2>2, <3>3 DEF Early
    <2>5. CASE ~IsActive
      <3>1. loop'[s] = [loop[s] EXCEPT !.run = 0, !.pc = "work"]
          BY <1>0, <1>5, <2>5, PlansMoves DEF Moves
      <3>2. Placed(s)' /\ loop'[s].pc = "work" /\ loop'[s].claim = 0
          BY <1>0, <2>2, <2>3, <3>1 DEF Loop, Placed, Tracked, Early, Closing, Started
      <3>3. starting'[s] = NoReservation /\ active'[s] = NoChild
          BY <2>1, <2>2, QuietKeepsEmpty DEF Early
      <3> QED
          BY <3>2, <3>3 DEF InStep, Books, Held, Entered
    <2> QED
        BY <2>4, <2>5
  <1>6. CASE ObservesEmpty(s)
    <2>1. Quiet(s)
        BY <1>6, CallsAreQuiet DEF ObservesEmpty
    <2>2. loop[s].pc = "empty" /\ loop'[s] = LoopAt("wait")
        BY <1>0, <1>6, RestartingMoves DEF ObservesEmpty, At, Moves, LoopPcs
    <2> QED
        BY <1>1, <2>1, <2>2, WaitingIsPlaced DEF Early
  <1>7. CASE ClaimRefused(s)
    <2>1. Quiet(s)
        BY <1>7, StutterIsQuiet DEF ClaimRefused
    <2>2. loop[s].pc = "claim" /\ loop'[s] = LoopAt("wait")
        BY <1>0, <1>7, RestartingMoves DEF ClaimRefused, At, Moves, LoopPcs
    <2> QED
        BY <1>1, <2>1, <2>2, WaitingIsPlaced DEF Early
  <1>8. CASE SetsWorking(s)
    <2>1. UNCHANGED mgrVars
        BY <1>8 DEF SetsWorking
    <2>2. loop[s].pc = "work" /\ loop'[s] = [loop[s] EXCEPT !.pc = "port"]
        BY <1>0, <1>8, GotoMoves DEF SetsWorking, At, Moves, LoopPcs
    <2>3. loop'[s].pc = "port" /\ loop'[s].run = loop[s].run /\ loop'[s].claim = loop[s].claim
          /\ loop'[s].result = loop[s].result
        BY <1>0, <2>2 DEF Loop
    <2>4. Placed(s)'
        BY <2>2, <2>3 DEF InStep, Placed, Early, Closing, Started
    <2>5. Books(s)'
        BY <2>1, <2>2, <2>3 DEF mgrVars, InStep, Books, Tracked, Closing
    <2>6. Held(s)' /\ Entered(s)'
        BY <2>1, <2>2, <2>3 DEF mgrVars, InStep, Held, Entered
    <2> QED
        BY <2>4, <2>5, <2>6 DEF InStep
  <1>9. CASE LateStartCancels(s)
    <2>1. UNCHANGED mgrVars
        BY <1>9 DEF LateStartCancels
    <2>2. loop[s].pc = "lateCancel"
          /\ loop'[s] = [loop[s] EXCEPT !.asked = TRUE, !.pc = "lateRecord"]
        BY <1>9, LateStartCancelsMoves DEF LateStartCancels, At, Moves
    <2>3. loop'[s].pc = "lateRecord" /\ loop'[s].run = loop[s].run /\ loop'[s].asked
          /\ loop'[s].turn = loop[s].turn /\ loop'[s].result = loop[s].result
        BY <1>0, <2>2 DEF Loop
    <2>4. Placed(s)'
        BY <2>2, <2>3 DEF InStep, Placed, Tracked, Early, Closing, Started
    <2>5. Books(s)'
        BY <2>1, <2>2, <2>3 DEF mgrVars, InStep, Books, Tracked
    <2> QED
        BY <2>3, <2>4, <2>5 DEF InStep, Held, Entered
  <1>10. CASE LateStartTries(s)
    <2>1. Quiet(s)
        BY <1>10, CallsAreQuiet DEF LateStartTries
    <2>2. loop[s].pc = "lateTry" /\ loop'[s] = [loop[s] EXCEPT !.pc = "running"]
        BY <1>0, <1>10, GotoMoves DEF LateStartTries, At, Moves, LoopPcs
    <2>3. loop'[s].pc = "running" /\ loop'[s].asked = loop[s].asked
          /\ loop'[s].turn = loop[s].turn /\ loop'[s].result = loop[s].result
        BY <1>0, <2>2 DEF Loop
    <2>4. Placed(s)' /\ loop'[s].asked
        BY <2>2, <2>3 DEF InStep, Placed, Early, Closing, Started
    <2>5. starting'[s] = NoReservation /\ active'[s] = NoChild
        BY <2>1, <2>2, QuietKeepsEmpty
    <2> QED
        BY <2>3, <2>4, <2>5 DEF InStep, Books, Held, Entered
  <1>11. CASE CompletesRun(s)
    <2>1. Quiet(s)
        BY <1>11, CallsAreQuiet DEF CompletesRun
    <2>2. loop[s].pc = "maybe" /\ loop'[s] = [loop[s] EXCEPT !.pc = "peek"]
        BY <1>0, <1>11, GotoMoves DEF CompletesRun, At, Moves, LoopPcs
    <2>3. Placed(s)' /\ loop'[s].pc = "peek"
        BY <1>0, <2>2 DEF Loop, InStep, Placed, Early, Closing, Started
    <2> QED
        BY <1>1, <2>1, <2>2, <2>3 DEF Early
  <1>12. CASE MarksError(s) \/ MarksIdle(s) \/ TellsLead(s) \/ ChecksAllIdle(s)
              \/ WakesLead(s) \/ PokesLead(s)
    <2>1. Quiet(s)
        BY <1>0, <1>12, StutterIsQuiet, CallsAreQuiet
        DEF MarksError, MarksIdle, TellsLead, ChecksAllIdle, WakesLead, PokesLead
    <2>2. loop[s].pc \in Closing /\ \E l \in Closing : Goto(s, l)
        BY <1>12 DEF MarksError, MarksIdle, TellsLead, ChecksAllIdle, WakesLead, PokesLead, At,
           Closing
    <2>3. PICK l \in Closing : Goto(s, l)
        BY <2>2
    <2>4. l \in LoopPcs
        BY DEF Closing, LoopPcs
    <2>5. loop'[s] = [loop[s] EXCEPT !.pc = l]
        BY <1>0, <2>3, <2>4, GotoMoves DEF Moves
    <2>6. loop'[s].pc = l /\ loop'[s].run = loop[s].run /\ loop'[s].turn = loop[s].turn
          /\ loop'[s].result = loop[s].result
        BY <1>0, <2>5 DEF Loop
    <2> QED
        BY <2>1, <2>2, <2>6, ClosingIsInStep
  <1>13. CASE TurnEnds(s)
    <2>1. Quiet(s) /\ loop[s].pc = "running"
        BY <1>13, StutterIsQuiet DEF TurnEnds, At
    <2>2. PICK r \in {"ok", "failed"} :
              loop'[s] = [loop[s] EXCEPT !.result = r, !.peeked = {}, !.asked = FALSE,
                                         !.pc = IF r = "ok" THEN "markIdle" ELSE "markError"]
        BY <1>13, TurnEndsMoves DEF Moves
    <2>3. loop'[s].pc \in {"markIdle", "markError"} /\ loop'[s].run = loop[s].run
          /\ loop'[s].turn = loop[s].turn /\ loop'[s].result = r
        BY <1>0, <2>2 DEF Loop
    <2> QED
        BY <2>1, <2>3, ClosingIsInStep DEF Closing
  <1> QED
      BY <1>2, <1>3, <1>4, <1>5, <1>6, <1>7, <1>8, <1>9, <1>10, <1>11, <1>12, <1>13,
         ClaimsIsInStep, PortStartsIsInStep, PortRefusesIsInStep, LateStartRecordsIsInStep,
         RecordsChildIsInStep DEF LoopStep

\* ... and the slots of the other loops.
LEMMA LoopStepKeepsOtherSlots ==
  ASSUME SessionTypes, RecordInv, NEW s \in Slots, NEW x \in Slots \ {s}, InStep(x),
         LoopStep(s) \/ PortRefusesTurn(s) \/ PortStartsTurn(s) \/ TurnEnds(s)
  PROVE  InStep(x)'
  <1>0. MgrTypeOK /\ Lead \in Slots
      BY SessionAssumption DEF RecordInv
  <1>1. loop'[x] = loop[x]
      BY <1>0, LoopStepMoves DEF Moves
  <1>2. Quiet(x)
    <2>1. CASE UNCHANGED mgrVars
        BY <2>1, StutterIsQuiet
    <2>2. CASE \/ LoopWakes(s) \/ Peeks(s) \/ PeekFails(s) \/ Plans(s) \/ ClaimRefused(s)
               \/ SetsWorking(s) \/ LateStartCancels(s) \/ MarksError(s) \/ MarksIdle(s)
               \/ TellsLead(s) \/ ChecksAllIdle(s) \/ PokesLead(s) \/ TurnEnds(s)
        BY <2>1, <2>2 DEF LoopWakes, Peeks, PeekFails, Plans, ClaimRefused, SetsWorking,
            LateStartCancels, MarksError, MarksIdle, TellsLead, ChecksAllIdle, PokesLead, TurnEnds
    <2>3. CASE ObservesEmpty(s) \/ LateStartTries(s) \/ CompletesRun(s) \/ WakesLead(s)
        BY <1>0, <2>1, <2>3, CallsAreQuiet
        DEF ObservesEmpty, LateStartTries, CompletesRun, WakesLead
    <2>4. CASE Claims(s) \/ PortRefusesTurn(s) \/ RecordsChild(s)
      <3> DEFINE c == ChildOf(s, 0)
      <3>1. c.slot = s
          BY DEF ChildOf
      <3> HIDE DEF c
      <3> QED
          BY <2>1, <2>4, <3>1, CallsAreQuietForOthers DEF Claims, PortRefusesTurn, RecordsChild
    <2>5. CASE LateStartRecords(s)
      <3> DEFINE c == ChildOf(s, loop[s].turn)
      <3>1. c.slot = s /\ RecordChildCancelled(c)
          BY <2>5 DEF ChildOf, LateStartRecords
      <3> HIDE DEF c
      <3> QED
          BY <3>1, CallsAreQuietForOthers
    <2>6. CASE PortStartsTurn(s)
      <3> DEFINE c == ChildOf(s, NewTurn(s))
      <3>1. c.slot = s /\ (RecordChildStarted(s, c) \/ UNCHANGED mgrVars)
          BY <2>6 DEF ChildOf, PortStartsTurn
      <3> HIDE DEF c
      <3> QED
          BY <2>1, <3>1, CallsAreQuietForOthers
    <2> QED
        BY <2>2, <2>3, <2>4, <2>5, <2>6 DEF LoopStep
  <1> QED
      BY <1>1, <1>2, StillIsInStep

\* Before a cancellation takes a child out of the books, the turn it belongs to was told
\* to stop, if it is still the one in progress.
Told(q) ==
    req[q].pc = "record" =>
        \A c \in req[q].kids :
            (c.slot = req[q].at /\ loop[c.slot].turn = c.turn /\ loop[c.slot].pc \in Started)
                => loop[c.slot].asked

\* The port marks a turn to stop.
LEMMA AskKeepsInStep ==
  ASSUME SessionTypes, RecordInv, NEW c \in Child, AskToStop(c), UNCHANGED mgrVars,
         NEW x \in Slots, InStep(x)
  PROVE  /\ InStep(x)'
         /\ loop'[x].turn = loop[x].turn /\ loop'[x].pc = loop[x].pc
         /\ loop[x].asked => loop'[x].asked
         /\ x = c.slot /\ loop[x].turn = c.turn => loop'[x].asked
  <1>1. PICK b \in BOOLEAN :
            /\ Moves(c.slot, [loop[c.slot] EXCEPT !.asked = b])
            /\ b <=> loop[c.slot].asked \/ loop[c.slot].turn = c.turn
      BY AskToStopMoves
  <1>2. CASE x /= c.slot
    <2>1. loop'[x] = loop[x]
        BY <1>1, <1>2 DEF Moves
    <2> QED
        BY <1>2, <2>1, StutterIsQuiet, StillIsInStep
  <1>3. CASE x = c.slot
    <2>1. /\ loop'[x].pc = loop[x].pc /\ loop'[x].run = loop[x].run
          /\ loop'[x].claim = loop[x].claim /\ loop'[x].turn = loop[x].turn
          /\ loop'[x].result = loop[x].result /\ loop'[x].dropped = loop[x].dropped
          /\ loop'[x].asked = b
        BY <1>1, <1>3 DEF Moves, SessionTypes, Loop
    <2>2. loop[x].asked \/ loop[x].turn = c.turn => b
        BY <1>1, <1>3
    <2>3. Placed(x)'
        BY <2>1, <2>2 DEF InStep, Placed, Tracked
    <2>4. Books(x)'
        BY <2>1 DEF InStep, Books, Tracked, mgrVars
    <2>5. Held(x)' /\ Entered(x)'
        BY <2>1, <2>2 DEF InStep, Held, Entered, Counted, mgrVars
    <2> QED
        BY <2>1, <2>2, <2>3, <2>4, <2>5 DEF InStep
  <1> QED
      BY <1>2, <1>3

\* A cancelled child is taken out of the books of its slot.  A running turn that stays
\* counted is either the child's, which was told to stop, or was in no book before.
LEMMA RecordKeepsInStep ==
  ASSUME SessionTypes, RecordInv, NEW c \in Child, DropsTurn(c), RecordChildCancelled(c),
         loop[c.slot].turn = c.turn /\ loop[c.slot].pc \in Started => loop[c.slot].asked,
         NEW x \in Slots, InStep(x)
  PROVE  /\ InStep(x)'
         /\ loop'[x].turn = loop[x].turn /\ loop'[x].pc = loop[x].pc
         /\ loop'[x].asked = loop[x].asked
  <1>1. PICK b \in BOOLEAN :
            /\ Moves(c.slot, [loop[c.slot] EXCEPT !.dropped = b])
            /\ b <=> \/ loop[c.slot].dropped
                     \/ active[c.slot] /= NoChild /\ active[c.slot].turn /= c.turn
      BY DropsTurnMoves
  <1>2. CASE x /= c.slot
    <2>1. loop'[x] = loop[x]
        BY <1>1, <1>2 DEF Moves
    <2>2. Quiet(x)
        BY <1>2, CallsAreQuietForOthers DEF Child
    <2> QED
        BY <2>1, <2>2, StillIsInStep
  <1>3. CASE x = c.slot
    <2>1. /\ loop'[x].pc = loop[x].pc /\ loop'[x].run = loop[x].run
          /\ loop'[x].claim = loop[x].claim /\ loop'[x].turn = loop[x].turn
          /\ loop'[x].result = loop[x].result /\ loop'[x].asked = loop[x].asked
          /\ loop'[x].dropped = b
        BY <1>1, <1>3 DEF Moves, SessionTypes, Loop
    <2>2. /\ OutcomesStay
          /\ active'[x] = NoChild
          /\ \/ /\ lastRun' = lastRun
                /\ starting'[x] = NoReservation <=> starting[x] = NoReservation
             \/ starting'[x] = NoReservation /\ starting[x] = NoReservation
        BY <1>3, CancelledEffect
    <2>3. loop[x].claim /= 0 => loop[x].claim \in Runs
        BY ClaimTypes
    <2>4. Placed(x)'
        BY <2>1 DEF InStep, Placed, Tracked
    <2>5. Books(x)'
        BY <2>1, <2>2 DEF InStep, Books, Tracked
    <2>6. Held(x)'
        BY <2>1, <2>2, <2>3 DEF InStep, Held, OutcomesStay
    <2>7. Entered(x)'
      <3>1. SUFFICES ASSUME loop[x].pc = "running", Counted(x)', ~loop[x].asked
                     PROVE  outcome'[loop[x].claim] = "failed"
          BY <2>1 DEF Entered
      <3>2. Counted(x) /\ loop[x].claim \in Runs
            /\ (active[x] /= NoChild => active[x].turn = c.turn)
          BY <1>1, <1>3, <2>1, <2>3, <3>1 DEF Counted
      <3>3. active[x] = NoChild
          BY <1>3, <3>1, <3>2 DEF InStep, Books, Started
      <3>4. outcome[loop[x].claim] = "failed"
          BY <3>1, <3>2, <3>3 DEF InStep, Entered
      <3> QED
          BY <2>2, <3>2, <3>4 DEF OutcomesStay
    <2> QED
        BY <2>1, <2>4, <2>5, <2>6, <2>7 DEF InStep
  <1> QED
      BY <1>2, <1>3

\* A step of a request leaves every loop in step.
LEMMA RequestStepKeepsSlots ==
  ASSUME SessionTypes, RecordInv, \A s \in Slots : InStep(s), NEW q \in Requests,
         Orderly(req[q]), Told(q), RequestStep(q), NEW x \in Slots
  PROVE  InStep(x)'
  <1>1. CASE loop' = loop /\ Quiet(x)
      BY <1>1, StillIsInStep
  <1>2. ASSUME NEW c \in req[q].kids,
               CancelAsks(q, c) \/ CancelRecords(q, c) \/ ChildCancelRecords(q, c)
        PROVE  InStep(x)'
    <2>0. c \in Child
        BY DEF SessionTypes, Request
    <2>1. CASE CancelAsks(q, c)
        BY <2>0, <2>1, AskKeepsInStep DEF CancelAsks
    <2>2. CASE CancelRecords(q, c) \/ ChildCancelRecords(q, c)
      <3>1. DropsTurn(c) /\ RecordChildCancelled(c) /\ req[q].pc = "record"
            /\ c.slot = req[q].at
          BY <2>2 DEF CancelRecords, ChildCancelRecords, ReqAt, Is, Orderly
      <3>2. loop[c.slot].turn = c.turn /\ loop[c.slot].pc \in Started => loop[c.slot].asked
          BY <3>1 DEF Told
      <3> QED
          BY <2>0, <3>1, <3>2, RecordKeepsInStep
    <2> QED
        BY <1>2, <2>1, <2>2
  <1>3. ASSUME NEW s \in Slots, WritesRow(q, s) \/ ReservesWake(q, s) \/ CancelPeeks(q, s)
        PROVE  InStep(x)'
    <2>1. loop' = loop
        BY <1>3 DEF WritesRow, ReservesWake, CancelPeeks, OnlyReq
    <2>2. Quiet(x)
        BY <1>3, StutterIsQuiet, CallsAreQuiet DEF WritesRow, ReservesWake, CancelPeeks
    <2> QED
        BY <1>1, <2>1, <2>2
  <1>4. CASE \/ WakeRejected(q) \/ Notifies(q) \/ CancelMarks(q) \/ CancelDrainFails(q)
             \/ CancelLists(q) \/ ChildCancelFails(q)
    <2>1. loop' = loop /\ UNCHANGED mgrVars
        BY <1>4 DEF WakeRejected, Notifies, CancelMarks, CancelDrainFails, CancelLists,
            ChildCancelFails, OnlyReq
    <2> QED
        BY <1>1, <2>1, StutterIsQuiet
  <1>5. CASE WriteFails(q) \/ CancelBegins(q) \/ Settles(q) \/ ChildCancelCompletes(q)
    <2>1. loop' = loop
        BY <1>5 DEF WriteFails, CancelBegins, Settles, ChildCancelCompletes, OnlyReq
    <2>2. Quiet(x)
        BY <1>5, StutterIsQuiet, CallsAreQuiet
        DEF WriteFails, CancelBegins, Settles, ChildCancelCompletes
    <2> QED
        BY <1>1, <2>1, <2>2
  <1> QED
      BY <1>2, <1>3, <1>4, <1>5 DEF RequestStep

\* So does the arrival of a request,
LEMMA ArrivesKeepsSlots ==
  ASSUME SessionTypes, RecordInv, Arrives, NEW x \in Slots, InStep(x)
  PROVE  InStep(x)'
  <1>1. loop' = loop
      BY DEF Arrives, UserAccepts, UserRefused, ToolAccepts, CancelChecks, CancelsActiveChild,
          CancelsStartingChild, OnlyReq
  <1>2. \/ UNCHANGED mgrVars
        \/ \E s \in Slots : AcceptUserMessage(s) \/ BeginCancelChildStarting(s, s)
      BY DEF Arrives, UserAccepts, UserRefused, ToolAccepts, CancelChecks, CancelsActiveChild,
          CancelsStartingChild
  <1>3. Quiet(x)
      BY <1>2, StutterIsQuiet, CallsAreQuiet
  <1> QED
      BY <1>1, <1>3, StillIsInStep

\* and a restart, which begins afresh.
LEMMA RestartKeepsSlots ==
  ASSUME Restart, NEW x \in Slots
  PROVE  InStep(x)'
  <1>1. x \in Reservations
      BY SessionAssumption
  <1>2. starting'[x] = NoReservation /\ active'[x] = NoChild
      BY <1>1 DEF Restart, NoReservations, NoChildren
  <1>3. loop'[x] = LoopAt("wait")
      BY DEF Restart, FreshLoops
  <1> QED
      BY <1>2, <1>3, WaitingIsPlaced, EmptyIsInStep

----------------------------------------------------------------------------
\* A cancellation knows which turns were told to stop.

\* A turn the loop is in after its step, if it is one that a request may name, was
\* either told to stop or is the turn it was in before, told to stop or not as before.
LEMMA LoopStepFollows ==
  ASSUME SessionTypes, RecordInv, NEW s \in Slots,
         LoopStep(s) \/ PortRefusesTurn(s) \/ PortStartsTurn(s) \/ TurnEnds(s),
         loop'[s].pc \in Started, loop'[s].turn \in TurnsInUse(s)
  PROVE  \/ loop'[s].asked
         \/ /\ loop[s].pc \in Started /\ loop'[s].turn = loop[s].turn
            /\ loop'[s].asked = loop[s].asked
  <1>0. MgrTypeOK /\ loop \in [Slots -> Loop] /\ loop[s] \in Loop
      BY DEF RecordInv, SessionTypes
  <1>1. CASE LateStartRecords(s)
    <2>1. loop'[s] = [loop[s] EXCEPT !.pc = "lateTry"] /\ loop[s].pc \in Started
        BY <1>0, <1>1, GotoMoves DEF LateStartRecords, At, Moves, LoopPcs, Started
    <2> QED
        BY <1>0, <2>1 DEF Loop
  <1>2. CASE LateStartTries(s)
    <2>1. loop'[s] = [loop[s] EXCEPT !.pc = "running"] /\ loop[s].pc \in Started
        BY <1>0, <1>2, GotoMoves DEF LateStartTries, At, Moves, LoopPcs, Started
    <2> QED
        BY <1>0, <2>1 DEF Loop
  <1>3. CASE LateStartCancels(s)
    <2>1. loop'[s] = [loop[s] EXCEPT !.asked = TRUE, !.pc = "lateRecord"]
        BY <1>3, LateStartCancelsMoves DEF Moves
    <2> QED
        BY <1>0, <2>1 DEF Loop
  <1>4. CASE PortStartsTurn(s)
    <2>1. loop'[s] = [loop[s] EXCEPT !.turn = NewTurn(s), !.pc = AfterStart(s)]
        BY <1>4, PortStartsMoves DEF Moves
    <2>2. NewTurn(s) \notin TurnsInUse(s)
        BY <1>4, NewTurnIsNew DEF PortStartsTurn
    <2>3. loop'[s].turn = NewTurn(s)
        BY <1>0, <2>1 DEF Loop
    <2> QED
        BY <2>2, <2>3
  <1>5. ASSUME NEW l \in LoopPcs \ Started, Goto(s, l)
        PROVE  FALSE
    <2>1. loop'[s] = [loop[s] EXCEPT !.pc = l]
        BY <1>0, <1>5, GotoMoves DEF Moves
    <2> QED
        BY <1>0, <1>5, <2>1 DEF Loop
  <1>6. ASSUME NEW l \in LoopPcs \ Started, Restarting(s, l)
        PROVE  FALSE
    <2>1. loop'[s] = LoopAt(l)
        BY <1>0, <1>6, RestartingMoves DEF Moves
    <2> QED
        BY <1>6, <2>1 DEF LoopAt
  <1>7. CASE \/ LoopWakes(s) \/ ObservesEmpty(s) \/ PeekFails(s) \/ ClaimRefused(s)
             \/ SetsWorking(s) \/ MarksError(s) \/ MarksIdle(s) \/ TellsLead(s)
             \/ ChecksAllIdle(s) \/ WakesLead(s) \/ PokesLead(s) \/ RecordsChild(s)
             \/ CompletesRun(s)
    <2>1. \E l \in LoopPcs \ Started : Goto(s, l) \/ Restarting(s, l)
        BY <1>7 DEF LoopWakes, ObservesEmpty, PeekFails, ClaimRefused, SetsWorking, MarksError,
           MarksIdle, TellsLead, ChecksAllIdle, WakesLead, PokesLead, RecordsChild, CompletesRun,
           LoopPcs, Started
    <2> QED
        BY <1>5, <1>6, <2>1
  <1>8. CASE Peeks(s)
    <2> DEFINE l == IF unread[s] = {} THEN "empty" ELSE "plan"
    <2>1. loop'[s] = [loop[s] EXCEPT !.peeked = unread[s], !.pc = l]
        BY <1>8, PeeksMoves DEF Moves
    <2>2. l \notin Started
        BY DEF Started
    <2> QED
        BY <1>0, <2>1, <2>2 DEF Loop
  <1>9. CASE Plans(s)
    <2> DEFINE l == IF IsActive THEN "claim" ELSE "work"
    <2>1. loop'[s] = [loop[s] EXCEPT !.run = IF IsActive THEN lastRun ELSE 0, !.pc = l]
        BY <1>0, <1>9, PlansMoves DEF Moves
    <2>2. l \notin Started
        BY DEF Started
    <2> QED
        BY <1>0, <2>1, <2>2 DEF Loop
  <1>10. CASE Claims(s)
    <2>1. loop'[s] = [loop[s] EXCEPT !.claim = lastRun, !.pc = "work"]
        BY <1>0, <1>10, ClaimsMoves DEF Moves
    <2> QED
        BY <1>0, <2>1 DEF Loop, Started
  <1>11. CASE PortRefusesTurn(s)
    <2>1. loop'[s] = [LoopAt("markError") EXCEPT !.result = "refused"]
        BY <1>11, PortRefusesMoves DEF Moves
    <2> QED
        BY <2>1 DEF LoopAt, Started
  <1>12. CASE TurnEnds(s)
    <2>1. \E r \in {"ok", "failed"} :
              loop'[s] = [loop[s] EXCEPT !.result = r, !.peeked = {}, !.asked = FALSE,
                                         !.pc = IF r = "ok" THEN "markIdle" ELSE "markError"]
        BY <1>12, TurnEndsMoves DEF Moves
    <2> QED
        BY <1>0, <2>1 DEF Loop, Started
  <1> QED
      BY <1>1, <1>2, <1>3, <1>4, <1>7, <1>8, <1>9, <1>10, <1>11, <1>12 DEF LoopStep

\* What a request was told of a child stays true while the loops step,
LEMMA LoopStepKeepsTold ==
  ASSUME SessionTypes, RecordInv, NEW s \in Slots,
         LoopStep(s) \/ PortRefusesTurn(s) \/ PortStartsTurn(s) \/ TurnEnds(s),
         NEW q \in Requests, Told(q)
  PROVE  Told(q)'
  <1>0. MgrTypeOK /\ req' = req
      BY LoopStepTypes DEF RecordInv
  <1>1. SUFFICES ASSUME req[q].pc = "record", NEW c \in req[q].kids, c.slot = req[q].at,
                        loop'[c.slot].turn = c.turn, loop'[c.slot].pc \in Started
                 PROVE  loop'[c.slot].asked
      BY <1>0 DEF Told
  <1>2. c \in Child /\ c.slot \in Slots /\ c /= NoChild
      BY ManagerAssumption DEF SessionTypes, Request, Child
  <1>3. CASE c.slot /= s
    <2>1. loop'[c.slot] = loop[c.slot]
        BY <1>0, <1>2, <1>3, LoopStepMoves DEF Moves
    <2> QED
        BY <1>1, <2>1 DEF Told
  <1>4. CASE c.slot = s
    <2>1. c.turn \in TurnsInUse(s)
        BY <1>2, <1>4 DEF TurnsInUse
    <2> QED
        BY <1>1, <1>4, <2>1, LoopStepFollows DEF Told
  <1> QED
      BY <1>3, <1>4

\* A request that goes on, and not to the recording of a child, leaves every other
\* request what it knows, as long as no loop moves and no mark is taken back.
LEMMA PassesKeepsTold ==
  ASSUME SessionTypes, NEW q \in Requests, Passes(q),
         \A x \in Slots : /\ loop'[x].turn = loop[x].turn /\ loop'[x].pc = loop[x].pc
                          /\ loop[x].asked => loop'[x].asked,
         NEW p \in Requests, Told(p)
  PROVE  Told(p)'
  <1>1. CASE p = q
      BY <1>1 DEF Passes, Proceeds, Told
  <1>2. CASE p /= q
    <2>1. req'[p] = req[p]
        BY <1>2 DEF Passes, Proceeds
    <2>2. \A c \in req[p].kids : c.slot \in Slots
        BY DEF SessionTypes, Request, Child
    <2> QED
        BY <2>1, <2>2 DEF Told
  <1> QED
      BY <1>1, <1>2

\* and while the requests do.
LEMMA RequestStepKeepsTold ==
  ASSUME SessionTypes, RecordInv, \A s \in Slots : InStep(s),
         \A q \in Requests : Orderly(req[q]) /\ Told(q),
         Arrives \/ \E q \in Requests : RequestStep(q),
         NEW p \in Requests
  PROVE  Told(p)'
  <1>1. ASSUME NEW q \in Requests, NEW c \in req[q].kids, CancelAsks(q, c)
        PROVE  Told(p)'
    <2>1. c \in Child /\ c.slot \in Slots
        BY DEF SessionTypes, Request, Child
    <2>2. \A x \in Slots : /\ loop'[x].turn = loop[x].turn /\ loop'[x].pc = loop[x].pc
                           /\ loop[x].asked => loop'[x].asked
                           /\ x = c.slot /\ loop[x].turn = c.turn => loop'[x].asked
        BY <1>1, <2>1, AskKeepsInStep DEF CancelAsks
    <2>3. Proceeds(q, [req[q] EXCEPT !.pc = "record", !.at = c.slot])
        BY <1>1, CancelAsksProceeds
    <2>4. CASE p = q
      <3>1. req'[q].kids = req[q].kids /\ req'[q].at = c.slot
          BY <2>3 DEF Proceeds, SessionTypes, Request
      <3>2. \A d \in req[q].kids : d.slot = c.slot => d = c
          BY DEF Orderly
      <3> QED
          BY <2>1, <2>2, <2>4, <3>1, <3>2 DEF Told
    <2>5. CASE p /= q
      <3>1. req'[p] = req[p] /\ \A d \in req[p].kids : d.slot \in Slots
          BY <2>3, <2>5 DEF Proceeds, SessionTypes, Request, Child
      <3> QED
          BY <2>2, <3>1 DEF Told
    <2> QED
        BY <2>4, <2>5
  <1>2. CASE ~\E q \in Requests : \E c \in req[q].kids : CancelAsks(q, c)
    <2>1. PICK q \in Requests : Passes(q)
        BY <1>2, RequestPasses
    <2>2. \A x \in Slots : /\ loop'[x].turn = loop[x].turn /\ loop'[x].pc = loop[x].pc
                           /\ loop[x].asked => loop'[x].asked
      <3>1. CASE loop' = loop
          BY <3>1
      <3>2. ASSUME NEW r \in Requests, NEW c \in req[r].kids,
                   CancelRecords(r, c) \/ ChildCancelRecords(r, c)
            PROVE  \A x \in Slots : /\ loop'[x].turn = loop[x].turn /\ loop'[x].pc = loop[x].pc
                                    /\ loop[x].asked => loop'[x].asked
        <4>1. c \in Child
            BY DEF SessionTypes, Request
        <4>2. DropsTurn(c) /\ RecordChildCancelled(c) /\ req[r].pc = "record"
              /\ c.slot = req[r].at
            BY <3>2 DEF CancelRecords, ChildCancelRecords, ReqAt, Is, Orderly
        <4>3. loop[c.slot].turn = c.turn /\ loop[c.slot].pc \in Started => loop[c.slot].asked
            BY <4>2 DEF Told
        <4> QED
            BY <4>1, <4>2, <4>3, RecordKeepsInStep
      <3>3. CASE Arrives
          BY <3>1, <3>3 DEF Arrives, UserAccepts, UserRefused, ToolAccepts, CancelChecks,
              CancelsActiveChild, CancelsStartingChild, OnlyReq
      <3>4. ASSUME NEW r \in Requests, RequestStep(r),
                   ~\E c \in req[r].kids : CancelRecords(r, c) \/ ChildCancelRecords(r, c)
            PROVE  loop' = loop
          BY <1>2, <3>4 DEF RequestStep, WritesRow, ReservesWake, CancelPeeks, WriteFails,
              WakeRejected, Notifies, CancelBegins, CancelMarks, CancelDrainFails, CancelLists,
              Settles, ChildCancelFails, ChildCancelCompletes, OnlyReq
      <3> QED
          BY <3>1, <3>2, <3>3, <3>4
    <2> QED
        BY <2>1, <2>2, PassesKeepsTold
  <1> QED
      BY <1>1, <1>2

----------------------------------------------------------------------------
\* The inductive invariant of the session: types, the run record in order, every loop in
\* step with the record, and every cancellation with what it was told.
SessionInv ==
    /\ SessionTypes
    /\ RecordInv
    /\ \A s \in Slots : InStep(s)
    /\ \A q \in Requests : Orderly(req[q]) /\ Told(q)

\* A session begins with an empty record and idle loops.
LEMMA InitEstablishesSession == Init => SessionInv
  <1> SUFFICES ASSUME Init PROVE SessionInv
      OBVIOUS
  <1>1. RecordInv
      BY InitEstablishesInv DEF Init
  <1>2. RequestAt("new") \in Request /\ Orderly(RequestAt("new"))
        /\ RequestAt("new").pc = "new"
      BY RequestAtTypes DEF RequestPcs, Kinds, RequestAt, Orderly
  <1>3. SessionTypes
      BY <1>2, FreshTypes, SessionAssumption DEF Init, SessionTypes, Nothing
  <1>4. ASSUME NEW s \in Slots PROVE InStep(s)
    <2>1. loop[s] = LoopAt("wait") /\ s \in Reservations
        BY SessionAssumption DEF Init, FreshLoops
    <2>2. starting[s] = NoReservation /\ active[s] = NoChild
        BY <2>1 DEF Init, MgrInit, NoReservations, NoChildren
    <2> QED
        BY <2>1, <2>2 DEF InStep, Placed, Books, Held, Entered, LoopAt, Early, Closing, Started
  <1>5. ASSUME NEW q \in Requests PROVE Orderly(req[q]) /\ Told(q)
      BY <1>2 DEF Init, Told
  <1> QED
      BY <1>1, <1>3, <1>4, <1>5 DEF SessionInv

\* Every step keeps the invariant of the session.
LEMMA NextKeepsSession == SessionInv /\ [Next]_vars => SessionInv'
  <1> SUFFICES ASSUME SessionInv, [Next]_vars PROVE SessionInv'
      OBVIOUS
  <1> USE DEF SessionInv
  <1>1. SessionTypes' /\ \A q \in Requests : Orderly(req'[q])
      BY NextTypes
  <1>2. RecordInv'
      BY NextKeepsRecord DEF InStep
  <1>3. ASSUME NEW s \in Slots,
               LoopStep(s) \/ PortRefusesTurn(s) \/ PortStartsTurn(s) \/ TurnEnds(s)
        PROVE  (\A x \in Slots : InStep(x)') /\ (\A q \in Requests : Told(q)')
      BY <1>3, LoopStepKeepsOwnSlot, LoopStepKeepsOtherSlots, LoopStepKeepsTold
  <1>4. CASE Arrives \/ \E q \in Requests : RequestStep(q)
    <2>1. ASSUME NEW q \in Requests PROVE Told(q)'
        BY <1>4, RequestStepKeepsTold
    <2>2. ASSUME NEW x \in Slots PROVE InStep(x)'
        BY <1>4, ArrivesKeepsSlots, RequestStepKeepsSlots
    <2> QED
        BY <1>1, <1>2, <2>1, <2>2
  <1>5. CASE Restart
      BY <1>1, <1>2, <1>5, RestartKeepsSlots, RestartTypes DEF Told
  <1>6. CASE UNCHANGED <<mgrVars, loop, req>>
    <2>1. ASSUME NEW x \in Slots PROVE InStep(x)'
        BY <1>6, <2>1, StutterIsQuiet, StillIsInStep
    <2>2. ASSUME NEW q \in Requests PROVE Told(q)'
        BY <1>6 DEF Told
    <2> QED
        BY <1>1, <1>2, <2>1, <2>2
  <1>7. (\E s \in Slots : RestoreDrains(s)) \/ UNCHANGED vars => UNCHANGED <<mgrVars, loop, req>>
      BY DEF RestoreDrains, vars
  <1> QED
      BY <1>1, <1>2, <1>3, <1>4, <1>5, <1>6, <1>7 DEF Next, Rests

\* What the loops and the run record say of each other never comes apart, whatever the
\* order of the sends, cancellations, faults and restarts.
THEOREM SessionInvariant == Spec => []SessionInv
  BY InitEstablishesSession, NextKeepsSession, PTL DEF Spec

\* The types of the whole session: every local of a loop and of a request, the rows and
\* the run record stay in their ranges, however the tasks interleave.
THEOREM SessionTypeCorrect == Spec => []TypeOK
  <1>1. SessionInv => TypeOK
      BY DEF SessionInv, RecordInv, SessionTypes, TypeOK
  <1> QED
      BY <1>1, SessionInvariant, PTL

\* The run record stays in order under the calls of the loops and the requests, and
\* across a restart of the session (team_run.rs behind session.rs and event_loop.rs).
THEOREM SessionKeepsRecord == Spec => [](TracksOwnRun /\ CancelFreezesRun /\ ClosedRunIsEmpty)
  <1>1. SessionInv => TracksOwnRun /\ CancelFreezesRun /\ ClosedRunIsEmpty
      BY DEF SessionInv, RecordInv
  <1> QED
      BY <1>1, SessionInvariant, PTL

\* Nothing the run waits for is an orphan: every reservation of claim_wake_for_turn is
\* held by a loop on its way to the port, and every child of record_child_started is the
\* turn its loop is in.
THEOREM NoOrphans == Spec => []TrackedWorkIsLive
  <1>1. SessionInv => TrackedWorkIsLive
      BY DEF SessionInv, InStep, Books, TrackedWorkIsLive, Closing
  <1> QED
      BY <1>1, SessionInvariant, PTL

\* A turn that its run counts holds the outcome of the run open, or at failed.
LEMMA CountedHoldsRun ==
  ASSUME SessionInv, NEW s \in Slots, Counted(s)
  PROVE  loop[s].asked \/ outcome[loop[s].claim] \in {"none", "failed"}
  <1>1. InStep(s) /\ RecordInv /\ loop[s].claim \in Runs
      BY ClaimTypes DEF SessionInv, Counted
  <1>2. CASE \/ starting[s] /= NoReservation /\ loop[s].claim = lastRun
             \/ active[s] /= NoChild /\ loop[s].claim = lastRun
    <2>1. s \in Reservations
        BY SessionAssumption
    <2>2. Exists
        BY <1>1, <1>2, <2>1
        DEF RecordInv, ClosedRunIsEmpty, Drained, NoChildren, NoReservations
    <2>3. ~(lastRun < lastRun)
        BY <1>1 DEF RecordInv, MgrTypeOK
    <2> QED
        BY <1>1, <1>2, <2>2, <2>3 DEF RecordInv, OpenRunUndecided
  <1> QED
      BY <1>1, <1>2 DEF InStep, Held, Entered, Counted

\* maybe_complete_locked does not announce a run completed while a turn that the run
\* counts is still to start or still runs, unless that turn was told to stop.
THEOREM CompletionWaits == Spec => []CompletesAfterTurns
  <1>1. SessionInv => CompletesAfterTurns
      BY CountedHoldsRun DEF CompletesAfterTurns
  <1> QED
      BY <1>1, SessionInvariant, PTL

\* try_complete_cancelled does not announce a run cancelled before every turn that the run
\* counts was told to stop, the late starts included.
THEOREM CancellationReaches == Spec => []CancelReachesTurns
  <1>1. SessionInv => CancelReachesTurns
      BY CountedHoldsRun DEF CancelReachesTurns
  <1> QED
      BY <1>1, SessionInvariant, PTL

----------------------------------------------------------------------------
\* Rows and turns.

\* Until a call fails or the session restarts, an unread row that was in a started turn is
\* one of the turn in progress.
SentInTurn ==
    faults = 0 /\ restarts = 0 =>
        \A s \in Slots : sent[s] \subseteq IF loop[s].pc \in Started THEN loop[s].peeked ELSE {}

\* A step that prompts nobody and ends no turn.
LEMMA SentStays ==
  ASSUME SentInTurn, faults = 0, restarts = 0, NEW x \in Slots, sent'[x] \subseteq sent[x],
         loop[x].pc \in Started => loop'[x].pc \in Started /\ loop'[x].peeked = loop[x].peeked
  PROVE  sent'[x] \subseteq IF loop'[x].pc \in Started THEN loop'[x].peeked ELSE {}
  BY DEF SentInTurn

\* Without a fault or a restart, a row in a prompt is one the running turn has read.
LEMMA LoopStepKeepsSent ==
  ASSUME SessionTypes, RecordInv, SentInTurn, faults = 0, restarts = 0, faults' = 0,
         NEW s \in Slots,
         LoopStep(s) \/ PortRefusesTurn(s) \/ PortStartsTurn(s) \/ TurnEnds(s),
         NEW x \in Slots
  PROVE  sent'[x] \subseteq IF loop'[x].pc \in Started THEN loop'[x].peeked ELSE {}
  <1>0. MgrTypeOK /\ loop \in [Slots -> Loop] /\ loop[s] \in Loop
        /\ sent \in [Slots -> SUBSET Rows]
      BY DEF RecordInv, SessionTypes
  <1>1. x /= s => loop'[x] = loop[x]
      BY <1>0, LoopStepMoves DEF Moves
  <1>2. CASE PortStartsTurn(s)
    <2>1. sent' = [sent EXCEPT ![s] = @ \cup loop[s].peeked] /\ loop[s].pc = "port"
        BY <1>2 DEF PortStartsTurn, At
    <2>2. CASE x = s
      <3>1. loop'[s] = [loop[s] EXCEPT !.turn = NewTurn(s), !.pc = AfterStart(s)]
          BY <1>2, PortStartsMoves DEF Moves
      <3>2. loop'[s].pc \in Started /\ loop'[s].peeked = loop[s].peeked
          BY <1>0, <3>1 DEF Loop, AfterStart, Started
      <3>3. sent[s] = {}
          BY <2>1 DEF SentInTurn, Started
      <3> QED
          BY <1>0, <2>1, <2>2, <3>2, <3>3
    <2>3. CASE x /= s
        BY <1>0, <1>1, <2>1, <2>3, SentStays
    <2> QED
        BY <2>2, <2>3
  <1>3. CASE TurnEnds(s)
    <2>1. MarkRead([Nothing EXCEPT ![s] = loop[s].peeked]) /\ loop[s].pc = "running"
        BY <1>3 DEF TurnEnds, Fault, At, SessionTypes
    <2>2. sent'[x] = sent[x] \ (IF x = s THEN loop[s].peeked ELSE {})
        BY <2>1 DEF MarkRead, Nothing
    <2>3. CASE x = s
      <3>1. sent[s] \subseteq loop[s].peeked
          BY <2>1 DEF SentInTurn, Started
      <3> QED
          BY <2>2, <2>3, <3>1
    <2>4. CASE x /= s
        BY <1>1, <2>2, <2>4, SentStays
    <2> QED
        BY <2>3, <2>4
  <1>4. ASSUME LoopStep(s) \/ PortRefusesTurn(s)
        PROVE  /\ sent' = sent
               /\ loop[s].pc \in Started
                    => LateStartCancels(s) \/ LateStartRecords(s) \/ LateStartTries(s)
      BY <1>4 DEF LoopStep, LoopWakes, Peeks, PeekFails, Plans, ObservesEmpty, Claims,
          ClaimRefused, SetsWorking, LateStartCancels, LateStartRecords, LateStartTries,
          MarksError, MarksIdle, TellsLead, ChecksAllIdle, WakesLead, PokesLead, RecordsChild,
          CompletesRun, PortRefusesTurn, OnlyLoop, kept, At, Started
  <1>5. ASSUME LateStartCancels(s) \/ LateStartRecords(s) \/ LateStartTries(s)
        PROVE  loop'[s].pc \in Started /\ loop'[s].peeked = loop[s].peeked
    <2>1. \/ loop'[s] = [loop[s] EXCEPT !.asked = TRUE, !.pc = "lateRecord"]
          \/ loop'[s] = [loop[s] EXCEPT !.pc = "lateTry"]
          \/ loop'[s] = [loop[s] EXCEPT !.pc = "running"]
        BY <1>0, <1>5, LateStartCancelsMoves, GotoMoves
        DEF LateStartRecords, LateStartTries, Moves, LoopPcs
    <2> QED
        BY <1>0, <2>1 DEF Loop, Started
  <1>6. CASE LoopStep(s) \/ PortRefusesTurn(s)
      BY <1>1, <1>4, <1>5, <1>6, SentStays
  <1> QED
      BY <1>2, <1>3, <1>6

\* The same of the steps of requests.
LEMMA RequestStepKeepsSent ==
  ASSUME SessionInv, SentInTurn, faults = 0, restarts = 0,
         Arrives \/ \E q \in Requests : RequestStep(q), NEW x \in Slots
  PROVE  sent'[x] \subseteq IF loop'[x].pc \in Started THEN loop'[x].peeked ELSE {}
  <1>1. sent'[x] \subseteq sent[x]
    <2>1. CASE sent' = sent
        BY <2>1
    <2>2. ASSUME NEW q \in Requests, CancelMarks(q)
          PROVE  sent'[x] \subseteq sent[x]
        BY <2>2 DEF CancelMarks, MarkRead
    <2>3. CASE Arrives
        BY <2>1, <2>3 DEF Arrives, UserAccepts, UserRefused, ToolAccepts, CancelChecks,
            CancelsActiveChild, CancelsStartingChild, OnlyReq, kept
    <2>4. ASSUME NEW q \in Requests, RequestStep(q), ~CancelMarks(q)
          PROVE  sent' = sent
        BY <2>4 DEF RequestStep, WritesRow, ReservesWake, CancelPeeks, WriteFails,
            WakeRejected, Notifies, CancelBegins, CancelDrainFails, CancelLists, Settles,
            CancelAsks, CancelRecords, ChildCancelRecords, ChildCancelFails,
            ChildCancelCompletes, OnlyReq, kept
    <2> QED
        BY <2>1, <2>2, <2>3, <2>4
  <1>2. loop'[x].pc = loop[x].pc /\ loop'[x].peeked = loop[x].peeked
    <2>1. CASE loop' = loop
        BY <2>1
    <2>2. ASSUME NEW q \in Requests, NEW c \in req[q].kids, AskToStop(c) \/ DropsTurn(c)
          PROVE  loop'[x].pc = loop[x].pc /\ loop'[x].peeked = loop[x].peeked
      <3>1. c \in Child /\ c.slot \in Slots /\ SessionTypes
          BY DEF SessionInv, SessionTypes, Request, Child
      <3>2. \E b \in BOOLEAN : \/ Moves(c.slot, [loop[c.slot] EXCEPT !.asked = b])
                               \/ Moves(c.slot, [loop[c.slot] EXCEPT !.dropped = b])
          BY <2>2, <3>1, AskToStopMoves, DropsTurnMoves
      <3> QED
          BY <3>1, <3>2 DEF SessionTypes, Loop, Moves
    <2>3. CASE Arrives
        BY <2>1, <2>3 DEF Arrives, UserAccepts, UserRefused, ToolAccepts, CancelChecks,
            CancelsActiveChild, CancelsStartingChild, OnlyReq
    <2>4. ASSUME NEW q \in Requests, RequestStep(q)
          PROVE  loop' = loop \/ \E c \in req[q].kids : AskToStop(c) \/ DropsTurn(c)
        BY <2>4 DEF RequestStep, WritesRow, ReservesWake, CancelPeeks, WriteFails,
            WakeRejected, Notifies, CancelBegins, CancelMarks, CancelDrainFails, CancelLists,
            Settles, CancelAsks, CancelRecords, ChildCancelRecords, ChildCancelFails,
            ChildCancelCompletes, OnlyReq
    <2> QED
        BY <2>1, <2>2, <2>3, <2>4
  <1> QED
      BY <1>1, <1>2, SentStays

\* Faults and restarts are counted, and nothing else is.
LEMMA FaultsCount ==
  ASSUME [Next]_vars, ~Fault
  PROVE  faults' = faults /\ (~Restart => restarts' = restarts)
  <1>1. ASSUME NEW s \in Slots, LoopStep(s)
        PROVE  UNCHANGED <<faults, restarts>>
      BY <1>1 DEF LoopStep, kept, LoopWakes, Peeks, PeekFails, Plans, ObservesEmpty,
         Claims, ClaimRefused, SetsWorking, LateStartCancels, LateStartRecords,
         LateStartTries, MarksError, MarksIdle, TellsLead, ChecksAllIdle, WakesLead,
         PokesLead, RecordsChild, CompletesRun, OnlyLoop
  <1>2. ASSUME NEW s \in Slots, PortRefusesTurn(s) \/ PortStartsTurn(s) \/ TurnEnds(s)
        PROVE  UNCHANGED <<faults, restarts>>
      BY <1>2 DEF PortRefusesTurn, PortStartsTurn, TurnEnds, kept
  <1>3. ASSUME NEW q \in Requests, RequestStep(q)
        PROVE  UNCHANGED <<faults, restarts>>
      BY <1>3 DEF RequestStep, kept, WritesRow, ReservesWake, CancelPeeks, WriteFails,
         WakeRejected, Notifies, CancelBegins, CancelMarks, CancelDrainFails, CancelLists,
         Settles, CancelAsks, CancelRecords, ChildCancelRecords, ChildCancelFails,
         ChildCancelCompletes, OnlyReq
  <1>4. Arrives => UNCHANGED <<faults, restarts>>
      BY DEF Arrives, UserAccepts, UserRefused, ToolAccepts, CancelChecks,
         CancelsActiveChild, CancelsStartingChild, kept, OnlyReq
  <1>5. (\E s \in Slots : RestoreDrains(s)) \/ UNCHANGED vars => UNCHANGED <<faults, restarts>>
      BY DEF RestoreDrains, vars, kept
  <1>6. Restart => faults' = faults
      BY DEF Restart
  <1> QED
      BY <1>1, <1>2, <1>3, <1>4, <1>5, <1>6 DEF Next, Rests

\* So every step keeps the rows in prompts to those of the running turns.
LEMMA NextKeepsSent == SessionInv /\ SentInTurn /\ [Next]_vars => SentInTurn'
  <1> SUFFICES ASSUME SessionInv, SentInTurn, [Next]_vars, faults' = 0, restarts' = 0,
                      NEW x \in Slots
               PROVE  sent'[x] \subseteq IF loop'[x].pc \in Started THEN loop'[x].peeked ELSE {}
      BY DEF SentInTurn
  <1>0. faults \in Nat /\ restarts \in Nat /\ SessionTypes /\ RecordInv
      BY SessionAssumption DEF SessionInv, SessionTypes
  <1>1. ~Restart
      BY <1>0 DEF Restart
  <1>2. ~Fault
      BY <1>0 DEF Fault
  <1>3. faults = 0 /\ restarts = 0
      BY <1>1, <1>2, FaultsCount
  <1>4. ASSUME NEW s \in Slots, RestoreDrains(s)
        PROVE  sent' = sent /\ loop' = loop
      BY <1>4 DEF RestoreDrains
  <1>5. UNCHANGED vars => sent' = sent /\ loop' = loop
      BY DEF vars, kept
  <1> QED
      BY <1>0, <1>1, <1>3, <1>4, <1>5, LoopStepKeepsSent, RequestStepKeepsSent, SentStays
      DEF Next, Rests

\* As long as no call fails and the session is not restarted, no agent is prompted twice
\* with a row: mark_read_batch after the turn comes before the next peek of the loop, and
\* the drain of cancel_run only takes rows away.
THEOREM RowsArePromptedOnce == Spec => []PromptedOnce
  <1>1. Init => SentInTurn
      BY DEF Init, Nothing, SentInTurn
  <1>2. SentInTurn => PromptedOnce
      BY DEF SentInTurn, PromptedOnce, DeliveredOnce, Started
  <1> QED
      BY <1>1, <1>2, SessionInvariant, NextKeepsSent, PTL DEF Spec

----------------------------------------------------------------------------
\* Wakes.

\* The sessions in question: at most two user messages, nothing sent by an agent, nothing
\* cancelled.
TwoSends ==
    /\ IsFiniteSet(UserSends) /\ Cardinality(UserSends) <= 2
    /\ ToolSends = {} /\ RunCancels = {} /\ ChildCancels = {}

\* From the plan of a turn to its end, a loop carries rows, and they are still unread.
Turning == {"work", "port", "lateCancel", "lateRecord", "lateTry", "running"}

Delivers(s) ==
    loop[s].pc \in {"plan", "claim"} \cup Turning =>
        loop[s].peeked /= {} /\ loop[s].peeked \subseteq unread[s]

\* A user message goes to one slot.
Single(q) ==
    /\ req[q].pc \in {"new", "write", "wake", "notify", "done", "refused", "error", "lost"}
    /\ req[q].pc \in {"write", "wake", "notify"} =>
         /\ Is(q, "userSend")
         /\ \E s \in Slots : /\ req[q].to = {s} /\ req[q].left = {s}
                             /\ req[q].pc = "notify" => req[q].at = s

\* What can still become a wake of slot s: messages to come, which may be written to s or
\* make a teammate report to the lead; unread rows and reports of the teammates, for the
\* lead; and the wakes about to be reserved.
Brings(r, s) == r.pc = "new" \/ (r.pc = "write" /\ (s = Lead \/ r.to = {s}))
Coming(s) == {q \in Requests : Brings(req[q], s)}

Theirs(s) == {x \in Slots \X Rows : s = Lead /\ x[1] /= Lead /\ x[2] \in unread[x[1]]}

Tells(t, l) == l = "tellLead" \/ (t /= Lead /\ l \in {"markError", "markIdle"})
Telling(s) == {t \in Slots : s = Lead /\ Tells(t, loop[t].pc)}

Wakes(r, s) == r.pc = "wake" /\ r.to = {s}
Waking(s) == {q \in Requests : Wakes(req[q], s)}

Reports(l) == l \in {"allIdle", "wakeLead"}
Reporting(s) == {t \in Slots : s = Lead /\ Reports(loop[t].pc)}

\* The wakes of s, reserved or about to be.
Due(s) == pending[s] + Cardinality(Waking(s)) + Cardinality(Reporting(s))

\* There are never more than two of all these.
Few(s) ==
    /\ IsFiniteSet(Coming(s)) /\ IsFiniteSet(Theirs(s)) /\ IsFiniteSet(Telling(s))
    /\ IsFiniteSet(Waking(s)) /\ IsFiniteSet(Reporting(s))
    /\ Cardinality(Coming(s)) + Cardinality(Theirs(s)) + Cardinality(Telling(s)) + Due(s) <= 2

\* s has a row to send that is not part of a turn, or is about to send what it has.
Fresh(s) ==
    \/ loop[s].pc \in {"plan", "claim"}
    \/ \E m \in unread[s] : loop[s].pc \in Turning => m \notin loop[s].peeked

\* Two wakes are not queued on behalf of a mailbox that the next peek finds empty.
Backed(s) == IsActive /\ Due(s) = 2 => Fresh(s)

\* Whoever sleeps on a wake is about to be woken, and whoever is to settle an empty
\* mailbox settles the last wake.
Attended(s) ==
    \/ permit[s] \/ AboutToNotify(s)
    \/ pending[s] = 0
    \/ ~At(s, "wait") /\ (pending[s] = 1 \/ ~At(s, "empty"))

Wakeful(s) == Delivers(s) /\ Few(s) /\ Backed(s) /\ Attended(s)

WakesKept ==
    faults = 0 =>
        /\ \A s \in Slots : Wakeful(s)
        /\ \A q \in Requests : Single(q)

\* T is finite, and has at most n elements more than S.
GrowsBy(T, S, n) == IsFiniteSet(T) /\ Cardinality(T) <= Cardinality(S) + n

\* A finite set shrinks,
LEMMA SetShrinks ==
  ASSUME NEW S, NEW T \in SUBSET S, IsFiniteSet(S)
  PROVE  GrowsBy(T, S, 0)
  BY FS_Subset, FS_CardinalityType DEF GrowsBy

\* ... loses an element,
LEMMA SetLoses ==
  ASSUME NEW S, NEW e \in S, NEW T \in SUBSET (S \ {e}), IsFiniteSet(S)
  PROVE  GrowsBy(T, S, -1)
  <1>1. IsFiniteSet(S \ {e}) /\ Cardinality(S \ {e}) = Cardinality(S) - 1
      BY FS_RemoveElement
  <1>2. IsFiniteSet(T) /\ Cardinality(T) <= Cardinality(S \ {e})
      BY <1>1, FS_Subset
  <1> QED
      BY <1>1, <1>2, FS_CardinalityType DEF GrowsBy

\* ... or gains one.
LEMMA SetGains ==
  ASSUME NEW S, NEW e, NEW T \in SUBSET (S \cup {e}), IsFiniteSet(S)
  PROVE  GrowsBy(T, S, 1)
  <1>1. /\ IsFiniteSet(S \cup {e})
        /\ Cardinality(S \cup {e}) = IF e \in S THEN Cardinality(S) ELSE Cardinality(S) + 1
      BY FS_AddElement
  <1>2. Cardinality(S) \in Nat
      BY FS_CardinalityType
  <1>3. IsFiniteSet(T) /\ Cardinality(T) \in Nat /\ Cardinality(T) <= Cardinality(S \cup {e})
      BY <1>1, FS_Subset, FS_CardinalityType
  <1> QED
      BY <1>1, <1>2, <1>3 DEF GrowsBy

\* The numbers behind Few.
LEMMA FewTypes ==
  ASSUME NEW x \in Slots, MgrTypeOK, Few(x)
  PROVE  /\ pending[x] \in Nat
         /\ Cardinality(Coming(x)) \in Nat /\ Cardinality(Theirs(x)) \in Nat
         /\ Cardinality(Telling(x)) \in Nat /\ Cardinality(Waking(x)) \in Nat
         /\ Cardinality(Reporting(x)) \in Nat
         /\ Due(x) \in 0..2
  <1>1. pending[x] \in Nat
      BY ManagerAssumption DEF MgrTypeOK
  <1>2. /\ Cardinality(Coming(x)) \in Nat /\ Cardinality(Theirs(x)) \in Nat
        /\ Cardinality(Telling(x)) \in Nat /\ Cardinality(Waking(x)) \in Nat
        /\ Cardinality(Reporting(x)) \in Nat
      BY FS_CardinalityType DEF Few
  <1>3. /\ Due(x) = pending[x] + Cardinality(Waking(x)) + Cardinality(Reporting(x))
        /\ Cardinality(Coming(x)) + Cardinality(Theirs(x)) + Cardinality(Telling(x)) + Due(x) <= 2
      BY DEF Few, Due
  <1>4. Due(x) \in Nat
      BY <1>1, <1>2, <1>3
  <1>5. Due(x) <= 2
      BY <1>1, <1>2, <1>3, <1>4
  <1> QED
      BY <1>1, <1>2, <1>4, <1>5

\* What goes to one of the sets behind Few comes from another.
LEMMA FewTransfers ==
  ASSUME NEW x \in Slots, MgrTypeOK, MgrTypeOK', Few(x),
         NEW c \in Int, NEW h \in Int, NEW t \in Int, NEW w \in Int, NEW r \in Int,
         GrowsBy(Coming(x)', Coming(x), c), GrowsBy(Theirs(x)', Theirs(x), h),
         GrowsBy(Telling(x)', Telling(x), t), GrowsBy(Waking(x)', Waking(x), w),
         GrowsBy(Reporting(x)', Reporting(x), r),
         c + h + t + w + r + pending'[x] <= pending[x]
  PROVE  /\ Few(x)'
         /\ Due(x)' \in Nat
         /\ Due(x)' + pending[x] <= Due(x) + w + r + pending'[x]
  <1>1. pending[x] \in Nat /\ pending'[x] \in Nat
      BY ManagerAssumption DEF MgrTypeOK
  <1>2. /\ Cardinality(Coming(x)) \in Nat /\ Cardinality(Theirs(x)) \in Nat
        /\ Cardinality(Telling(x)) \in Nat /\ Cardinality(Waking(x)) \in Nat
        /\ Cardinality(Reporting(x)) \in Nat /\ Due(x) \in Nat
      BY FewTypes
  <1>3. /\ IsFiniteSet(Coming(x)') /\ IsFiniteSet(Theirs(x)') /\ IsFiniteSet(Telling(x)')
        /\ IsFiniteSet(Waking(x)') /\ IsFiniteSet(Reporting(x)')
      BY DEF GrowsBy
  <1>4. /\ Cardinality(Coming(x)') \in Nat /\ Cardinality(Theirs(x)') \in Nat
        /\ Cardinality(Telling(x)') \in Nat /\ Cardinality(Waking(x)') \in Nat
        /\ Cardinality(Reporting(x)') \in Nat
      BY <1>3, FS_CardinalityType
  <1>5. /\ Cardinality(Coming(x)') <= Cardinality(Coming(x)) + c
        /\ Cardinality(Theirs(x)') <= Cardinality(Theirs(x)) + h
        /\ Cardinality(Telling(x)') <= Cardinality(Telling(x)) + t
        /\ Cardinality(Waking(x)') <= Cardinality(Waking(x)) + w
        /\ Cardinality(Reporting(x)') <= Cardinality(Reporting(x)) + r
      BY DEF GrowsBy
  <1>6. /\ Due(x) = pending[x] + Cardinality(Waking(x)) + Cardinality(Reporting(x))
        /\ Due(x)' = pending'[x] + Cardinality(Waking(x)') + Cardinality(Reporting(x)')
      BY DEF Due
  <1>7. Due(x)' \in Nat /\ Due(x)' + pending[x] <= Due(x) + w + r + pending'[x]
      BY <1>1, <1>2, <1>4, <1>5, <1>6
  <1>8. Cardinality(Coming(x)) + Cardinality(Theirs(x)) + Cardinality(Telling(x)) + Due(x) <= 2
      BY DEF Few
  <1>9. Cardinality(Coming(x)') + Cardinality(Theirs(x)') + Cardinality(Telling(x)')
          + Due(x)' <= 2
      BY <1>1, <1>2, <1>4, <1>5, <1>6, <1>8
  <1> QED
      BY <1>3, <1>7, <1>9 DEF Few

\* A step that adds nothing to the wakes of x.
Eased(x) == Few(x)' /\ Due(x)' \in 0..Due(x)

\* Fewer wakes to come.
LEMMA FewStays ==
  ASSUME NEW x \in Slots, MgrTypeOK, MgrTypeOK', Few(x), pending'[x] <= pending[x],
         Coming(x)' \subseteq Coming(x), Theirs(x)' \subseteq Theirs(x),
         Telling(x)' \subseteq Telling(x), Waking(x)' \subseteq Waking(x),
         Reporting(x)' \subseteq Reporting(x)
  PROVE  Eased(x) /\ Due(x)' + pending[x] <= Due(x) + pending'[x]
  <1>1. pending[x] \in Nat /\ pending'[x] \in Nat /\ Due(x) \in Nat
      BY FewTypes, ManagerAssumption DEF MgrTypeOK
  <1>2. /\ GrowsBy(Coming(x)', Coming(x), 0) /\ GrowsBy(Theirs(x)', Theirs(x), 0)
        /\ GrowsBy(Telling(x)', Telling(x), 0) /\ GrowsBy(Waking(x)', Waking(x), 0)
        /\ GrowsBy(Reporting(x)', Reporting(x), 0)
      BY SetShrinks DEF Few
  <1>3. /\ Few(x)' /\ Due(x)' \in Nat
        /\ Due(x)' + pending[x] <= Due(x) + 0 + 0 + pending'[x]
      BY <1>1, <1>2, FewTransfers
  <1> QED
      BY <1>1, <1>3 DEF Eased

\* The calls of a loop, but for the wake of the lead, settle wakes and open no run.
LEMMA CallsSettle ==
  ASSUME MgrTypeOK, NEW x \in Slots,
         \/ UNCHANGED mgrVars \/ MaybeComplete \/ TryCompleteCancelled
         \/ \E s \in Slots : RecordEmptyWakeObserved(s) \/ ClaimWakeForTurn(s, s)
         \/ \E s \in Slots : \E c, t, ok : \/ RecordChildStarted(s, c) \/ RecordChildCancelled(c)
                                           \/ RecordChildCompleted(s, t, ok)
  PROVE  pending'[x] <= pending[x] /\ (IsActive' => IsActive)
  <1>1. pending \in [Slots -> 0..MaxWakes] /\ pending[x] \in Nat
      BY ManagerAssumption DEF MgrTypeOK
  <1>2. ASSUME UNCHANGED mgrVars
        PROVE  pending'[x] <= pending[x] /\ (IsActive' => IsActive)
      BY <1>1, <1>2 DEF mgrVars, IsActive
  <1>3. ASSUME NEW e, Close(e)
        PROVE  pending'[x] <= pending[x] /\ ~IsActive'
      BY <1>1, <1>3 DEF Close, NoWakes, IsActive
  <1>4. ASSUME NEW a, NEW st, NEW p, Keep(a, st, p), p[x] <= pending[x]
        PROVE  pending'[x] <= pending[x] /\ (IsActive' => IsActive)
      BY <1>4 DEF Keep, IsActive
  <1>5. ASSUME NEW a, NEW st, NEW p, p[x] <= pending[x],
               MaybeCompleteLocked(a, st, p) \/ MaybeCancelledLocked(a, st, p)
        PROVE  pending'[x] <= pending[x] /\ (IsActive' => IsActive)
      BY <1>3, <1>4, <1>5 DEF MaybeCompleteLocked, MaybeCancelledLocked
  <1>6. pending[x] <= pending[x]
      BY <1>1
  <1>7. CASE MaybeComplete \/ TryCompleteCancelled
      BY <1>2, <1>5, <1>6, <1>7 DEF MaybeComplete, TryCompleteCancelled
  <1>8. ASSUME NEW s \in Slots, RecordEmptyWakeObserved(s)
        PROVE  pending'[x] <= pending[x] /\ (IsActive' => IsActive)
    <2> DEFINE p == [pending EXCEPT ![s] = IF @ > 0 THEN @ - 1 ELSE 0]
    <2>1. p[x] <= pending[x]
        BY <1>1
    <2> HIDE DEF p
    <2>2. UNCHANGED mgrVars \/ MaybeCompleteLocked(active, starting, p)
        BY <1>8 DEF RecordEmptyWakeObserved, p
    <2> QED
        BY <1>2, <1>5, <2>1, <2>2
  <1>9. ASSUME NEW s \in Slots, ClaimWakeForTurn(s, s)
        PROVE  pending'[x] <= pending[x] /\ (IsActive' => IsActive)
      BY <1>1, <1>9 DEF ClaimWakeForTurn, CanClaim, IsActive
  <1>10. ASSUME NEW s \in Slots, NEW c, RecordChildStarted(s, c)
         PROVE  pending'[x] <= pending[x] /\ (IsActive' => IsActive)
    <2>1. CASE UNCHANGED mgrVars
        BY <1>2, <2>1
    <2>2. CASE /\ pending' = pending
               /\ status' = IF ChildStartDecision(s, c) = "accepted" THEN "running" ELSE status
      <3>1. ChildStartDecision(s, c) = "accepted" => status \notin {"none", "cancelling"}
          BY DEF ChildStartDecision, Exists
      <3> QED
          BY <1>6, <2>2, <3>1 DEF MgrTypeOK, IsActive
    <2> QED
        BY <1>10, <2>1, <2>2 DEF RecordChildStarted
  <1>11. ASSUME NEW c, RecordChildCancelled(c)
         PROVE  pending'[x] <= pending[x] /\ (IsActive' => IsActive)
      BY <1>2, <1>5, <1>6, <1>11 DEF RecordChildCancelled
  <1>12. ASSUME NEW s \in Slots, NEW t, NEW ok, RecordChildCompleted(s, t, ok)
         PROVE  pending'[x] <= pending[x] /\ (IsActive' => IsActive)
      BY <1>2, <1>3, <1>5, <1>6, <1>12 DEF RecordChildCompleted
  <1> QED
      BY <1>2, <1>7, <1>8, <1>9, <1>10, <1>11, <1>12

\* A loop goes somewhere with its rows, or without them.
LEMMA GotoRoute ==
  ASSUME SessionTypes, NEW s \in Slots, NEW l \in LoopPcs, Goto(s, l)
  PROVE  loop'[s].pc = l /\ loop'[s].peeked = loop[s].peeked
  <1>1. loop'[s] = [loop[s] EXCEPT !.pc = l]
      BY GotoMoves DEF SessionTypes, Moves
  <1>2. loop[s] \in Loop
      BY DEF SessionTypes
  <1> QED
      BY <1>1, <1>2 DEF Loop

\* Or it goes without them.
LEMMA RestartingRoute ==
  ASSUME SessionTypes, NEW s \in Slots, NEW l \in LoopPcs, Restarting(s, l)
  PROVE  loop'[s].pc = l /\ loop'[s].peeked = {}
  <1>1. loop'[s] = LoopAt(l)
      BY RestartingMoves DEF SessionTypes, Moves
  <1> QED
      BY <1>1 DEF LoopAt

\* The steps that take s nowhere near a wake: it stays in its turn, or out of one.
Calm(s) ==
    /\ loop'[s].pc \notin {"wait", "empty", "plan", "claim"}
    /\ \/ /\ loop[s].pc \in Turning /\ loop'[s].pc \in Turning
          /\ loop'[s].peeked = loop[s].peeked
       \/ loop[s].pc \notin Turning \cup {"plan", "claim"} /\ loop'[s].pc \notin Turning

\* And it brings no wake nearer to the lead.
Idles(s) ==
    /\ Tells(s, loop'[s].pc) => Tells(s, loop[s].pc)
    /\ Reports(loop'[s].pc) => Reports(loop[s].pc)

\* The steps of a loop that are calm and bring the lead no wake.
LEMMA LoopStepIsCalm ==
  ASSUME SessionTypes, NEW s \in Slots,
         \/ LoopWakes(s) \/ SetsWorking(s) \/ LateStartCancels(s) \/ LateStartRecords(s)
         \/ LateStartTries(s) \/ MarksError(s) \/ MarksIdle(s) \/ ChecksAllIdle(s)
         \/ PokesLead(s) \/ RecordsChild(s) \/ CompletesRun(s) \/ PortStartsTurn(s)
  PROVE  Calm(s) /\ Idles(s)
  <1>0. loop[s] \in Loop
      BY DEF SessionTypes
  <1> USE DEF At
  <1>1. CASE LoopWakes(s)
    <2>1. loop[s].pc = "wait" /\ loop'[s].pc = "peek"
        BY <1>1, GotoRoute DEF LoopWakes, LoopPcs
    <2> QED
        BY <2>1 DEF Calm, Idles, Turning, Tells, Reports
  <1>2. CASE SetsWorking(s) \/ LateStartRecords(s) \/ LateStartTries(s)
    <2>1. /\ loop[s].pc \in Turning /\ loop'[s].pc \in Turning
          /\ loop'[s].peeked = loop[s].peeked
        BY <1>2, GotoRoute DEF SetsWorking, LateStartRecords, LateStartTries, LoopPcs, Turning
    <2> QED
        BY <2>1 DEF Calm, Idles, Turning, Tells, Reports
  <1>3. CASE LateStartCancels(s)
    <2>1. loop'[s] = [loop[s] EXCEPT !.asked = TRUE, !.pc = "lateRecord"]
        BY <1>3, LateStartCancelsMoves DEF Moves
    <2>2. loop'[s].pc = "lateRecord" /\ loop'[s].peeked = loop[s].peeked
        BY <1>0, <2>1 DEF Loop
    <2>3. loop[s].pc = "lateCancel"
        BY <1>3 DEF LateStartCancels
    <2> QED
        BY <2>2, <2>3 DEF Calm, Idles, Turning, Tells, Reports
  <1>4. CASE PortStartsTurn(s)
    <2>1. loop'[s] = [loop[s] EXCEPT !.turn = NewTurn(s), !.pc = AfterStart(s)]
        BY <1>4, PortStartsMoves DEF Moves
    <2>2. loop'[s].pc = AfterStart(s) /\ loop'[s].peeked = loop[s].peeked
        BY <1>0, <2>1 DEF Loop
    <2>3. loop[s].pc = "port" /\ AfterStart(s) \in {"lateCancel", "running"}
        BY <1>4 DEF PortStartsTurn, AfterStart
    <2> QED
        BY <2>2, <2>3 DEF Calm, Idles, Turning, Tells, Reports
  <1>5. CASE MarksError(s)
    <2>1. loop[s].pc = "markError" /\ loop'[s].pc = "markIdle"
        BY <1>5, GotoRoute DEF MarksError, LoopPcs
    <2> QED
        BY <2>1 DEF Calm, Idles, Turning, Tells, Reports
  <1>6. CASE MarksIdle(s)
    <2>1. (IF s = Lead THEN "record" ELSE "tellLead") \in LoopPcs
        BY DEF LoopPcs
    <2>2. loop[s].pc = "markIdle" /\ loop'[s].pc = IF s = Lead THEN "record" ELSE "tellLead"
        BY <1>6, <2>1, GotoRoute DEF MarksIdle
    <2> QED
        BY <2>2 DEF Calm, Idles, Turning, Tells, Reports
  <1>7. CASE ChecksAllIdle(s)
    <2> DEFINE l == IF AllSettled /\ member[Lead] = "idle" THEN "wakeLead" ELSE "record"
    <2>1. l \in {"wakeLead", "record"} /\ l \in LoopPcs
        BY DEF LoopPcs
    <2>2. loop[s].pc = "allIdle" /\ Goto(s, l)
        BY <1>7 DEF ChecksAllIdle
    <2> HIDE DEF l
    <2>3. loop'[s].pc = l
        BY <2>1, <2>2, GotoRoute
    <2> QED
        BY <2>1, <2>2, <2>3 DEF Calm, Idles, Turning, Tells, Reports
  <1>8. CASE PokesLead(s)
    <2>1. loop[s].pc = "pokeLead" /\ loop'[s].pc = "record"
        BY <1>8, GotoRoute DEF PokesLead, LoopPcs
    <2> QED
        BY <2>1 DEF Calm, Idles, Turning, Tells, Reports
  <1>9. CASE RecordsChild(s)
    <2>1. loop[s].pc = "record" /\ loop'[s].pc \in {"maybe", "peek"}
        BY <1>9, RestartingRoute DEF RecordsChild, LoopPcs
    <2> QED
        BY <2>1 DEF Calm, Idles, Turning, Tells, Reports
  <1>10. CASE CompletesRun(s)
    <2>1. loop[s].pc = "maybe" /\ loop'[s].pc = "peek"
        BY <1>10, GotoRoute DEF CompletesRun, LoopPcs
    <2> QED
        BY <2>1 DEF Calm, Idles, Turning, Tells, Reports
  <1> QED
      BY <1>1, <1>2, <1>3, <1>4, <1>5, <1>6, <1>7, <1>8, <1>9, <1>10

\* A slot that a step brings no wake, and leaves its rows.
LEMMA BackedStays ==
  ASSUME NEW x \in Slots, MgrTypeOK, Wakeful(x), Eased(x), IsActive' => IsActive,
         Fresh(x) => Fresh(x)'
  PROVE  Backed(x)'
  <1>1. Due(x) \in 0..2 /\ Due(x)' \in 0..Due(x)
      BY FewTypes DEF Wakeful, Eased
  <1> QED
      BY <1>1 DEF Wakeful, Backed

\* A slot that a step passes by.
LEMMA PassedBy ==
  ASSUME NEW x \in Slots, Wakeful(x), loop'[x] = loop[x], unread[x] \subseteq unread'[x]
  PROVE  Delivers(x)' /\ (Fresh(x) => Fresh(x)')
  BY DEF Wakeful, Delivers, Fresh

\* As long as no wake is added, and nobody is robbed of a notification, it is as before.
LEMMA WakefulPassedBy ==
  ASSUME NEW x \in Slots, MgrTypeOK, MgrTypeOK', Wakeful(x),
         Eased(x), IsActive' => IsActive, pending'[x] <= pending[x],
         loop'[x] = loop[x], unread[x] \subseteq unread'[x],
         permit[x] \/ AboutToNotify(x) => permit'[x] \/ AboutToNotify(x)'
  PROVE  Wakeful(x)'
  <1>1. pending[x] \in Nat /\ pending'[x] \in Nat
      BY ManagerAssumption DEF MgrTypeOK
  <1>2. Delivers(x)' /\ Backed(x)' /\ Few(x)'
      BY PassedBy, BackedStays DEF Eased
  <1>3. Attended(x)'
      BY <1>1 DEF Wakeful, Attended, At
  <1> QED
      BY <1>2, <1>3 DEF Wakeful

\* The slot whose loop takes a calm step.
LEMMA CalmIsWakeful ==
  ASSUME NEW s \in Slots, MgrTypeOK, Wakeful(s), Calm(s), Eased(s), IsActive' => IsActive,
         unread[s] \subseteq unread'[s]
  PROVE  Wakeful(s)'
  <1>1. Fresh(s) => Fresh(s)'
      BY DEF Fresh, Calm, Turning
  <1>2. Backed(s)' /\ Few(s)'
      BY <1>1, BackedStays DEF Eased
  <1>3. Attended(s)'
      BY DEF Calm, Attended, At
  <1>4. Delivers(s)'
      BY DEF Wakeful, Delivers, Calm
  <1> QED
      BY <1>2, <1>3, <1>4 DEF Wakeful

\* What a step of the loop of s does to the sets behind Few.
LEMMA LoopCounts ==
  ASSUME NEW s \in Slots, NEW x \in Slots, \A t \in Slots \ {s} : loop'[t] = loop[t],
         req' = req
  PROVE  /\ Coming(x)' \subseteq Coming(x) /\ Waking(x)' \subseteq Waking(x)
         /\ unread' = unread => Theirs(x)' \subseteq Theirs(x)
         /\ Telling(x)' \subseteq Telling(x) \cup {s}
         /\ (Tells(s, loop'[s].pc) => Tells(s, loop[s].pc)) => Telling(x)' \subseteq Telling(x)
         /\ ~Tells(s, loop'[s].pc) => Telling(x)' \subseteq Telling(x) \ {s}
         /\ Reporting(x)' \subseteq Reporting(x) \cup {s}
         /\ (Reports(loop'[s].pc) => Reports(loop[s].pc)) => Reporting(x)' \subseteq Reporting(x)
         /\ ~Reports(loop'[s].pc) => Reporting(x)' \subseteq Reporting(x) \ {s}
  <1>1. Coming(x)' \subseteq Coming(x) /\ Waking(x)' \subseteq Waking(x)
      BY DEF Coming, Waking
  <1>2. unread' = unread => Theirs(x)' \subseteq Theirs(x)
      BY DEF Theirs
  <1>3. /\ Telling(x)' \subseteq Telling(x) \cup {s}
        /\ (Tells(s, loop'[s].pc) => Tells(s, loop[s].pc)) => Telling(x)' \subseteq Telling(x)
        /\ ~Tells(s, loop'[s].pc) => Telling(x)' \subseteq Telling(x) \ {s}
      BY DEF Telling
  <1>4. /\ Reporting(x)' \subseteq Reporting(x) \cup {s}
        /\ (Reports(loop'[s].pc) => Reports(loop[s].pc)) => Reporting(x)' \subseteq Reporting(x)
        /\ ~Reports(loop'[s].pc) => Reporting(x)' \subseteq Reporting(x) \ {s}
      BY DEF Reporting
  <1> QED
      BY <1>1, <1>2, <1>3, <1>4

\* Whoever is about to be notified still is, unless it just was.
LEMMA LoopStepNotifies ==
  ASSUME SessionTypes, MgrTypeOK, NEW s \in Slots,
         LoopStep(s) \/ PortStartsTurn(s) \/ TurnEnds(s),
         NEW x \in Slots, x = s => ~LoopWakes(s), permit[x] \/ AboutToNotify(x)
  PROVE  permit'[x] \/ AboutToNotify(x)'
  <1>1. req' = req /\ \A t \in Slots \ {s} : loop'[t] = loop[t]
      BY LoopStepTypes, LoopStepMoves DEF Moves
  <1>2. CASE PokesLead(s)
    <2>1. permit' = [permit EXCEPT ![Lead] = TRUE]
        BY <1>2 DEF PokesLead, Notify
    <2>2. x = Lead => permit'[x]
        BY <2>1 DEF SessionTypes
    <2>3. x /= Lead => permit'[x] = permit[x] /\ (AboutToNotify(x)' <=> AboutToNotify(x))
        BY <1>1, <2>1 DEF AboutToNotify, SessionTypes
    <2> QED
        BY <2>2, <2>3
  <1>3. CASE ~PokesLead(s)
    <2>1. loop[s].pc /= "pokeLead"
        BY <1>3 DEF LoopStep, LoopWakes, Peeks, PeekFails, Plans, ObservesEmpty, Claims,
            ClaimRefused, SetsWorking, LateStartCancels, LateStartRecords, LateStartTries,
            MarksError, MarksIdle, TellsLead, ChecksAllIdle, WakesLead, RecordsChild,
            CompletesRun, PortStartsTurn, TurnEnds, At
    <2>2. AboutToNotify(x) => AboutToNotify(x)'
        BY <1>1, <2>1 DEF AboutToNotify
    <2>3. CASE LoopWakes(s)
      <3>1. permit'[x] = permit[x]
          BY <2>3 DEF LoopWakes, SessionTypes
      <3> QED
          BY <2>2, <3>1
    <2>4. ASSUME ~LoopWakes(s)
          PROVE  permit' = permit
        BY <1>3, <2>4 DEF LoopStep, Peeks, PeekFails, Plans, ObservesEmpty, Claims,
            ClaimRefused, SetsWorking, LateStartCancels, LateStartRecords, LateStartTries,
            MarksError, MarksIdle, TellsLead, ChecksAllIdle, WakesLead, RecordsChild,
            CompletesRun, PortStartsTurn, TurnEnds
    <2> QED
        BY <2>2, <2>3, <2>4
  <1> QED
      BY <1>2, <1>3

\* But for the wake of the lead, a loop only settles wakes.
LEMMA LoopStepSettles ==
  ASSUME MgrTypeOK, NEW s \in Slots, NEW x \in Slots,
         LoopStep(s) \/ PortStartsTurn(s) \/ TurnEnds(s), ~(WakesLead(s) /\ IsActive)
  PROVE  pending'[x] <= pending[x] /\ (IsActive' => IsActive)
  <1>1. CASE UNCHANGED mgrVars
      BY <1>1, CallsSettle
  <1>2. CASE \/ LoopWakes(s) \/ Peeks(s) \/ PeekFails(s) \/ Plans(s) \/ ClaimRefused(s)
             \/ SetsWorking(s) \/ LateStartCancels(s) \/ MarksError(s) \/ MarksIdle(s)
             \/ TellsLead(s) \/ ChecksAllIdle(s) \/ PokesLead(s) \/ TurnEnds(s)
      BY <1>1, <1>2 DEF LoopWakes, Peeks, PeekFails, Plans, ClaimRefused, SetsWorking,
          LateStartCancels, MarksError, MarksIdle, TellsLead, ChecksAllIdle, PokesLead, TurnEnds
  <1>3. CASE WakesLead(s)
      BY <1>1, <1>3 DEF WakesLead, RecordPendingWake
  <1>4. CASE ObservesEmpty(s)
      BY <1>4, CallsSettle DEF ObservesEmpty
  <1>5. CASE Claims(s)
      BY <1>5, CallsSettle DEF Claims
  <1>6. CASE LateStartRecords(s) \/ LateStartTries(s)
      BY <1>6, CallsSettle DEF LateStartRecords, LateStartTries
  <1>7. CASE RecordsChild(s) \/ CompletesRun(s)
      BY <1>1, <1>7, CallsSettle DEF RecordsChild, CompletesRun
  <1>8. CASE PortStartsTurn(s)
    <2>1. Tracked(s) => RecordChildStarted(s, ChildOf(s, NewTurn(s)))
        BY <1>8 DEF PortStartsTurn
    <2>2. ~Tracked(s) => UNCHANGED mgrVars
        BY <1>8 DEF PortStartsTurn
    <2> QED
        BY <1>1, <2>1, <2>2, CallsSettle
  <1> QED
      BY <1>2, <1>3, <1>4, <1>5, <1>6, <1>7, <1>8 DEF LoopStep

\* So a step that brings the lead no wake nearer adds nothing for anyone.
LEMMA LoopStepEases ==
  ASSUME SessionTypes, MgrTypeOK, MgrTypeOK', NEW s \in Slots, NEW x \in Slots, Few(x),
         LoopStep(s) \/ PortStartsTurn(s) \/ TurnEnds(s), ~(WakesLead(s) /\ IsActive),
         unread' = unread, Idles(s)
  PROVE  Eased(x) /\ Due(x)' + pending[x] <= Due(x) + pending'[x]
  <1>1. req' = req /\ \A t \in Slots \ {s} : loop'[t] = loop[t]
      BY LoopStepTypes, LoopStepMoves DEF Moves
  <1>2. pending'[x] <= pending[x]
      BY LoopStepSettles
  <1>3. /\ Coming(x)' \subseteq Coming(x) /\ Waking(x)' \subseteq Waking(x)
        /\ Theirs(x)' \subseteq Theirs(x) /\ Telling(x)' \subseteq Telling(x)
        /\ Reporting(x)' \subseteq Reporting(x)
      BY <1>1, LoopCounts DEF Idles
  <1> QED
      BY <1>2, <1>3, FewStays

\* Wakes are only queued in an active run.
LEMMA WakesAreActive ==
  ASSUME RecordInv, NEW x \in Slots, pending[x] /= 0
  PROVE  IsActive
  BY DEF RecordInv, MgrTypeOK, ClosedRunIsEmpty, CancelFreezesRun, Drained, NoWakes, Exists,
     IsActive

\* One wake is settled by an empty mailbox.
LEMMA EmptyWakeSettles ==
  ASSUME MgrTypeOK, NEW s \in Slots, RecordEmptyWakeObserved(s), pending[s] \in 0..1
  PROVE  ~Exists \/ pending'[s] = 0
  BY DEF RecordEmptyWakeObserved, MaybeCompleteLocked, Close, Keep, NoWakes, MgrTypeOK

\* Peeks: the wakes of an empty mailbox are at most one.
LEMMA PeeksIsWakeful ==
  ASSUME SessionTypes, RecordInv, MgrTypeOK', NEW s \in Slots, Peeks(s), Wakeful(s), Eased(s)
  PROVE  Wakeful(s)'
  <1>0. MgrTypeOK /\ loop[s] \in Loop /\ pending[s] \in Nat
      BY ManagerAssumption DEF RecordInv, SessionTypes, MgrTypeOK
  <1> DEFINE l == IF unread[s] = {} THEN "empty" ELSE "plan"
  <1>1. loop[s].pc = "peek" /\ unread' = unread /\ UNCHANGED mgrVars
      BY DEF Peeks, At, OnlyLoop
  <1>2. loop'[s].pc = l /\ loop'[s].peeked = unread[s]
    <2>1. loop'[s] = [loop[s] EXCEPT !.peeked = unread[s], !.pc = l]
        BY PeeksMoves DEF Moves
    <2> QED
        BY <1>0, <2>1 DEF Loop
  <1>3. Due(s) \in 0..2 /\ Due(s)' \in 0..Due(s) /\ Few(s)'
      BY <1>0, FewTypes DEF Wakeful, Eased
  <1>4. pending'[s] = pending[s] /\ (IsActive' <=> IsActive)
      BY <1>1 DEF mgrVars, IsActive
  <1>5. CASE unread[s] /= {}
    <2>1. loop'[s].pc = "plan"
        BY <1>2, <1>5
    <2>2. Delivers(s)'
        BY <1>1, <1>2, <1>5 DEF Delivers
    <2>3. Backed(s)' /\ Attended(s)'
        BY <2>1 DEF Backed, Fresh, Attended, At
    <2> QED
        BY <1>3, <2>2, <2>3 DEF Wakeful
  <1>6. CASE unread[s] = {}
    <2>1. loop'[s].pc = "empty"
        BY <1>2, <1>6
    <2>2. ~(IsActive /\ Due(s) = 2)
        BY <1>1, <1>6 DEF Wakeful, Backed, Fresh
    <2>3. Backed(s)'
        BY <1>3, <1>4, <2>2 DEF Backed
    <2>4. pending[s] \in 0..1
      <3>1. pending[s] <= Due(s)
          BY <1>0, FewTypes DEF Due, Wakeful
      <3>2. pending[s] /= 0 => IsActive
          BY WakesAreActive
      <3> QED
          BY <1>0, <1>3, <2>2, <3>1, <3>2
    <2>5. Attended(s)'
        BY <1>4, <2>1, <2>4 DEF Attended, At
    <2>6. Delivers(s)'
        BY <2>1 DEF Delivers, Turning
    <2> QED
        BY <1>3, <2>3, <2>5, <2>6 DEF Wakeful
  <1> QED
      BY <1>5, <1>6

\* Plans: in an active run the rows go to a claim.
LEMMA PlansIsWakeful ==
  ASSUME SessionTypes, MgrTypeOK, NEW s \in Slots, Plans(s), Wakeful(s), Eased(s)
  PROVE  Wakeful(s)'
  <1> DEFINE l == IF IsActive THEN "claim" ELSE "work"
             n == IF IsActive THEN lastRun ELSE 0
  <1>1. loop[s].pc = "plan" /\ unread' = unread /\ UNCHANGED mgrVars
      BY DEF Plans, At, OnlyLoop
  <1>2. loop'[s].pc = l /\ loop'[s].peeked = loop[s].peeked
    <2>1. loop'[s] = [loop[s] EXCEPT !.run = n, !.pc = l]
        BY PlansMoves DEF Moves, SessionTypes
    <2>2. loop[s] \in Loop
        BY DEF SessionTypes
    <2> QED
        BY <2>1, <2>2 DEF Loop
  <1>3. IsActive' <=> IsActive
      BY <1>1 DEF mgrVars, IsActive
  <1>4. Delivers(s)'
      BY <1>1, <1>2 DEF Wakeful, Delivers
  <1>5. Backed(s)'
      BY <1>2, <1>3 DEF Backed, Fresh
  <1>6. Attended(s)'
      BY <1>2 DEF Attended, At
  <1> QED
      BY <1>4, <1>5, <1>6 DEF Wakeful, Eased

\* An empty mailbox: the last wake is settled, or somebody is about to bring another.
LEMMA ObservesEmptyIsWakeful ==
  ASSUME SessionTypes, RecordInv, MgrTypeOK', NEW s \in Slots,
         ObservesEmpty(s), Wakeful(s), Eased(s)
  PROVE  Wakeful(s)'
  <1>0. MgrTypeOK
      BY DEF RecordInv
  <1>1. /\ loop[s].pc = "empty" /\ loop'[s].pc = "wait"
        /\ unread' = unread /\ RecordEmptyWakeObserved(s)
      BY RestartingRoute DEF ObservesEmpty, At, OnlyLoop, LoopPcs
  <1>2. IsActive' => IsActive
      BY <1>0, <1>1, CallsSettle
  <1>3. Fresh(s) => Fresh(s)'
      BY <1>1 DEF Fresh, Turning
  <1>4. Backed(s)'
      BY <1>0, <1>2, <1>3, BackedStays
  <1>5. Delivers(s)'
      BY <1>1 DEF Delivers, Turning
  <1>6. Attended(s)'
    <2>1. CASE permit[s] \/ AboutToNotify(s)
      <3>1. ~LoopWakes(s)
          BY <1>1 DEF LoopWakes, At
      <3>2. LoopStep(s)
          BY DEF LoopStep
      <3>3. permit'[s] \/ AboutToNotify(s)'
          BY <1>0, <2>1, <3>1, <3>2, LoopStepNotifies
      <3> QED
          BY <3>3 DEF Attended
    <2>2. CASE ~(permit[s] \/ AboutToNotify(s))
      <3>1. pending[s] \in 0..1
          BY <1>1, <2>2 DEF Wakeful, Attended, At
      <3>2. CASE Exists
        <4>1. pending'[s] = 0
            BY <1>0, <1>1, <3>1, <3>2, EmptyWakeSettles
        <4> QED
            BY <4>1 DEF Attended
      <3>3. CASE ~Exists
        <4>1. pending'[s] = pending[s] /\ pending[s] = 0
            BY <1>1, <3>3 DEF RecordEmptyWakeObserved, mgrVars, RecordInv, ClosedRunIsEmpty,
               Drained, NoWakes
        <4> QED
            BY <4>1 DEF Attended
      <3> QED
          BY <3>2, <3>3
    <2> QED
        BY <2>1, <2>2
  <1> QED
      BY <1>4, <1>5, <1>6 DEF Wakeful, Eased

\* A claim takes a wake with it, and a refused one leaves none.
LEMMA ClaimsIsWakeful ==
  ASSUME SessionTypes, RecordInv, MgrTypeOK', NEW s \in Slots, Claims(s) \/ ClaimRefused(s),
         Wakeful(s), Eased(s), Due(s)' + pending[s] <= Due(s) + pending'[s]
  PROVE  Wakeful(s)'
  <1>0. MgrTypeOK /\ pending[s] \in Nat
      BY ManagerAssumption DEF RecordInv, MgrTypeOK
  <1>1. loop[s].pc = "claim" /\ unread' = unread
      BY DEF Claims, ClaimRefused, At, OnlyLoop
  <1>2. Due(s) \in 0..2 /\ Due(s)' \in 0..Due(s) /\ Few(s)'
      BY <1>0, FewTypes DEF Wakeful, Eased
  <1>3. CASE Claims(s)
    <2>1. pending[s] > 0 /\ pending'[s] = pending[s] - 1
        BY <1>0, <1>3 DEF Claims, ClaimWakeForTurn, CanClaim, MgrTypeOK
    <2>2. Due(s)' /= 2
        BY <1>0, <1>2, <2>1
    <2>3. loop'[s].pc = "work" /\ loop'[s].peeked = loop[s].peeked
      <3>1. loop'[s] = [loop[s] EXCEPT !.claim = lastRun, !.pc = "work"]
          BY <1>0, <1>3, ClaimsMoves DEF Moves
      <3>2. loop[s] \in Loop
          BY DEF SessionTypes
      <3> QED
          BY <3>1, <3>2 DEF Loop
    <2>4. Backed(s)' /\ Attended(s)' /\ Delivers(s)'
        BY <1>1, <2>2, <2>3 DEF Backed, Attended, At, Wakeful, Delivers
    <2> QED
        BY <1>2, <2>4 DEF Wakeful
  <1>4. CASE ClaimRefused(s)
    <2>1. loop'[s].pc = "wait" /\ UNCHANGED mgrVars /\ ~CanClaim(s)
        BY <1>4, RestartingRoute DEF ClaimRefused, LoopPcs
    <2>2. pending'[s] = 0
        BY <1>0, <2>1, WakesAreActive DEF CanClaim, mgrVars
    <2>3. Fresh(s)'
        BY <1>1, <2>1 DEF Wakeful, Delivers, Fresh, Turning
    <2>4. Backed(s)' /\ Attended(s)' /\ Delivers(s)'
        BY <2>1, <2>2, <2>3 DEF Backed, Attended, Delivers, Turning
    <2> QED
        BY <1>2, <2>4 DEF Wakeful
  <1> QED
      BY <1>3, <1>4

\* A new row is not in the turn of its slot.
LEMMA WrittenIsFresh ==
  ASSUME NEW x \in Slots, WriteRow(x), unread \in [Slots -> SUBSET Rows]
  PROVE  \E m \in unread'[x] : m \notin loop[x].peeked
  <1>1. Rows \ RowsInUse(x) \in SUBSET (1..MaxRows)
      BY DEF Rows
  <1>2. Least(Rows \ RowsInUse(x)) \in Rows \ RowsInUse(x)
      BY <1>1, LeastIsIn, SessionAssumption DEF WriteRow
  <1> QED
      BY <1>2 DEF WriteRow, RowsInUse

\* A report to the lead becomes a wake of the lead, at most, and brings a row for it.
LEMMA TellsLeadIsWakeful ==
  ASSUME SessionTypes, MgrTypeOK, MgrTypeOK', NEW s \in Slots, TellsLead(s), ~Fault,
         NEW x \in Slots, Wakeful(x)
  PROVE  Wakeful(x)'
  <1>0. Lead \in Slots
      BY SessionAssumption
  <1>1. loop[s].pc = "tellLead" /\ WriteRow(Lead) /\ UNCHANGED mgrVars
      BY DEF TellsLead, At
  <1>2. loop'[s].pc = "allIdle" /\ req' = req /\ permit' = permit
      BY GotoRoute DEF TellsLead, LoopPcs, Fault
  <1>3. LoopStep(s)
      BY DEF LoopStep
  <1>4. \A t \in Slots \ {s} : loop'[t] = loop[t]
      BY <1>3, LoopStepMoves DEF Moves
  <1>5. /\ \A y \in Slots : unread[y] \subseteq unread'[y]
        /\ \A y \in Slots \ {Lead} : unread'[y] = unread[y]
      BY <1>1, WriteRowTypes DEF WriteRow, SessionTypes
  <1>6. pending'[x] = pending[x] /\ pending[x] \in Nat /\ (IsActive' <=> IsActive)
      BY <1>1, ManagerAssumption DEF mgrVars, IsActive, MgrTypeOK
  <1>7. /\ Coming(x)' \subseteq Coming(x) /\ Waking(x)' \subseteq Waking(x)
        /\ Telling(x)' \subseteq Telling(x) \ {s}
        /\ Reporting(x)' \subseteq Reporting(x) \cup {s}
      BY <1>2, <1>4, LoopCounts DEF Tells
  <1>8. Theirs(x)' \subseteq Theirs(x)
      BY <1>5 DEF Theirs
  <1>9. CASE x /= Lead
    <2>1. Reporting(x)' \subseteq Reporting(x)
        BY <1>9 DEF Reporting
    <2>2. Telling(x)' \subseteq Telling(x) /\ pending'[x] <= pending[x]
        BY <1>6, <1>7
    <2>3. Eased(x)
        BY <1>7, <1>8, <2>1, <2>2, FewStays DEF Wakeful
    <2>4. CASE x = s
      <3>1. Calm(s)
          BY <1>1, <1>2 DEF Calm, Turning
      <3> QED
          BY <1>5, <1>6, <2>3, <2>4, <3>1, CalmIsWakeful
    <2>5. CASE x /= s
      <3>1. permit[x] \/ AboutToNotify(x) => permit'[x] \/ AboutToNotify(x)'
          BY <1>2, <1>9 DEF AboutToNotify
      <3> QED
          BY <1>4, <1>5, <1>6, <2>2, <2>3, <2>5, <3>1, WakefulPassedBy
    <2> QED
        BY <2>4, <2>5
  <1>10. CASE x = Lead
    <2>1. s \in Telling(x)
        BY <1>1, <1>10 DEF Telling, Tells
    <2>2. /\ GrowsBy(Coming(x)', Coming(x), 0) /\ GrowsBy(Theirs(x)', Theirs(x), 0)
          /\ GrowsBy(Waking(x)', Waking(x), 0)
        BY <1>7, <1>8, SetShrinks DEF Wakeful, Few
    <2>3. GrowsBy(Telling(x)', Telling(x), -1)
        BY <1>7, <2>1, SetLoses DEF Wakeful, Few
    <2>4. GrowsBy(Reporting(x)', Reporting(x), 1)
        BY <1>7, SetGains DEF Wakeful, Few
    <2>5. 0 + 0 + (-1) + 0 + 1 + pending'[x] <= pending[x] /\ -1 \in Int
        BY <1>6
    <2>7. Few(x)'
        BY <2>2, <2>3, <2>4, <2>5, FewTransfers DEF Wakeful
    <2>8. Fresh(x)'
      <3>1. \E m \in unread'[x] : m \notin loop[x].peeked
          BY <1>1, <1>10, WrittenIsFresh DEF SessionTypes
      <3> QED
          BY <1>2, <1>4, <3>1 DEF Fresh, Turning
    <2>9. Delivers(x)'
      <3>1. x /= s => Delivers(x)'
          BY <1>4, <1>5, PassedBy
      <3> QED
          BY <1>2, <3>1 DEF Delivers, Turning
    <2>10. Attended(x)'
      <3>1. CASE x = s
          BY <1>2, <3>1 DEF Attended, At
      <3>2. CASE x /= s
        <4>1. AboutToNotify(x) => AboutToNotify(x)'
            BY <1>1, <1>2, <1>4 DEF AboutToNotify
        <4> QED
            BY <1>2, <1>4, <1>6, <3>2, <4>1 DEF Wakeful, Attended, At
      <3> QED
          BY <3>1, <3>2
    <2> QED
        BY <2>7, <2>8, <2>9, <2>10 DEF Wakeful, Backed
  <1> QED
      BY <1>9, <1>10

\* The wake of the lead is reserved, and its loop is about to be notified.
LEMMA WakesLeadIsWakeful ==
  ASSUME SessionTypes, MgrTypeOK, MgrTypeOK', NEW s \in Slots, WakesLead(s), IsActive,
         NEW x \in Slots, Wakeful(x)
  PROVE  Wakeful(x)'
  <1>0. Lead \in Slots
      BY SessionAssumption
  <1>1. /\ loop[s].pc = "wakeLead" /\ RecordPendingWake(Lead)
        /\ UNCHANGED <<unread, req, permit>>
      BY DEF WakesLead, At, OnlyLoop
  <1>2. loop'[s].pc = "pokeLead"
      BY GotoRoute DEF WakesLead, LoopPcs
  <1>3. LoopStep(s)
      BY DEF LoopStep
  <1>4. \A t \in Slots \ {s} : loop'[t] = loop[t]
      BY <1>3, LoopStepMoves DEF Moves
  <1>5. /\ pending[x] \in Nat
        /\ pending'[x] = IF x = Lead THEN pending[x] + 1 ELSE pending[x]
      BY <1>1, ManagerAssumption DEF RecordPendingWake, MgrTypeOK
  <1>6. /\ Coming(x)' \subseteq Coming(x) /\ Waking(x)' \subseteq Waking(x)
        /\ Theirs(x)' \subseteq Theirs(x) /\ Telling(x)' \subseteq Telling(x)
        /\ Reporting(x)' \subseteq Reporting(x) \ {s}
      BY <1>1, <1>2, <1>4, LoopCounts DEF Tells, Reports
  <1>7. Calm(s)
      BY <1>1, <1>2 DEF Calm, Turning
  <1>8. CASE x /= Lead
    <2>1. Reporting(x)' \subseteq Reporting(x) /\ pending'[x] <= pending[x]
        BY <1>5, <1>6, <1>8
    <2>2. Eased(x)
        BY <1>6, <2>1, FewStays DEF Wakeful
    <2>3. AboutToNotify(x) => AboutToNotify(x)'
        BY <1>1, <1>8 DEF AboutToNotify
    <2>4. CASE x = s
        BY <1>1, <1>7, <2>2, <2>4, CalmIsWakeful
    <2>5. CASE x /= s
        BY <1>1, <1>4, <2>1, <2>2, <2>3, <2>5, WakefulPassedBy
    <2> QED
        BY <2>4, <2>5
  <1>9. CASE x = Lead
    <2>1. s \in Reporting(x)
        BY <1>1, <1>9 DEF Reporting, Reports
    <2>2. Eased(x)
      <3>1. /\ GrowsBy(Coming(x)', Coming(x), 0) /\ GrowsBy(Theirs(x)', Theirs(x), 0)
            /\ GrowsBy(Telling(x)', Telling(x), 0) /\ GrowsBy(Waking(x)', Waking(x), 0)
          BY <1>6, SetShrinks DEF Wakeful, Few
      <3>2. GrowsBy(Reporting(x)', Reporting(x), -1)
          BY <1>6, <2>1, SetLoses DEF Wakeful, Few
      <3>3. 0 + 0 + 0 + 0 + (-1) + pending'[x] <= pending[x] /\ -1 \in Int
          BY <1>5, <1>9
      <3>4. Few(x)' /\ Due(x)' \in Nat /\ Due(x)' + pending[x] <= Due(x) + 0 + (-1) + pending'[x]
          BY <3>1, <3>2, <3>3, FewTransfers DEF Wakeful
      <3>5. Due(x) \in Nat
          BY FewTypes DEF Wakeful
      <3> QED
          BY <1>5, <1>9, <3>4, <3>5 DEF Eased
    <2>3. AboutToNotify(x)'
        BY <1>2, <1>9 DEF AboutToNotify
    <2>4. IsActive' => IsActive
        OBVIOUS
    <2>5. CASE x = s
        BY <1>1, <1>7, <2>2, <2>4, <2>5, CalmIsWakeful
    <2>6. CASE x /= s
      <3>1. Delivers(x)' /\ (Fresh(x) => Fresh(x)')
          BY <1>1, <1>4, <2>6, PassedBy
      <3>2. Backed(x)'
          BY <2>2, <2>4, <3>1, BackedStays
      <3> QED
          BY <2>2, <2>3, <3>1, <3>2 DEF Wakeful, Eased, Attended
    <2> QED
        BY <2>5, <2>6
  <1> QED
      BY <1>8, <1>9

\* The rows of the turn that ends are read; a teammate has a report to make for them.
LEMMA TurnEndsIsWakeful ==
  ASSUME SessionTypes, MgrTypeOK, MgrTypeOK', NEW s \in Slots, TurnEnds(s), ~Fault,
         Wakeful(s), NEW x \in Slots, Wakeful(x)
  PROVE  Wakeful(x)'
  <1>1. /\ loop[s].pc = "running" /\ UNCHANGED mgrVars /\ req' = req /\ permit' = permit
        /\ MarkRead([Nothing EXCEPT ![s] = loop[s].peeked])
      BY DEF TurnEnds, At, Fault
  <1>2. \A y \in Slots : unread'[y] = unread[y] \ (IF y = s THEN loop[s].peeked ELSE {})
      BY <1>1 DEF MarkRead, Nothing
  <1>3. loop'[s].pc \in {"markIdle", "markError"} /\ loop'[s].peeked = {}
    <2>1. PICK r \in {"ok", "failed"} :
              loop'[s] = [loop[s] EXCEPT !.result = r, !.peeked = {}, !.asked = FALSE,
                                         !.pc = IF r = "ok" THEN "markIdle" ELSE "markError"]
        BY TurnEndsMoves DEF Moves
    <2>2. loop[s] \in Loop
        BY DEF SessionTypes
    <2> QED
        BY <2>1, <2>2 DEF Loop
  <1>4. \A t \in Slots \ {s} : loop'[t] = loop[t]
      BY LoopStepMoves DEF Moves
  <1>5. pending'[x] = pending[x] /\ pending[x] \in Nat /\ (IsActive' <=> IsActive)
      BY <1>1, ManagerAssumption DEF mgrVars, IsActive, MgrTypeOK
  <1>6. /\ Coming(x)' \subseteq Coming(x) /\ Waking(x)' \subseteq Waking(x)
        /\ Telling(x)' \subseteq Telling(x) \cup {s}
        /\ Reporting(x)' \subseteq Reporting(x)
      BY <1>1, <1>3, <1>4, LoopCounts DEF Reports
  <1>7. Theirs(x)' \subseteq Theirs(x)
      BY <1>2 DEF Theirs
  <1>8. Eased(x)
    <2>1. CASE x /= Lead \/ s = Lead
      <3>1. Telling(x)' \subseteq Telling(x)
          BY <1>3, <1>4, <2>1 DEF Telling, Tells
      <3>2. pending'[x] <= pending[x]
          BY <1>5
      <3> QED
          BY <1>6, <1>7, <3>1, <3>2, FewStays DEF Wakeful
    <2>2. CASE x = Lead /\ s /= Lead
      <3>1. PICK m \in unread[s] : m \in loop[s].peeked
          BY <1>1 DEF Wakeful, Delivers, Turning
      <3>2. m \in Rows /\ <<s, m>> \in Theirs(x)
          BY <2>2, <3>1 DEF Theirs, SessionTypes
      <3>3. Theirs(x)' \subseteq Theirs(x) \ {<<s, m>>}
          BY <1>2, <1>7, <3>1 DEF Theirs
      <3>4. GrowsBy(Theirs(x)', Theirs(x), -1)
          BY <3>2, <3>3, SetLoses DEF Wakeful, Few
      <3>5. GrowsBy(Telling(x)', Telling(x), 1)
          BY <1>6, SetGains DEF Wakeful, Few
      <3>6. /\ GrowsBy(Coming(x)', Coming(x), 0) /\ GrowsBy(Waking(x)', Waking(x), 0)
            /\ GrowsBy(Reporting(x)', Reporting(x), 0)
          BY <1>6, SetShrinks DEF Wakeful, Few
      <3>7. 0 + (-1) + 1 + 0 + 0 + pending'[x] <= pending[x] /\ -1 \in Int
          BY <1>5
      <3>8. Few(x)' /\ Due(x)' \in Nat /\ Due(x)' + pending[x] <= Due(x) + 0 + 0 + pending'[x]
          BY <3>4, <3>5, <3>6, <3>7, FewTransfers DEF Wakeful
      <3>9. Due(x) \in Nat
          BY FewTypes DEF Wakeful
      <3> QED
          BY <1>5, <3>8, <3>9 DEF Eased
    <2> QED
        BY <2>1, <2>2
  <1>9. CASE x = s
    <2>1. Fresh(x) => Fresh(x)'
        BY <1>1, <1>2, <1>3, <1>9 DEF Fresh, Turning
    <2>2. Backed(x)'
        BY <1>5, <1>8, <2>1, BackedStays
    <2>3. Delivers(x)' /\ Attended(x)'
        BY <1>3, <1>9 DEF Delivers, Turning, Attended, At
    <2> QED
        BY <1>8, <2>2, <2>3 DEF Wakeful, Eased
  <1>10. CASE x /= s
    <2>1. unread[x] \subseteq unread'[x] /\ pending'[x] <= pending[x]
        BY <1>2, <1>5, <1>10
    <2>2. AboutToNotify(x) => AboutToNotify(x)'
        BY <1>1, <1>4 DEF AboutToNotify
    <2> QED
        BY <1>1, <1>4, <1>5, <1>8, <1>10, <2>1, <2>2, WakefulPassedBy
  <1> QED
      BY <1>9, <1>10

\* The steps of the loops lose no wake.
LEMMA LoopStepKeepsWakeful ==
  ASSUME SessionTypes, RecordInv, MgrTypeOK', ~Fault, NEW s \in Slots,
         LoopStep(s) \/ PortRefusesTurn(s) \/ PortStartsTurn(s) \/ TurnEnds(s),
         Wakeful(s), NEW x \in Slots, Wakeful(x)
  PROVE  Wakeful(x)'
  <1>0. MgrTypeOK
      BY DEF RecordInv
  <1>1. ~PeekFails(s) /\ ~PortRefusesTurn(s)
      BY DEF PeekFails, PortRefusesTurn
  <1>2. req' = req /\ \A t \in Slots \ {s} : loop'[t] = loop[t]
      BY <1>0, LoopStepTypes, LoopStepMoves DEF Moves
  <1>3. CASE TurnEnds(s)
      BY <1>0, <1>3, TurnEndsIsWakeful
  <1>4. CASE TellsLead(s)
      BY <1>0, <1>4, TellsLeadIsWakeful
  <1>5. CASE WakesLead(s) /\ IsActive
      BY <1>0, <1>5, WakesLeadIsWakeful
  <1>6. ASSUME unread' = unread, Idles(s), ~(WakesLead(s) /\ IsActive),
               LoopStep(s) \/ PortStartsTurn(s), ~LoopWakes(s) \/ x /= s
        PROVE  /\ Eased(x) /\ Due(x)' + pending[x] <= Due(x) + pending'[x]
               /\ IsActive' => IsActive
               /\ x /= s => Wakeful(x)'
    <2>1. Eased(x) /\ Due(x)' + pending[x] <= Due(x) + pending'[x]
        BY <1>0, <1>6, LoopStepEases DEF Wakeful
    <2>2. pending'[x] <= pending[x] /\ (IsActive' => IsActive)
        BY <1>0, <1>6, LoopStepSettles
    <2>3. permit[x] \/ AboutToNotify(x) => permit'[x] \/ AboutToNotify(x)'
        BY <1>0, <1>6, LoopStepNotifies
    <2>4. x /= s => Wakeful(x)'
        BY <1>0, <1>2, <1>6, <2>1, <2>2, <2>3, WakefulPassedBy
    <2> QED
        BY <2>1, <2>2, <2>4
  <1>7. CASE \/ LoopWakes(s) \/ SetsWorking(s) \/ LateStartCancels(s) \/ LateStartRecords(s)
             \/ LateStartTries(s) \/ MarksError(s) \/ MarksIdle(s) \/ ChecksAllIdle(s)
             \/ PokesLead(s) \/ RecordsChild(s) \/ CompletesRun(s) \/ PortStartsTurn(s)
    <2>1. Calm(s) /\ Idles(s)
        BY <1>7, LoopStepIsCalm
    <2>2. unread' = unread /\ ~WakesLead(s) /\ (LoopStep(s) \/ PortStartsTurn(s))
      <3>1. unread' = unread
          BY <1>7 DEF LoopWakes, SetsWorking, LateStartCancels, LateStartRecords,
             LateStartTries, MarksError, MarksIdle, ChecksAllIdle, PokesLead, RecordsChild,
             CompletesRun, PortStartsTurn, OnlyLoop
      <3>2. ~WakesLead(s)
          BY <1>7 DEF LoopWakes, SetsWorking, LateStartCancels, LateStartRecords,
             LateStartTries, MarksError, MarksIdle, ChecksAllIdle, PokesLead, RecordsChild,
             CompletesRun, PortStartsTurn, WakesLead, At
      <3>3. LoopStep(s) \/ PortStartsTurn(s)
          BY <1>7 DEF LoopStep
      <3> QED
          BY <3>1, <3>2, <3>3
    <2>3. CASE x /= s
        BY <1>6, <2>1, <2>2, <2>3
    <2>4. CASE x = s
      <3>1. Eased(x)
          BY <1>0, <2>1, <2>2, LoopStepEases DEF Wakeful
      <3>2. IsActive' => IsActive
          BY <1>0, <2>2, LoopStepSettles
      <3> QED
          BY <1>0, <2>1, <2>2, <2>4, <3>1, <3>2, CalmIsWakeful
    <2> QED
        BY <2>3, <2>4
  <1>8. CASE WakesLead(s) /\ ~IsActive
    <2>1. /\ loop[s].pc = "wakeLead" /\ loop'[s].pc = "record"
          /\ unread' = unread
        BY <1>8, GotoRoute DEF WakesLead, RecordPendingWake, At, OnlyLoop, LoopPcs
    <2>2. LoopStep(s) /\ ~LoopWakes(s)
        BY <1>8, <2>1 DEF LoopStep, LoopWakes, At
    <2>3. Calm(s) /\ Idles(s)
        BY <2>1 DEF Calm, Idles, Turning, Tells, Reports
    <2> QED
        BY <1>0, <1>6, <1>8, <2>1, <2>2, <2>3, CalmIsWakeful
  <1>9. CASE Peeks(s) \/ Plans(s) \/ ObservesEmpty(s) \/ Claims(s) \/ ClaimRefused(s)
    <2>1. unread' = unread /\ LoopStep(s)
      <3>1. unread' = unread
          BY <1>9 DEF Peeks, Plans, ObservesEmpty, Claims, ClaimRefused, OnlyLoop
      <3>2. LoopStep(s)
          BY <1>9 DEF LoopStep
      <3> QED
          BY <3>1, <3>2
    <2>2. ~LoopWakes(s) /\ ~WakesLead(s)
        BY <1>9 DEF Peeks, Plans, ObservesEmpty, Claims, ClaimRefused, At, LoopWakes, WakesLead
    <2>3. loop'[s].pc \in {"empty", "plan", "claim", "work", "wait"}
      <3>1. loop[s] \in Loop
          BY DEF SessionTypes
      <3>2. CASE Peeks(s)
        <4> DEFINE l == IF unread[s] = {} THEN "empty" ELSE "plan"
        <4>1. loop'[s] = [loop[s] EXCEPT !.peeked = unread[s], !.pc = l]
            BY <3>2, PeeksMoves DEF Moves
        <4> QED
            BY <3>1, <4>1 DEF Loop
      <3>3. CASE Plans(s)
        <4> DEFINE l == IF IsActive THEN "claim" ELSE "work"
                   n == IF IsActive THEN lastRun ELSE 0
        <4>1. loop'[s] = [loop[s] EXCEPT !.run = n, !.pc = l]
            BY <1>0, <3>3, PlansMoves DEF Moves, SessionTypes
        <4> QED
            BY <3>1, <4>1 DEF Loop
      <3>4. CASE Claims(s)
        <4>1. loop'[s] = [loop[s] EXCEPT !.claim = lastRun, !.pc = "work"]
            BY <1>0, <3>4, ClaimsMoves DEF Moves
        <4> QED
            BY <3>1, <4>1 DEF Loop
      <3>5. CASE ObservesEmpty(s) \/ ClaimRefused(s)
          BY <3>5, RestartingRoute DEF ObservesEmpty, ClaimRefused, LoopPcs
      <3> QED
          BY <1>9, <3>2, <3>3, <3>4, <3>5
    <2>4. Idles(s)
        BY <2>3 DEF Idles, Tells, Reports
    <2>5. Eased(x) /\ Due(x)' + pending[x] <= Due(x) + pending'[x] /\ (x /= s => Wakeful(x)')
        BY <1>6, <2>1, <2>2, <2>4
    <2> QED
        BY <1>0, <1>9, <2>5, PeeksIsWakeful, PlansIsWakeful, ObservesEmptyIsWakeful,
           ClaimsIsWakeful
  <1> QED
      BY <1>1, <1>3, <1>4, <1>5, <1>7, <1>8, <1>9 DEF LoopStep

\* What a step of request q does to the sets behind Few.
LEMMA RequestCounts ==
  ASSUME NEW q \in Requests, NEW x \in Slots, \A p \in Requests \ {q} : req'[p] = req[p],
         loop' = loop
  PROVE  /\ Telling(x)' \subseteq Telling(x) /\ Reporting(x)' \subseteq Reporting(x)
         /\ unread' = unread => Theirs(x)' \subseteq Theirs(x)
         /\ (Brings(req'[q], x) => Brings(req[q], x)) => Coming(x)' \subseteq Coming(x)
         /\ ~Brings(req'[q], x) => Coming(x)' \subseteq Coming(x) \ {q}
         /\ Waking(x)' \subseteq Waking(x) \cup {q}
         /\ ~Wakes(req'[q], x) => Waking(x)' \subseteq Waking(x) \ {q}
  <1>1. Telling(x)' \subseteq Telling(x) /\ Reporting(x)' \subseteq Reporting(x)
      BY DEF Telling, Reporting
  <1>2. unread' = unread => Theirs(x)' \subseteq Theirs(x)
      BY DEF Theirs
  <1>3. /\ (Brings(req'[q], x) => Brings(req[q], x)) => Coming(x)' \subseteq Coming(x)
        /\ ~Brings(req'[q], x) => Coming(x)' \subseteq Coming(x) \ {q}
      BY DEF Coming
  <1>4. /\ Waking(x)' \subseteq Waking(x) \cup {q}
        /\ ~Wakes(req'[q], x) => Waking(x)' \subseteq Waking(x) \ {q}
      BY DEF Waking
  <1> QED
      BY <1>1, <1>2, <1>3, <1>4

\* A request becomes r, and the others stay.
LEMMA BecomesIs ==
  ASSUME SessionTypes, NEW q \in Requests, NEW r, Becomes(q, r)
  PROVE  req'[q] = r /\ \A p \in Requests \ {q} : req'[p] = req[p]
  BY DEF SessionTypes, Becomes

\* A message arrives: as long as it was to come, one wake at most was due.
LEMMA UserAcceptsIsWakeful ==
  ASSUME SessionTypes, MgrTypeOK, MgrTypeOK', NEW q \in Requests, NEW s \in Slots,
         UserAccepts(q, s), NEW x \in Slots, Wakeful(x)
  PROVE  Wakeful(x)' /\ Single(q)'
  <1> DEFINE r == [req[q] EXCEPT !.kind = "userSend", !.pc = "write", !.to = {s}, !.left = {s}]
  <1>1. req[q].pc = "new" /\ Becomes(q, r) /\ UNCHANGED <<loop, permit, unread>>
      BY DEF UserAccepts, ReqAt, OnlyReq
  <1>2. r.kind = "userSend" /\ r.pc = "write" /\ r.to = {s} /\ r.left = {s}
      BY DEF SessionTypes, Request
  <1>3. req'[q] = r /\ \A p \in Requests \ {q} : req'[p] = req[p]
      BY <1>1, BecomesIs
  <1> HIDE DEF r
  <1>4. pending'[x] = 0 \/ pending'[x] = pending[x]
      BY DEF UserAccepts, AcceptUserMessage, NoWakes, mgrVars
  <1>5. pending[x] \in Nat
      BY ManagerAssumption DEF MgrTypeOK
  <1>6. /\ Coming(x)' \subseteq Coming(x) /\ Theirs(x)' \subseteq Theirs(x)
        /\ Telling(x)' \subseteq Telling(x) /\ Waking(x)' \subseteq Waking(x) \ {q}
        /\ Reporting(x)' \subseteq Reporting(x)
      BY <1>1, <1>2, <1>3, RequestCounts DEF Brings, Wakes
  <1>7. Eased(x)
    <2>1. pending'[x] <= pending[x] /\ Waking(x)' \subseteq Waking(x)
        BY <1>4, <1>5, <1>6
    <2> QED
        BY <1>6, <2>1, FewStays DEF Wakeful
  <1>8. Due(x) <= 1
    <2>1. q \in Coming(x) /\ IsFiniteSet(Coming(x))
        BY <1>1 DEF Coming, Brings, Wakeful, Few
    <2>2. Cardinality(Coming(x)) \in Nat /\ Cardinality(Coming(x) \ {q}) \in Nat
          /\ Cardinality(Coming(x) \ {q}) = Cardinality(Coming(x)) - 1
        BY <2>1, FS_RemoveElement, FS_CardinalityType
    <2>3. Cardinality(Coming(x)) + Cardinality(Theirs(x)) + Cardinality(Telling(x)) + Due(x) <= 2
        BY DEF Wakeful, Few
    <2>4. /\ Cardinality(Theirs(x)) \in Nat /\ Cardinality(Telling(x)) \in Nat
          /\ Due(x) \in Nat
        BY FewTypes DEF Wakeful
    <2> QED
        BY <2>2, <2>3, <2>4
  <1>9. Backed(x)'
    <2>1. Due(x) \in Nat
        BY FewTypes DEF Wakeful
    <2> QED
        BY <1>7, <1>8, <2>1 DEF Backed, Eased
  <1>10. AboutToNotify(x) => AboutToNotify(x)'
      BY <1>1, <1>3 DEF AboutToNotify
  <1>11. Attended(x)'
      BY <1>1, <1>4, <1>10 DEF Wakeful, Attended, At
  <1>12. Delivers(x)'
      BY <1>1 DEF Wakeful, Delivers
  <1>13. Single(q)'
      BY <1>2, <1>3 DEF Single, Is
  <1> QED
      BY <1>7, <1>9, <1>11, <1>12, <1>13 DEF Wakeful, Eased

\* A message that is refused, or ends with a rejected wake.
LEMMA EndsIsWakeful ==
  ASSUME SessionTypes, MgrTypeOK, MgrTypeOK', NEW q \in Requests,
         NEW l \in {"refused", "error"}, Ends(q, l), req[q].pc \in {"new", "wake"},
         OnlyReq, UNCHANGED mgrVars, NEW x \in Slots, Wakeful(x)
  PROVE  Wakeful(x)' /\ Single(q)'
  <1>1. /\ req'[q] = RequestAt(l) /\ RequestAt(l).pc = l
        /\ \A p \in Requests \ {q} : req'[p] = req[p]
      BY BecomesIs DEF Ends, RequestAt
  <1>2. UNCHANGED <<loop, permit, unread>>
      BY DEF OnlyReq
  <1>3. pending'[x] <= pending[x] /\ (IsActive' => IsActive)
      BY ManagerAssumption DEF mgrVars, IsActive, MgrTypeOK
  <1>4. /\ Coming(x)' \subseteq Coming(x) /\ Theirs(x)' \subseteq Theirs(x)
        /\ Telling(x)' \subseteq Telling(x) /\ Waking(x)' \subseteq Waking(x)
        /\ Reporting(x)' \subseteq Reporting(x)
      BY <1>1, <1>2, RequestCounts DEF Brings, Wakes
  <1>5. Eased(x)
      BY <1>3, <1>4, FewStays DEF Wakeful
  <1>6. AboutToNotify(x) => AboutToNotify(x)'
      BY <1>1, <1>2 DEF AboutToNotify
  <1>7. Wakeful(x)'
      BY <1>2, <1>3, <1>5, <1>6, WakefulPassedBy
  <1>8. Single(q)'
      BY <1>1 DEF Single
  <1> QED
      BY <1>7, <1>8

\* The loop is notified of the wake that was reserved for it.
LEMMA NotifiesIsWakeful ==
  ASSUME SessionTypes, MgrTypeOK, MgrTypeOK', NEW q \in Requests, Notifies(q), Single(q),
         NEW x \in Slots, Wakeful(x)
  PROVE  Wakeful(x)' /\ Single(q)'
  <1>1. /\ req[q].pc = "notify" /\ Notify(req[q].at) /\ UNCHANGED <<mgrVars, loop, unread>>
        /\ req[q].left = {req[q].at} /\ req[q].kind = "userSend"
      BY DEF Notifies, ReqAt, Single, Is
  <1>2. Ends(q, "done")
      BY <1>1 DEF Notifies, Is
  <1>3. /\ req'[q] = RequestAt("done") /\ RequestAt("done").pc = "done"
        /\ \A p \in Requests \ {q} : req'[p] = req[p]
      BY <1>2, BecomesIs DEF Ends, RequestAt
  <1>4. pending'[x] <= pending[x] /\ (IsActive' => IsActive)
      BY <1>1, ManagerAssumption DEF mgrVars, IsActive, MgrTypeOK
  <1>5. /\ Coming(x)' \subseteq Coming(x) /\ Theirs(x)' \subseteq Theirs(x)
        /\ Telling(x)' \subseteq Telling(x) /\ Waking(x)' \subseteq Waking(x)
        /\ Reporting(x)' \subseteq Reporting(x)
      BY <1>1, <1>3, RequestCounts DEF Brings, Wakes
  <1>6. Eased(x)
      BY <1>4, <1>5, FewStays DEF Wakeful
  <1>7. permit[x] \/ AboutToNotify(x) => permit'[x] \/ AboutToNotify(x)'
    <2>1. CASE x = req[q].at
        BY <1>1, <2>1 DEF Notify, SessionTypes
    <2>2. CASE x /= req[q].at
      <3>1. permit'[x] = permit[x]
          BY <1>1, <2>2 DEF Notify, SessionTypes
      <3>2. AboutToNotify(x) => AboutToNotify(x)'
          BY <1>1, <1>3, <2>2 DEF AboutToNotify
      <3> QED
          BY <3>1, <3>2
    <2> QED
        BY <2>1, <2>2
  <1>8. Wakeful(x)'
      BY <1>1, <1>4, <1>6, <1>7, WakefulPassedBy
  <1>9. Single(q)'
      BY <1>3 DEF Single
  <1> QED
      BY <1>8, <1>9

\* A row is written: what was to come is a wake about to be reserved, and for a teammate
\* also a row to report on.
LEMMA WritesRowIsWakeful ==
  ASSUME SessionTypes, MgrTypeOK, MgrTypeOK', NEW q \in Requests, NEW s \in Slots,
         WritesRow(q, s), Single(q), NEW x \in Slots, Wakeful(x)
  PROVE  Wakeful(x)' /\ Single(q)'
  <1>0. Lead \in Slots
      BY SessionAssumption
  <1>1. /\ req[q].pc = "write" /\ req[q].to = {s} /\ req[q].left = {s}
        /\ req[q].kind = "userSend"
        /\ WriteRow(s) /\ UNCHANGED <<mgrVars, loop, permit>>
      BY DEF WritesRow, ReqAt, Single, Is
  <1> DEFINE r == [req[q] EXCEPT !.pc = "wake", !.left = req[q].to]
  <1>2. Becomes(q, r)
      BY <1>1 DEF WritesRow
  <1>3. r.kind = "userSend" /\ r.pc = "wake" /\ r.to = {s} /\ r.left = {s}
      BY <1>1 DEF SessionTypes, Request
  <1>4. req'[q] = r /\ \A p \in Requests \ {q} : req'[p] = req[p]
      BY <1>2, BecomesIs
  <1> HIDE DEF r
  <1>5. /\ \A y \in Slots : unread[y] \subseteq unread'[y]
        /\ \A y \in Slots \ {s} : unread'[y] = unread[y]
      BY <1>1, WriteRowTypes DEF WriteRow, SessionTypes
  <1>6. /\ pending'[x] = pending[x] /\ pending[x] \in Nat /\ (IsActive' <=> IsActive)
        /\ pending'[x] <= pending[x]
      BY <1>1, ManagerAssumption DEF mgrVars, IsActive, MgrTypeOK
  <1>7. Single(q)'
      BY <1>3, <1>4 DEF Single, Is
  <1>8. AboutToNotify(x) => AboutToNotify(x)'
      BY <1>1, <1>4 DEF AboutToNotify
  <1>9. Delivers(x)' /\ (Fresh(x) => Fresh(x)')
      BY <1>1, <1>5, PassedBy
  <1>10. Attended(x)'
      BY <1>1, <1>6, <1>8 DEF Wakeful, Attended, At
  <1>11. /\ Telling(x)' \subseteq Telling(x) /\ Reporting(x)' \subseteq Reporting(x)
         /\ Coming(x)' \subseteq Coming(x) \ {q} /\ Coming(x)' \subseteq Coming(x)
         /\ Waking(x)' \subseteq Waking(x) \cup {q}
         /\ x /= s => Waking(x)' \subseteq Waking(x)
      BY <1>1, <1>3, <1>4, RequestCounts DEF Brings, Wakes
  <1>12. IsFiniteSet(Coming(x)) /\ IsFiniteSet(Theirs(x)) /\ IsFiniteSet(Telling(x))
         /\ IsFiniteSet(Waking(x)) /\ IsFiniteSet(Reporting(x)) /\ Few(x)
      BY DEF Wakeful, Few
  <1>13. CASE x = s
    <2>1. Theirs(x)' \subseteq Theirs(x)
        BY <1>5, <1>13 DEF Theirs
    <2>2. q \in Coming(x)
        BY <1>1, <1>13 DEF Coming, Brings
    <2>3. GrowsBy(Coming(x)', Coming(x), -1)
        BY <1>11, <1>12, <2>2, SetLoses
    <2>4. GrowsBy(Waking(x)', Waking(x), 1)
        BY <1>11, <1>12, SetGains
    <2>5. /\ GrowsBy(Theirs(x)', Theirs(x), 0) /\ GrowsBy(Telling(x)', Telling(x), 0)
          /\ GrowsBy(Reporting(x)', Reporting(x), 0)
        BY <1>11, <1>12, <2>1, SetShrinks
    <2>6. (-1) + 0 + 0 + 1 + 0 + pending'[x] <= pending[x] /\ -1 \in Int
        BY <1>6
    <2>7. Few(x)' /\ Due(x)' \in Nat /\ Due(x)' + pending[x] <= Due(x) + 1 + 0 + pending'[x]
        BY <1>12, <2>3, <2>4, <2>5, <2>6, FewTransfers
    <2>8. Fresh(x)'
      <3>1. \E m \in unread'[x] : m \notin loop[x].peeked
          BY <1>1, <1>13, WrittenIsFresh DEF SessionTypes
      <3> QED
          BY <1>1, <3>1 DEF Fresh
    <2> QED
        BY <1>7, <1>9, <1>10, <2>7, <2>8 DEF Wakeful, Backed
  <1>14. CASE x /= s
    <2>1. Eased(x)
      <3>1. CASE x /= Lead
        <4>1. Theirs(x)' \subseteq Theirs(x)
            BY <3>1 DEF Theirs
        <4> QED
            BY <1>6, <1>11, <1>12, <1>14, <4>1, FewStays
      <3>2. CASE x = Lead
        <4> DEFINE m == Least(Rows \ RowsInUse(s))
        <4>1. unread' = [unread EXCEPT ![s] = @ \cup {m}]
            BY <1>1 DEF WriteRow
        <4> HIDE DEF m
        <4>2. Theirs(x)' \subseteq Theirs(x) \cup {<<s, m>>}
            BY <4>1 DEF Theirs, SessionTypes
        <4>3. q \in Coming(x)
            BY <1>1, <3>2 DEF Coming, Brings
        <4>4. GrowsBy(Coming(x)', Coming(x), -1)
            BY <1>11, <1>12, <4>3, SetLoses
        <4>5. GrowsBy(Theirs(x)', Theirs(x), 1)
            BY <1>12, <4>2, SetGains
        <4>6. /\ GrowsBy(Telling(x)', Telling(x), 0) /\ GrowsBy(Waking(x)', Waking(x), 0)
              /\ GrowsBy(Reporting(x)', Reporting(x), 0)
            BY <1>11, <1>12, <1>14, SetShrinks
        <4>7. (-1) + 1 + 0 + 0 + 0 + pending'[x] <= pending[x] /\ -1 \in Int
            BY <1>6
        <4>8. Few(x)' /\ Due(x)' \in Nat /\ Due(x)' + pending[x] <= Due(x) + 0 + 0 + pending'[x]
            BY <1>12, <4>4, <4>5, <4>6, <4>7, FewTransfers
        <4>9. Due(x) \in Nat
            BY <1>12, FewTypes
        <4> QED
            BY <1>6, <4>8, <4>9 DEF Eased
      <3> QED
          BY <3>1, <3>2
    <2>2. Backed(x)'
        BY <1>6, <1>9, <2>1, BackedStays
    <2> QED
        BY <1>7, <1>9, <1>10, <2>1, <2>2 DEF Wakeful, Eased
  <1> QED
      BY <1>13, <1>14

\* The wake is reserved, and its loop is about to be notified.
LEMMA ReservesWakeIsWakeful ==
  ASSUME SessionTypes, MgrTypeOK, MgrTypeOK', NEW q \in Requests, NEW s \in Slots,
         ReservesWake(q, s), Single(q), NEW x \in Slots, Wakeful(x)
  PROVE  Wakeful(x)' /\ Single(q)'
  <1>1. /\ req[q].pc = "wake" /\ req[q].to = {s} /\ req[q].left = {s}
        /\ req[q].kind = "userSend"
        /\ RecordPendingWake(s) /\ UNCHANGED <<unread, loop, permit>>
      BY DEF ReservesWake, ReqAt, Single, Is, OnlyReq
  <1> DEFINE r == [req[q] EXCEPT !.pc = "notify", !.at = s]
  <1>2. Becomes(q, r)
      BY DEF ReservesWake
  <1>3. /\ r.kind = "userSend" /\ r.pc = "notify" /\ r.to = {s} /\ r.left = {s}
        /\ r.at = s
      BY <1>1 DEF SessionTypes, Request
  <1>4. req'[q] = r /\ \A p \in Requests \ {q} : req'[p] = req[p]
      BY <1>2, BecomesIs
  <1> HIDE DEF r
  <1>5. /\ pending[x] \in Nat /\ (IsActive' <=> IsActive)
        /\ pending'[x] = IF x = s THEN pending[x] + 1 ELSE pending[x]
      BY <1>1, ManagerAssumption DEF RecordPendingWake, IsActive, MgrTypeOK
  <1>6. Single(q)'
      BY <1>3, <1>4 DEF Single, Is
  <1>7. /\ Coming(x)' \subseteq Coming(x) /\ Theirs(x)' \subseteq Theirs(x)
        /\ Telling(x)' \subseteq Telling(x) /\ Reporting(x)' \subseteq Reporting(x)
        /\ Waking(x)' \subseteq Waking(x) \ {q}
      BY <1>1, <1>3, <1>4, RequestCounts DEF Brings, Wakes
  <1>8. CASE x = s
    <2>1. q \in Waking(x) /\ Few(x)
        BY <1>1, <1>8 DEF Waking, Wakes, Wakeful
    <2>2. GrowsBy(Waking(x)', Waking(x), -1)
        BY <1>7, <2>1, SetLoses DEF Few
    <2>3. /\ GrowsBy(Coming(x)', Coming(x), 0) /\ GrowsBy(Theirs(x)', Theirs(x), 0)
          /\ GrowsBy(Telling(x)', Telling(x), 0) /\ GrowsBy(Reporting(x)', Reporting(x), 0)
        BY <1>7, <2>1, SetShrinks DEF Few
    <2>4. 0 + 0 + 0 + (-1) + 0 + pending'[x] <= pending[x] /\ -1 \in Int
        BY <1>5, <1>8
    <2>5. Few(x)' /\ Due(x)' \in Nat /\ Due(x)' + pending[x] <= Due(x) + (-1) + 0 + pending'[x]
        BY <2>1, <2>2, <2>3, <2>4, FewTransfers
    <2>6. Due(x) \in Nat
        BY <2>1, FewTypes
    <2>7. Eased(x)
        BY <1>5, <1>8, <2>5, <2>6 DEF Eased
    <2>8. Delivers(x)' /\ (Fresh(x) => Fresh(x)')
        BY <1>1, PassedBy
    <2>9. Backed(x)'
        BY <1>5, <2>7, <2>8, BackedStays
    <2>10. AboutToNotify(x)'
        BY <1>3, <1>4, <1>8 DEF AboutToNotify
    <2> QED
        BY <1>6, <2>7, <2>8, <2>9, <2>10 DEF Wakeful, Eased, Attended
  <1>9. CASE x /= s
    <2>1. pending'[x] <= pending[x] /\ Waking(x)' \subseteq Waking(x)
        BY <1>5, <1>7, <1>9
    <2>2. Eased(x)
        BY <1>7, <2>1, FewStays DEF Wakeful
    <2>3. AboutToNotify(x) => AboutToNotify(x)'
        BY <1>1, <1>4 DEF AboutToNotify
    <2> QED
        BY <1>1, <1>5, <1>6, <2>1, <2>2, <2>3, WakefulPassedBy
  <1> QED
      BY <1>8, <1>9

\* In such a session a request is one of these steps of a user message.
LEMMA OnlySends ==
  ASSUME TwoSends, SessionTypes, \A q \in Requests : Single(q), ~Fault,
         Arrives \/ \E q \in Requests : RequestStep(q)
  PROVE  \E q \in Requests, s \in Slots :
            \/ UserAccepts(q, s) \/ UserRefused(q, s) \/ WritesRow(q, s) \/ ReservesWake(q, s)
            \/ WakeRejected(q) \/ Notifies(q)
  <1>1. CASE Arrives
      BY <1>1 DEF Arrives, TwoSends, Requests
  <1>2. ASSUME NEW q \in Requests, RequestStep(q)
        PROVE  \E s \in Slots : \/ WritesRow(q, s) \/ ReservesWake(q, s)
                                \/ WakeRejected(q) \/ Notifies(q)
    <2>1. req[q].pc \notin {"begin", "peek", "mark", "list", "cancel", "record", "complete",
                            "settle"}
        BY DEF Single
    <2>2. ~WriteFails(q) /\ ~CancelDrainFails(q) /\ ~ChildCancelFails(q)
        BY DEF WriteFails, CancelDrainFails, ChildCancelFails
    <2>3. /\ ~CancelBegins(q) /\ ~CancelMarks(q) /\ ~CancelLists(q) /\ ~Settles(q)
          /\ ~ChildCancelCompletes(q)
        BY <2>1 DEF CancelBegins, CancelMarks, CancelLists, Settles, ChildCancelCompletes, ReqAt
    <2>4. \A c : ~CancelAsks(q, c) /\ ~CancelRecords(q, c) /\ ~ChildCancelRecords(q, c)
        BY <2>1 DEF CancelAsks, CancelRecords, ChildCancelRecords, ReqAt
    <2>5. \A s \in Slots : ~CancelPeeks(q, s)
        BY <2>1 DEF CancelPeeks, ReqAt
    <2>6. Lead \in Slots
        BY SessionAssumption
    <2> QED
        BY <1>2, <2>2, <2>3, <2>4, <2>5, <2>6 DEF RequestStep
  <1> QED
      BY <1>1, <1>2

\* The steps of the requests lose no wake.
LEMMA RequestStepKeepsWakeful ==
  ASSUME TwoSends, SessionTypes, MgrTypeOK, MgrTypeOK', ~Fault,
         \A q \in Requests : Single(q), \A x \in Slots : Wakeful(x),
         Arrives \/ \E q \in Requests : RequestStep(q)
  PROVE  (\A x \in Slots : Wakeful(x)') /\ (\A q \in Requests : Single(q)')
  <1>1. PICK q \in Requests, s \in Slots :
            \/ UserAccepts(q, s) \/ UserRefused(q, s) \/ WritesRow(q, s) \/ ReservesWake(q, s)
            \/ WakeRejected(q) \/ Notifies(q)
      BY OnlySends
  <1>2. ASSUME NEW x \in Slots PROVE Wakeful(x)' /\ Single(q)'
    <2>1. CASE UserAccepts(q, s)
        BY <2>1, UserAcceptsIsWakeful
    <2>2. CASE UserRefused(q, s)
        BY <2>2, EndsIsWakeful DEF UserRefused, ReqAt
    <2>3. CASE WritesRow(q, s)
        BY <2>3, WritesRowIsWakeful
    <2>4. CASE ReservesWake(q, s)
        BY <2>4, ReservesWakeIsWakeful
    <2>5. CASE WakeRejected(q)
        BY <2>5, EndsIsWakeful DEF WakeRejected, ReqAt
    <2>6. CASE Notifies(q)
        BY <2>6, NotifiesIsWakeful
    <2> QED
        BY <1>1, <2>1, <2>2, <2>3, <2>4, <2>5, <2>6
  <1>3. \A p \in Requests \ {q} : req'[p] = req[p]
    <2>1. \E r : Becomes(q, r)
        BY <1>1 DEF UserAccepts, UserRefused, WritesRow, ReservesWake, WakeRejected, Notifies,
           Ends, ReqGoto
    <2> QED
        BY <2>1, BecomesIs
  <1>4. ASSUME NEW p \in Requests PROVE Single(p)'
    <2>1. CASE p = q
        BY <1>2, <2>1
    <2>2. CASE p /= q
      <3>1. req'[p] = req[p]
          BY <1>3, <2>2
      <3> QED
          BY <3>1 DEF Single, Is
    <2> QED
        BY <2>1, <2>2
  <1> QED
      BY <1>2, <1>4

\* A restart queues no wake, and what the mailboxes hold is what they held.
LEMMA RestartIsWakeful ==
  ASSUME SessionTypes, MgrTypeOK, MgrTypeOK', Restart, NEW x \in Slots, Wakeful(x)
  PROVE  Wakeful(x)'
  <1>1. pending'[x] = 0 /\ ~IsActive' /\ unread' = unread
      BY DEF Restart, NoWakes, IsActive
  <1>2. \A t \in Slots : loop'[t].pc = "wait"
      BY DEF Restart, FreshLoops, LoopAt
  <1>3. \A q \in Requests : req'[q] = req[q] \/ req'[q].pc = "lost"
      BY DEF Restart, RequestAt
  <1>4. \A q \in Requests : req'[q].pc /= "wake"
      BY DEF Restart, RequestAt, Over
  <1>5. /\ Coming(x)' \subseteq Coming(x) /\ Theirs(x)' \subseteq Theirs(x)
        /\ Telling(x)' \subseteq Telling(x) /\ Waking(x)' \subseteq Waking(x)
        /\ Reporting(x)' \subseteq Reporting(x)
    <2>1. Coming(x)' \subseteq Coming(x) /\ Waking(x)' \subseteq Waking(x)
        BY <1>3, <1>4 DEF Coming, Brings, Waking, Wakes
    <2>2. Theirs(x)' \subseteq Theirs(x)
        BY <1>1 DEF Theirs
    <2>3. Telling(x)' \subseteq Telling(x) /\ Reporting(x)' \subseteq Reporting(x)
        BY <1>2 DEF Telling, Tells, Reporting, Reports
    <2> QED
        BY <2>1, <2>2, <2>3
  <1>6. pending'[x] <= pending[x]
      BY <1>1, ManagerAssumption DEF MgrTypeOK
  <1>7. Few(x)'
      BY <1>5, <1>6, FewStays DEF Wakeful, Eased
  <1>8. Delivers(x)' /\ Backed(x)' /\ Attended(x)'
      BY <1>1, <1>2 DEF Delivers, Turning, Backed, Attended
  <1> QED
      BY <1>7, <1>8 DEF Wakeful

\* The session begins with nothing but the messages to come.
LEMMA InitIsWakeful ==
  ASSUME TwoSends, Init
  PROVE  WakesKept
  <1>1. ASSUME NEW x \in Slots PROVE Wakeful(x)
    <2>1. /\ pending[x] = 0 /\ ~IsActive
          /\ \A t \in Slots : loop[t].pc = "wait" /\ unread[t] = {}
          /\ \A q \in Requests : req[q].pc = "new"
        BY DEF Init, MgrInit, NoWakes, IsActive, FreshLoops, LoopAt, Nothing, RequestAt
    <2>2. Coming(x) = UserSends
        BY <2>1 DEF Coming, Brings, Requests, TwoSends
    <2>3. Theirs(x) = {} /\ Telling(x) = {} /\ Waking(x) = {} /\ Reporting(x) = {}
        BY <2>1 DEF Theirs, Telling, Tells, Waking, Wakes, Reporting, Reports
    <2>4. IsFiniteSet({}) /\ Cardinality({}) = 0
        BY FS_EmptySet
    <2>5. Cardinality(UserSends) \in Nat
        BY FS_CardinalityType DEF TwoSends
    <2>6. Due(x) = 0
        BY <2>1, <2>3, <2>4 DEF Due
    <2>7. Few(x)
        BY <2>2, <2>3, <2>4, <2>5, <2>6 DEF Few, TwoSends
    <2>8. Delivers(x) /\ Backed(x) /\ Attended(x)
        BY <2>1 DEF Delivers, Turning, Backed, Attended
    <2> QED
        BY <2>7, <2>8 DEF Wakeful
  <1>2. ASSUME NEW q \in Requests PROVE Single(q)
      BY DEF Init, RequestAt, Single
  <1> QED
      BY <1>1, <1>2 DEF WakesKept

\* Every step keeps the wakes.
LEMMA NextKeepsWakes ==
  ASSUME TwoSends
  PROVE  SessionInv /\ WakesKept /\ [Next]_vars => WakesKept'
  <1> SUFFICES ASSUME SessionInv, WakesKept, [Next]_vars, faults' = 0
               PROVE  (\A x \in Slots : Wakeful(x)') /\ (\A q \in Requests : Single(q)')
      BY DEF WakesKept
  <1>1. SessionTypes /\ RecordInv /\ MgrTypeOK /\ faults \in Nat
      BY SessionAssumption DEF SessionInv, RecordInv, SessionTypes
  <1>2. MgrTypeOK'
      BY NextKeepsSession DEF SessionInv, RecordInv
  <1>3. ~Fault /\ faults = 0
      BY <1>1, FaultsCount DEF Fault
  <1>4. (\A x \in Slots : Wakeful(x)) /\ (\A q \in Requests : Single(q))
      BY <1>3 DEF WakesKept
  <1>5. ASSUME req' = req, NEW q \in Requests
        PROVE  Single(q)'
      BY <1>4, <1>5 DEF Single, Is
  <1>6. ASSUME NEW s \in Slots,
               LoopStep(s) \/ PortRefusesTurn(s) \/ PortStartsTurn(s) \/ TurnEnds(s)
        PROVE  (\A x \in Slots : Wakeful(x)') /\ (\A q \in Requests : Single(q)')
    <2>1. req' = req
        BY <1>1, <1>6, LoopStepTypes
    <2>2. \A x \in Slots : Wakeful(x)'
        BY <1>1, <1>2, <1>3, <1>4, <1>6, LoopStepKeepsWakeful
    <2> QED
        BY <1>5, <2>1, <2>2
  <1>7. CASE Arrives \/ \E q \in Requests : RequestStep(q)
      BY <1>1, <1>2, <1>3, <1>4, <1>7, RequestStepKeepsWakeful
  <1>8. CASE Restart
    <2>1. \A x \in Slots : Wakeful(x)'
        BY <1>1, <1>2, <1>4, <1>8, RestartIsWakeful
    <2>2. ASSUME NEW q \in Requests PROVE Single(q)'
      <3>1. (req'[q] = req[q] /\ req[q].pc \in Over) \/ req'[q].pc = "lost"
          BY <1>8 DEF Restart, RequestAt
      <3> QED
          BY <1>4, <3>1 DEF Single, Over
    <2> QED
        BY <2>1, <2>2
  <1>9. CASE UNCHANGED <<mgrVars, loop, unread, req>> /\ \A x \in Slots : permit[x] => permit'[x]
    <2>1. ASSUME NEW x \in Slots PROVE Wakeful(x)'
      <3>1. pending'[x] <= pending[x] /\ (IsActive' => IsActive)
          BY <1>1, <1>9, ManagerAssumption DEF mgrVars, IsActive, MgrTypeOK
      <3>2. /\ Coming(x)' \subseteq Coming(x) /\ Theirs(x)' \subseteq Theirs(x)
            /\ Telling(x)' \subseteq Telling(x) /\ Waking(x)' \subseteq Waking(x)
            /\ Reporting(x)' \subseteq Reporting(x)
          BY <1>9 DEF Coming, Theirs, Telling, Waking, Reporting
      <3>3. Eased(x)
          BY <1>1, <1>2, <1>4, <3>1, <3>2, FewStays DEF Wakeful
      <3>4. AboutToNotify(x) => AboutToNotify(x)'
          BY <1>9 DEF AboutToNotify
      <3> QED
          BY <1>1, <1>2, <1>4, <1>9, <3>1, <3>3, <3>4, WakefulPassedBy
    <2> QED
        BY <1>5, <1>9, <2>1
  <1>10. ASSUME NEW s \in Slots, RestoreDrains(s)
         PROVE  UNCHANGED <<mgrVars, loop, unread, req>> /\ \A x \in Slots : permit[x] => permit'[x]
    <2>1. permit' = [permit EXCEPT ![s] = permit[s] \/ ~IsActive]
        BY <1>10 DEF RestoreDrains
    <2>2. DOMAIN permit = Slots
        BY <1>1 DEF SessionTypes
    <2>3. \A x \in Slots : permit[x] => permit'[x]
        BY <2>1, <2>2, Zenon
    <2> QED
        BY <1>10, <2>3 DEF RestoreDrains
  <1>11. UNCHANGED vars
           => UNCHANGED <<mgrVars, loop, unread, req>> /\ \A x \in Slots : permit[x] => permit'[x]
      BY DEF vars, kept
  <1> QED
      BY <1>6, <1>7, <1>8, <1>9, <1>10, <1>11 DEF Next, Rests

\* In a session of at most two user messages, as long as no call fails, no wake is lost
\* (wake_agent_for_team_work and the loops of run_event_loop, whose Notify keeps one permit
\* for any number of wakes): whatever the slots, the runs and the restarts.
THEOREM NoWakeIsStranded ==
  ASSUME TwoSends
  PROVE  Spec => [](faults = 0 => NoStrandedWake)
  <1>1. Init => WakesKept
      BY InitIsWakeful
  <1>2. SessionInv /\ WakesKept /\ [Next]_vars => WakesKept'
      BY NextKeepsWakes
  <1>3. SessionInv /\ WakesKept => (faults = 0 => NoStrandedWake)
    <2> SUFFICES ASSUME SessionInv, WakesKept, faults = 0, NEW s \in Slots, pending[s] > 0
                 PROVE  permit[s] \/ ~At(s, "wait") \/ AboutToNotify(s)
        BY DEF NoStrandedWake
    <2>1. Attended(s)
        BY DEF WakesKept, Wakeful
    <2> QED
        BY <2>1 DEF Attended
  <1> QED
      BY <1>1, <1>2, <1>3, SessionInvariant, PTL DEF Spec

----------------------------------------------------------------------------
\* Active runs.

\* The sessions in question: nothing is cancelled.
NoCancels == RunCancels = {} /\ ChildCancels = {}

\* Nothing is marked in the record of the run.
Unmarked ==
    /\ status /= "cancelling"
    /\ \A r \in Reservations : starting[r] /= NoReservation => starting[r].state = "starting"

\* No loop has to stop its turn, and every request is a send.
OnTime(s) == loop[s].pc \notin {"lateCancel", "lateRecord", "lateTry"}

Sends(q) ==
    /\ req[q].pc \in {"write", "wake", "notify"} \cup Over
    /\ req[q].kind \notin {"runCancel", "childCancel"}

\* An active run that nothing is outstanding in: it has just been opened, and the wake of
\* its message is to come, or its wake was claimed for a turn of another run, whose end
\* calls maybe_complete.
EmptyRun == IsActive /\ Drained(active, starting, pending)

Owing(q) == Is(q, "userSend") /\ req[q].pc \in {"write", "wake"}

Finishing(s) ==
    \/ At(s, "maybe")
    \/ loop[s].pc \in {"running"} \cup Closing /\ Recorded(s)

EmptyRunIsServed ==
    EmptyRun => (\E q \in Requests : Owing(q)) \/ (\E s \in Slots : Finishing(s))

ServedInv ==
    /\ Unmarked
    /\ \A s \in Slots : OnTime(s)
    /\ \A q \in Requests : Sends(q)
    /\ EmptyRunIsServed

\* A call that ends in maybe_complete_locked marks nothing and leaves no empty run.
LEMMA CompletingServes ==
  ASSUME Unmarked, NEW a, NEW st, NEW p, MaybeCompleteLocked(a, st, p),
         \A r \in Reservations : st[r] /= NoReservation => st[r].state = "starting"
  PROVE  Unmarked' /\ ~EmptyRun'
  <1>1. CASE Close("completed")
      BY <1>1 DEF Close, NoReservations, Unmarked, EmptyRun, IsActive
  <1>2. CASE Keep(a, st, p) /\ ~(Drained(a, st, p) /\ IsActive)
      BY <1>2 DEF Keep, Unmarked, EmptyRun, IsActive, Drained
  <1> QED
      BY <1>1, <1>2 DEF MaybeCompleteLocked

\* Nor does one that fails the run.
LEMMA FailingServes ==
  ASSUME Close("failed")
  PROVE  Unmarked' /\ ~EmptyRun'
  BY DEF Close, NoReservations, Unmarked, EmptyRun, IsActive

\* A recorded wake is outstanding.
LEMMA WakeIsOutstanding ==
  ASSUME MgrTypeOK, Unmarked, NEW s \in Slots, RecordPendingWake(s)
  PROVE  Unmarked' /\ ~EmptyRun'
  <1>1. Unmarked'
      BY DEF RecordPendingWake, Unmarked
  <1>2. pending[s] \in Nat /\ pending'[s] = pending[s] + 1
      BY ManagerAssumption DEF RecordPendingWake, MgrTypeOK
  <1>3. pending'[s] /= 0
      BY <1>2
  <1> QED
      BY <1>1, <1>3 DEF EmptyRun, Drained, NoWakes

\* A step that leaves the record alone, and everyone at what they serve it with.
LEMMA StillServes ==
  ASSUME Unmarked, EmptyRunIsServed, UNCHANGED mgrVars,
         \A q \in Requests : Owing(q) => Owing(q)',
         \A s \in Slots : Finishing(s) => Finishing(s)'
  PROVE  Unmarked' /\ EmptyRunIsServed'
  <1>1. Unmarked'
      BY DEF mgrVars, Unmarked
  <1>2. EmptyRun' => EmptyRun
      BY DEF mgrVars, EmptyRun, IsActive, Drained
  <1> QED
      BY <1>1, <1>2 DEF EmptyRunIsServed

\* A step of a loop keeps the run served when the loop, if it was to end the turn of a
\* run, still is.
LEMMA LoopStillServes ==
  ASSUME SessionTypes, MgrTypeOK, Unmarked, EmptyRunIsServed, NEW s \in Slots,
         LoopStep(s) \/ PortRefusesTurn(s) \/ PortStartsTurn(s) \/ TurnEnds(s),
         UNCHANGED mgrVars, Finishing(s) => Finishing(s)'
  PROVE  Unmarked' /\ EmptyRunIsServed'
  <1>1. req' = req
      BY LoopStepTypes
  <1>2. \A q \in Requests : Owing(q) => Owing(q)'
      BY <1>1 DEF Owing, Is
  <1>3. \A t \in Slots \ {s} : loop'[t] = loop[t]
      BY LoopStepMoves DEF Moves
  <1>4. \A t \in Slots \ {s} : Finishing(t) => Finishing(t)'
      BY <1>3 DEF Finishing, At, Recorded, Tracked
  <1> QED
      BY <1>2, <1>4, StillServes

\* A loop that goes on with its locals has the same turn and result.
LEMMA GotoKeepsTurn ==
  ASSUME SessionTypes, NEW s \in Slots, NEW l \in LoopPcs, Goto(s, l)
  PROVE  loop'[s].pc = l /\ loop'[s].run = loop[s].run /\ loop'[s].result = loop[s].result
  <1>1. loop'[s] = [loop[s] EXCEPT !.pc = l]
      BY GotoMoves DEF SessionTypes, Moves
  <1>2. loop[s] \in Loop
      BY DEF SessionTypes
  <1> QED
      BY <1>1, <1>2 DEF Loop

\* The steps of a loop that leave the record alone.
LEMMA ReaderServes ==
  ASSUME SessionTypes, MgrTypeOK, Unmarked, EmptyRunIsServed, NEW s \in Slots,
         \/ LoopWakes(s) \/ Peeks(s) \/ PeekFails(s) \/ Plans(s) \/ ClaimRefused(s)
         \/ SetsWorking(s) \/ MarksError(s) \/ MarksIdle(s) \/ TellsLead(s)
         \/ ChecksAllIdle(s) \/ PokesLead(s) \/ TurnEnds(s)
  PROVE  Unmarked' /\ EmptyRunIsServed' /\ OnTime(s)'
  <1>0. UNCHANGED mgrVars /\ (LoopStep(s) \/ TurnEnds(s)) /\ loop[s] \in Loop
      BY DEF LoopWakes, Peeks, PeekFails, Plans, ClaimRefused, SetsWorking, MarksError,
         MarksIdle, TellsLead, ChecksAllIdle, PokesLead, TurnEnds, LoopStep, SessionTypes
  <1> USE DEF At
  <1>1. CASE LoopWakes(s) \/ Peeks(s) \/ PeekFails(s) \/ Plans(s) \/ ClaimRefused(s)
             \/ SetsWorking(s)
    <2>1. ~Finishing(s)
        BY <1>1 DEF LoopWakes, Peeks, PeekFails, Plans, ClaimRefused, SetsWorking,
           Finishing, Closing
    <2>2. (LoopWakes(s) \/ SetsWorking(s)) => OnTime(s)'
        BY GotoKeepsTurn DEF LoopWakes, SetsWorking, LoopPcs, OnTime
    <2>3. (PeekFails(s) \/ ClaimRefused(s)) => OnTime(s)'
        BY RestartingRoute DEF PeekFails, ClaimRefused, LoopPcs, OnTime
    <2>4. Peeks(s) => OnTime(s)'
      <3>1. Peeks(s) => \E l \in {"empty", "plan"} :
                            loop'[s] = [loop[s] EXCEPT !.peeked = unread[s], !.pc = l]
          BY PeeksMoves DEF Moves
      <3> QED
          BY <1>0, <3>1 DEF Loop, OnTime
    <2>5. Plans(s) => OnTime(s)'
      <3>1. Plans(s) => \E n, l : /\ l \in {"claim", "work"}
                                  /\ loop'[s] = [loop[s] EXCEPT !.run = n, !.pc = l]
          BY PlansMoves DEF Moves
      <3> QED
          BY <1>0, <3>1 DEF Loop, OnTime
    <2>6. OnTime(s)'
        BY <1>1, <2>2, <2>3, <2>4, <2>5 DEF OnTime
    <2> QED
        BY <1>0, <2>1, <2>6, LoopStillServes
  <1>2. ASSUME loop'[s].pc \in Closing, loop'[s].run = loop[s].run,
               loop'[s].result = loop[s].result \/ loop'[s].result \in {"ok", "failed"},
               loop[s].pc /= "maybe"
        PROVE  Unmarked' /\ EmptyRunIsServed' /\ OnTime(s)'
    <2>1. Finishing(s) => Finishing(s)'
        BY <1>2 DEF Finishing, Recorded, Tracked
    <2> QED
        BY <1>0, <1>2, <2>1, LoopStillServes DEF OnTime, Closing
  <1>3. CASE MarksError(s) \/ TellsLead(s) \/ PokesLead(s)
    <2>1. PICK l \in {"markIdle", "allIdle", "record"} : Goto(s, l)
        BY <1>3 DEF MarksError, TellsLead, PokesLead
    <2>2. l \in LoopPcs /\ l \in Closing
        BY DEF LoopPcs, Closing
    <2>3. loop[s].pc /= "maybe"
        BY <1>3 DEF MarksError, TellsLead, PokesLead
    <2> QED
        BY <1>2, <2>1, <2>2, <2>3, GotoKeepsTurn
  <1>4. CASE MarksIdle(s) \/ ChecksAllIdle(s)
    <2>1. PICK l \in {"record", "tellLead", "wakeLead"} : Goto(s, l)
      <3>1. CASE MarksIdle(s)
          BY <3>1 DEF MarksIdle
      <3>2. CASE ChecksAllIdle(s)
          BY <3>2 DEF ChecksAllIdle
      <3> QED
          BY <1>4, <3>1, <3>2
    <2>2. l \in LoopPcs /\ l \in Closing
        BY DEF LoopPcs, Closing
    <2>3. loop[s].pc /= "maybe"
        BY <1>4 DEF MarksIdle, ChecksAllIdle
    <2> QED
        BY <1>2, <2>1, <2>2, <2>3, GotoKeepsTurn
  <1>5. CASE TurnEnds(s)
    <2>1. PICK r \in {"ok", "failed"}, l \in {"markIdle", "markError"} :
             loop'[s] = [loop[s] EXCEPT !.result = r, !.peeked = {}, !.asked = FALSE, !.pc = l]
        BY <1>5, TurnEndsMoves DEF Moves
    <2>2. loop'[s].pc = l /\ loop'[s].run = loop[s].run /\ loop'[s].result = r
        BY <1>0, <2>1 DEF Loop
    <2>3. loop[s].pc /= "maybe" /\ l \in Closing
        BY <1>5 DEF TurnEnds, Closing
    <2> QED
        BY <1>2, <2>2, <2>3
  <1> QED
      BY <1>1, <1>3, <1>4, <1>5

\* The steps of a loop that call the record.
LEMMA CallerServes ==
  ASSUME SessionTypes, RecordInv, Unmarked, EmptyRunIsServed, NEW s \in Slots, Placed(s),
         \/ ObservesEmpty(s) \/ Claims(s) \/ WakesLead(s) \/ RecordsChild(s)
         \/ CompletesRun(s) \/ PortRefusesTurn(s) \/ PortStartsTurn(s)
  PROVE  Unmarked' /\ EmptyRunIsServed' /\ OnTime(s)'
  <1>0. /\ loop[s] \in Loop /\ s \in Reservations /\ MgrTypeOK
        /\ LoopStep(s) \/ PortRefusesTurn(s) \/ PortStartsTurn(s) \/ TurnEnds(s)
      BY SessionAssumption DEF LoopStep, SessionTypes, RecordInv
  <1>1. ~EmptyRun' => EmptyRunIsServed'
      BY DEF EmptyRunIsServed
  <1>2. \A r \in Reservations : starting[r] /= NoReservation => starting[r].state = "starting"
      BY DEF Unmarked
  <1> USE DEF At
  <1>3. CASE ObservesEmpty(s)
    <2>1. OnTime(s)'
        BY <1>3, RestartingRoute DEF ObservesEmpty, LoopPcs, OnTime
    <2>2. CASE UNCHANGED mgrVars
      <3>1. ~Finishing(s)
          BY <1>3 DEF ObservesEmpty, Finishing, Closing
      <3> QED
          BY <1>0, <2>1, <2>2, <3>1, LoopStillServes
    <2>3. ASSUME NEW p, MaybeCompleteLocked(active, starting, p)
          PROVE  Unmarked' /\ EmptyRunIsServed'
        BY <1>1, <1>2, <2>3, CompletingServes
    <2> QED
        BY <1>3, <2>1, <2>2, <2>3 DEF ObservesEmpty, RecordEmptyWakeObserved
  <1>4. CASE Claims(s)
    <2> DEFINE v == [run |-> lastRun, slot |-> s, state |-> "starting"]
    <2>1. IsActive /\ UNCHANGED status /\ starting' = [starting EXCEPT ![s] = v]
        BY <1>4 DEF Claims, ClaimWakeForTurn, CanClaim
    <2>2. loop'[s].pc = "work"
        BY <1>0, <1>4 DEF Claims, SessionTypes, Loop
    <2>3. v.state = "starting" /\ v /= NoReservation
      <3>1. lastRun \in Runs
          BY <2>1 DEF RecordInv, OpenRunHasId, Exists, IsActive
      <3> QED
          BY <3>1, ManagerAssumption DEF Reservation
    <2> HIDE DEF v
    <2>4. starting'[s] = v /\ \A r \in Reservations \ {s} : starting'[r] = starting[r]
        BY <1>0, <2>1 DEF MgrTypeOK
    <2>5. Unmarked'
        BY <2>1, <2>3, <2>4 DEF Unmarked
    <2>6. ~EmptyRun'
        BY <1>0, <2>3, <2>4 DEF EmptyRun, Drained, NoReservations
    <2> QED
        BY <1>1, <2>2, <2>5, <2>6 DEF OnTime
  <1>5. CASE WakesLead(s)
    <2>1. PICK l \in {"pokeLead", "record"} : Goto(s, l)
        BY <1>5 DEF WakesLead
    <2>2. /\ loop'[s].pc = l /\ loop'[s].run = loop[s].run
          /\ loop'[s].result = loop[s].result
        BY <2>1, GotoKeepsTurn DEF LoopPcs
    <2>3. CASE UNCHANGED mgrVars
      <3>1. Finishing(s) => Finishing(s)'
          BY <1>5, <2>2 DEF WakesLead, Finishing, Closing, Recorded, Tracked
      <3> QED
          BY <1>0, <2>2, <2>3, <3>1, LoopStillServes DEF OnTime
    <2>4. CASE RecordPendingWake(Lead)
      <3>1. Unmarked' /\ ~EmptyRun'
          BY <1>0, <2>4, WakeIsOutstanding, SessionAssumption
      <3> QED
          BY <1>1, <2>2, <3>1 DEF OnTime
    <2> QED
        BY <1>5, <2>3, <2>4 DEF WakesLead
  <1>6. CASE RecordsChild(s)
    <2>1. Restarting(s, "maybe") \/ (~Recorded(s) /\ Restarting(s, "peek"))
        BY <1>6 DEF RecordsChild
    <2>2. loop'[s].pc = "maybe" \/ (~Recorded(s) /\ loop'[s].pc = "peek")
        BY <2>1, RestartingRoute DEF LoopPcs
    <2>3. CASE UNCHANGED mgrVars
      <3>1. Finishing(s) => Finishing(s)'
          BY <1>6, <2>2 DEF RecordsChild, Finishing
      <3> QED
          BY <1>0, <2>2, <2>3, <3>1, LoopStillServes DEF OnTime
    <2>4. CASE RecordChildCompleted(s, loop[s].turn, loop[s].result = "ok") /\ ~UNCHANGED mgrVars
      <3>1. Unmarked' /\ ~EmptyRun'
          BY <1>2, <2>4, CompletingServes, FailingServes DEF RecordChildCompleted
      <3> QED
          BY <1>1, <2>2, <3>1 DEF OnTime
    <2> QED
        BY <1>6, <2>3, <2>4 DEF RecordsChild
  <1>7. CASE CompletesRun(s)
    <2>1. loop'[s].pc = "peek"
        BY <1>7, GotoRoute DEF CompletesRun, LoopPcs
    <2>2. CASE ~Exists /\ UNCHANGED mgrVars
      <3>1. Unmarked' /\ ~EmptyRun'
          BY <2>2 DEF mgrVars, Exists, Unmarked, EmptyRun, IsActive
      <3> QED
          BY <1>1, <2>1, <3>1 DEF OnTime
    <2>3. CASE MaybeCompleteLocked(active, starting, pending)
        BY <1>1, <1>2, <2>1, <2>3, CompletingServes DEF OnTime
    <2> QED
        BY <1>7, <2>2, <2>3 DEF CompletesRun, MaybeComplete
  <1>8. CASE PortRefusesTurn(s)
    <2>1. loop'[s].pc = "markError"
        BY <1>0, <1>8 DEF PortRefusesTurn, SessionTypes, LoopAt
    <2>2. CASE UNCHANGED mgrVars
      <3>1. ~Finishing(s)
          BY <1>8 DEF PortRefusesTurn, Finishing, Closing
      <3> QED
          BY <1>0, <2>1, <2>2, <3>1, LoopStillServes DEF OnTime
    <2>3. CASE RecordChildStartFailed(s) /\ ~UNCHANGED mgrVars
      <3>1. starting[s] /= NoReservation /\ Close("failed")
          BY <1>0, <1>2, <2>3 DEF RecordChildStartFailed, Unmarked
      <3> QED
          BY <1>1, <2>1, <3>1, FailingServes DEF OnTime
    <2> QED
        BY <1>8, <2>2, <2>3 DEF PortRefusesTurn
  <1>9. CASE PortStartsTurn(s)
    <2>1. AfterStart(s) = "running"
        BY <1>0, <1>2 DEF AfterStart, ChildStartDecision, Unmarked
    <2>2. loop'[s] = [loop[s] EXCEPT !.turn = NewTurn(s), !.pc = "running"]
        BY <1>0, <1>9, <2>1, PortStartsMoves DEF Moves
    <2>3. /\ loop'[s].pc = "running" /\ loop'[s].run = loop[s].run
          /\ loop'[s].result = loop[s].result
        BY <1>0, <2>2 DEF Loop
    <2>4. ~Finishing(s)
        BY <1>9 DEF PortStartsTurn, Finishing, Closing
    <2>5. CASE UNCHANGED mgrVars
        BY <1>0, <2>3, <2>4, <2>5, LoopStillServes DEF OnTime
    <2>6. CASE Tracked(s) /\ RecordChildStarted(s, ChildOf(s, NewTurn(s))) /\ ~UNCHANGED mgrVars
      <3>1. /\ starting' = [starting EXCEPT ![s] = NoReservation]
            /\ status' = status \/ status' = "running"
          BY <2>6 DEF RecordChildStarted
      <3>2. Unmarked'
          BY <1>0, <3>1 DEF Unmarked, MgrTypeOK
      <3>3. loop[s].result /= "refused"
          BY <1>9 DEF PortStartsTurn, Placed, Closing
      <3>4. Finishing(s)'
          BY <2>3, <2>6, <3>3 DEF Finishing, Recorded, Tracked
      <3> QED
          BY <2>3, <3>2, <3>4 DEF OnTime, EmptyRunIsServed
    <2> QED
        BY <1>9, <2>5, <2>6 DEF PortStartsTurn
  <1> QED
      BY <1>3, <1>4, <1>5, <1>6, <1>7, <1>8, <1>9

\* A loop that is on time takes no late step.
LEMMA LoopStepServes ==
  ASSUME SessionTypes, RecordInv, Unmarked, EmptyRunIsServed, NEW s \in Slots, Placed(s),
         OnTime(s), LoopStep(s) \/ PortRefusesTurn(s) \/ PortStartsTurn(s) \/ TurnEnds(s)
  PROVE  Unmarked' /\ EmptyRunIsServed' /\ OnTime(s)'
  <1>1. ~LateStartCancels(s) /\ ~LateStartRecords(s) /\ ~LateStartTries(s)
      BY DEF OnTime, LateStartCancels, LateStartRecords, LateStartTries, At
  <1>2. MgrTypeOK
      BY DEF RecordInv
  <1> QED
      BY <1>1, <1>2, ReaderServes, CallerServes DEF LoopStep

\* A request keeps the run served when, if it was owing its wake, it still is.
LEMMA RequestStillServes ==
  ASSUME Unmarked, EmptyRunIsServed, NEW q \in Requests, NEW r, UNCHANGED <<mgrVars, loop>>,
         req'[q] = r, \A p \in Requests \ {q} : req'[p] = req[p],
         Owing(q) => r.kind = "userSend" /\ r.pc \in {"write", "wake"}
  PROVE  Unmarked' /\ EmptyRunIsServed'
  <1>1. \A p \in Requests : Owing(p) => Owing(p)'
      BY DEF Owing, Is
  <1>2. \A s \in Slots : Finishing(s) => Finishing(s)'
      BY DEF Finishing, At, Recorded, Tracked
  <1> QED
      BY <1>1, <1>2, StillServes

\* A request that ends keeps the run served if it owes no wake, or no run is active.
LEMMA EndsServes ==
  ASSUME SessionTypes, Unmarked, EmptyRunIsServed, NEW q \in Requests, NEW l \in Over,
         Ends(q, l), UNCHANGED <<mgrVars, loop>>, ~IsActive \/ ~Owing(q)
  PROVE  Unmarked' /\ EmptyRunIsServed' /\ Sends(q)'
  <1>1. req'[q] = RequestAt(l) /\ \A p \in Requests \ {q} : req'[p] = req[p]
      BY BecomesIs DEF Ends
  <1>2. Sends(q)'
      BY <1>1 DEF Sends, RequestAt
  <1>3. CASE ~IsActive
    <2>1. Unmarked' /\ ~EmptyRun'
        BY <1>3 DEF mgrVars, Unmarked, EmptyRun, IsActive
    <2> QED
        BY <1>2, <2>1 DEF EmptyRunIsServed
  <1>4. CASE ~Owing(q)
      BY <1>1, <1>2, <1>4, RequestStillServes
  <1> QED
      BY <1>3, <1>4

\* The steps of a request that is a send.
LEMMA RequestServes ==
  ASSUME SessionTypes, RecordInv, Unmarked, EmptyRunIsServed, NEW q \in Requests, Sends(q),
         \/ \E s \in Slots : \/ UserAccepts(q, s) \/ UserRefused(q, s) \/ WritesRow(q, s)
                             \/ ReservesWake(q, s) \/ \E to \in SUBSET Slots : ToolAccepts(q, s, to)
         \/ WriteFails(q) \/ WakeRejected(q) \/ Notifies(q)
  PROVE  Unmarked' /\ EmptyRunIsServed' /\ Sends(q)'
  <1>0. req[q] \in Request /\ MgrTypeOK
      BY DEF SessionTypes, RecordInv
  <1>1. ~EmptyRun' => EmptyRunIsServed'
      BY DEF EmptyRunIsServed
  <1>2. ASSUME NEW s \in Slots, UserAccepts(q, s)
        PROVE  Unmarked' /\ EmptyRunIsServed' /\ Sends(q)'
    <2> DEFINE r == [req[q] EXCEPT !.kind = "userSend", !.pc = "write", !.to = {s}, !.left = {s}]
    <2>1. req'[q] = r
        BY <1>2, BecomesIs DEF UserAccepts
    <2>2. r.kind = "userSend" /\ r.pc = "write"
        BY <1>0 DEF Request
    <2> HIDE DEF r
    <2>3. Owing(q)' /\ Sends(q)'
        BY <2>1, <2>2 DEF Owing, Is, Sends
    <2>4. Unmarked'
        BY <1>2 DEF UserAccepts, AcceptUserMessage, mgrVars, Unmarked, NoReservations
    <2> QED
        BY <2>3, <2>4 DEF EmptyRunIsServed
  <1>3. ASSUME NEW s \in Slots, UserRefused(q, s)
        PROVE  Unmarked' /\ EmptyRunIsServed' /\ Sends(q)'
    <2>1. ~Owing(q) /\ Ends(q, "refused") /\ UNCHANGED <<mgrVars, loop>>
        BY <1>3 DEF UserRefused, ReqAt, Owing, OnlyReq
    <2> QED
        BY <2>1, EndsServes DEF Over
  <1>4. ASSUME NEW s \in Slots, NEW to \in SUBSET Slots, ToolAccepts(q, s, to)
        PROVE  Unmarked' /\ EmptyRunIsServed' /\ Sends(q)'
    <2>1. PICK l \in {"wake", "write"} :
             Becomes(q, [req[q] EXCEPT !.kind = "toolSend", !.to = to, !.left = to, !.pc = l])
        BY <1>4 DEF ToolAccepts
    <2> DEFINE r == [req[q] EXCEPT !.kind = "toolSend", !.to = to, !.left = to, !.pc = l]
    <2>2. req'[q] = r /\ \A p \in Requests \ {q} : req'[p] = req[p]
        BY <2>1, BecomesIs
    <2>3. r.kind = "toolSend" /\ r.pc = l
        BY <1>0 DEF Request
    <2> HIDE DEF r
    <2>4. ~Owing(q) /\ UNCHANGED <<mgrVars, loop>>
        BY <1>4 DEF ToolAccepts, ReqAt, Owing, OnlyReq
    <2>5. Sends(q)'
        BY <2>2, <2>3 DEF Sends
    <2> QED
        BY <2>2, <2>4, <2>5, RequestStillServes
  <1>5. ASSUME NEW s \in Slots, WritesRow(q, s)
        PROVE  Unmarked' /\ EmptyRunIsServed' /\ Sends(q)'
    <2> DEFINE r == IF req[q].left = {s}
                    THEN [req[q] EXCEPT !.pc = "wake", !.left = req[q].to]
                    ELSE [req[q] EXCEPT !.left = @ \ {s}]
    <2>1. req[q].pc = "write" /\ Becomes(q, r) /\ UNCHANGED <<mgrVars, loop>>
        BY <1>5 DEF WritesRow, ReqAt
    <2>2. req'[q] = r /\ \A p \in Requests \ {q} : req'[p] = req[p]
        BY <2>1, BecomesIs
    <2>3. r.kind = req[q].kind /\ r.pc \in {"write", "wake"}
        BY <1>0, <2>1 DEF Request
    <2> HIDE DEF r
    <2>4. Sends(q)'
        BY <2>2, <2>3 DEF Sends
    <2>5. Owing(q) => r.kind = "userSend" /\ r.pc \in {"write", "wake"}
        BY <2>3 DEF Owing, Is
    <2> QED
        BY <2>1, <2>2, <2>4, <2>5, RequestStillServes
  <1>6. ASSUME NEW s \in Slots, ReservesWake(q, s)
        PROVE  Unmarked' /\ EmptyRunIsServed' /\ Sends(q)'
    <2> DEFINE r == [req[q] EXCEPT !.pc = "notify", !.at = s]
    <2>1. req'[q] = r
        BY <1>6, BecomesIs DEF ReservesWake
    <2>2. r.kind = req[q].kind /\ r.pc = "notify"
        BY <1>0 DEF Request
    <2> HIDE DEF r
    <2>3. Unmarked' /\ ~EmptyRun'
        BY <1>0, <1>6, WakeIsOutstanding DEF ReservesWake
    <2> QED
        BY <1>1, <2>1, <2>2, <2>3 DEF Sends
  <1>7. CASE WriteFails(q)
    <2>1. Ends(q, "refused") /\ loop' = loop
        BY <1>7 DEF WriteFails
    <2>2. CASE UNCHANGED mgrVars /\ (~Exists \/ ~Is(q, "userSend"))
      <3>1. ~IsActive \/ ~Owing(q)
          BY <2>2 DEF Owing, IsActive, Exists
      <3> QED
          BY <2>1, <2>2, <3>1, EndsServes DEF Over
    <2>3. CASE Close("failed")
      <3>1. req'[q] = RequestAt("refused")
          BY <2>1, BecomesIs DEF Ends
      <3> QED
          BY <1>1, <2>3, <3>1, FailingServes DEF Sends, RequestAt, Over
    <2> QED
        BY <1>7, <2>2, <2>3 DEF WriteFails, CompleteFailed
  <1>8. CASE WakeRejected(q)
      BY <1>8, EndsServes DEF WakeRejected, OnlyReq, Over
  <1>9. CASE Notifies(q)
    <2>1. ~Is(q, "childCancel") /\ ~Owing(q) /\ UNCHANGED <<mgrVars, loop>>
        BY <1>9 DEF Notifies, ReqAt, Owing, Sends, Is
    <2> DEFINE r == [req[q] EXCEPT !.pc = "wake", !.left = @ \ {req[q].at}]
    <2>2. CASE Becomes(q, r)
      <3>1. req'[q] = r /\ \A p \in Requests \ {q} : req'[p] = req[p]
          BY <2>2, BecomesIs
      <3>2. r.kind = req[q].kind /\ r.pc = "wake"
          BY <1>0 DEF Request
      <3> HIDE DEF r
      <3>3. Sends(q)'
          BY <3>1, <3>2 DEF Sends
      <3> QED
          BY <2>1, <3>1, <3>3, RequestStillServes
    <2>3. CASE Ends(q, "done")
        BY <2>1, <2>3, EndsServes DEF Over
    <2> QED
        BY <1>9, <2>1, <2>2, <2>3 DEF Notifies
  <1> QED
      BY <1>2, <1>3, <1>4, <1>5, <1>6, <1>7, <1>8, <1>9

\* Without cancellations, these are the steps of the requests.
LEMMA OnlySendsStep ==
  ASSUME NoCancels, \A q \in Requests : Sends(q),
         Arrives \/ \E q \in Requests : RequestStep(q)
  PROVE  \E q \in Requests :
            \/ \E s \in Slots : \/ UserAccepts(q, s) \/ UserRefused(q, s) \/ WritesRow(q, s)
                                \/ ReservesWake(q, s)
                                \/ \E to \in SUBSET Slots : ToolAccepts(q, s, to)
            \/ WriteFails(q) \/ WakeRejected(q) \/ Notifies(q)
  <1>1. CASE Arrives
    <2>1. UserSends \subseteq Requests /\ ToolSends \subseteq Requests
        BY DEF Requests
    <2>2. \A s \in Slots : {{t} : t \in Slots} \cup {Slots \ {s}} \subseteq SUBSET Slots
        OBVIOUS
    <2>3. ~\E q \in RunCancels : CancelChecks(q)
        BY DEF NoCancels
    <2>4. ~\E q \in ChildCancels, s \in Slots, r \in 1..lastRun :
             CancelsActiveChild(q, s, r) \/ CancelsStartingChild(q, s, r)
        BY DEF NoCancels
    <2> QED
        BY <1>1, <2>1, <2>2, <2>3, <2>4, Zenon DEF Arrives
  <1>2. ASSUME NEW q \in Requests, RequestStep(q)
        PROVE  \/ \E s \in Slots : WritesRow(q, s) \/ ReservesWake(q, s)
               \/ WriteFails(q) \/ WakeRejected(q) \/ Notifies(q)
    <2>1. req[q].pc \notin {"begin", "peek", "mark", "list", "cancel", "record", "complete",
                            "settle"}
        BY DEF Sends, Over
    <2>2. /\ ~CancelBegins(q) /\ ~CancelMarks(q) /\ ~CancelLists(q) /\ ~Settles(q)
          /\ ~ChildCancelCompletes(q) /\ ~CancelDrainFails(q) /\ ~ChildCancelFails(q)
        BY <2>1 DEF CancelBegins, CancelMarks, CancelLists, Settles, ChildCancelCompletes,
           CancelDrainFails, ChildCancelFails, ReqAt
    <2>3. \A c : ~CancelAsks(q, c) /\ ~CancelRecords(q, c) /\ ~ChildCancelRecords(q, c)
        BY <2>1 DEF CancelAsks, CancelRecords, ChildCancelRecords, ReqAt
    <2>4. \A s \in Slots : ~CancelPeeks(q, s)
        BY <2>1 DEF CancelPeeks, ReqAt
    <2> QED
        BY <1>2, <2>2, <2>3, <2>4 DEF RequestStep
  <1> QED
      BY <1>1, <1>2, Zenon

\* Every step keeps an empty run served.
LEMMA NextKeepsServed ==
  ASSUME NoCancels
  PROVE  SessionInv /\ ServedInv /\ [Next]_vars => ServedInv'
  <1> SUFFICES ASSUME SessionInv, ServedInv, [Next]_vars
               PROVE  ServedInv'
      OBVIOUS
  <1>1. SessionTypes /\ RecordInv /\ MgrTypeOK
      BY DEF SessionInv, RecordInv
  <1>2. ASSUME NEW s \in Slots,
               LoopStep(s) \/ PortRefusesTurn(s) \/ PortStartsTurn(s) \/ TurnEnds(s)
        PROVE  ServedInv'
    <2>1. Unmarked' /\ EmptyRunIsServed' /\ OnTime(s)'
        BY <1>1, <1>2, LoopStepServes DEF SessionInv, InStep, ServedInv
    <2>2. \A t \in Slots \ {s} : OnTime(t)'
      <3>1. \A t \in Slots \ {s} : loop'[t] = loop[t]
          BY <1>1, <1>2, LoopStepMoves DEF Moves
      <3> QED
          BY <3>1 DEF ServedInv, OnTime
    <2>3. \A q \in Requests : Sends(q)'
      <3>1. req' = req
          BY <1>1, <1>2, LoopStepTypes
      <3> QED
          BY <3>1 DEF ServedInv, Sends
    <2> QED
        BY <2>1, <2>2, <2>3 DEF ServedInv
  <1>3. CASE Arrives \/ \E q \in Requests : RequestStep(q)
    <2>1. PICK q \in Requests :
            \/ \E s \in Slots : \/ UserAccepts(q, s) \/ UserRefused(q, s) \/ WritesRow(q, s)
                                \/ ReservesWake(q, s)
                                \/ \E to \in SUBSET Slots : ToolAccepts(q, s, to)
            \/ WriteFails(q) \/ WakeRejected(q) \/ Notifies(q)
        BY <1>3, OnlySendsStep DEF ServedInv
    <2>2. Unmarked' /\ EmptyRunIsServed' /\ Sends(q)'
        BY <1>1, <2>1, RequestServes DEF ServedInv
    <2>3. loop' = loop /\ \A p \in Requests \ {q} : req'[p] = req[p]
        BY <1>1, <2>1, BecomesIs DEF UserAccepts, UserRefused, WritesRow, ReservesWake,
           ToolAccepts, WriteFails, WakeRejected, Notifies, OnlyReq, Ends, ReqGoto
    <2> QED
        BY <2>2, <2>3 DEF ServedInv, OnTime, Sends
  <1>4. CASE Restart
    <2>1. Unmarked' /\ ~EmptyRun'
        BY <1>4 DEF Restart, NoReservations, Unmarked, EmptyRun, IsActive
    <2>2. \A s \in Slots : OnTime(s)'
        BY <1>4 DEF Restart, FreshLoops, LoopAt, OnTime
    <2>3. ASSUME NEW q \in Requests
          PROVE  Sends(q)'
      <3>1. req'[q] = req[q] \/ req'[q] = RequestAt("lost")
          BY <1>4 DEF Restart
      <3> QED
          BY <3>1 DEF ServedInv, Sends, RequestAt, Over
    <2> QED
        BY <2>1, <2>2, <2>3 DEF ServedInv, EmptyRunIsServed
  <1>5. CASE UNCHANGED <<mgrVars, loop, req>>
    <2>1. \A q \in Requests : Owing(q) = Owing(q)' /\ (Sends(q) => Sends(q)')
        BY <1>5 DEF Owing, Is, Sends
    <2>2. \A s \in Slots : Finishing(s) = Finishing(s)' /\ (OnTime(s) => OnTime(s)')
        BY <1>5 DEF Finishing, At, Recorded, Tracked, OnTime
    <2> QED
        BY <1>5, <2>1, <2>2, StillServes DEF ServedInv
  <1>6. (\E s \in Slots : RestoreDrains(s)) \/ UNCHANGED vars => UNCHANGED <<mgrVars, loop, req>>
      BY DEF RestoreDrains, vars
  <1> QED
      BY <1>2, <1>3, <1>4, <1>5, <1>6 DEF Next, Rests

\* The same at the start.
LEMMA InitIsServed == Init => ServedInv
  BY DEF Init, MgrInit, NoReservations, FreshLoops, LoopAt, RequestAt, ServedInv, Unmarked,
     OnTime, Sends, Over, EmptyRunIsServed, EmptyRun, IsActive

\* As long as nothing is cancelled, an active run with nothing outstanding is one whose
\* wake is to come, or is about to be completed (maybe_complete after each turn of a run,
\* which the turn need not belong to): whatever is sent, fails or restarts.
THEOREM EmptyRunsAreServed ==
  ASSUME NoCancels
  PROVE  Spec => []EmptyRunIsServed
  <1>1. SessionInv /\ ServedInv /\ [Next]_vars => ServedInv'
      BY NextKeepsServed
  <1>2. ServedInv => EmptyRunIsServed
      BY DEF ServedInv
  <1> QED
      BY <1>1, <1>2, InitIsServed, SessionInvariant, PTL DEF Spec

\* In a session of at most two user messages, as long as no call fails, an active run is
\* never left waiting for what nobody is about to do: its wakes have a loop to settle them
\* (NoWakeIsStranded), its reservations and children a loop that holds them (NoOrphans), and
\* without any of these it is being served.
THEOREM ActiveRunsAreDriven ==
  ASSUME TwoSends
  PROVE  Spec => [](faults = 0 => ActiveRunIsDriven)
  <1>1. Spec => []EmptyRunIsServed
      BY EmptyRunsAreServed DEF TwoSends, NoCancels
  <1>2. SessionInv /\ EmptyRunIsServed /\ TrackedWorkIsLive /\ (faults = 0 => NoStrandedWake)
          => (faults = 0 => ActiveRunIsDriven)
    <2> SUFFICES ASSUME SessionInv, EmptyRunIsServed, TrackedWorkIsLive, NoStrandedWake,
                        IsActive, \A s \in Slots : ~permit[s] /\ At(s, "wait"),
                        \A q \in Requests : req[q].pc \in Over
                 PROVE  FALSE
        BY DEF ActiveRunIsDriven
    <2>1. MgrTypeOK
        BY DEF SessionInv, RecordInv
    <2>2. pending = NoWakes
      <3>1. ASSUME NEW s \in Slots PROVE pending[s] = 0
        <4>1. ~AboutToNotify(s)
          <5>1. \A t \in Slots : loop[t].pc /= "pokeLead"
              BY DEF At
          <5>2. \A q \in Requests : req[q].pc /= "notify"
              BY DEF Over
          <5> QED
              BY <5>1, <5>2 DEF AboutToNotify
        <4>2. ~(pending[s] > 0)
            BY <4>1 DEF NoStrandedWake
        <4>3. pending[s] \in Nat
            BY <2>1, ManagerAssumption DEF MgrTypeOK
        <4> QED
            BY <4>2, <4>3
      <3> QED
          BY <2>1, <3>1 DEF NoWakes, MgrTypeOK
    <2>3. active = NoChildren /\ starting = NoReservations
      <3>1. \A s \in Slots : active[s] = NoChild /\ starting[s] = NoReservation
          BY DEF TrackedWorkIsLive, At
      <3> QED
          BY <2>1, <3>1, SessionAssumption DEF MgrTypeOK, NoChildren, NoReservations
    <2>4. \A q \in Requests : ~Owing(q)
        BY DEF Owing, Over
    <2>5. \A s \in Slots : ~Finishing(s)
        BY DEF Finishing, At, Closing
    <2> QED
        BY <2>2, <2>3, <2>4, <2>5 DEF EmptyRunIsServed, EmptyRun, Drained
  <1> QED
      BY <1>1, <1>2, NoOrphans, NoWakeIsStranded, SessionInvariant, PTL

----------------------------------------------------------------------------
\* The session as a client of the run record.

\* A step of the session calls at most one method of the manager, or restarts.
LEMMA NextCallsManager ==
  ASSUME SessionInv, [Next]_vars
  PROVE  [MgrNext]_mgrVars \/ Restart
  <1>0. SessionTypes /\ MgrTypeOK /\ \A s \in Slots : Placed(s)
      BY DEF SessionInv, RecordInv, InStep
  <1>1. ASSUME NEW s \in Slots,
               LoopStep(s) \/ PortRefusesTurn(s) \/ PortStartsTurn(s) \/ TurnEnds(s)
        PROVE  [MgrNext]_mgrVars
      BY <1>0, <1>1, LoopStepCallsManager
  <1>2. ASSUME Arrives \/ \E q \in Requests : RequestStep(q)
        PROVE  [MgrNext]_mgrVars
      BY <1>0, <1>2, RequestStepCallsManager
  <1>3. (\E s \in Slots : RestoreDrains(s)) \/ UNCHANGED vars => [MgrNext]_mgrVars
      BY DEF RestoreDrains, vars
  <1> QED
      BY <1>1, <1>2, <1>3 DEF Next, Rests

\* One life of a session, from a start to the next: its loops and requests call the
\* manager the way any client may, so all that is proved of the manager holds in it.
THEOREM SessionIsClient ==
  ASSUME MaxRestarts = 0
  PROVE  Spec => MgrSpec
  <1>1. Init => MgrInit
      BY DEF Init
  <1>2. SessionInv /\ [Next]_vars => [MgrNext]_mgrVars
    <2>1. SessionInv => ~Restart
        BY DEF SessionInv, SessionTypes, Restart
    <2> QED
        BY <2>1, NextCallsManager
  <1> QED
      BY <1>1, <1>2, SessionInvariant, PTL DEF Spec, MgrSpec

\* One life of a session keeps the promises of the run lifecycle to whoever follows its
\* events: runs end with one event each, and only a failed one leaves work behind.
THEOREM SessionImplementsLifecycle ==
  ASSUME MaxRestarts = 0
  PROVE  Spec => ImplementsRunLifecycle
  BY SessionIsClient, ManagerImplementsLifecycle, PTL

\* What a method of the manager has announced stays announced.
LEMMA CallsKeepOutcomes ==
  ASSUME RecordInv, [MgrNext]_mgrVars
  PROVE  OutcomesStay
  <1>1. CASE outcome' = outcome
      BY <1>1 DEF OutcomesStay
  <1>2. ASSUME Exists, NEW e \in {"completed", "failed", "cancelled"}, Close(e)
        PROVE  OutcomesStay
    <2>1. lastRun \in Runs /\ ~(lastRun < lastRun)
        BY <1>2 DEF RecordInv, OpenRunHasId, MgrTypeOK
    <2>2. outcome[lastRun] = "none"
        BY <1>2, <2>1 DEF RecordInv, OpenRunUndecided
    <2> QED
        BY <1>2, <2>2 DEF RecordInv, MgrTypeOK, Close, OutcomesStay
  <1>3. ASSUME NEW a, NEW st, NEW p, Exists,
               MaybeCompleteLocked(a, st, p) \/ MaybeCancelledLocked(a, st, p)
        PROVE  OutcomesStay
      BY <1>1, <1>2, <1>3 DEF MaybeCompleteLocked, MaybeCancelledLocked, Keep
  <1>4. CASE UNCHANGED mgrVars
      BY <1>1, <1>4 DEF mgrVars
  <1>5. CASE \/ \E s \in Slots : AcceptUserMessage(s) \/ RecordPendingWake(s)
             \/ \E s \in Slots, r \in Reservations : ClaimWakeForTurn(s, r)
             \/ \E s \in Slots, r \in Reservations : BeginCancelChildStarting(s, r)
             \/ BeginCancel \/ \E s \in Slots : BeginCancelFor(s)
      BY <1>1, <1>5 DEF AcceptUserMessage, RecordPendingWake, ClaimWakeForTurn,
         BeginCancelChildStarting, BeginCancelFor, BeginCancel
  <1>6. ASSUME NEW r \in Reservations, NEW c \in Child, RecordChildStarted(r, c)
        PROVE  OutcomesStay
      BY <1>1, <1>4, <1>6 DEF RecordChildStarted
  <1>7. ASSUME NEW r \in Reservations, RecordChildStartFailed(r)
        PROVE  OutcomesStay
      BY <1>2, <1>3, <1>4, <1>7 DEF RecordChildStartFailed
  <1>8. ASSUME NEW s \in Slots, NEW t \in Turns, NEW ok \in BOOLEAN,
               RecordChildCompleted(s, t, ok)
        PROVE  OutcomesStay
      BY <1>2, <1>3, <1>4, <1>8 DEF RecordChildCompleted, Tracks
  <1>9. ASSUME NEW s \in Slots, RecordEmptyWakeObserved(s)
        PROVE  OutcomesStay
      BY <1>3, <1>4, <1>9 DEF RecordEmptyWakeObserved
  <1>10. CASE MaybeComplete \/ TryCompleteCancelled \/ CompleteFailed
      BY <1>2, <1>3, <1>4, <1>10 DEF MaybeComplete, TryCompleteCancelled, CompleteFailed
  <1>11. ASSUME NEW c \in Child, RecordChildCancelled(c)
         PROVE  OutcomesStay
      BY <1>3, <1>4, <1>11 DEF RecordChildCancelled
  <1> QED
      BY <1>4, <1>5, <1>6, <1>7, <1>8, <1>9, <1>10, <1>11 DEF MgrNext

\* The end of a run is announced once, whatever comes after it, a restart of the session
\* included, which leaves an open run without an end but never takes one back.
THEOREM EndsAreFinal == Spec => [][OutcomesStay]_vars
  <1>1. SessionInv /\ [Next]_vars => [OutcomesStay]_vars
    <2>1. Restart => OutcomesStay
        BY DEF Restart, OutcomesStay
    <2> QED
        BY <2>1, NextCallsManager, CallsKeepOutcomes DEF SessionInv
  <1> QED
      BY <1>1, SessionInvariant, PTL DEF Spec
====
