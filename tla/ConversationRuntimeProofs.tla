---------------------- MODULE ConversationRuntimeProofs ----------------------
(***************************************************************************)
(* The conversation runtime for every number of turns, requests and slots:   *)
(* one turn at a time (the inductive invariant joins the types of the claim   *)
(* and of the program counters to OneTurnAtATime) and the implementation of   *)
(* TurnPort; the types; every end announced (AnnounceInv); no relay waits     *)
(* for ever on an agent that is done (AgentInv, RelayInv); and one prompt at  *)
(* a time for an agent (AloneInv).                                           *)
(***************************************************************************)
EXTENDS ConversationRuntime, FiniteSetTheorems, TLAPS

\* What the claim needs of the state's types.
ClaimTypes ==
    /\ active \in Turns \cup {NoTurn}
    /\ pc \in [Builders -> TurnPc]

\* The inductive invariant: the claim and the program counters agree.
ClaimInv == ClaimTypes /\ OneTurnAtATime

\* The claim and the program counter of each turn: what the invariant reads.
claimVars == <<active, pc>>

\* Nothing is claimed before the first step.
LEMMA InitClaim == Init => ClaimInv
<1> SUFFICES ASSUME Init PROVE ClaimInv
    OBVIOUS
<1>1. ClaimTypes
    BY DEF Init, ClaimTypes, Builders, TurnPc
<1>2. OneTurnAtATime
    BY RequestsAreDistinct DEF Init, OneTurnAtATime, Holding, Builders, Turns
<1> QED BY <1>1, <1>2 DEF ClaimInv

\* A program counter that moves within one phase disturbs nothing.
LEMMA MovePreservesClaim ==
    ASSUME ClaimInv, NEW p \in Builders, NEW where \in TurnPc,
           Goto(p, where), active' = active,
           p \in Turns => (where \in Holding <=> pc[p] \in Holding)
    PROVE  ClaimInv'
<1>1. ClaimTypes'
    BY DEF ClaimInv, ClaimTypes, Goto
<1>2. OneTurnAtATime'
    BY DEF ClaimInv, ClaimTypes, OneTurnAtATime, Goto, Builders
<1> QED BY <1>1, <1>2 DEF ClaimInv

\* A turn that gives back its claim, or never had one, and goes on outside the
\* phases that hold it.
LEMMA ReleasePreservesClaim ==
    ASSUME ClaimInv, NEW t \in Turns, NEW where \in TurnPc \ Holding, ReleaseTo(t, where)
    PROVE  ClaimInv'
<1>1. Release(t) /\ Goto(t, where)
    BY DEF ReleaseTo
<1>2. ClaimTypes'
    BY <1>1 DEF ClaimInv, ClaimTypes, Goto, Release, Builders
<1>3. OneTurnAtATime'
    BY <1>1, RequestsAreDistinct DEF ClaimInv, ClaimTypes, OneTurnAtATime, Goto, Release, Builders
<1> QED BY <1>2, <1>3 DEF ClaimInv

\* The claim is taken by one turn, when nobody has it.
LEMMA ClaimPreservesClaim ==
    ASSUME ClaimInv, NEW t \in Turns, ClaimTurn(t)
    PROVE  ClaimInv'
<1>1. CASE shuttingDown \/ deleting \/ active # NoTurn
    <2>1. Goto(t, "refused") /\ active' = active /\ pc[t] = "loaded"
        BY <1>1 DEF ClaimTurn
    <2> QED BY <2>1, MovePreservesClaim DEF Builders, TurnPc, Holding
<1>2. CASE ~(shuttingDown \/ deleting \/ active # NoTurn)
    <2>1. PICK where \in {"claimed", "build"} : Goto(t, where) /\ active = NoTurn /\ active' = t
        BY <1>2 DEF ClaimTurn
    <2>2. ClaimTypes'
        BY <2>1 DEF ClaimInv, ClaimTypes, Goto, Builders, TurnPc
    <2>3. OneTurnAtATime'
        BY <2>1, RequestsAreDistinct DEF ClaimInv, ClaimTypes, OneTurnAtATime, Goto, Builders, Holding
    <2> QED BY <2>2, <2>3 DEF ClaimInv
<1> QED BY <1>1, <1>2

\* A step that leaves the claim and the program counters alone.
LEMMA StutterPreservesClaim ==
    ASSUME ClaimInv, UNCHANGED claimVars
    PROVE  ClaimInv'
BY DEF ClaimInv, ClaimTypes, OneTurnAtATime, claimVars

\* The requests and the housekeeping never touch the claim: cancels, deletes,
\* the idle scanner and the shutdown act on marks, rows and the agent table.
LEMMA RequestsLeaveClaim ==
    /\ \A t \in Turns, k \in Rounds : PromptStep(t, k) => UNCHANGED claimVars
    /\ \A c \in Cancels : CancelStep(c) => UNCHANGED claimVars
    /\ \A d \in Deletes : DeleteStep(d) => UNCHANGED claimVars
    /\ Background => UNCHANGED claimVars
<1>1. ASSUME NEW t \in Turns, NEW k \in Rounds, PromptStep(t, k) PROVE UNCHANGED claimVars
    BY <1>1 DEF PromptStep, OpenPrompt, PromptReturns, stateVars, claimVars
<1>2. ASSUME NEW c \in Cancels, CancelStep(c) PROVE UNCHANGED claimVars
    BY <1>2 DEF CancelStep, RequestCancel, MarkCancelling, CheckDrain, KillCancelled, stateVars,
                turnVars, claimVars
<1>3. ASSUME NEW d \in Deletes, DeleteStep(d) PROVE UNCHANGED claimVars
    BY <1>3 DEF DeleteStep, FindRow, DeleteMark, DeleteHook, DeleteRow, ClearDeleting, stateVars,
                turnVars, claimVars
<1>4. ASSUME Background PROVE UNCHANGED claimVars
    BY <1>4 DEF Background, CollectIdle, KillIdle, MarkShuttingDown, ClearTable, stateVars,
                turnVars, claimVars
<1> QED BY <1>1, <1>2, <1>3, <1>4

\* A turn or a warm-up on its way to its agent keeps its claim, or gives it up
\* when it gives up.
LEMMA BuildPreservesClaim ==
    ASSUME ClaimInv, NEW p \in Builders, BuildStep(p)
    PROVE  ClaimInv'
<1> USE DEF Holding, TurnPc
<1>1. CASE LoadRow(p)
    <2>1. PICK where \in {"refused", "loaded", "build"} :
              Goto(p, where) /\ (p \in Turns => where # "build") /\ pc[p] = "new" /\ active' = active
        BY <1>1 DEF LoadRow, stateVars
    <2> QED BY <2>1, MovePreservesClaim
<1>2. CASE GiveUp(p)
    <2>1. CASE p \in Turns
        BY <1>2, <2>1, ReleasePreservesClaim DEF GiveUp
    <2>2. CASE p \notin Turns
        BY <1>2, <2>2, MovePreservesClaim DEF GiveUp, stateVars
    <2> QED BY <2>1, <2>2
<1>3. CASE EnterTable(p)
    BY <1>3, MovePreservesClaim DEF EnterTable, stateVars
<1>4. CASE EnterCell(p)
    BY <1>4, MovePreservesClaim DEF EnterCell, stateVars
<1>5. CASE EndBuild(p)
    <2>1. CASE Goto(p, "built") /\ UNCHANGED stateVars
        BY <1>5, <2>1, MovePreservesClaim DEF EndBuild, stateVars
    <2>2. CASE p \in Turns /\ ReleaseTo(p, "complete")
        BY <2>2, ReleasePreservesClaim
    <2>3. CASE p \notin Turns /\ Goto(p, "failed") /\ UNCHANGED stateVars
        BY <2>3, MovePreservesClaim DEF stateVars
    <2> QED BY <1>5, <2>1, <2>2, <2>3 DEF EndBuild
<1>6. CASE PersistWorkspace(p)
    <2>1. CASE Goto(p, IF p \in Turns THEN "relay" ELSE "done") /\ UNCHANGED stateVars
        BY <1>6, <2>1, MovePreservesClaim DEF PersistWorkspace, stateVars
    <2>2. CASE p \in Turns /\ ReleaseTo(p, "complete")
        BY <2>2, ReleasePreservesClaim
    <2>3. CASE p \notin Turns /\ Goto(p, "failed") /\ UNCHANGED stateVars
        BY <2>3, MovePreservesClaim DEF stateVars
    <2> QED BY <1>6, <2>1, <2>2, <2>3 DEF PersistWorkspace
<1> QED BY <1>1, <1>2, <1>3, <1>4, <1>5, <1>6 DEF BuildStep

\* The steps only turns take.
LEMMA TurnPreservesClaim ==
    ASSUME ClaimInv, NEW t \in Turns, TurnStep(t)
    PROVE  ClaimInv'
<1> USE DEF Holding, TurnPc
<1>0. t \in Builders
    BY DEF Builders
<1>1. CASE ClaimTurn(t)
    BY <1>1, ClaimPreservesClaim
<1>2. CASE StoreUserMessage(t)
    <2>1. CASE Goto(t, "build") /\ UNCHANGED stateVars
        BY <1>0, <1>2, <2>1, MovePreservesClaim DEF StoreUserMessage, stateVars
    <2>2. CASE ReleaseTo(t, "complete") \/ ReleaseTo(t, "failed")
        BY <2>2, ReleasePreservesClaim
    <2> QED BY <1>2, <2>1, <2>2 DEF StoreUserMessage
<1>3. CASE FinishRelay(t) \/ ReadLifecycle(t) \/ EvictAgent(t) \/ Continue(t) \/ Stop(t)
    BY <1>0, <1>3, MovePreservesClaim
       DEF FinishRelay, ReadLifecycle, EvictAgent, Continue, Stop, stateVars
<1>4. CASE ReleaseClaim(t)
    BY <1>4, ReleasePreservesClaim DEF ReleaseClaim
<1>5. CASE Complete(t)
    BY <1>0, <1>5, MovePreservesClaim DEF Complete, stateVars
<1>6. CASE Abort(t)
    BY <1>6, ReleasePreservesClaim DEF Abort
<1> QED BY <1>1, <1>2, <1>3, <1>4, <1>5, <1>6 DEF TurnStep, EndStep

\* One step of the system.
LEMMA NextPreservesClaim == ClaimInv /\ [Next]_vars => ClaimInv'
<1> SUFFICES ASSUME ClaimInv, [Next]_vars PROVE ClaimInv'
    OBVIOUS
<1>1. ASSUME NEW p \in Builders, BuildStep(p) PROVE ClaimInv'
    BY <1>1, BuildPreservesClaim
<1>2. ASSUME NEW t \in Turns, TurnStep(t) PROVE ClaimInv'
    BY <1>2, TurnPreservesClaim
<1>3. CASE UNCHANGED claimVars
    BY <1>3, StutterPreservesClaim
<1>4. CASE UNCHANGED vars
    BY <1>3, <1>4 DEF vars, stateVars, turnVars, claimVars
<1> QED BY <1>1, <1>2, <1>3, <1>4, RequestsLeaveClaim DEF Next

\* For every number of turns and requests, the turns between their claim and
\* its release are exactly the one the runtime state names (TurnClaim).
THEOREM OneTurnAlways == Spec => []OneTurnAtATime
<1>1. ClaimInv => OneTurnAtATime
    BY DEF ClaimInv
<1> QED BY InitClaim, NextPreservesClaim, <1>1, PTL DEF Spec

-----------------------------------------------------------------------------
(* The conversation implements the port: each step is one of the port's, or *)
(* changes neither the claim nor the fate of a turn.                        *)

PortStep == [Port!PortNext]_(Port!portVars)

\* Before the first step every turn is new and none runs.
LEMMA InitIsPortInit == Init => Port!PortInit
BY DEF Init, Port!PortInit, Fate, FateOf, Builders

\* A move that leaves the fate of the turn as it is, or refuses it.
LEMMA MoveIsPortStep ==
    ASSUME ClaimInv, NEW p \in Builders, NEW where \in TurnPc,
           Goto(p, where), active' = active,
           p \in Turns => \/ FateOf(where) = FateOf(pc[p])
                          \/ FateOf(pc[p]) = "new" /\ where = "refused"
    PROVE  PortStep
<1>1. pc' = [pc EXCEPT ![p] = where] /\ pc \in [Builders -> TurnPc]
    BY DEF Goto, ClaimInv, ClaimTypes
<1>2. CASE p \in Turns /\ FateOf(pc[p]) = "new" /\ where = "refused"
    <2>1. Fate' = [Fate EXCEPT ![p] = "refused"]
        BY <1>1, <1>2 DEF Fate, FateOf, Builders
    <2>2. Port!Refuse(p)
        BY <1>2, <2>1 DEF Port!Refuse, Fate
    <2> QED BY <1>2, <2>2 DEF PortStep, Port!PortNext
<1>3. CASE p \notin Turns \/ FateOf(where) = FateOf(pc[p])
    <2>1. Fate' = Fate
        BY <1>1, <1>3 DEF Fate, Builders
    <2> QED BY <2>1 DEF PortStep, Port!portVars
<1> QED BY <1>2, <1>3

\* The release of a turn that holds the claim ends it; of another, nothing.
LEMMA ReleaseIsPortStep ==
    ASSUME ClaimInv, NEW t \in Turns, NEW where \in TurnPc, ReleaseTo(t, where),
           \/ pc[t] \in Holding /\ FateOf(where) = "over"
           \/ pc[t] = "loaded" /\ where = "refused"
           \/ FateOf(pc[t]) = "over" /\ FateOf(where) = "over"
    PROVE  PortStep
<1>1. /\ t \in Builders /\ Goto(t, where) /\ Release(t)
      /\ pc' = [pc EXCEPT ![t] = where] /\ pc \in [Builders -> TurnPc]
    BY DEF ReleaseTo, Goto, ClaimInv, ClaimTypes, Builders
<1>2. CASE pc[t] \in Holding /\ FateOf(where) = "over"
    <2>1. active = t /\ active' = NoTurn
        BY <1>1, <1>2 DEF ClaimInv, OneTurnAtATime, Release
    <2>2. Fate' = [Fate EXCEPT ![t] = "over"]
        BY <1>1, <1>2 DEF Fate, Builders
    <2>3. Port!Finish(t)
        BY <2>1, <2>2 DEF Port!Finish
    <2> QED BY <2>3 DEF PortStep, Port!PortNext
<1>3. CASE pc[t] \notin Holding
    <2>1. active' = active
        BY <1>1, <1>3 DEF ClaimInv, OneTurnAtATime, Release
    <2> QED BY <1>1, <1>3, <2>1, MoveIsPortStep DEF FateOf
<1> QED BY <1>2, <1>3 DEF FateOf, Holding

\* try_claim_turn starts the turn or refuses it.
LEMMA ClaimIsPortStep ==
    ASSUME ClaimInv, NEW t \in Turns, ClaimTurn(t)
    PROVE  PortStep
<1>1. CASE shuttingDown \/ deleting \/ active # NoTurn
    BY <1>1, MoveIsPortStep DEF ClaimTurn, Builders, TurnPc, FateOf
<1>2. CASE ~(shuttingDown \/ deleting \/ active # NoTurn)
    <2>1. PICK where \in {"claimed", "build"} : Goto(t, where) /\ active = NoTurn /\ active' = t
        BY <1>2 DEF ClaimTurn
    <2>2. pc[t] = "loaded" /\ pc \in [Builders -> TurnPc]
        BY DEF ClaimTurn, ClaimInv, ClaimTypes
    <2>3. Fate' = [Fate EXCEPT ![t] = "running"] /\ Fate[t] = "new"
        BY <2>1, <2>2 DEF Fate, FateOf, Goto, Holding, Builders
    <2>4. Port!Start(t)
        BY <2>1, <2>3 DEF Port!Start
    <2> QED BY <2>4 DEF PortStep, Port!PortNext
<1> QED BY <1>1, <1>2

\* On the way to the agent a turn goes on running, or is over.
LEMMA BuildIsPortStep ==
    ASSUME ClaimInv, NEW p \in Builders, BuildStep(p)
    PROVE  PortStep
<1> USE DEF Holding, TurnPc, FateOf
<1>1. CASE LoadRow(p)
    BY <1>1, MoveIsPortStep DEF LoadRow, stateVars
<1>2. CASE p \notin Turns
    <2>1. \E where \in TurnPc : Goto(p, where) /\ active' = active
        BY <1>2 DEF BuildStep, LoadRow, GiveUp, EnterTable, EnterCell, EndBuild,
                    PersistWorkspace, stateVars
    <2> QED BY <1>2, <2>1, MoveIsPortStep
<1>3. CASE p \in Turns /\ (EnterTable(p) \/ EnterCell(p))
    BY <1>3, MoveIsPortStep DEF EnterTable, EnterCell, stateVars
<1>4. CASE p \in Turns /\ (GiveUp(p) \/ EndBuild(p) \/ PersistWorkspace(p))
    <2>1. CASE ReleaseTo(p, "complete")
        BY <1>4, <2>1, ReleaseIsPortStep DEF GiveUp, EndBuild, PersistWorkspace
    <2>2. CASE (Goto(p, "built") \/ Goto(p, "relay")) /\ active' = active
        BY <1>4, <2>2, MoveIsPortStep DEF GiveUp, EndBuild, PersistWorkspace
    <2> QED BY <1>4, <2>1, <2>2 DEF GiveUp, EndBuild, PersistWorkspace, stateVars
<1> QED BY <1>1, <1>2, <1>3, <1>4 DEF BuildStep

\* The steps only turns take.
LEMMA TurnIsPortStep ==
    ASSUME ClaimInv, NEW t \in Turns, TurnStep(t)
    PROVE  PortStep
<1> USE DEF Holding, TurnPc, FateOf
<1>0. t \in Builders
    BY DEF Builders
<1>1. CASE ClaimTurn(t)
    BY <1>1, ClaimIsPortStep
<1>2. CASE StoreUserMessage(t)
    <2>1. CASE Goto(t, "build") /\ active' = active
        BY <1>0, <1>2, <2>1, MoveIsPortStep DEF StoreUserMessage
    <2>2. CASE ReleaseTo(t, "complete") \/ ReleaseTo(t, "failed")
        BY <1>2, <2>2, ReleaseIsPortStep DEF StoreUserMessage
    <2> QED BY <1>2, <2>1, <2>2 DEF StoreUserMessage, stateVars
<1>3. CASE FinishRelay(t) \/ ReadLifecycle(t) \/ EvictAgent(t) \/ Continue(t) \/ Stop(t) \/ Complete(t)
    BY <1>0, <1>3, MoveIsPortStep
       DEF FinishRelay, ReadLifecycle, EvictAgent, Continue, Stop, Complete, stateVars
<1>4. CASE ReleaseClaim(t)
    BY <1>4, ReleaseIsPortStep DEF ReleaseClaim
<1>5. CASE Abort(t)
    <2>1. pc[t] \in TurnPc \ {"new", "refused", "failed", "done", "unannounced", "dropped"}
        BY <1>0, <1>5 DEF Abort, ClaimInv, ClaimTypes
    <2> QED BY <1>5, <2>1, ReleaseIsPortStep DEF Abort
<1> QED BY <1>1, <1>2, <1>3, <1>4, <1>5 DEF TurnStep, EndStep

\* One step of the system.
LEMMA NextIsPortStep == ClaimInv /\ [Next]_vars => PortStep
<1> SUFFICES ASSUME ClaimInv, [Next]_vars PROVE PortStep
    OBVIOUS
<1>1. ASSUME NEW p \in Builders, BuildStep(p) PROVE PortStep
    BY <1>1, BuildIsPortStep
<1>2. ASSUME NEW t \in Turns, TurnStep(t) PROVE PortStep
    BY <1>2, TurnIsPortStep
<1>3. CASE UNCHANGED claimVars
    BY <1>3 DEF PortStep, Port!portVars, Fate, claimVars
<1>4. CASE UNCHANGED vars
    BY <1>3, <1>4 DEF vars, stateVars, turnVars, claimVars
<1> QED BY <1>1, <1>2, <1>3, <1>4, RequestsLeaveClaim DEF Next

\* The runtime keeps the promise of TurnPort: a turn is refused, or it runs
\* alone and ends (what the event loops of a team rely on).
THEOREM ConversationImplementsPort == Spec => PortSpec
BY InitClaim, NextPreservesClaim, InitIsPortInit, NextIsPortStep, PTL
   DEF Spec, PortSpec, Port!PortSpec, PortStep

-----------------------------------------------------------------------------
(* The deleting mark. Two deletes may share it, and the claim may come and   *)
(* go under both, so the invariant says who is going to clear it: the turn   *)
(* that holds the claim, or a delete that found no turn.                     *)

Clearer(d) == dpc[d] \in {"hooks", "row", "clear"} /\ ~hadTurn[d]

MarkInv ==
    /\ dpc \in [Deletes -> {"new", "found", "hooks", "row", "clear", "done"}]
    /\ hadTurn \in [Deletes -> BOOLEAN]
    /\ deleting => active # NoTurn \/ \E d \in Deletes : Clearer(d)

markVars == <<active, deleting, dpc, hadTurn>>

\* A step of a turn or of its prompt: the claim is taken, or kept, or released
\* together with the mark, and the deletes are where they were.
LEMMA TurnsReleaseTheMark ==
    ASSUME \/ \E p \in Builders : BuildStep(p)
           \/ \E t \in Turns : TurnStep(t)
           \/ \E t \in Turns, k \in Rounds : PromptStep(t, k)
    PROVE  /\ UNCHANGED <<dpc, hadTurn>>
           /\ \/ UNCHANGED <<active, deleting>>
              \/ deleting' = FALSE
              \/ deleting' = deleting /\ active' \in Turns
<1>1. ASSUME NEW t \in Turns, NEW where, ReleaseTo(t, where)
      PROVE  UNCHANGED <<active, deleting>> \/ deleting' = FALSE
    BY <1>1 DEF ReleaseTo, Release
<1>2. ASSUME NEW p \in Builders, BuildStep(p)
      PROVE  UNCHANGED <<dpc, hadTurn>> /\ (UNCHANGED <<active, deleting>> \/ deleting' = FALSE)
    BY <1>1, <1>2 DEF BuildStep, LoadRow, GiveUp, EnterTable, EnterCell, EndBuild, PersistWorkspace,
                      stateVars, others, deleteVars
<1>3. ASSUME NEW t \in Turns, TurnStep(t)
      PROVE  /\ UNCHANGED <<dpc, hadTurn>>
             /\ \/ UNCHANGED <<active, deleting>> \/ deleting' = FALSE
                \/ deleting' = deleting /\ active' \in Turns
    BY <1>1, <1>3 DEF TurnStep, EndStep, ClaimTurn, StoreUserMessage, FinishRelay, ReadLifecycle,
                      EvictAgent, Continue, Stop, ReleaseClaim, Complete, Abort,
                      stateVars, others, deleteVars
<1>4. ASSUME NEW t \in Turns, NEW k \in Rounds, PromptStep(t, k)
      PROVE  UNCHANGED markVars
    BY <1>4 DEF PromptStep, OpenPrompt, PromptReturns, stateVars, others, deleteVars, markVars
<1> QED BY <1>2, <1>3, <1>4 DEF markVars

\* A step of a delete hands the mark to the turn or keeps it to itself.
LEMMA DeletePreservesMark ==
    ASSUME MarkInv, NEW d \in Deletes, DeleteStep(d)
    PROVE  MarkInv'
<1> USE DEF MarkInv, Clearer
<1>1. CASE FindRow(d)
    BY <1>1 DEF FindRow, stateVars
<1>2. CASE DeleteMark(d)
    BY <1>2 DEF DeleteMark
<1>3. CASE DeleteHook(d)
    BY <1>3 DEF DeleteHook, stateVars
<1>4. CASE DeleteRow(d)
    BY <1>4 DEF DeleteRow, stateVars
<1>5. CASE ClearDeleting(d)
    BY <1>5 DEF ClearDeleting
<1> QED BY <1>1, <1>2, <1>3, <1>4, <1>5 DEF DeleteStep

\* One step of the system.
LEMMA NextPreservesMark == MarkInv /\ [Next]_vars => MarkInv'
<1> SUFFICES ASSUME MarkInv, [Next]_vars PROVE MarkInv'
    OBVIOUS
<1>1. CASE UNCHANGED markVars
    BY <1>1 DEF MarkInv, Clearer, markVars
<1>2. CASE \/ \E p \in Builders : BuildStep(p)
           \/ \E t \in Turns : TurnStep(t)
           \/ \E t \in Turns, k \in Rounds : PromptStep(t, k)
    <2>1. UNCHANGED <<dpc, hadTurn>>
        BY <1>2, TurnsReleaseTheMark
    <2>2. CASE UNCHANGED <<active, deleting>>
        BY <1>1, <2>1, <2>2 DEF markVars
    <2>3. CASE deleting' = FALSE
        BY <2>1, <2>3 DEF MarkInv
    <2>4. CASE active' \in Turns
        BY <2>1, <2>4, RequestsAreDistinct DEF MarkInv
    <2> QED BY <1>2, <2>2, <2>3, <2>4, TurnsReleaseTheMark
<1>3. ASSUME NEW c \in Cancels, CancelStep(c) PROVE UNCHANGED markVars
    BY <1>3 DEF CancelStep, RequestCancel, MarkCancelling, CheckDrain, KillCancelled, stateVars,
                deleteVars, markVars
<1>4. ASSUME NEW d \in Deletes, DeleteStep(d) PROVE MarkInv'
    BY <1>4, DeletePreservesMark
<1>5. ASSUME Background PROVE UNCHANGED markVars
    BY <1>5 DEF Background, CollectIdle, KillIdle, MarkShuttingDown, ClearTable, stateVars,
                deleteVars, markVars
<1>6. CASE UNCHANGED vars
    BY <1>1, <1>6 DEF vars, stateVars, deleteVars, markVars
<1> QED BY <1>1, <1>2, <1>3, <1>4, <1>5, <1>6 DEF Next

\* No deleting mark outlives both the deletes and the turns, for any number of
\* concurrent deletes: none refuses the turns of a conversation for ever.
THEOREM DeleteMarkNeverStale == Spec => []NoStaleDeleteMark
<1>1. Init => MarkInv
    BY DEF Init, MarkInv
<1>2. MarkInv => NoStaleDeleteMark
    BY DEF MarkInv, NoStaleDeleteMark, Clearer
<1> QED BY <1>1, <1>2, NextPreservesMark, PTL DEF Spec
-----------------------------------------------------------------------------
(* The types, in the groups that the steps change together.                *)

StateTypes ==
    /\ row \in BOOLEAN /\ teamOwned \in BOOLEAN
    /\ active \in Turns \cup {NoTurn}
    /\ deleting \in BOOLEAN /\ cancelling \in BOOLEAN /\ shuttingDown \in BOOLEAN

TableTypes ==
    /\ slot \in 0 .. MaxSlots /\ lastSlot \in 0 .. MaxSlots
    /\ agent \in [Slots -> {"absent", "building", "live", "killed"}]
    /\ status \in [Slots -> {"none", "running", "finished"}]

WalkTypes ==
    /\ pc \in [Builders -> TurnPc]
    /\ held \in [Builders -> 0 .. MaxSlots]
    /\ wasDeleting \in [Turns -> BOOLEAN]
    /\ stored \in [Sends -> BOOLEAN]
    /\ published \in [Turns -> BOOLEAN]

RelayTypes ==
    /\ terminal \in [Turns -> {"none", "finish", "error"}]
    /\ again \in [Turns -> BOOLEAN]
    /\ seen \in [Turns -> {"Active", "Deleting", "Cancelling", "ShuttingDown"}]
    /\ round \in [Turns -> Rounds]
    /\ sender \in [Turns -> [Rounds -> {"idle", "opening", "prompting", "over"}]]

CancelTypes ==
    /\ cpc \in [Cancels -> {"new", "mark", "timer", "kill", "done"}]
    /\ target \in [Cancels -> Turns \cup {NoTurn}]
    /\ asked \in [Cancels -> 0 .. MaxSlots]

DeleteTypes ==
    /\ dpc \in [Deletes -> {"new", "found", "hooks", "row", "clear", "done"}]
    /\ hadTurn \in [Deletes -> BOOLEAN]

BackTypes == scanning \in BOOLEAN /\ clearing \in BOOLEAN

\* The groups are the type invariant.
LEMMA TypesInGroups ==
    /\ TypeOK <=> /\ StateTypes /\ TableTypes /\ WalkTypes /\ RelayTypes
                  /\ CancelTypes /\ DeleteTypes /\ BackTypes
    /\ TypeOK' <=> /\ StateTypes' /\ TableTypes' /\ WalkTypes' /\ RelayTypes'
                   /\ CancelTypes' /\ DeleteTypes' /\ BackTypes'
BY DEF TypeOK, StateTypes, TableTypes, WalkTypes, RelayTypes, CancelTypes, DeleteTypes, BackTypes

\* A group that a step leaves alone keeps its types.
LEMMA UntouchedTypes ==
    /\ UNCHANGED <<row, teamOwned, stateVars>> /\ StateTypes => StateTypes'
    /\ UNCHANGED <<tableVars, status>> /\ TableTypes => TableTypes'
    /\ UNCHANGED <<pc, held, wasDeleting, stored, published>> /\ WalkTypes => WalkTypes'
    /\ UNCHANGED relayVars /\ RelayTypes => RelayTypes'
    /\ UNCHANGED cancelVars /\ CancelTypes => CancelTypes'
    /\ UNCHANGED deleteVars /\ DeleteTypes => DeleteTypes'
    /\ UNCHANGED backVars /\ BackTypes => BackTypes'
BY DEF StateTypes, TableTypes, WalkTypes, RelayTypes, CancelTypes, DeleteTypes, BackTypes,
       stateVars, tableVars, relayVars, cancelVars, deleteVars, backVars

\* Every initial state has its types.
LEMMA InitTypes == Init => TypeOK
<1> SUFFICES ASSUME Init PROVE TypeOK
    OBVIOUS
<1>1. StateTypes /\ DeleteTypes /\ BackTypes
    BY DEF Init, StateTypes, DeleteTypes, BackTypes
<1>5. CancelTypes
    BY BoundsAreNatural DEF Init, CancelTypes
<1>2. TableTypes
    BY BoundsAreNatural DEF Init, TableTypes, Slots
<1>3. WalkTypes
    BY BoundsAreNatural DEF Init, WalkTypes, TurnPc
<1>4. RelayTypes
    BY BoundsAreNatural DEF Init, RelayTypes, Rounds
<1> QED BY <1>1, <1>2, <1>3, <1>4, <1>5, TypesInGroups

\* What a release writes has its types.
LEMMA ReleaseTypes ==
    ASSUME TypeOK, NEW t \in Turns, NEW where \in TurnPc, ReleaseTo(t, where)
    PROVE  /\ WalkTypes' /\ RelayTypes'
           /\ UNCHANGED <<row, teamOwned>> => StateTypes'
<1>1. Release(t) /\ Goto(t, where) /\ StateTypes /\ WalkTypes /\ RelayTypes
    BY TypesInGroups DEF ReleaseTo
<1>2. WalkTypes'
    BY <1>1 DEF ReleaseTo, Release, Goto, WalkTypes, StateTypes
<1>3. RelayTypes'
    BY <1>1, BoundsAreNatural DEF ReleaseTo, RelayTypes, Rounds
<1>4. UNCHANGED <<row, teamOwned>> => StateTypes'
    BY <1>1 DEF ReleaseTo, Release, StateTypes
<1> QED BY <1>2, <1>3, <1>4

\* So does what a terminal event writes,
LEMMA EmitTypes ==
    ASSUME TypeOK, NEW i, NEW kind \in {"finish", "error"}, Emit(i, kind)
    PROVE  /\ status' \in [Slots -> {"none", "running", "finished"}]
           /\ terminal' \in [Turns -> {"none", "finish", "error"}]
<1>1. TableTypes /\ RelayTypes
    BY TypesInGroups
<1> QED BY <1>1 DEF Emit, TableTypes, RelayTypes

\* and what the end of an agent writes.
LEMMA KillTypes ==
    ASSUME TypeOK, NEW kind \in {"finish", "error"}, KillTask(kind)
    PROVE  /\ TableTypes'
           /\ UNCHANGED <<again, seen, round, sender>> => RelayTypes'
<1>1. TableTypes /\ RelayTypes
    BY TypesInGroups
<1>2. /\ status' \in [Slots -> {"none", "running", "finished"}]
      /\ terminal' \in [Turns -> {"none", "finish", "error"}]
    BY <1>1, EmitTypes DEF KillTask, TableTypes, RelayTypes
<1>3. agent' \in [Slots -> {"absent", "building", "live", "killed"}]
    BY <1>1 DEF KillTask, TableTypes
<1>4. slot' \in 0 .. MaxSlots /\ lastSlot' \in 0 .. MaxSlots
    BY <1>1, BoundsAreNatural DEF KillTask, TableTypes
<1> QED BY <1>1, <1>2, <1>3, <1>4 DEF TableTypes, RelayTypes

\* A turn or a warm-up that only moves keeps the types.
LEMMA GotoTypes ==
    ASSUME TypeOK, NEW p \in Builders, NEW where \in TurnPc, Goto(p, where),
           UNCHANGED <<held, wasDeleting, stored, published>>
    PROVE  WalkTypes'
<1>1. WalkTypes
    BY TypesInGroups
<1> QED BY <1>1 DEF Goto, WalkTypes

\* The way to the agent.
LEMMA BuildKeepsTypes ==
    ASSUME TypeOK, NEW p \in Builders, BuildStep(p)
    PROVE  TypeOK'
<1> USE DEF TurnPc
<1>0. /\ StateTypes /\ TableTypes /\ WalkTypes /\ RelayTypes
      /\ CancelTypes /\ DeleteTypes /\ BackTypes
    BY TypesInGroups
<1>1. CancelTypes' /\ DeleteTypes' /\ BackTypes'
    BY <1>0, UntouchedTypes DEF BuildStep, LoadRow, GiveUp, EnterTable, EnterCell, EndBuild,
                                PersistWorkspace, others
<1>2. ASSUME NEW where \in TurnPc, Goto(p, where), UNCHANGED <<stored, published>>,
             UNCHANGED <<row, teamOwned, stateVars, held, wasDeleting>>
      PROVE  StateTypes' /\ WalkTypes'
    BY <1>0, <1>2, GotoTypes, UntouchedTypes
<1>3. ASSUME p \in Turns, ReleaseTo(p, "complete"), UNCHANGED <<row, teamOwned>>
      PROVE  StateTypes' /\ WalkTypes' /\ RelayTypes'
    BY <1>3, ReleaseTypes
<1>4. CASE LoadRow(p)
    <2>1. StateTypes' /\ WalkTypes'
        BY <1>2, <1>4 DEF LoadRow
    <2> QED BY <1>0, <1>1, <1>4, <2>1, UntouchedTypes, TypesInGroups DEF LoadRow
<1>5. CASE GiveUp(p)
    <2>1. TableTypes'
        BY <1>0, <1>5, UntouchedTypes DEF GiveUp
    <2>2. StateTypes' /\ WalkTypes' /\ RelayTypes'
        BY <1>0, <1>2, <1>3, <1>5, UntouchedTypes DEF GiveUp
    <2> QED BY <1>1, <2>1, <2>2, TypesInGroups
<1>6. CASE EnterTable(p)
    <2>1. slot' \in 0 .. MaxSlots /\ lastSlot' \in 0 .. MaxSlots
        BY <1>0, <1>6, BoundsAreNatural DEF EnterTable, TableTypes
    <2>2. TableTypes'
        BY <1>0, <1>6, <2>1 DEF EnterTable, TableTypes
    <2>3. WalkTypes'
        BY <1>0, <1>6, <2>1 DEF EnterTable, Goto, WalkTypes
    <2> QED BY <1>0, <1>1, <1>6, <2>2, <2>3, UntouchedTypes, TypesInGroups DEF EnterTable
<1>7. CASE EnterCell(p)
    <2>1. TableTypes'
        BY <1>0, <1>7 DEF EnterCell, TableTypes
    <2>2. StateTypes' /\ WalkTypes'
        BY <1>2, <1>7 DEF EnterCell
    <2> QED BY <1>0, <1>1, <1>7, <2>1, <2>2, UntouchedTypes, TypesInGroups DEF EnterCell
<1>8. CASE EndBuild(p)
    <2>1. TableTypes'
        BY <1>0, <1>8 DEF EndBuild, TableTypes
    <2>2. StateTypes' /\ WalkTypes' /\ RelayTypes'
        BY <1>0, <1>2, <1>3, <1>8, UntouchedTypes DEF EndBuild
    <2> QED BY <1>1, <2>1, <2>2, TypesInGroups
<1>9. CASE PersistWorkspace(p)
    <2>1. TableTypes'
        BY <1>0, <1>9, UntouchedTypes DEF PersistWorkspace
    <2>2. CASE p \in Turns /\ ReleaseTo(p, "complete")
        BY <1>1, <1>3, <1>9, <2>1, <2>2, TypesInGroups DEF PersistWorkspace
    <2>3. CASE /\ Goto(p, IF p \in Turns THEN "relay" ELSE "done")
               /\ sender' = IF p \in Turns THEN [sender EXCEPT ![p][0] = "opening"] ELSE sender
               /\ UNCHANGED <<stateVars, held, terminal, again, seen, round, wasDeleting, stored, published>>
        <3>1. sender' \in [Turns -> [Rounds -> {"idle", "opening", "prompting", "over"}]]
            BY <1>0, <2>3 DEF RelayTypes
        <3>2. StateTypes' /\ WalkTypes'
            BY <1>2, <1>9, <2>3 DEF PersistWorkspace
        <3> QED BY <1>0, <1>1, <2>1, <2>3, <3>1, <3>2, TypesInGroups DEF RelayTypes
    <2>4. CASE p \notin Turns /\ Goto(p, "failed")
               /\ UNCHANGED <<stateVars, held, relayVars, wasDeleting, stored, published>>
        BY <1>0, <1>1, <1>2, <1>9, <2>1, <2>4, UntouchedTypes, TypesInGroups DEF PersistWorkspace
    <2> QED BY <1>9, <2>2, <2>3, <2>4 DEF PersistWorkspace
<1> QED BY <1>4, <1>5, <1>6, <1>7, <1>8, <1>9 DEF BuildStep

\* The steps only turns take.
LEMMA TurnKeepsTypes ==
    ASSUME TypeOK, NEW t \in Turns, TurnStep(t)
    PROVE  TypeOK'
<1> USE DEF TurnPc
<1>0. /\ StateTypes /\ TableTypes /\ WalkTypes /\ RelayTypes
      /\ CancelTypes /\ DeleteTypes /\ BackTypes /\ t \in Builders
    BY TypesInGroups DEF Builders
<1>1. CancelTypes' /\ DeleteTypes' /\ BackTypes'
    BY <1>0, UntouchedTypes DEF TurnStep, EndStep, ClaimTurn, StoreUserMessage, FinishRelay,
                                ReadLifecycle, EvictAgent, Continue, Stop, ReleaseClaim, Complete,
                                Abort, others
<1>2. ASSUME NEW where \in TurnPc, Goto(t, where), UNCHANGED <<held, wasDeleting, stored, published>>
      PROVE  WalkTypes'
    BY <1>0, <1>2, GotoTypes
<1>3. ASSUME NEW where \in TurnPc, ReleaseTo(t, where), UNCHANGED <<row, teamOwned>>
      PROVE  StateTypes' /\ WalkTypes' /\ RelayTypes'
    BY <1>3, ReleaseTypes
<1>4. CASE ClaimTurn(t)
    <2>1. StateTypes'
        BY <1>0, <1>4 DEF ClaimTurn, StateTypes
    <2>2. WalkTypes'
        BY <1>2, <1>4 DEF ClaimTurn
    <2> QED BY <1>0, <1>1, <1>4, <2>1, <2>2, UntouchedTypes, TypesInGroups DEF ClaimTurn
<1>5. CASE StoreUserMessage(t)
    <2>1. TableTypes'
        BY <1>0, <1>5, UntouchedTypes DEF StoreUserMessage
    <2>2. CASE ReleaseTo(t, "complete") \/ ReleaseTo(t, "failed")
        BY <1>1, <1>3, <1>5, <2>1, <2>2, TypesInGroups DEF StoreUserMessage
    <2>3. CASE /\ stored' = [stored EXCEPT ![t] = TRUE]
               /\ Goto(t, "build")
               /\ UNCHANGED <<stateVars, held, relayVars, wasDeleting, published>>
        <3>1. WalkTypes'
            BY <1>0, <2>3 DEF WalkTypes, Goto
        <3> QED BY <1>0, <1>1, <1>5, <2>1, <2>3, <3>1, UntouchedTypes, TypesInGroups
                DEF StoreUserMessage
    <2> QED BY <1>5, <2>2, <2>3 DEF StoreUserMessage
<1>6. CASE FinishRelay(t) \/ ReadLifecycle(t) \/ Continue(t) \/ Stop(t)
    <2>1. RelayTypes'
        <3>1. CASE FinishRelay(t)
            BY <1>0, <3>1 DEF FinishRelay, RelayTypes
        <3>2. CASE ReadLifecycle(t)
            BY <1>0, <3>2 DEF ReadLifecycle, RelayTypes, Lifecycle
        <3>3. CASE Continue(t)
            <4>1. round[t] + 1 \in Rounds
                BY <1>0, <3>3, BoundsAreNatural DEF Continue, RelayTypes, Rounds
            <4>2. round' = [round EXCEPT ![t] = round[t] + 1] /\ round'[t] \in Rounds
                BY <1>0, <3>3, <4>1 DEF Continue, RelayTypes
            <4>3. sender' \in [Turns -> [Rounds -> {"idle", "opening", "prompting", "over"}]]
                BY <1>0, <3>3, <4>2 DEF Continue, RelayTypes
            <4> QED BY <1>0, <3>3, <4>1, <4>2, <4>3 DEF Continue, RelayTypes
        <3>4. CASE Stop(t)
            BY <1>0, <3>4, UntouchedTypes DEF Stop
        <3> QED BY <1>6, <3>1, <3>2, <3>3, <3>4
    <2>2. WalkTypes'
        BY <1>2, <1>6 DEF FinishRelay, ReadLifecycle, Continue, Stop
    <2>3. StateTypes' /\ TableTypes'
        BY <1>0, <1>6, UntouchedTypes DEF FinishRelay, ReadLifecycle, Continue, Stop
    <2> QED BY <1>1, <2>1, <2>2, <2>3, TypesInGroups
<1>7. CASE EvictAgent(t)
    <2>1. TableTypes' /\ RelayTypes'
        BY <1>7, KillTypes DEF EvictAgent
    <2>2. WalkTypes'
        BY <1>2, <1>7 DEF EvictAgent
    <2> QED BY <1>0, <1>1, <1>7, <2>1, <2>2, UntouchedTypes, TypesInGroups DEF EvictAgent
<1>8. CASE ReleaseClaim(t)
    BY <1>0, <1>1, <1>3, <1>8, UntouchedTypes, TypesInGroups DEF ReleaseClaim
<1>9. CASE Complete(t)
    <2>1. WalkTypes'
        BY <1>0, <1>9 DEF Complete, Goto, WalkTypes, StateTypes, AllowsFinished
    <2> QED BY <1>0, <1>1, <1>9, <2>1, UntouchedTypes, TypesInGroups DEF Complete
<1>10. CASE Abort(t)
    <2>1. TableTypes'
        BY <1>0, <1>10 DEF Abort, TableTypes
    <2> QED BY <1>1, <1>3, <1>10, <2>1, TypesInGroups DEF Abort
<1> QED BY <1>4, <1>5, <1>6, <1>7, <1>8, <1>9, <1>10 DEF TurnStep, EndStep

\* The task of a prompt.
LEMMA PromptKeepsTypes ==
    ASSUME TypeOK, NEW t \in Turns, NEW k \in Rounds, PromptStep(t, k)
    PROVE  TypeOK'
<1>0. /\ StateTypes /\ TableTypes /\ WalkTypes /\ RelayTypes
      /\ CancelTypes /\ DeleteTypes /\ BackTypes
    BY TypesInGroups
<1>1. StateTypes' /\ WalkTypes' /\ CancelTypes' /\ DeleteTypes' /\ BackTypes'
    BY <1>0, UntouchedTypes DEF PromptStep, OpenPrompt, PromptReturns, others
<1>2. CASE OpenPrompt(t, k)
    <2>1. TableTypes' /\ RelayTypes'
        BY <1>0, <1>2 DEF OpenPrompt, TableTypes, RelayTypes, tableVars
    <2> QED BY <1>1, <2>1, TypesInGroups
<1>3. CASE PromptReturns(t, k)
    <2>1. /\ status' \in [Slots -> {"none", "running", "finished"}]
          /\ terminal' \in [Turns -> {"none", "finish", "error"}]
        BY <1>3, EmitTypes DEF PromptReturns
    <2>2. TableTypes' /\ RelayTypes'
        BY <1>0, <1>3, <2>1 DEF PromptReturns, TableTypes, RelayTypes, tableVars
    <2> QED BY <1>1, <2>2, TypesInGroups
<1> QED BY <1>2, <1>3 DEF PromptStep

\* The requests, the scanner and the shutdown: the agent table through
\* KillTask only.
LEMMA RequestsKeepTypes ==
    ASSUME TypeOK,
           \/ \E c \in Cancels : CancelStep(c)
           \/ \E d \in Deletes : DeleteStep(d)
           \/ Background
    PROVE  TypeOK'
<1>0. /\ StateTypes /\ TableTypes /\ WalkTypes /\ RelayTypes
      /\ CancelTypes /\ DeleteTypes /\ BackTypes
    BY TypesInGroups
<1>1. ASSUME UNCHANGED turnVars
      PROVE  WalkTypes' /\ RelayTypes'
    BY <1>0, <1>1, UntouchedTypes DEF turnVars
<1>2. ASSUME NEW kind \in {"finish", "error"}, KillTask(kind), UNCHANGED <<again, seen, round, sender>>,
             UNCHANGED <<row, teamOwned, stateVars, pc, held, wasDeleting, stored, published>>
      PROVE  StateTypes' /\ TableTypes' /\ WalkTypes' /\ RelayTypes'
    BY <1>0, <1>2, KillTypes, UntouchedTypes
<1>3. ASSUME NEW c \in Cancels, CancelStep(c) PROVE TypeOK'
    <2>1. DeleteTypes' /\ BackTypes'
        BY <1>0, <1>3, UntouchedTypes DEF CancelStep, RequestCancel, MarkCancelling, CheckDrain, KillCancelled
    <2>2. CancelTypes'
        BY <1>0, <1>3 DEF CancelStep, RequestCancel, MarkCancelling, CheckDrain, KillCancelled,
                          CancelTypes, StateTypes, TableTypes
    <2>3. CASE KillCancelled(c)
        BY <1>2, <2>1, <2>2, <2>3, TypesInGroups DEF KillCancelled
    <2>4. CASE RequestCancel(c) \/ CheckDrain(c)
        BY <1>0, <1>1, <2>1, <2>2, <2>4, UntouchedTypes, TypesInGroups DEF RequestCancel, CheckDrain
    <2>5. CASE MarkCancelling(c)
        <3>1. StateTypes'
            BY <1>0, <2>5 DEF MarkCancelling, StateTypes
        <3> QED BY <1>0, <1>1, <2>1, <2>2, <2>5, <3>1, UntouchedTypes, TypesInGroups DEF MarkCancelling
    <2> QED BY <1>3, <2>3, <2>4, <2>5 DEF CancelStep
<1>4. ASSUME NEW d \in Deletes, DeleteStep(d) PROVE TypeOK'
    <2>1. CancelTypes' /\ BackTypes'
        BY <1>0, <1>4, UntouchedTypes DEF DeleteStep, FindRow, DeleteMark, DeleteHook, DeleteRow, ClearDeleting
    <2>2. DeleteTypes'
        BY <1>0, <1>4 DEF DeleteStep, FindRow, DeleteMark, DeleteHook, DeleteRow, ClearDeleting, DeleteTypes
    <2>3. CASE DeleteHook(d)
        BY <1>2, <2>1, <2>2, <2>3, TypesInGroups DEF DeleteHook
    <2>4. CASE FindRow(d) \/ DeleteMark(d) \/ DeleteRow(d) \/ ClearDeleting(d)
        <3>1. StateTypes'
            BY <1>0, <2>4 DEF FindRow, DeleteMark, DeleteRow, ClearDeleting, StateTypes, stateVars
        <3>2. TableTypes' /\ WalkTypes' /\ RelayTypes'
            BY <1>0, <1>1, <2>4, UntouchedTypes DEF FindRow, DeleteMark, DeleteRow, ClearDeleting
        <3> QED BY <2>1, <2>2, <3>1, <3>2, TypesInGroups
    <2> QED BY <1>4, <2>3, <2>4 DEF DeleteStep
<1>5. CASE Background
    <2>1. CancelTypes' /\ DeleteTypes'
        BY <1>0, <1>5, UntouchedTypes DEF Background, CollectIdle, KillIdle, MarkShuttingDown, ClearTable
    <2>2. BackTypes'
        BY <1>0, <1>5 DEF Background, CollectIdle, KillIdle, MarkShuttingDown, ClearTable, BackTypes
    <2>3. CASE KillIdle \/ ClearTable
        BY <1>2, <2>1, <2>2, <2>3, TypesInGroups DEF KillIdle, ClearTable
    <2>4. CASE CollectIdle \/ MarkShuttingDown
        <3>1. StateTypes'
            BY <1>0, <2>4 DEF CollectIdle, MarkShuttingDown, StateTypes, stateVars
        <3>2. TableTypes' /\ WalkTypes' /\ RelayTypes'
            BY <1>0, <1>1, <2>4, UntouchedTypes DEF CollectIdle, MarkShuttingDown
        <3> QED BY <2>1, <2>2, <3>1, <3>2, TypesInGroups
    <2> QED BY <1>5, <2>3, <2>4 DEF Background
<1> QED BY <1>3, <1>4, <1>5

\* One step of the system.
LEMMA NextKeepsTypes == TypeOK /\ [Next]_vars => TypeOK'
<1> SUFFICES ASSUME TypeOK, [Next]_vars PROVE TypeOK'
    OBVIOUS
<1>1. CASE UNCHANGED vars
    BY <1>1, UntouchedTypes, TypesInGroups DEF vars, turnVars
<1>2. CASE \E p \in Builders : BuildStep(p)
    BY <1>2, BuildKeepsTypes
<1>3. CASE \E t \in Turns : TurnStep(t)
    BY <1>3, TurnKeepsTypes
<1>4. CASE \E t \in Turns, k \in Rounds : PromptStep(t, k)
    BY <1>4, PromptKeepsTypes
<1>5. CASE \/ \E c \in Cancels : CancelStep(c)
           \/ \E d \in Deletes : DeleteStep(d)
           \/ Background
    BY <1>5, RequestsKeepTypes
<1> QED BY <1>1, <1>2, <1>3, <1>4, <1>5 DEF Next

\* Every reachable state has its types, however many turns and requests there
\* are: no continuation goes past MAX_CRON_CONTINUATIONS_PER_TURN, and no cell
\* past the table.
THEOREM ConversationTypeCorrect == Spec => []TypeOK
BY InitTypes, NextKeepsTypes, PTL DEF Spec

-----------------------------------------------------------------------------
(* The end of a turn is announced. Until a delete has marked the            *)
(* conversation or the server shuts down, nothing but a failing database    *)
(* can keep the publisher from it: the row is there, and no release has     *)
(* seen a deleting mark.                                                    *)

Undisturbed == ~shuttingDown /\ \A d \in Deletes : dpc[d] \in {"new", "found"}

AnnounceInv ==
    Undisturbed =>
        /\ row /\ ~deleting
        /\ \A t \in Turns : ~wasDeleting[t] /\ (pc[t] = "done" => published[t])

\* What is neither a turn's business nor a cancel's.
LEMMA TurnsLeaveTheRow ==
    ASSUME \/ \E p \in Builders : BuildStep(p)
           \/ \E t \in Turns : TurnStep(t)
           \/ \E t \in Turns, k \in Rounds : PromptStep(t, k)
           \/ \E c \in Cancels : CancelStep(c)
    PROVE  UNCHANGED <<row, shuttingDown, dpc>>
<1>1. ASSUME NEW p \in Builders, BuildStep(p) PROVE UNCHANGED <<row, shuttingDown, dpc>>
    BY <1>1 DEF BuildStep, LoadRow, GiveUp, EnterTable, EnterCell, EndBuild, PersistWorkspace,
                ReleaseTo, stateVars, others, deleteVars
<1>2. ASSUME NEW t \in Turns, TurnStep(t) PROVE UNCHANGED <<row, shuttingDown, dpc>>
    BY <1>2 DEF TurnStep, EndStep, ClaimTurn, StoreUserMessage, FinishRelay, ReadLifecycle,
                EvictAgent, Continue, Stop, ReleaseClaim, Complete, Abort,
                ReleaseTo, stateVars, others, deleteVars
<1>3. ASSUME NEW t \in Turns, NEW k \in Rounds, PromptStep(t, k)
      PROVE  UNCHANGED <<row, shuttingDown, dpc>>
    BY <1>3 DEF PromptStep, OpenPrompt, PromptReturns, stateVars, others, deleteVars
<1>4. ASSUME NEW c \in Cancels, CancelStep(c) PROVE UNCHANGED <<row, shuttingDown, dpc>>
    BY <1>4 DEF CancelStep, RequestCancel, MarkCancelling, CheckDrain, KillCancelled, stateVars,
                deleteVars
<1> QED BY <1>1, <1>2, <1>3, <1>4

\* A step that leaves alone what the announcement reads, or only moves a turn
\* or a warm-up that does not come to its end by it.
LEMMA MoveKeepsAnnounced ==
    ASSUME TypeOK, AnnounceInv, UNCHANGED <<row, shuttingDown, dpc, deleting, wasDeleting, published>>,
           \/ UNCHANGED pc
           \/ \E p \in Builders, where \in TurnPc :
                 Goto(p, where) /\ (p \in Turns => where # "done")
    PROVE  AnnounceInv'
<1>1. pc \in [Builders -> TurnPc]
    BY DEF TypeOK
<1>2. \A t \in Turns : pc'[t] = "done" => pc[t] = "done"
    BY <1>1 DEF Goto, Builders
<1> QED BY <1>2 DEF AnnounceInv, Undisturbed

\* A release that sees no mark leaves none.
LEMMA ReleaseKeepsAnnounced ==
    ASSUME TypeOK, AnnounceInv, NEW t \in Turns, NEW where \in TurnPc, where # "done",
           ReleaseTo(t, where), UNCHANGED <<row, dpc>>
    PROVE  AnnounceInv'
<1>1. /\ pc \in [Builders -> TurnPc] /\ wasDeleting \in [Turns -> BOOLEAN]
      /\ Goto(t, where) /\ Release(t) /\ UNCHANGED <<shuttingDown, published>>
    BY DEF TypeOK, ReleaseTo
<1>2. \A u \in Turns : pc'[u] = "done" => pc[u] = "done"
    BY <1>1 DEF Goto, Builders
<1>3. ~deleting => ~deleting'
    BY <1>1 DEF Release
<1>4. ASSUME ~deleting, NEW u \in Turns, ~wasDeleting[u] PROVE ~wasDeleting'[u]
    BY <1>1, <1>4 DEF Release
<1> QED BY <1>1, <1>2, <1>3, <1>4 DEF AnnounceInv, Undisturbed

\* The way to the agent.
LEMMA BuildKeepsAnnounced ==
    ASSUME TypeOK, AnnounceInv, NEW p \in Builders, BuildStep(p)
    PROVE  AnnounceInv'
<1> USE DEF TurnPc
<1>1. UNCHANGED <<row, shuttingDown, dpc>>
    BY TurnsLeaveTheRow
<1>2. CASE p \in Turns /\ ReleaseTo(p, "complete")
    BY <1>1, <1>2, ReleaseKeepsAnnounced
<1>3. CASE ~(p \in Turns /\ ReleaseTo(p, "complete"))
    <2>1. UNCHANGED <<deleting, wasDeleting, published>>
        BY <1>3 DEF BuildStep, LoadRow, GiveUp, EnterTable, EnterCell, EndBuild, PersistWorkspace,
                    stateVars
    <2>2. \E where \in TurnPc : Goto(p, where) /\ (p \in Turns => where # "done")
        BY <1>3 DEF BuildStep, LoadRow, GiveUp, EnterTable, EnterCell, EndBuild, PersistWorkspace
    <2> QED BY <1>1, <2>1, <2>2, MoveKeepsAnnounced
<1> QED BY <1>2, <1>3

\* The steps only turns take: Complete publishes what nothing disturbs, or
\* leaves the turn unannounced because the database failed.
LEMMA TurnKeepsAnnounced ==
    ASSUME TypeOK, AnnounceInv, NEW t \in Turns, TurnStep(t)
    PROVE  AnnounceInv'
<1> USE DEF TurnPc
<1>1. UNCHANGED <<row, shuttingDown, dpc>> /\ t \in Builders
    BY TurnsLeaveTheRow DEF Builders
<1>2. CASE \E where \in TurnPc : where # "done" /\ ReleaseTo(t, where)
    BY <1>1, <1>2, ReleaseKeepsAnnounced
<1>3. CASE Complete(t)
    <2>1. pc \in [Builders -> TurnPc] /\ wasDeleting \in [Turns -> BOOLEAN] /\ published \in [Turns -> BOOLEAN]
        BY DEF TypeOK
    <2>2. ASSUME Undisturbed, pc'[t] = "done" PROVE published'[t]
        BY <1>1, <1>3, <2>1, <2>2 DEF AnnounceInv, Undisturbed, Complete, Goto, AllowsFinished, Lifecycle
    <2>3. \A u \in Turns : u # t => pc'[u] = pc[u] /\ published'[u] = published[u]
        BY <1>1, <1>3, <2>1 DEF Complete, Goto, Builders
    <2>4. \A u \in Turns : wasDeleting'[u] => wasDeleting[u]
        BY <1>3, <2>1 DEF Complete
    <2>5. deleting' = deleting
        BY <1>3 DEF Complete, stateVars
    <2> QED BY <1>1, <2>2, <2>3, <2>4, <2>5 DEF AnnounceInv, Undisturbed
<1>4. CASE \/ ClaimTurn(t) \/ FinishRelay(t) \/ ReadLifecycle(t) \/ EvictAgent(t) \/ Continue(t) \/ Stop(t)
           \/ Goto(t, "build") /\ UNCHANGED <<stateVars, wasDeleting, published>>
    <2>1. UNCHANGED <<deleting, wasDeleting, published>>
        BY <1>4 DEF ClaimTurn, FinishRelay, ReadLifecycle, EvictAgent, Continue, Stop, stateVars
    <2>2. \E where \in TurnPc : Goto(t, where) /\ where # "done"
        BY <1>4 DEF ClaimTurn, FinishRelay, ReadLifecycle, EvictAgent, Continue, Stop
    <2> QED BY <1>1, <2>1, <2>2, MoveKeepsAnnounced
<1> QED BY <1>2, <1>3, <1>4 DEF TurnStep, EndStep, StoreUserMessage, ReleaseClaim, Abort

\* One step of the system: what a delete or a shutdown does, it does after it
\* has disturbed the conversation.
LEMMA NextKeepsAnnounced == TypeOK /\ AnnounceInv /\ [Next]_vars => AnnounceInv'
<1> SUFFICES ASSUME TypeOK, AnnounceInv, [Next]_vars PROVE AnnounceInv'
    OBVIOUS
<1>1. CASE UNCHANGED vars
    BY <1>1, MoveKeepsAnnounced DEF vars, stateVars, turnVars, deleteVars
<1>2. CASE \E p \in Builders : BuildStep(p)
    BY <1>2, BuildKeepsAnnounced
<1>3. CASE \E t \in Turns : TurnStep(t)
    BY <1>3, TurnKeepsAnnounced
<1>4. CASE \/ \E t \in Turns, k \in Rounds : PromptStep(t, k)
           \/ \E c \in Cancels : CancelStep(c)
    <2>1. UNCHANGED <<row, shuttingDown, dpc>>
        BY <1>4, TurnsLeaveTheRow
    <2>2. ASSUME NEW t \in Turns, NEW k \in Rounds, PromptStep(t, k)
          PROVE  UNCHANGED <<deleting, wasDeleting, published, pc>>
        BY <2>2 DEF PromptStep, OpenPrompt, PromptReturns, stateVars
    <2>3. ASSUME NEW c \in Cancels, CancelStep(c)
          PROVE  UNCHANGED <<deleting, wasDeleting, published, pc>>
        BY <2>3 DEF CancelStep, RequestCancel, MarkCancelling, CheckDrain, KillCancelled, stateVars, turnVars
    <2> QED BY <1>4, <2>1, <2>2, <2>3, MoveKeepsAnnounced
<1>5. ASSUME NEW d \in Deletes, DeleteStep(d) PROVE AnnounceInv'
    <2>1. UNCHANGED <<shuttingDown, wasDeleting, published, pc>>
        BY <1>5 DEF DeleteStep, FindRow, DeleteMark, DeleteHook, DeleteRow, ClearDeleting, stateVars, turnVars
    <2>2. dpc \in [Deletes -> {"new", "found", "hooks", "row", "clear", "done"}]
        BY DEF TypeOK
    <2>3. CASE FindRow(d)
        <3>1. \A x \in Deletes : dpc'[x] \in {"new", "found"} => dpc[x] \in {"new", "found"}
            BY <2>2, <2>3 DEF FindRow
        <3> QED BY <2>1, <2>3, <3>1 DEF FindRow, AnnounceInv, Undisturbed, stateVars
    <2>4. CASE ~FindRow(d)
        <3>1. dpc'[d] \notin {"new", "found"}
            BY <1>5, <2>2, <2>4 DEF DeleteStep, DeleteMark, DeleteHook, DeleteRow, ClearDeleting
        <3> QED BY <3>1 DEF AnnounceInv, Undisturbed
    <2> QED BY <2>3, <2>4
<1>6. CASE Background
    <2>1. UNCHANGED <<row, deleting, dpc, wasDeleting, published, pc>>
        BY <1>6 DEF Background, CollectIdle, KillIdle, MarkShuttingDown, ClearTable, stateVars, turnVars, deleteVars
    <2>2. shuttingDown' = FALSE => shuttingDown = FALSE
        BY <1>6 DEF Background, CollectIdle, KillIdle, MarkShuttingDown, ClearTable, stateVars
    <2>3. shuttingDown \in BOOLEAN /\ shuttingDown' \in BOOLEAN
        BY <1>6 DEF TypeOK, Background, CollectIdle, KillIdle, MarkShuttingDown, ClearTable, stateVars
    <2> QED BY <2>1, <2>2, <2>3 DEF AnnounceInv, Undisturbed
<1> QED BY <1>1, <1>2, <1>3, <1>4, <1>5, <1>6 DEF Next

\* A turn that ran to its end was announced to the clients, whatever was
\* cancelled, dropped or evicted, as long as nobody deletes the conversation,
\* the server runs and the publisher can read and write the row: a turn whose
\* publication failed there ends as "unannounced" (runtime_completion.rs
\* publish).
THEOREM EndsAreAnnounced == Spec => []EndIsAnnounced
<1>1. Init => AnnounceInv
    BY DEF Init, AnnounceInv, Builders
<1>2. AnnounceInv => EndIsAnnounced
    BY DEF AnnounceInv, EndIsAnnounced, Undisturbed
<1> QED BY <1>1, <1>2, InitTypes, NextKeepsTypes, NextKeepsAnnounced, PTL DEF Spec

-----------------------------------------------------------------------------
(* Cells and prompts. A turn has prompted nobody before it has its agent,   *)
(* and the cell it then holds stays built, however often it is killed.      *)

\* Up to the prompt, or refused or given up on the way to it.
Early == {"new", "refused", "loaded", "claimed", "build", "cell", "building", "built", "failed"}

\* In the relay's loop.
Looping == {"relay", "drained", "decide", "release"}

Built == {"live", "killed"}

\* A cell has one builder, and is built for those that go on from it.
CellInv ==
    /\ \A p \in Builders :
          /\ pc[p] \in {"cell", "building", "built"} \cup Looping => held[p] \in Slots
          /\ pc[p] = "building" => agent[held[p]] = "building"
          /\ pc[p] \in {"built"} \cup Looping => agent[held[p]] \in Built
    /\ \A p, q \in Builders :
          pc[p] = "building" /\ pc[q] = "building" /\ held[p] = held[q] => p = q

\* Prompts are sent to built agents, by turns that are past Early.
PromptedInv ==
    \A t \in Turns, k \in Rounds : sender[t][k] # "idle" =>
        /\ pc[t] \notin Early
        /\ held[t] \in Slots /\ agent[held[t]] \in Built

\* Outside its loop a relay has counted nothing and heard nothing.
LoopInv == \A t \in Turns : pc[t] \notin Looping => round[t] = 0 /\ terminal[t] = "none"

AgentInv == TypeOK /\ CellInv /\ PromptedInv /\ LoopInv

\* What AgentInv reads besides its types.
agentVars == <<pc, held, agent, round, terminal, sender>>

\* No agent is built at first, and none is prompted.
LEMMA InitAgents == Init => AgentInv
<1> SUFFICES ASSUME Init PROVE AgentInv
    OBVIOUS
<1>1. CellInv /\ LoopInv
    BY DEF Init, CellInv, Looping, LoopInv, Builders
<1>2. PromptedInv
    BY DEF Init, PromptedInv
<1> QED BY <1>1, <1>2, InitTypes DEF AgentInv

\* The types AgentInv is about, of two states.
LEMMA AgentTypes ==
    ASSUME TypeOK
    PROVE  /\ pc \in [Builders -> TurnPc] /\ held \in [Builders -> 0 .. MaxSlots]
           /\ agent \in [Slots -> {"absent", "building", "live", "killed"}]
           /\ status \in [Slots -> {"none", "running", "finished"}]
           /\ round \in [Turns -> Rounds]
           /\ terminal \in [Turns -> {"none", "finish", "error"}]
           /\ sender \in [Turns -> [Rounds -> {"idle", "opening", "prompting", "over"}]]
           /\ Turns \subseteq Builders
BY DEF TypeOK, Builders

\* One turn or warm-up goes on, on the same cell: within Early but into no
\* cell, or past it, and out of the loop only with nothing counted.
LEMMA WalkKeepsAgents ==
    ASSUME AgentInv, TypeOK', NEW p \in Builders, NEW where \in TurnPc, Goto(p, where),
           UNCHANGED <<held, agent, round, terminal, sender>>,
           where \notin {"cell", "building", "built", "relay"},
           where \in Looping => pc[p] \in Looping,
           p \in Turns => /\ where \in Early => pc[p] \in Early
                          /\ where \notin Looping => pc[p] \notin Looping
    PROVE  AgentInv'
<1>0. TypeOK /\ pc' = [pc EXCEPT ![p] = where]
    BY DEF AgentInv, Goto
<1>1. CellInv'
    BY <1>0, AgentTypes DEF AgentInv, CellInv, Looping
<1>2. PromptedInv'
    BY <1>0, AgentTypes DEF AgentInv, PromptedInv
<1>3. LoopInv'
    BY <1>0, AgentTypes DEF AgentInv, LoopInv
<1> QED BY <1>1, <1>2, <1>3 DEF AgentInv

\* A release takes the turn out of the relay's loop and its count with it.
LEMMA ReleaseKeepsAgents ==
    ASSUME AgentInv, TypeOK', NEW t \in Turns, NEW where \in {"complete", "failed", "refused", "dropped"},
           ReleaseTo(t, where),
           where \in {"failed", "refused"} => pc[t] \in Early,
           agent' = IF pc[t] = "building" THEN [agent EXCEPT ![held[t]] = "absent"] ELSE agent
    PROVE  AgentInv'
<1> USE AgentTypes DEF TurnPc
<1>0. /\ TypeOK /\ t \in Builders /\ pc' = [pc EXCEPT ![t] = where]
      /\ UNCHANGED <<held, sender>>
      /\ terminal' = [terminal EXCEPT ![t] = "none"]
      /\ round' = [round EXCEPT ![t] = 0]
    BY DEF AgentInv, ReleaseTo, Goto, Builders
<1>1. \A q \in Builders : q # t /\ held[q] \in Slots /\ agent[held[q]] # "building"
                             => agent'[held[q]] = agent[held[q]]
    BY <1>0 DEF AgentInv, CellInv, Looping
<1>2. \A q \in Builders : q # t /\ pc[q] = "building" => agent'[held[q]] = agent[held[q]]
    BY <1>0 DEF AgentInv, CellInv, Looping
<1>3. CellInv'
    BY <1>0, <1>1, <1>2 DEF AgentInv, CellInv, Looping, Built
<1>4. PromptedInv'
    <2> SUFFICES ASSUME NEW u \in Turns, NEW k \in Rounds, sender[u][k] # "idle"
                 PROVE  /\ pc'[u] \notin Early
                        /\ held[u] \in Slots /\ agent'[held[u]] \in Built
        BY <1>0 DEF PromptedInv
    <2>1. pc[u] \notin Early /\ held[u] \in Slots /\ agent[held[u]] \in Built
        BY DEF AgentInv, PromptedInv
    <2>2. pc'[u] \notin Early
        BY <1>0, <2>1 DEF Early
    <2>3. agent'[held[u]] = agent[held[u]]
        BY <1>0, <2>1 DEF AgentInv, CellInv, Looping, Built
    <2> QED BY <2>1, <2>2, <2>3
<1>5. LoopInv'
    BY <1>0 DEF AgentInv, LoopInv, Looping
<1> QED BY <1>3, <1>4, <1>5 DEF AgentInv

\* An agent that is killed is still a built one; a terminal event reaches only
\* relays.
LEMMA KillKeepsAgents ==
    ASSUME AgentInv, TypeOK', NEW kind, KillTask(kind), UNCHANGED <<pc, held, round, sender>>
    PROVE  AgentInv'
<1> USE AgentTypes
<1>0. TypeOK
    BY DEF AgentInv
<1>1. \A i \in Slots : agent'[i] = agent[i] \/ (agent[i] = "live" /\ agent'[i] = "killed")
    BY <1>0 DEF KillTask
<1>2. \A t \in Turns : terminal'[t] = terminal[t] \/ pc[t] = "relay"
    BY <1>0 DEF KillTask, Emit
<1>3. CellInv'
    BY <1>0, <1>1 DEF AgentInv, CellInv, Looping, Built
<1>4. PromptedInv'
    BY <1>0, <1>1 DEF AgentInv, PromptedInv, Built
<1>5. LoopInv'
    BY <1>0, <1>2 DEF AgentInv, LoopInv, Looping
<1> QED BY <1>3, <1>4, <1>5 DEF AgentInv

\* The way to the agent.
LEMMA BuildKeepsAgents ==
    ASSUME AgentInv, TypeOK', NEW p \in Builders, BuildStep(p)
    PROVE  AgentInv'
<1> USE AgentTypes, BoundsAreNatural DEF TurnPc
<1>0. TypeOK /\ 0 \in Rounds
    BY DEF AgentInv, Rounds
<1>1. CASE LoadRow(p)
    BY <1>1, WalkKeepsAgents DEF LoadRow, tableVars, relayVars, Early, Looping
<1>2. CASE GiveUp(p)
    <2>1. UNCHANGED agent /\ pc[p] = "build"
        BY <1>2 DEF GiveUp, tableVars
    <2>2. CASE p \in Turns
        BY <1>2, <2>1, <2>2, ReleaseKeepsAgents DEF GiveUp
    <2>3. CASE p \notin Turns
        BY <1>2, <2>1, <2>3, WalkKeepsAgents DEF GiveUp, relayVars, Looping
    <2> QED BY <2>2, <2>3
<1>3. CASE EnterTable(p)
    <2>1. /\ pc' = [pc EXCEPT ![p] = "cell"] /\ held' = [held EXCEPT ![p] = slot'] /\ pc[p] = "build"
          /\ UNCHANGED <<agent, round, terminal, sender>>
        BY <1>3 DEF EnterTable, Goto, relayVars
    <2>2. slot' \in Slots
        BY <1>0, <1>3 DEF EnterTable, TypeOK, Slots
    <2>3. CellInv'
        BY <1>0, <2>1, <2>2 DEF AgentInv, CellInv, Looping
    <2>4. PromptedInv'
        BY <1>0, <2>1 DEF AgentInv, PromptedInv, Early
    <2>5. LoopInv'
        BY <1>0, <2>1 DEF AgentInv, LoopInv, Looping
    <2> QED BY <2>3, <2>4, <2>5 DEF AgentInv
<1>4. CASE EnterCell(p)
    <2>1. PICK where \in {"building", "built"} :
              /\ pc' = [pc EXCEPT ![p] = where]
              /\ \/ /\ where = "building" /\ agent[held[p]] = "absent"
                    /\ agent' = [agent EXCEPT ![held[p]] = "building"]
                 \/ where = "built" /\ agent[held[p]] \in Built /\ agent' = agent
        BY <1>4 DEF EnterCell, Goto, Built
    <2>2. pc[p] = "cell" /\ UNCHANGED <<held, round, terminal, sender>>
        BY <1>4 DEF EnterCell, relayVars
    <2>3. held[p] \in Slots
        BY <2>2 DEF AgentInv, CellInv, Looping
    <2>4. CellInv'
        BY <1>0, <2>1, <2>2, <2>3 DEF AgentInv, CellInv, Looping, Built
    <2>5. PromptedInv'
        BY <1>0, <2>1, <2>2, <2>3 DEF AgentInv, PromptedInv, Early, Built
    <2>6. LoopInv'
        BY <1>0, <2>1, <2>2 DEF AgentInv, LoopInv, Looping
    <2> QED BY <2>4, <2>5, <2>6 DEF AgentInv
<1>5. CASE EndBuild(p)
    <2>0. pc[p] = "building" /\ held[p] \in Slots /\ agent[held[p]] = "building"
        BY <1>5 DEF EndBuild, AgentInv, CellInv, Looping
    <2>1. CASE p \in Turns /\ ReleaseTo(p, "complete") /\ agent' = [agent EXCEPT ![held[p]] = "absent"]
        BY <2>0, <2>1, ReleaseKeepsAgents
    <2>2. ASSUME NEW where, NEW what,
                 \/ where = "built" /\ what = "live"
                 \/ where = "failed" /\ what = "absent",
                 pc' = [pc EXCEPT ![p] = where], agent' = [agent EXCEPT ![held[p]] = what],
                 UNCHANGED <<held, round, terminal, sender>>
          PROVE  AgentInv'
        <3>1. CellInv'
            BY <1>0, <2>0, <2>2 DEF AgentInv, CellInv, Looping, Built
        <3>2. PromptedInv'
            BY <1>0, <2>0, <2>2 DEF AgentInv, PromptedInv, Early, Built
        <3>3. LoopInv'
            BY <1>0, <2>0, <2>2 DEF AgentInv, LoopInv, Looping
        <3> QED BY <3>1, <3>2, <3>3 DEF AgentInv
    <2>3. CASE Goto(p, "built") /\ UNCHANGED <<held, relayVars>> /\ agent' = [agent EXCEPT ![held[p]] = "live"]
        BY <2>2, <2>3 DEF Goto, relayVars
    <2>4. CASE Goto(p, "failed") /\ UNCHANGED <<held, relayVars>> /\ agent' = [agent EXCEPT ![held[p]] = "absent"]
        BY <2>2, <2>4 DEF Goto, relayVars
    <2> QED BY <1>5, <2>1, <2>3, <2>4 DEF EndBuild
<1>6. CASE PersistWorkspace(p)
    <2>0. pc[p] = "built" /\ UNCHANGED agent /\ held[p] \in Slots /\ agent[held[p]] \in Built
        BY <1>6 DEF PersistWorkspace, tableVars, AgentInv, CellInv, Looping
    <2>1. CASE p \in Turns /\ ReleaseTo(p, "complete")
        BY <2>0, <2>1, ReleaseKeepsAgents
    <2>2. CASE p \notin Turns /\ (Goto(p, "failed") \/ Goto(p, "done")) /\ UNCHANGED <<held, relayVars>>
        BY <2>0, <2>2, WalkKeepsAgents DEF relayVars, Looping
    <2>3. CASE /\ p \in Turns /\ Goto(p, "relay") /\ sender' = [sender EXCEPT ![p][0] = "opening"]
               /\ UNCHANGED <<held, round, terminal>>
        <3>1. CellInv'
            BY <1>0, <2>0, <2>3 DEF AgentInv, CellInv, Looping, Goto
        <3>2. PromptedInv'
            BY <1>0, <2>0, <2>3 DEF AgentInv, PromptedInv, Early, Goto
        <3>3. LoopInv'
            BY <1>0, <2>0, <2>3 DEF AgentInv, LoopInv, Looping, Goto
        <3> QED BY <3>1, <3>2, <3>3 DEF AgentInv
    <2>4. CASE /\ p \notin Turns /\ Goto(p, "done") /\ sender' = sender
               /\ UNCHANGED <<held, round, terminal>>
        BY <2>0, <2>4, WalkKeepsAgents DEF Looping
    <2> QED BY <1>6, <2>1, <2>2, <2>3, <2>4 DEF PersistWorkspace
<1> QED BY <1>1, <1>2, <1>3, <1>4, <1>5, <1>6 DEF BuildStep

\* The steps only turns take.
LEMMA TurnKeepsAgents ==
    ASSUME AgentInv, TypeOK', NEW t \in Turns, TurnStep(t)
    PROVE  AgentInv'
<1> USE AgentTypes DEF TurnPc
<1>0. TypeOK /\ t \in Builders
    BY DEF AgentInv, Builders
<1>1. CASE ClaimTurn(t) \/ ReadLifecycle(t) \/ Stop(t) \/ Complete(t)
    <2>1. PICK where \in TurnPc : Goto(t, where) /\ where \in {"refused", "claimed", "build", "decide", "release", "done",
                                                        "unannounced"}
              /\ (where \in Early => pc[t] \in Early) /\ (where \in Looping <=> pc[t] \in Looping)
        BY <1>1 DEF ClaimTurn, ReadLifecycle, Stop, Complete, Early, Looping
    <2>2. UNCHANGED <<held, agent, round, terminal, sender>>
        BY <1>1 DEF ClaimTurn, ReadLifecycle, Stop, Complete, tableVars, relayVars
    <2> QED BY <1>0, <2>1, <2>2, WalkKeepsAgents
<1>2. CASE StoreUserMessage(t)
    <2>1. pc[t] = "claimed" /\ UNCHANGED agent
        BY <1>2 DEF StoreUserMessage, tableVars
    <2>2. CASE ReleaseTo(t, "complete") \/ ReleaseTo(t, "failed")
        BY <2>1, <2>2, ReleaseKeepsAgents DEF Early
    <2>3. CASE Goto(t, "build") /\ UNCHANGED <<held, relayVars>>
        BY <1>0, <2>1, <2>3, WalkKeepsAgents DEF Early, Looping, relayVars
    <2> QED BY <1>2, <2>2, <2>3 DEF StoreUserMessage
<1>3. CASE FinishRelay(t)
    BY <1>0, <1>3, WalkKeepsAgents DEF FinishRelay, Early, Looping, tableVars
<1>4. CASE EvictAgent(t)
    <2>0. /\ pc' = [pc EXCEPT ![t] = "release"] /\ pc[t] = "decide" /\ KillTask("error")
          /\ UNCHANGED <<held, round, sender>>
        BY <1>4 DEF EvictAgent, Goto
    <2>1. \A i \in Slots : agent'[i] = agent[i] \/ (agent[i] = "live" /\ agent'[i] = "killed")
        BY <1>0, <2>0 DEF KillTask
    <2>2. \A u \in Turns : terminal'[u] = terminal[u] \/ pc[u] = "relay"
        BY <1>0, <2>0 DEF KillTask, Emit
    <2>3. CellInv'
        BY <1>0, <2>0, <2>1 DEF AgentInv, CellInv, Looping, Built
    <2>4. PromptedInv'
        BY <1>0, <2>0, <2>1 DEF AgentInv, PromptedInv, Built, Early
    <2>5. LoopInv'
        BY <1>0, <2>0, <2>2 DEF AgentInv, LoopInv, Looping
    <2> QED BY <2>3, <2>4, <2>5 DEF AgentInv
<1>5. CASE Continue(t)
    <2>0. /\ pc' = [pc EXCEPT ![t] = "relay"] /\ pc[t] = "decide" /\ UNCHANGED <<held, agent>>
          /\ sender' = [sender EXCEPT ![t][round'[t]] = "opening"]
          /\ round' = [round EXCEPT ![t] = @ + 1] /\ terminal' = [terminal EXCEPT ![t] = "none"]
        BY <1>5 DEF Continue, Goto, tableVars
    <2>2. held[t] \in Slots /\ agent[held[t]] \in Built
        BY <1>0, <2>0 DEF AgentInv, CellInv, Looping
    <2>3. CellInv'
        BY <1>0, <2>0, <2>2 DEF AgentInv, CellInv, Looping
    <2>4. PromptedInv'
        BY <1>0, <2>0, <2>2 DEF AgentInv, PromptedInv, Early
    <2>5. LoopInv'
        BY <1>0, <2>0 DEF AgentInv, LoopInv, Looping
    <2> QED BY <2>3, <2>4, <2>5 DEF AgentInv
<1>6. CASE ReleaseClaim(t)
    BY <1>6, ReleaseKeepsAgents DEF ReleaseClaim, tableVars
<1>7. CASE Abort(t)
    BY <1>7, ReleaseKeepsAgents DEF Abort, Early
<1> QED BY <1>1, <1>2, <1>3, <1>4, <1>5, <1>6, <1>7 DEF TurnStep, EndStep

\* A step that is no turn's: it may kill the agent in the table, or end a
\* prompt, but moves nobody and sends nothing.
LEMMA OthersKeepAgents ==
    ASSUME AgentInv, TypeOK',
           \/ \E t \in Turns, k \in Rounds : PromptStep(t, k)
           \/ \E c \in Cancels : CancelStep(c)
           \/ \E d \in Deletes : DeleteStep(d)
           \/ Background
           \/ UNCHANGED vars
    PROVE  AgentInv'
<1> USE AgentTypes
<1>0. TypeOK
    BY DEF AgentInv
<1>1. CASE UNCHANGED agentVars
    BY <1>1 DEF AgentInv, CellInv, PromptedInv, LoopInv, agentVars
<1>2. ASSUME NEW t \in Turns, NEW k \in Rounds, PromptStep(t, k) PROVE AgentInv'
    <2>1. UNCHANGED <<pc, held, agent, round>>
        BY <1>2 DEF PromptStep, OpenPrompt, PromptReturns, tableVars
    <2>2. \A u \in Turns : terminal'[u] = terminal[u] \/ pc[u] = "relay"
        BY <1>0, <1>2 DEF PromptStep, OpenPrompt, PromptReturns, Emit
    <2>3. \A u \in Turns, j \in Rounds : sender'[u][j] # "idle" => sender[u][j] # "idle"
        <3>1. PICK to \in {"prompting", "over"} : sender' = [sender EXCEPT ![t][k] = to]
            BY <1>2 DEF PromptStep, OpenPrompt, PromptReturns
        <3>2. sender[t][k] # "idle"
            BY <1>2 DEF PromptStep, OpenPrompt, PromptReturns
        <3> QED BY <1>0, <3>1, <3>2
    <2>4. CellInv'
        BY <2>1 DEF AgentInv, CellInv
    <2>5. PromptedInv'
        BY <2>1, <2>3 DEF AgentInv, PromptedInv
    <2>6. LoopInv'
        BY <1>0, <2>1, <2>2 DEF AgentInv, LoopInv, Looping
    <2> QED BY <2>4, <2>5, <2>6 DEF AgentInv
<1>3. ASSUME NEW c \in Cancels, CancelStep(c) PROVE AgentInv'
    BY <1>1, <1>3, KillKeepsAgents
       DEF CancelStep, RequestCancel, MarkCancelling, CheckDrain, KillCancelled,
           turnVars, relayVars, tableVars, agentVars
<1>4. ASSUME NEW d \in Deletes, DeleteStep(d) PROVE AgentInv'
    BY <1>1, <1>4, KillKeepsAgents
       DEF DeleteStep, FindRow, DeleteMark, DeleteHook, DeleteRow, ClearDeleting,
           turnVars, relayVars, tableVars, agentVars
<1>5. CASE Background
    BY <1>1, <1>5, KillKeepsAgents
       DEF Background, CollectIdle, KillIdle, MarkShuttingDown, ClearTable,
           turnVars, relayVars, tableVars, agentVars
<1>6. CASE UNCHANGED vars
    BY <1>1, <1>6 DEF vars, turnVars, relayVars, tableVars, agentVars
<1> QED BY <1>2, <1>3, <1>4, <1>5, <1>6

\* One step of the system.
LEMMA NextKeepsAgents == AgentInv /\ [Next]_vars => AgentInv'
<1> SUFFICES ASSUME AgentInv, [Next]_vars PROVE AgentInv'
    OBVIOUS
<1>1. TypeOK'
    BY NextKeepsTypes DEF AgentInv
<1>2. CASE \E p \in Builders : BuildStep(p)
    BY <1>1, <1>2, BuildKeepsAgents
<1>3. CASE \E t \in Turns : TurnStep(t)
    BY <1>1, <1>3, TurnKeepsAgents
<1>4. CASE ~((\E p \in Builders : BuildStep(p)) \/ (\E t \in Turns : TurnStep(t)))
    BY <1>1, <1>4, OthersKeepAgents DEF Next
<1> QED BY <1>2, <1>3, <1>4

-----------------------------------------------------------------------------
(* A relay is never stranded: whoever ends its agent or its prompt tells it, *)
(* unless Finished is already the status, and then its prompt is still to    *)
(* be sent and resets it.                                                    *)

RelayInv == AgentInv /\ RelayNeverStranded

\* A terminal event: the relays of that agent hear it, or had not prompted yet.
LEMMA EmitReachesRelays ==
    ASSUME RelayInv, NEW i \in Slots, NEW kind \in {"finish", "error"}, Emit(i, kind),
           UNCHANGED <<held, round>>,
           \A t \in Turns : pc'[t] = "relay" => pc[t] = "relay",
           \A t \in Turns : pc'[t] = "relay" /\ terminal'[t] = "none" =>
              /\ sender[t][round[t]] = "opening" => sender'[t][round[t]] = "opening"
              /\ sender[t][round[t]] = "prompting" /\ held[t] # i => sender'[t][round[t]] = "prompting"
    PROVE  RelayNeverStranded'
<1> SUFFICES ASSUME NEW t \in Turns, pc'[t] = "relay", terminal'[t] = "none"
             PROVE  \/ sender'[t][round[t]] = "opening"
                    \/ sender'[t][round[t]] = "prompting" /\ status'[held[t]] = "running"
    BY DEF RelayNeverStranded
<1>0. /\ TypeOK /\ pc[t] = "relay"
      /\ status' = [status EXCEPT ![i] = "finished"]
      /\ terminal'[t] = IF /\ status[i] # "finished"
                           /\ pc[t] = "relay" /\ held[t] = i /\ terminal[t] = "none"
                        THEN kind ELSE terminal[t]
    BY DEF RelayInv, AgentInv, Emit
<1>1. terminal[t] = "none" /\ ~(status[i] # "finished" /\ held[t] = i)
    BY <1>0
<1>2. \/ sender[t][round[t]] = "opening"
      \/ sender[t][round[t]] = "prompting" /\ status[held[t]] = "running"
    BY <1>0, <1>1 DEF RelayInv, RelayNeverStranded
<1>3. CASE sender[t][round[t]] = "opening"
    BY <1>3
<1>4. CASE sender[t][round[t]] = "prompting" /\ status[held[t]] = "running"
    <2>1. held[t] # i
        BY <1>1, <1>4
    <2>2. status'[held[t]] = "running"
        BY <1>0, <1>4, <2>1, AgentTypes
    <2> QED BY <1>4, <2>1, <2>2
<1> QED BY <1>2, <1>3, <1>4

\* A step that emits nothing and leaves the relays where they are.
LEMMA QuietKeepsRelays ==
    ASSUME RelayInv, UNCHANGED status,
           \A t \in Turns : pc'[t] = "relay" => pc[t] = "relay" /\ terminal'[t] = terminal[t]
                                /\ UNCHANGED <<held[t], round[t], sender[t]>>
    PROVE  RelayNeverStranded'
BY DEF RelayInv, RelayNeverStranded

\* The end of an agent.
LEMMA KillKeepsRelays ==
    ASSUME RelayInv, NEW kind \in {"finish", "error"}, KillTask(kind), UNCHANGED <<held, round, sender>>,
           \A t \in Turns : pc'[t] = "relay" => pc[t] = "relay"
    PROVE  RelayNeverStranded'
<1>1. CASE slot \in Slots /\ Emit(slot, kind)
    BY <1>1, EmitReachesRelays
<1>2. CASE UNCHANGED <<agent, status, terminal>>
    BY <1>2, QuietKeepsRelays
<1>3. slot # 0 => slot \in Slots
    BY DEF RelayInv, AgentInv, TypeOK, Slots
<1> QED BY <1>1, <1>2, <1>3 DEF KillTask

\* A turn leaves the relay by its own steps, and enters it with a prompt to
\* send: the first one, or a continuation.
LEMMA TurnsKeepRelays ==
    ASSUME RelayInv,
           \/ \E p \in Builders : BuildStep(p)
           \/ \E t \in Turns : TurnStep(t)
    PROVE  RelayNeverStranded'
<1> USE AgentTypes
<1>0. TypeOK
    BY DEF RelayInv, AgentInv
<1>1. ASSUME NEW p \in Builders, NEW where, where # "relay", Goto(p, where), UNCHANGED status,
             \A t \in Turns : t # p => terminal'[t] = terminal[t]
                                  /\ UNCHANGED <<round[t], sender[t]>>
                                  /\ (pc[t] = "relay" => UNCHANGED held[t])
      PROVE  RelayNeverStranded'
    <2>1. \A t \in Turns : pc'[t] = "relay" => t # p /\ pc[t] = "relay"
        BY <1>0, <1>1 DEF Goto
    <2> QED BY <1>1, <2>1, QuietKeepsRelays
<1>2. ASSUME NEW t \in Turns, NEW where, where # "relay", ReleaseTo(t, where), UNCHANGED status
      PROVE  RelayNeverStranded'
    <2>1. \A u \in Turns : u # t => terminal'[u] = terminal[u] /\ UNCHANGED <<round[u], sender[u]>>
                                  /\ UNCHANGED held[u]
        BY <1>0, <1>2 DEF ReleaseTo
    <2>2. t \in Builders /\ Goto(t, where)
        BY <1>0, <1>2 DEF ReleaseTo
    <2> QED BY <1>1, <1>2, <2>1, <2>2
<1>3. ASSUME NEW t \in Turns, NEW k \in Rounds, Goto(t, "relay"), UNCHANGED <<status, held>>,
             sender' = [sender EXCEPT ![t][k] = "opening"], round'[t] = k,
             \A u \in Turns : u # t => UNCHANGED <<round[u], terminal[u]>>
      PROVE  RelayNeverStranded'
    <2>1. sender'[t][round'[t]] = "opening"
        BY <1>0, <1>3
    <2>2. \A u \in Turns : u # t => UNCHANGED <<pc[u], sender[u]>>
        BY <1>0, <1>3 DEF Goto
    <2> QED BY <1>3, <2>1, <2>2 DEF RelayInv, RelayNeverStranded
<1>4. ASSUME NEW p \in Builders, BuildStep(p) PROVE RelayNeverStranded'
    <2>1. CASE LoadRow(p) \/ EnterCell(p)
        BY <1>1, <2>1 DEF LoadRow, EnterCell, relayVars
    <2>2. CASE EnterTable(p)
        <3>1. pc[p] = "build" /\ Goto(p, "cell") /\ UNCHANGED <<status, relayVars>>
              /\ held' = [held EXCEPT ![p] = slot']
            BY <2>2 DEF EnterTable
        <3> QED BY <1>0, <1>1, <3>1 DEF relayVars
    <2>3. CASE GiveUp(p)
        BY <1>1, <1>2, <2>3 DEF GiveUp, relayVars
    <2>4. CASE EndBuild(p)
        BY <1>1, <1>2, <2>4 DEF EndBuild, relayVars
    <2>5. CASE PersistWorkspace(p)
        <3>1. CASE p \in Turns /\ ReleaseTo(p, "complete")
            BY <1>2, <2>5, <3>1 DEF PersistWorkspace
        <3>2. CASE p \notin Turns
            BY <1>1, <2>5, <3>2 DEF PersistWorkspace, relayVars
        <3>3. CASE /\ p \in Turns /\ Goto(p, "relay") /\ sender' = [sender EXCEPT ![p][0] = "opening"]
                   /\ UNCHANGED <<held, terminal, round>>
            <4>1. 0 \in Rounds
                BY BoundsAreNatural DEF Rounds
            <4>2. pc[p] = "built" /\ UNCHANGED status
                BY <2>5 DEF PersistWorkspace
            <4>3. round[p] = 0
                BY <3>3, <4>2 DEF RelayInv, AgentInv, LoopInv, Looping
            <4> QED BY <1>3, <3>3, <4>1, <4>2, <4>3
        <3> QED BY <2>5, <3>1, <3>2, <3>3 DEF PersistWorkspace
    <2> QED BY <1>4, <2>1, <2>2, <2>3, <2>4, <2>5 DEF BuildStep
<1>5. ASSUME NEW t \in Turns, TurnStep(t) PROVE RelayNeverStranded'
    <2>0. t \in Builders
        BY <1>0
    <2>1. CASE ClaimTurn(t) \/ FinishRelay(t) \/ ReadLifecycle(t) \/ Stop(t) \/ Complete(t)
        <3>1. \E where : where # "relay" /\ Goto(t, where)
            BY <2>1 DEF ClaimTurn, FinishRelay, ReadLifecycle, Stop, Complete
        <3>2. UNCHANGED <<status, held, terminal, round, sender>>
            BY <2>1 DEF ClaimTurn, FinishRelay, ReadLifecycle, Stop, Complete, relayVars
        <3> QED BY <1>1, <2>0, <3>1, <3>2
    <2>2. CASE StoreUserMessage(t) \/ ReleaseClaim(t) \/ Abort(t)
        <3>1. CASE \E where : where # "relay" /\ ReleaseTo(t, where)
            BY <1>2, <2>2, <3>1 DEF StoreUserMessage, ReleaseClaim, Abort
        <3>2. CASE Goto(t, "build") /\ UNCHANGED <<held, relayVars>>
            BY <1>1, <2>0, <2>2, <3>2 DEF StoreUserMessage, ReleaseClaim, Abort, relayVars
        <3> QED BY <2>2, <3>1, <3>2 DEF StoreUserMessage, ReleaseClaim, Abort
    <2>3. CASE EvictAgent(t)
        <3>1. \A u \in Turns : pc'[u] = "relay" => pc[u] = "relay"
            BY <1>0, <2>3 DEF EvictAgent, Goto
        <3> QED BY <2>3, <3>1, KillKeepsRelays DEF EvictAgent
    <2>4. CASE Continue(t)
        <3>1. /\ Goto(t, "relay") /\ round' = [round EXCEPT ![t] = @ + 1] /\ round[t] < MaxContinuations
              /\ sender' = [sender EXCEPT ![t][round'[t]] = "opening"]
              /\ terminal' = [terminal EXCEPT ![t] = "none"] /\ UNCHANGED <<status, held>>
            BY <2>4 DEF Continue
        <3>2. round'[t] \in Rounds
            BY <1>0, <3>1, BoundsAreNatural DEF Rounds
        <3>3. \A u \in Turns : u # t => UNCHANGED <<round[u], terminal[u]>>
            BY <1>0, <3>1
        <3> QED BY <1>3, <3>1, <3>2, <3>3
    <2> QED BY <1>5, <2>1, <2>2, <2>3, <2>4 DEF TurnStep, EndStep
<1> QED BY <1>4, <1>5

\* One step of the system.
LEMMA NextKeepsRelays == RelayInv /\ [Next]_vars => RelayInv'
<1> SUFFICES ASSUME RelayInv, [Next]_vars PROVE RelayNeverStranded'
    BY NextKeepsAgents DEF RelayInv
<1> USE AgentTypes
<1>0. TypeOK
    BY DEF RelayInv, AgentInv
<1>1. CASE UNCHANGED <<pc, status, turnVars>>
    BY <1>1, QuietKeepsRelays DEF turnVars, relayVars
<1>2. CASE \E p \in Builders : BuildStep(p)
    BY <1>2, TurnsKeepRelays
<1>3. CASE \E t \in Turns : TurnStep(t)
    BY <1>3, TurnsKeepRelays
<1>4. ASSUME NEW t \in Turns, NEW k \in Rounds, PromptStep(t, k) PROVE RelayNeverStranded'
    <2>1. CASE OpenPrompt(t, k)
        <3>0. /\ status' = [status EXCEPT ![held[t]] = "running"]
              /\ sender' = [sender EXCEPT ![t][k] = "prompting"] /\ sender[t][k] = "opening"
              /\ UNCHANGED <<pc, held, terminal, round>>
            BY <2>1 DEF OpenPrompt
        <3>1. held[t] \in Slots
            BY <3>0 DEF RelayInv, AgentInv, PromptedInv
        <3> SUFFICES ASSUME NEW u \in Turns, pc[u] = "relay", terminal[u] = "none"
                     PROVE  \/ sender'[u][round[u]] = "opening"
                            \/ sender'[u][round[u]] = "prompting" /\ status'[held[u]] = "running"
            BY <3>0 DEF RelayNeverStranded
        <3>2. \/ sender[u][round[u]] = "opening"
              \/ sender[u][round[u]] = "prompting" /\ status[held[u]] = "running"
            BY DEF RelayInv, RelayNeverStranded
        <3>3. held[u] \in Slots
            BY DEF RelayInv, AgentInv, CellInv, Looping, Builders
        <3>4. status[held[u]] = "running" => status'[held[u]] = "running"
            BY <1>0, <3>0, <3>1, <3>3
        <3>5. CASE u = t /\ round[u] = k
            BY <1>0, <3>0, <3>1, <3>5
        <3>6. CASE ~(u = t /\ round[u] = k)
            <4>1. sender'[u][round[u]] = sender[u][round[u]]
                BY <1>0, <3>0, <3>6
            <4> QED BY <3>2, <3>4, <4>1
        <3> QED BY <3>5, <3>6
    <2>2. CASE PromptReturns(t, k)
        <3>0. /\ sender' = [sender EXCEPT ![t][k] = "over"] /\ sender[t][k] = "prompting"
              /\ UNCHANGED <<pc, held, round>>
            BY <2>2 DEF PromptReturns
        <3>1. PICK kind \in {"finish", "error"} : Emit(held[t], kind)
            BY <2>2 DEF PromptReturns
        <3>2. held[t] \in Slots
            BY <3>0 DEF RelayInv, AgentInv, PromptedInv
        <3>3. ASSUME NEW u \in Turns, sender[u][round[u]] = "opening"
              PROVE  sender'[u][round[u]] = "opening"
            BY <1>0, <3>0, <3>3
        <3>4. ASSUME NEW u \in Turns, sender[u][round[u]] = "prompting", held[u] # held[t]
              PROVE  sender'[u][round[u]] = "prompting"
            BY <1>0, <3>0, <3>4
        <3> QED BY <3>0, <3>1, <3>2, <3>3, <3>4, EmitReachesRelays
    <2> QED BY <1>4, <2>1, <2>2 DEF PromptStep
<1>5. ASSUME NEW c \in Cancels, CancelStep(c) PROVE RelayNeverStranded'
    BY <1>1, <1>5, KillKeepsRelays
       DEF CancelStep, RequestCancel, MarkCancelling, CheckDrain, KillCancelled, turnVars
<1>6. ASSUME NEW d \in Deletes, DeleteStep(d) PROVE RelayNeverStranded'
    BY <1>1, <1>6, KillKeepsRelays
       DEF DeleteStep, FindRow, DeleteMark, DeleteHook, DeleteRow, ClearDeleting, turnVars
<1>7. CASE Background
    BY <1>1, <1>7, KillKeepsRelays
       DEF Background, CollectIdle, KillIdle, MarkShuttingDown, ClearTable, turnVars
<1>8. CASE UNCHANGED vars
    BY <1>1, <1>8 DEF vars, turnVars
<1> QED BY <1>2, <1>3, <1>4, <1>5, <1>6, <1>7, <1>8 DEF Next

\* No relay waits for an event that can not come, for any number of turns,
\* continuations and agents killed under them (agent_runtime.rs emit_finish,
\* reset_for_new_turn).
THEOREM RelaysAreNeverStranded == Spec => []RelayNeverStranded
<1>1. Init => RelayInv
    BY InitAgents DEF Init, RelayInv, RelayNeverStranded, Builders
<1>2. RelayInv => RelayNeverStranded
    BY DEF RelayInv
<1> QED BY <1>1, <1>2, NextKeepsRelays, PTL DEF Spec

-----------------------------------------------------------------------------
(* Prompts stay alone. As long as no turn was dropped, a prompt that is out  *)
(* with a living agent is that of a relay which has heard nothing yet: when  *)
(* the relay hears of an end, the prompt is over or its agent is.            *)

NoneDropped == \A t \in Turns : pc[t] # "dropped"

Open == {"opening", "prompting"}

\* The open prompts of one turn.
Own(t) ==
    \A k \in Rounds : sender[t][k] \in Open /\ agent[held[t]] = "live" =>
        pc[t] = "relay" /\ terminal[t] = "none" /\ k = round[t]

AloneInv == AgentInv /\ ClaimInv /\ (NoneDropped => \A t \in Turns : Own(t))

\* A turn whose prompts and relay a step leaves as they are. The relay it may
\* not leave is the one that has heard nothing.
Calm(t) ==
    /\ \A k \in Rounds : sender'[t][k] \in Open => sender[t][k] \in Open
    /\ pc[t] = "relay" /\ terminal[t] = "none" =>
          pc'[t] = "relay" /\ terminal'[t] = "none" /\ round'[t] = round[t]

\* No agent comes back to life, nobody who has prompted changes its cell, and
\* a dropped turn stays dropped.
LEMMA CellsDoNotRevive ==
    ASSUME AgentInv, [Next]_vars
    PROVE  /\ \A i \in Slots : agent[i] \in Built /\ agent'[i] = "live" => agent[i] = "live"
           /\ \A p \in Builders : held'[p] = held[p] \/ pc[p] = "build"
           /\ NoneDropped' => NoneDropped
<1> USE AgentTypes
<1>0. TypeOK
    BY DEF AgentInv
<1> DEFINE Lives == \A i \in Slots : agent[i] \in Built /\ agent'[i] = "live" => agent[i] = "live"
           Stays == \A p \in Builders : held'[p] = held[p] \/ pc[p] = "build"
           Drops == \A p \in Builders : pc[p] = "dropped" => pc'[p] = "dropped"
<1>1. ASSUME UNCHANGED <<pc, held, agent>> PROVE Lives /\ Stays /\ Drops
    BY <1>1
<1>2. ASSUME NEW kind, KillTask(kind) PROVE Lives
    BY <1>0, <1>2 DEF KillTask
<1>3. ASSUME NEW p \in Builders, BuildStep(p) PROVE Lives /\ Stays /\ Drops
    <2>1. pc[p] \in {"new", "build", "cell", "building", "built"} /\ \E where : Goto(p, where)
        BY <1>3 DEF BuildStep, LoadRow, GiveUp, EnterTable, EnterCell, EndBuild, PersistWorkspace, ReleaseTo
    <2>2. Drops
        BY <1>0, <2>1 DEF Goto
    <2>3. Stays
        BY <1>0, <1>3 DEF BuildStep, LoadRow, GiveUp, EnterTable, EnterCell, EndBuild, PersistWorkspace, ReleaseTo
    <2>4. CASE EndBuild(p)
        <3>1. held[p] \in Slots /\ agent[held[p]] = "building"
            BY <2>4 DEF EndBuild, AgentInv, CellInv, Looping
        <3>2. PICK to \in {"live", "absent"} : agent' = [agent EXCEPT ![held[p]] = to]
            BY <2>4 DEF EndBuild
        <3>3. Lives
            BY <1>0, <3>1, <3>2 DEF Built
        <3> QED BY <2>2, <2>3, <3>3
    <2>5. CASE EnterCell(p)
        <3>1. agent' = [agent EXCEPT ![held[p]] = "building"] \/ agent' = agent
            BY <2>5 DEF EnterCell
        <3>2. Lives
            BY <1>0, <3>1
        <3> QED BY <2>2, <2>3, <3>2
    <2>6. CASE LoadRow(p) \/ GiveUp(p) \/ EnterTable(p) \/ PersistWorkspace(p)
        <3>1. agent' = agent
            BY <2>6 DEF LoadRow, GiveUp, EnterTable, PersistWorkspace, tableVars
        <3> QED BY <2>2, <2>3, <3>1
    <2> QED BY <1>3, <2>4, <2>5, <2>6 DEF BuildStep
<1>4. ASSUME NEW t \in Turns, TurnStep(t) PROVE Lives /\ Stays /\ Drops
    <2>1. pc[t] # "dropped" /\ \E where : Goto(t, where)
        BY <1>4 DEF TurnStep, EndStep, ClaimTurn, StoreUserMessage, FinishRelay, ReadLifecycle,
                    EvictAgent, Continue, Stop, ReleaseClaim, Complete, Abort, ReleaseTo
    <2>2. Drops
        BY <1>0, <2>1 DEF Goto
    <2>3. Stays
        BY <1>4 DEF TurnStep, EndStep, ClaimTurn, StoreUserMessage, FinishRelay, ReadLifecycle,
                    EvictAgent, Continue, Stop, ReleaseClaim, Complete, Abort, ReleaseTo
    <2>4. CASE EvictAgent(t)
        BY <1>2, <2>2, <2>3, <2>4 DEF EvictAgent
    <2>5. CASE Abort(t)
        <3>1. agent' = agent \/ agent' = [agent EXCEPT ![held[t]] = "absent"]
            BY <2>5 DEF Abort
        <3>2. Lives
            BY <1>0, <3>1
        <3> QED BY <2>2, <2>3, <3>2
    <2>6. CASE ~EvictAgent(t) /\ ~Abort(t)
        <3>1. agent' = agent
            BY <1>4, <2>6 DEF TurnStep, EndStep, ClaimTurn, StoreUserMessage, FinishRelay, ReadLifecycle,
                              Continue, Stop, ReleaseClaim, Complete, tableVars
        <3> QED BY <2>2, <2>3, <3>1
    <2> QED BY <2>4, <2>5, <2>6
<1>5. ASSUME NEW t \in Turns, NEW k \in Rounds, PromptStep(t, k) PROVE Lives /\ Stays /\ Drops
    BY <1>1, <1>5 DEF PromptStep, OpenPrompt, PromptReturns, tableVars
<1>6. ASSUME \/ \E c \in Cancels : CancelStep(c)
             \/ \E d \in Deletes : DeleteStep(d)
             \/ Background
      PROVE  Lives /\ Stays /\ Drops
    <2>1. UNCHANGED <<pc, held>>
        BY <1>6 DEF CancelStep, RequestCancel, MarkCancelling, CheckDrain, KillCancelled,
                    DeleteStep, FindRow, DeleteMark, DeleteHook, DeleteRow, ClearDeleting,
                    Background, CollectIdle, KillIdle, MarkShuttingDown, ClearTable, turnVars
    <2>2. UNCHANGED agent \/ \E kind : KillTask(kind)
        BY <1>6 DEF CancelStep, RequestCancel, MarkCancelling, CheckDrain, KillCancelled,
                    DeleteStep, FindRow, DeleteMark, DeleteHook, DeleteRow, ClearDeleting,
                    Background, CollectIdle, KillIdle, MarkShuttingDown, ClearTable, tableVars
    <2> QED BY <1>1, <1>2, <2>1, <2>2
<1>7. ASSUME UNCHANGED vars PROVE Lives /\ Stays /\ Drops
    <2>1. UNCHANGED <<pc, held, agent>>
        BY <1>7 DEF vars, turnVars, tableVars
    <2> QED BY <1>1, <2>1
<1> HIDE DEF Lives, Stays, Drops
<1>8. Lives /\ Stays /\ Drops
    BY <1>3, <1>4, <1>5, <1>6, <1>7 DEF Next
<1>9. NoneDropped' => NoneDropped
    BY <1>0, <1>8 DEF NoneDropped, Drops
<1> QED BY <1>8, <1>9 DEF Lives, Stays

\* The prompts of a calm turn stay its own.
LEMMA CalmStaysOwn ==
    ASSUME AloneInv, [Next]_vars, NoneDropped', NEW t \in Turns, Calm(t)
    PROVE  Own(t)'
<1> SUFFICES ASSUME NEW k \in Rounds, sender'[t][k] \in Open, agent'[held'[t]] = "live"
             PROVE  pc'[t] = "relay" /\ terminal'[t] = "none" /\ k = round'[t]
    BY DEF Own
<1>1. AgentInv /\ NoneDropped /\ Own(t) /\ t \in Builders
    BY CellsDoNotRevive DEF AloneInv, Builders
<1>2. sender[t][k] \in Open
    BY DEF Calm
<1>3. pc[t] \notin Early /\ held[t] \in Slots /\ agent[held[t]] \in Built
    BY <1>1, <1>2 DEF AgentInv, PromptedInv, Open
<1>4. held'[t] = held[t]
    BY <1>1, <1>3, CellsDoNotRevive DEF Early
<1>5. agent[held[t]] = "live"
    BY <1>1, <1>3, <1>4, CellsDoNotRevive
<1>6. pc[t] = "relay" /\ terminal[t] = "none" /\ k = round[t]
    BY <1>1, <1>2, <1>5 DEF Own
<1> QED BY <1>6 DEF Calm

\* Nobody who has not prompted has a prompt: what a turn without prompts does
\* is calm when it sends nothing, and so is a turn that is somewhere else.
LEMMA UnchangedIsCalm ==
    ASSUME NEW t, UNCHANGED <<sender[t], pc[t], terminal[t], round[t]>>
    PROVE  Calm(t)
BY DEF Calm

\* A turn leaves its relay when it has heard of the end, or by being dropped.
LEMMA WalkIsCalm ==
    ASSUME AgentInv, NEW p \in Builders, NEW where, Goto(p, where), UNCHANGED sender,
           pc[p] # "relay" \/ (p \in Turns /\ terminal[p] # "none"),
           \A t \in Turns : t # p => UNCHANGED <<terminal[t], round[t]>>
    PROVE  \A t \in Turns : Calm(t)
<1>1. pc' = [pc EXCEPT ![p] = where] /\ pc \in [Builders -> TurnPc]
    BY DEF Goto, AgentInv, TypeOK
<1> QED BY <1>1 DEF Calm

\* A release by a turn that is not dropped.
LEMMA ReleaseIsCalm ==
    ASSUME AgentInv, NEW t \in Turns, NEW where, ReleaseTo(t, where), pc[t] # "relay"
    PROVE  \A u \in Turns : Calm(u)
<1>1. Goto(t, where) /\ UNCHANGED sender /\ t \in Builders
    BY DEF ReleaseTo, Builders
<1>2. \A u \in Turns : u # t => UNCHANGED <<terminal[u], round[u]>>
    BY AgentTypes DEF ReleaseTo, AgentInv
<1> QED BY <1>1, <1>2, WalkIsCalm

\* A turn that sends the prompt of its round as it enters the relay.
LEMMA SendingIsOwn ==
    ASSUME AloneInv, [Next]_vars, NoneDropped', NEW t \in Turns, NEW k \in Rounds,
           pc[t] # "relay", Goto(t, "relay"),
           sender' = [sender EXCEPT ![t][k] = "opening"],
           terminal'[t] = "none", round'[t] = k, UNCHANGED held,
           \A u \in Turns : u # t => UNCHANGED <<terminal[u], round[u]>>
    PROVE  \A u \in Turns : Own(u)'
<1> USE AgentTypes
<1>0. TypeOK /\ AgentInv /\ NoneDropped /\ t \in Builders
    BY CellsDoNotRevive DEF AloneInv, AgentInv, Builders
<1>1. ASSUME NEW u \in Turns, u # t PROVE Own(u)'
    <2>1. UNCHANGED <<pc[u], sender[u], terminal[u], round[u]>>
        BY <1>0, <1>1 DEF Goto
    <2> QED BY <2>1, UnchangedIsCalm, CalmStaysOwn
<1>2. Own(t)'
    <2> SUFFICES ASSUME NEW j \in Rounds, sender'[t][j] \in Open, agent'[held'[t]] = "live", j # k
                 PROVE  FALSE
        BY <1>0 DEF Own, Goto
    <2>1. sender[t][j] \in Open
        BY <1>0
    <2>2. pc[t] \notin Early /\ held[t] \in Slots /\ agent[held[t]] \in Built
        BY <1>0, <2>1 DEF AgentInv, PromptedInv, Open
    <2>3. agent[held[t]] = "live"
        BY <1>0, <2>2, CellsDoNotRevive
    <2> QED BY <1>0, <2>1, <2>3 DEF AloneInv, Own
<1> QED BY <1>1, <1>2

\* A relay that hears of the end of its agent prompts a living one no more.
LEMMA HeardAgentsAreDead ==
    ASSUME TypeOK, NEW kind, KillTask(kind), UNCHANGED held, NEW u \in Turns, terminal'[u] # terminal[u]
    PROVE  Own(u)'
<1>1. /\ slot # 0 /\ agent' = [agent EXCEPT ![slot] = "killed"] /\ Emit(slot, kind)
    BY DEF KillTask
<1>2. held[u] = slot
    BY <1>1 DEF Emit
<1>3. slot \in Slots
    BY <1>1 DEF TypeOK, Slots
<1>4. agent'[held'[u]] = "killed"
    BY <1>1, <1>2, <1>3, AgentTypes
<1> QED BY <1>4 DEF Own

\* The way to the agent and the steps of a turn.
LEMMA TurnsStayOwn ==
    ASSUME AloneInv, [Next]_vars, NoneDropped',
           \/ \E p \in Builders : BuildStep(p)
           \/ \E t \in Turns : TurnStep(t)
    PROVE  \A u \in Turns : Own(u)'
<1> USE AgentTypes
<1>0. TypeOK /\ AgentInv
    BY DEF AloneInv, AgentInv
<1>1. ASSUME \A u \in Turns : Calm(u) PROVE \A u \in Turns : Own(u)'
    BY <1>1, CalmStaysOwn
<1>2. ASSUME NEW p \in Builders, BuildStep(p) PROVE \A u \in Turns : Own(u)'
    <2>1. CASE LoadRow(p) \/ EnterTable(p) \/ EnterCell(p)
        <3>1. UNCHANGED relayVars /\ pc[p] # "relay" /\ \E where : Goto(p, where)
            BY <2>1 DEF LoadRow, EnterTable, EnterCell
        <3> QED BY <1>0, <1>1, <3>1, WalkIsCalm DEF relayVars
    <2>2. CASE GiveUp(p) \/ EndBuild(p)
        <3>1. pc[p] # "relay"
            BY <2>2 DEF GiveUp, EndBuild
        <3>2. CASE p \in Turns /\ ReleaseTo(p, "complete")
            BY <1>0, <1>1, <3>1, <3>2, ReleaseIsCalm
        <3>3. CASE UNCHANGED relayVars /\ \E where : Goto(p, where)
            BY <1>0, <1>1, <3>1, <3>3, WalkIsCalm DEF relayVars
        <3> QED BY <2>2, <3>2, <3>3 DEF GiveUp, EndBuild
    <2>3. CASE PersistWorkspace(p)
        <3>1. pc[p] = "built"
            BY <2>3 DEF PersistWorkspace
        <3>2. CASE p \in Turns /\ ReleaseTo(p, "complete")
            BY <1>0, <1>1, <3>1, <3>2, ReleaseIsCalm
        <3>3. CASE p \notin Turns
            <4>1. UNCHANGED <<sender, terminal, round>> /\ \E where : Goto(p, where)
                BY <2>3, <3>3 DEF PersistWorkspace, relayVars
            <4> QED BY <1>0, <1>1, <3>1, <4>1, WalkIsCalm
        <3>4. CASE /\ p \in Turns /\ Goto(p, "relay") /\ sender' = [sender EXCEPT ![p][0] = "opening"]
                   /\ UNCHANGED <<held, terminal, round>>
            <4>1. 0 \in Rounds
                BY BoundsAreNatural DEF Rounds
            <4>2. round[p] = 0 /\ terminal[p] = "none"
                BY <1>0, <3>1, <3>4 DEF AgentInv, LoopInv, Looping
            <4> QED BY <3>1, <3>4, <4>1, <4>2, SendingIsOwn
        <3> QED BY <2>3, <3>2, <3>3, <3>4 DEF PersistWorkspace
    <2> QED BY <1>2, <2>1, <2>2, <2>3 DEF BuildStep
<1>3. ASSUME NEW t \in Turns, TurnStep(t) PROVE \A u \in Turns : Own(u)'
    <2>0. t \in Builders
        BY <1>0
    <2>1. CASE ClaimTurn(t) \/ ReadLifecycle(t) \/ Stop(t) \/ Complete(t) \/ FinishRelay(t)
        <3>1. (pc[t] # "relay" \/ terminal[t] # "none") /\ \E where : Goto(t, where)
            BY <2>1 DEF ClaimTurn, ReadLifecycle, Stop, Complete, FinishRelay
        <3>2. UNCHANGED <<sender, terminal, round>>
            BY <2>1 DEF ClaimTurn, ReadLifecycle, Stop, Complete, FinishRelay, relayVars
        <3> QED BY <1>0, <1>1, <2>0, <3>1, <3>2, WalkIsCalm
    <2>2. CASE StoreUserMessage(t) \/ ReleaseClaim(t)
        <3>1. pc[t] # "relay"
            BY <2>2 DEF StoreUserMessage, ReleaseClaim
        <3>2. CASE \E where : ReleaseTo(t, where)
            BY <1>0, <1>1, <3>1, <3>2, ReleaseIsCalm
        <3>3. CASE Goto(t, "build") /\ UNCHANGED relayVars
            BY <1>0, <1>1, <2>0, <3>1, <3>3, WalkIsCalm DEF relayVars
        <3> QED BY <2>2, <3>2, <3>3 DEF StoreUserMessage, ReleaseClaim
    <2>3. CASE Abort(t)
        <3>1. CASE pc[t] = "loaded"
            BY <1>0, <1>1, <2>3, <3>1, ReleaseIsCalm DEF Abort
        <3>2. CASE pc[t] # "loaded"
            BY <1>0, <2>0, <2>3, <3>2 DEF Abort, ReleaseTo, Goto, NoneDropped
        <3> QED BY <3>1, <3>2
    <2>4. CASE EvictAgent(t)
        <3> SUFFICES ASSUME NEW u \in Turns PROVE Own(u)'
            OBVIOUS
        <3>0. KillTask("error") /\ Goto(t, "release") /\ pc[t] = "decide" /\ UNCHANGED <<held, round, sender>>
            BY <2>4 DEF EvictAgent
        <3>1. CASE terminal'[u] = terminal[u]
            BY <1>0, <3>0, <3>1, CalmStaysOwn DEF Calm, Goto
        <3>2. CASE terminal'[u] # terminal[u]
            BY <1>0, <3>0, <3>2, HeardAgentsAreDead
        <3> QED BY <3>1, <3>2
    <2>5. CASE Continue(t)
        <3>1. /\ pc[t] = "decide" /\ Goto(t, "relay") /\ UNCHANGED held
              /\ round' = [round EXCEPT ![t] = @ + 1] /\ round[t] < MaxContinuations
              /\ sender' = [sender EXCEPT ![t][round'[t]] = "opening"]
              /\ terminal' = [terminal EXCEPT ![t] = "none"]
            BY <2>5 DEF Continue
        <3>2. round'[t] \in Rounds /\ terminal'[t] = "none"
            BY <1>0, <3>1, BoundsAreNatural DEF Rounds
        <3>3. \A u \in Turns : u # t => UNCHANGED <<terminal[u], round[u]>>
            BY <1>0, <3>1
        <3>4. pc[t] # "relay"
            BY <3>1
        <3> QED BY <3>1, <3>2, <3>3, <3>4, SendingIsOwn
    <2> QED BY <1>3, <2>1, <2>2, <2>3, <2>4, <2>5 DEF TurnStep, EndStep
<1> QED BY <1>2, <1>3

\* An agent is killed by somebody else: its prompts are no living agent's.
LEMMA KillStaysOwn ==
    ASSUME AloneInv, [Next]_vars, NoneDropped', NEW kind, KillTask(kind),
           UNCHANGED <<pc, held, round, sender>>, NEW u \in Turns
    PROVE  Own(u)'
<1> USE AgentTypes
<1>0. TypeOK /\ AgentInv
    BY DEF AloneInv, AgentInv
<1>1. CASE terminal'[u] = terminal[u]
    BY <1>1, CalmStaysOwn, UnchangedIsCalm
<1>2. CASE terminal'[u] # terminal[u]
    BY <1>0, <1>2, HeardAgentsAreDead
<1> QED BY <1>1, <1>2

\* A prompt returns: the relay that hears of it is that of its turn.
LEMMA PromptStaysOwn ==
    ASSUME AloneInv, [Next]_vars, NoneDropped', NEW t \in Turns, NEW k \in Rounds, PromptStep(t, k),
           NEW u \in Turns
    PROVE  Own(u)'
<1> USE AgentTypes
<1>0. TypeOK /\ AgentInv /\ NoneDropped /\ u \in Builders /\ t \in Builders
    BY CellsDoNotRevive DEF AloneInv, AgentInv, Builders
<1>1. PICK to \in {"prompting", "over"} :
         /\ sender' = [sender EXCEPT ![t][k] = to] /\ sender[t][k] \in Open
         /\ UNCHANGED <<pc, held, round, agent>>
    BY DEF PromptStep, OpenPrompt, PromptReturns, tableVars, Open
<1>2. \A j \in Rounds : sender'[u][j] \in Open => sender[u][j] \in Open
    BY <1>0, <1>1 DEF Open
<1>3. CASE terminal'[u] = terminal[u]
    BY <1>1, <1>2, <1>3, CalmStaysOwn DEF Calm
<1>4. CASE terminal'[u] # terminal[u]
    <2>1. /\ pc[u] = "relay" /\ held[u] = held[t]
          /\ sender' = [sender EXCEPT ![t][k] = "over"]
        BY <1>0, <1>4 DEF PromptStep, OpenPrompt, PromptReturns, Emit
    <2> SUFFICES ASSUME NEW j \in Rounds, sender'[u][j] \in Open, agent[held[u]] = "live"
                 PROVE  FALSE
        BY <1>1 DEF Own
    <2>2. pc[t] = "relay" /\ k = round[t]
        BY <1>0, <1>1, <2>1 DEF AloneInv, Own
    <2>3. u = t
        BY <2>1, <2>2 DEF AloneInv, ClaimInv, OneTurnAtATime, Holding
    <2>4. j = round[u]
        BY <1>0, <1>2 DEF AloneInv, Own
    <2> QED BY <1>0, <2>1, <2>2, <2>3, <2>4 DEF Open
<1> QED BY <1>3, <1>4

\* One step of the system.
LEMMA NextKeepsAlone == AloneInv /\ [Next]_vars => AloneInv'
<1> SUFFICES ASSUME AloneInv, [Next]_vars, NoneDropped' PROVE \A u \in Turns : Own(u)'
    BY NextKeepsAgents, NextPreservesClaim DEF AloneInv
<1>1. CASE UNCHANGED <<pc, relayVars>>
    BY <1>1, UnchangedIsCalm, CalmStaysOwn DEF relayVars
<1>2. CASE \E kind : KillTask(kind) /\ UNCHANGED <<pc, held, round, sender>>
    BY <1>2, KillStaysOwn
<1>3. CASE (\E p \in Builders : BuildStep(p)) \/ (\E t \in Turns : TurnStep(t))
    BY <1>3, TurnsStayOwn
<1>4. CASE \E t \in Turns, k \in Rounds : PromptStep(t, k)
    BY <1>4, PromptStaysOwn
<1>5. ASSUME \/ \E c \in Cancels : CancelStep(c)
             \/ \E d \in Deletes : DeleteStep(d)
             \/ Background
      PROVE  \/ UNCHANGED <<pc, relayVars>>
             \/ \E kind : KillTask(kind) /\ UNCHANGED <<pc, held, round, sender>>
    BY <1>5 DEF CancelStep, RequestCancel, MarkCancelling, CheckDrain, KillCancelled,
                DeleteStep, FindRow, DeleteMark, DeleteHook, DeleteRow, ClearDeleting,
                Background, CollectIdle, KillIdle, MarkShuttingDown, ClearTable, turnVars
<1>6. CASE UNCHANGED vars
    BY <1>1, <1>6 DEF vars, turnVars
<1> QED BY <1>1, <1>2, <1>3, <1>4, <1>5, <1>6 DEF Next

\* A living agent serves one prompt, and that of the turn in possession, for
\* every number of turns, continuations and kills, while no event loop was
\* aborted under its turn (stream_relay.rs: the relay waits for the end).
THEOREM AgentsServeOnePrompt == Spec => []PromptsAlone
<1>1. Init => AloneInv
    BY InitAgents, InitClaim DEF Init, AloneInv, Own, Open
<1>2. AloneInv => PromptsAlone
    <2> SUFFICES ASSUME AloneInv, NoneDropped, NEW i \in Slots, agent[i] = "live"
                 PROVE  Cardinality(Prompts(i)) <= 1 /\ \A x \in Prompts(i) : active = x[1]
        BY DEF PromptsAlone, NoneDropped
    <2>1. ASSUME NEW x \in Prompts(i) PROVE x = <<active, round[active]>>
        <3>1. PICK t \in Turns, k \in Rounds :
                  x = <<t, k>> /\ held[t] = i /\ sender[t][k] \in {"opening", "prompting"}
            BY DEF Prompts
        <3>2. pc[t] = "relay" /\ k = round[t]
            BY <3>1 DEF AloneInv, Own, Open
        <3>3. active = t
            BY <3>2 DEF AloneInv, ClaimInv, OneTurnAtATime, Holding
        <3> QED BY <3>1, <3>2, <3>3
    <2>2. Prompts(i) \subseteq {<<active, round[active]>>}
        BY <2>1
    <2>3. Cardinality(Prompts(i)) <= 1
        <3> DEFINE one == {<<active, round[active]>>}
        <3>1. IsFiniteSet(one) /\ Cardinality(one) = 1
            BY FS_Singleton
        <3> HIDE DEF one
        <3>2. Prompts(i) \subseteq one
            BY <2>2 DEF one
        <3> QED BY <3>1, <3>2, FS_Subset
    <2> QED BY <2>1, <2>3
<1> QED BY <1>1, <1>2, NextKeepsAlone, PTL DEF Spec
=============================================================================
