------------------------------ MODULE TurnPort ------------------------------
(***************************************************************************)
(* What a conversation promises to whoever starts turns on it: a turn is   *)
(* refused, or it runs alone and ends. `ConversationRuntime` implements    *)
(* this; the event loops of `TeamSession` rely on it through their port.   *)
(***************************************************************************)
CONSTANTS Turns,   \* turn ids, each minted for one request
          NoTurn   \* no turn is running: not one of them

VARIABLES running,  \* the turn that owns the conversation, or NoTurn
          fate      \* of each turn: "new", "refused", "running" or "over"

portVars == <<running, fate>>

PortInit ==
    /\ running = NoTurn
    /\ fate = [t \in Turns |-> "new"]

\* A request is turned down and never owns the conversation.
Refuse(t) ==
    /\ fate[t] = "new"
    /\ fate' = [fate EXCEPT ![t] = "refused"]
    /\ UNCHANGED running

Start(t) ==
    /\ fate[t] = "new"
    /\ running = NoTurn
    /\ running' = t
    /\ fate' = [fate EXCEPT ![t] = "running"]

Finish(t) ==
    /\ running = t
    /\ running' = NoTurn
    /\ fate' = [fate EXCEPT ![t] = "over"]

PortNext == \E t \in Turns : Refuse(t) \/ Start(t) \/ Finish(t)

PortSpec == PortInit /\ [][PortNext]_portVars
=============================================================================
