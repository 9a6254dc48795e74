----------------------- MODULE MCConversationRuntime -----------------------
(* Small instances of ConversationRuntime for TLC. *)
EXTENDS ConversationRuntime, TLC

Symmetry == Permutations(Sends) \cup Permutations(AgentTurns)
=============================================================================
