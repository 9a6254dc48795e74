\* A send swallowed by the cancelling mark of an earlier turn.
CONSTANTS
    s1 = s1
    s2 = s2
    c1 = c1
    NoTurn = NoTurn
    Sends = {s1, s2}
    AgentTurns = {}
    Aborts = {}
    Cancels = {c1}
    Deletes = {}
    Warmups = {}
    MaxRequests = 1
    MaxSlots = 2
    MaxContinuations = 1
SPECIFICATION Spec
INVARIANT AcceptedSendsAreStored
CHECK_DEADLOCK FALSE
