\* Agent turns of a team whose event loop may be aborted, with a cancel.
CONSTANTS
    a1 = a1
    a2 = a2
    c1 = c1
    d1 = d1
    NoTurn = NoTurn
    Sends = {}
    AgentTurns = {a1, a2}
    Aborts = {a1}
    Cancels = {c1}
    Deletes = {d1}
    Warmups = {}
    MaxRequests = 1
    MaxSlots = 2
    MaxContinuations = 1
SPECIFICATION Spec
PROPERTIES PortSpec CancelledTurnsEnd
CHECK_DEADLOCK FALSE
