\* Two sends with a cancel, a delete and a warm-up in between.
CONSTANTS
    s1 = s1
    s2 = s2
    w1 = w1
    c1 = c1
    d1 = d1
    NoTurn = NoTurn
    Sends = {s1, s2}
    AgentTurns = {}
    Aborts = {}
    Cancels = {c1}
    Deletes = {d1}
    Warmups = {w1}
    MaxRequests = 2
    MaxSlots = 2
    MaxContinuations = 1
SPECIFICATION Spec
INVARIANTS TypeOK OneTurnAtATime PromptsAlone NoStaleDeleteMark RelayNeverStranded EndIsAnnounced
SYMMETRY Symmetry
CHECK_DEADLOCK FALSE
