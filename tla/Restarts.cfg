CONSTANTS
    lead = lead
    w1 = w1
    u1 = u1
    u2 = u2
    Lead = lead
    Slots = {lead, w1}
    Reservations = {lead, w1}
    NoChild = NoChild
    NoReservation = NoReservation
    MaxRuns = 2
    MaxTurns = 3
    MaxWakes = 6
    UserSends = {u1, u2}
    ToolSends = {}
    RunCancels = {}
    ChildCancels = {}
    MaxRows = 6
    MaxRestarts = 1
    MaxFaults = 0
SPECIFICATION Spec
SYMMETRY Symmetry
INVARIANT TypeOK
INVARIANT PromptedOnce
INVARIANT TrackedWorkIsLive
INVARIANT CompletesAfterTurns
INVARIANT NoStrandedWake
INVARIANT ActiveRunIsDriven
