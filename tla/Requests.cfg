CONSTANTS
    lead = lead
    w1 = w1
    q1 = q1
    u1 = u1
    Lead = lead
    Slots = {lead, w1}
    Reservations = {lead, w1}
    NoChild = NoChild
    NoReservation = NoReservation
    UserSends = {u1}
    ToolSends = {q1}
    RunCancels = {q1}
    ChildCancels = {q1}
    MaxRuns = 1
    MaxTurns = 3
    MaxWakes = 6
    MaxRows = 6
    MaxRestarts = 0
    MaxFaults = 1
SPECIFICATION Spec
INVARIANT TrackedWorkIsLive
INVARIANT CancelReachesTurns
INVARIANT CompletesAfterTurns
