SPECIFICATION Spec
CONSTANTS
    Requests = {r1, r2}
    Boot = boot
    Pollers = {p1, p2}
    MaxRequests = 2
    MaxUpdates = 1
    MaxErrors = 2
    MaxFaults = 1
    MaxRestarts = 1
INVARIANTS
    TypeOK
    OneConnection
    NothingSkipped
PROPERTIES
    UpdatesArrive
CHECK_DEADLOCK FALSE
