CONSTANTS
    s1 = s1
    s2 = s2
    r1 = r1
    r2 = r2
    Slots = {s1, s2}
    Reservations = {r1, r2}
    MaxRuns = 2
    MaxTurns = 2
    MaxWakes = 2
    NoChild = NoChild
    NoReservation = NoReservation
SPECIFICATION MgrSpec
SYMMETRY Symmetry
INVARIANT MgrTypeOK
INVARIANT TracksOwnRun
INVARIANT CancelFreezesRun
INVARIANT EndedRunsHaveOutcome
PROPERTY ImplementsRunLifecycle
