SPECIFICATION Spec
CONSTANTS
    Agents = {a1, a2}
    Tasks = {k1, k2, k3}
    Statuses = {"pending", "completed"}
    MaxUpsets = 1
SYMMETRY Symmetry
INVARIANTS
    TypeOK
    LinksMirrored
    CompletionUnblocks
PROPERTIES
    ReleasedByCompletion
