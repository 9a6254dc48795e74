SPECIFICATION Spec
CONSTANTS
    Messages = {m1, m2}
    Admins = {a1, a2}
    MaxMessages = 3
    MaxAdmin = 3
    MaxCuts = 1
SYMMETRY Symmetry
INVARIANTS
    TypeOK
    PairingHolds
    OneConversation
PROPERTIES
    OnlyAuthorizedReachAgent
CHECK_DEADLOCK FALSE
