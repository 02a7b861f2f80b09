SPECIFICATION Spec
CONSTANTS
    Clients = {c1, c2, c3}
    NoClient = NoClient
    Slots = {s1, s2}
    Queues = {q1, q2}
    MaxParticipants = 2
SYMMETRY Symmetry
CHECK_DEADLOCK FALSE
INVARIANT
    SessionInv
PROPERTY
    ResetsRecover
