SPECIFICATION MCSpec
CONSTANTS
    Clients = {c1, c2}
    NoClient = NoClient
    Slots = {b1, b2}
    Queues = {q1}
    MaxParticipants = 2
    Signals = {s1}
    Values = {0, 1, 2, 3}
    Ops <- MCOps
    Effect <- MCEffect
    MaxBatch = 2
    NoCall = NoCall
    Zero = 0
    MaxSequence = 2
CHECK_DEADLOCK FALSE
PROPERTIES
    StopsComplete
    MailboxLive
