SPECIFICATION MCSpec
CONSTANTS
    Signals = {s1, s2}
    Values = {0, 1, 2, 3}
    Ops <- MCOps
    Effect <- MCEffect
    MaxBatch = 2
    NoCall = NoCall
    Zero = 0
    MaxSequence = 2
    Streams = 2
    Buffers = 1
    Radix = 3
    MaxFence = 3
    MaxBOGen = 1
CHECK_DEADLOCK FALSE
INVARIANTS
    MailboxSafe
    CompletionHonest
PROPERTIES
    ImplementsAtomicUpdates
    ResultsLatched
