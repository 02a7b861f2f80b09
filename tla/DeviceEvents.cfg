SPECIFICATION MCSpec
CONSTANTS
    Entries = 4
    Events = {"eop", "trap"}
    MaxWritten = 5
    Producers = {p1, p2}
    Packets = 2
    MaxIndex = 3
INVARIANTS
    NoLostWakeup
    QueueMemoryHeld
PROPERTIES
    InterruptsLive
    WritePointerAdvances
    PacketsExecuted
CHECK_DEADLOCK FALSE
