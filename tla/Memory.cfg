INIT MCInit
NEXT MCNext
CONSTANTS
    Base = 1
    Size = 11
    Requests = {1, 2, 3}
    Alignments = {1, 2, 4}
    MaxAllocations = 4
    MaxAddress = 12
    Callers = {u1, u2}
    Objects = {1, 2}
    Jobs = {j1}
    Pages = {1, 2}
    Kinds = {"device"}
    Reservable = {{1, 2}}
    GPUs = {g1, g2}
    MaxSessions = 2
    Threads = {t1, t2}
    Execs = {e1, e2}
    Images = {i1, i2}
    Agents = {g1, g2}
    Addresses = {1}
    KernelNames = {"k"}
    MaxEpochs = 2
    Buffers = {"a", "b"}
    GPUNames = {"g1", "g2"}
    Length = 5
    Staging = 2
    MaxCopy = 3
    HostPages = {1, 2, 3}
    MaxRanges = 3
    Dword = 3
    ChunkBytes = 6
    BufferBytes = 15
    Peers = {p1, p2, p3}
    Processes = {"p1", "p2"}
    SharedHandles = {"a", "b"}
    MaxBytes = 4
    MaxDepth = 2
    MaxNodes = 5
    Limit = 8
    MaxImage = 6
    Page = 2
    Descriptor = 2
    Instruction = 2
    Word = 1
    Workloads = {"c1", "c2"}
    MaxSamples = 2
    FieldValues = 8
    FileSizes = {0, 1, 2, 3, 4, 5, 6}
    MaxPayloads = 16
    MaxBinary = 8
    MaxDies = 2
    MaxRecords = 2
SYMMETRY Symmetry
INVARIANTS
    PoolExact
    CopyPinsStorage
    AllocationsKnown
    QueriesUnambiguous
    RunsOwnCode
    CopyIsMemmove
    WiredExactly
    TransferExact
    RetiredStaysRetired
    OneInitializer
    QueueBackingMapped
    CodeObjectsSound
    SampleNotTorn
    PayloadsExact
    DiscoveryInBounds
CHECK_DEADLOCK FALSE
