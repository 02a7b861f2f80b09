SPECIFICATION Spec
CONSTANTS
    Streams = 2
    Buffers = 2
    Radix = 3
    MaxFence = 3
    MaxBOGen = 2
INVARIANT BOHandlesFallBack
