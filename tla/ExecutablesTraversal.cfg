INIT ExecutablesInit
NEXT ExecutablesNext
CONSTANTS
    Threads = {t1}
    Execs = {e1}
    Images = {i1, i2}
    Agents = {g1}
    Addresses = {1, 2}
    KernelNames = {"k", "l"}
    MaxEpochs = 1
INVARIANT TraversedListStands
CHECK_DEADLOCK FALSE
