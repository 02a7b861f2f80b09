INIT IPCInit
NEXT IPCNext
CONSTANTS
    Peers = {p1, p2}
INVARIANT NoRevival
CHECK_DEADLOCK FALSE
