SPECIFICATION Spec
CONSTANTS
    Clients = {c1, c2}
    NoClient = none
    MaxPages = 2
    PerPage = 2
    MaxGeneration = 3
    Blocks = {b1, b2}
    NoBlock = nob
    Tokens = {t1, t2}
    NoToken = notok
    Capacity = 2
    MaxReferences = 3
SYMMETRY Symmetry
CHECK_DEADLOCK FALSE
INVARIANT
    StorageExact
PROPERTY
    HandlesFresh
