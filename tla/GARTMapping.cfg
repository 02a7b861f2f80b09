SPECIFICATION Spec
CONSTANTS
    Size = 5
    Bases = {1, 4}
    FirstBase = 1
    Requests = {1, 2}
    Alignments = {1, 2}
    Capacity = 3
    MaxID = 4
    Buffers = {m1, m2, m3}
    Objects = {o1, o2}
    Test = test
    Hubs = 2
    None = none
SYMMETRY Symmetry
INVARIANTS
    MappingsExact
    FindExact
