SPECIFICATION AdminSpec
CONSTANTS
    A20N = A20N
    B738 = B738
    first = first
    second = second
    Sockets = {}
    Readers = {first, second}
    Types = {A20N, B738}
    TypeOrder <- MCTypeOrder
    MaxJobs = 2
    MaxRevision = 3
    MaxVisits = 0
    MaxVersion = 1
    MaxOverrides = 2
INVARIANTS
    ReadsSeeWrites
    OverridesLast
SYMMETRY MCSymmetry
CHECK_DEADLOCK FALSE
