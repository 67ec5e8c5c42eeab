SPECIFICATION Spec
CONSTANTS
    low = low
    curfew = curfew
    runway = runway
    k1 = k1
    k2 = k2
    k3 = k3
    s1 = s1
    s2 = s2
    Slots = {s1, s2}
    Conditions = {low, curfew, runway}
    Key <- MCKey
    PlainKey <- MCPlainKey
    Keep = 1
    MaxRequests = 3
    MaxChanges = 1
    MaxCrashes = 1
SYMMETRY NotesSymmetry
INVARIANTS
    TypeOK
    OneCheckPerKey
    WarningsAnnounced
CHECK_DEADLOCK FALSE
