SPECIFICATION Spec
CONSTANTS
    TR = TR
    LTFM = LTFM
    LTFJ = LTFJ
    A20N = A20N
    None = None
    Keys = {TR, LTFM, LTFJ, A20N}
    Kind <- MCKind
    Deps <- MCDeps
    Order <- MCOrder
    SourceCode <- MCSourceCode
    MaxAtOnce = 2
    MaxRelease = 2
    MaxImports = 2
    MaxAdminChanges = 1
    MaxWorldFaults = 1
INVARIANTS
    ImportTypeOK
    NoBlindPost
    SucceededIsComplete
    ViewKeepsUp
PROPERTIES
    ReimportIsIdle
CHECK_DEADLOCK FALSE
