SPECIFICATION FairSpec
CONSTANTS
    TR = TR
    LTFM = LTFM
    LTFJ = LTFJ
    A20N = A20N
    None = None
    Keys = {TR, LTFM, LTFJ, A20N}
    Kind <- MCKind
    Deps <- MCDeps
    Order <- MCOrder
    SourceCode <- MCSourceCode
    MaxAtOnce = 1
    MaxRelease = 1
    MaxImports = 1
    MaxAdminChanges = 1
    MaxWorldFaults = 0
PROPERTY
    DeletedLeavesView
CHECK_DEADLOCK FALSE
