CONSTANTS
    hub = hub
    spoke = spoke
    r1 = r1
    a1 = a1
    a2 = a2
    Airports = {hub, spoke}
    Routes = {r1}
    Aircraft = {a1, a2}
    Origin <- MCOrigin
    Destination <- MCDestination
    Zone <- MCZone
    ChangeAt <- MCChangeAt
    Changed <- MCChanged
    Reference <- MCChanged
    Capacity <- MCCapacity
    ClosedAtNight = {spoke}
    Night = {0}
    Block = 1
    DayLen = 4
    WeekLen = 2
    Lead = 1
    Activations <- MCActivations
    Replacements <- MCReplacements
    StartDays = {0, 1}
    MaxTime = 8
    MaxRequests = 3
SPECIFICATION Spec
INVARIANTS
    NightBanKept
PROPERTIES
    HeadroomKept
CHECK_DEADLOCK FALSE
