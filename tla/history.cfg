CONSTANTS
    s1 = s1
    s2 = s2
    r1 = r1
    r2 = r2
    a1 = a1
    a2 = a2
    hub = hub
    spoke = spoke
    NoActual = NoActual
    Origin <- MCOrigin
    Destination <- MCDestination
    Base <- MCBase
    RouteIds = {r1, r2}
    AircraftIds = {a1}
    Airports = {hub, spoke}
    Unfit = {}
    DayLen = 4
    WeekLen = 2
    Horizon = 2
    Lead = 1
    Block = 3
    Today = Today
    Slots = {s1}
    Activations <- MCActivations
    Replacements <- MCReplacements
    Ferries <- MCFerries
    Patches <- MCPatches
    FuelPrices = {1}
    MaxTime = 6
    MaxRequests = 4
    Enabled = {"activate", "replace", "complete", "cancel", "ferry", "patch", "delete"}
SPECIFICATION Spec
INVARIANTS
    TypeOK
    NothingWithoutRoute
    NoScheduleOverlap
    DistinctDepartures
    NoGhostFlights
    ScheduleCovered
    UniqueCopies
PROPERTIES
    CompletedIsFinal
    ActualIsFinal
    HistoryIsKept
CHECK_DEADLOCK FALSE
