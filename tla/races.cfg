CONSTANTS
    s1 = s1
    s2 = s2
    r1 = r1
    r2 = r2
    a1 = a1
    a2 = a2
    hub = hub
    spoke = spoke
    NoActual = NoActual
    Origin <- MCOrigin
    Destination <- MCDestination
    Base <- MCBase
    RouteIds = {r1}
    AircraftIds = {a1}
    Airports = {hub, spoke}
    Unfit = {}
    DayLen = 4
    WeekLen = 1
    Horizon = 1
    Lead = 1
    Block = 1
    Today = Today
    Slots = {s1, s2}
    Activations <- OneFlight
    Replacements = {}
    Ferries <- MCFerries
    Patches <- MCPatches
    FuelPrices = {1, 2}
    MaxTime = 3
    MaxRequests = 3
    Enabled = {"activate", "complete", "cancel", "finance", "fuel", "crash"}
SPECIFICATION Spec
INVARIANTS
    UniqueFlightIds
    CompletedHasArrived
PROPERTIES
    BooksSpec
SYMMETRY SlotSymmetry
CHECK_DEADLOCK FALSE
