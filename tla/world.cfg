SPECIFICATION FairWorldSpec
CONSTANTS
    Period <- MCPeriod
    Start = 0
    ProduceMissedEvents = TRUE
    MaxClock = 5
    MaxTickFaults = 1
    StartPrice = 0
    Wobble = 1
    Draws <- MCDraws
    MaxFuelFaults = 1
INVARIANTS
    WorldTypeOK
    NoTickSkipped
    DuplicatesBounded
    PricesWalk
    TicksPriced
PROPERTIES
    HoursReachClients
CHECK_DEADLOCK FALSE
