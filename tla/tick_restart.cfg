SPECIFICATION FairWorldSpec
CONSTANTS
    Period <- MCPeriod
    Start = 0
    ProduceMissedEvents = TRUE
    MaxClock = 3
    MaxTickFaults = 1
    StartPrice = 0
    Wobble = 1
    Draws <- MCDraws
    MaxFuelFaults = 0
PROPERTY
    MissedEventsProduced
CHECK_DEADLOCK FALSE
