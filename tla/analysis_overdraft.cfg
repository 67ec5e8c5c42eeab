SPECIFICATION Spec
CONSTANTS
    s1 = s1
    s2 = s2
    h1 = h1
    h2 = h2
    h3 = h3
    t1 = t1
    t2 = t2
    f1 = f1
    Slots = {s1}
    Airports = {h1}
    Tails = {t1}
    ForeignTails = {}
    Flights = {f1}
    FlightResult <- MCFlightResult
    HubFee <- MCHubFee
    Price = 3
    AnalysisFee = 4
    Amounts = {}
    Opening = 1
    MaxRequests = 2
    MaxFailures = 0
    MaxRestarts = 0
PROPERTY
    AnalysesAfforded
CHECK_DEADLOCK FALSE
