SPECIFICATION Spec
CONSTANTS
    s1 = s1
    s2 = s2
    h1 = h1
    h2 = h2
    h3 = h3
    t1 = t1
    t2 = t2
    f1 = f1
    Slots = {s1, s2}
    Airports = {h1, h2, h3}
    Tails = {t1, t2}
    ForeignTails = {t2}
    Flights = {f1}
    FlightResult <- MCFlightResult
    HubFee <- MCHubFee
    Price = 1
    AnalysisFee = 2
    Amounts <- MCAmounts
    Opening = 3
    MaxRequests = 3
    MaxFailures = 2
    MaxRestarts = 1
SYMMETRY MCSymmetry
INVARIANTS
    TypeOK
    HubsPaid
    Conserved
    OverdraftBounded
CHECK_DEADLOCK FALSE
