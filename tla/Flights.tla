------------------------------ MODULE Flights ------------------------------
(***************************************************************************)
(* The pure part of the BFF's operations overlay: what a stored flight is, *)
(* how a schedule turns into flights, how a flight's money is estimated    *)
(* and settled, and how a batch of flights is merged into the document.    *)
(*                                                                         *)
(* Time is a count of ticks; DayLen ticks make a day and WeekLen days a    *)
(* week.  Every airport is on UTC.  Ids the code derives by hashing a seed *)
(* (schedule ids, flight ids) are the seed itself, so two ids are equal    *)
(* exactly when their seeds are; the 32-bit hash's collisions are left     *)
(* out.                                                                    *)
(***************************************************************************)
EXTENDS Naturals, FiniteSets, Sequences

CONSTANTS
    RouteIds,      \* ids of routes a player created
    AircraftIds,   \* the airline's aircraft
    Airports,
    Origin,        \* Origin[r], Destination[r]: the two ends of route r
    Destination,
    Base,          \* Base[a]: the airport aircraft a was delivered to
    Unfit,         \* <<r, a>>: a fails the range, runway or night check on r
    DayLen,        \* ticks in a day
    WeekLen,       \* days in a week
    Horizon,       \* days of flights a schedule generates (14 in the code)
    Lead,          \* ticks before departure at which boarding starts
    Block,         \* ticks from departure to arrival
    NoActual       \* the missing `actual' of a flight that is not settled

ASSUME TimeAssumption ==
    /\ DayLen \in Nat \ {0}
    /\ WeekLen \in Nat \ {0}
    /\ Horizon \in Nat
    /\ Lead \in Nat
    /\ Block \in Nat \ {0}

ASSUME NetworkAssumption ==
    /\ Origin \in [RouteIds -> Airports]
    /\ Destination \in [RouteIds -> Airports]
    /\ Base \in [AircraftIds -> Airports]
    /\ Unfit \subseteq RouteIds \X AircraftIds
    \* A ferry's synthetic route is no route a player created.
    /\ RouteIds \cap (Airports \X Airports) = {}

-----------------------------------------------------------------------------
(* Identities.  A schedule id is its seed; a ferry flight is not part of a *)
(* schedule and carries a random id in its place (`uuid'), on a synthetic  *)
(* route named by its two airports.                                        *)

Legs == {"outbound", "return"}
FlightStatus == {"scheduled", "boarding", "in_flight", "completed", "cancelled"}

FlightId(f) == <<f.sched, f.dep>>

FlightKey(f) == <<f.sched.route, f.sched.aircraft, f.dep>>

Ids(rows) == {FlightId(f) : f \in rows}

IsFerry(f) == f.sched.uuid # 0

Arrival(f) == f.dep + Block

\* The airport a flight lands at.
FlightDestination(f) ==
    IF IsFerry(f) THEN f.sched.route[2]
    ELSE IF f.leg = "return" THEN Origin[f.sched.route]
    ELSE Destination[f.sched.route]

-----------------------------------------------------------------------------
(* Status and position.                                                    *)

CurrentStatus(status, dep, t) ==
    IF status \in {"cancelled", "completed"} THEN status
    ELSE IF t >= dep + Block THEN "completed"
    ELSE IF t >= dep THEN "in_flight"
    ELSE IF t + Lead >= dep THEN "boarding"
    ELSE "scheduled"

Arrived(rows, a, t) ==
    {f \in rows : /\ f.sched.aircraft = a
                  /\ f.status # "cancelled"
                  /\ Arrival(f) <= t}

\* Where aircraft a can be found.  The code sorts the arrived flights by
\* arrival and takes the last; flights that arrive together keep the order of
\* the document, which is not modelled, so each of them may be the last.
AircraftAirports(a, rows, t) ==
    LET arrived == Arrived(rows, a, t)
        last == {f \in arrived : \A g \in arrived : Arrival(g) <= Arrival(f)}
    IN  IF arrived = {} THEN {Base[a]} ELSE {FlightDestination(f) : f \in last}

-----------------------------------------------------------------------------
(* Money.  A financial result is kept by what decides it: the fare, the    *)
(* fuel price, the weekly frequency, and whether the departure noise has   *)
(* been applied.  Two results differ when one of these differs.            *)

Financials(fare, fuel, perWeek) ==
    [fare |-> fare, fuel |-> fuel, perWeek |-> perWeek, noisy |-> FALSE]

ReferenceFare == 0

\* The weekly frequency of a flight's schedule; 3 when the schedule is gone.
PerWeek(id, schedules) ==
    IF id \in DOMAIN schedules THEN Cardinality(id.days) ELSE 3

RecomputeExpected(f, routes, schedules, fuel) ==
    IF f.sched.route \in DOMAIN routes
    THEN [f EXCEPT !.expected =
              Financials(routes[f.sched.route].fare, fuel, PerWeek(f.sched, schedules))]
    ELSE f

\* Mutant of HasDeparted: a flight counts from its boarding on.
HasBoarded(f, t) == f.status # "cancelled" /\ f.dep <= t + Lead

HasDeparted(f, t) == f.status # "cancelled" /\ f.dep <= t

ActualFinancials(f) == [f.expected EXCEPT !.noisy = TRUE]

SettleDeparted(f, t) ==
    IF f.actual = NoActual /\ HasDeparted(f, t)
    THEN [f EXCEPT !.actual = ActualFinancials(f)]
    ELSE f

\* A row as loadOperationsSnapshot hands it to a handler.
LoadFlight(f, routes, schedules, fuel, t) ==
    SettleDeparted(RecomputeExpected(f, routes, schedules, fuel), t)

-----------------------------------------------------------------------------
(* Generation.  The flights of one schedule are indexed in the order the   *)
(* code produces them: day by day, the outbound leg before the return leg. *)
(* A batch is a function on the pairs <<pattern, index>> that survive; the *)
(* code's order of the batch is the lexicographic order of the pairs.      *)

DayOf(t) == t \div DayLen

ScheduleIndices == 1 .. (2 * Horizon)

LegAt(i) == IF i % 2 = 1 THEN "outbound" ELSE "return"

DayAt(id, i) == id.start + (i - 1) \div 2

DepartureAt(id, i) ==
    LET outbound == DayAt(id, i) * DayLen + id.time
    IN  IF LegAt(i) = "outbound" THEN outbound ELSE outbound + Block + id.turnaround

BuildFlight(id, i, expected, t) ==
    [sched    |-> id,
     dep      |-> DepartureAt(id, i),
     leg      |-> LegAt(i),
     status   |-> CurrentStatus("scheduled", DepartureAt(id, i), t),
     expected |-> expected,
     actual   |-> NoActual]

\* Indices of the flights that schedule id generates when created at t.
GeneratedIndices(id, round, t) ==
    {i \in ScheduleIndices : /\ DayAt(id, i) % WeekLen \in id.days
                             /\ LegAt(i) = "return" => round
                             /\ DepartureAt(id, i) >= t}

Before(j, k) == j[1] < k[1] \/ (j[1] = k[1] /\ j[2] < k[2])

-----------------------------------------------------------------------------
(* Writing.                                                                *)

\* Mutant of DedupeGenerated: a key met twice in the batch is kept twice.
DedupeAgainstStoreOnly(current, generated) ==
    {generated[i] : i \in {j \in DOMAIN generated :
        FlightKey(generated[j]) \notin {FlightKey(f) : f \in current}}}

\* Mutant of DedupeGenerated: nothing is filtered against the document.
DedupeInBatchOnly(current, generated) ==
    {generated[i] : i \in {j \in DOMAIN generated :
        \A k \in DOMAIN generated :
            Before(k, j) => FlightKey(generated[k]) # FlightKey(generated[j])}}

\* The generated flights whose (route, aircraft, departure) is new: neither
\* among the current flights nor among those generated before.
DedupeGenerated(current, generated) ==
    {generated[i] : i \in {j \in DOMAIN generated :
        /\ FlightKey(generated[j]) \notin {FlightKey(f) : f \in current}
        /\ \A k \in DOMAIN generated :
               Before(k, j) => FlightKey(generated[k]) # FlightKey(generated[j])}}

\* Mutant of MergeFlights: rows are appended without replacing by id.
AppendFlights(rows, next) == rows \cup next

\* saveFlights: the new rows replace the stored rows with their ids.
MergeFlights(rows, next) ==
    {f \in rows : FlightId(f) \notin Ids(next)} \cup next

-----------------------------------------------------------------------------
(* What the modules that use this one say of a set of rows.                *)

UniqueIds(rows) ==
    \A f, g \in rows : FlightId(f) = FlightId(g) => f = g
=============================================================================
