------------------------------ MODULE Headroom ------------------------------
(***************************************************************************)
(* Runway slots and night bans.  An airport takes so many runway uses a    *)
(* day, and some are closed at night.  Before a weekly pattern becomes     *)
(* active, the planner works out when it will use both airports and adds   *)
(* that to a summary of what is planned already; the flights are generated *)
(* and stored elsewhere, one by one, and completed and cancelled one by    *)
(* one.                                                                    *)
(*                                                                         *)
(* Time is a count of ticks in UTC.  The clocks of an airport are ahead of  *)
(* it by a number of ticks that changes once, as they do in spring or in   *)
(* autumn.  Flights are stored at the instants that the clocks of their    *)
(* own dates give; the planner works with the clocks of one reference date *)
(* for all of them.  The requests are served one at a time; what           *)
(* overlapping ones do to each other is the subject of Operations.         *)
(***************************************************************************)
EXTENDS Integers, FiniteSets, Sequences

CONSTANTS
    Airports,
    Routes,
    Aircraft,
    Origin,        \* Origin[r], Destination[r]: the two ends of route r
    Destination,
    Zone,          \* ticks the local time of an airport is ahead of UTC
    ChangeAt,      \* the instant from which on
    Changed,       \* it is ahead by that many ticks instead
    Reference,     \* and the ticks it was ahead on 1 June 2026
    Capacity,      \* max_runway_uses_per_day, 0 when it is not known
    ClosedAtNight, \* airports with works_at_night = false
    Night,         \* the times of day between 23:00 and 06:00
    Block,         \* ticks in the air
    DayLen,        \* ticks in a day
    WeekLen,       \* days in a week
    Lead,          \* ticks before departure at which boarding starts
    Activations,   \* bodies of POST /operations/schedules
    Replacements,  \* bodies of PUT /operations/schedules
    StartDays,     \* values of starts_on
    MaxTime,       \* bound on the clock
    MaxRequests    \* bound on the number of requests

VARIABLES
    now,           \* the wall clock
    schedules,     \* the schedules document
    flights,       \* the flights document
    served         \* how many requests were served

vars == <<now, schedules, flights, served>>

Days == 0 .. (WeekLen - 1)

Week == WeekLen * DayLen

Patterns == [route : Routes, time : 0 .. (DayLen - 1), days : SUBSET Days, turn : Nat]

ASSUME HeadroomAssumption ==
    /\ Origin \in [Routes -> Airports]
    /\ Destination \in [Routes -> Airports]
    /\ \A r \in Routes : Origin[r] # Destination[r]
    /\ Zone \in [Airports -> Int]
    /\ Changed \in [Airports -> Int]
    /\ Reference \in [Airports -> Int]
    /\ ChangeAt \in [Airports -> Int]
    /\ \A a \in Airports : Changed[a] - Zone[a] \in (1 - DayLen) .. (DayLen - 1)
    /\ Capacity \in [Airports -> Nat]
    /\ Night \subseteq 0 .. (DayLen - 1)
    /\ Block \in Nat
    /\ DayLen \in Nat \ {0}
    /\ WeekLen \in Nat \ {0, 1}
    /\ \A b \in Activations \cup Replacements :
           b.aircraft \in Aircraft /\ b.patterns \in Seq(Patterns) /\ b.round \in BOOLEAN
    /\ \A b \in Activations : Len(b.patterns) = 1
    /\ StartDays \subseteq Int
    /\ MaxTime \in Nat

-----------------------------------------------------------------------------
(* Local time.                                                             *)

\* zoneOffsetMs
Offset(a, t) == IF t < ChangeAt[a] THEN Zone[a] ELSE Changed[a]

LocalDay(a, t) == (t + Offset(a, t)) \div DayLen

LocalTime(a, t) == (t + Offset(a, t)) % DayLen

Weekday(day) == day % WeekLen

\* zonedWallTimeToUtc: the offset is read at the wall time taken for UTC.
WallTimeToUtc(a, wall) == wall - Offset(a, wall)

\* addMinutesToLocalTime, as days and a time of day.
AddTicks(time, ticks) == [day |-> (time + ticks) \div DayLen, time |-> (time + ticks) % DayLen]

\* arrivalLocalDayOffset and arrivalLocalTime, on the reference date.
ArrivalLocal(time, from, to) == AddTicks(time, Block - Reference[from] + Reference[to])

-----------------------------------------------------------------------------
(* What the planner expects of one operating day of a pattern: four runway *)
(* uses, each at an airport, so many days later, and at a local time.      *)

Use(leg, airport, day, time) == [leg |-> leg, at |-> airport, day |-> day, time |-> time]

PlannedUses(p) ==
    LET o == Origin[p.route]
        d == Destination[p.route]
        there == ArrivalLocal(p.time, o, d)
        back == AddTicks(there.time, p.turn)
        home == ArrivalLocal(back.time, d, o)
    IN  {Use("departure", o, 0, p.time),
         Use("arrival", d, there.day, there.time),
         Use("return departure", d, there.day + back.day, back.time),
         Use("return arrival", o, there.day + back.day + home.day, home.time)}

ProjectedUses(p, a, d) ==
    Cardinality({u \in PlannedUses(p) :
                     u.at = a /\ \E k \in p.days : Weekday(k + u.day) = d})

-----------------------------------------------------------------------------
(* What is planned already.  view is a handler's snapshot of the two       *)
(* documents.                                                              *)

IsPlannedFlight(f) == f.status \notin {"cancelled", "completed"}

\* Of each schedule, the planned flights of the first seven days.
RepresentativeWeek(rows) ==
    LET planned == {f \in rows : IsPlannedFlight(f)}
    IN  {f \in planned : \A g \in planned : g.sched = f.sched => f.dep < g.dep + Week}

\* addScheduleUses: an active schedule without flights counts once a day.
ScheduleUses(view, a, d) ==
    Cardinality({s \in view.schedules :
        /\ s.status = "active"
        /\ \A f \in view.flights : f.sched # s.id
        /\ a \in {Origin[s.id.pattern.route], Destination[s.id.pattern.route]}
        /\ d \in s.id.pattern.days})

\* Mutant of MaterializedUses: arrivals are not counted.
DepartureUses(rows, a, d) ==
    Cardinality({f \in rows : f.from = a /\ Weekday(LocalDay(a, f.dep)) = d})

\* addMaterializedFlightUses
MaterializedUses(rows, a, d) ==
    Cardinality({f \in rows : f.from = a /\ Weekday(LocalDay(a, f.dep)) = d})
    + Cardinality({f \in rows : f.to = a /\ Weekday(LocalDay(a, f.arr)) = d})

PlannedUsesOf(view, a, d) ==
    ScheduleUses(view, a, d) + MaterializedUses(RepresentativeWeek(view.flights), a, d)

CapacityExceeded(view, p, a) ==
    /\ Capacity[a] > 0
    /\ \E d \in Days : PlannedUsesOf(view, a, d) + ProjectedUses(p, a, d) > Capacity[a]

\* Mutant of NightProhibited: the arrival is compared in the time of the origin.
NightAtOrigin(p) ==
    \E u \in PlannedUses(p) :
        /\ u.at \in ClosedAtNight
        /\ (IF u.leg = "arrival" THEN (p.time + Block) % DayLen ELSE u.time) \in Night

NightProhibited(p) == \E u \in PlannedUses(p) : u.at \in ClosedAtNight /\ u.time \in Night

HasConflict(view, aircraft, p) ==
    \E s \in view.schedules :
        /\ s.status = "active"
        /\ s.id.aircraft = aircraft
        /\ s.id.pattern.time = p.time
        /\ s.id.pattern.days \cap p.days # {}

-----------------------------------------------------------------------------
(* Schedules and their flights.                                            *)

ScheduleId(aircraft, p, start) == [aircraft |-> aircraft, pattern |-> p, start |-> start]

StatusAt(dep, t) ==
    IF t >= dep THEN "in_flight" ELSE IF t + Lead >= dep THEN "boarding" ELSE "scheduled"

Flight(id, from, to, dep, t) ==
    [sched |-> id, from |-> from, to |-> to, dep |-> dep, arr |-> dep + Block,
     status |-> StatusAt(dep, t)]

\* The flights of a schedule are indexed in the order they are generated: day
\* by day for two weeks, the outbound leg, at its local time on that date,
\* before the return leg, a turnaround after the arrival.
ScheduleDay(id, i) == id.start + (i - 1) \div 2

ScheduleFlight(id, i, t) ==
    LET p == id.pattern
        o == Origin[p.route]
        d == Destination[p.route]
        outbound == Flight(id, o, d, WallTimeToUtc(o, ScheduleDay(id, i) * DayLen + p.time), t)
    IN  IF i % 2 = 1 THEN outbound ELSE Flight(id, d, o, outbound.arr + p.turn, t)

GeneratedIndices(id, round) ==
    {i \in 1 .. (4 * WeekLen) : /\ Weekday(ScheduleDay(id, i)) \in id.pattern.days
                                /\ (i % 2 = 0 => round)}

\* The flights of the n-th pattern of a request, each at its position among
\* all that the request generates.
GenerateFlights(n, id, round, t) ==
    {[at |-> <<n, i>>, flight |-> ScheduleFlight(id, i, t)] : i \in GeneratedIndices(id, round)}

Before(j, k) == j[1] < k[1] \/ (j[1] = k[1] /\ j[2] < k[2])

FlightKey(f) == <<f.sched.pattern.route, f.sched.aircraft, f.dep>>

\* dedupeGeneratedFlights: the first row of a key stays, unless the key is
\* among the current flights.
Dedupe(current, rows) ==
    {r.flight : r \in {r \in rows :
        /\ \A f \in current : FlightKey(f) # FlightKey(r.flight)
        /\ \A q \in rows : Before(q.at, r.at) => FlightKey(q.flight) # FlightKey(r.flight)}}

FlightId(f) == <<f.sched, f.dep>>

MergeFlights(rows, new) ==
    {f \in rows : \A g \in new : FlightId(g) # FlightId(f)} \cup new

Schedule(id, active) == [id |-> id, status |-> IF active THEN "active" ELSE "draft"]

\* Nothing blocks the pattern.  Range, runway, position and the route's status
\* are left open: they are what fits says.
CanActivate(view, aircraft, p, fits) ==
    /\ fits
    /\ ~HasConflict(view, aircraft, p)
    /\ ~NightProhibited(p)
    /\ \A a \in {Origin[p.route], Destination[p.route]} : ~CapacityExceeded(view, p, a)

\* The snapshot after the n-th pattern was placed, and what has to be saved;
\* flights that have departed already are left out.
Place(plan, n, body, start, fits, t) ==
    LET id == ScheduleId(body.aircraft, body.patterns[n], start)
        active == CanActivate(plan.view, body.aircraft, body.patterns[n], fits)
        rows == {r \in GenerateFlights(n, id, body.round, t) : active /\ r.flight.dep >= t}
        schedule == {Schedule(id, active)}
    IN  [view |-> [schedules |-> plan.view.schedules \cup schedule,
                   flights |-> plan.view.flights \cup {r.flight : r \in rows}],
         schedules |-> plan.schedules \cup schedule,
         rows |-> plan.rows \cup rows]

Plan(view) == [view |-> view, schedules |-> {}, rows |-> {}]

\* The patterns of a body one after the other, each checked against the view
\* and against the patterns placed before it; fits has those that fit.
PlaceAll(view, body, start, fits, t) ==
    LET plan[n \in 0 .. Len(body.patterns)] ==
            IF n = 0 THEN Plan(view)
            ELSE Place(plan[n - 1], n, body, start, n \in fits, t)
    IN  plan[Len(body.patterns)]

SaveSchedules(doc, new) == {s \in doc : \A n \in new : n.id # s.id} \cup new

-----------------------------------------------------------------------------
(* Requests.                                                               *)

Serve == served < MaxRequests /\ served' = served + 1

\* POST /operations/schedules
Activate ==
    /\ Serve
    /\ \E b \in Activations, start \in StartDays, fits \in SUBSET {1} :
           LET view == [schedules |-> schedules, flights |-> flights]
               plan == PlaceAll(view, b, start, fits, now)
           IN  /\ schedules' = SaveSchedules(schedules, plan.schedules)
               /\ flights' = MergeFlights(flights, Dedupe(flights, plan.rows))
    /\ UNCHANGED now

\* The rows of an aircraft that a rebuilt week sets aside.
IsFuture(f, aircraft) == f.sched.aircraft = aircraft /\ f.status = "scheduled"

\* PUT /operations/schedules
Replace ==
    /\ Serve
    /\ \E b \in Replacements : \E fits \in SUBSET DOMAIN b.patterns :
           LET others == {s \in schedules : s.id.aircraft # b.aircraft}
               removed == {s.id : s \in schedules \ others}
               kept == {f \in flights : ~IsFuture(f, b.aircraft)}
               view == [schedules |-> others, flights |-> kept]
               plan == PlaceAll(view, b, now \div DayLen, fits, now)
               left == {f \in flights : ~(f.sched \in removed /\ f.status = "scheduled")}
           IN  /\ schedules' = SaveSchedules(others, plan.schedules)
               /\ flights' = MergeFlights(left, Dedupe(kept, plan.rows))
    /\ UNCHANGED now

WithStatus(f, status) == (flights \ {f}) \cup {[f EXCEPT !.status = status]}

\* POST /operations/flights/:id/complete
Complete ==
    /\ Serve
    /\ \E f \in flights :
           /\ f.status = "completed" \/ f.arr <= now
           /\ flights' = WithStatus(f, "completed")
    /\ UNCHANGED <<now, schedules>>

\* POST /operations/flights/:id/cancel
Cancel ==
    /\ Serve
    /\ \E f \in flights :
           /\ IsPlannedFlight(f)
           /\ flights' = WithStatus(f, "cancelled")
    /\ UNCHANGED <<now, schedules>>

Tick ==
    /\ now < MaxTime
    /\ now' = now + 1
    /\ UNCHANGED <<schedules, flights, served>>

Init ==
    /\ now = 0
    /\ schedules = {}
    /\ flights = {}
    /\ served = 0

Next == Activate \/ Replace \/ Complete \/ Cancel \/ Tick

Spec == Init /\ [][Next]_vars

-----------------------------------------------------------------------------
(* What must hold.                                                         *)

Departing(rows, a, day) ==
    {f \in rows : IsPlannedFlight(f) /\ f.from = a /\ LocalDay(a, f.dep) = day}

Landing(rows, a, day) ==
    {f \in rows : IsPlannedFlight(f) /\ f.to = a /\ LocalDay(a, f.arr) = day}

Movements(rows, a, day) ==
    Cardinality(Departing(rows, a, day)) + Cardinality(Landing(rows, a, day))

\* The flights of the first week of its schedule that could stand for f.
Likes(f) ==
    {g \in RepresentativeWeek(flights) :
         g.sched = f.sched /\ g.from = f.from /\ (f.dep - g.dep) % Week = 0}

\* A movement on that date that the summary of its weekday does not show.
HiddenOn(a, day) ==
    \/ \E f \in Departing(flights, a, day) :
           \A g \in Likes(f) : Weekday(LocalDay(a, g.dep)) # Weekday(day)
    \/ \E f \in Landing(flights, a, day) :
           \A g \in Likes(f) : Weekday(LocalDay(a, g.arr)) # Weekday(day)

\* The instant at which the outbound leg of f's operating day departs.
OutboundDep(f) ==
    IF f.from = Origin[f.sched.pattern.route] THEN f.dep
    ELSE f.dep - f.sched.pattern.turn - Block

\* When f departs and lands, the clocks of its two ends show what the planner
\* takes them to show, and so did those of the origin at the wall time of the
\* operating day's first departure.
OnPlannersClocks(f) ==
    LET o == Origin[f.sched.pattern.route]
    IN  /\ Offset(f.from, f.dep) = Reference[f.from]
        /\ Offset(f.to, f.arr) = Reference[f.to]
        /\ \A z \in {Zone[o], Changed[o]} : Offset(o, OutboundDep(f) + z) = Reference[o]

\* A new movement on that date under clocks that the planner did not reckon with.
MisplannedOn(a, day) ==
    \E f \in Departing(flights' \ flights, a, day) \cup Landing(flights' \ flights, a, day) :
        ~OnPlannersClocks(f)

\* The dates the instance can reach.
Dates == 0 .. (MaxTime \div DayLen + 2 * WeekLen + 4)

\* No activation takes an airport above its capacity on any date
\* (docs/bff.md:345, slots.ts:38), although only a week is looked at, with two
\* exceptions.  The summary shows less than moves on the date: a flight of that
\* date has been left without one that stands for it in its schedule's first
\* week, which was cancelled or completed out of order, or the clocks have
\* changed between the two.  Or the activation places a flight there that flies
\* under other clocks than the planner's.  (A replaced week opens such a hole
\* itself, and places its next pattern into it.)
HeadroomKept ==
    [][\A a \in Airports, day \in Dates :
           /\ Capacity[a] > 0
           /\ Movements(flights', a, day) > Capacity[a]
           /\ Movements(flights', a, day) > Movements(flights, a, day)
           /\ Activate
           => HiddenOn(a, day) \/ MisplannedOn(a, day)]_vars

\* A flight departs or arrives at night where that is prohibited only while the
\* clocks of one of its ends are not those of the reference date: otherwise the
\* local times the planner has checked, four for each operating day, are those
\* of the flights (planning.ts:134, flights.ts:226).
NightBanKept ==
    \A f \in flights : OnPlannersClocks(f) =>
        /\ f.from \in ClosedAtNight => LocalTime(f.from, f.dep) \notin Night
        /\ f.to \in ClosedAtNight => LocalTime(f.to, f.arr) \notin Night
=============================================================================
