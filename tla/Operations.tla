---------------------------- MODULE Operations ----------------------------
(***************************************************************************)
(* The BFF's operations and finance overlay as concurrent requests over    *)
(* four JSON documents: routes, schedules, flights and ledger.             *)
(*                                                                         *)
(* The BFF is one event loop.  A request handler runs without interruption *)
(* from one `await' to the next, and between two awaits any other handler  *)
(* may run.  A storage function is called and reaches the database in the  *)
(* same turn, except those of routes/storage.ts, which await between their *)
(* read and their write.  Each slot of Slots is one request being served;  *)
(* pc[s] names the await it is suspended on.  A document is written whole  *)
(* and atomically; a crash loses the requests and keeps the documents.     *)
(***************************************************************************)
EXTENDS Flights

CONSTANTS
    Slots,          \* requests that can be in progress at once
    Activations,    \* bodies of POST /operations/schedules
    Replacements,   \* bodies of PUT /operations/schedules
    Ferries,        \* bodies of POST /operations/ferry-flights
    Patches,        \* bodies of PATCH /routes/:id
    FuelPrices,     \* the fuel prices the market moves between
    Today,          \* stands for a starts_on the body leaves out
    Enabled,        \* the kinds of request, and of event, that happen
    MaxTime,        \* bound on the clock
    MaxRequests     \* bound on the number of requests other than finance reads

VARIABLES
    now,            \* the wall clock
    fuel,           \* the current fuel unit price
    routes,         \* the routes document: a function from ids to routes
    schedules,      \* the schedules document: a function from ids to schedules
    flights,        \* the flights document: a set of rows
    ledger,         \* the ledger's flight settlements
    pc,             \* the await each slot is suspended on
    req,            \* the request each slot serves
    snap,           \* the snapshot its handler loaded
    work,           \* the writes its handler has still to make
    since,          \* when that request was accepted
    served,         \* how many requests were started
    uuids           \* how many random ids were drawn

store == <<routes, schedules, flights, ledger>>
local == <<pc, req, snap, work, since>>
env == <<now, fuel, served, uuids>>
vars == <<now, fuel, routes, schedules, flights, ledger,
          pc, req, snap, work, since, served, uuids>>

Kinds == {"activate", "replace", "complete", "cancel", "ferry",
          "finance", "patch", "delete", "fuel", "crash"}

RouteStatus == {"draft", "awaiting_schedule", "scheduled", "active", "paused"}

Days == 0 .. (WeekLen - 1)

Patterns == [route : RouteIds, time : Nat, days : SUBSET Days,
             turnaround : Nat, starts : Nat \cup {Today}]
ScheduleBodies == [aircraft : AircraftIds, patterns : Seq(Patterns), round : BOOLEAN]

ASSUME OperationsAssumption ==
    /\ Activations \subseteq ScheduleBodies
    /\ Replacements \subseteq ScheduleBodies
    /\ \A r \in Replacements : \A i \in DOMAIN r.patterns : r.patterns[i].starts = Today
    /\ Ferries \subseteq [aircraft : AircraftIds, to : Airports, dep : Nat]
    /\ \A p \in Patches : /\ "status" \in DOMAIN p => p.status \in RouteStatus
                          /\ "fare" \in DOMAIN p => p.fare \in Nat
    /\ Enabled \subseteq Kinds
    /\ MaxTime \in Nat
    /\ MaxRequests \in Nat
    /\ FuelPrices # {}

EmptyDoc == [x \in {} |-> x]
NoRequest == [patterns |-> <<>>]
NoSnapshot == [routes |-> EmptyDoc, schedules |-> EmptyDoc, flights |-> {}]

\* The writes a handler has still to make: schedules to save, schedules whose
\* future flights go, flight rows to save or to book, routes to save.
Writes(planned, removed, rows, saves) ==
    [schedules |-> planned, removed |-> removed, rows |-> rows,
     saves |-> saves, copy |-> EmptyDoc]

NoWork == Writes(EmptyDoc, {}, {}, EmptyDoc)

\* A document with the entries of `new' added or replaced.
Upsert(doc, new) ==
    [k \in DOMAIN doc \cup DOMAIN new |-> IF k \in DOMAIN new THEN new[k] ELSE doc[k]]

Without(doc, gone) == [k \in DOMAIN doc \ gone |-> doc[k]]

-----------------------------------------------------------------------------
(* Planning: from a snapshot and a list of patterns to schedules, flights  *)
(* and the routes to mark as scheduled.  POST /operations/schedules plans  *)
(* one pattern, PUT /operations/schedules the patterns its blocks group to.*)

\* The day a schedule made at t starts on.
StartDay(p, t) == IF p.starts = Today THEN DayOf(t) ELSE p.starts

\* stableScheduleId of route, aircraft, start and pattern.
ScheduleId(a, p, t) ==
    [route |-> p.route, aircraft |-> a, start |-> StartDay(p, t), time |-> p.time,
     turnaround |-> p.turnaround, days |-> p.days, uuid |-> 0]

Overlaps(p, q) == p.time = q.time /\ p.days \cap q.days # {}

\* Mutant of HasConflict: schedules of the same route only.
HasConflictOnRoute(doc, a, p) ==
    \E id \in DOMAIN doc : /\ doc[id].status = "active"
                           /\ id.aircraft = a
                           /\ id.route = p.route
                           /\ Overlaps(id, p)

HasConflict(doc, a, p) ==
    \E id \in DOMAIN doc : /\ doc[id].status = "active"
                           /\ id.aircraft = a
                           /\ Overlaps(id, p)

\* buildBlockers finds nothing: the route can be scheduled, the aircraft is
\* at its origin, is fit for it and is not scheduled at that time.
Ready(view, a, p, airport) ==
    /\ view.routes[p.route].status \in {"awaiting_schedule", "scheduled"}
    /\ airport = Origin[p.route]
    /\ <<p.route, a>> \notin Unfit
    /\ ~HasConflict(view.schedules, a, p)

\* Which patterns become active: each one also has to fit with the active
\* ones that the same request placed before it.
CanActivate(view, a, patterns, airport) ==
    LET active[i \in DOMAIN patterns] ==
            /\ Ready(view, a, patterns[i], airport)
            /\ \A j \in 1 .. (i - 1) : ~(active[j] /\ Overlaps(patterns[j], patterns[i]))
    IN  active

PlanSchedules(a, patterns, round, active, t) ==
    [id \in {ScheduleId(a, patterns[i], t) : i \in DOMAIN patterns} |->
        [status |-> IF \E i \in DOMAIN patterns : active[i] /\ id = ScheduleId(a, patterns[i], t)
                    THEN "active" ELSE "draft",
         round  |-> round]]

\* The flights of all active patterns.
PlanFlights(view, a, patterns, round, active, price, t) ==
    LET id(i) == ScheduleId(a, patterns[i], t)
        estimate(i) == Financials(view.routes[patterns[i].route].fare, price,
                                  Cardinality(patterns[i].days))
    IN  [k \in {k \in (DOMAIN patterns) \X ScheduleIndices :
                   active[k[1]] /\ k[2] \in GeneratedIndices(id(k[1]), round, t)} |->
            BuildFlight(id(k[1]), k[2], estimate(k[1]), t)]

\* The route saves of markRoutesScheduled, each route once, in order.
PlanRouteSaves(view, patterns, active) ==
    [i \in {i \in DOMAIN patterns :
                /\ active[i]
                /\ \A j \in 1 .. (i - 1) :
                       ~(active[j] /\ patterns[j].route = patterns[i].route)} |->
        [id |-> patterns[i].route,
         route |-> [view.routes[patterns[i].route] EXCEPT !.status = "scheduled"]]]

RoutesKnown(view, patterns) ==
    \A i \in DOMAIN patterns : patterns[i].route \in DOMAIN view.routes

-----------------------------------------------------------------------------
(* Serving a request.                                                      *)

\* loadOperationsSnapshot: the three documents are read in one turn, every
\* flight's estimate is recomputed and the departed flights are settled.
LoadedSnapshot ==
    [routes |-> routes, schedules |-> schedules,
     flights |-> {LoadFlight(f, routes, schedules, fuel, now) : f \in flights}]

Idle(s) == pc[s] = "idle"

Accepted(kind, s) ==
    /\ kind \in Enabled
    /\ Idle(s)
    /\ since' = [since EXCEPT ![s] = now]

Begin(kind, s) ==
    /\ Accepted(kind, s)
    /\ served < MaxRequests
    /\ served' = served + 1

Await(s, label) == pc' = [pc EXCEPT ![s] = label]

\* The handler returns its response, or fails with an error response.
Finish(s) ==
    /\ pc' = [pc EXCEPT ![s] = "idle"]
    /\ req' = [req EXCEPT ![s] = NoRequest]
    /\ snap' = [snap EXCEPT ![s] = NoSnapshot]
    /\ work' = [work EXCEPT ![s] = NoWork]
    /\ since' = [since EXCEPT ![s] = 0]

\* The handler suspends on `label' with the writes w and no snapshot.
Suspend(s, label, w) ==
    /\ Await(s, label)
    /\ work' = [work EXCEPT ![s] = w]
    /\ snap' = [snap EXCEPT ![s] = NoSnapshot]
    /\ UNCHANGED req

GoOn(s, label, w) == Suspend(s, label, w) /\ UNCHANGED since

Load(kind, s, r) ==
    /\ Begin(kind, s)
    /\ Await(s, kind)
    /\ req' = [req EXCEPT ![s] = r]
    /\ snap' = [snap EXCEPT ![s] = LoadedSnapshot]
    /\ UNCHANGED <<now, fuel, routes, schedules, flights, ledger, work, uuids>>

-----------------------------------------------------------------------------
(* POST /operations/schedules.                                             *)

ActivateLoad(s) == \E r \in Activations : Load("activate", s, r)

\* The body is parsed, the schedule is built and saved.  An unknown route
\* fails the request before anything is written.
ActivatePlan(s) ==
    /\ pc[s] = "activate"
    /\ UNCHANGED <<now, fuel, routes, flights, ledger, served, uuids>>
    /\ LET r == req[s]
           view == snap[s]
       IN  \/ /\ ~RoutesKnown(view, r.patterns)
              /\ Finish(s)
              /\ UNCHANGED schedules
           \/ /\ RoutesKnown(view, r.patterns)
              /\ \E airport \in AircraftAirports(r.aircraft, view.flights, now) :
                     LET active == CanActivate(view, r.aircraft, r.patterns, airport)
                         batch == PlanFlights(view, r.aircraft, r.patterns, r.round, active, fuel, now)
                     IN  /\ schedules' = Upsert(schedules,
                                PlanSchedules(r.aircraft, r.patterns, r.round, active, now))
                         /\ GoOn(s, "save_flights",
                                Writes(EmptyDoc, {}, DedupeGenerated(view.flights, batch),
                                       PlanRouteSaves(view, r.patterns, active)))

\* Shared by both kinds of schedule request: saveFlights.
SaveFlights(s) ==
    /\ pc[s] = "save_flights"
    /\ flights' = MergeFlights(flights, work[s].rows)
    /\ GoOn(s, "save_routes", [work[s] EXCEPT !.rows = {}])
    /\ UNCHANGED <<now, fuel, routes, schedules, ledger, served, uuids>>

\* Shared by every request that saves routes: saveRoute reads the document...
ReadRoutes(s) ==
    /\ pc[s] = "save_routes"
    /\ IF work[s].saves = EmptyDoc
       THEN Finish(s)
       ELSE GoOn(s, "write_route", [work[s] EXCEPT !.copy = routes])
    /\ UNCHANGED <<now, fuel, routes, schedules, flights, ledger, served, uuids>>

\* The document saveRoute writes: the copy it read, with its route put in.
WrittenRoutes(copy, save) == Upsert(copy, [r \in {save.id} |-> save.route])

RemainingSaves(saves, first) == Without(saves, {first})

\* ... and writes it back.  Promise.all makes every saveRoute read before the
\* first one writes, so all of them start from the same copy.
WriteRoute(s) ==
    /\ pc[s] = "write_route"
    /\ \E first \in DOMAIN work[s].saves :
           /\ \A i \in DOMAIN work[s].saves : first <= i
           /\ routes' = WrittenRoutes(work[s].copy, work[s].saves[first])
           /\ LET rest == RemainingSaves(work[s].saves, first)
              IN  IF rest = EmptyDoc
                  THEN Finish(s)
                  ELSE GoOn(s, "write_route", [work[s] EXCEPT !.saves = rest])
    /\ UNCHANGED <<now, fuel, schedules, flights, ledger, served, uuids>>

-----------------------------------------------------------------------------
(* PUT /operations/schedules: rebuild an aircraft's whole week.            *)

ReplaceLoad(s) == \E r \in Replacements : Load("replace", s, r)

\* Mutant of KeptFlights: the flights to be replaced count as existing.
AllFlights(rows, a) == rows

\* The flights a replacement leaves in place, as its handler sees them.
KeptFlights(rows, a) ==
    {f \in rows : ~(f.sched.aircraft = a /\ f.status = "scheduled")}

OfAircraft(doc, a) == {id \in DOMAIN doc : id.aircraft = a}

\* Plans on the snapshot without the aircraft's schedules and future flights,
\* then deletes its schedules from the document.
ReplacePlan(s) ==
    /\ pc[s] = "replace"
    /\ UNCHANGED <<now, fuel, routes, flights, ledger, served, uuids>>
    /\ LET r == req[s]
           kept == KeptFlights(snap[s].flights, r.aircraft)
           view == [routes |-> snap[s].routes, flights |-> kept,
                    schedules |-> Without(snap[s].schedules,
                                          OfAircraft(snap[s].schedules, r.aircraft))]
       IN  \/ /\ ~RoutesKnown(view, r.patterns)
              /\ Finish(s)
              /\ UNCHANGED schedules
           \/ /\ RoutesKnown(view, r.patterns)
              /\ \E airport \in AircraftAirports(r.aircraft, view.flights, now) :
                     LET active == CanActivate(view, r.aircraft, r.patterns, airport)
                         batch == PlanFlights(view, r.aircraft, r.patterns, r.round, active, fuel, now)
                         removed == OfAircraft(schedules, r.aircraft)
                     IN  /\ schedules' = Without(schedules, removed)
                         /\ GoOn(s, "delete_future",
                                Writes(PlanSchedules(r.aircraft, r.patterns, r.round, active, now),
                                       removed, DedupeGenerated(kept, batch),
                                       PlanRouteSaves(view, r.patterns, active)))

\* Mutant of FutureFlights: flights of any status go.
FlightsOfSchedules(rows, ids) == {f \in rows : f.sched \in ids}

\* Mutant of FutureFlights: nothing goes.
NoFlights(rows, ids) == {}

\* The rows deleteFutureFlightsForSchedules drops.
FutureFlights(rows, ids) == {f \in rows : f.sched \in ids /\ f.status = "scheduled"}

DeleteFuture(s) ==
    /\ pc[s] = "delete_future"
    /\ flights' = flights \ FutureFlights(flights, work[s].removed)
    /\ GoOn(s, "save_schedules", [work[s] EXCEPT !.removed = {}])
    /\ UNCHANGED <<now, fuel, routes, schedules, ledger, served, uuids>>

\* Promise.all(schedules.map(saveSchedule)): all of them in one turn.
SaveSchedules(s) ==
    /\ pc[s] = "save_schedules"
    /\ schedules' = Upsert(schedules, work[s].schedules)
    /\ GoOn(s, "save_flights", [work[s] EXCEPT !.schedules = EmptyDoc])
    /\ UNCHANGED <<now, fuel, routes, flights, ledger, served, uuids>>

-----------------------------------------------------------------------------
(* POST /operations/flights/:id/complete and .../cancel.                   *)

CompleteLoad(s) == \E f \in flights : Load("complete", s, [flight |-> FlightId(f)])

Named(s) == {f \in snap[s].flights : FlightId(f) = req[s].flight}

\* Mutant of Arrivable: a flight can be completed from its departure on.
Departable(f, t) == f.status = "completed" \/ f.dep <= t

\* FLIGHT_NOT_ARRIVED does not refuse the completion.
Arrivable(f, t) == f.status = "completed" \/ Arrival(f) <= t

\* Mutant of CompletedFlight: the result is taken from the estimate again.
CompletedFlightReestimated(f) ==
    [f EXCEPT !.status = "completed", !.actual = f.expected]

CompletedFlight(f) ==
    [f EXCEPT !.status = "completed",
              !.actual = IF f.actual = NoActual THEN f.expected ELSE f.actual]

CompleteSave(s) ==
    /\ pc[s] = "complete"
    /\ \E f \in Named(s) :
           \/ /\ ~Arrivable(f, now)
              /\ Finish(s)
              /\ UNCHANGED flights
           \/ /\ Arrivable(f, now)
              /\ flights' = MergeFlights(flights, {CompletedFlight(f)})
              /\ GoOn(s, "book", [NoWork EXCEPT !.rows = {CompletedFlight(f)}])
    /\ UNCHANGED <<now, fuel, routes, schedules, ledger, served, uuids>>

CancelLoad(s) == \E f \in flights : Load("cancel", s, [flight |-> FlightId(f)])

\* Mutant of Cancellable: only a cancelled flight is refused.
CancellableUnlessCancelled(f) == f.status # "cancelled"

\* FLIGHT_ALREADY_DONE does not refuse the cancellation.
Cancellable(f) == f.status \notin {"completed", "cancelled"}

CancelSave(s) ==
    /\ pc[s] = "cancel"
    /\ \E f \in Named(s) :
           flights' = IF Cancellable(f)
                      THEN MergeFlights(flights, {[f EXCEPT !.status = "cancelled"]})
                      ELSE flights
    /\ Finish(s)
    /\ UNCHANGED <<now, fuel, routes, schedules, ledger, served, uuids>>

-----------------------------------------------------------------------------
(* POST /operations/ferry-flights.                                         *)

FerryLoad(s) == \E r \in Ferries : Load("ferry", s, r)

\* Mutant of FreshId: a ferry flight without an id of its own.
FixedId == 0

\* A random id, not drawn before.
FreshId == uuids + 1

\* The one-off flight of a ferry request, from where the aircraft is; its
\* departure is the player's and may lie in the past.
FerryFlight(r, airport) ==
    [sched    |-> [route |-> <<airport, r.to>>, aircraft |-> r.aircraft, start |-> 0,
                   time |-> 0, turnaround |-> 0, days |-> {}, uuid |-> FreshId],
     dep      |-> r.dep,
     leg      |-> "outbound",
     status   |-> CurrentStatus("scheduled", r.dep, now),
     expected |-> Financials(ReferenceFare, fuel, 7),
     actual   |-> NoActual]

\* getOverlappingFlights, with the status the ferry gives them.
OverlappingFlights(rows, r) ==
    {[f EXCEPT !.status = "cancelled"] : f \in
        {g \in rows : /\ g.sched.aircraft = r.aircraft
                      /\ g.status \notin {"cancelled", "completed"}
                      /\ r.dep < Arrival(g)
                      /\ g.dep < r.dep + Block}}

\* The rows the request saves: dedupeGeneratedFlights over the cancelled
\* flights and the ferry.  The batch holds each key once.
FerryRows(rows, r, airport) ==
    {f \in OverlappingFlights(rows, r) \cup {FerryFlight(r, airport)} :
        FlightKey(f) \notin {FlightKey(g) : g \in rows}}

FerrySave(s) ==
    /\ pc[s] = "ferry"
    /\ \E airport \in AircraftAirports(req[s].aircraft, snap[s].flights, now) :
           \/ /\ airport = req[s].to
              /\ UNCHANGED <<flights, uuids>>
           \/ /\ airport # req[s].to
              /\ flights' = MergeFlights(flights, FerryRows(snap[s].flights, req[s], airport))
              /\ uuids' = uuids + 1
    /\ Finish(s)
    /\ UNCHANGED <<now, fuel, routes, schedules, ledger, served>>

-----------------------------------------------------------------------------
(* Finance: any read of it, and POST /finance/recalculate, books every     *)
(* flight that has departed.  The four postings of a flight are built and  *)
(* written together under the four keys flight:<id>:<kind>; they stand     *)
(* here as one settlement of the flight.                                   *)

FinanceLoad(s) ==
    /\ Accepted("finance", s)
    /\ Suspend(s, "book", [NoWork EXCEPT !.rows = LoadedSnapshot.flights])
    /\ UNCHANGED <<now, fuel, routes, schedules, flights, ledger, served, uuids>>

\* buildFlightTransactions for every row that has departed.
FlightTransactions(rows, t) ==
    {[flight |-> FlightId(f), at |-> t,
      amount |-> IF f.actual = NoActual THEN f.expected ELSE f.actual] :
        f \in {g \in rows : HasDeparted(g, t)}}

\* Mutant of SaveLedger: transactions are appended without their keys.
AppendLedger(entries, new) == entries \cup new

\* Mutant of SaveLedger: the newest transaction replaces the older one.
ReviseLedger(entries, new) ==
    {e \in entries : e.flight \notin {n.flight : n \in new}} \cup new

\* saveLedgerTransactions: the additions are those whose key is not there.
SaveLedger(entries, new) ==
    entries \cup {n \in new : n.flight \notin {e.flight : e \in entries}}

\* Shared by completions and finance: reconcileCompletedFlight(s).
Book(s) ==
    /\ pc[s] = "book"
    /\ ledger' = SaveLedger(ledger, FlightTransactions(work[s].rows, now))
    /\ Finish(s)
    /\ UNCHANGED <<now, fuel, routes, schedules, flights, served, uuids>>

-----------------------------------------------------------------------------
(* PATCH /routes/:id and DELETE /routes/:id.                               *)

\* A field the body leaves out keeps its value.
PatchedRoute(p, r) ==
    [status |-> IF "status" \in DOMAIN p THEN p.status ELSE r.status,
     fare   |-> IF "fare" \in DOMAIN p THEN p.fare ELSE r.fare]

\* findRoute; the route it found is patched and saved by ReadRoutes and
\* WriteRoute.
PatchFind(s) ==
    /\ Begin("patch", s)
    /\ \E r \in DOMAIN routes, p \in Patches :
           Suspend(s, "save_routes",
                   [NoWork EXCEPT !.saves =
                       [i \in {1} |-> [id |-> r, route |-> PatchedRoute(p, routes[r])]]])
    /\ UNCHANGED <<now, fuel, routes, schedules, flights, ledger, uuids>>

DeleteFind(s) ==
    /\ Begin("delete", s)
    /\ \E r \in DOMAIN routes : req' = [req EXCEPT ![s] = [route |-> r]]
    /\ Await(s, "delete")
    /\ UNCHANGED <<now, fuel, routes, schedules, flights, ledger, snap, work, uuids>>

\* deleteRoute reads the document...
DeleteRead(s) ==
    /\ pc[s] = "delete"
    /\ GoOn(s, "delete_route", [NoWork EXCEPT !.copy = routes])
    /\ UNCHANGED <<now, fuel, routes, schedules, flights, ledger, served, uuids>>

\* ... and writes it back without the route, unless it is already gone; the
\* handler goes on to the flights in both cases.
DeleteWrite(s) ==
    /\ pc[s] = "delete_route"
    /\ routes' = IF req[s].route \in DOMAIN work[s].copy
                 THEN Without(work[s].copy, {req[s].route})
                 ELSE routes
    /\ GoOn(s, "delete_flights", NoWork)
    /\ UNCHANGED <<now, fuel, schedules, flights, ledger, served, uuids>>

\* Mutant of RouteFlights: completed flights are kept.
UnflownRouteFlights(rows, r) ==
    {f \in rows : f.sched.route = r /\ f.status # "completed"}

\* The rows deleteFlightsForRoute drops.
RouteFlights(rows, r) == {f \in rows : f.sched.route = r}

DeleteFlights(s) ==
    /\ pc[s] = "delete_flights"
    /\ flights' = flights \ RouteFlights(flights, req[s].route)
    /\ GoOn(s, "delete_schedules", NoWork)
    /\ UNCHANGED <<now, fuel, routes, schedules, ledger, served, uuids>>

DeleteSchedules(s) ==
    /\ pc[s] = "delete_schedules"
    /\ schedules' = Without(schedules, {id \in DOMAIN schedules : id.route = req[s].route})
    /\ Finish(s)
    /\ UNCHANGED <<now, fuel, routes, flights, ledger, served, uuids>>

-----------------------------------------------------------------------------
(* The world: time passes, the fuel market moves, the BFF process crashes. *)

\* A request is shorter than a tick, the shortest flight: while it is served
\* the clock may move on once, not twice.
Tick ==
    /\ now < MaxTime
    /\ \A s \in Slots : Idle(s) \/ since[s] = now
    /\ now' = now + 1
    /\ UNCHANGED <<fuel, store, local, served, uuids>>

FuelMoves ==
    /\ "fuel" \in Enabled
    /\ \E p \in FuelPrices \ {fuel} : fuel' = p
    /\ UNCHANGED <<now, store, local, served, uuids>>

Crash ==
    /\ "crash" \in Enabled
    /\ \E s \in Slots : ~Idle(s)
    /\ pc' = [s \in Slots |-> "idle"]
    /\ req' = [s \in Slots |-> NoRequest]
    /\ snap' = [s \in Slots |-> NoSnapshot]
    /\ work' = [s \in Slots |-> NoWork]
    /\ since' = [s \in Slots |-> 0]
    /\ UNCHANGED <<env, store>>

Init ==
    /\ now = 0
    /\ fuel \in FuelPrices
    /\ routes = [r \in RouteIds |-> [status |-> "awaiting_schedule", fare |-> ReferenceFare]]
    /\ schedules = EmptyDoc
    /\ flights = {}
    /\ ledger = {}
    /\ pc = [s \in Slots |-> "idle"]
    /\ req = [s \in Slots |-> NoRequest]
    /\ snap = [s \in Slots |-> NoSnapshot]
    /\ work = [s \in Slots |-> NoWork]
    /\ since = [s \in Slots |-> 0]
    /\ served = 0
    /\ uuids = 0

\* The steps that end by themselves once a request is accepted.
Continue(s) ==
    \/ ActivatePlan(s) \/ ReplacePlan(s) \/ DeleteFuture(s) \/ SaveSchedules(s)
    \/ SaveFlights(s) \/ ReadRoutes(s) \/ WriteRoute(s)
    \/ CompleteSave(s) \/ CancelSave(s) \/ FerrySave(s) \/ Book(s)
    \/ DeleteRead(s) \/ DeleteWrite(s) \/ DeleteFlights(s) \/ DeleteSchedules(s)

Accept(s) ==
    \/ ActivateLoad(s) \/ ReplaceLoad(s) \/ CompleteLoad(s) \/ CancelLoad(s)
    \/ FerryLoad(s) \/ FinanceLoad(s) \/ PatchFind(s) \/ DeleteFind(s)

Next ==
    \/ \E s \in Slots : Accept(s) \/ Continue(s)
    \/ Tick
    \/ FuelMoves
    \/ Crash

Spec == Init /\ [][Next]_vars

-----------------------------------------------------------------------------
(* Types.                                                                  *)

\* doc maps keys in K to values in V: what a document holds.
IsDoc(doc, K, V) ==
    /\ doc = [k \in DOMAIN doc |-> doc[k]]
    /\ DOMAIN doc \subseteq K
    /\ \A k \in DOMAIN doc : doc[k] \in V

Route == [status : RouteStatus, fare : Nat]
ScheduleDoc == [status : {"active", "draft"}, round : BOOLEAN]
Money == [fare : Nat, fuel : FuelPrices, perWeek : Nat, noisy : BOOLEAN]
\* Ids of schedules, and the ids ferry flights carry in their place.
ScheduleIds ==
    [route : RouteIds, aircraft : AircraftIds, start : Nat, time : Nat,
     turnaround : Nat, days : SUBSET Days, uuid : {0}]
FerryIds ==
    [route : Airports \X Airports, aircraft : AircraftIds, start : {0}, time : {0},
     turnaround : {0}, days : {{}}, uuid : Nat \ {0}]

Row ==
    [sched : ScheduleIds \cup FerryIds, dep : Nat, leg : Legs, status : FlightStatus,
     expected : Money, actual : Money \cup {NoActual}]

Entry == [flight : (ScheduleIds \cup FerryIds) \X Nat, at : Nat, amount : Money]

RouteSave == [id : RouteIds, route : Route]

Labels ==
    {"idle", "activate", "replace", "complete", "cancel", "ferry", "delete", "save_flights",
     "save_routes", "write_route", "delete_future", "save_schedules", "book",
     "delete_route", "delete_flights", "delete_schedules"}

StoreOK ==
    /\ now \in Nat
    /\ fuel \in FuelPrices
    /\ IsDoc(routes, RouteIds, Route)
    /\ IsDoc(schedules, ScheduleIds, ScheduleDoc)
    /\ flights \subseteq Row
    /\ ledger \subseteq Entry
    /\ served \in Nat
    /\ uuids \in Nat

SnapOK(view) ==
    /\ view = [routes |-> view.routes, schedules |-> view.schedules, flights |-> view.flights]
    /\ IsDoc(view.routes, RouteIds, Route)
    /\ IsDoc(view.schedules, ScheduleIds, ScheduleDoc)
    /\ view.flights \subseteq Row

WorkOK(w) ==
    /\ w = [schedules |-> w.schedules, removed |-> w.removed, rows |-> w.rows,
            saves |-> w.saves, copy |-> w.copy]
    /\ IsDoc(w.schedules, ScheduleIds, ScheduleDoc)
    /\ w.rows \subseteq Row
    /\ IsDoc(w.saves, Nat, RouteSave)
    /\ IsDoc(w.copy, RouteIds, Route)

RequestOK(label, r) ==
    /\ label = "activate" => r \in Activations
    /\ label = "replace" => r \in Replacements
    /\ label = "ferry" => r \in Ferries

LocalOK ==
    /\ pc \in [Slots -> Labels]
    /\ since \in [Slots -> Nat]
    /\ req = [s \in Slots |-> req[s]]
    /\ snap = [s \in Slots |-> snap[s]]
    /\ work = [s \in Slots |-> work[s]]
    /\ \A s \in Slots : SnapOK(snap[s]) /\ WorkOK(work[s]) /\ RequestOK(pc[s], req[s])

\* The stored documents and every handler's copy of them have their shape.
TypeOK == StoreOK /\ LocalOK

-----------------------------------------------------------------------------
(* Properties of every behaviour, whatever overlaps and whatever crashes.  *)

\* Two stored rows never share an id: a flight is one row of the document.
UniqueFlightIds == UniqueIds(flights)

\* Nor do two rows of one handler's snapshot, or of the rows it is about to
\* save: the merge by id in saveFlights would otherwise keep both.
UniqueCopies ==
    \A s \in Slots : UniqueIds(snap[s].flights) /\ UniqueIds(work[s].rows)

\* A stored flight is "completed" only once it has arrived, even when the
\* completion was decided on a snapshot that is out of date.
CompletedHasArrived ==
    \A f \in flights : f.status = "completed" => Arrival(f) <= now

\* The ledger implements Settlement: it only grows, books a flight once and
\* not before its departure, and never revises what it booked.
Books == INSTANCE Settlement WITH clock <- now, books <- ledger
BooksSpec == Books!Spec

-----------------------------------------------------------------------------
(* Properties of requests served one at a time.                            *)

Quiet == \A s \in Slots : Idle(s)

Active(id) == schedules[id].status = "active"

\* No two active schedules put one aircraft on the same departure time of the
\* same weekday (AIRCRAFT_CONFLICT in planning.ts).
NoScheduleOverlap ==
    \A i, j \in DOMAIN schedules :
        i # j /\ Active(i) /\ Active(j) /\ i.aircraft = j.aircraft => ~Overlaps(i, j)

\* One aircraft has one row per route and departure, cancelled ones included
\* (dedupeGeneratedFlights in load.ts).
DistinctDepartures ==
    \A f, g \in flights : FlightKey(f) = FlightKey(g) => f = g

\* Between requests every schedule and every flight belongs to a route that
\* exists (the cascade of deleteRouteRequest).
NothingWithoutRoute ==
    Quiet =>
        /\ \A id \in DOMAIN schedules : id.route \in DOMAIN routes
        /\ \A f \in flights : ~IsFerry(f) => f.sched.route \in DOMAIN routes

\* Between requests a flight belongs to a schedule that exists, if its row is
\* stored as "scheduled" or it is further ahead than the boarding time: what
\* replacing a week leaves behind of the old one is history, or was generated
\* as boarding and is about to leave (deleteFutureFlightsForSchedules goes by
\* the stored status, and a row keeps the one it was generated with).
NoGhostFlights ==
    Quiet =>
        \A f \in flights :
            /\ ~IsFerry(f)
            /\ \/ f.status = "scheduled"
               \/ f.status \notin {"completed", "cancelled"} /\ now + Lead < f.dep
            => f.sched \in DOMAIN schedules

\* Between requests an active schedule has a row for each of its departures
\* to come: rebuilding a week loses no leg that it keeps.
ScheduleCovered ==
    Quiet =>
        \A id \in DOMAIN schedules : Active(id) =>
            \A i \in GeneratedIndices(id, schedules[id].round, now) :
                \E f \in flights :
                    FlightKey(f) = <<id.route, id.aircraft, DepartureAt(id, i)>>

\* A completed flight stays completed for as long as its row exists
\* (FLIGHT_ALREADY_DONE in flight-cancel.ts).
CompletedIsFinal ==
    [][\A f \in flights, g \in flights' :
           FlightId(f) = FlightId(g) /\ f.status = "completed" => g.status = "completed"]_vars

\* Once a result is persisted as `actual' nothing rewrites it: completing a
\* flight again is idempotent.
ActualIsFinal ==
    [][\A f \in flights, g \in flights' :
           FlightId(f) = FlightId(g) /\ f.actual # NoActual => g.actual = f.actual]_vars

\* A row that is no longer "scheduled" (history) disappears only with its
\* route; a ferry's row has none, and stays.
HistoryIsKept ==
    [][\A f \in flights :
           f.status # "scheduled" /\ FlightId(f) \notin Ids(flights') =>
               ~IsFerry(f) /\ f.sched.route \notin DOMAIN routes]_vars
=============================================================================
