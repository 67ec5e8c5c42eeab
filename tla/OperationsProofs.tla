-------------------------- MODULE OperationsProofs --------------------------
(***************************************************************************)
(* Theorems about Operations for every network, every set of requests and  *)
(* any number of slots: type correctness, one row per flight id, one       *)
(* settlement per flight, and that the ledger implements Settlement.       *)
(*                                                                         *)
(* And for requests that are served one at a time (one slot, and no        *)
(* crash): the documents a request leaves behind are consistent, and no    *)
(* step of one revises history.                                            *)
(***************************************************************************)
EXTENDS Operations, TLAPS, FiniteSetTheorems, WellFoundedInduction

-----------------------------------------------------------------------------
(* Documents.                                                              *)

\* The empty document has every type.
LEMMA EmptyIsDoc ==
  ASSUME NEW K, NEW V
  PROVE  IsDoc(EmptyDoc, K, V)
  BY DEF IsDoc, EmptyDoc

\* Adding and replacing entries keeps a document's type.
LEMMA UpsertIsDoc ==
  ASSUME NEW K, NEW V, NEW doc, NEW new, IsDoc(doc, K, V), IsDoc(new, K, V)
  PROVE  IsDoc(Upsert(doc, new), K, V)
  BY DEF IsDoc, Upsert

\* Removing entries keeps a document's type.
LEMMA WithoutIsDoc ==
  ASSUME NEW K, NEW V, NEW doc, NEW gone, IsDoc(doc, K, V)
  PROVE  IsDoc(Without(doc, gone), K, V)
  BY DEF IsDoc, Without

-----------------------------------------------------------------------------
(* Flights.                                                                *)

\* Natural numbers are closed under product.
LEMMA ProductInNat == \A m, n \in Nat : m * n \in Nat
  OBVIOUS

\* The number of weekdays of a schedule is a natural number.
LEMMA DaysCount ==
  ASSUME NEW days \in SUBSET Days
  PROVE  Cardinality(days) \in Nat
<1>1. IsFiniteSet(Days)
  BY FS_Interval, TimeAssumption DEF Days
<1> QED
  BY <1>1, FS_Subset, FS_CardinalityType

\* The status computed for a departure is a flight status.
LEMMA CurrentStatusType ==
  ASSUME NEW status \in FlightStatus, NEW dep, NEW t
  PROVE  CurrentStatus(status, dep, t) \in FlightStatus
  BY DEF CurrentStatus, FlightStatus

\* Loading a row keeps its identity and its type: the estimate is replaced
\* and the result filled in, nothing else.
LEMMA LoadFlightType ==
  ASSUME NEW f \in Row, NEW R, NEW S, NEW price \in FuelPrices, NEW t \in Nat,
         IsDoc(R, RouteIds, Route), IsDoc(S, ScheduleIds, ScheduleDoc)
  PROVE  /\ LoadFlight(f, R, S, price, t) \in Row
         /\ FlightId(LoadFlight(f, R, S, price, t)) = FlightId(f)
         /\ FlightKey(LoadFlight(f, R, S, price, t)) = FlightKey(f)
<1> DEFINE g == RecomputeExpected(f, R, S, price)
<1>1. PerWeek(f.sched, S) \in Nat
  <2>1. CASE f.sched \in DOMAIN S
    <3>1. f.sched.days \in SUBSET Days
      BY <2>1 DEF IsDoc, ScheduleIds
    <3> QED
      BY <2>1, <3>1, DaysCount DEF PerWeek
  <2>2. CASE f.sched \notin DOMAIN S
    BY <2>2 DEF PerWeek
  <2> QED
    BY <2>1, <2>2
<1>2. f.sched.route \in DOMAIN R =>
        Financials(R[f.sched.route].fare, price, PerWeek(f.sched, S)) \in Money
  BY <1>1 DEF IsDoc, Route, Financials, Money
<1>3. g \in Row /\ g.sched = f.sched /\ g.dep = f.dep
  BY <1>2 DEF RecomputeExpected, Row
<1>4. ActualFinancials(g) \in Money
  <2>1. g.expected \in Money
    BY <1>3 DEF Row
  <2> QED
    BY <2>1 DEF ActualFinancials, Money
<1>5. /\ SettleDeparted(g, t) \in Row
      /\ SettleDeparted(g, t).sched = g.sched
      /\ SettleDeparted(g, t).dep = g.dep
  <2> HIDE DEF g
  <2> QED
    BY <1>3, <1>4 DEF SettleDeparted, Row
<1> QED
  BY <1>3, <1>5 DEF LoadFlight, FlightId, FlightKey

\* A generated departure lies on the clock.
LEMMA DepartureType ==
  ASSUME NEW id \in ScheduleIds, NEW i \in ScheduleIndices
  PROVE  DepartureAt(id, i) \in Nat
<1>1. (i - 1) \div 2 \in Nat
  BY TimeAssumption DEF ScheduleIndices
<1>2. DayAt(id, i) \in Nat
  BY <1>1 DEF DayAt, ScheduleIds
<1>3. DayAt(id, i) * DayLen \in Nat
  BY <1>2, TimeAssumption, ProductInNat
<1> QED
  BY <1>3, TimeAssumption DEF DepartureAt, ScheduleIds

\* What the invariants say of a set of rows: ids are unique, and a completed
\* flight has arrived, and one that was generated as boarding
\* or in flight is.
Timely(f, t) ==
    /\ f.status = "completed" => Arrival(f) <= t
    /\ f.status \in {"boarding", "in_flight"} => f.dep <= t + Lead

OnTime(rows, t) == \A f \in rows : Timely(f, t)

RowsOK(rows, t) == UniqueIds(rows) /\ OnTime(rows, t)

\* The status a row is generated with agrees with the clock.
LEMMA TimelyStatus ==
  ASSUME NEW t \in Nat, NEW f, f.dep \in Nat,
         f.status = CurrentStatus("scheduled", f.dep, t)
  PROVE  Timely(f, t)
<1>1. f.status = "completed" => f.dep + Block <= t
  BY TimeAssumption DEF CurrentStatus
<1>2. f.status \in {"boarding", "in_flight"} => f.dep <= t + Lead
  BY TimeAssumption DEF CurrentStatus
<1> QED
  BY <1>1, <1>2 DEF Timely, Arrival

\* A generated row is well typed, and completed only if it has arrived.
LEMMA BuildFlightType ==
  ASSUME NEW id \in ScheduleIds, NEW i \in ScheduleIndices,
         NEW expected \in Money, NEW t \in Nat
  PROVE  /\ BuildFlight(id, i, expected, t) \in Row
         /\ OnTime({BuildFlight(id, i, expected, t)}, t)
<1>1. DepartureAt(id, i) \in Nat
  BY DepartureType
<1>2. CurrentStatus("scheduled", DepartureAt(id, i), t) \in FlightStatus
  BY CurrentStatusType DEF FlightStatus
<1>3. LegAt(i) \in Legs
  BY DEF LegAt, Legs
<1> DEFINE f == BuildFlight(id, i, expected, t)
<1>4. f \in Row
  BY <1>1, <1>2, <1>3 DEF BuildFlight, Row
<1>5. f.dep = DepartureAt(id, i) /\ f.status = CurrentStatus("scheduled", DepartureAt(id, i), t)
  BY DEF BuildFlight
<1> HIDE DEF f
<1>6. Timely(f, t)
  BY <1>1, <1>5, TimelyStatus
<1> QED
  BY <1>4, <1>6 DEF OnTime, f

\* An aircraft is at an airport.
LEMMA AircraftAirportsType ==
  ASSUME NEW a \in AircraftIds, NEW rows \in SUBSET Row, NEW t
  PROVE  AircraftAirports(a, rows, t) \subseteq Airports
<1>1. \A f \in Row : FlightDestination(f) \in Airports
  <2> SUFFICES ASSUME NEW f \in Row
               PROVE  FlightDestination(f) \in Airports
    OBVIOUS
  <2>1. CASE f.sched \in ScheduleIds
    BY <2>1, NetworkAssumption DEF FlightDestination, IsFerry, ScheduleIds
  <2>2. CASE f.sched \in FerryIds
    BY <2>2 DEF FlightDestination, IsFerry, FerryIds
  <2> QED
    BY <2>1, <2>2 DEF Row
<1>2. Base[a] \in Airports
  BY NetworkAssumption
<1> QED
  BY <1>1, <1>2 DEF AircraftAirports, Arrived

-----------------------------------------------------------------------------
(* Plans.                                                                  *)

\* The order of a batch is total.
LEMMA BeforeTotal ==
  ASSUME NEW j \in Nat \X Nat, NEW k \in Nat \X Nat, j # k
  PROVE  Before(j, k) \/ Before(k, j)
  BY DEF Before

\* Deduplication returns rows of the batch, one for each id: two rows with
\* one id have one key, and of the rows with one key only the first is left.
LEMMA DedupeUnique ==
  ASSUME NEW current, NEW batch, DOMAIN batch \subseteq Nat \X Nat, NEW t,
         \A k \in DOMAIN batch : batch[k] \in Row /\ OnTime({batch[k]}, t)
  PROVE  /\ DedupeGenerated(current, batch) \subseteq Row
         /\ RowsOK(DedupeGenerated(current, batch), t)
<1>1. /\ DedupeGenerated(current, batch) \subseteq Row
      /\ OnTime(DedupeGenerated(current, batch), t)
  BY DEF DedupeGenerated, OnTime
<1>2. ASSUME NEW f \in DedupeGenerated(current, batch),
             NEW g \in DedupeGenerated(current, batch),
             FlightId(f) = FlightId(g)
      PROVE  f = g
  <2>1. FlightKey(f) = FlightKey(g)
    BY <1>2 DEF FlightId, FlightKey
  <2>2. PICK j \in DOMAIN batch :
          /\ f = batch[j]
          /\ \A k \in DOMAIN batch :
                 Before(k, j) => FlightKey(batch[k]) # FlightKey(batch[j])
    BY DEF DedupeGenerated
  <2>3. PICK k \in DOMAIN batch :
          /\ g = batch[k]
          /\ \A i \in DOMAIN batch :
                 Before(i, k) => FlightKey(batch[i]) # FlightKey(batch[k])
    BY DEF DedupeGenerated
  <2>4. j = k
    BY <2>1, <2>2, <2>3, BeforeTotal
  <2> QED
    BY <2>2, <2>3, <2>4
<1> QED
  BY <1>1, <1>2 DEF UniqueIds, RowsOK

\* The schedules, flights and route saves planned for a request are well
\* typed, whatever patterns become active.
LEMMA PlanTypes ==
  ASSUME NEW view, IsDoc(view.routes, RouteIds, Route),
         NEW a \in AircraftIds, NEW patterns \in Seq(Patterns),
         NEW round \in BOOLEAN, NEW active, NEW price \in FuelPrices,
         NEW t \in Nat, RoutesKnown(view, patterns)
  PROVE  /\ IsDoc(PlanSchedules(a, patterns, round, active, t), ScheduleIds, ScheduleDoc)
         /\ IsDoc(PlanRouteSaves(view, patterns, active), Nat, RouteSave)
         /\ \A current :
               LET batch == PlanFlights(view, a, patterns, round, active, price, t)
               IN  /\ DedupeGenerated(current, batch) \subseteq Row
                   /\ RowsOK(DedupeGenerated(current, batch), t)
<1>1. /\ DOMAIN patterns \subseteq Nat
      /\ \A i \in DOMAIN patterns : patterns[i] \in Patterns
  OBVIOUS
<1>2. DayOf(t) \in Nat
  BY TimeAssumption DEF DayOf
<1>3. \A i \in DOMAIN patterns : ScheduleId(a, patterns[i], t) \in ScheduleIds
  BY <1>1, <1>2 DEF ScheduleId, StartDay, ScheduleIds, Patterns
<1>4. \A i \in DOMAIN patterns : view.routes[patterns[i].route] \in Route
  BY DEF RoutesKnown, IsDoc
<1>5. IsDoc(PlanSchedules(a, patterns, round, active, t), ScheduleIds, ScheduleDoc)
  BY <1>3 DEF IsDoc, PlanSchedules, ScheduleDoc
<1>6. IsDoc(PlanRouteSaves(view, patterns, active), Nat, RouteSave)
  <2>1. \A i \in DOMAIN patterns :
          [view.routes[patterns[i].route] EXCEPT !.status = "scheduled"] \in Route
    BY <1>4 DEF Route, RouteStatus
  <2> QED
    BY <1>1, <2>1 DEF IsDoc, PlanRouteSaves, RouteSave, Patterns
<1>7. ASSUME NEW current
      PROVE  LET batch == PlanFlights(view, a, patterns, round, active, price, t)
             IN  /\ DedupeGenerated(current, batch) \subseteq Row
                 /\ RowsOK(DedupeGenerated(current, batch), t)
  <2> DEFINE batch == PlanFlights(view, a, patterns, round, active, price, t)
  <2>1. DOMAIN batch \subseteq Nat \X Nat
    BY <1>1 DEF PlanFlights, ScheduleIndices
  <2>2. ASSUME NEW k \in DOMAIN batch
        PROVE  batch[k] \in Row /\ OnTime({batch[k]}, t)
    <3>1. k[1] \in DOMAIN patterns /\ k[2] \in ScheduleIndices
      BY <2>2 DEF PlanFlights
    <3>2. Cardinality(patterns[k[1]].days) \in Nat
      BY <1>1, <3>1, DaysCount DEF Patterns
    <3> DEFINE money == Financials(view.routes[patterns[k[1]].route].fare, price,
                                   Cardinality(patterns[k[1]].days))
    <3>3. money \in Money
      BY <1>4, <3>1, <3>2 DEF Financials, Money, Route
    <3>4. batch[k] = BuildFlight(ScheduleId(a, patterns[k[1]], t), k[2], money, t)
      BY <2>2 DEF PlanFlights
    <3> QED
      BY <1>3, <3>1, <3>3, <3>4, BuildFlightType
  <2> HIDE DEF batch
  <2> QED
    BY <2>1, <2>2, DedupeUnique DEF batch
<1> QED
  BY <1>5, <1>6, <1>7

\* A ferry request saves at most its own flight: each flight it cancels has
\* the key of a stored row and is filtered out.
LEMMA FerryRowsType ==
  ASSUME TypeOK, NEW r \in Ferries, NEW rows \in SUBSET Row,
         NEW airport \in Airports
  PROVE  /\ FerryRows(rows, r, airport) \subseteq {FerryFlight(r, airport)}
         /\ FerryFlight(r, airport) \in Row
<1>1. \A f \in OverlappingFlights(rows, r) : \E g \in rows : FlightKey(f) = FlightKey(g)
  BY DEF OverlappingFlights, FlightKey, Row
<1>2. FerryRows(rows, r, airport) \subseteq {FerryFlight(r, airport)}
  BY <1>1 DEF FerryRows
<1>3. /\ r.aircraft \in AircraftIds
      /\ r.to \in Airports
      /\ r.dep \in Nat
  BY OperationsAssumption
<1>4. CurrentStatus("scheduled", r.dep, now) \in FlightStatus
  BY CurrentStatusType DEF FlightStatus
<1>5. Financials(ReferenceFare, fuel, 7) \in Money
  BY DEF TypeOK, StoreOK, Financials, ReferenceFare, Money
<1>6. FerryFlight(r, airport).sched \in FerryIds
  BY <1>3 DEF TypeOK, StoreOK, FerryFlight, FerryIds, FreshId
<1>7. FerryFlight(r, airport) \in Row
  BY <1>3, <1>4, <1>5, <1>6 DEF FerryFlight, Row, Legs
<1> QED
  BY <1>2, <1>7

-----------------------------------------------------------------------------
(* Requests.                                                               *)

\* One slot moves on: to a label of its handler, with a request, a snapshot
\* and writes of the right types.
LEMMA LocalStep ==
  ASSUME LocalOK, NEW s \in Slots, NEW label \in Labels, NEW r, NEW view, NEW w,
         RequestOK(label, r), SnapOK(view), WorkOK(w),
         pc' = [pc EXCEPT ![s] = label],
         req' = [req EXCEPT ![s] = r],
         snap' = [snap EXCEPT ![s] = view],
         work' = [work EXCEPT ![s] = w],
         since' \in [Slots -> Nat]
  PROVE  LocalOK'
<1>1. /\ pc' \in [Slots -> Labels]
      /\ req' = [x \in Slots |-> req'[x]]
      /\ snap' = [x \in Slots |-> snap'[x]]
      /\ work' = [x \in Slots |-> work'[x]]
  BY DEF LocalOK
<1>2. ASSUME NEW x \in Slots
      PROVE  SnapOK(snap'[x]) /\ WorkOK(work'[x]) /\ RequestOK(pc'[x], req'[x])
  <2>1. CASE x = s
    BY <2>1 DEF LocalOK
  <2>2. CASE x # s
    BY <2>2 DEF LocalOK
  <2> QED
    BY <2>1, <2>2
<1> QED
  BY <1>1, <1>2 DEF LocalOK

\* Typed parts make typed writes.
LEMMA WritesType ==
  ASSUME NEW planned, NEW removed, NEW rows \in SUBSET Row, NEW saves,
         IsDoc(planned, ScheduleIds, ScheduleDoc), IsDoc(saves, Nat, RouteSave)
  PROVE  WorkOK(Writes(planned, removed, rows, saves))
  BY EmptyIsDoc DEF WorkOK, Writes

\* A request without snapshot and one without writes are well typed.
LEMMA NothingLoaded == SnapOK(NoSnapshot) /\ WorkOK(NoWork)
  BY EmptyIsDoc, WritesType DEF SnapOK, NoSnapshot, NoWork

\* A request that ends leaves its slot well typed.
LEMMA FinishType ==
  ASSUME LocalOK, NEW s \in Slots, Finish(s)
  PROVE  LocalOK'
<1>1. "idle" \in Labels /\ RequestOK("idle", NoRequest)
  BY DEF Labels, RequestOK
<1>2. since' \in [Slots -> Nat]
  BY DEF LocalOK, Finish
<1> QED
  BY <1>1, <1>2, NothingLoaded, LocalStep DEF Finish

\* A request that goes on with typed writes leaves its slot well typed.
LEMMA SuspendType ==
  ASSUME LocalOK, NEW s \in Slots,
         NEW label \in Labels \ {"activate", "replace", "ferry"},
         NEW w, WorkOK(w), Suspend(s, label, w), since' \in [Slots -> Nat]
  PROVE  LocalOK'
<1>1. RequestOK(label, req[s])
  BY DEF RequestOK
<1>2. req' = [req EXCEPT ![s] = req[s]]
  BY DEF LocalOK, Suspend
<1> QED
  BY <1>1, <1>2, NothingLoaded, LocalStep DEF Suspend, Await

\* The same without a new start.
LEMMA GoOnType ==
  ASSUME LocalOK, NEW s \in Slots,
         NEW label \in Labels \ {"activate", "replace", "ferry"},
         NEW w, WorkOK(w), GoOn(s, label, w)
  PROVE  LocalOK'
<1>1. since' \in [Slots -> Nat]
  BY DEF LocalOK, GoOn
<1> QED
  BY <1>1, SuspendType DEF GoOn

\* A snapshot has the type of the documents it is read from.
LEMMA LoadedSnapshotType ==
  ASSUME TypeOK
  PROVE  SnapOK(LoadedSnapshot)
<1>1. /\ IsDoc(routes, RouteIds, Route)
      /\ IsDoc(schedules, ScheduleIds, ScheduleDoc)
      /\ \A f \in flights : LoadFlight(f, routes, schedules, fuel, now) \in Row
  BY LoadFlightType DEF TypeOK, StoreOK
<1> QED
  BY <1>1 DEF SnapOK, LoadedSnapshot

\* A request that is accepted and loads the snapshot.
LEMMA LoadType ==
  ASSUME TypeOK, NEW s \in Slots, NEW kind \in Labels, NEW r,
         RequestOK(kind, r), Load(kind, s, r)
  PROVE  TypeOK'
<1>1. StoreOK'
  BY DEF TypeOK, StoreOK, Load, Begin
<1>2. since' \in [Slots -> Nat]
  BY DEF TypeOK, StoreOK, LocalOK, Load, Begin, Accepted
<1>3. WorkOK(work[s]) /\ work' = [work EXCEPT ![s] = work[s]]
  BY DEF TypeOK, LocalOK, Load
<1>4. SnapOK(LoadedSnapshot)
  BY LoadedSnapshotType
<1>5. LocalOK'
  BY <1>2, <1>3, <1>4, LocalStep DEF TypeOK, Load, Await
<1> QED
  BY <1>1, <1>5 DEF TypeOK

\* The initial documents are well typed.
LEMMA InitType == Init => TypeOK
<1> SUFFICES ASSUME Init
             PROVE  TypeOK
  OBVIOUS
<1>1. StoreOK
  <2>1. IsDoc(routes, RouteIds, Route)
    BY DEF Init, IsDoc, Route, RouteStatus, ReferenceFare
  <2> QED
    BY <2>1, EmptyIsDoc DEF Init, StoreOK
<1>2. LocalOK
  BY NothingLoaded DEF Init, LocalOK, Labels, RequestOK
<1> QED
  BY <1>1, <1>2 DEF TypeOK

-----------------------------------------------------------------------------
(* Type correctness, one lemma per group of handlers.                      *)

\* Accepting a request keeps the types.
LEMMA AcceptType ==
  ASSUME TypeOK, NEW s \in Slots, Accept(s)
  PROVE  TypeOK'
<1>1. CASE ActivateLoad(s)
  BY <1>1, LoadType DEF ActivateLoad, Labels, RequestOK
<1>2. CASE ReplaceLoad(s)
  BY <1>2, LoadType DEF ReplaceLoad, Labels, RequestOK
<1>3. CASE CompleteLoad(s)
  BY <1>3, LoadType DEF CompleteLoad, Labels, RequestOK
<1>4. CASE CancelLoad(s)
  BY <1>4, LoadType DEF CancelLoad, Labels, RequestOK
<1>5. CASE FerryLoad(s)
  BY <1>5, LoadType DEF FerryLoad, Labels, RequestOK
<1>6. CASE FinanceLoad(s)
  <2>1. StoreOK'
    BY <1>6 DEF TypeOK, StoreOK, FinanceLoad
  <2>2. since' \in [Slots -> Nat]
    BY <1>6 DEF TypeOK, StoreOK, LocalOK, FinanceLoad, Accepted
  <2>3. LoadedSnapshot.flights \subseteq Row
    BY LoadedSnapshotType DEF SnapOK
  <2>4. WorkOK([NoWork EXCEPT !.rows = LoadedSnapshot.flights])
    BY <2>3, EmptyIsDoc DEF WorkOK, NoWork, Writes
  <2>5. LocalOK'
    BY <1>6, <2>2, <2>4, SuspendType DEF TypeOK, FinanceLoad, Labels
  <2> QED
    BY <2>1, <2>5 DEF TypeOK
<1>7. CASE PatchFind(s)
  <2>1. StoreOK'
    BY <1>7 DEF TypeOK, StoreOK, PatchFind, Begin
  <2>2. since' \in [Slots -> Nat]
    BY <1>7 DEF TypeOK, StoreOK, LocalOK, PatchFind, Begin, Accepted
  <2>3. PICK r \in DOMAIN routes, p \in Patches :
          Suspend(s, "save_routes",
                  [NoWork EXCEPT !.saves =
                      [i \in {1} |-> [id |-> r, route |-> PatchedRoute(p, routes[r])]]])
    BY <1>7 DEF PatchFind
  <2>4. routes[r] \in Route /\ r \in RouteIds
    BY DEF TypeOK, StoreOK, IsDoc
  <2>5. PatchedRoute(p, routes[r]) \in Route
    BY <2>4, OperationsAssumption DEF PatchedRoute, Route
  <2>6. WorkOK([NoWork EXCEPT !.saves =
                    [i \in {1} |-> [id |-> r, route |-> PatchedRoute(p, routes[r])]]])
    <3>1. IsDoc([i \in {1} |-> [id |-> r, route |-> PatchedRoute(p, routes[r])]], Nat, RouteSave)
      BY <2>4, <2>5 DEF IsDoc, RouteSave
    <3> QED
      BY <3>1, EmptyIsDoc DEF WorkOK, NoWork, Writes
  <2>7. LocalOK'
    BY <2>2, <2>3, <2>6, SuspendType DEF TypeOK, Labels
  <2> QED
    BY <2>1, <2>7 DEF TypeOK
<1>8. CASE DeleteFind(s)
  <2>1. StoreOK'
    BY <1>8 DEF TypeOK, StoreOK, DeleteFind, Begin
  <2>2. since' \in [Slots -> Nat]
    BY <1>8 DEF TypeOK, StoreOK, LocalOK, DeleteFind, Begin, Accepted
  <2>3. /\ SnapOK(snap[s]) /\ snap' = [snap EXCEPT ![s] = snap[s]]
        /\ WorkOK(work[s]) /\ work' = [work EXCEPT ![s] = work[s]]
    BY <1>8 DEF TypeOK, LocalOK, DeleteFind
  <2>4. PICK r \in DOMAIN routes : req' = [req EXCEPT ![s] = [route |-> r]]
    BY <1>8 DEF DeleteFind
  <2>5. "delete" \in Labels /\ RequestOK("delete", [route |-> r])
    BY DEF Labels, RequestOK
  <2>6. pc' = [pc EXCEPT ![s] = "delete"]
    BY <1>8 DEF DeleteFind, Await
  <2>7. LocalOK'
    BY <2>2, <2>3, <2>4, <2>5, <2>6, LocalStep DEF TypeOK
  <2> QED
    BY <2>1, <2>7 DEF TypeOK
<1> QED
  BY <1>1, <1>2, <1>3, <1>4, <1>5, <1>6, <1>7, <1>8 DEF Accept

\* Planning an activation and planning a replacement keep the types.
LEMMA PlanType ==
  ASSUME TypeOK, NEW s \in Slots, ActivatePlan(s) \/ ReplacePlan(s)
  PROVE  TypeOK'
<1> DEFINE r == req[s]
           view == snap[s]
<1>1. /\ SnapOK(view)
      /\ now \in Nat
      /\ fuel \in FuelPrices
      /\ IsDoc(schedules, ScheduleIds, ScheduleDoc)
  BY DEF TypeOK, StoreOK, LocalOK
<1>2. CASE ActivatePlan(s)
  <2>1. r \in Activations
    BY <1>2 DEF TypeOK, LocalOK, RequestOK, ActivatePlan
  <2>2. r.aircraft \in AircraftIds /\ r.patterns \in Seq(Patterns) /\ r.round \in BOOLEAN
    BY <2>1, OperationsAssumption DEF ScheduleBodies
  <2>3. CASE Finish(s) /\ UNCHANGED schedules
    <3>1. StoreOK'
      BY <1>2, <2>3 DEF TypeOK, StoreOK, ActivatePlan
    <3>2. LocalOK'
      BY <2>3, FinishType DEF TypeOK
    <3> QED
      BY <3>1, <3>2 DEF TypeOK
  <2>4. CASE ~(Finish(s) /\ UNCHANGED schedules)
    <3>1. RoutesKnown(view, r.patterns)
      BY <1>2, <2>4 DEF ActivatePlan
    <3>2. PICK airport \in AircraftAirports(r.aircraft, view.flights, now) :
            LET active == CanActivate(view, r.aircraft, r.patterns, airport)
                batch == PlanFlights(view, r.aircraft, r.patterns, r.round, active, fuel, now)
            IN  /\ schedules' = Upsert(schedules,
                       PlanSchedules(r.aircraft, r.patterns, r.round, active, now))
                /\ GoOn(s, "save_flights",
                       Writes(EmptyDoc, {}, DedupeGenerated(view.flights, batch),
                              PlanRouteSaves(view, r.patterns, active)))
      BY <1>2, <2>4 DEF ActivatePlan
    <3> DEFINE active == CanActivate(view, r.aircraft, r.patterns, airport)
               batch == PlanFlights(view, r.aircraft, r.patterns, r.round, active, fuel, now)
               planned == PlanSchedules(r.aircraft, r.patterns, r.round, active, now)
               saves == PlanRouteSaves(view, r.patterns, active)
    <3>3. /\ IsDoc(planned, ScheduleIds, ScheduleDoc)
          /\ IsDoc(saves, Nat, RouteSave)
          /\ DedupeGenerated(view.flights, batch) \subseteq Row
      <4> HIDE DEF active
      <4> QED
        BY <1>1, <2>2, <3>1, PlanTypes DEF SnapOK
    <3> HIDE DEF active, batch, planned, saves
    <3>4. IsDoc(schedules', ScheduleIds, ScheduleDoc)
      BY <1>1, <3>2, <3>3, UpsertIsDoc DEF planned, active
    <3>5. StoreOK'
      BY <1>2, <3>4 DEF TypeOK, StoreOK, ActivatePlan
    <3>6. WorkOK(Writes(EmptyDoc, {}, DedupeGenerated(view.flights, batch), saves))
      BY <3>3, EmptyIsDoc, WritesType
    <3>7. LocalOK'
      BY <3>2, <3>6, GoOnType DEF TypeOK, Labels, active, batch, saves
    <3> QED
      BY <3>5, <3>7 DEF TypeOK
  <2> QED
    BY <2>3, <2>4
<1>3. CASE ReplacePlan(s)
  <2> DEFINE kept == KeptFlights(view.flights, r.aircraft)
             rest == [routes |-> view.routes, flights |-> kept,
                      schedules |-> Without(view.schedules, OfAircraft(view.schedules, r.aircraft))]
  <2>1. r \in Replacements
    BY <1>3 DEF TypeOK, LocalOK, RequestOK, ReplacePlan
  <2>2. r.aircraft \in AircraftIds /\ r.patterns \in Seq(Patterns) /\ r.round \in BOOLEAN
    BY <2>1, OperationsAssumption DEF ScheduleBodies
  <2>3. CASE Finish(s) /\ UNCHANGED schedules
    <3>1. StoreOK'
      BY <1>3, <2>3 DEF TypeOK, StoreOK, ReplacePlan
    <3>2. LocalOK'
      BY <2>3, FinishType DEF TypeOK
    <3> QED
      BY <3>1, <3>2 DEF TypeOK
  <2>4. CASE ~(Finish(s) /\ UNCHANGED schedules)
    <3>1. RoutesKnown(rest, r.patterns)
      BY <1>3, <2>4 DEF ReplacePlan
    <3>2. PICK airport \in AircraftAirports(r.aircraft, kept, now) :
            LET active == CanActivate(rest, r.aircraft, r.patterns, airport)
                batch == PlanFlights(rest, r.aircraft, r.patterns, r.round, active, fuel, now)
                removed == OfAircraft(schedules, r.aircraft)
            IN  /\ schedules' = Without(schedules, removed)
                /\ GoOn(s, "delete_future",
                       Writes(PlanSchedules(r.aircraft, r.patterns, r.round, active, now),
                              removed, DedupeGenerated(kept, batch),
                              PlanRouteSaves(rest, r.patterns, active)))
      BY <1>3, <2>4 DEF ReplacePlan
    <3> DEFINE active == CanActivate(rest, r.aircraft, r.patterns, airport)
               batch == PlanFlights(rest, r.aircraft, r.patterns, r.round, active, fuel, now)
               planned == PlanSchedules(r.aircraft, r.patterns, r.round, active, now)
               saves == PlanRouteSaves(rest, r.patterns, active)
    <3>3. IsDoc(rest.routes, RouteIds, Route)
      BY <1>1 DEF SnapOK
    <3> HIDE DEF rest
    <3>4. /\ IsDoc(planned, ScheduleIds, ScheduleDoc)
          /\ IsDoc(saves, Nat, RouteSave)
          /\ DedupeGenerated(kept, batch) \subseteq Row
      <4> HIDE DEF active
      <4> QED
        BY <1>1, <2>2, <3>1, <3>3, PlanTypes
    <3> HIDE DEF active, batch, planned, saves
    <3>5. IsDoc(schedules', ScheduleIds, ScheduleDoc)
      BY <1>1, <3>2, WithoutIsDoc
    <3>6. StoreOK'
      BY <1>3, <3>5 DEF TypeOK, StoreOK, ReplacePlan
    <3>7. WorkOK(Writes(planned, OfAircraft(schedules, r.aircraft), DedupeGenerated(kept, batch), saves))
      BY <3>4, WritesType
    <3>8. LocalOK'
      BY <3>2, <3>7, GoOnType DEF TypeOK, Labels, active, batch, planned, saves
    <3> QED
      BY <3>6, <3>8 DEF TypeOK
  <2> QED
    BY <2>3, <2>4
<1> QED
  BY <1>2, <1>3

\* The steps that write schedules and flights after a plan keep the types.
LEMMA SaveType ==
  ASSUME TypeOK, NEW s \in Slots,
         DeleteFuture(s) \/ SaveSchedules(s) \/ SaveFlights(s)
  PROVE  TypeOK'
<1>1. WorkOK(work[s])
  BY DEF TypeOK, LocalOK
<1>2. CASE DeleteFuture(s)
  <2>1. StoreOK'
    BY <1>2 DEF TypeOK, StoreOK, DeleteFuture
  <2>2. WorkOK([work[s] EXCEPT !.removed = {}])
    BY <1>1 DEF WorkOK
  <2>3. LocalOK'
    BY <1>2, <2>2, GoOnType DEF TypeOK, DeleteFuture, Labels
  <2> QED
    BY <2>1, <2>3 DEF TypeOK
<1>3. CASE SaveSchedules(s)
  <2>1. IsDoc(schedules', ScheduleIds, ScheduleDoc)
    BY <1>1, <1>3, UpsertIsDoc DEF TypeOK, StoreOK, WorkOK, SaveSchedules
  <2>2. StoreOK'
    BY <1>3, <2>1 DEF TypeOK, StoreOK, SaveSchedules
  <2>3. WorkOK([work[s] EXCEPT !.schedules = EmptyDoc])
    BY <1>1, EmptyIsDoc DEF WorkOK
  <2>4. LocalOK'
    BY <1>3, <2>3, GoOnType DEF TypeOK, SaveSchedules, Labels
  <2> QED
    BY <2>2, <2>4 DEF TypeOK
<1>4. CASE SaveFlights(s)
  <2>1. flights' \subseteq Row
    BY <1>1, <1>4 DEF TypeOK, StoreOK, WorkOK, SaveFlights, MergeFlights
  <2>2. StoreOK'
    BY <1>4, <2>1 DEF TypeOK, StoreOK, SaveFlights
  <2>3. WorkOK([work[s] EXCEPT !.rows = {}])
    BY <1>1 DEF WorkOK
  <2>4. LocalOK'
    BY <1>4, <2>3, GoOnType DEF TypeOK, SaveFlights, Labels
  <2> QED
    BY <2>2, <2>4 DEF TypeOK
<1> QED
  BY <1>2, <1>3, <1>4

\* The read and the write of saveRoute keep the types.
LEMMA SaveRouteType ==
  ASSUME TypeOK, NEW s \in Slots, ReadRoutes(s) \/ WriteRoute(s)
  PROVE  TypeOK'
<1>1. WorkOK(work[s]) /\ IsDoc(routes, RouteIds, Route)
  BY DEF TypeOK, StoreOK, LocalOK
<1>2. CASE ReadRoutes(s)
  <2>1. StoreOK'
    BY <1>2 DEF TypeOK, StoreOK, ReadRoutes
  <2>2. WorkOK([work[s] EXCEPT !.copy = routes])
    BY <1>1 DEF WorkOK
  <2>3. LocalOK'
    BY <1>2, <2>2, FinishType, GoOnType DEF TypeOK, ReadRoutes, Labels
  <2> QED
    BY <2>1, <2>3 DEF TypeOK
<1>3. CASE WriteRoute(s)
  <2>1. PICK first \in DOMAIN work[s].saves :
          /\ routes' = WrittenRoutes(work[s].copy, work[s].saves[first])
          /\ \/ Finish(s)
             \/ GoOn(s, "write_route",
                     [work[s] EXCEPT !.saves = RemainingSaves(work[s].saves, first)])
    BY <1>3 DEF WriteRoute
  <2> DEFINE save == work[s].saves[first]
  <2>2. save \in RouteSave
    BY <1>1 DEF WorkOK, IsDoc
  <2>3. IsDoc([r \in {save.id} |-> save.route], RouteIds, Route)
    BY <2>2 DEF IsDoc, RouteSave
  <2>4. IsDoc(routes', RouteIds, Route)
    BY <1>1, <2>1, <2>3, UpsertIsDoc DEF WorkOK, WrittenRoutes
  <2>5. StoreOK'
    BY <1>3, <2>4 DEF TypeOK, StoreOK, WriteRoute
  <2>6. IsDoc(RemainingSaves(work[s].saves, first), Nat, RouteSave)
    BY <1>1, WithoutIsDoc DEF WorkOK, RemainingSaves
  <2>7. WorkOK([work[s] EXCEPT !.saves = RemainingSaves(work[s].saves, first)])
    BY <1>1, <2>6 DEF WorkOK
  <2>8. LocalOK'
    BY <2>1, <2>7, FinishType, GoOnType DEF TypeOK, Labels
  <2> QED
    BY <2>5, <2>8 DEF TypeOK
<1> QED
  BY <1>2, <1>3

\* Completing a stored row gives a stored row with its identity.
LEMMA CompletedFlightType ==
  ASSUME NEW f \in Row
  PROVE  CompletedFlight(f) \in Row /\ FlightId(CompletedFlight(f)) = FlightId(f)
<1> DEFINE result == IF f.actual = NoActual THEN f.expected ELSE f.actual
<1>1. result \in Money
  BY DEF Row
<1> HIDE DEF result
<1>2. CompletedFlight(f) = [[f EXCEPT !.status = "completed"] EXCEPT !.actual = result]
  BY DEF CompletedFlight, result
<1>3. [f EXCEPT !.status = "completed"] \in Row
  BY DEF Row, FlightStatus
<1> QED
  BY <1>1, <1>2, <1>3 DEF Row, FlightId

\* Cancelling a stored row gives a stored row with its identity.
LEMMA CancelledFlightType ==
  ASSUME NEW f \in Row
  PROVE  /\ [f EXCEPT !.status = "cancelled"] \in Row
         /\ FlightId([f EXCEPT !.status = "cancelled"]) = FlightId(f)
  BY DEF Row, FlightStatus, FlightId

\* Completing, cancelling and ferrying keep the types.
LEMMA FlightRequestType ==
  ASSUME TypeOK, NEW s \in Slots,
         CompleteSave(s) \/ CancelSave(s) \/ FerrySave(s)
  PROVE  TypeOK'
<1>1. /\ snap[s].flights \in SUBSET Row
      /\ flights \in SUBSET Row
      /\ Named(s) \subseteq Row
  BY DEF TypeOK, StoreOK, LocalOK, SnapOK, Named
<1>2. CASE CompleteSave(s)
  <2>1. PICK f \in Named(s) :
          \/ /\ ~Arrivable(f, now)
             /\ Finish(s)
             /\ UNCHANGED flights
          \/ /\ Arrivable(f, now)
             /\ flights' = MergeFlights(flights, {CompletedFlight(f)})
             /\ GoOn(s, "book", [NoWork EXCEPT !.rows = {CompletedFlight(f)}])
    BY <1>2 DEF CompleteSave
  <2>2. {CompletedFlight(f)} \subseteq Row
    BY <1>1, CompletedFlightType
  <2>3. flights' \subseteq Row
    BY <1>1, <2>1, <2>2 DEF MergeFlights
  <2>4. StoreOK'
    BY <1>2, <2>3 DEF TypeOK, StoreOK, CompleteSave
  <2>5. WorkOK([NoWork EXCEPT !.rows = {CompletedFlight(f)}])
    BY <2>2, EmptyIsDoc DEF WorkOK, NoWork, Writes
  <2>6. LocalOK'
    BY <2>1, <2>5, FinishType, GoOnType DEF TypeOK, Labels
  <2> QED
    BY <2>4, <2>6 DEF TypeOK
<1>3. CASE CancelSave(s)
  <2>1. flights' \subseteq Row
    BY <1>1, <1>3, CancelledFlightType DEF CancelSave, MergeFlights
  <2>2. StoreOK'
    BY <1>3, <2>1 DEF TypeOK, StoreOK, CancelSave
  <2>3. LocalOK'
    BY <1>3, FinishType DEF TypeOK, CancelSave
  <2> QED
    BY <2>2, <2>3 DEF TypeOK
<1>4. CASE FerrySave(s)
  <2>1. req[s] \in Ferries
    BY <1>4 DEF TypeOK, LocalOK, RequestOK, FerrySave
  <2>2. AircraftAirports(req[s].aircraft, snap[s].flights, now) \subseteq Airports
    <3>1. req[s].aircraft \in AircraftIds
      BY <2>1, OperationsAssumption
    <3> QED
      BY <1>1, <3>1, AircraftAirportsType
  <2>3. PICK airport \in Airports :
          \/ UNCHANGED <<flights, uuids>>
          \/ /\ flights' = MergeFlights(flights, FerryRows(snap[s].flights, req[s], airport))
             /\ uuids' = uuids + 1
    BY <1>4, <2>2 DEF FerrySave
  <2>4. FerryRows(snap[s].flights, req[s], airport) \subseteq Row
    BY <1>1, <2>1, FerryRowsType
  <2>5. flights' \subseteq Row /\ uuids' \in Nat
    BY <1>1, <2>3, <2>4 DEF TypeOK, StoreOK, MergeFlights
  <2>6. StoreOK'
    BY <1>4, <2>5 DEF TypeOK, StoreOK, FerrySave
  <2>7. LocalOK'
    BY <1>4, FinishType DEF TypeOK, FerrySave
  <2> QED
    BY <2>6, <2>7 DEF TypeOK
<1> QED
  BY <1>2, <1>3, <1>4

\* The transactions of typed rows: well typed, made now, and for flights that
\* have departed.
LEMMA FlightTransactionsType ==
  ASSUME NEW rows \in SUBSET Row, NEW t \in Nat
  PROVE  /\ FlightTransactions(rows, t) \subseteq Entry
         /\ \A n \in FlightTransactions(rows, t) :
               \E f \in rows : n.flight = FlightId(f) /\ HasDeparted(f, t)
         /\ \A n \in FlightTransactions(rows, t) : n.at = t
<1>1. \A f \in Row : (IF f.actual = NoActual THEN f.expected ELSE f.actual) \in Money
  BY DEF Row
<1>2. \A f \in Row : FlightId(f) \in (ScheduleIds \cup FerryIds) \X Nat
  BY DEF Row, FlightId
<1> QED
  BY <1>1, <1>2 DEF FlightTransactions, Entry

\* Booking keeps the types.
LEMMA BookType ==
  ASSUME TypeOK, NEW s \in Slots, Book(s)
  PROVE  TypeOK'
<1>1. FlightTransactions(work[s].rows, now) \subseteq Entry
  BY FlightTransactionsType DEF TypeOK, StoreOK, LocalOK, WorkOK
<1>2. ledger' \subseteq Entry
  BY <1>1 DEF TypeOK, StoreOK, Book, SaveLedger
<1>3. StoreOK'
  BY <1>2 DEF TypeOK, StoreOK, Book
<1>4. LocalOK'
  BY FinishType DEF TypeOK, Book
<1> QED
  BY <1>3, <1>4 DEF TypeOK

\* The steps of a route's deletion keep the types.
LEMMA DeleteType ==
  ASSUME TypeOK, NEW s \in Slots,
         DeleteRead(s) \/ DeleteWrite(s) \/ DeleteFlights(s) \/ DeleteSchedules(s)
  PROVE  TypeOK'
<1>1. CASE DeleteRead(s)
  <2>1. StoreOK'
    BY <1>1 DEF TypeOK, StoreOK, DeleteRead
  <2>2. WorkOK([NoWork EXCEPT !.copy = routes])
    BY EmptyIsDoc DEF TypeOK, StoreOK, WorkOK, NoWork, Writes
  <2>3. LocalOK'
    BY <1>1, <2>2, GoOnType DEF TypeOK, DeleteRead, Labels
  <2> QED
    BY <2>1, <2>3 DEF TypeOK
<1>2. CASE DeleteWrite(s)
  <2>1. IsDoc(routes', RouteIds, Route)
    BY <1>2, WithoutIsDoc DEF TypeOK, StoreOK, LocalOK, WorkOK, DeleteWrite
  <2>2. StoreOK'
    BY <1>2, <2>1 DEF TypeOK, StoreOK, DeleteWrite
  <2>3. LocalOK'
    BY <1>2, NothingLoaded, GoOnType DEF TypeOK, DeleteWrite, Labels
  <2> QED
    BY <2>2, <2>3 DEF TypeOK
<1>3. CASE DeleteFlights(s)
  <2>1. StoreOK'
    BY <1>3 DEF TypeOK, StoreOK, DeleteFlights
  <2>2. LocalOK'
    BY <1>3, NothingLoaded, GoOnType DEF TypeOK, DeleteFlights, Labels
  <2> QED
    BY <2>1, <2>2 DEF TypeOK
<1>4. CASE DeleteSchedules(s)
  <2>1. IsDoc(schedules', ScheduleIds, ScheduleDoc)
    BY <1>4, WithoutIsDoc DEF TypeOK, StoreOK, DeleteSchedules
  <2>2. StoreOK'
    BY <1>4, <2>1 DEF TypeOK, StoreOK, DeleteSchedules
  <2>3. LocalOK'
    BY <1>4, FinishType DEF TypeOK, DeleteSchedules
  <2> QED
    BY <2>2, <2>3 DEF TypeOK
<1> QED
  BY <1>1, <1>2, <1>3, <1>4

\* Time, the fuel market and a crash keep the types.
LEMMA WorldType ==
  ASSUME TypeOK, Tick \/ FuelMoves \/ Crash \/ UNCHANGED vars
  PROVE  TypeOK'
<1>1. CASE Tick
  BY <1>1 DEF TypeOK, StoreOK, LocalOK, Tick, store, local
<1>2. CASE FuelMoves
  BY <1>2 DEF TypeOK, StoreOK, LocalOK, FuelMoves, store, local
<1>3. CASE Crash
  <2>1. StoreOK'
    BY <1>3 DEF TypeOK, StoreOK, Crash, store, env
  <2>2. LocalOK'
    BY <1>3, NothingLoaded DEF LocalOK, Crash, Labels, RequestOK
  <2> QED
    BY <2>1, <2>2 DEF TypeOK
<1>4. CASE UNCHANGED vars
  BY <1>4 DEF TypeOK, StoreOK, LocalOK, vars
<1> QED
  BY <1>1, <1>2, <1>3, <1>4

\* Every step keeps the types.
LEMMA NextType == TypeOK /\ [Next]_vars => TypeOK'
<1> SUFFICES ASSUME TypeOK, [Next]_vars
             PROVE  TypeOK'
  OBVIOUS
<1>1. ASSUME NEW s \in Slots, Accept(s) \/ Continue(s)
      PROVE  TypeOK'
  BY <1>1, AcceptType, PlanType, SaveType, SaveRouteType, FlightRequestType, BookType,
     DeleteType DEF Continue
<1> QED
  BY <1>1, WorldType DEF Next

\* The stored documents and every handler's copy of them keep their shape in
\* every behaviour, for any network, requests and number of slots.
THEOREM TypeCorrect == Spec => []TypeOK
  BY InitType, NextType, PTL DEF Spec

-----------------------------------------------------------------------------
(* Unique ids, completions after arrival, single settlements.  The rows a  *)
(* request carries from its load to its save must be as good as the stored *)
(* ones, so the invariant speaks of the copies too.                        *)

\* What the slots hold.
CopiesOK == \A s \in Slots : RowsOK(snap[s].flights, now) /\ RowsOK(work[s].rows, now)

\* A flight is settled at most once.
BookedOnce == \A e1, e2 \in ledger : e1.flight = e2.flight => e1 = e2

Sound == RowsOK(flights, now) /\ CopiesOK /\ BookedOnce

\* The inductive invariant.
IInv == TypeOK /\ Sound

\* Merging good rows into good rows gives good rows.
LEMMA MergeOK ==
  ASSUME NEW rows, NEW next, NEW t, RowsOK(rows, t), RowsOK(next, t)
  PROVE  RowsOK(MergeFlights(rows, next), t)
  BY DEF RowsOK, UniqueIds, OnTime, MergeFlights, Ids

\* Fewer rows of a good set are good.
LEMMA FewerOK ==
  ASSUME NEW rows, NEW fewer \in SUBSET rows, NEW t, RowsOK(rows, t)
  PROVE  RowsOK(fewer, t)
  BY DEF RowsOK, UniqueIds, OnTime

\* A single row that is on time is good.
LEMMA SingletonOK ==
  ASSUME NEW f, NEW t, Timely(f, t)
  PROVE  RowsOK({f}, t)
  BY DEF RowsOK, UniqueIds, OnTime

\* No rows are good rows.
LEMMA NoRowsOK ==
  ASSUME NEW t
  PROVE  RowsOK({}, t)
  BY DEF RowsOK, UniqueIds, OnTime

\* One slot moves on with good copies.
LEMMA CopiesStep ==
  ASSUME LocalOK, CopiesOK, NEW s \in Slots, NEW view, NEW w,
         RowsOK(view.flights, now), RowsOK(w.rows, now),
         snap' = [snap EXCEPT ![s] = view],
         work' = [work EXCEPT ![s] = w],
         now' = now
  PROVE  CopiesOK'
  BY DEF LocalOK, CopiesOK

\* A request that ends leaves its slot without rows.
LEMMA FinishOK ==
  ASSUME IInv, NEW s \in Slots, Finish(s), now' = now
  PROVE  CopiesOK'
<1>1. RowsOK(NoSnapshot.flights, now) /\ RowsOK(NoWork.rows, now)
  BY NoRowsOK DEF NoSnapshot, NoWork, Writes
<1> QED
  BY <1>1, CopiesStep DEF IInv, Sound, TypeOK, Finish

\* A request is accepted or goes on with good rows.
LEMMA SuspendOK ==
  ASSUME IInv, NEW s \in Slots, NEW label, NEW w, RowsOK(w.rows, now),
         Suspend(s, label, w), now' = now
  PROVE  CopiesOK'
<1>1. RowsOK(NoSnapshot.flights, now)
  BY NoRowsOK DEF NoSnapshot
<1> QED
  BY <1>1, CopiesStep DEF IInv, Sound, TypeOK, Suspend

\* The snapshot of good flights is good.
LEMMA LoadedSnapshotOK ==
  ASSUME IInv
  PROVE  RowsOK(LoadedSnapshot.flights, now)
<1> DEFINE load(f) == LoadFlight(f, routes, schedules, fuel, now)
<1>1. ASSUME NEW f \in flights
      PROVE  /\ FlightId(load(f)) = FlightId(f)
             /\ load(f).status = f.status
             /\ load(f).dep = f.dep
  <2>1. f \in Row
    BY DEF IInv, TypeOK, StoreOK
  <2>2. FlightId(load(f)) = FlightId(f) /\ load(f) \in Row
    BY <2>1, LoadFlightType DEF IInv, TypeOK, StoreOK
  <2>3. load(f).status = f.status /\ load(f).dep = f.dep
    <3> DEFINE g == RecomputeExpected(f, routes, schedules, fuel)
    <3>1. g.status = f.status /\ g.dep = f.dep /\ g = [g EXCEPT !.actual = g.actual]
      BY <2>1 DEF RecomputeExpected, Row
    <3> HIDE DEF g
    <3>2. SettleDeparted(g, now).status = g.status /\ SettleDeparted(g, now).dep = g.dep
      BY <3>1 DEF SettleDeparted
    <3> QED
      BY <3>1, <3>2 DEF LoadFlight, g
  <2> QED
    BY <2>2, <2>3
<1>2. LoadedSnapshot.flights = {load(f) : f \in flights}
  BY DEF LoadedSnapshot
<1> HIDE DEF load
<1> QED
  BY <1>1, <1>2 DEF IInv, Sound, RowsOK, UniqueIds, OnTime, Timely, Arrival

\* Accepting a request.
LEMMA AcceptOK ==
  ASSUME IInv, NEW s \in Slots, Accept(s)
  PROVE  Sound'
<1>1. UNCHANGED <<now, flights, ledger>>
  BY DEF Accept, ActivateLoad, ReplaceLoad, CompleteLoad, CancelLoad, FerryLoad,
         FinanceLoad, PatchFind, DeleteFind, Load
<1>2. ASSUME NEW kind, NEW r, Load(kind, s, r)
      PROVE  CopiesOK'
  <2>1. RowsOK(work[s].rows, now) /\ work' = [work EXCEPT ![s] = work[s]]
    BY <1>2 DEF IInv, Sound, CopiesOK, TypeOK, LocalOK, Load
  <2> QED
    BY <1>1, <1>2, <2>1, LoadedSnapshotOK, CopiesStep DEF IInv, Sound, TypeOK, Load
<1>3. CASE FinanceLoad(s)
  <2>1. RowsOK([NoWork EXCEPT !.rows = LoadedSnapshot.flights].rows, now)
    BY LoadedSnapshotOK DEF NoWork, Writes
  <2> QED
    BY <1>1, <1>3, <2>1, SuspendOK DEF FinanceLoad, IInv, Sound, RowsOK, BookedOnce
<1>4. CASE PatchFind(s)
  <2>1. PICK saves : Suspend(s, "save_routes", [NoWork EXCEPT !.saves = saves])
    BY <1>4 DEF PatchFind
  <2>2. RowsOK([NoWork EXCEPT !.saves = saves].rows, now)
    BY NoRowsOK DEF NoWork, Writes
  <2> QED
    BY <1>1, <2>1, <2>2, SuspendOK DEF IInv, Sound, RowsOK, BookedOnce
<1>5. CASE DeleteFind(s)
  BY <1>1, <1>5 DEF DeleteFind, IInv, Sound, CopiesOK, RowsOK, BookedOnce
<1>6. CopiesOK'
  BY <1>2, <1>3, <1>4, <1>5 DEF Accept, ActivateLoad, ReplaceLoad, CompleteLoad,
     CancelLoad, FerryLoad, Sound
<1> QED
  BY <1>1, <1>6 DEF IInv, Sound, RowsOK, BookedOnce

\* Planning an activation or a replacement: the rows to save are good.
LEMMA PlanOK ==
  ASSUME IInv, NEW s \in Slots, ActivatePlan(s) \/ ReplacePlan(s)
  PROVE  Sound'
<1> DEFINE r == req[s]
           view == snap[s]
<1>1. UNCHANGED <<now, flights, ledger>>
  BY DEF ActivatePlan, ReplacePlan
<1>2. /\ SnapOK(view)
      /\ now \in Nat
      /\ fuel \in FuelPrices
  BY DEF IInv, TypeOK, StoreOK, LocalOK
<1>3. CASE Finish(s)
  BY <1>1, <1>3, FinishOK DEF IInv, Sound, RowsOK, BookedOnce
<1>4. CASE ActivatePlan(s) /\ ~Finish(s)
  <2>1. r.aircraft \in AircraftIds /\ r.patterns \in Seq(Patterns) /\ r.round \in BOOLEAN
    BY <1>4, OperationsAssumption
       DEF IInv, TypeOK, LocalOK, RequestOK, ActivatePlan, ScheduleBodies
  <2>2. RoutesKnown(view, r.patterns)
    BY <1>4 DEF ActivatePlan
  <2>3. PICK active, saves :
          GoOn(s, "save_flights",
               Writes(EmptyDoc, {},
                      DedupeGenerated(view.flights,
                          PlanFlights(view, r.aircraft, r.patterns, r.round, active, fuel, now)),
                      saves))
    BY <1>4 DEF ActivatePlan
  <2> DEFINE rows == DedupeGenerated(view.flights,
                         PlanFlights(view, r.aircraft, r.patterns, r.round, active, fuel, now))
  <2>4. RowsOK(rows, now)
    BY <1>2, <2>1, <2>2, PlanTypes DEF SnapOK
  <2>5. RowsOK(Writes(EmptyDoc, {}, rows, saves).rows, now)
    BY <2>4 DEF Writes
  <2>6. CopiesOK'
    BY <1>1, <2>3, <2>5, SuspendOK DEF GoOn
  <2> QED
    BY <1>1, <2>6 DEF IInv, Sound, RowsOK, BookedOnce
<1>5. CASE ReplacePlan(s) /\ ~Finish(s)
  <2> DEFINE kept == KeptFlights(view.flights, r.aircraft)
             rest == [routes |-> view.routes, flights |-> kept,
                      schedules |-> Without(view.schedules, OfAircraft(view.schedules, r.aircraft))]
  <2>1. r.aircraft \in AircraftIds /\ r.patterns \in Seq(Patterns) /\ r.round \in BOOLEAN
    BY <1>5, OperationsAssumption
       DEF IInv, TypeOK, LocalOK, RequestOK, ReplacePlan, ScheduleBodies
  <2>2. RoutesKnown(rest, r.patterns)
    BY <1>5 DEF ReplacePlan
  <2>3. PICK planned, removed, active, saves :
          GoOn(s, "delete_future",
               Writes(planned, removed,
                      DedupeGenerated(kept,
                          PlanFlights(rest, r.aircraft, r.patterns, r.round, active, fuel, now)),
                      saves))
    BY <1>5 DEF ReplacePlan
  <2>4. IsDoc(rest.routes, RouteIds, Route)
    BY <1>2 DEF SnapOK
  <2> HIDE DEF rest
  <2> DEFINE rows == DedupeGenerated(kept,
                         PlanFlights(rest, r.aircraft, r.patterns, r.round, active, fuel, now))
  <2>5. RowsOK(rows, now)
    BY <1>2, <2>1, <2>2, <2>4, PlanTypes
  <2>6. RowsOK(Writes(planned, removed, rows, saves).rows, now)
    BY <2>5 DEF Writes
  <2>7. CopiesOK'
    BY <1>1, <2>3, <2>6, SuspendOK DEF GoOn
  <2> QED
    BY <1>1, <2>7 DEF IInv, Sound, RowsOK, BookedOnce
<1> QED
  BY <1>3, <1>4, <1>5

\* The steps that write after a plan, those of a route's deletion and those of
\* saveRoute: good rows are merged, or rows go.
LEMMA SaveOK ==
  ASSUME IInv, NEW s \in Slots,
         \/ DeleteFuture(s) \/ SaveSchedules(s) \/ SaveFlights(s)
         \/ ReadRoutes(s) \/ WriteRoute(s)
         \/ DeleteRead(s) \/ DeleteWrite(s) \/ DeleteFlights(s) \/ DeleteSchedules(s)
  PROVE  Sound'
<1>1. UNCHANGED <<now, ledger>>
  BY DEF DeleteFuture, SaveSchedules, SaveFlights, ReadRoutes, WriteRoute, DeleteRead,
         DeleteWrite, DeleteFlights, DeleteSchedules
<1>2. RowsOK(flights', now)
  <2>1. CASE SaveFlights(s)
    BY <2>1, MergeOK DEF SaveFlights, IInv, Sound, CopiesOK
  <2>2. CASE flights' \subseteq flights
    BY <2>2, FewerOK DEF IInv, Sound
  <2> QED
    BY <2>1, <2>2 DEF DeleteFuture, SaveSchedules, ReadRoutes, WriteRoute, DeleteRead,
       DeleteWrite, DeleteFlights, DeleteSchedules
<1>3. /\ RowsOK([work[s] EXCEPT !.removed = {}].rows, now)
      /\ RowsOK([work[s] EXCEPT !.schedules = EmptyDoc].rows, now)
      /\ RowsOK([work[s] EXCEPT !.rows = {}].rows, now)
      /\ RowsOK([work[s] EXCEPT !.copy = routes].rows, now)
      /\ \A saves : RowsOK([work[s] EXCEPT !.saves = saves].rows, now)
      /\ RowsOK([NoWork EXCEPT !.copy = routes].rows, now)
      /\ RowsOK(NoWork.rows, now)
  <2>1. RowsOK(work[s].rows, now) /\ WorkOK(work[s])
    BY DEF IInv, Sound, CopiesOK, TypeOK, LocalOK
  <2>2. RowsOK({}, now)
    BY NoRowsOK
  <2> QED
    BY <2>1, <2>2 DEF WorkOK, NoWork, Writes
<1>4. CopiesOK'
  BY <1>1, <1>3, FinishOK, SuspendOK
     DEF DeleteFuture, SaveSchedules, SaveFlights, ReadRoutes, WriteRoute, DeleteRead,
         DeleteWrite, DeleteFlights, DeleteSchedules, GoOn
<1> QED
  BY <1>1, <1>2, <1>4 DEF IInv, Sound, BookedOnce

\* Completing, cancelling and ferrying: the one row that is merged is good.
LEMMA FlightRequestOK ==
  ASSUME IInv, NEW s \in Slots,
         CompleteSave(s) \/ CancelSave(s) \/ FerrySave(s)
  PROVE  Sound'
<1>1. UNCHANGED <<now, ledger>>
  BY DEF CompleteSave, CancelSave, FerrySave
<1>2. /\ Named(s) \subseteq Row
      /\ OnTime(Named(s), now)
      /\ RowsOK(flights, now)
  BY DEF IInv, Sound, CopiesOK, RowsOK, OnTime, TypeOK, LocalOK, SnapOK, Named
<1>3. CASE CompleteSave(s)
  <2>1. PICK f \in Named(s) :
          \/ Finish(s) /\ UNCHANGED flights
          \/ /\ Arrivable(f, now)
             /\ flights' = MergeFlights(flights, {CompletedFlight(f)})
             /\ GoOn(s, "book", [NoWork EXCEPT !.rows = {CompletedFlight(f)}])
    BY <1>3 DEF CompleteSave
  <2>2. CASE Finish(s) /\ UNCHANGED flights
    BY <1>1, <2>2, FinishOK DEF IInv, Sound, RowsOK, BookedOnce
  <2>3. CASE /\ Arrivable(f, now)
             /\ flights' = MergeFlights(flights, {CompletedFlight(f)})
             /\ GoOn(s, "book", [NoWork EXCEPT !.rows = {CompletedFlight(f)}])
    <3>1. Arrival(CompletedFlight(f)) <= now
      <4>1. Arrival(f) <= now
        BY <1>2, <2>3 DEF Arrivable, OnTime, Timely
      <4>2. CompletedFlight(f).dep = f.dep
        BY <1>2, CompletedFlightType DEF FlightId
      <4> QED
        BY <4>1, <4>2 DEF Arrival
    <3>2. RowsOK({CompletedFlight(f)}, now)
      <4>1. CompletedFlight(f).status = "completed"
        BY <1>2 DEF CompletedFlight, Row
      <4> QED
        BY <3>1, <4>1, SingletonOK DEF Timely
    <3>3. RowsOK(flights', now)
      BY <1>2, <2>3, <3>2, MergeOK
    <3>4. RowsOK([NoWork EXCEPT !.rows = {CompletedFlight(f)}].rows, now)
      BY <3>2 DEF NoWork, Writes
    <3>5. CopiesOK'
      BY <1>1, <2>3, <3>4, SuspendOK DEF GoOn
    <3> QED
      BY <1>1, <3>3, <3>5 DEF IInv, Sound, BookedOnce
  <2> QED
    BY <2>1, <2>2, <2>3
<1>4. CASE CancelSave(s)
  <2>1. ASSUME NEW f \in Named(s)
        PROVE  RowsOK({[f EXCEPT !.status = "cancelled"]}, now)
    <3>1. [f EXCEPT !.status = "cancelled"].status = "cancelled"
      BY <1>2 DEF Row
    <3> QED
      BY <3>1, SingletonOK DEF Timely
  <2>2. RowsOK(flights', now)
    BY <1>2, <1>4, <2>1, MergeOK DEF CancelSave
  <2>3. CopiesOK'
    BY <1>1, <1>4, FinishOK DEF CancelSave
  <2> QED
    BY <1>1, <2>2, <2>3 DEF IInv, Sound, BookedOnce
<1>5. CASE FerrySave(s)
  <2>1. /\ req[s] \in Ferries
        /\ snap[s].flights \in SUBSET Row
        /\ now \in Nat
    BY <1>5 DEF IInv, TypeOK, StoreOK, LocalOK, SnapOK, RequestOK, FerrySave
  <2>2. req[s].aircraft \in AircraftIds /\ req[s].dep \in Nat
    BY <2>1, OperationsAssumption
  <2>3. AircraftAirports(req[s].aircraft, snap[s].flights, now) \subseteq Airports
    BY <2>1, <2>2, AircraftAirportsType
  <2>4. PICK airport \in Airports :
          \/ UNCHANGED flights
          \/ flights' = MergeFlights(flights, FerryRows(snap[s].flights, req[s], airport))
    BY <1>5, <2>3 DEF FerrySave
  <2>5. RowsOK({FerryFlight(req[s], airport)}, now)
    <3>1. /\ FerryFlight(req[s], airport).dep = req[s].dep
          /\ FerryFlight(req[s], airport).status
                 = CurrentStatus("scheduled", req[s].dep, now)
      BY DEF FerryFlight
    <3> QED
      BY <2>1, <2>2, <3>1, TimelyStatus, SingletonOK
  <2>6. FerryRows(snap[s].flights, req[s], airport) \subseteq {FerryFlight(req[s], airport)}
    BY <2>1, FerryRowsType DEF IInv
  <2>7. RowsOK(FerryRows(snap[s].flights, req[s], airport), now)
    BY <2>5, <2>6, FewerOK
  <2>8. RowsOK(flights', now)
    BY <1>2, <2>4, <2>7, MergeOK
  <2>9. CopiesOK'
    BY <1>1, <1>5, FinishOK DEF FerrySave
  <2> QED
    BY <1>1, <2>8, <2>9 DEF IInv, Sound, BookedOnce
<1> QED
  BY <1>3, <1>4, <1>5

\* Booking: the transactions of good rows settle each flight once, and those
\* of a flight that is already settled are left out.
LEMMA BookOnce ==
  ASSUME IInv, NEW s \in Slots, Book(s)
  PROVE  /\ ledger \subseteq ledger'
         /\ \A e \in ledger' \ ledger :
               /\ e.at = now
               /\ e.flight[2] <= now
               /\ \A d \in ledger : d.flight # e.flight
         /\ BookedOnce'
<1> DEFINE rows == work[s].rows
           new == FlightTransactions(rows, now)
<1>1. /\ rows \in SUBSET Row
      /\ now \in Nat
      /\ UniqueIds(rows)
  BY DEF IInv, Sound, CopiesOK, RowsOK, TypeOK, StoreOK, LocalOK, WorkOK
<1>2. ASSUME NEW m \in new, NEW n \in new, m.flight = n.flight
      PROVE  m = n
  <2>1. PICK f \in rows : m = [flight |-> FlightId(f), at |-> now,
                               amount |-> IF f.actual = NoActual THEN f.expected ELSE f.actual]
    BY DEF FlightTransactions
  <2>2. PICK g \in rows : n = [flight |-> FlightId(g), at |-> now,
                               amount |-> IF g.actual = NoActual THEN g.expected ELSE g.actual]
    BY DEF FlightTransactions
  <2>3. f = g
    BY <1>1, <1>2, <2>1, <2>2 DEF UniqueIds
  <2> QED
    BY <2>1, <2>2, <2>3
<1>3. ASSUME NEW n \in new
      PROVE  n.at = now /\ n.flight[2] <= now
  <2>1. PICK f \in rows : n.flight = FlightId(f) /\ HasDeparted(f, now)
    BY <1>1, FlightTransactionsType
  <2> QED
    BY <1>1, <2>1, FlightTransactionsType DEF HasDeparted, FlightId
<1>4. ledger' = ledger \cup {n \in new : n.flight \notin {e.flight : e \in ledger}}
  BY DEF Book, SaveLedger
<1> HIDE DEF new
<1> QED
  BY <1>2, <1>3, <1>4 DEF IInv, Sound, BookedOnce

\* Booking changes the ledger only.
LEMMA BookOK ==
  ASSUME IInv, NEW s \in Slots, Book(s)
  PROVE  Sound'
<1>1. UNCHANGED <<now, flights>>
  BY DEF Book
<1>2. CopiesOK'
  BY <1>1, FinishOK DEF Book
<1> QED
  BY <1>1, <1>2, BookOnce DEF IInv, Sound, RowsOK

\* Time, the fuel market and a crash: what has arrived stays arrived, and a
\* crash leaves no copies.
LEMMA WorldOK ==
  ASSUME IInv, Tick \/ FuelMoves \/ Crash \/ UNCHANGED vars
  PROVE  Sound'
<1>1. CASE Tick
  <2>1. ASSUME NEW rows \in SUBSET Row, RowsOK(rows, now)
        PROVE  RowsOK(rows, now + 1)
    <3>1. now \in Nat
      BY DEF IInv, TypeOK, StoreOK
    <3>2. \A f \in rows : Timely(f, now) => Timely(f, now + 1)
      BY <3>1, TimeAssumption DEF Row, Arrival, Timely
    <3> QED
      BY <2>1, <3>2 DEF RowsOK, OnTime
  <2>2. /\ flights \in SUBSET Row
        /\ \A s \in Slots : snap[s].flights \in SUBSET Row /\ work[s].rows \in SUBSET Row
    BY DEF IInv, TypeOK, StoreOK, LocalOK, SnapOK, WorkOK
  <2>3. now' = now + 1 /\ UNCHANGED <<flights, ledger, snap, work>>
    BY <1>1 DEF Tick, store, local
  <2>4. RowsOK(flights, now)' /\ CopiesOK'
    BY <2>1, <2>2, <2>3 DEF IInv, Sound, CopiesOK
  <2> QED
    BY <2>3, <2>4 DEF IInv, Sound, BookedOnce
<1>2. CASE Crash
  <2>1. UNCHANGED <<now, flights, ledger>>
    BY <1>2 DEF Crash, env, store
  <2>2. CopiesOK'
    BY <1>2, <2>1, NoRowsOK DEF Crash, CopiesOK, NoSnapshot, NoWork, Writes
  <2> QED
    BY <2>1, <2>2 DEF IInv, Sound, BookedOnce
<1>3. CASE FuelMoves \/ UNCHANGED vars
  <2>1. UNCHANGED <<now, flights, ledger, snap, work>>
    BY <1>3 DEF FuelMoves, store, local, vars
  <2> QED
    BY <2>1 DEF IInv, Sound, CopiesOK, BookedOnce
<1> QED
  BY <1>1, <1>2, <1>3

\* The invariant holds initially.
LEMMA InitOK == Init => IInv
<1> SUFFICES ASSUME Init
             PROVE  IInv
  OBVIOUS
<1>1. RowsOK(flights, now) /\ CopiesOK
  BY NoRowsOK DEF Init, CopiesOK, NoSnapshot, NoWork, Writes
<1>2. BookedOnce
  BY DEF Init, BookedOnce
<1> QED
  BY <1>1, <1>2, InitType DEF IInv, Sound

\* Every step preserves the invariant.
LEMMA NextOK == IInv /\ [Next]_vars => IInv'
<1> SUFFICES ASSUME IInv, [Next]_vars
             PROVE  IInv'
  OBVIOUS
<1>1. TypeOK'
  BY NextType DEF IInv
<1>2. ASSUME NEW s \in Slots, Accept(s) \/ Continue(s)
      PROVE  Sound'
  BY <1>2, AcceptOK, PlanOK, SaveOK, FlightRequestOK, BookOK DEF Continue
<1>3. Sound'
  BY <1>2, WorldOK DEF Next
<1> QED
  BY <1>1, <1>3 DEF IInv

\* The invariant holds throughout.
LEMMA Invariance == Spec => []IInv
  BY InitOK, NextOK, PTL DEF Spec

\* A flight is one row of the flights document, whatever requests overlap or
\* are lost: the merge of saveFlights and the order of dedupeGeneratedFlights.
THEOREM FlightIdsUnique == Spec => []UniqueFlightIds
<1>1. IInv => UniqueFlightIds
  BY DEF IInv, Sound, RowsOK, UniqueFlightIds
<1> QED
  BY <1>1, Invariance, PTL

\* The same of every snapshot and of the rows every request is about to save.
THEOREM CopiesUnique == Spec => []UniqueCopies
<1>1. IInv => UniqueCopies
  BY DEF IInv, Sound, CopiesOK, RowsOK, UniqueCopies
<1> QED
  BY <1>1, Invariance, PTL

\* A stored flight is completed only once it has arrived, also when a stale
\* snapshot decided it.
THEOREM CompletionsArrived == Spec => []CompletedHasArrived
<1>1. IInv => CompletedHasArrived
  BY DEF IInv, Sound, RowsOK, OnTime, Timely, CompletedHasArrived
<1> QED
  BY <1>1, Invariance, PTL

-----------------------------------------------------------------------------
(* The ledger implements Settlement.                                       *)

\* Every step that leaves the clock and the ledger alone is a stutter; a
\* booking is a settlement; a tick is an advance.
LEMMA StepRefines == IInv /\ [Next]_vars => [Books!Next]_(Books!vars)
<1> SUFFICES ASSUME IInv, [Next]_vars
             PROVE  [Books!Next]_(Books!vars)
  OBVIOUS
<1>1. ASSUME NEW s \in Slots, Book(s)
      PROVE  Books!Settle
  BY <1>1, BookOnce
     DEF Books!Settle, Books!Departure, Books!Settled, Books!OncePerFlight, BookedOnce, Book
<1>2. CASE Tick
  BY <1>2 DEF Tick, store, Books!Next, Books!Advance
<1>3. CASE UNCHANGED <<now, ledger>>
  BY <1>3 DEF Books!vars
<1>4. ASSUME NEW s \in Slots, Accept(s)
      PROVE  UNCHANGED <<now, ledger>>
  BY <1>4 DEF Accept, ActivateLoad, ReplaceLoad, CompleteLoad, CancelLoad, FerryLoad,
         FinanceLoad, PatchFind, DeleteFind, Load
<1>5. ASSUME NEW s \in Slots, Continue(s), ~Book(s)
      PROVE  UNCHANGED <<now, ledger>>
  BY <1>5 DEF Continue, ActivatePlan, ReplacePlan, DeleteFuture, SaveSchedules, SaveFlights,
         ReadRoutes, WriteRoute, CompleteSave, CancelSave, FerrySave, DeleteRead, DeleteWrite,
         DeleteFlights, DeleteSchedules
<1>6. ASSUME FuelMoves \/ Crash \/ UNCHANGED vars
      PROVE  UNCHANGED <<now, ledger>>
  BY <1>6 DEF FuelMoves, Crash, store, env, vars
<1> QED
  BY <1>1, <1>2, <1>3, <1>4, <1>5, <1>6 DEF Next, Books!Next

\* The ledger only grows, settles a flight once and not before it departs, and
\* revises nothing.
THEOREM LedgerImplementsSettlement == Spec => BooksSpec
<1>1. Init => Books!Init
  BY DEF Init, Books!Init
<1> QED
  BY <1>1, StepRefines, Invariance, PTL DEF Spec, BooksSpec, Books!Spec

-----------------------------------------------------------------------------
(* Least elements.                                                         *)

\* A set of numbers has a least one.
LEMMA LeastNumber ==
  ASSUME NEW T \in SUBSET Nat, T # {}
  PROVE  \E n \in T : \A m \in T : n <= m
<1>1. PICK n \in T : \A m \in T : ~(<<m, n>> \in OpToRel(<, Nat))
  BY WFMin, NatLessThanWellFounded
<1>2. \A m \in T : ~(m < n)
  BY <1>1 DEF OpToRel
<1> QED
  BY <1>2

\* Of some pairs one comes first.
LEMMA FirstPair ==
  ASSUME NEW T \in SUBSET (Nat \X Nat), T # {}
  PROVE  \E j \in T : \A k \in T : ~Before(k, j)
<1>1. PICK m \in {j[1] : j \in T} : \A x \in {j[1] : j \in T} : m <= x
  <2>1. {j[1] : j \in T} \in SUBSET Nat /\ {j[1] : j \in T} # {}
    OBVIOUS
  <2> QED
    BY <2>1, LeastNumber
<1> DEFINE R == {j \in T : j[1] = m}
<1>2. PICK n \in {j[2] : j \in R} : \A x \in {j[2] : j \in R} : n <= x
  <2>1. {j[2] : j \in R} \in SUBSET Nat /\ {j[2] : j \in R} # {}
    OBVIOUS
  <2> QED
    BY <2>1, LeastNumber
<1>3. PICK j \in R : j[2] = n
  OBVIOUS
<1>4. ASSUME NEW k \in T, Before(k, j)
      PROVE  FALSE
  <2>1. /\ k[1] \in Nat /\ k[2] \in Nat /\ j[1] \in Nat /\ j[2] \in Nat
        /\ j[1] = m /\ m <= k[1]
    BY <1>1, <1>3
  <2>2. k[1] = m /\ k[2] < n
    BY <1>3, <1>4, <2>1 DEF Before
  <2>3. n <= k[2]
    BY <1>2, <2>2
  <2> QED
    BY <1>3, <2>1, <2>2, <2>3
<1> QED
  BY <1>3, <1>4

-----------------------------------------------------------------------------
(* Planning.                                                               *)

\* f takes, in order, what is good and clashes with nothing taken before.
IsFirstFit(f, n, Good, Clash) ==
  /\ f = [i \in 1 .. n |-> f[i]]
  /\ \A i \in 1 .. n :
        f[i] = (/\ i \in Good
                /\ \A j \in 1 .. (i - 1) : ~(f[j] /\ <<j, i>> \in Clash))

\* There is such a choice.
LEMMA FirstFit ==
  ASSUME NEW n \in Nat, NEW Good, NEW Clash
  PROVE  \E f : IsFirstFit(f, n, Good, Clash)
<1> DEFINE T == {m \in Nat : ~\E f : IsFirstFit(f, m, Good, Clash)}
<1>1. SUFFICES ASSUME T # {}
               PROVE  FALSE
  OBVIOUS
<1>2. PICK m \in T : \A k \in T : m <= k
  BY <1>1, LeastNumber
<1>3. m # 0
  <2>1. IsFirstFit([i \in 1 .. 0 |-> FALSE], 0, Good, Clash)
    BY DEF IsFirstFit
  <2> QED
    BY <2>1
<1>4. m \in Nat /\ m - 1 \in Nat /\ m - 1 \notin T
  <2>1. m \in Nat
    OBVIOUS
  <2> HIDE DEF T
  <2> QED
    BY <1>2, <1>3, <2>1
<1>5. PICK f : IsFirstFit(f, m - 1, Good, Clash)
  BY <1>4
<1> DEFINE last == /\ m \in Good
                   /\ \A j \in 1 .. (m - 1) : ~(f[j] /\ <<j, m>> \in Clash)
           g == [i \in 1 .. m |-> IF i = m THEN last ELSE f[i]]
<1>6. ASSUME NEW i \in 1 .. m
      PROVE  g[i] = (/\ i \in Good
                     /\ \A j \in 1 .. (i - 1) : ~(g[j] /\ <<j, i>> \in Clash))
  <2>1. ASSUME NEW j \in 1 .. (i - 1)
        PROVE  g[j] = f[j]
    <3>1. j \in 1 .. m /\ j # m
      BY <1>4
    <3> QED
      BY <3>1
  <2>2. CASE i = m
    BY <2>1, <2>2
  <2>3. CASE i # m
    <3>1. i \in 1 .. (m - 1) /\ g[i] = f[i]
      BY <1>4, <2>3
    <3>2. f[i] = (/\ i \in Good
                  /\ \A j \in 1 .. (i - 1) : ~(f[j] /\ <<j, i>> \in Clash))
      BY <1>5, <3>1 DEF IsFirstFit
    <3> QED
      BY <2>1, <3>1, <3>2
  <2> QED
    BY <2>2, <2>3
<1>7. IsFirstFit(g, m, Good, Clash)
  <2>1. g = [i \in 1 .. m |-> g[i]]
    OBVIOUS
  <2> HIDE DEF g
  <2> QED
    BY <1>6, <2>1 DEF IsFirstFit
<1> QED
  BY <1>2, <1>7

\* Each pattern is active exactly when it is ready and overlaps with no active
\* one before it.
InOrder(active, view, a, patterns, airport) ==
  \A i \in DOMAIN patterns :
     active[i] = (/\ Ready(view, a, patterns[i], airport)
                  /\ \A j \in 1 .. (i - 1) :
                        ~(active[j] /\ Overlaps(patterns[j], patterns[i])))

\* That is what CanActivate computes.
LEMMA ActivePatterns ==
  ASSUME NEW view, NEW a, NEW patterns \in Seq(Patterns), NEW airport
  PROVE  InOrder(CanActivate(view, a, patterns, airport), view, a, patterns, airport)
<1> DEFINE n == Len(patterns)
           Good == {k \in 1 .. n : Ready(view, a, patterns[k], airport)}
           Clash == {k \in (1 .. n) \X (1 .. n) : Overlaps(patterns[k[1]], patterns[k[2]])}
           Fits(f) == f = [k \in DOMAIN patterns |->
                             /\ Ready(view, a, patterns[k], airport)
                             /\ \A j \in 1 .. (k - 1) :
                                   ~(f[j] /\ Overlaps(patterns[j], patterns[k]))]
<1>1. n \in Nat /\ DOMAIN patterns = 1 .. n
  OBVIOUS
<1>2. PICK f : IsFirstFit(f, n, Good, Clash)
  <2> HIDE DEF n, Good, Clash
  <2> QED
    BY <1>1, FirstFit
<1>3. ASSUME NEW k \in 1 .. n
      PROVE  /\ k \in Good <=> Ready(view, a, patterns[k], airport)
             /\ \A j \in 1 .. (k - 1) :
                   <<j, k>> \in Clash <=> Overlaps(patterns[j], patterns[k])
  BY <1>1
<1>4. Fits(f)
  <2> HIDE DEF Good, Clash, n
  <2> QED
    BY <1>1, <1>2, <1>3 DEF IsFirstFit
<1>5. CanActivate(view, a, patterns, airport) = CHOOSE h : Fits(h)
  BY DEF CanActivate
<1>6. Fits(CanActivate(view, a, patterns, airport))
  <2> HIDE DEF Fits
  <2> QED
    BY <1>4, <1>5
<1> DEFINE active == CanActivate(view, a, patterns, airport)
<1> HIDE DEF active, n, Good, Clash
<1> QED
  BY <1>6 DEF InOrder, active

-----------------------------------------------------------------------------
(* What the documents have to satisfy together.                            *)

Keys(rows) == {FlightKey(f) : f \in rows}

\* One aircraft has one row per route and departure.
Departures(F) == \A f, g \in F : FlightKey(f) = FlightKey(g) => f = g

\* Active schedules of one aircraft do not overlap.
Disjoint(S) ==
  \A i, j \in DOMAIN S :
      /\ i # j /\ S[i].status = "active" /\ S[j].status = "active"
      /\ i.aircraft = j.aircraft
      => ~Overlaps(i, j)

\* Schedules and flights belong to routes of R.
Routed(R, S, F) ==
  /\ \A id \in DOMAIN S : id.route \in R
  /\ \A f \in F : ~IsFerry(f) => f.sched.route \in R

\* Flights still to be flown belong to schedules of S.
Owned(S, F) ==
  \A f \in F : f.status = "scheduled" /\ ~IsFerry(f) => f.sched \in DOMAIN S

\* The key of the i-th flight of a schedule.
DepartureKey(id, i) == <<id.route, id.aircraft, DepartureAt(id, i)>>

\* Active schedules have a row for each departure from t on.
Covered(S, F, t) ==
  \A id \in DOMAIN S : S[id].status = "active" =>
      \A i \in GeneratedIndices(id, S[id].round, t) : DepartureKey(id, i) \in Keys(F)

Consistent(R, S, F, t) ==
  Disjoint(S) /\ Departures(F) /\ Routed(R, S, F) /\ Owned(S, F) /\ Covered(S, F, t)

\* The rows `new' have departures of their own.
Fresh(F, new) == Keys(F) \cap Keys(new) = {}

\* Every key of a batch is stored already or kept by the deduplication: of the
\* rows with one key the first is.
LEMMA DedupeCovers ==
  ASSUME NEW current, NEW batch, DOMAIN batch \subseteq Nat \X Nat,
         NEW k \in DOMAIN batch
  PROVE  FlightKey(batch[k]) \in Keys(current) \cup Keys(DedupeGenerated(current, batch))
<1> DEFINE T == {j \in DOMAIN batch : FlightKey(batch[j]) = FlightKey(batch[k])}
<1>1. T \in SUBSET (Nat \X Nat) /\ T # {}
  OBVIOUS
<1>2. PICK j \in T : \A i \in T : ~Before(i, j)
  <2> HIDE DEF T
  <2> QED
    BY <1>1, FirstPair
<1>3. CASE FlightKey(batch[j]) \in Keys(current)
  BY <1>3
<1>4. CASE FlightKey(batch[j]) \notin Keys(current)
  <2>1. \A i \in DOMAIN batch : Before(i, j) => FlightKey(batch[i]) # FlightKey(batch[j])
    BY <1>2
  <2>2. batch[j] \in DedupeGenerated(current, batch)
    BY <1>4, <2>1 DEF DedupeGenerated, Keys
  <2> QED
    BY <2>2 DEF Keys
<1> QED
  BY <1>3, <1>4

\* What the deduplication returns departs when nothing stored does, and once.
LEMMA DedupeFresh ==
  ASSUME NEW current, NEW batch, DOMAIN batch \subseteq Nat \X Nat
  PROVE  /\ Fresh(current, DedupeGenerated(current, batch))
         /\ Departures(DedupeGenerated(current, batch))
<1>1. Fresh(current, DedupeGenerated(current, batch))
  BY DEF Fresh, Keys, DedupeGenerated
<1>2. ASSUME NEW f \in DedupeGenerated(current, batch),
             NEW g \in DedupeGenerated(current, batch),
             FlightKey(f) = FlightKey(g)
      PROVE  f = g
  <2>1. PICK j \in DOMAIN batch :
          /\ f = batch[j]
          /\ \A k \in DOMAIN batch :
                 Before(k, j) => FlightKey(batch[k]) # FlightKey(batch[j])
    BY DEF DedupeGenerated
  <2>2. PICK k \in DOMAIN batch :
          /\ g = batch[k]
          /\ \A i \in DOMAIN batch :
                 Before(i, k) => FlightKey(batch[i]) # FlightKey(batch[k])
    BY DEF DedupeGenerated
  <2>3. j = k
    BY <1>2, <2>1, <2>2, BeforeTotal
  <2> QED
    BY <2>1, <2>2, <2>3
<1> QED
  BY <1>1, <1>2 DEF Departures

\* A plan: its schedules are the request's, its rows belong to them and to
\* departures of their own, and its active schedules have all their rows.
IsPlan(planned, rows, current, a, patterns, t) ==
  /\ DOMAIN planned = {ScheduleId(a, patterns[i], t) : i \in DOMAIN patterns}
  /\ \A f \in rows : f.sched \in DOMAIN planned
  /\ Departures(rows) /\ Fresh(current, rows)
  /\ \A id \in DOMAIN planned : planned[id].status = "active" =>
        \A i \in GeneratedIndices(id, planned[id].round, t) :
           DepartureKey(id, i) \in Keys(current) \cup Keys(rows)

\* What the planner returns is a plan, whatever patterns become active.
LEMMA PlanCovers ==
  ASSUME NEW view, NEW a, NEW patterns \in Seq(Patterns), NEW round \in BOOLEAN,
         NEW active, NEW price, NEW t, NEW current
  PROVE  IsPlan(PlanSchedules(a, patterns, round, active, t),
                DedupeGenerated(current, PlanFlights(view, a, patterns, round, active, price, t)),
                current, a, patterns, t)
<1> DEFINE planned == PlanSchedules(a, patterns, round, active, t)
           batch == PlanFlights(view, a, patterns, round, active, price, t)
           rows == DedupeGenerated(current, batch)
           id(i) == ScheduleId(a, patterns[i], t)
<1>1. DOMAIN planned = {id(i) : i \in DOMAIN patterns}
  BY DEF PlanSchedules
<1>2. DOMAIN batch \subseteq Nat \X Nat
  BY DEF PlanFlights, ScheduleIndices
<1>3. DOMAIN batch = {k \in (DOMAIN patterns) \X ScheduleIndices :
                        active[k[1]] /\ k[2] \in GeneratedIndices(id(k[1]), round, t)}
  BY DEF PlanFlights
<1>4. ASSUME NEW k \in DOMAIN batch
      PROVE  /\ batch[k].sched = id(k[1])
             /\ FlightKey(batch[k]) = DepartureKey(id(k[1]), k[2])
  BY DEF PlanFlights, BuildFlight, FlightKey, DepartureKey
<1>5. \A f \in rows : f.sched \in DOMAIN planned
  <2>1. \A f \in rows : \E k \in DOMAIN batch : f = batch[k]
    BY DEF DedupeGenerated
  <2> HIDE DEF batch, rows, planned, id
  <2> QED
    BY <1>1, <1>3, <1>4, <2>1
<1>6. Departures(rows) /\ Fresh(current, rows)
  <2> HIDE DEF batch
  <2> QED
    BY <1>2, DedupeFresh
<1>7. ASSUME NEW x \in DOMAIN planned, planned[x].status = "active",
             NEW i \in GeneratedIndices(x, planned[x].round, t)
      PROVE  DepartureKey(x, i) \in Keys(current) \cup Keys(rows)
  <2>1. PICK m \in DOMAIN patterns : active[m] /\ x = id(m)
    BY <1>7 DEF PlanSchedules
  <2>2. planned[x].round = round
    BY DEF PlanSchedules
  <2>3. i \in ScheduleIndices
    BY DEF GeneratedIndices
  <2> DEFINE k == <<m, i>>
  <2>4. k \in DOMAIN batch
    <3> HIDE DEF id, batch, planned
    <3> QED
      BY <1>3, <2>1, <2>2, <2>3
  <2>5. FlightKey(batch[k]) = DepartureKey(x, i)
    <3> HIDE DEF id, batch, planned
    <3> QED
      BY <1>4, <2>1, <2>4
  <2> HIDE DEF batch, k
  <2> QED
    BY <1>2, <2>4, <2>5, DedupeCovers
<1> HIDE DEF planned, rows
<1> QED
  BY <1>1, <1>5, <1>6, <1>7 DEF IsPlan, planned, rows

\* The schedules that become active overlap neither with the active ones of
\* the view nor with each other.
LEMMA PlanDisjoint ==
  ASSUME NEW view, Disjoint(view.schedules), NEW a, NEW patterns \in Seq(Patterns),
         NEW round, NEW airport, NEW t
  PROVE  LET active == CanActivate(view, a, patterns, airport)
         IN  Disjoint(Upsert(view.schedules, PlanSchedules(a, patterns, round, active, t)))
<1> DEFINE active == CanActivate(view, a, patterns, airport)
           planned == PlanSchedules(a, patterns, round, active, t)
           S == Upsert(view.schedules, planned)
           id(m) == ScheduleId(a, patterns[m], t)
<1>1. ASSUME NEW m \in DOMAIN patterns
      PROVE  active[m] = (/\ Ready(view, a, patterns[m], airport)
                          /\ \A j \in 1 .. (m - 1) :
                                ~(active[j] /\ Overlaps(patterns[j], patterns[m])))
  <2>1. InOrder(active, view, a, patterns, airport)
    BY ActivePatterns
  <2> HIDE DEF active
  <2> QED
    BY <2>1 DEF InOrder
<1> HIDE DEF active
<1>2. ASSUME NEW x \in DOMAIN planned, planned[x].status = "active"
      PROVE  \E m \in DOMAIN patterns : active[m] /\ x = id(m)
  BY <1>2 DEF PlanSchedules
<1>3. \A m \in DOMAIN patterns : id(m).time = patterns[m].time /\ id(m).days = patterns[m].days
  BY DEF ScheduleId
<1>4. /\ DOMAIN S = DOMAIN view.schedules \cup DOMAIN planned
      /\ \A x \in DOMAIN S : S[x] = IF x \in DOMAIN planned THEN planned[x] ELSE view.schedules[x]
  BY DEF Upsert
<1>5. \A m \in DOMAIN patterns : id(m).aircraft = a
  BY DEF ScheduleId
<1> HIDE DEF planned, S, id
<1>6. ASSUME NEW m \in DOMAIN patterns, active[m], NEW y \in DOMAIN view.schedules,
             view.schedules[y].status = "active", y.aircraft = a
      PROVE  ~Overlaps(y, patterns[m])
  BY <1>1, <1>6 DEF Ready, HasConflict
<1>7. ASSUME NEW m \in DOMAIN patterns, active[m], NEW n \in DOMAIN patterns, active[n], m # n
      PROVE  ~Overlaps(patterns[m], patterns[n])
  <2>1. /\ DOMAIN patterns = 1 .. Len(patterns) /\ Len(patterns) \in Nat
    OBVIOUS
  <2>2. CASE m < n
    <3>1. m \in 1 .. (n - 1)
      BY <2>1, <2>2
    <3> QED
      BY <1>1, <1>7, <3>1
  <2>3. CASE n < m
    <3>1. n \in 1 .. (m - 1)
      BY <2>1, <2>3
    <3>2. ~Overlaps(patterns[n], patterns[m])
      BY <1>1, <1>7, <3>1
    <3> QED
      BY <3>2 DEF Overlaps
  <2> QED
    BY <1>7, <2>1, <2>2, <2>3
<1>8. ASSUME NEW x \in DOMAIN S, NEW y \in DOMAIN S, x # y, S[x].status = "active",
             S[y].status = "active", x.aircraft = y.aircraft
      PROVE  ~Overlaps(x, y)
  <2>1. CASE x \in DOMAIN planned
    <3>1. PICK m \in DOMAIN patterns : active[m] /\ x = id(m)
      BY <1>2, <1>4, <1>8, <2>1
    <3>2. CASE y \in DOMAIN planned
      <4>1. PICK n \in DOMAIN patterns : active[n] /\ y = id(n)
        BY <1>2, <1>4, <1>8, <3>2
      <4> QED
        BY <1>3, <1>7, <1>8, <3>1, <4>1 DEF Overlaps
    <3>3. CASE y \notin DOMAIN planned
      BY <1>3, <1>4, <1>5, <1>6, <1>8, <3>1, <3>3 DEF Overlaps
    <3> QED
      BY <3>2, <3>3
  <2>2. CASE x \notin DOMAIN planned /\ y \in DOMAIN planned
    <3>1. PICK m \in DOMAIN patterns : active[m] /\ y = id(m)
      BY <1>2, <1>4, <1>8, <2>2
    <3> QED
      BY <1>3, <1>4, <1>5, <1>6, <1>8, <2>2, <3>1 DEF Overlaps
  <2>3. CASE x \notin DOMAIN planned /\ y \notin DOMAIN planned
    BY <1>4, <1>8, <2>3 DEF Disjoint
  <2> QED
    BY <2>1, <2>2, <2>3
<1> QED
  BY <1>8 DEF Disjoint, S, planned, active

-----------------------------------------------------------------------------
(* What keeps the documents consistent.                                    *)

\* As time passes fewer departures are to come.
LEMMA CoveredLater ==
  ASSUME NEW S, NEW F, NEW t \in Nat, NEW u \in Nat, t <= u,
         DOMAIN S \subseteq ScheduleIds, Covered(S, F, t)
  PROVE  Covered(S, F, u)
<1>1. ASSUME NEW id \in DOMAIN S, NEW i \in GeneratedIndices(id, S[id].round, u)
      PROVE  i \in GeneratedIndices(id, S[id].round, t)
  <2>1. i \in ScheduleIndices /\ DepartureAt(id, i) >= u
    BY DEF GeneratedIndices
  <2>2. DepartureAt(id, i) \in Nat
    BY <2>1, DepartureType
  <2>3. DepartureAt(id, i) >= t
    BY <2>1, <2>2
  <2> QED
    BY <2>3 DEF GeneratedIndices
<1> QED
  BY <1>1 DEF Covered

\* A merge of new departures is a union.
LEMMA MergeFresh ==
  ASSUME NEW F, NEW new, Fresh(F, new)
  PROVE  /\ MergeFlights(F, new) = F \cup new
         /\ Ids(F) \cap Ids(new) = {}
<1>1. \A f \in F, g \in new : FlightKey(f) # FlightKey(g)
  BY DEF Fresh, Keys
<1>2. \A f, g : FlightId(f) = FlightId(g) => FlightKey(f) = FlightKey(g)
  BY DEF FlightId, FlightKey
<1>3. \A f \in F : FlightId(f) \notin Ids(new)
  BY <1>1, <1>2 DEF Ids
<1> QED
  BY <1>3 DEF MergeFlights, Ids

\* A flight that leaves "scheduled" keeps its identity: nothing else changes.
LEMMA StatusConsistent ==
  ASSUME NEW R, NEW S, NEW F, NEW t, Consistent(R, S, F, t),
         NEW f \in F, NEW g, FlightId(g) = FlightId(f), g.status # "scheduled"
  PROVE  Consistent(R, S, MergeFlights(F, {g}), t)
<1> DEFINE M == MergeFlights(F, {g})
<1>1. M = {h \in F : FlightId(h) # FlightId(g)} \cup {g}
  BY DEF MergeFlights, Ids
<1>2. g.sched = f.sched /\ FlightKey(g) = FlightKey(f) /\ (IsFerry(g) <=> IsFerry(f))
  BY DEF FlightId, FlightKey, IsFerry
<1> HIDE DEF M
<1>3. Departures(M)
  BY <1>1, <1>2 DEF Consistent, Departures
<1>4. Keys(F) \subseteq Keys(M)
  <2>1. ASSUME NEW h \in F
        PROVE  FlightKey(h) \in Keys(M)
    <3>1. CASE FlightId(h) = FlightId(g)
      <4>1. FlightKey(h) = FlightKey(g)
        BY <3>1 DEF FlightId, FlightKey
      <4> QED
        BY <1>1, <4>1 DEF Keys
    <3>2. CASE FlightId(h) # FlightId(g)
      BY <1>1, <3>2 DEF Keys
    <3> QED
      BY <3>1, <3>2
  <2> QED
    BY <2>1 DEF Keys
<1>6. Routed(R, S, M) /\ Owned(S, M)
  BY <1>1, <1>2 DEF Consistent, Routed, Owned
<1>7. Covered(S, M, t)
  BY <1>4 DEF Consistent, Covered
<1> QED
  BY <1>3, <1>6, <1>7 DEF Consistent, M

\* A ferry with a departure of its own disturbs nothing.
LEMMA FerryConsistent ==
  ASSUME NEW R, NEW S, NEW F, NEW t, Consistent(R, S, F, t),
         NEW x, IsFerry(x), NEW new \in SUBSET {x}, Fresh(F, new)
  PROVE  Consistent(R, S, F \cup new, t)
<1>1. Departures(F \cup new)
  BY DEF Consistent, Departures, Fresh, Keys
<1>2. Routed(R, S, F \cup new) /\ Owned(S, F \cup new)
  BY DEF Consistent, Routed, Owned
<1>3. Keys(F) \subseteq Keys(F \cup new)
  BY DEF Keys
<1>4. Covered(S, F \cup new, t)
  BY <1>3 DEF Consistent, Covered
<1> QED
  BY <1>1, <1>2, <1>4 DEF Consistent

\* A route goes with its schedules and its flights.
LEMMA RouteConsistent ==
  ASSUME NEW R, NEW S, NEW F, NEW t, Consistent(R, S, F, t), NEW r
  PROVE  Consistent(R \ {r}, Without(S, {id \in DOMAIN S : id.route = r}),
                    F \ RouteFlights(F, r), t)
<1> DEFINE gone == {id \in DOMAIN S : id.route = r}
           rest == Without(S, gone)
           G == F \ RouteFlights(F, r)
<1>1. /\ DOMAIN rest = {id \in DOMAIN S : id.route # r}
      /\ \A id \in DOMAIN rest : rest[id] = S[id]
  BY DEF Without
<1>2. G = {f \in F : f.sched.route # r}
  BY DEF RouteFlights
<1> HIDE DEF rest, G
<1>3. Disjoint(rest) /\ Departures(G) /\ Routed(R \ {r}, rest, G) /\ Owned(rest, G)
  BY <1>1, <1>2 DEF Consistent, Disjoint, Departures, Routed, Owned
<1>4. ASSUME NEW id \in DOMAIN rest, rest[id].status = "active",
             NEW i \in GeneratedIndices(id, rest[id].round, t)
      PROVE  DepartureKey(id, i) \in Keys(G)
  <2>1. DepartureKey(id, i) \in Keys(F)
    BY <1>1, <1>4 DEF Consistent, Covered
  <2>2. PICK f \in F : FlightKey(f) = DepartureKey(id, i)
    BY <2>1 DEF Keys
  <2>3. f.sched.route = id.route
    BY <2>2 DEF FlightKey, DepartureKey
  <2> QED
    BY <1>1, <1>2, <2>2, <2>3 DEF Keys
<1>5. Covered(rest, G, t)
  BY <1>4 DEF Covered
<1> QED
  BY <1>3, <1>5 DEF Consistent, rest, G

\* An aircraft's schedules go with their future flights.
LEMMA AircraftConsistent ==
  ASSUME NEW R, NEW S, NEW F, NEW t, Consistent(R, S, F, t), NEW a
  PROVE  Consistent(R, Without(S, OfAircraft(S, a)),
                    F \ FutureFlights(F, OfAircraft(S, a)), t)
<1> DEFINE gone == OfAircraft(S, a)
           rest == Without(S, gone)
           G == F \ FutureFlights(F, gone)
<1>1. /\ DOMAIN rest = {id \in DOMAIN S : id.aircraft # a}
      /\ \A id \in DOMAIN rest : rest[id] = S[id]
  BY DEF Without, OfAircraft
<1>2. /\ G \subseteq F
      /\ \A f \in F : f.sched \notin gone \/ f.status # "scheduled" => f \in G
      /\ \A f \in G : f.status = "scheduled" => f.sched \notin gone
  BY DEF FutureFlights
<1>3. \A id \in DOMAIN S : id \in gone <=> id.aircraft = a
  BY DEF OfAircraft
<1>4. \A x \in gone : x.aircraft = a
  BY DEF OfAircraft
<1> HIDE DEF rest, G, gone
<1>5. Disjoint(rest) /\ Departures(G) /\ Routed(R, rest, G)
  BY <1>1, <1>2 DEF Consistent, Disjoint, Departures, Routed
<1>6. Owned(rest, G)
  BY <1>1, <1>2, <1>3 DEF Consistent, Owned
<1>7. ASSUME NEW id \in DOMAIN rest, rest[id].status = "active",
             NEW i \in GeneratedIndices(id, rest[id].round, t)
      PROVE  DepartureKey(id, i) \in Keys(G)
  <2>1. DepartureKey(id, i) \in Keys(F)
    BY <1>1, <1>7 DEF Consistent, Covered
  <2>2. PICK f \in F : FlightKey(f) = DepartureKey(id, i)
    BY <2>1 DEF Keys
  <2>3. f.sched.aircraft = id.aircraft
    BY <2>2 DEF FlightKey, DepartureKey
  <2> QED
    BY <1>1, <1>2, <1>4, <2>2, <2>3 DEF Keys
<1>8. Covered(rest, G, t)
  BY <1>7 DEF Covered
<1> QED
  BY <1>5, <1>6, <1>8 DEF Consistent, rest, G, gone

\* A plan made against the rows `kept' is consistent with the rows F that are
\* there when it is written: F has the departures of `kept', and others only
\* of ferries.
LEMMA PlanConsistent ==
  ASSUME NEW view, IsDoc(view.routes, RouteIds, Route),
         NEW a \in AircraftIds, NEW patterns \in Seq(Patterns), NEW round \in BOOLEAN,
         NEW airport, NEW price \in FuelPrices, NEW t \in Nat, RoutesKnown(view, patterns),
         NEW kept, NEW F \in SUBSET Row,
         Consistent(DOMAIN view.routes, view.schedules, F, t),
         Keys(kept) \subseteq Keys(F),
         \A f \in F : FlightKey(f) \in Keys(kept) \/ IsFerry(f)
  PROVE  LET active == CanActivate(view, a, patterns, airport)
             rows == DedupeGenerated(kept,
                         PlanFlights(view, a, patterns, round, active, price, t))
             saves == PlanRouteSaves(view, patterns, active)
         IN  /\ Consistent(DOMAIN view.routes,
                    Upsert(view.schedules, PlanSchedules(a, patterns, round, active, t)),
                    F \cup rows, t)
             /\ Fresh(F, rows)
             /\ \A i \in DOMAIN saves : saves[i].id \in DOMAIN view.routes
<1> DEFINE active == CanActivate(view, a, patterns, airport)
           planned == PlanSchedules(a, patterns, round, active, t)
           rows == DedupeGenerated(kept, PlanFlights(view, a, patterns, round, active, price, t))
           saves == PlanRouteSaves(view, patterns, active)
           S == view.schedules
           T == Upsert(S, planned)
           R == DOMAIN view.routes
<1>1. Disjoint(T)
  BY PlanDisjoint DEF Consistent
<1> HIDE DEF active
<1>2. IsDoc(planned, ScheduleIds, ScheduleDoc) /\ rows \subseteq Row
  BY PlanTypes
<1>3. \A i \in DOMAIN saves : saves[i].id \in R
  BY DEF PlanRouteSaves, RoutesKnown
<1>4. IsPlan(planned, rows, kept, a, patterns, t)
  BY PlanCovers
<1>5. \A id \in DOMAIN planned : id \in ScheduleIds /\ id.route \in R
  BY <1>2, <1>4 DEF IsPlan, IsDoc, ScheduleId, RoutesKnown
<1>6. /\ DOMAIN T = DOMAIN S \cup DOMAIN planned
      /\ \A id \in DOMAIN T : T[id] = IF id \in DOMAIN planned THEN planned[id] ELSE S[id]
  BY DEF Upsert
<1> HIDE DEF planned, rows, saves, T
<1>7. \A f \in rows : ~IsFerry(f) /\ f.sched.route \in RouteIds
  BY <1>4, <1>5 DEF IsPlan, IsFerry, ScheduleIds
<1>8. \A f \in F : IsFerry(f) => f.sched.route \in Airports \X Airports
  BY DEF Row, IsFerry, ScheduleIds, FerryIds
<1>9. Fresh(F, rows)
  <2>1. ASSUME NEW f \in F, NEW g \in rows, FlightKey(f) = FlightKey(g)
        PROVE  FALSE
    <3>1. f.sched.route = g.sched.route
      BY <2>1 DEF FlightKey
    <3>2. ~IsFerry(f)
      BY <1>7, <1>8, <3>1, NetworkAssumption
    <3>3. FlightKey(f) \in Keys(kept)
      BY <3>2
    <3> QED
      BY <1>4, <2>1, <3>3 DEF IsPlan, Fresh, Keys
  <2> QED
    BY <2>1 DEF Fresh, Keys
<1>10. Departures(F \cup rows)
  BY <1>4, <1>9 DEF IsPlan, Consistent, Departures, Fresh, Keys
<1>11. Routed(R, T, F \cup rows)
  BY <1>4, <1>5, <1>6 DEF IsPlan, Consistent, Routed
<1>12. Owned(T, F \cup rows)
  BY <1>4, <1>6 DEF IsPlan, Consistent, Owned
<1>13. Keys(F \cup rows) = Keys(F) \cup Keys(rows)
  BY DEF Keys
<1>14. Covered(T, F \cup rows, t)
  BY <1>4, <1>6, <1>13 DEF IsPlan, Consistent, Covered
<1> QED
  BY <1>1, <1>3, <1>9, <1>10, <1>11, <1>12, <1>14
     DEF Consistent, T, rows, planned, saves, active

-----------------------------------------------------------------------------
(* The inductive invariant: whatever a request is suspended on, the        *)
(* documents it will leave behind are consistent.                          *)

\* g is f as a snapshot shows it.
Same(f, g) ==
  /\ FlightId(g) = FlightId(f)
  /\ g.status = f.status
  /\ f.actual # NoActual => g.actual = f.actual

\* The snapshot shows the documents as they are.
Mirrors(view) ==
  /\ view.routes = routes
  /\ view.schedules = schedules
  /\ \A f \in flights : \E g \in view.flights : Same(f, g)
  /\ \A g \in view.flights : \E f \in flights : Same(f, g)

Loading == {"activate", "replace", "complete", "cancel", "ferry"}
Planned == {"delete_future", "save_schedules", "save_flights"}
Deleting == {"delete", "delete_route", "delete_flights", "delete_schedules"}
Resting == Labels \ (Planned \cup {"delete_flights", "delete_schedules"})

OfRoute(doc, r) == {id \in DOMAIN doc : id.route = r}

\* The rows DeleteFuture leaves.
LeftFlights(s) == flights \ FutureFlights(flights, work[s].removed)

\* With the schedules S and the flights F the documents are consistent.
Leaves(S, F) == Consistent(DOMAIN routes, S, F, now)

Pending(s) ==
  /\ Disjoint(schedules)
  /\ Departures(flights)
  /\ pc[s] \in Resting => Leaves(schedules, flights)
  /\ pc[s] \in Loading => Mirrors(snap[s])
  /\ pc[s] = "delete_future" =>
        /\ Leaves(Upsert(schedules, work[s].schedules), LeftFlights(s) \cup work[s].rows)
        /\ Fresh(LeftFlights(s), work[s].rows)
  /\ pc[s] = "save_schedules" =>
        /\ Leaves(Upsert(schedules, work[s].schedules), flights \cup work[s].rows)
        /\ Fresh(flights, work[s].rows)
  /\ pc[s] = "save_flights" =>
        /\ Leaves(schedules, flights \cup work[s].rows)
        /\ Fresh(flights, work[s].rows)
  /\ pc[s] \in Planned \cup {"save_routes", "write_route"} =>
        \A i \in DOMAIN work[s].saves : work[s].saves[i].id \in DOMAIN routes
  /\ pc[s] = "write_route" => DOMAIN work[s].copy = DOMAIN routes
  /\ pc[s] = "delete_route" => work[s].copy = routes
  /\ pc[s] \in Deleting => req[s].route \in RouteIds
  /\ pc[s] \in {"delete_flights", "delete_schedules"} => req[s].route \notin DOMAIN routes
  /\ pc[s] = "delete_flights" =>
        Leaves(Without(schedules, OfRoute(schedules, req[s].route)),
               flights \ RouteFlights(flights, req[s].route))
  /\ pc[s] = "delete_schedules" =>
        Leaves(Without(schedules, OfRoute(schedules, req[s].route)), flights)

\* What no step may do to the rows: reopen a completed flight, revise a result,
\* or drop a flight of a route that exists and that is no longer "scheduled".
KeepsHistory ==
  \A f \in flights :
      /\ \A g \in flights' : FlightId(f) = FlightId(g) =>
            /\ f.status = "completed" => g.status = "completed"
            /\ f.actual # NoActual => g.actual = f.actual
      /\ f.status # "scheduled" /\ FlightId(f) \notin Ids(flights') =>
            ~IsFerry(f) /\ f.sched.route \notin DOMAIN routes

\* Requests are served one at a time, by slot s, and none is lost.
OneAtATime(s) == Slots = {s} /\ "crash" \notin Enabled

\* Consistent documents stay consistent as time passes.
LEMMA ConsistentLater ==
  ASSUME NEW R, NEW S, NEW F, NEW t \in Nat, NEW u \in Nat, t <= u,
         DOMAIN S \subseteq ScheduleIds, Consistent(R, S, F, t)
  PROVE  Consistent(R, S, F, u)
  BY CoveredLater DEF Consistent

\* A flight as a snapshot shows it.
LEMMA LoadSame ==
  ASSUME NEW f \in Row, NEW R, NEW S, NEW price \in FuelPrices, NEW t \in Nat,
         IsDoc(R, RouteIds, Route), IsDoc(S, ScheduleIds, ScheduleDoc)
  PROVE  Same(f, LoadFlight(f, R, S, price, t))
<1> DEFINE g == RecomputeExpected(f, R, S, price)
<1>1. /\ g.status = f.status /\ g.actual = f.actual
      /\ g = [g EXCEPT !.actual = g.actual]
  BY DEF RecomputeExpected, Row
<1> HIDE DEF g
<1>2. /\ SettleDeparted(g, t).status = g.status
      /\ g.actual # NoActual => SettleDeparted(g, t).actual = g.actual
  BY <1>1 DEF SettleDeparted
<1> QED
  BY <1>1, <1>2, LoadFlightType DEF LoadFlight, Same, g

\* A snapshot just taken shows the documents as they are.
LEMMA LoadMirrors ==
  ASSUME IInv
  PROVE  Mirrors(LoadedSnapshot)
<1>1. \A f \in flights : Same(f, LoadFlight(f, routes, schedules, fuel, now))
  BY LoadSame DEF IInv, TypeOK, StoreOK
<1> QED
  BY <1>1 DEF Mirrors, LoadedSnapshot

\* Rows nobody touches keep their history.
LEMMA SameHistory ==
  ASSUME IInv, flights' = flights
  PROVE  KeepsHistory
  BY DEF IInv, Sound, RowsOK, UniqueIds, KeepsHistory, Ids

\* Nor is any revised when rows with ids of their own are added.
LEMMA AddedHistory ==
  ASSUME IInv, NEW new, flights' = flights \cup new, Ids(flights) \cap Ids(new) = {}
  PROVE  KeepsHistory
  BY DEF IInv, Sound, RowsOK, UniqueIds, KeepsHistory, Ids

\* A request at rest leaves consistent documents, and carries nothing.
LEMMA AtRest ==
  ASSUME NEW s, pc'[s] \in {"idle", "book", "delete"}, Leaves(schedules, flights)',
         pc'[s] = "delete" => req'[s].route \in RouteIds
  PROVE  Pending(s)'
  BY DEF Pending, Leaves, Consistent, Loading, Planned, Resting, Deleting

-----------------------------------------------------------------------------
(* Accepting a request.                                                    *)

\* A request that loads the snapshot.
LEMMA LoadPending ==
  ASSUME IInv, NEW s \in Slots, Pending(s), Idle(s), NEW kind \in Loading, NEW r,
         Load(kind, s, r)
  PROVE  Pending(s)'
<1>1. pc'[s] = kind /\ snap'[s] = LoadedSnapshot /\ UNCHANGED <<routes, schedules, flights, now>>
  BY DEF IInv, TypeOK, LocalOK, Load, Await
<1>2. Leaves(schedules, flights) /\ Leaves(schedules, flights)'
  BY <1>1 DEF Pending, Leaves, Idle, Resting, Labels, Planned
<1>3. Mirrors(LoadedSnapshot) /\ Mirrors(snap[s])'
  BY <1>1, LoadMirrors DEF Mirrors
<1> QED
  BY <1>1, <1>2, <1>3 DEF Pending, Leaves, Consistent, Loading, Planned, Resting, Deleting

\* Accepting a request.
LEMMA AcceptPending ==
  ASSUME IInv, NEW s \in Slots, Pending(s), Accept(s)
  PROVE  Pending(s)' /\ KeepsHistory
<1>0. KeepsHistory
  <2>1. flights' = flights
    BY DEF Accept, ActivateLoad, ReplaceLoad, CompleteLoad, CancelLoad, FerryLoad,
           FinanceLoad, PatchFind, DeleteFind, Load
  <2> QED
    BY <2>1, SameHistory
<1>1. UNCHANGED <<routes, schedules, flights, now>> /\ Idle(s)
  BY DEF Accept, ActivateLoad, ReplaceLoad, CompleteLoad, CancelLoad, FerryLoad,
         FinanceLoad, PatchFind, DeleteFind, Load, Begin, Accepted
<1>2. Leaves(schedules, flights) /\ Leaves(schedules, flights)'
  BY <1>1 DEF Pending, Leaves, Idle, Resting, Labels, Planned
<1>3. CASE ActivateLoad(s) \/ ReplaceLoad(s) \/ CompleteLoad(s) \/ CancelLoad(s) \/ FerryLoad(s)
  BY <1>0, <1>1, <1>3, LoadPending
     DEF ActivateLoad, ReplaceLoad, CompleteLoad, CancelLoad, FerryLoad, Loading
<1>4. CASE FinanceLoad(s) \/ DeleteFind(s)
  <2>1. /\ pc'[s] \in {"book", "delete"}
        /\ pc'[s] = "delete" => req'[s].route \in DOMAIN routes
    BY <1>4 DEF IInv, TypeOK, LocalOK, FinanceLoad, Suspend, DeleteFind, Await
  <2>2. DOMAIN routes \subseteq RouteIds
    BY DEF IInv, TypeOK, StoreOK, IsDoc
  <2> QED
    BY <1>0, <1>2, <2>1, <2>2, AtRest
<1>5. CASE PatchFind(s)
  <2>1. PICK r \in DOMAIN routes, p \in Patches :
          Suspend(s, "save_routes",
                  [NoWork EXCEPT !.saves =
                      [i \in {1} |-> [id |-> r, route |-> PatchedRoute(p, routes[r])]]])
    BY <1>5 DEF PatchFind
  <2>2. pc'[s] = "save_routes"
    BY <2>1 DEF IInv, TypeOK, LocalOK, Suspend, Await
  <2>3. work'[s].saves = [i \in {1} |-> [id |-> r, route |-> PatchedRoute(p, routes[r])]]
    BY <2>1 DEF IInv, TypeOK, LocalOK, Suspend, NoWork, Writes
  <2>4. \A i \in DOMAIN work'[s].saves : work'[s].saves[i].id \in DOMAIN routes'
    BY <1>1, <2>3
  <2> QED
    BY <1>0, <1>2, <2>2, <2>4 DEF Pending, Leaves, Consistent, Loading, Planned, Resting, Deleting, Labels
<1> QED
  BY <1>3, <1>4, <1>5 DEF Accept

-----------------------------------------------------------------------------
(* Planning.                                                               *)

\* A request that ends without a write.
LEMMA FinishPending ==
  ASSUME IInv, NEW s \in Slots, Leaves(schedules, flights), Finish(s),
         UNCHANGED <<now, routes, schedules, flights>>
  PROVE  Pending(s)' /\ KeepsHistory
<1>1. pc'[s] = "idle"
  BY DEF IInv, TypeOK, LocalOK, Finish
<1>2. Leaves(schedules, flights)'
  BY DEF Leaves
<1> QED
  BY <1>1, <1>2, AtRest, SameHistory

\* A suspended request holds the writes it was given.
LEMMA SuspendedWork ==
  ASSUME IInv, NEW s \in Slots, NEW label, NEW w, GoOn(s, label, w)
  PROVE  pc'[s] = label /\ work'[s] = w /\ req'[s] = req[s]
  BY DEF IInv, TypeOK, LocalOK, GoOn, Suspend, Await

\* A snapshot has the departures of the documents.
LEMMA MirrorKeys ==
  ASSUME NEW view, Mirrors(view)
  PROVE  Keys(view.flights) = Keys(flights)
<1>1. \A f, g : FlightId(g) = FlightId(f) => FlightKey(g) = FlightKey(f)
  BY DEF FlightId, FlightKey
<1>2. \A f \in flights : \E g \in view.flights : FlightKey(g) = FlightKey(f)
  BY <1>1 DEF Mirrors, Same
<1>3. \A g \in view.flights : \E f \in flights : FlightKey(g) = FlightKey(f)
  BY <1>1 DEF Mirrors, Same
<1> QED
  BY <1>2, <1>3 DEF Keys

\* Planning an activation.
LEMMA ActivatePending ==
  ASSUME IInv, NEW s \in Slots, Pending(s), ActivatePlan(s)
  PROVE  Pending(s)' /\ KeepsHistory
<1> DEFINE r == req[s]
           view == snap[s]
<1>1. UNCHANGED <<now, routes, flights>> /\ pc[s] = "activate"
  BY DEF ActivatePlan
<1>2. /\ SnapOK(view)
      /\ now \in Nat
      /\ fuel \in FuelPrices
      /\ flights \in SUBSET Row
  BY DEF IInv, TypeOK, StoreOK, LocalOK
<1>3. Leaves(schedules, flights) /\ Mirrors(view)
  BY <1>1 DEF Pending, Resting, Loading, Planned, Labels
<1>4. CASE Finish(s) /\ UNCHANGED schedules
  BY <1>1, <1>3, <1>4, FinishPending
<1>5. CASE ~(Finish(s) /\ UNCHANGED schedules)
  <2>1. r.aircraft \in AircraftIds /\ r.patterns \in Seq(Patterns) /\ r.round \in BOOLEAN
    BY <1>1, OperationsAssumption DEF IInv, TypeOK, LocalOK, RequestOK, ScheduleBodies
  <2>2. RoutesKnown(view, r.patterns)
    BY <1>5 DEF ActivatePlan
  <2>3. PICK airport \in AircraftAirports(r.aircraft, view.flights, now) :
          LET active == CanActivate(view, r.aircraft, r.patterns, airport)
              batch == PlanFlights(view, r.aircraft, r.patterns, r.round, active, fuel, now)
          IN  /\ schedules' = Upsert(schedules,
                     PlanSchedules(r.aircraft, r.patterns, r.round, active, now))
              /\ GoOn(s, "save_flights",
                     Writes(EmptyDoc, {}, DedupeGenerated(view.flights, batch),
                            PlanRouteSaves(view, r.patterns, active)))
    BY <1>5 DEF ActivatePlan
  <2> DEFINE active == CanActivate(view, r.aircraft, r.patterns, airport)
             batch == PlanFlights(view, r.aircraft, r.patterns, r.round, active, fuel, now)
             rows == DedupeGenerated(view.flights, batch)
             saves == PlanRouteSaves(view, r.patterns, active)
             planned == PlanSchedules(r.aircraft, r.patterns, r.round, active, now)
  <2>4. /\ Consistent(DOMAIN view.routes, view.schedules, flights, now)
        /\ Keys(view.flights) \subseteq Keys(flights)
        /\ \A f \in flights : FlightKey(f) \in Keys(view.flights) \/ IsFerry(f)
    BY <1>3, MirrorKeys DEF Leaves, Mirrors, Keys
  <2>5. /\ Consistent(DOMAIN view.routes, Upsert(view.schedules, planned), flights \cup rows, now)
        /\ Fresh(flights, rows)
        /\ \A i \in DOMAIN saves : saves[i].id \in DOMAIN view.routes
    BY <1>2, <2>1, <2>2, <2>4, PlanConsistent DEF SnapOK
  <2>6. /\ schedules' = Upsert(schedules, planned)
        /\ GoOn(s, "save_flights", Writes(EmptyDoc, {}, rows, saves))
    BY <2>3
  <2> HIDE DEF active, batch, rows, saves, planned
  <2>7. pc'[s] = "save_flights" /\ work'[s].rows = rows /\ work'[s].saves = saves
    BY <2>6, SuspendedWork DEF Writes
  <2>8. /\ view.routes = routes /\ view.schedules = schedules
    BY <1>3 DEF Mirrors
  <2>9. Leaves(schedules, flights \cup work[s].rows)' /\ Fresh(flights, work[s].rows)'
    BY <1>1, <2>5, <2>6, <2>7, <2>8 DEF Leaves
  <2>10. Disjoint(schedules)' /\ Departures(flights)'
    BY <1>1, <1>3, <2>9 DEF Leaves, Consistent
  <2>11. \A i \in DOMAIN work'[s].saves : work'[s].saves[i].id \in DOMAIN routes'
    BY <1>1, <2>5, <2>7, <2>8
  <2>12. Pending(s)'
    BY <2>7, <2>9, <2>10, <2>11 DEF Pending, Resting, Planned, Loading, Deleting
  <2> QED
    BY <1>1, <2>12, SameHistory
<1> QED
  BY <1>4, <1>5

\* Planning a replacement: the plan is made without the aircraft's schedules and
\* future flights, which go next.
LEMMA ReplacePending ==
  ASSUME IInv, NEW s \in Slots, Pending(s), ReplacePlan(s)
  PROVE  Pending(s)' /\ KeepsHistory
<1> DEFINE r == req[s]
           a == r.aircraft
           kept == KeptFlights(snap[s].flights, a)
           view == [routes |-> snap[s].routes, flights |-> kept,
                    schedules |-> Without(snap[s].schedules, OfAircraft(snap[s].schedules, a))]
           removed == OfAircraft(schedules, a)
           left == flights \ FutureFlights(flights, removed)
<1>1. UNCHANGED <<now, routes, flights>> /\ pc[s] = "replace"
  BY DEF ReplacePlan
<1>2. /\ SnapOK(snap[s])
      /\ now \in Nat
      /\ fuel \in FuelPrices
      /\ flights \in SUBSET Row
      /\ left \in SUBSET Row
  BY DEF IInv, TypeOK, StoreOK, LocalOK
<1>3. Leaves(schedules, flights) /\ Mirrors(snap[s])
  BY <1>1 DEF Pending, Resting, Loading, Planned, Labels
<1>4. CASE Finish(s) /\ UNCHANGED schedules
  BY <1>1, <1>3, <1>4, FinishPending
<1>5. CASE ~(Finish(s) /\ UNCHANGED schedules)
  <2>1. r.aircraft \in AircraftIds /\ r.patterns \in Seq(Patterns) /\ r.round \in BOOLEAN
    BY <1>1, OperationsAssumption DEF IInv, TypeOK, LocalOK, RequestOK, ScheduleBodies
  <2>2. RoutesKnown(view, r.patterns)
    BY <1>5 DEF ReplacePlan
  <2>3. PICK airport \in AircraftAirports(a, kept, now) :
          LET active == CanActivate(view, a, r.patterns, airport)
              batch == PlanFlights(view, a, r.patterns, r.round, active, fuel, now)
          IN  /\ schedules' = Without(schedules, removed)
              /\ GoOn(s, "delete_future",
                     Writes(PlanSchedules(a, r.patterns, r.round, active, now),
                            removed, DedupeGenerated(kept, batch),
                            PlanRouteSaves(view, r.patterns, active)))
    BY <1>5 DEF ReplacePlan
  <2>4. /\ view.routes = routes
        /\ view.schedules = Without(schedules, removed)
        /\ IsDoc(view.routes, RouteIds, Route)
    BY <1>2, <1>3 DEF Mirrors, SnapOK
  <2>5. Consistent(DOMAIN view.routes, view.schedules, left, now)
    BY <1>3, <2>4, AircraftConsistent DEF Leaves
  <2>6. \A f \in left : f \in flights /\ ~(f.sched \in removed /\ f.status = "scheduled")
    BY DEF FutureFlights
  <2>7. \A f \in flights : ~(f.sched \in removed /\ f.status = "scheduled") => f \in left
    BY DEF FutureFlights
  <2>8. \A x \in removed : x.aircraft = a
    BY DEF OfAircraft
  <2>9. \A x \in DOMAIN schedules : x.aircraft = a => x \in removed
    BY DEF OfAircraft
  <2>10. \A g \in snap[s].flights : g \in kept <=> ~(g.sched.aircraft = a /\ g.status = "scheduled")
    BY DEF KeptFlights
  <2>11. \A f, g : Same(f, g) => /\ g.sched = f.sched
                                 /\ g.status = f.status
                                 /\ FlightKey(g) = FlightKey(f)
    BY DEF Same, FlightId, FlightKey
  <2>12. kept \subseteq snap[s].flights
    BY DEF KeptFlights
  <2> HIDE DEF removed, left, kept, view
  <2>13. Keys(kept) \subseteq Keys(left)
    <3>1. ASSUME NEW g \in kept
          PROVE  FlightKey(g) \in Keys(left)
      <4>1. PICK f \in flights : Same(f, g)
        BY <1>3, <2>12 DEF Mirrors
      <4>2. f \in left
        BY <2>7, <2>8, <2>10, <2>11, <2>12, <4>1
      <4> QED
        BY <2>11, <4>1, <4>2 DEF Keys
    <3> QED
      BY <3>1 DEF Keys
  <2>14. ASSUME NEW f \in left, ~IsFerry(f)
         PROVE  FlightKey(f) \in Keys(kept)
    <3>1. f \in flights /\ ~(f.sched \in removed /\ f.status = "scheduled")
      BY <2>6
    <3>2. PICK g \in snap[s].flights : Same(f, g)
      BY <1>3, <3>1 DEF Mirrors
    <3>3. f.status = "scheduled" => f.sched \in DOMAIN schedules
      BY <1>3, <2>14, <3>1 DEF Leaves, Consistent, Owned
    <3>4. g \in kept
      BY <2>9, <2>10, <2>11, <3>1, <3>2, <3>3
    <3> QED
      BY <2>11, <3>2, <3>4 DEF Keys
  <2> DEFINE active == CanActivate(view, a, r.patterns, airport)
             batch == PlanFlights(view, a, r.patterns, r.round, active, fuel, now)
             rows == DedupeGenerated(kept, batch)
             saves == PlanRouteSaves(view, r.patterns, active)
             planned == PlanSchedules(a, r.patterns, r.round, active, now)
  <2>15. /\ Consistent(DOMAIN view.routes, Upsert(view.schedules, planned), left \cup rows, now)
         /\ Fresh(left, rows)
         /\ \A i \in DOMAIN saves : saves[i].id \in DOMAIN view.routes
    BY <1>2, <2>1, <2>2, <2>4, <2>5, <2>13, <2>14, PlanConsistent
  <2>16. /\ schedules' = Without(schedules, removed)
         /\ GoOn(s, "delete_future", Writes(planned, removed, rows, saves))
    BY <2>3
  <2> HIDE DEF active, batch, rows, saves, planned
  <2>17. /\ pc'[s] = "delete_future" /\ work'[s].rows = rows /\ work'[s].saves = saves
         /\ work'[s].schedules = planned /\ work'[s].removed = removed
    BY <2>16, SuspendedWork DEF Writes
  <2>18. LeftFlights(s)' = left
    BY <1>1, <2>17 DEF LeftFlights, left
  <2>19. /\ Leaves(Upsert(schedules, work[s].schedules), LeftFlights(s) \cup work[s].rows)'
         /\ Fresh(LeftFlights(s), work[s].rows)'
    BY <1>1, <2>4, <2>15, <2>16, <2>17, <2>18 DEF Leaves
  <2>20. Disjoint(schedules)' /\ Departures(flights)'
    BY <1>1, <1>3, <2>4, <2>5, <2>16 DEF Leaves, Consistent
  <2>21. \A i \in DOMAIN work'[s].saves : work'[s].saves[i].id \in DOMAIN routes'
    BY <1>1, <2>4, <2>15, <2>17
  <2>22. Pending(s)'
    BY <2>17, <2>19, <2>20, <2>21 DEF Pending, Resting, Planned, Loading, Deleting
  <2> QED
    BY <1>1, <2>22, SameHistory
<1> QED
  BY <1>4, <1>5

-----------------------------------------------------------------------------
(* Saving.                                                                 *)

\* The steps that carry out a plan do what was foreseen.
LEMMA SavePending ==
  ASSUME IInv, NEW s \in Slots, Pending(s),
         DeleteFuture(s) \/ SaveSchedules(s) \/ SaveFlights(s)
  PROVE  Pending(s)' /\ KeepsHistory
<1>1. UNCHANGED <<now, routes>> /\ WorkOK(work[s])
  BY DEF DeleteFuture, SaveSchedules, SaveFlights, IInv, TypeOK, LocalOK
<1>2. CASE DeleteFuture(s)
  <2>1. /\ pc[s] = "delete_future"
        /\ flights' = LeftFlights(s)
        /\ schedules' = schedules
    BY <1>2 DEF DeleteFuture, LeftFlights
  <2>2. pc'[s] = "save_schedules" /\ work'[s] = [work[s] EXCEPT !.removed = {}]
    BY <1>2, SuspendedWork DEF DeleteFuture
  <2>3. /\ work'[s].rows = work[s].rows
        /\ work'[s].schedules = work[s].schedules
        /\ work'[s].saves = work[s].saves
    BY <1>1, <2>2 DEF WorkOK
  <2>4. /\ Leaves(Upsert(schedules, work[s].schedules), LeftFlights(s) \cup work[s].rows)
        /\ Fresh(LeftFlights(s), work[s].rows)
        /\ \A i \in DOMAIN work[s].saves : work[s].saves[i].id \in DOMAIN routes
    BY <2>1 DEF Pending, Planned
  <2>5. /\ Leaves(Upsert(schedules, work[s].schedules), flights \cup work[s].rows)'
        /\ Fresh(flights, work[s].rows)'
        /\ \A i \in DOMAIN work'[s].saves : work'[s].saves[i].id \in DOMAIN routes'
    BY <1>1, <2>1, <2>3, <2>4 DEF Leaves
  <2>6. Disjoint(schedules)' /\ Departures(flights)'
    BY <2>1 DEF Pending, LeftFlights, Departures
  <2>7. Pending(s)'
    BY <2>2, <2>5, <2>6 DEF Pending, Resting, Planned, Loading, Deleting
  <2>8. KeepsHistory
    <3>1. /\ flights' \subseteq flights
          /\ \A f \in flights : f.status # "scheduled" => f \in flights'
      BY <2>1 DEF LeftFlights, FutureFlights
    <3> QED
      BY <3>1 DEF KeepsHistory, IInv, Sound, RowsOK, UniqueIds, Ids
  <2> QED
    BY <2>7, <2>8
<1>3. CASE SaveSchedules(s)
  <2>1. /\ pc[s] = "save_schedules"
        /\ flights' = flights
        /\ schedules' = Upsert(schedules, work[s].schedules)
    BY <1>3 DEF SaveSchedules
  <2>2. pc'[s] = "save_flights" /\ work'[s] = [work[s] EXCEPT !.schedules = EmptyDoc]
    BY <1>3, SuspendedWork DEF SaveSchedules
  <2>3. work'[s].rows = work[s].rows /\ work'[s].saves = work[s].saves
    BY <1>1, <2>2 DEF WorkOK
  <2>4. /\ Leaves(Upsert(schedules, work[s].schedules), flights \cup work[s].rows)
        /\ Fresh(flights, work[s].rows)
        /\ \A i \in DOMAIN work[s].saves : work[s].saves[i].id \in DOMAIN routes
    BY <2>1 DEF Pending, Planned
  <2>5. /\ Leaves(schedules, flights \cup work[s].rows)'
        /\ Fresh(flights, work[s].rows)'
        /\ \A i \in DOMAIN work'[s].saves : work'[s].saves[i].id \in DOMAIN routes'
    BY <1>1, <2>1, <2>3, <2>4 DEF Leaves
  <2>6. Disjoint(schedules)' /\ Departures(flights)'
    BY <2>1, <2>5 DEF Pending, Leaves, Consistent
  <2>7. Pending(s)'
    BY <2>2, <2>5, <2>6 DEF Pending, Resting, Planned, Loading, Deleting
  <2> QED
    BY <2>1, <2>7, SameHistory
<1>4. CASE SaveFlights(s)
  <2>1. /\ pc[s] = "save_flights"
        /\ flights' = MergeFlights(flights, work[s].rows)
        /\ schedules' = schedules
    BY <1>4 DEF SaveFlights
  <2>2. pc'[s] = "save_routes" /\ work'[s] = [work[s] EXCEPT !.rows = {}]
    BY <1>4, SuspendedWork DEF SaveFlights
  <2>3. work'[s].saves = work[s].saves
    BY <1>1, <2>2 DEF WorkOK
  <2>4. /\ Leaves(schedules, flights \cup work[s].rows)
        /\ Fresh(flights, work[s].rows)
        /\ \A i \in DOMAIN work[s].saves : work[s].saves[i].id \in DOMAIN routes
    BY <2>1 DEF Pending, Planned
  <2>5. /\ flights' = flights \cup work[s].rows
        /\ Ids(flights) \cap Ids(work[s].rows) = {}
    BY <2>1, <2>4, MergeFresh
  <2>6. /\ Leaves(schedules, flights)'
        /\ \A i \in DOMAIN work'[s].saves : work'[s].saves[i].id \in DOMAIN routes'
    BY <1>1, <2>1, <2>3, <2>4, <2>5 DEF Leaves
  <2>7. Pending(s)'
    BY <2>2, <2>6 DEF Pending, Resting, Planned, Loading, Deleting, Leaves, Consistent
  <2> QED
    BY <2>5, <2>7, AddedHistory
<1> QED
  BY <1>2, <1>3, <1>4

\* saveRoute puts in a route that is there.
LEMMA SaveRoutePending ==
  ASSUME IInv, NEW s \in Slots, Pending(s), ReadRoutes(s) \/ WriteRoute(s)
  PROVE  Pending(s)' /\ KeepsHistory
<1>1. /\ UNCHANGED <<now, schedules, flights>>
      /\ pc[s] \in {"save_routes", "write_route"}
      /\ WorkOK(work[s])
  BY DEF ReadRoutes, WriteRoute, IInv, TypeOK, LocalOK
<1>2. /\ Leaves(schedules, flights)
      /\ \A i \in DOMAIN work[s].saves : work[s].saves[i].id \in DOMAIN routes
  BY <1>1 DEF Pending, Resting, Planned, Labels
<1>3. KeepsHistory
  BY <1>1, SameHistory
<1>4. CASE ReadRoutes(s)
  <2>1. CASE Finish(s)
    BY <1>1, <1>2, <1>4, <2>1, FinishPending DEF ReadRoutes
  <2>2. CASE GoOn(s, "write_route", [work[s] EXCEPT !.copy = routes])
    <3>1. pc'[s] = "write_route" /\ work'[s] = [work[s] EXCEPT !.copy = routes]
      BY <2>2, SuspendedWork
    <3>2. work'[s].copy = routes /\ work'[s].saves = work[s].saves
      BY <1>1, <3>1 DEF WorkOK
    <3>3. routes' = routes
      BY <1>4 DEF ReadRoutes
    <3>4. Leaves(schedules, flights)'
      BY <1>1, <1>2, <3>3 DEF Leaves
    <3> QED
      BY <1>2, <1>3, <3>1, <3>2, <3>3, <3>4
         DEF Pending, Resting, Planned, Loading, Deleting, Leaves, Consistent
  <2> QED
    BY <1>4, <2>1, <2>2 DEF ReadRoutes
<1>5. CASE WriteRoute(s)
  <2>1. PICK first \in DOMAIN work[s].saves :
          /\ routes' = WrittenRoutes(work[s].copy, work[s].saves[first])
          /\ \/ Finish(s)
             \/ GoOn(s, "write_route",
                     [work[s] EXCEPT !.saves = RemainingSaves(work[s].saves, first)])
    BY <1>5 DEF WriteRoute
  <2>2. DOMAIN work[s].copy = DOMAIN routes
    BY <1>5 DEF WriteRoute, Pending
  <2>3. DOMAIN routes' = DOMAIN routes
    BY <1>2, <2>1, <2>2 DEF WrittenRoutes, Upsert
  <2>4. Leaves(schedules, flights)'
    BY <1>1, <1>2, <2>3 DEF Leaves
  <2>5. CASE Finish(s)
    <3>1. pc'[s] = "idle"
      BY <2>5 DEF IInv, TypeOK, LocalOK, Finish
    <3> QED
      BY <1>3, <2>4, <3>1, AtRest
  <2>6. CASE GoOn(s, "write_route",
                  [work[s] EXCEPT !.saves = RemainingSaves(work[s].saves, first)])
    <3> DEFINE rest == RemainingSaves(work[s].saves, first)
    <3>1. pc'[s] = "write_route" /\ work'[s] = [work[s] EXCEPT !.saves = rest]
      BY <2>6, SuspendedWork
    <3>2. work'[s].copy = work[s].copy /\ work'[s].saves = rest
      BY <1>1, <3>1 DEF WorkOK
    <3>3. \A i \in DOMAIN rest : rest[i].id \in DOMAIN routes
      BY <1>2 DEF RemainingSaves, Without
    <3> HIDE DEF rest
    <3> QED
      BY <1>3, <2>2, <2>3, <2>4, <3>1, <3>2, <3>3
         DEF Pending, Resting, Planned, Loading, Deleting, Leaves, Consistent
  <2> QED
    BY <2>1, <2>5, <2>6
<1> QED
  BY <1>4, <1>5

-----------------------------------------------------------------------------
(* Requests about one flight.                                              *)

\* A stored flight replaced by one with its identity: its history is kept when
\* the new row keeps it.
LEMMA ReplacedHistory ==
  ASSUME IInv, NEW f \in flights, NEW g, FlightId(g) = FlightId(f),
         f.status = "completed" => g.status = "completed",
         f.actual # NoActual => g.actual = f.actual,
         flights' = MergeFlights(flights, {g})
  PROVE  KeepsHistory
<1>1. flights' = {h \in flights : FlightId(h) # FlightId(g)} \cup {g}
  BY DEF MergeFlights, Ids
<1>2. UniqueIds(flights)
  BY DEF IInv, Sound, RowsOK
<1>3. \A h \in flights : FlightId(h) \in Ids(flights')
  BY <1>1 DEF Ids
<1>4. ASSUME NEW h \in flights, NEW k \in flights', FlightId(h) = FlightId(k)
      PROVE  /\ h.status = "completed" => k.status = "completed"
             /\ h.actual # NoActual => k.actual = h.actual
  <2>1. CASE k = g
    <3>1. h = f
      BY <1>2, <1>4, <2>1 DEF UniqueIds
    <3> QED
      BY <2>1, <3>1
  <2>2. CASE k # g
    <3>1. k \in flights
      BY <1>1, <2>2
    <3>2. h = k
      BY <1>2, <1>4, <3>1 DEF UniqueIds
    <3> QED
      BY <3>2
  <2> QED
    BY <2>1, <2>2
<1> QED
  BY <1>3, <1>4 DEF KeepsHistory

\* Completing, cancelling and ferrying.
LEMMA FlightRequestPending ==
  ASSUME IInv, NEW s \in Slots, Pending(s),
         CompleteSave(s) \/ CancelSave(s) \/ FerrySave(s)
  PROVE  Pending(s)' /\ KeepsHistory
<1>1. /\ UNCHANGED <<now, routes, schedules>>
      /\ pc[s] \in {"complete", "cancel", "ferry"}
      /\ flights \in SUBSET Row
      /\ snap[s].flights \in SUBSET Row
      /\ uuids \in Nat
  BY DEF CompleteSave, CancelSave, FerrySave, IInv, TypeOK, StoreOK, LocalOK, SnapOK
<1>2. Leaves(schedules, flights) /\ Mirrors(snap[s])
  BY <1>1 DEF Pending, Resting, Loading, Planned, Labels
<1>3. ASSUME NEW h, NEW f \in flights, FlightId(h) = FlightId(f), h.status # "scheduled",
             flights' = MergeFlights(flights, {h})
      PROVE  Leaves(schedules, flights)'
  <2>1. Consistent(DOMAIN routes, schedules, flights', now)
    BY <1>2, <1>3, StatusConsistent DEF Leaves
  <2> QED
    BY <1>1, <2>1 DEF Leaves
<1>4. CASE CompleteSave(s)
  <2>1. PICK g \in Named(s) :
          \/ /\ Finish(s)
             /\ UNCHANGED flights
          \/ /\ flights' = MergeFlights(flights, {CompletedFlight(g)})
             /\ GoOn(s, "book", [NoWork EXCEPT !.rows = {CompletedFlight(g)}])
    BY <1>4 DEF CompleteSave
  <2>2. g \in Row /\ g \in snap[s].flights
    BY <1>1 DEF Named
  <2>3. PICK f \in flights : Same(f, g)
    BY <1>2, <2>2 DEF Mirrors
  <2>4. /\ FlightId(CompletedFlight(g)) = FlightId(f)
        /\ CompletedFlight(g).status = "completed"
    BY <2>2, <2>3, CompletedFlightType DEF Same, CompletedFlight, Row
  <2>5. f.actual # NoActual => CompletedFlight(g).actual = f.actual
    BY <2>2, <2>3 DEF Same, CompletedFlight, Row
  <2>6. CASE Finish(s) /\ UNCHANGED flights
    BY <1>1, <1>2, <2>6, FinishPending
  <2>7. CASE /\ flights' = MergeFlights(flights, {CompletedFlight(g)})
             /\ GoOn(s, "book", [NoWork EXCEPT !.rows = {CompletedFlight(g)}])
    <3>1. pc'[s] = "book"
      BY <2>7, SuspendedWork
    <3>2. Leaves(schedules, flights)'
      BY <1>3, <2>4, <2>7
    <3>3. KeepsHistory
      BY <2>4, <2>5, <2>7, ReplacedHistory
    <3> QED
      BY <3>1, <3>2, <3>3, AtRest
  <2> QED
    BY <2>1, <2>6, <2>7
<1>5. CASE CancelSave(s)
  <2>1. PICK g \in Named(s) :
          flights' = IF Cancellable(g)
                     THEN MergeFlights(flights, {[g EXCEPT !.status = "cancelled"]})
                     ELSE flights
    BY <1>5 DEF CancelSave
  <2> DEFINE h == [g EXCEPT !.status = "cancelled"]
  <2>2. Finish(s) /\ pc'[s] = "idle"
    BY <1>5 DEF CancelSave, Finish, IInv, TypeOK, LocalOK
  <2>3. g \in Row /\ g \in snap[s].flights
    BY <1>1 DEF Named
  <2>4. PICK f \in flights : Same(f, g)
    BY <1>2, <2>3 DEF Mirrors
  <2>5. CASE Cancellable(g)
    <3>1. /\ FlightId(h) = FlightId(f)
          /\ h.status = "cancelled"
          /\ h.actual = g.actual
      BY <2>3, <2>4 DEF Same, FlightId, Row
    <3>2. f.status # "completed" /\ (f.actual # NoActual => h.actual = f.actual)
      BY <2>4, <2>5, <3>1 DEF Same, Cancellable
    <3>3. flights' = MergeFlights(flights, {h})
      BY <2>1, <2>5
    <3> HIDE DEF h
    <3>4. Leaves(schedules, flights)' /\ KeepsHistory
      BY <1>3, <3>1, <3>2, <3>3, ReplacedHistory
    <3> QED
      BY <2>2, <3>4, AtRest
  <2>6. CASE ~Cancellable(g)
    BY <1>1, <1>2, <2>1, <2>2, <2>6, FinishPending
  <2> QED
    BY <2>5, <2>6
<1>6. CASE FerrySave(s)
  <2>1. req[s] \in Ferries
    BY <1>6 DEF IInv, TypeOK, LocalOK, RequestOK, FerrySave
  <2>2. AircraftAirports(req[s].aircraft, snap[s].flights, now) \subseteq Airports
    BY <1>1, <2>1, AircraftAirportsType, OperationsAssumption
  <2>3. PICK airport \in Airports :
          \/ UNCHANGED flights
          \/ flights' = MergeFlights(flights, FerryRows(snap[s].flights, req[s], airport))
    BY <1>6, <2>2 DEF FerrySave
  <2>4. Finish(s) /\ pc'[s] = "idle"
    BY <1>6 DEF FerrySave, Finish, IInv, TypeOK, LocalOK
  <2>5. CASE UNCHANGED flights
    BY <1>1, <1>2, <2>4, <2>5, FinishPending
  <2>6. CASE flights' = MergeFlights(flights, FerryRows(snap[s].flights, req[s], airport))
    <3> DEFINE x == FerryFlight(req[s], airport)
               new == FerryRows(snap[s].flights, req[s], airport)
    <3>1. new \subseteq {x}
      BY <1>1, <2>1, FerryRowsType DEF IInv
    <3>2. IsFerry(x)
      BY <1>1 DEF IsFerry, FerryFlight, FreshId
    <3>3. Keys(snap[s].flights) \cap Keys(new) = {}
      BY DEF FerryRows, Keys
    <3>4. Fresh(flights, new)
      BY <1>2, <3>3, MirrorKeys DEF Fresh
    <3>5. flights' = flights \cup new /\ Ids(flights) \cap Ids(new) = {}
      BY <2>6, <3>4, MergeFresh
    <3> HIDE DEF x, new
    <3>6. Consistent(DOMAIN routes, schedules, flights \cup new, now)
      BY <1>2, <3>1, <3>2, <3>4, FerryConsistent DEF Leaves
    <3>7. Leaves(schedules, flights)'
      BY <1>1, <3>5, <3>6 DEF Leaves
    <3> QED
      BY <2>4, <3>5, <3>7, AtRest, AddedHistory
  <2> QED
    BY <2>3, <2>5, <2>6
<1> QED
  BY <1>4, <1>5, <1>6

-----------------------------------------------------------------------------
(* Booking, and deleting a route.                                          *)

\* Booking touches only the ledger.
LEMMA BookPending ==
  ASSUME IInv, NEW s \in Slots, Pending(s), Book(s)
  PROVE  Pending(s)' /\ KeepsHistory
<1>1. Finish(s) /\ UNCHANGED <<now, routes, schedules, flights>> /\ pc[s] = "book"
  BY DEF Book
<1>2. Leaves(schedules, flights)
  BY <1>1 DEF Pending, Resting, Planned, Labels
<1> QED
  BY <1>1, <1>2, FinishPending

\* The cascade drops what belongs to the route, part by part.
LEMMA DeletePending ==
  ASSUME IInv, NEW s \in Slots, Pending(s),
         DeleteRead(s) \/ DeleteWrite(s) \/ DeleteFlights(s) \/ DeleteSchedules(s)
  PROVE  Pending(s)' /\ KeepsHistory
<1>1. now' = now
  BY DEF DeleteRead, DeleteWrite, DeleteFlights, DeleteSchedules
<1>2. CASE DeleteRead(s)
  <2>1. pc[s] = "delete" /\ UNCHANGED <<routes, schedules, flights>>
    BY <1>2 DEF DeleteRead
  <2>2. pc'[s] = "delete_route" /\ work'[s].copy = routes /\ req'[s].route \in RouteIds
    BY <1>2, <2>1, SuspendedWork DEF DeleteRead, NoWork, Writes, Pending, Deleting
  <2>3. Leaves(schedules, flights)'
    BY <1>1, <2>1 DEF Pending, Leaves, Resting, Planned, Labels
  <2>4. Pending(s)'
    BY <2>1, <2>2, <2>3 DEF Pending, Resting, Planned, Loading, Deleting, Leaves, Consistent
  <2> QED
    BY <2>1, <2>4, SameHistory
<1>3. CASE DeleteWrite(s)
  <2>1. /\ pc[s] = "delete_route"
        /\ UNCHANGED <<schedules, flights>>
        /\ routes' = IF req[s].route \in DOMAIN work[s].copy
                     THEN Without(work[s].copy, {req[s].route})
                     ELSE routes
    BY <1>3 DEF DeleteWrite
  <2>2. pc'[s] = "delete_flights" /\ req'[s] = req[s]
    BY <1>3, SuspendedWork DEF DeleteWrite
  <2>3. Leaves(schedules, flights) /\ work[s].copy = routes /\ req[s].route \in RouteIds
    BY <2>1 DEF Pending, Resting, Planned, Labels, Deleting
  <2>4. PICK r : r = req[s].route
    OBVIOUS
  <2>5. DOMAIN routes' = DOMAIN routes \ {r}
    BY <2>1, <2>3, <2>4 DEF Without
  <2>6. Consistent(DOMAIN routes \ {r}, Without(schedules, OfRoute(schedules, r)),
                   flights \ RouteFlights(flights, r), now)
    BY <2>3, RouteConsistent DEF Leaves, OfRoute
  <2>7. Leaves(Without(schedules, OfRoute(schedules, req[s].route)),
               flights \ RouteFlights(flights, req[s].route))'
    BY <1>1, <2>1, <2>2, <2>4, <2>5, <2>6 DEF Leaves
  <2>8. Disjoint(schedules)' /\ Departures(flights)'
    BY <2>1 DEF Pending
  <2>9. Pending(s)'
    BY <2>2, <2>3, <2>4, <2>5, <2>7, <2>8 DEF Pending, Resting, Planned, Loading, Deleting
  <2> QED
    BY <2>1, <2>9, SameHistory
<1>4. CASE DeleteFlights(s)
  <2>1. /\ pc[s] = "delete_flights"
        /\ UNCHANGED <<routes, schedules>>
        /\ flights' = flights \ RouteFlights(flights, req[s].route)
    BY <1>4 DEF DeleteFlights
  <2>2. pc'[s] = "delete_schedules" /\ req'[s] = req[s]
    BY <1>4, SuspendedWork DEF DeleteFlights
  <2>3. req[s].route \notin DOMAIN routes /\ req[s].route \in RouteIds
    BY <2>1 DEF Pending, Deleting
  <2>4. Leaves(Without(schedules, OfRoute(schedules, req[s].route)), flights)'
    BY <1>1, <2>1, <2>2 DEF Pending, Leaves
  <2>5. Disjoint(schedules)' /\ Departures(flights)'
    BY <2>1 DEF Pending, Departures
  <2>6. Pending(s)'
    BY <2>1, <2>2, <2>3, <2>4, <2>5 DEF Pending, Resting, Planned, Loading, Deleting
  <2>7. KeepsHistory
    <3>1. /\ flights' \subseteq flights
          /\ \A f \in flights : f.sched.route # req[s].route => f \in flights'
      BY <2>1 DEF RouteFlights
    <3>2. \A f \in flights : IsFerry(f) => f.sched.route \in Airports \X Airports
      BY DEF IInv, TypeOK, StoreOK, Row, IsFerry, ScheduleIds, FerryIds
    <3>3. \A f \in flights : IsFerry(f) => f \in flights'
      BY <2>3, <3>1, <3>2, NetworkAssumption
    <3> QED
      BY <2>3, <3>1, <3>3 DEF KeepsHistory, IInv, Sound, RowsOK, UniqueIds, Ids
  <2> QED
    BY <2>6, <2>7
<1>5. CASE DeleteSchedules(s)
  <2>1. /\ pc[s] = "delete_schedules"
        /\ UNCHANGED <<routes, flights>>
        /\ schedules' = Without(schedules, OfRoute(schedules, req[s].route))
    BY <1>5 DEF DeleteSchedules, OfRoute
  <2>2. pc'[s] = "idle"
    BY <1>5 DEF DeleteSchedules, Finish, IInv, TypeOK, LocalOK
  <2>3. Leaves(schedules, flights)'
    BY <1>1, <2>1 DEF Pending, Leaves
  <2> QED
    BY <2>1, <2>2, <2>3, AtRest, SameHistory
<1> QED
  BY <1>2, <1>3, <1>4, <1>5

-----------------------------------------------------------------------------
(* The clock and the market.                                               *)

\* Time passes: documents consistent now are consistent later.
LEMMA TickPending ==
  ASSUME IInv, NEW s \in Slots, Pending(s), Tick
  PROVE  Pending(s)'
<1>1. /\ UNCHANGED <<routes, schedules, flights, pc, req, snap, work>>
      /\ now' = now + 1
  BY DEF Tick, store, local
<1>2. /\ now \in Nat /\ now' \in Nat /\ now <= now'
      /\ DOMAIN schedules \subseteq ScheduleIds
      /\ DOMAIN work[s].schedules \subseteq ScheduleIds
  <2>1. now \in Nat /\ IsDoc(schedules, ScheduleIds, ScheduleDoc) /\ WorkOK(work[s])
    BY DEF IInv, TypeOK, StoreOK, LocalOK
  <2>2. now' \in Nat /\ now <= now'
    BY <1>1, <2>1
  <2> QED
    BY <2>1, <2>2 DEF IsDoc, WorkOK
<1>3. ASSUME NEW S, DOMAIN S \subseteq ScheduleIds, NEW F,
             Consistent(DOMAIN routes, S, F, now)
      PROVE  Consistent(DOMAIN routes, S, F, now')
  BY <1>2, <1>3, ConsistentLater
<1>4. PICK N : N = Upsert(schedules, work[s].schedules)
  OBVIOUS
<1>5. PICK Q : Q = Without(schedules, OfRoute(schedules, req[s].route))
  OBVIOUS
<1>6. PICK G : G = flights \ RouteFlights(flights, req[s].route)
  OBVIOUS
<1>7. /\ N = Upsert(schedules, work[s].schedules)'
      /\ Q = Without(schedules, OfRoute(schedules, req[s].route))'
      /\ G = (flights \ RouteFlights(flights, req[s].route))'
      /\ LeftFlights(s)' = LeftFlights(s)
  BY <1>1, <1>4, <1>5, <1>6 DEF LeftFlights
<1>8. DOMAIN N \subseteq ScheduleIds /\ DOMAIN Q \subseteq ScheduleIds
  BY <1>2, <1>4, <1>5 DEF Upsert, Without
<1>9. Mirrors(snap[s])' <=> Mirrors(snap[s])
  BY <1>1 DEF Mirrors
<1>10. Disjoint(schedules)' /\ Departures(flights)'
  BY <1>1 DEF Pending
<1>11. /\ pc'[s] \in Loading => Mirrors(snap[s])'
       /\ pc'[s] \in Planned \cup {"save_routes", "write_route"} =>
            \A i \in DOMAIN work'[s].saves : work'[s].saves[i].id \in DOMAIN routes'
       /\ pc'[s] = "write_route" => DOMAIN work'[s].copy = DOMAIN routes'
       /\ pc'[s] = "delete_route" => work'[s].copy = routes'
       /\ pc'[s] \in {"delete_flights", "delete_schedules"} => req'[s].route \notin DOMAIN routes'
       /\ pc'[s] \in Deleting => req'[s].route \in RouteIds
  BY <1>1, <1>9 DEF Pending
<1>12. CASE pc[s] = "delete_future"
  <2>1. /\ Leaves(Upsert(schedules, work[s].schedules), LeftFlights(s) \cup work[s].rows)'
        /\ Fresh(LeftFlights(s), work[s].rows)'
    BY <1>1, <1>3, <1>4, <1>7, <1>8, <1>12 DEF Pending, Leaves
  <2> QED
    BY <1>1, <1>10, <1>11, <1>12, <2>1 DEF Pending, Resting, Planned, Loading, Deleting
<1>13. CASE pc[s] = "save_schedules"
  <2>1. /\ Leaves(Upsert(schedules, work[s].schedules), flights \cup work[s].rows)'
        /\ Fresh(flights, work[s].rows)'
    BY <1>1, <1>3, <1>4, <1>7, <1>8, <1>13 DEF Pending, Leaves
  <2> QED
    BY <1>1, <1>10, <1>11, <1>13, <2>1 DEF Pending, Resting, Planned, Loading, Deleting
<1>14. CASE pc[s] = "save_flights"
  <2>1. /\ Leaves(schedules, flights \cup work[s].rows)'
        /\ Fresh(flights, work[s].rows)'
    BY <1>1, <1>2, <1>3, <1>14 DEF Pending, Leaves
  <2> QED
    BY <1>1, <1>10, <1>11, <1>14, <2>1 DEF Pending, Resting, Planned, Loading, Deleting
<1>15. CASE pc[s] = "delete_flights"
  <2>1. Leaves(Without(schedules, OfRoute(schedules, req[s].route)),
               flights \ RouteFlights(flights, req[s].route))'
    BY <1>1, <1>3, <1>5, <1>6, <1>7, <1>8, <1>15 DEF Pending, Leaves
  <2> QED
    BY <1>1, <1>10, <1>11, <1>15, <2>1 DEF Pending, Resting, Planned, Loading, Deleting
<1>16. CASE pc[s] = "delete_schedules"
  <2>1. Leaves(Without(schedules, OfRoute(schedules, req[s].route)), flights)'
    BY <1>1, <1>3, <1>5, <1>7, <1>8, <1>16 DEF Pending, Leaves
  <2> QED
    BY <1>1, <1>10, <1>11, <1>16, <2>1 DEF Pending, Resting, Planned, Loading, Deleting
<1>17. CASE pc[s] \in Resting
  <2>1. Leaves(schedules, flights)'
    BY <1>1, <1>2, <1>3, <1>17 DEF Pending, Leaves
  <2> QED
    BY <1>1, <1>10, <1>11, <1>17, <2>1 DEF Pending, Resting, Planned, Loading, Deleting
<1>18. pc[s] \in Labels
  BY DEF IInv, TypeOK, LocalOK
<1> QED
  BY <1>12, <1>13, <1>14, <1>15, <1>16, <1>17, <1>18 DEF Resting, Planned

\* A step of the world.
LEMMA WorldPending ==
  ASSUME IInv, NEW s \in Slots, Pending(s), Tick \/ FuelMoves \/ UNCHANGED vars
  PROVE  Pending(s)' /\ KeepsHistory
<1>1. flights' = flights
  BY DEF Tick, FuelMoves, vars, store
<1>2. KeepsHistory
  BY <1>1, SameHistory
<1>3. CASE FuelMoves \/ UNCHANGED vars
  <2>1. UNCHANGED <<now, routes, schedules, flights, pc, req, snap, work>>
    BY <1>3 DEF FuelMoves, vars, store, local
  <2> QED
    BY <1>2, <2>1 DEF Pending, Leaves, Mirrors, LeftFlights
<1> QED
  BY <1>2, <1>3, TickPending

-----------------------------------------------------------------------------
(* Requests served one at a time.                                          *)

\* Nothing has happened yet.
LEMMA InitPending ==
  ASSUME Init, NEW s \in Slots
  PROVE  Pending(s)
<1>1. schedules = EmptyDoc /\ flights = {} /\ pc[s] = "idle" /\ DOMAIN schedules = {}
  BY DEF Init, EmptyDoc
<1> HIDE DEF EmptyDoc
<1>2. Disjoint(schedules) /\ Departures(flights) /\ Leaves(schedules, flights)
  BY <1>1 DEF Disjoint, Departures, Leaves, Consistent, Routed, Owned, Covered
<1> QED
  BY <1>1, <1>2 DEF Pending, Loading, Planned, Deleting

\* Every step leaves what it foresaw, and keeps the history.
LEMMA NextPending ==
  ASSUME NEW s, OneAtATime(s), IInv, Pending(s), [Next]_vars
  PROVE  Pending(s)' /\ KeepsHistory
<1>1. Slots = {s} /\ ~Crash
  BY DEF OneAtATime, Crash
<1>2. CASE Accept(s)
  BY <1>1, <1>2, AcceptPending
<1>3. CASE Continue(s)
  <2>1. CASE ActivatePlan(s)
    BY <1>1, <2>1, ActivatePending
  <2>2. CASE ReplacePlan(s)
    BY <1>1, <2>2, ReplacePending
  <2>3. CASE DeleteFuture(s) \/ SaveSchedules(s) \/ SaveFlights(s)
    BY <1>1, <2>3, SavePending
  <2>4. CASE ReadRoutes(s) \/ WriteRoute(s)
    BY <1>1, <2>4, SaveRoutePending
  <2>5. CASE CompleteSave(s) \/ CancelSave(s) \/ FerrySave(s)
    BY <1>1, <2>5, FlightRequestPending
  <2>6. CASE Book(s)
    BY <1>1, <2>6, BookPending
  <2>7. CASE DeleteRead(s) \/ DeleteWrite(s) \/ DeleteFlights(s) \/ DeleteSchedules(s)
    BY <1>1, <2>7, DeletePending
  <2> QED
    BY <1>3, <2>1, <2>2, <2>3, <2>4, <2>5, <2>6, <2>7 DEF Continue
<1>4. CASE Tick \/ FuelMoves \/ UNCHANGED vars
  BY <1>1, <1>4, WorldPending
<1> QED
  BY <1>1, <1>2, <1>3, <1>4 DEF Next

\* What a request will leave behind is consistent in every state of a behaviour.
LEMMA PendingInvariance ==
  ASSUME NEW s, OneAtATime(s)
  PROVE  Spec => [](IInv /\ Pending(s))
<1>1. Init => Pending(s)
  BY InitPending DEF OneAtATime
<1>2. IInv /\ Pending(s) /\ [Next]_vars => Pending(s)'
  BY NextPending
<1> QED
  BY <1>1, <1>2, Invariance, PTL DEF Spec

\* When no request is in progress, the documents are consistent.
LEMMA QuietLeaves ==
  ASSUME NEW s, OneAtATime(s), Pending(s), Quiet
  PROVE  Leaves(schedules, flights)
  BY DEF OneAtATime, Pending, Quiet, Idle, Resting, Labels, Planned

-----------------------------------------------------------------------------
(* What the documents say between requests.                                *)

\* No active schedules of an aircraft share a departure time of a weekday: a
\* request plans against the active schedules that are stored when it saves
\* its own (the conflict check of planning.ts).
THEOREM SchedulesDoNotOverlap ==
  ASSUME NEW s, OneAtATime(s)
  PROVE  Spec => []NoScheduleOverlap
<1>1. Pending(s) => NoScheduleOverlap
  BY DEF Pending, Disjoint, NoScheduleOverlap, Active
<1> QED
  BY <1>1, PendingInvariance, PTL

\* An aircraft has one row per route and departure, in the middle of a
\* replacement too (dedupeGeneratedFlights in load.ts).
THEOREM DeparturesAreDistinct ==
  ASSUME NEW s, OneAtATime(s)
  PROVE  Spec => []DistinctDepartures
<1>1. Pending(s) => DistinctDepartures
  BY DEF Pending, Departures, DistinctDepartures
<1> QED
  BY <1>1, PendingInvariance, PTL

\* Between requests every schedule and flight has its route: deleteRouteRequest
\* carries its cascade through, and no save brings a deleted route's rows back.
THEOREM RoutesOutliveRows ==
  ASSUME NEW s, OneAtATime(s)
  PROVE  Spec => []NothingWithoutRoute
<1>1. Pending(s) => NothingWithoutRoute
  BY QuietLeaves DEF Leaves, Consistent, Routed, NothingWithoutRoute
<1> QED
  BY <1>1, PendingInvariance, PTL

\* Between requests a flight that is stored as scheduled, or departs later
\* than one that boards now, has its schedule: replacing a week drops the
\* flights of the week it replaces but for those generated while boarding.
THEOREM NoFlightIsAGhost ==
  ASSUME NEW s, OneAtATime(s)
  PROVE  Spec => []NoGhostFlights
<1>1. IInv /\ Pending(s) => NoGhostFlights
  <2>1. SUFFICES ASSUME IInv, Pending(s), Quiet, NEW f \in flights, ~IsFerry(f),
                        \/ f.status = "scheduled"
                        \/ f.status \notin {"completed", "cancelled"} /\ now + Lead < f.dep
                 PROVE  f.sched \in DOMAIN schedules
    BY DEF NoGhostFlights
  <2>2. f.status = "scheduled" => f.sched \in DOMAIN schedules
    BY <2>1, QuietLeaves DEF Leaves, Consistent, Owned
  <2>3. /\ f.status \in FlightStatus
        /\ f.dep \in Nat
        /\ now + Lead \in Nat
    BY <2>1, TimeAssumption DEF IInv, TypeOK, StoreOK, Row
  <2>4. f.status \in {"boarding", "in_flight"} => f.dep <= now + Lead
    BY <2>1 DEF IInv, Sound, RowsOK, OnTime, Timely
  <2>5. f.status \notin {"boarding", "in_flight"} \/ f.status = "scheduled"
    BY <2>1, <2>3, <2>4
  <2> QED
    BY <2>1, <2>2, <2>3, <2>5 DEF FlightStatus
<1> QED
  BY <1>1, Invariance, PendingInvariance, PTL

\* Between requests an active schedule has a row for each departure to come:
\* what the deduplication of a new plan drops is stored already.
THEOREM SchedulesAreCovered ==
  ASSUME NEW s, OneAtATime(s)
  PROVE  Spec => []ScheduleCovered
<1>1. Pending(s) => ScheduleCovered
  <2>1. SUFFICES ASSUME Pending(s), Quiet, NEW id \in DOMAIN schedules, Active(id),
                        NEW i \in GeneratedIndices(id, schedules[id].round, now)
                 PROVE  \E f \in flights :
                            FlightKey(f) = <<id.route, id.aircraft, DepartureAt(id, i)>>
    BY DEF ScheduleCovered
  <2>2. Covered(schedules, flights, now)
    BY <2>1, QuietLeaves DEF Leaves, Consistent
  <2>3. DepartureKey(id, i) \in Keys(flights)
    BY <2>1, <2>2 DEF Covered, Active
  <2> QED
    BY <2>3 DEF Keys, DepartureKey
<1> QED
  BY <1>1, PendingInvariance, PTL

-----------------------------------------------------------------------------
(* What no request does to the history.                                    *)

\* A completed flight stays completed while its row exists: a cancellation is
\* refused, a plan does not generate its departure again.
THEOREM CompletionIsFinal ==
  ASSUME NEW s, OneAtATime(s)
  PROVE  Spec => CompletedIsFinal
<1>1. IInv /\ Pending(s) /\ [Next]_vars =>
        [\A f \in flights, g \in flights' :
            FlightId(f) = FlightId(g) /\ f.status = "completed" => g.status = "completed"]_vars
  BY NextPending DEF KeepsHistory
<1> QED
  BY <1>1, PendingInvariance, PTL DEF Spec, CompletedIsFinal

\* A persisted result is never rewritten: completing a flight again, or from a
\* snapshot with another estimate, keeps it.
THEOREM ResultIsFinal ==
  ASSUME NEW s, OneAtATime(s)
  PROVE  Spec => ActualIsFinal
<1>1. IInv /\ Pending(s) /\ [Next]_vars =>
        [\A f \in flights, g \in flights' :
            FlightId(f) = FlightId(g) /\ f.actual # NoActual => g.actual = f.actual]_vars
  BY NextPending DEF KeepsHistory
<1> QED
  BY <1>1, PendingInvariance, PTL DEF Spec, ActualIsFinal

\* A row that is no longer "scheduled" goes only when its route is gone:
\* neither a replacement nor a plan drops it.
THEOREM HistoryGoesWithItsRoute ==
  ASSUME NEW s, OneAtATime(s)
  PROVE  Spec => HistoryIsKept
<1>1. IInv /\ Pending(s) /\ [Next]_vars =>
        [\A f \in flights :
            f.status # "scheduled" /\ FlightId(f) \notin Ids(flights') =>
                ~IsFerry(f) /\ f.sched.route \notin DOMAIN routes]_vars
  BY NextPending DEF KeepsHistory
<1> QED
  BY <1>1, PendingInvariance, PTL DEF Spec, HistoryIsKept
=============================================================================
