# A TLA+ model of AirlineSim

AirlineSim is an airline-management game: Go microservices keep identity,
airlines, aircraft, world data and the game clock; a BFF (Bun/TypeScript) keeps
routes, schedules, flights, finances and notifications as JSON documents in one
SQLite database; Vue micro-frontends show them. This directory models the parts
of it that decide something, model-checks them with TLC, and proves the main
safety properties with TLAPS.

    tlc -config history.cfg MCOperations.tla     # one run
    tlapm ImportProofs.tla                       # the proofs of one module

## Inventory

### BFF (`frontend/bff/src`)

The BFF is one JavaScript event loop. A handler runs without interruption from
one `await` to the next; between two awaits any other handler may run. Every
collection is one row of the table `documents` (`db/database.ts`): a storage
function parses the whole document, changes it and writes it back. There are no
transactions over several documents and no version check.

| Component | State | Operations | What is hard |
|---|---|---|---|
| operations (`modules/operations`) | `schedules`, `flights` | POST schedules, PUT schedules (rebuild a week), complete, cancel, ferry flight, reads | decisions on a snapshot that is written back later; several writes per request; statuses computed from the clock but stored at creation |
| routes (`modules/routes`) | `routes` | create, patch, delete with cascade | `saveRoute` awaits between its read and its write; the cascade is three writes |
| finance (`modules/finance`) | `ledger` | every read reconciles; POST recalculate | idempotent postings built from results that may have changed |
| events (`modules/events`) | `events`, `notifications` | reconcile after mutations and on reads; read, read-all, ignore | overlapping reconciles; a partial reconcile when the backend fails |
| hubs (`modules/hubs`) | `hubs`, `ledger` | open, close | fee against a balance kept elsewhere |
| fuel (`modules/fuel`) | memory and `fuel-price` | timer, backend events, reads | mutations are queued beside direct reads, each within one turn |
| demand (`modules/demand`) | overrides, calibration jobs in memory | gravity model, calibration | one job at a time |
| admin, import (`modules/admin`, `modules/import`) | audit, job registry in memory, `source-mapping.json` | credits, world-data imports, job progress over a WebSocket | balance kept in two places; mappings written at the very end; the job and the command share file and backend; throttled messages |
| facilities (`modules/facilities`) | none | runway slots, night bans, ranges | two weeks of flights summed up as one; local days and times across zones |
| game, onboarding, fleet | none | aggregate reads, backend calls | a mutation reconciles notifications |
| proxy, auth, server | cached admin token, list cache, GETs on their way | forward, authorise | a list read before a mutation and cached after it; concurrent requests share one GET |
| aircraft-images (`modules/aircraft-images`) | image map with a memo, file cache | refresh job, override | the job's copy of the map and the administrator's |

### Backend (`backend/services`)

| Service | State | Operations | What is hard |
|---|---|---|---|
| tick-service | `game_state`, clock in memory | emits `tick_15_min_elapsed`, `tick_1_hour_elapsed` | crash between sending and recording |
| operations-service | airports, regions, countries, `global_fuel_price`, last price in memory | CRUD, a new fuel price per hour tick | a commit and a Kafka record are two steps |
| airline-service | `airline` (balance), `airport_view` | create, adjust balance, consume airport events | the view lags; failed records are dropped |
| fleet-service | `aircraft`, `aircraft_type` | purchase: charge, insert, refund | no transaction spans the two services |
| auth-service | `users` | register, login, verify | unique keys only |
| api-gateway | sockets | HTTP to gRPC, Socket.IO broadcast | stateless |

### Frontend (`frontend/apps`, `frontend/packages`)

Vue components and contracts without authoritative state; not modelled.

## Modules

| Module | What it is |
|---|---|
| `Flights` | The pure part of operations: ids and keys of flights, status and position, estimates and settlement, generation of flights from a schedule, deduplication and the merge by id. |
| `Operations` | The requests over `routes`, `schedules`, `flights` and `ledger` as interleaved handlers, with stale snapshots, crashes, time and the fuel market. |
| `Settlement` | What the ledger promises: a flight is booked once, not before its departure, and never revised. |
| `MCOperations` | Small instances of `Operations`. |
| `OperationsProofs` | Theorems about `Operations`: for requests that overlap and crash, and for requests served one at a time. |
| `Notifications` | The notifications of one airline and the warning events, as interleaved requests with failing loads and restarts. |
| `MCNotifications` | Small instances of `Notifications`. |
| `NotificationsProofs` | Theorems about `Notifications`. |
| `Balance` | The money of one airline: the balance kept by the airline-service and the ledger kept by the BFF, with purchases, hubs, price analyses and credits as interleaved requests whose backend calls may fail. |
| `MCBalance` | Small instances of `Balance`. |
| `BalanceProofs` | Theorems about `Balance`. |
| `HeadroomProofs` | Theorems about `Headroom`. |
| `Headroom` | Runway slots and night bans: what the planner expects of a weekly pattern, what it counts as planned, and the flights that come of it, over time zones. |
| `MCHeadroom` | A hub and a spoke in two zones. |
| `Consumer` | The consumer group that operations-service, airline-service and the gateway each have a copy of: batches, handlers, commits, restarts. |
| `TickLoop` | tick-service: one loop, its state row, its two topics. |
| `FuelPrices` | A price per hour tick, its announcement and its broadcast. |
| `World` | `TickLoop` and `FuelPrices` composed over the hour topic. |
| `MCWorld` | A small instance of `World`. |
| `ConsumerProofs`, `WorldProofs` | Theorems about them and about their composition. |
| `Airports` | The backend's world data with its keys, and airline-service's view of the airports. |
| `WorldImport` | The import pipeline over `Airports`: mappings, reconciling, creates and updates. |
| `ImportProofs` | Theorems about `WorldImport` and `Airports`. |
| `MCImport` | A country, an airport in it and an aircraft type. |
| `ImportJobs` | The job registries and the throttled import WebSocket. |
| `MCImportJobs` | An instance of `ImportJobs`. |
| `ListCache` | The proxy's cache of the backend's lists. |
| `AircraftImages` | The image map, its refresh job and the overrides. |
| `AdminWorld` | `ImportJobs`, `ListCache` and `AircraftImages` composed: what jobs do to the cache and to the images. |
| `MCAdminWorld`, `AdminWorldProofs` | An instance of `AdminWorld`, and theorems about it and about `ImportJobs`. |

### Operations

`Slots` are the requests that can be in progress at once. `pc[s]` names the
await slot `s` is suspended on, `req[s]` its body, `snap[s]` the snapshot it
loaded, `work[s]` the writes it has still to make. One action is one turn of the
event loop:

| Request | Actions |
|---|---|
| POST /operations/schedules | `ActivateLoad`, `ActivatePlan`, `SaveFlights`, `ReadRoutes`, `WriteRoute` |
| PUT /operations/schedules | `ReplaceLoad`, `ReplacePlan`, `DeleteFuture`, `SaveSchedules`, `SaveFlights`, `ReadRoutes`, `WriteRoute` |
| POST /operations/flights/:id/complete | `CompleteLoad`, `CompleteSave`, `Book` |
| POST /operations/flights/:id/cancel | `CancelLoad`, `CancelSave` |
| POST /operations/ferry-flights | `FerryLoad`, `FerrySave` |
| finance reads, POST /finance/recalculate | `FinanceLoad`, `Book` |
| PATCH /routes/:id | `PatchFind`, `ReadRoutes`, `WriteRoute` |
| DELETE /routes/:id | `DeleteFind`, `DeleteRead`, `DeleteWrite`, `DeleteFlights`, `DeleteSchedules` |

A storage function of `operations/storage.ts` or `finance/storage.ts` reads and
writes its document in the turn of its caller, so it is one step. `saveRoute`
and `deleteRoute` await between their read and their write, so they are two.
`Tick`, `FuelMoves` and `Crash` are the environment.

Abstractions. Every airport is on UTC. Ids derived by hashing are their seeds
(collisions of the 32-bit hash are left out). Range, runway, night and slot
checks are one set of unfit (route, aircraft) pairs (`Headroom` has the last
two). A pattern carries its `starts_on` and its turnaround, and both are part of
the id, as in the code; a replacement starts its patterns today. A financial
result is kept by what decides it: fare, fuel price, weekly frequency, and
whether the departure noise was applied. A route has one fare. The four postings
of a flight, built and written together under four keys, are one settlement.
Blocks of a rebuilt week arrive grouped into patterns. Block time is a constant.
A request that ends in an error response writes nothing and is not a step of its
own, and an await on an empty batch is kept. `NoGhostFlights` goes by the stored
status and by the clock, because a row keeps the status it was generated with: a
leg generated as `boarding` or `in_flight` outlives its schedule (see the
divergences), any other must not. Events and notifications recorded after a
mutation are not part of this module. There is one airline.

Every await is a point where another handler may run, as the language allows.
Where the awaited promise is already resolved the runtime resumes the handler
before it looks at new input, so such a window is open only to handlers that are
resumed with it; the windows behind the divergences of `Operations` below either
wait for real input (`await readJson` after the snapshot is loaded, routes
sharing one `Promise.all`) or need no second request.

### Notifications

`holding` is the set of conditions the airline is in (money, aircraft,
schedules, routes, slots), `notes` the stored list, `feed` the dedupe keys of
the `WARNING_CREATED` and `WARNING_RESOLVED` events. A request is a `check`
(reading notifications, or the reconcile after any mutation), a `dashboard`
read, or an edit (`read-all`, `read`, `unread`, `ignore`), which reconciles
first. Its turns are `Begin` (the handler's own snapshot), `LoadSnapshot` or
`LoadFails`, `ListNotifications`, `SaveReconciled`, `RecordCreated`,
`RecordResolved` and, for an edit, `ListEdited` and `SaveEdited`. `LoadFails`
ends a request, except the dashboard's, which goes on with the conditions of
`PlainKey` as its own snapshot showed them.

A condition is a model value; `Key` and `PlainKey` are the dedupe keys the full
check and the fallback give it. The id of a new notification is random in the
code and a pair of request number and condition here. Of the lists cut at 200
entries the model keeps any `Keep` instead of the latest. Parameters,
severities, timestamps and the cap of 1000 events are left out. The list
replaces the airline's whole list, and an empty one replaces nothing, as in
`saveNotifications`. `Operations` and `Notifications` share no document: the
first decides which conditions hold, and `GameMoves` lets any of them come and
go.

Bounds of the `notes` run. Three conditions: one that both kinds of check see
under different keys, and two the fallback does not see, which are constraints
of one airport and share their key (reconcile.ts:87); three requests of which
two overlap give a stale copy, a writer and an observer; `Keep = 1` makes the
trimming happen; one change of the game and one restart can fall anywhere. The
run takes about two minutes. `OneCheckPerKey` does not say that a key has one
notification: a single check that finds both constraints makes one of each (see
the divergences). It says that nothing adds to them afterwards, whatever is
saved in between. Deadlock checking is off because players may stop sending
requests.

### Balance

`balance` and `owned` are kept by the airline-service and the fleet-service,
`ledger` and `hubs` are documents of the BFF. A handler's record holds its
snapshot: the balance, the aircraft and the ledger as they were when each was
read; `Available` is the balance every snapshot shows, the sum of balance and
ledger. `reading` is the GET of the airline that is on its way, if there is one:
requests of one player share it (`requestBackendJson` keys it by URL and
token), so a request that arrives meanwhile is told what the first one will be.

| Request | Actions |
|---|---|
| POST /fleet/aircraft | `Begin`, `AirlineAnswered`, `ReadFleet`, `ReadLedger`, `Charge`, `InsertAircraft`, `Refund` |
| POST /hubs | `Begin`, `AirlineAnswered`, `ReadLedger`, `ListHubs`, `AddHub`, `PayFee` |
| DELETE /hubs/:id | `Begin`, `AirlineAnswered`, `ReadLedger`, `RemoveHub` |
| POST /routes/:id/price-analysis | `Begin`, `AirlineAnswered`, `ReadLedger`, `AnalyseRoutePrice`, `PayFee` |
| admin credit or debit | `SaveAdjustment`, `SyncBalance` |
| any finance read that books a flight | `BookFlight` |
| any page that asks for the airline | `OpenPage`, `AirlineAnswered` |

`Charge`, `InsertAircraft` and `Refund` are the three calls of the
fleet-service's `CreateAircraft`, each of which may take effect and lose its
answer (`CallFails`); nothing is retried, as a POST has one attempt.
`AdjustBalance` is one UPDATE with its condition. A credit writes the ledger
first and the balance second, and an error of the second call is only logged.
The aircraft are asked for with the airline and that GET is shared, too, so
`ReadFleet` may bring any earlier list. `Restart` is the BFF's: it forgets its
requests, while what it has asked the fleet-service for goes on.

Abstractions. One airline, one session of its player and one aircraft type. Fees
and prices are constants; runway checks and cash reserve warnings, which depend
on nothing that moves, are left out. The postings of a flight are one entry of
their sum. A retried GET is one that is on its way for longer; a request whose
GET fails ends and is not a step of its own. Two history variables: `adjusted`,
what administrators moved in the balance, and `unfinished`, the hubs a restart
has cut off from their fee, which `HubsPaid` excepts and nothing repairs.

Bounds of the `MCBalance` runs. `OverdraftBounded` speaks of all requests that
overlap, so two slots; three requests let one that ended be followed by two that
overlap, one of them with the older snapshot, and three airports with equal fees
(hence symmetric) let each request open a hub. A fee of three prices sets hubs
apart from purchases. One of two tail numbers belongs to another airline, which
is what makes an insert fail without a failing call. Two failing calls allow a
lost insert and a lost refund of one purchase, one restart can fall anywhere.
The bound of `OverdraftBounded` is tight: with four requests and without
failures TLC reaches it, and with `Unseen` left out three requests exceed it.
`analysis_overdraft` uses one slot, no failures and no restart, so that what it
shows needs neither overlap nor loss.

### Headroom

Time is a count of ticks. An airport's clocks are ahead of UTC by `Zone` until
the instant `ChangeAt` and by `Changed` from then on. The flights of a schedule
depart at the local time that the clocks of their own date show (`WallTimeToUtc`,
schedule-time.ts:18-26) and are counted on the local days of theirs; the planner
uses one offset per airport, `Reference`, that of 1 June 2026
(facilities/constraints.ts:220).
`PlannedUses` are the four runway uses the planner derives from a pattern
(departure, arrival, the way back), each with its local day and time;
`PlannedUsesOf` is what it counts as taken already, from the first planned week
of each schedule (`RepresentativeWeek`); `ScheduleFlight` is a flight that is
stored, as instants. The two calculations are made in different files from
different data. `HeadroomKept` and `NightBanKept` say when they agree: on the
planner's clocks (`OnPlannersClocks`), across zones and midnight.

| Request | Action |
|---|---|
| POST /operations/schedules | `Activate` |
| PUT /operations/schedules | `Replace`, which places its patterns one after the other |
| POST /operations/flights/:id/complete, /cancel | `Complete`, `Cancel` |

Abstractions. Requests are served one at a time; what overlapping ones do is the
subject of `Operations`. Range, runway, position, the state of the aircraft and
of the route refuse a pattern or not (`fits`). An airport changes its clocks at
most once, and every airport has a zone; capacities do not change; the warnings
at 80 % are left out, as are ferry flights, which the code does not check.
Schedules of deleted routes are not followed.

`HeadroomKept` is about activations and has two exceptions, each of which is a
divergence below and each of which TLC needs. `HiddenOn`: a date with a flight
for which the summary of its weekday shows nothing, because the flight of its
schedule's first week that should stand for it was cancelled or completed out of
order, or because the clocks have changed between the two. `MisplannedOn`: the
activation itself places a flight on the date that flies under other clocks than
the planner's. The dates are looked at as they were before the step.
Replacements are in the model and precede activations, but the property does not
speak of them: a second replacement on the day of the first can lose a flight
and place the next pattern where it was (the last of the divergences).

Bounds of the `headroom` run. A hub whose clocks go forward, from UTC to a tick
ahead of it, on the third of the days, a spoke two ticks ahead, days of four
ticks and weeks of two days make an activation start on either weekday, cross
midnight on the way out, on the ground and on the way back, and have its flights
on both sides of the change. Three uses a day hold one and a half round trips, so
two schedules fit on one day and not on the other. Three requests out of five
activations and two replacements are two activations and what comes between
them, and `MaxTime` lets the first week pass, so that schedules are represented
by their second one.

### World: ticks and fuel prices

`TickLoop` has the process (`pc`, its copies `last` and `now`), the row of
`game_state` (`row`, with `Unset` for NULL) and the lengths of the two topics
(`sent`). An iteration is `BeginIteration`, then `SendTick` and `RecordTick`, or
`NotElapsed`, for the quarter and for the hour. `LoadFails`, `SendFails` and
`RecordFails` end `Run`, after which `main` exits with status 0 (`pc =
"exited"`); only a `TickKilled` process is restarted by docker, and somebody may
start an exited one again. `FuelPrices` has operations-service's handler as
`OpsPoll`, `WobblePrice`, `StorePrice`, `AnnouncePrice`, and the gateway as
`GatePoll` and `Broadcast`; every call can fail and both processes can be killed
between any two steps. `Consumer` is the position of a group in its topic: a
batch is handled record by record, an error is logged and passed over, and a new
process begins anywhere between the last known and the last possible commit. A
poll that comes with an error drops the records that came with it
(consumer.go:48-51), in each of the three copies: `OpsPollFails`,
`GatePollFails`, `ViewPollFails`. The records dropped are counted with those
whose handler failed, one error of the log each, so `TicksPriced`,
`HoursReachClients` and `ViewKeepsUp` say what is lost besides: nothing.
operations-service has one client for its two topics, so an error of the other
one drops hour ticks, too; to the model it is the same failed poll.

Abstractions. A price is an integer and a draw moves it by at most `Wobble`; how
likely either direction is and the rounding of `NUMERIC(20,2)` are left out. A
topic has one partition. Socket.IO clients are those connected at the broadcast.
A service that cannot be constructed (`NewFuelService` fails) is one that was
killed again. A failing poll is a fault that drops something: one that returned no
records changes nothing.

Bounds. An hour of two quarters, a clock that stops after two hours and a bit,
one fault of tick-service and one of the others: enough for a tick sent twice, a
batch replayed after a kill, and a price that is stored and not announced.
`tick_restart` lets tick-service fail twice and nothing else.

### Airports and WorldImport

`rows[k]` is the row with natural key `k` (id and payload), a payload has a
second unique code (`Codes`: the IATA code of an airport or an aircraft type),
`created` the topic of new airports, `view` and `viewGroup` airline-service's
copy of them. `Insert` commits and announces, `InsertUnannounced` commits and
fails to; the view polls, adds, fails, drops a batch and restarts. An
administrator creates and deletes rows and changes them, natural key and code
included. Deletions are announced on a topic nobody reads, so no action does.

`run[p]` is an import between `Start` and `SaveMappings`: it prepares (reads the
mappings, logs in), reconciles (reads each kind's list and adopts rows it has no
mapping for), imports in dependency order (`PassOver` what is up to date,
`SendCreate`, `SendUpdate`, `Conflict`, `Refused`, `RequestFails`, `Relogin`)
and saves. The BFF's job and the command run the same pipeline, so `MaxAtOnce`
of them share `file` and the backend. A payload is its release, its code and its
references; its hash is the payload itself. Any 409, of a create or an update
and of either unique key, skips the entity without an error and without a
mapping (importExecutor.ts:101-116); `skips` is the list of the report.
`SucceededIsComplete` therefore says: complete but for the skips.

Abstractions. One environment, hence one file. A key stands for an entity and
its lists are of its kind; region links, which are sent like other entities, are
not among the kinds. `lost`, `deleted`, and `seen` of a run are history.

Bounds of the `import` run. Four keys: something others refer to, something that
refers and is announced, something that cannot be updated, and an airport that
is in no source and holds the code which the second release gives the other one.
Two imports, at once or one after the other, of two releases, with one change by
an administrator and one fault anywhere. `airport_deleted` has one import, one
deletion and no faults.

### ImportJobs

`jobs` and `calibrations` are the two registries, oldest first, `sockets[s]` a
connection with what it follows, the message held back for it (`pending`,
`timer`), whether it was sent one within the last half second (`recent`) and
what it has `seen`. A job that ends is published in any case, that it ends is
assumed; `EndIsSeen` says that a socket that stays with it gets to see that, and
`NoStaleSocket` is the safety half of it. A restart of the BFF empties the
registries and closes the sockets, which is the initial state.

Bounds of the `jobs` run. Sockets do not meet, so one; two jobs let a socket
follow one that ended while the next runs; four revisions are a start, two
changes within one half second, and an end; four visits connect, subscribe,
disconnect and connect again.

### AdminWorld: jobs, list cache and images

`ListCache` is one list: a load is sent, read by the backend, and stored when it
is answered, and any write that succeeds through the BFF clears the cache in
between. `AircraftImages` is one map and the job's copy of it; `aliased` says
that the two are one object, as they are after the job's first write.
`FetchImage` to `FindImage` is the time in which the job waits for one type's
image, between its check (refresh.ts:120) and its write (refresh.ts:142). In
`AdminWorld` the jobs of `ImportJobs` drive both: imports change the backend
behind the cache, and jobs that succeed clear it. What the properties except (a
list whose request the clear has crossed; an image set before the job's first
write or while the job fetches that type's, or deleted while it runs) is lost in
the code and is listed among the divergences.

Bounds of the `admin` run. Two readers, alike, one of them stale; one change of
the backend's data suffices to tell new from old; two types and two overrides
let one come before and one after a write of the job. Sockets have no part in it.


## Runs

| Run | Checks | Shows |
|---|---|---|
| `history` (holds) | `TypeOK`, `NothingWithoutRoute`, `NoScheduleOverlap`, `DistinctDepartures`, `NoGhostFlights`, `ScheduleCovered`, `UniqueCopies`, `CompletedIsFinal`, `ActualIsFinal`, `HistoryIsKept` | Every kind of request, one at a time and without crashes, with flights long enough that a return leg departs with a later outbound leg of its schedule: the stored flights form a history that later requests do not rewrite, schedules of one aircraft never overlap, a replaced week loses no leg it keeps and leaves no flights but those that were generated while boarding, and a deleted route leaves nothing behind. |
| `races` (holds) | `UniqueFlightIds`, `CompletedHasArrived`, `BooksSpec` | Two requests at a time over the same flights, with finance reads, fuel price changes and crashes: flights stay one row each and are completed after their arrival only, although stale snapshots are written back, and the ledger implements Settlement. |
| `notes` (holds) | `TypeOK`, `OneCheckPerKey`, `WarningsAnnounced` | Two overlapping requests at a time (three in all) that reconcile, edit or fall back while the game changes and the BFF may restart, with two constraints of one airport under one dedupe key: whatever stands for a key was made by one and the same check, and no warning goes unannounced. |
| `money` (holds) | `TypeOK`, `HubsPaid`, `Conserved`, `OverdraftBounded` | Purchases, hubs, price analyses and credits, two at a time and three in all, that share the GETs of the airline, with up to two failing backend calls and a restart of the BFF: hubs are paid for, no money is lost or made that a failing call does not explain, and overlapping requests overspend by no more than one purchase or hub each and one price per purchase their snapshot has missed. |
| `analysis_overdraft` (violated) | `AnalysesAfforded` | One price analysis after one profitable flight, nothing else: the ledger is added to the balance twice, so an analysis the player cannot pay for is sold and the funds become negative. |
| `world` (holds) | `WorldTypeOK`, `NoTickSkipped`, `DuplicatesBounded`, `PricesWalk`, `TicksPriced`, `HoursReachClients` | tick-service, operations-service and the gateway over their topics, with failing calls, failing polls that drop their batch, and kills: ticks are sent at least once, fuel prices stay one walk, an hour tick without a price stands for an error of a handler or a poll and is never lost to a kill or a commit, and every hour of game time reaches the clients or such an error. |
| `tick_restart` (violated) | `MissedEventsProduced` | A tick-service killed between its first quarter-hour and its first hour tick never comes back to its loop: the row it finds has a NULL it cannot scan, and the exit status it answers with is one docker does not restart. |
| `import` (holds) | `ImportTypeOK`, `NoBlindPost`, `SucceededIsComplete`, `ViewKeepsUp`, `ReimportIsIdle` | Two world-data imports at once, one of them perhaps of an older release, an administrator whose airport can hold a code the sources want, a failing call or a kill: no import creates what it could have seen, a success is complete but for the conflicts it reports as skipped, a settled world stays settled, and airline-service's view of the airports loses none but those an error was logged for. |
| `airport_deleted` (violated) | `DeletedLeavesView` | An airport that was imported and is deleted stays in airline-service's view for good: nobody reads the topic its deletion is announced on. |
| `jobs` (holds) | `JobsTypeOK`, `OneActiveJob`, `NoStaleSocket`, `EndIsSeen` | The job registries and an import WebSocket that comes, goes and changes its subscription: one job at a time, and no socket misses the end of the job it follows, given that jobs end, although messages are held back for half a second. |
| `admin` (holds) | `ReadsSeeWrites`, `OverridesLast` | Imports and image refreshes beside list requests, writes through the proxy and image overrides: a list whose request no write crossed contains every write answered before, and an override outlives the refresh job unless it is set before the job's first write or while the job fetches that type's image. |
| `headroom` (holds) | `NightBanKept`, `HeadroomKept` | Activations, replaced weeks, completions and cancellations between two airports of which one changes its clocks in the second week, with patterns that cross midnight: no activation exceeds a capacity but where the representative week hides a movement or the clocks are not the planner's, and a flight that departs and lands on the planner's clocks keeps the night bans. |

Bounds of the `MCOperations` runs. Two routes out of one base suffice for
conflicts between routes; one aircraft suffices because every rule that relates
flights or schedules compares them per aircraft. A day has four ticks and a week
two days, so that weekly patterns repeat and differ within the horizon. Patterns
that start today and on the second day, with two turnarounds, give one slot
several schedules. `MaxRequests` bounds the requests other than finance reads to
three or four (a violation of the serial properties needs a request that
prepares, one that disturbs and one that observes); `MaxTime` lets a flight
depart, land and be settled. Two slots suffice for the races, as each needs one
stale copy and one writer. In `history` a flight takes three of a day's four
ticks, which puts the return leg of one day on the departure of a later outbound
leg; in `races` flights are short. Deadlock checking is off where the bounds end
a behaviour.

A request is shorter than the shortest flight: while it is in progress the clock
moves on at most once (the guard of `Tick`).

Fairness is assumed in three places. `WorldFairness`: tick-service,
operations-service and the gateway each go on with their own loop and come back
after a kill, because the loops have no condition but the one in the code and
docker restarts a killed process (`restart: on-failure`). `FairJobsSpec`: an
import job ends and the half-second timers fire. The first half is an assumption
about the world and not a consequence of the code: neither
import/runtime/rest-countries.ts:97 nor aircraft-images/fetch.ts:194 sets a
timeout, so what ends a call that hangs is the runtime's limit on an idle
connection. `EndIsSeen` is about what happens once the job has ended; nothing is
assumed or claimed of calibrations. `FairSpec` of `WorldImport`, under the same
assumption: a started import and airline-service's consumer go on. Nothing is
assumed of the clock, clients, administrators, faults or the fuel market.
Handlers of the BFF that wait for nothing but the event loop end by themselves;
that is not stated as a property.

## Divergences

Module names stand for `frontend/bff/src/modules/...`, `docs/` for `frontend/docs/`.

- `analysis_overdraft` (code): analyzeRoutePriceRequest adds sumLedger(ledger)
  to snapshot.airline.balance, which loadFleetSnapshot (fleet/snapshot.ts:31-36)
  has already adjusted by the same sum: the ledger counts twice, so profits pay
  for analyses that cost more than the funds, and losses refuse ones the player
  can pay for. src/frontend/docs/bff.md:310 says "backend balance является
  базовой суммой, BFF ledger хранит только операционный delta" (the backend
  balance is the base amount, the ledger holds only the operational delta),
  which makes their sum what can be spent; routes/index.ts:84 refuses with "Not
  enough balance to pay for the analysis."
- `tick_restart` (code): SetLastProcessed15Min inserts the first row with
  last_processed_1_hour NULL. If the service goes down before the first hour
  tick, GetState (game_state_repository.go:34) cannot scan that NULL into a
  time.Time; Run returns the error (tick_loop.go:37-39), main only logs it and
  exits with status 0 (main.go:42-44), and "restart: on-failure"
  (docker-compose.yaml:148) leaves a process that ended with 0 alone. Whoever
  starts it again gets the same. tick_loop.go:34-35 says, under
  ProduceMissedEvents, "get initial state of game in db", and lines 48-49 that
  only without it there are "no events to produce to catch up missed ones".
- `airport_deleted` (code): airport_service.go:132-139 sends "airport deleted"
  to operations_airports_deleted (topics.go:5); airline-service maps its handler
  to operations_airport_deleted (main.go:47) and subscribes to
  operations_airport_created only (main.go:52). airport_service.go:132 says
  `send event "airport deleted"` and airport_handler.go:34 answers it with
  DeleteAirportView: a deleted airport is meant to leave the view, and
  CreateAirline (airline_service.go:43) goes on accepting it as a base.

Seen with TLC on variants of these instances and not kept as runs of their own.
The hazards of `PROJECT.json` that no property covers, or that a property excepts,
are among these and the next list; the code has nothing that prevents or repairs
them, so no property that holds could forbid them:

- two overlapping POST /operations/schedules that load before either saves both
  pass the conflict check (planning.ts:321) and put one aircraft on two routes;
- with a crash between `deleteSchedulesForAircraft` and
  `deleteFutureFlightsForSchedules` (operations/index.ts:309) the old week's
  flights stay for ever, because the removed ids are lost; with a crash inside
  the cascade of `deleteRouteRequest` (routes/index.ts:168) flights and
  schedules stay, and a retry answers 404;
- two overlapping activations of one slot store two rows for one departure
  (load.ts:14 filters against the handler's own snapshot);
- a cancellation that overlaps a completion overwrites it (flight-cancel.ts:15),
  and two overlapping completions around a fuel price change rewrite the
  persisted result (operations/index.ts:122);
- a finance read books flights in the air, as calculator.ts:32 says and
  docs/bff.md:312 does not; DELETE /routes/:id accepts routes of every status,
  although docs/bff.md:260 names draft and awaiting_schedule only;
- the result of a departed flight that nobody completed is computed again on
  every load and moves with the fuel price and the fares (load.ts:45), although
  settlement.ts:2-4 speaks of "no drift across reads";
- replacing a week deletes rows of flights that have departed, because the
  stored status stays the one of their creation (operations/storage.ts:27;
  schedule-replace.ts:71 says "future (still-scheduled) flights");
- a leg that was generated as `boarding` or `in_flight` (flights.ts:339) is kept
  without a schedule when its week is replaced or emptied: both filters go by the
  stored status `scheduled` (storage.ts:27, schedule-replace.ts:95);
- one replacement that schedules two routes leaves one of them
  `awaiting_schedule` (operations/index.ts:256: both `saveRoute` calls start
  from the same copy of the document);
- two days without slots at one airport make two notifications with one dedupe
  key in one check (events/reconcile.ts:87, notifications.ts:66-70;
  docs/TESTS.md:23 asks for no duplicates). The `notes` run has this case;
  `OneCheckPerKey` does not forbid it;
- a restart between the saved list and its events leaves a warning that is never
  announced (events/notifications.ts:72), one between a hub and its fee a hub that
  is never paid (hubs/index.ts:67);
- a hub that is closed and opened again is free, as its fee's key names the
  airline and the airport only (hubs/index.ts:118);
- the dashboard's fallback resolves an ignored notification, and the next full
  check shows it as new (game/index.ts:604; bff/tests/events.test.ts:74 says
  ignored ones stay ignored while the risk remains);
- a request that begins after a purchase has ended may join a GET begun before
  it (backend-http.ts:128) and decide on the old balance;
- a flight that is cancelled, or completed before an earlier one, leaves a hole
  in its schedule's representative week (facilities/slots.ts:122); the next
  activation passes the capacity check although the same weekday a week later
  ends above capacity (docs/bff.md:345: a projected utilization above 100 %
  blocks the activation);
- under daylight saving the planner's clocks are not the flights': it uses the
  offsets of 1 June 2026 for every date (facilities/constraints.ts:220) and the
  generator those of each date (schedule-time.ts:18-26). In winter a flight can
  depart or land within a night ban that the planner did not see, and can fall on
  another local day than the one it was counted on, which takes that day above its
  capacity. The `headroom` run has such a change, and both of its properties except
  the flights concerned;
- a replacement can leave such a hole in the week itself: a second one on the
  same day keeps the outbound leg that was stored as `in_flight`, drops the
  return leg, whose stored status still is `scheduled` (schedule-replace.ts:95),
  and does not generate it again once it has departed. The pattern's
  representative week then starts with the kept leg and lacks the return, and
  the next pattern of the same body passes the check although that weekday is
  full a week later. TLC finds it with a body of two patterns and days of six
  ticks.

In the modelled code, and in the runs, where the properties except it:

- a poll that comes with an error drops its whole batch and goes on past it
  (consumer.go:48-51 of operations-service, airline-service and the gateway): hour
  ticks without a price, airports that never reach the view and prices that no
  client hears of, although no handler has failed;
- an import skips an entity for any 409, of an update and of the second unique
  code as well (importExecutor.ts:101-116), and reports no error: one that
  "succeeded" may lack what its report lists as skipped;
- a list whose load crosses a `clear()` is stored after it (proxy/index.ts:387) and
  served stale until the next mutation or a request with `refresh=true`;
- an image an administrator sets while the refresh job waits for that type's own
  (refresh.ts:120, 142), or before the job's first write, or deletes while the job
  runs, is lost with the job's next write.

Seen while reading, on the modelled code:

- an import that fails half-way has changed the backend and does not clear the
  list cache, nor do image overrides (docs/bff.md:368 says the list cache is
  cleared after world mutations and imports);
- reconciling stores the hash of the new payload for a row it finds, so rows
  without references that existed before the first import are never updated; a
  mapping of a row an administrator has deleted stays in the file;
- `source-mapping.json` is not written atomically: after a kill in the middle of
  the write every import fails to read it.

## Proofs

`OperationsProofs` proves, for any routes, aircraft, request bodies, fuel prices
and number of slots, under the assumptions `TimeAssumption`,
`NetworkAssumption` and `OperationsAssumption` (types of the constants, and that
the synthetic route of a ferry flight is no route a player created:
operations/ferry.ts:190 spells it from two airport codes, a created route has a
random id):

- `TypeCorrect`: the documents and every handler's copies keep their shape;
- `FlightIdsUnique`, `CopiesUnique`, `CompletionsArrived`;
- `LedgerImplementsSettlement`: the ledger implements `Settlement`, whose
  `OncePerFlight` is the idempotency of the postings.

Unique ids are not inductive alone: `MergeFlights` replaces rows by id and would
keep two rows of one id if the handler brought them. `IInv` therefore says of
every snapshot and of every pending batch what it says of the document
(`RowsOK`: ids unique, completed rows have arrived), and `DedupeUnique` shows
that a generated batch satisfies it. That a completed row has arrived survives
stale snapshots because time only moves forward (`OnTime` is monotonic in
`now`). One lemma per group of actions shows that `IInv` is preserved
(`AcceptOK`, `PlanOK`, `SaveOK`, `FlightRequestOK`, `BookOnce`, `WorldOK`).

It proves further, under the same assumptions and for requests served one
at a time (`OneAtATime(s)`: the only slot is `s`, and no request is lost in a
crash), the eight properties of the `history` run that need this, overlapping
requests being able to break them (see the divergences): `SchedulesDoNotOverlap`,
`DeparturesAreDistinct`, `RoutesOutliveRows`, `NoFlightIsAGhost` (with the
exception that `NoGhostFlights` states),
`SchedulesAreCovered`, `CompletionIsFinal`, `ResultIsFinal` and
`HistoryGoesWithItsRoute`. Time, the fuel price and finance reads go on in
between.

- Five of them are parts of one predicate, `Consistent`, over routes, schedules,
  flights and the time. In the middle of a request it is false: a replacement
  has deleted schedules whose flights are still there. The invariant, `Pending`,
  therefore says what the request will leave behind: whatever await the slot is
  suspended on, the documents with the writes it has still to make are
  `Consistent`, its snapshot shows the documents (`Mirrors`), and the rows it
  will add are `Fresh`, so that the merge by id replaces nothing.
- `PlanConsistent` is the heart of it: a plan made against the rows that a
  request keeps is consistent with those rows. It rests on lemmas about the pure
  part: `ActivePatterns` (the recursive function that picks the active patterns
  lets no two overlap), `DedupeCovers` (every departure of a plan is stored
  already or kept by the deduplication), `CoveredLater` (a departure to come was
  to come before).
- `FirstFit` and `FirstPair` find the pattern or the row that was taken first.
  They are inductions, made without an induction rule: a set of numbers has a
  least one (`LeastNumber`).
- `AircraftConsistent` and `RouteConsistent` say that an aircraft's schedules
  can go with their future flights, and a route with all that belongs to it.
- `KeepsHistory` is what every step owes the rows; each of the three action
  properties is a part of it.

`NotificationsProofs` proves, for any conditions, keys and number of slots,
under `NotificationsAssumption`:

- `NotificationsTypeCorrect`;
- `NotificationsUnique`: `OneCheckPerKey`, for any assignment of keys to
  conditions, distinct or not. The invariant says the same of every list a handler
  holds, since any of them may become the document, and rests on `ReconciledOnce`:
  what a check raises has no key of the list it was raised against;
- `EveryWarningAnnounced`: until the first restart every stored or resolved
  warning is in the feed or about to be. The invariant extends this to the
  copies handlers hold, because a stale copy may bring a notification back that
  another request has overwritten.

`BalanceProofs` proves, for any prices, fees, flights, slots, requests and
failures, under `BalanceAssumption`:

- `BalanceTypeCorrect`: among the types, that the balance is never negative. The
  invariant (`Typed`) adds `Fits`: a handler's record has the kind and the
  target that the await it is suspended on needs;
- `HubsArePaid`: inductive given the types, because the ledger only grows and a
  handler that opened a hub waits in "pay" until its fee is written or a restart
  makes the hub one of `unfinished`;
- `MoneyConserved`: each step moves the balance and the number of prices spent
  (`Spent`: aircraft and charges in progress) together, or one more call has
  failed. `ConservedMoves` does the arithmetic once; `ChargeConserves`,
  `InsertAircraftConserves`, `RefundConserves` and `SyncBalanceConserves` say
  what each call contributes;
- `OverdraftIsBounded`: however requests overlap, they overspend by at most one
  purchase or hub for every slot but one, and one aircraft for every slot
  (`OverdraftBounded`).

The bound needs the strongest invariant of the project, `Sound`. `Worth` is what
the player could spend if the balance had followed every entry, `Left` what
remains of it when every purchase and hub that is decided has been paid
(`Reserved`). A bound on `Left` alone is not inductive: a request decides with a
balance that was told to it and a ledger it reads, and may do so after others
have spent. `Floor` therefore counts out any set `W` of requests that have still
to decide: `Left` is at least what the slots outside `W` may have brought it to,
or one of `W` sees at most that much more than is left and will decide
accordingly (`Known`). A request that decides leaves every such `W`, for which
reason `FloorHolds` is about all of them at once, and with `W` empty the floor is
the bound. `Heard` says the same of the coalesced
answer that is on its way: it may have missed one charge for each slot that is
not `Ahead` of it. `Books` keeps the adjustments numbered, so that the one whose
balance is still to follow can be told from those that lost it. One lemma per
action (`ChargeBounds`, `PayFeeBounds`, ...) rests on `TurnBounds`, which does
the arithmetic for a turn of one request, or on `SpreadBounds` and `SameBounds`
for a step of none. The sums are folds, over which nothing can be proved by
induction; `SumLedgerIsTotal` and `UncheckedIsTotal` unfold them once into the
sum `Total` of a function over a finite set, whose laws (`TotalTake`, `TotalAdd`,
`TotalLess`) are proved by induction over the least counterexample (`NumberSteps`).
`BalanceAssumption` asks for a finite, nonempty set of slots and finitely many
airports, without which `Overlaps` and `Dearest` are no numbers.

`HeadroomProofs` proves, for any airports, offsets, changes of clocks, block
times, patterns, turnarounds and requests, under `HeadroomAssumption`, which asks
of a change that it is by less than a day:

- `HeadroomTypeCorrect`, types and no more;
- `NightBansAreKept`: the local times the planner has checked are those of the
  flights, where the clocks of both ends show what they show on the reference
  date. Its invariant, `Lawful`, adds to the types that every row with these
  clocks flies at the times of its pattern (`DayRows`), and is the content of
  `LawIsKept`. `FlightClocks` says what the premise means for a leg: it lands on
  the local day and at the time the planner adds up to from those of its
  departure. `FlightTimes` is the heart of it: the planner adds block times and
  turnarounds to a time of day, dropping whole days three times on the way
  (`ThereTime`, `BackTime`, `HomeTime`), the generator adds them to an instant
  and the clock drops the days once. `DaysOff` and `DaysDropped` say that this
  makes no difference; they rest on the uniqueness of the remainder.
  `PlaceTyped` carries this over one pattern of a body and `PlaceAllTyped` over
  all of them;
- `RowsStayOrderly`: finitely many rows, each between the ends of its schedule's
  route, one of a schedule for an instant (`DedupeOrderly`, `MergeOrderly`). What
  follows counts rows and rests on it;
- `ActivationsKeepHeadroom`: `HeadroomKept` with its two exceptions, whatever was
  replaced before. Both halves of a date's movements are mapped one to one to what
  the planner counts for its weekday. What was there goes to the flight of the
  representative week that stands for it (`SummaryCounts`): two flights of a date
  have different ones, since they are whole weeks from theirs and less than two
  days from each other, a change of clocks on the date included (`OneOfADate`,
  which is why a week has two days at least). That the one that stands for a flight
  is counted on the same weekday is what `HiddenOn` excepts, no assumption. What is
  new goes to the use of its leg (`ProjectionCounts`): on the planner's clocks a
  leg of a date has one operating day, because the planner's days after it
  (`ThereDay`, `BackDay`, `HomeDay`) are those of the instants. `RoomFound` is the
  check of the capacity.

`WorldProofs` proves of `TickLoop` and of `FuelPrices`, for any periods, start,
draws and number of faults, under `TickAssumption` and `FuelAssumption`:

- `TicksNotSkipped`, `DuplicatesPerFault`, `TicksNotEarly`: the invariant
  `TickInv` relates the row, the process's copy of it and the topic at each
  place the process can be, so that a kill between sending and recording costs
  one duplicate and nothing else;
- `PricesAreAWalk`, `EveryTickPriced`, `AnnouncementsOrdered`,
  `AnnouncementsShown`: `FuelInv` says where the in-memory price stands to the
  table (equal, one draw behind, or gone with the process), and counts stored
  prices, failed draws and records the group is past. A draw that failed is a
  handler's error or a record dropped with a failed poll, for `AnnouncementsShown`
  likewise a broadcast.

It then shows that every behaviour of `World` is one of `TickLoop` and one
of `FuelPrices` (`WorldHasTickLoop`, `WorldHasFuelPrices`), which carries their
theorems over to the composition (`WorldTicks`, `WorldPrices`).

`ImportProofs` proves, for any entities, order, imports, faults and number of
administrator's changes, under `AirportsAssumption` and `ImportAssumption` (the
missing row `None` is no row, no mapping and no payload), the five properties of
the `import` run:

- `ImportTypes`, and with it that ids are given once and in order (`TablesType`);
- `ImportsDoNotPostBlindly`: `RunGood` says what an import knows: an entity of a
  kind it has read, without a mapping, is not in the backend unless its row is
  newer than that list;
- `SuccessIsComplete`: as long as no natural key has lost its row, every mapping,
  in the file and in every import's memory, is of a row that exists, and so is
  every entity an import is past, unless it was skipped for a conflict or there is
  an error to report;
- `AirportViewKeepsUp`: what the view has, what an error was logged for, and the
  records its group is past (`ConsumerProofs`, shared with the other consumers of
  topics);
- `ReimportsAreIdle`: in a calm state (an import of this release has succeeded,
  no administrator has changed anything) no import sends a request (`CalmRuns`).

The argument is a rely-guarantee one. `Steady` is what the tables promise at every
step, whoever takes it: ids only grow and rows disappear only once `deleted` is
set. `Moves(p)` is what one import changes. Each action of an import is shown to
be `Steady` and to move only its own run; `GoodStays` shows that a run which does
not move stays good.

`AdminWorldProofs` proves of `ImportJobs`, for any number of sockets and jobs,
`OneJobRuns` and `NoSocketLeftBehind`. The latter needs `PendingSelected`: what
a timer waits for is what its socket still follows.

For any number of readers, types and overrides it proves that the composition
implements the jobs (`AdminHasJobs`), that a cached list is as new as the last
clearing write (`ListsSeeWrites`, from `AnswersSeeWrites`, which says it of the
lists still on their way), and that an image set outside of a job, or after its
first write and not while that type's image is fetched, lasts (`OverridesKept`,
from `JobKeepsOverrides`: the job's map has what has to last, is the same object
once the job has written, and no job that was not asked to refresh waits for the
image of such a type).


Model-checked only: the liveness properties (`HoursReachClients`, `EndIsSeen`),
which are out of TLAPS's reach, and the violated statements.

## Not modelled, and the plan

- auth-service and the token checks: registration is one INSERT under unique
  keys and tokens are stateless, so nothing is left to interleave. The BFF's
  cached admin token is renewed within one request; `WorldImport` has the expiry
  of an import's own token.
- POST /routes: one read, one check for a duplicate (which becomes a draft) and
  one write under a random id. It disturbs nothing that `Operations` relates,
  which starts with its routes created.
- The BFF's fuel price and `fuel-price` document: every change happens in one
  turn; to `Operations` it is `FuelMoves`.
- The gravity model of demand, route economics, the calibration fit: floating
  point arithmetic over large inputs, of which the models keep the outcome only.
- How the data of a release is built from its sources (`import/sources`,
  builders): pure functions from files to `Order`.

- Region links, the demand columns of operations-service, the audit log, the
  airline registry: single statements.
- Presentation: Vue and Svelte views, the map, translations, the event bus. The
  shell's notification store and SDK keep copies without authority.
- Generated OpenAPI and protobuf code, migrations, build files.

More than half of the repository's lines are of the last five kinds, which is
why the map of definitions to lines covers a small share of it.

What would come next: what a replacement may exceed a capacity by; a refinement
of `Operations` to an abstract timetable for serial requests.
