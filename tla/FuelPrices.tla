----------------------------- MODULE FuelPrices -----------------------------
(***************************************************************************)
(* The backend's fuel price: operations-service draws a new price for each *)
(* hour tick, stores it, announces it on a topic and only then takes it as *)
(* its last price; the gateway broadcasts every announcement to the        *)
(* Socket.IO clients that are connected.                                   *)
(*                                                                         *)
(* Both services can be killed between any two of these steps, and the     *)
(* insert, the produce and the broadcast can fail.  A poll can fail and    *)
(* take its records with it; operations-service's one client reads the     *)
(* quarter ticks too, so that an error of that topic drops hour ticks.     *)
(* The topic of the hour ticks is written by somebody else: hourTicks is   *)
(* its length.                                                             *)
(***************************************************************************)
EXTENDS Integers, Sequences, Consumer

CONSTANTS StartPrice,     \* START_FUEL_PRICE
          Wobble,         \* the most a price moves in one draw
          Draws,          \* how far it can move
          MaxFuelFaults   \* bound: kills and failed calls

ASSUME FuelAssumption ==
    /\ StartPrice \in Int
    /\ Wobble \in Nat
    /\ Draws \subseteq -Wobble..Wobble
    /\ MaxFuelFaults \in Nat

VARIABLES
    hourTicks,        \* length of the topic tick_1_hour_elapsed
    stored,           \* global_fuel_price: the prices, oldest first
    lastPrice,        \* fuelService.lastPrice
    opsPc,            \* "down", "idle", or "sending" the price just stored
    opsGroup,         \* operations-service-group on the hour ticks
    failedDraws,      \* hour ticks whose handler or whose poll had an error
    announced,        \* operations_fuel_price_changed: rows of stored
    gateUp,           \* the gateway runs
    gateGroup,        \* gateway-service-group on that topic
    shown,            \* the announcement the clients were sent last; 0: none
    failedBroadcasts, \* announcements whose broadcast or poll failed
    fuelFaults        \* kills and failed calls so far

opsVars == <<stored, lastPrice, opsPc, opsGroup, failedDraws>>
gateVars == <<gateUp, gateGroup, shown, failedBroadcasts>>
fuelVars == <<opsVars, announced, gateVars, fuelFaults>>

FuelTypeOK ==
    /\ hourTicks \in Nat
    /\ stored \in Seq(Int)
    /\ lastPrice \in Int
    /\ opsPc \in {"down", "idle", "sending"}
    /\ opsGroup \in Group /\ OrderedGroup(opsGroup) /\ opsGroup.limit <= hourTicks
    /\ failedDraws \in Nat
    /\ announced \in Seq(Nat)
    /\ gateUp \in BOOLEAN
    /\ gateGroup \in Group /\ OrderedGroup(gateGroup)
    /\ gateGroup.limit <= Len(announced)
    /\ shown \in Nat
    /\ failedBroadcasts \in Nat
    /\ fuelFaults \in Nat

FuelInit ==
    /\ stored = <<>>
    /\ lastPrice = StartPrice
    /\ opsPc = "idle"
    /\ opsGroup = NewGroup
    /\ failedDraws = 0
    /\ announced = <<>>
    /\ gateUp = TRUE
    /\ gateGroup = NewGroup
    /\ shown = 0
    /\ failedBroadcasts = 0
    /\ fuelFaults = 0

MayFail ==
    /\ fuelFaults < MaxFuelFaults
    /\ fuelFaults' = fuelFaults + 1

-----------------------------------------------------------------------------
(* operations-service. *)

OpsPoll ==
    /\ opsPc = "idle"
    /\ CanPoll(opsGroup, hourTicks)
    /\ opsGroup' = Poll(opsGroup, hourTicks)
    /\ UNCHANGED <<stored, lastPrice, opsPc, failedDraws, announced, gateVars,
                   fuelFaults>>

\* The poll has an error: Run drops what came with it.
OpsPollFails ==
    /\ opsPc = "idle"
    /\ CanPoll(opsGroup, hourTicks)
    /\ MayFail
    /\ opsGroup' = Dropped(opsGroup, hourTicks)
    /\ failedDraws' = failedDraws + (hourTicks - opsGroup.next)
    /\ UNCHANGED <<stored, lastPrice, opsPc, announced, gateVars>>

\* A price near the last one, wherever that is.
WobblePrice(price) == {price + d : d \in Draws}

\* SetNewFuelPrice, up to the insert.
StorePrice ==
    /\ opsPc = "idle"
    /\ HasRecord(opsGroup)
    /\ \E price \in WobblePrice(lastPrice) : stored' = Append(stored, price)
    /\ opsPc' = "sending"
    /\ UNCHANGED <<lastPrice, opsGroup, failedDraws, announced, gateVars,
                   fuelFaults>>

\* The insert returns an error, whether the row is there or not: the handler
\* fails and the tick is not tried again.
StoreFails ==
    /\ opsPc = "idle"
    /\ HasRecord(opsGroup)
    /\ MayFail
    /\ \/ \E price \in WobblePrice(lastPrice) : stored' = Append(stored, price)
       \/ UNCHANGED stored
    /\ opsGroup' = Handled(opsGroup)
    /\ failedDraws' = failedDraws + 1
    /\ UNCHANGED <<lastPrice, opsPc, announced, gateVars>>

\* The event is on the topic and the price becomes the last price.
AnnouncePrice ==
    /\ opsPc = "sending"
    /\ announced' = Append(announced, Len(stored))
    /\ lastPrice' = stored[Len(stored)]
    /\ opsPc' = "idle"
    /\ opsGroup' = Handled(opsGroup)
    /\ UNCHANGED <<stored, failedDraws, gateVars, fuelFaults>>

\* The produce returns an error: the stored price is not announced (or the
\* broker has it all the same) and the last price stays the one before it.
AnnounceFails ==
    /\ opsPc = "sending"
    /\ MayFail
    /\ \/ announced' = Append(announced, Len(stored))
       \/ UNCHANGED announced
    /\ opsPc' = "idle"
    /\ opsGroup' = Handled(opsGroup)
    /\ failedDraws' = failedDraws + 1
    /\ UNCHANGED <<stored, lastPrice, gateVars>>

OpsKilled ==
    /\ opsPc # "down"
    /\ MayFail
    /\ opsPc' = "down"
    /\ UNCHANGED <<stored, lastPrice, opsGroup, failedDraws, announced, gateVars>>

\* Mutant: every start begins from START_FUEL_PRICE.
OpsRestartedAnew ==
    /\ opsPc = "down"
    /\ opsPc' = "idle"
    /\ lastPrice' = StartPrice
    /\ \E c \in Commits(opsGroup) : opsGroup' = Rejoined(opsGroup, c)
    /\ UNCHANGED <<stored, failedDraws, announced, gateVars, fuelFaults>>

\* NewFuelService continues from the newest row, if there is one.
OpsRestarted ==
    /\ opsPc = "down"
    /\ opsPc' = "idle"
    /\ lastPrice' = IF stored = <<>> THEN StartPrice ELSE stored[Len(stored)]
    /\ \E c \in Commits(opsGroup) : opsGroup' = Rejoined(opsGroup, c)
    /\ UNCHANGED <<stored, failedDraws, announced, gateVars, fuelFaults>>

-----------------------------------------------------------------------------
(* The gateway. *)

GatePoll ==
    /\ gateUp
    /\ CanPoll(gateGroup, Len(announced))
    /\ gateGroup' = Poll(gateGroup, Len(announced))
    /\ UNCHANGED <<opsVars, announced, gateUp, shown, failedBroadcasts, fuelFaults>>

GatePollFails ==
    /\ gateUp
    /\ CanPoll(gateGroup, Len(announced))
    /\ MayFail
    /\ gateGroup' = Dropped(gateGroup, Len(announced))
    /\ failedBroadcasts' = failedBroadcasts + (Len(announced) - gateGroup.next)
    /\ UNCHANGED <<opsVars, announced, gateUp, shown>>

Broadcast ==
    /\ gateUp
    /\ HasRecord(gateGroup)
    /\ shown' = Current(gateGroup)
    /\ gateGroup' = Handled(gateGroup)
    /\ UNCHANGED <<opsVars, announced, gateUp, failedBroadcasts, fuelFaults>>

BroadcastFails ==
    /\ gateUp
    /\ HasRecord(gateGroup)
    /\ MayFail
    /\ gateGroup' = Handled(gateGroup)
    /\ failedBroadcasts' = failedBroadcasts + 1
    /\ UNCHANGED <<opsVars, announced, gateUp, shown>>

GateKilled ==
    /\ gateUp
    /\ MayFail
    /\ gateUp' = FALSE
    /\ UNCHANGED <<opsVars, announced, gateGroup, shown, failedBroadcasts>>

GateRestarted ==
    /\ ~gateUp
    /\ gateUp' = TRUE
    /\ \E c \in Commits(gateGroup) : gateGroup' = Rejoined(gateGroup, c)
    /\ UNCHANGED <<opsVars, announced, shown, failedBroadcasts, fuelFaults>>

-----------------------------------------------------------------------------

\* What each service does by itself; docker restarts a killed one.
OpsWork == OpsPoll \/ StorePrice \/ AnnouncePrice \/ OpsRestarted
GateWork == GatePoll \/ Broadcast \/ GateRestarted

FuelNext ==
    \/ OpsWork
    \/ OpsPollFails
    \/ StoreFails
    \/ AnnounceFails
    \/ OpsKilled
    \/ GateWork
    \/ GatePollFails
    \/ BroadcastFails
    \/ GateKilled

\* Somebody else adds hour ticks.
HourTick == hourTicks' = hourTicks + 1 /\ UNCHANGED fuelVars

FuelSpec ==
    FuelInit /\ hourTicks = 0
        /\ [][(FuelNext /\ UNCHANGED hourTicks) \/ HourTick]_<<hourTicks, fuelVars>>

-----------------------------------------------------------------------------

Near(a, b, d) == a - b <= d /\ b - a <= d

\* The stored prices are one walk: two rows in a row are never further apart
\* than two draws, although a failed announcement leaves the service's last
\* price behind the table and a restart takes it from the table again.
PricesWalk ==
    /\ stored # <<>> => Near(stored[1], StartPrice, Wobble)
    /\ \A i \in 1..(Len(stored) - 1) : Near(stored[i + 1], stored[i], 2 * Wobble)

\* Every hour tick the group is past has a row in the table, a handler that
\* failed, or was dropped with a poll that failed: each is an error somebody
\* can read in the log, and nothing is lost to a kill, a restart or a commit.
TicksPriced == opsGroup.next <= Len(stored) + failedDraws

\* The clients hear only of stored prices, each announced at most once and
\* in the order of the table.
AnnouncedInOrder ==
    /\ \A i \in 1..Len(announced) : announced[i] \in 1..Len(stored)
    /\ \A i, j \in 1..Len(announced) : i < j => announced[i] < announced[j]

\* The gateway shows what was announced and passes over an announcement only
\* when its broadcast, or the poll it came with, failed.
NoAnnouncementSkipped ==
    /\ shown <= Len(announced)
    /\ gateGroup.next <= shown + failedBroadcasts

\* The inductive strengthening the proofs use: the last price is a draw away
\* from the newest row at most, and a price that waits for its announcement is
\* the newest row and stands for the tick that is being handled.
LastPriceNear ==
    IF stored = <<>> THEN lastPrice = StartPrice
    ELSE Near(stored[Len(stored)], lastPrice, Wobble)

SendingNewest ==
    opsPc = "sending" =>
        /\ stored # <<>>
        /\ HasRecord(opsGroup)
        /\ opsGroup.next < Len(stored) + failedDraws
        /\ \A i \in 1..Len(announced) : announced[i] < Len(stored)

FuelInv ==
    /\ hourTicks \in Nat
    /\ FuelTypeOK
    /\ PricesWalk
    /\ LastPriceNear
    /\ TicksPriced
    /\ SendingNewest
    /\ AnnouncedInOrder
    /\ NoAnnouncementSkipped
=============================================================================
