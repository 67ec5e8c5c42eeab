------------------------------- MODULE World -------------------------------
(***************************************************************************)
(* The backend's time: tick-service writes the hour topic that             *)
(* operations-service reads, and the gateway broadcasts the fuel prices    *)
(* that come of it.  The services share nothing but the topics.            *)
(***************************************************************************)
EXTENDS TickLoop, FuelPrices

worldVars == <<tickVars, hourTicks, fuelVars>>

WorldInit == TickInit /\ FuelInit /\ hourTicks = 0

\* The hour topic is what tick-service has sent.
WorldNext ==
    \/ TickNext /\ hourTicks' = sent'["hour"] /\ UNCHANGED fuelVars
    \/ FuelNext /\ UNCHANGED <<tickVars, hourTicks>>

WorldSpec == WorldInit /\ [][WorldNext]_worldVars

\* Each service goes on with its own work: the loops have no condition but
\* the one in the code, and docker restarts a process that was killed.  The
\* clock, faults, kills and operators are under no fairness.
WorldFairness ==
    /\ WF_tickVars(TickWork)
    /\ WF_fuelVars(OpsWork)
    /\ WF_fuelVars(GateWork)

FairWorldSpec == WorldSpec /\ WorldFairness

WorldTypeOK == TickTypeOK /\ FuelTypeOK /\ hourTicks = sent["hour"]

-----------------------------------------------------------------------------

\* An hour of game time has passed n times.
HoursPassed(n) == clock - Start > n * Period["hour"]

\* End to end: with missed events produced, every hour of game time leads to
\* a price the clients are sent, or to an error in the log of one of the two
\* consumers that stands for it (a draw, a broadcast or a poll that failed),
\* unless the tick-service has exited with a status nobody restarts.
HoursReachClients ==
    ProduceMissedEvents =>
        \A n \in 1..(MaxClock \div Period["hour"]) :
            HoursPassed(n) ~>
                (shown + failedDraws + failedBroadcasts >= n \/ pc = "exited")

\* config.go and tick_loop.go: with ProduceMissedEvents a service that was
\* down produces the events it missed.  A killed service therefore comes back
\* to its loop.
MissedEventsProduced ==
    ProduceMissedEvents => (pc = "killed" ~> pc = "polling")
=============================================================================
