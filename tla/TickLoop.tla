------------------------------ MODULE TickLoop ------------------------------
(***************************************************************************)
(* tick-service: one loop that turns the game clock into tick events.      *)
(* Every iteration reads the clock once and, for the quarter-hour and then *)
(* for the hour, sends one event if more than a period has passed since    *)
(* the last processed time, and then records the time it has processed.    *)
(*                                                                         *)
(* The send and the record are two calls to two systems (Kafka, Postgres): *)
(* the process can be killed, or either call can fail, between them.  A    *)
(* failed call ends Run, and main then returns: the process exits with     *)
(* status 0, which docker's "restart: on-failure" leaves alone.            *)
(***************************************************************************)
EXTENDS Integers

CONSTANTS Period,              \* Period[k]: game time between two ticks of kind k
          Start,               \* START_GAME_TIME
          ProduceMissedEvents, \* PRODUCE_MISSED_EVENTS
          MaxClock,            \* bound: the game clock stops here
          MaxTickFaults        \* bound: kills and failed calls

Kinds == {"quarter", "hour"}

\* A column of game_state no tick has written yet (NULL).
Unset == -1

ASSUME TickAssumption ==
    /\ Period \in [Kinds -> Nat \ {0}]
    /\ Start \in Nat
    /\ ProduceMissedEvents \in BOOLEAN
    /\ MaxClock \in Nat
    /\ MaxTickFaults \in Nat

VARIABLES
    clock,   \* the game time, utils.CurrentGameTime
    row,     \* the game_state row; all Unset when there is none
    last,    \* tickLoop.lastProccessed15Min, lastProccessed1Hour
    now,     \* currentGameTime of the iteration under way
    kind,    \* the tick the iteration is at
    pc,      \* where the process is
    sent,    \* sent[k]: the length of the topic of kind k
    faults   \* kills and failed calls so far

tickVars == <<clock, row, last, now, kind, pc, sent, faults>>

\* "exited": main returned with status 0; "killed": any other status.
Places == {"starting", "polling", "check", "record", "exited", "killed"}

TickTypeOK ==
    /\ clock \in Nat
    /\ row \in [Kinds -> Nat \cup {Unset}]
    /\ last \in [Kinds -> Nat]
    /\ now \in Nat
    /\ kind \in Kinds
    /\ pc \in Places
    /\ sent \in [Kinds -> Nat]
    /\ faults \in Nat

TickInit ==
    /\ clock = Start
    /\ row = [k \in Kinds |-> Unset]
    /\ last = [k \in Kinds |-> Start]
    /\ now = Start
    /\ kind = "quarter"
    /\ pc = "starting"
    /\ sent = [k \in Kinds |-> 0]
    /\ faults = 0

-----------------------------------------------------------------------------

\* The game time runs on whatever the service does.
ClockMoves ==
    /\ clock < MaxClock
    /\ clock' = clock + 1
    /\ UNCHANGED <<row, last, now, kind, pc, sent, faults>>

NoRow == \A k \in Kinds : row[k] = Unset
WholeRow == \A k \in Kinds : row[k] # Unset

\* Where the first iteration starts from.  A row with one column still NULL
\* cannot be scanned into two time.Time values: Run returns the error.
LoadState ==
    /\ pc = "starting"
    /\ \/ /\ ~ProduceMissedEvents
          /\ last' = [k \in Kinds |-> clock]
          /\ pc' = "polling"
       \/ /\ ProduceMissedEvents
          /\ NoRow
          /\ last' = [k \in Kinds |-> Start]
          /\ pc' = "polling"
       \/ /\ ProduceMissedEvents
          /\ WholeRow
          /\ last' = row
          /\ pc' = "polling"
       \/ /\ ProduceMissedEvents
          /\ ~NoRow
          /\ ~WholeRow
          /\ pc' = "exited"
          /\ UNCHANGED last
    /\ UNCHANGED <<clock, row, now, kind, sent, faults>>

\* GetState fails for any other reason.
LoadFails ==
    /\ pc = "starting"
    /\ ProduceMissedEvents
    /\ faults < MaxTickFaults
    /\ faults' = faults + 1
    /\ pc' = "exited"
    /\ UNCHANGED <<clock, row, last, now, kind, sent>>

\* One round of the for loop begins by reading the clock.
BeginIteration ==
    /\ pc = "polling"
    /\ now' = clock
    /\ kind' = "quarter"
    /\ pc' = "check"
    /\ UNCHANGED <<clock, row, last, sent, faults>>

\* Mutant: the iteration ends after the quarter-hour.
SleepNext ==
    /\ pc' = "polling"
    /\ kind' = "hour"

\* On to the hour, or to the sleep that ends the iteration.
NextCheck ==
    /\ pc' = IF kind = "quarter" THEN "check" ELSE "polling"
    /\ kind' = "hour"

Elapsed(k) == now - last[k] > Period[k]

NotElapsed ==
    /\ pc = "check"
    /\ ~Elapsed(kind)
    /\ NextCheck
    /\ UNCHANGED <<clock, row, last, now, sent, faults>>

SendTick ==
    /\ pc = "check"
    /\ Elapsed(kind)
    /\ sent' = [sent EXCEPT ![kind] = @ + 1]
    /\ pc' = "record"
    /\ UNCHANGED <<clock, row, last, now, kind, faults>>

\* Mutant: the upsert writes both columns.
RecordBoth ==
    /\ pc = "record"
    /\ last' = [last EXCEPT ![kind] = @ + Period[kind]]
    /\ row' = [k \in Kinds |-> last[kind] + Period[kind]]
    /\ NextCheck
    /\ UNCHANGED <<clock, now, sent, faults>>

\* Mutant: only the struct is updated.
RecordInMemory ==
    /\ pc = "record"
    /\ last' = [last EXCEPT ![kind] = @ + Period[kind]]
    /\ NextCheck
    /\ UNCHANGED <<clock, row, now, sent, faults>>

\* The upsert writes one column and leaves the other as it is (or NULL).
RecordTick ==
    /\ pc = "record"
    /\ last' = [last EXCEPT ![kind] = @ + Period[kind]]
    /\ row' = [row EXCEPT ![kind] = last[kind] + Period[kind]]
    /\ NextCheck
    /\ UNCHANGED <<clock, now, sent, faults>>

\* A call that fails ends the process with status 0.  It may have taken
\* effect: a produce that times out, a commit whose answer is lost.
SendFails ==
    /\ pc = "check"
    /\ Elapsed(kind)
    /\ faults < MaxTickFaults
    /\ faults' = faults + 1
    /\ \/ sent' = [sent EXCEPT ![kind] = @ + 1]
       \/ UNCHANGED sent
    /\ pc' = "exited"
    /\ UNCHANGED <<clock, row, last, now, kind>>

RecordFails ==
    /\ pc = "record"
    /\ faults < MaxTickFaults
    /\ faults' = faults + 1
    /\ \/ row' = [row EXCEPT ![kind] = last[kind] + Period[kind]]
       \/ UNCHANGED row
    /\ pc' = "exited"
    /\ UNCHANGED <<clock, last, now, kind, sent>>

TickKilled ==
    /\ pc \notin {"exited", "killed"}
    /\ faults < MaxTickFaults
    /\ faults' = faults + 1
    /\ pc' = "killed"
    /\ UNCHANGED <<clock, row, last, now, kind, sent>>

\* restart: on-failure.
TickRestarted ==
    /\ pc = "killed"
    /\ pc' = "starting"
    /\ UNCHANGED <<clock, row, last, now, kind, sent, faults>>

\* Somebody starts the service that had exited with status 0.
TickStartedAgain ==
    /\ pc = "exited"
    /\ pc' = "starting"
    /\ UNCHANGED <<clock, row, last, now, kind, sent, faults>>

\* What the service does by itself.
TickWork ==
    \/ LoadState
    \/ BeginIteration
    \/ NotElapsed
    \/ SendTick
    \/ RecordTick
    \/ TickRestarted

TickNext ==
    \/ ClockMoves
    \/ TickWork
    \/ LoadFails
    \/ SendFails
    \/ RecordFails
    \/ TickKilled
    \/ TickStartedAgain

TickSpec == TickInit /\ [][TickNext]_tickVars

-----------------------------------------------------------------------------

\* What game_state says has been processed, from Start.
Recorded(k) == IF row[k] = Unset THEN Start ELSE row[k]

\* At least once: with missed events produced, no time is recorded as
\* processed for which the topic has no event, whatever was killed or failed
\* between the send and the record.
NoTickSkipped ==
    ProduceMissedEvents =>
        \A k \in Kinds : Recorded(k) <= Start + Period[k] * sent[k]

\* And no burst of duplicates: an event was sent for each recorded period,
\* one more may be waiting for its record, and a fault costs at most one
\* duplicate.
DuplicatesBounded ==
    ProduceMissedEvents =>
        \A k \in Kinds :
            sent[k] * Period[k] <=
                Recorded(k) - Start +
                Period[k] * (faults + (IF pc = "record" /\ kind = k THEN 1 ELSE 0))

\* A tick stands for time that is over: no period is recorded before the
\* game clock has passed its end.
NoEarlyTick == \A k \in Kinds : Recorded(k) <= clock

\* With missed events produced the loop works from what the table says: a
\* send never repeats or skips a period while the process stays up.
LoopFollowsRow ==
    ProduceMissedEvents /\ pc \in {"polling", "check", "record"} =>
        \A k \in Kinds : last[k] = Recorded(k)

\* The send comes before the record: what is about to be recorded was sent.
SentFirst ==
    ProduceMissedEvents /\ pc = "record" =>
        Recorded(kind) + Period[kind] <= Start + Period[kind] * sent[kind]

\* The inductive strengthening the proofs use.
TickInv ==
    /\ TickTypeOK
    /\ NoTickSkipped
    /\ DuplicatesBounded
    /\ NoEarlyTick
    /\ LoopFollowsRow
    /\ SentFirst
    /\ now <= clock
    /\ Start <= clock
    /\ pc \in {"polling", "check", "record"} => \A k \in Kinds : last[k] <= clock
    /\ pc = "record" => Elapsed(kind)
=============================================================================
