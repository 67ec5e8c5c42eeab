------------------------------ MODULE Balance ------------------------------
(***************************************************************************)
(* The money of one airline.  The airline-service keeps a balance; the BFF *)
(* keeps a ledger, and what the player can spend is the sum of the two.    *)
(* Opening a hub and having a route's prices analysed are paid from the    *)
(* ledger, an aircraft from the balance, and an administrator's credit is  *)
(* written to both.                                                        *)
(*                                                                         *)
(* Each slot of Slots is one request being served.  pc[s] names the call   *)
(* or await it is suspended on; between two of them any other slot runs.   *)
(* A call to a backend service may fail before or after it took effect.    *)
(* Requests for the airline itself are coalesced: while one is on its way, *)
(* every other one waits for the same answer.                              *)
(***************************************************************************)
EXTENDS Integers, FiniteSets, FiniteSetsExt

CONSTANTS
    Slots,         \* requests that can be in progress at once
    Airports,      \* airports other than the airline's base
    Tails,         \* tail numbers the airline asks for
    ForeignTails,  \* those that another airline's aircraft carry
    Flights,       \* flights whose result is booked at some time
    FlightResult,  \* the sum of the postings of each flight
    HubFee,        \* estimateHubFee of each airport
    Price,         \* price_per_unit of the aircraft type
    AnalysisFee,   \* priceAnalysisFee of the route
    Amounts,       \* amounts an administrator credits or debits
    Opening,       \* the balance the airline starts with
    MaxRequests,   \* bound on the number of requests
    MaxFailures,   \* bound on the number of failing calls
    MaxRestarts    \* bound on the number of restarts of the BFF

VARIABLES
    balance,       \* the airline's balance in the airline-service
    owned,         \* the tail numbers of its aircraft in the fleet-service
    ledger,        \* the ledger document of the BFF
    hubs,          \* the hubs document of the BFF
    pc,            \* the await each slot is suspended on
    job,           \* the request each slot serves
    reading,       \* the answer to the GET /airline/me on its way, or NoRead
    served,        \* how many requests were started
    failures,      \* how many calls failed
    restarts,      \* how often the BFF was restarted
    adjusted,      \* history: what administrators moved in the balance
    unfinished     \* history: hubs a restart has parted from their fee

stores == <<balance, owned, ledger, hubs>>
local == <<pc, job>>
shared == <<reading, restarts, unfinished>>
vars == <<stores, local, served, failures, adjusted, shared>>

ASSUME BalanceAssumption ==
    /\ IsFiniteSet(Slots) /\ Slots # {}
    /\ IsFiniteSet(Airports)
    /\ IsFiniteSet(Tails)
    /\ ForeignTails \subseteq Tails
    /\ FlightResult \in [Flights -> Int]
    /\ HubFee \in [Airports -> Nat]
    /\ Price \in Nat
    /\ AnalysisFee \in Nat
    /\ Amounts \subseteq Int \ {0}
    /\ Opening \in Nat
    /\ MaxRequests \in Nat
    /\ MaxFailures \in Nat
    /\ MaxRestarts \in Nat

-----------------------------------------------------------------------------
(* The ledger.  The idempotency key of an entry is what it stands for, its *)
(* kind, and which one: the airport, the flight, or a number in place of a *)
(* random part.                                                            *)

Entry == [kind : {"hub-fee", "price-analysis", "admin-adjustment", "flight"},
          ref : Airports \cup Flights \cup (1 .. MaxRequests), amount : Int]

SumLedger(entries) == MapThenSumSet(LAMBDA e : e.amount, entries)

\* Mutant of SameKey: the key of a fee does not name the airport.
SameKind(e, f) == e.kind = f.kind

SameKey(e, f) == e.kind = f.kind /\ e.ref = f.ref

SaveLedger(e) ==
    ledger' = IF \E f \in ledger : SameKey(e, f) THEN ledger ELSE ledger \cup {e}

-----------------------------------------------------------------------------
(* A request.                                                              *)

\* A request; the balance, tails and ledger are what its snapshot consists of.
Request(kind, number, target, funds, tails) ==
    [kind |-> kind, number |-> number, target |-> target,
     balance |-> funds, tails |-> tails, ledger |-> {}]

NoJob == Request("none", 0, 0, 0, {})

Finish(s) ==
    /\ pc' = [pc EXCEPT ![s] = "idle"]
    /\ job' = [job EXCEPT ![s] = NoJob]

GoOn(s, label, j) ==
    /\ pc' = [pc EXCEPT ![s] = label]
    /\ job' = [job EXCEPT ![s] = j]

Await(s, label) ==
    /\ pc' = [pc EXCEPT ![s] = label]
    /\ UNCHANGED job

\* Mutant of Available: the snapshot shows the backend's balance as it is.
BackendBalance(j) == j.balance

\* The balance of the airline in a handler's snapshot.
Available(j) == j.balance + SumLedger(j.ledger)

Targets(kind) ==
    CASE kind = "purchase" -> Tails
      [] kind \in {"hub", "close"} -> Airports
      [] kind = "analysis" -> {0}

\* No GET /airline/me is on its way.
NoRead == -1

\* What a handler that asks for the airline now will be told: what is already
\* on its way (backend-http.ts, inFlightJsonRequests), or the balance.
Coalesced == IF reading = NoRead THEN balance ELSE reading

\* A player's request arrives and asks for the airline.
Begin(s) ==
    /\ pc[s] = "idle"
    /\ served < MaxRequests
    /\ served' = served + 1
    /\ reading' = Coalesced
    /\ \E kind \in {"purchase", "hub", "close", "analysis"} : \E target \in Targets(kind) :
           GoOn(s, "airline", Request(kind, served + 1, target, Coalesced, {}))
    /\ UNCHANGED <<stores, failures, restarts, adjusted, unfinished>>

\* A page of the same player asks for the airline and writes nothing.
OpenPage ==
    /\ reading = NoRead
    /\ reading' = balance
    /\ UNCHANGED <<stores, local, served, failures, restarts, adjusted, unfinished>>

\* A purchase asks for the aircraft next; the others do not look at them.
AfterAirline(j) == IF j.kind = "purchase" THEN "fleet" ELSE "ledger"

\* The answer arrives and every handler that waits for it goes on.
AirlineAnswered ==
    /\ reading # NoRead
    /\ reading' = NoRead
    /\ pc' = [s \in Slots |-> IF pc[s] = "airline" THEN AfterAirline(job[s]) ELSE pc[s]]
    /\ UNCHANGED <<stores, job, served, failures, restarts, adjusted, unfinished>>

\* The GET for the aircraft is coalesced, too: the list may be one from before
\* the latest purchases.
ReadFleet(s) ==
    /\ pc[s] = "fleet"
    /\ \E tails \in SUBSET owned : GoOn(s, "ledger", [job[s] EXCEPT !.tails = tails])
    /\ UNCHANGED <<stores, served, failures, adjusted, shared>>

CanPurchase(j) == Available(j) >= Price /\ j.target \notin j.tails

\* The last part, the BFF's own ledger.  A purchase is decided in the same
\* turn; the others await the regions first.
ReadLedger(s) ==
    /\ pc[s] = "ledger"
    /\ LET j == [job[s] EXCEPT !.ledger = ledger]
       IN  CASE j.kind = "purchase" /\ CanPurchase(j) -> GoOn(s, "charge", j)
             [] j.kind = "purchase" /\ ~CanPurchase(j) -> Finish(s)
             [] j.kind = "hub"      -> GoOn(s, "list hubs", j)
             [] j.kind = "close"    -> GoOn(s, "remove hub", j)
             [] j.kind = "analysis" -> GoOn(s, "analyse", j)
    /\ UNCHANGED <<stores, served, failures, adjusted, shared>>

-----------------------------------------------------------------------------
(* Hubs and price analyses.                                                *)

\* addHubResponse has read its payload and lists the hubs.
ListHubs(s) ==
    /\ pc[s] = "list hubs"
    /\ IF job[s].target \in hubs \/ Available(job[s]) < HubFee[job[s].target]
       THEN Finish(s)
       ELSE Await(s, "add hub")
    /\ UNCHANGED <<stores, served, failures, adjusted, shared>>

AddHub(s) ==
    /\ pc[s] = "add hub"
    /\ hubs' = hubs \cup {job[s].target}
    /\ Await(s, "pay")
    /\ UNCHANGED <<balance, owned, ledger, served, failures, adjusted, shared>>

RemoveHub(s) ==
    /\ pc[s] = "remove hub"
    /\ hubs' = hubs \ {job[s].target}
    /\ Finish(s)
    /\ UNCHANGED <<balance, owned, ledger, served, failures, adjusted, shared>>

\* analyzeRoutePriceRequest lists the ledger again and adds it to a balance
\* that already contains it.
AnalyseRoutePrice(s) ==
    /\ pc[s] = "analyse"
    /\ IF Available(job[s]) + SumLedger(ledger) < AnalysisFee
       THEN Finish(s)
       ELSE Await(s, "pay")
    /\ UNCHANGED <<stores, served, failures, adjusted, shared>>

\* hubFeeTransaction, priceAnalysisFeeTransaction.
FeeTransaction(j) ==
    IF j.kind = "hub"
    THEN [kind |-> "hub-fee", ref |-> j.target, amount |-> -HubFee[j.target]]
    ELSE [kind |-> "price-analysis", ref |-> j.number, amount |-> -AnalysisFee]

PayFee(s) ==
    /\ pc[s] = "pay"
    /\ SaveLedger(FeeTransaction(job[s]))
    /\ Finish(s)
    /\ UNCHANGED <<balance, owned, hubs, served, failures, adjusted, shared>>

-----------------------------------------------------------------------------
(* Calls to the backend.                                                   *)

\* Mutant of Covers: the balance may go below zero.
AnyAmount(amount) == TRUE

\* The condition of the UPDATE statement.
Covers(amount) == balance + amount >= 0

AdjustBalance(amount) ==
    /\ Covers(amount)
    /\ balance' = balance + amount

\* The caller is left without an answer: a timeout, a lost connection.
CallFails ==
    /\ failures < MaxFailures
    /\ failures' = failures + 1

\* Mutant of Compensate: the charge is kept.
Abandon(s) == Finish(s)

\* CreateAircraft could not store the aircraft and returns the money.
Compensate(s) == Await(s, "refund")

\* CreateAircraft of the fleet-service charges the airline first.  If that
\* call fails it gives up, whether the money is gone or not.
Charge(s) ==
    /\ pc[s] = "charge"
    /\ \/ /\ AdjustBalance(-Price)
          /\ Await(s, "insert")
          /\ UNCHANGED failures
       \/ /\ ~Covers(-Price)
          /\ Finish(s)
          /\ UNCHANGED <<balance, failures>>
       \/ /\ CallFails
          /\ AdjustBalance(-Price) \/ UNCHANGED balance
          /\ Finish(s)
    /\ UNCHANGED <<owned, ledger, hubs, served, adjusted, shared>>

\* Tail numbers are unique among all aircraft.
InsertAircraft(s) ==
    LET tail == job[s].target
        taken == tail \in owned \cup ForeignTails
    IN  /\ pc[s] = "insert"
        /\ \/ /\ ~taken
              /\ owned' = owned \cup {tail}
              /\ Finish(s)
              /\ UNCHANGED failures
           \/ /\ taken
              /\ Compensate(s)
              /\ UNCHANGED <<owned, failures>>
           \/ /\ CallFails
              /\ UNCHANGED owned \/ (~taken /\ owned' = owned \cup {tail})
              /\ Compensate(s)
        /\ UNCHANGED <<balance, ledger, hubs, served, adjusted, shared>>

\* What becomes of the refund is not looked at.
Refund(s) ==
    /\ pc[s] = "refund"
    /\ \/ AdjustBalance(Price) /\ UNCHANGED failures
       \/ CallFails /\ UNCHANGED balance
    /\ Finish(s)
    /\ UNCHANGED <<owned, ledger, hubs, served, adjusted, shared>>

\* creditAirline writes its ledger entry ...
SaveAdjustment(s) ==
    /\ pc[s] = "idle"
    /\ served < MaxRequests
    /\ served' = served + 1
    /\ \E amount \in Amounts :
           /\ SaveLedger([kind |-> "admin-adjustment", ref |-> served + 1, amount |-> amount])
           /\ GoOn(s, "sync", Request("credit", served + 1, amount, 0, {}))
    /\ UNCHANGED <<balance, owned, hubs, failures, adjusted, shared>>

\* ... and then asks for the same change of the balance.  A debit that is
\* not covered is answered 500, and that, like no answer, is only logged.
SyncBalance(s) ==
    LET amount == job[s].target
    IN  /\ pc[s] = "sync"
        /\ \/ /\ AdjustBalance(amount)
              /\ adjusted' = adjusted + amount
              /\ UNCHANGED failures
           \/ /\ ~Covers(amount)
              /\ UNCHANGED <<balance, adjusted, failures>>
           \/ /\ CallFails
              /\ \/ AdjustBalance(amount) /\ adjusted' = adjusted + amount
                 \/ UNCHANGED <<balance, adjusted>>
        /\ Finish(s)
        /\ UNCHANGED <<owned, ledger, hubs, served, shared>>

Serve(s) ==
    \/ ReadFleet(s) \/ ReadLedger(s)
    \/ ListHubs(s) \/ AddHub(s) \/ RemoveHub(s)
    \/ AnalyseRoutePrice(s) \/ PayFee(s)
    \/ Charge(s) \/ InsertAircraft(s) \/ Refund(s)
    \/ SyncBalance(s)

\* Some finance read books a flight that has departed.
BookFlight ==
    /\ \E f \in Flights :
           SaveLedger([kind |-> "flight", ref |-> f, amount |-> FlightResult[f]])
    /\ UNCHANGED <<balance, owned, hubs, local, served, failures, adjusted, shared>>

\* The hub h is stored and its fee is about to be.
Paying(h) == \E s \in Slots : pc[s] = "pay" /\ job[s].kind = "hub" /\ job[s].target = h

\* The BFF is restarted and forgets its requests; what it has asked the
\* fleet-service for goes on.
Restart ==
    LET lost == {s \in Slots : pc[s] \notin {"charge", "insert", "refund"}}
    IN  /\ restarts < MaxRestarts
        /\ restarts' = restarts + 1
        /\ pc' = [s \in Slots |-> IF s \in lost THEN "idle" ELSE pc[s]]
        /\ job' = [s \in Slots |-> IF s \in lost THEN NoJob ELSE job[s]]
        /\ reading' = NoRead
        /\ unfinished' = unfinished \cup {h \in Airports : Paying(h)}
        /\ UNCHANGED <<stores, served, failures, adjusted>>

Init ==
    /\ balance = Opening
    /\ owned = {}
    /\ ledger = {}
    /\ hubs = {}
    /\ pc = [s \in Slots |-> "idle"]
    /\ job = [s \in Slots |-> NoJob]
    /\ reading = NoRead
    /\ served = 0
    /\ failures = 0
    /\ restarts = 0
    /\ adjusted = 0
    /\ unfinished = {}

Next ==
    \/ \E s \in Slots : Begin(s) \/ SaveAdjustment(s) \/ Serve(s)
    \/ BookFlight \/ OpenPage \/ AirlineAnswered \/ Restart

Spec == Init /\ [][Next]_vars

-----------------------------------------------------------------------------
(* What must hold.                                                         *)

Job == [kind : {"none", "purchase", "hub", "close", "analysis", "credit"},
        number : 0 .. MaxRequests, target : {0} \cup Airports \cup Tails \cup Amounts,
        balance : Nat, tails : SUBSET Tails, ledger : SUBSET Entry]

Awaits == {"idle", "airline", "fleet", "ledger", "list hubs", "add hub", "remove hub",
           "analyse", "pay", "charge", "insert", "refund", "sync"}

\* The stores and every handler's copies of them have their types; the
\* balance is never negative, whoever adjusts it (airline_repository.go:60).
TypeOK ==
    /\ balance \in Nat
    /\ owned \in SUBSET Tails
    /\ ledger \in SUBSET Entry
    /\ hubs \in SUBSET Airports
    /\ pc \in [Slots -> Awaits]
    /\ job \in [Slots -> Job]
    /\ reading \in Nat \cup {NoRead}
    /\ served \in 0 .. MaxRequests
    /\ failures \in 0 .. MaxFailures
    /\ restarts \in 0 .. MaxRestarts
    /\ adjusted \in Int
    /\ unfinished \in SUBSET Airports

\* No hub without its fee: each one is paid for in the ledger, or the request
\* that opened it is about to pay, or a restart has come between the two
\* (hubs/index.ts:67-68), after which nobody asks for the fee again.
Paid(h) == \E e \in ledger : e.kind = "hub-fee" /\ e.ref = h

HubsPaid == \A h \in hubs \ unfinished : Paid(h) \/ Paying(h)

\* The purchases that have been charged and not stored or refunded yet.
Charged == {s \in Slots : pc[s] \in {"insert", "refund"}}

\* What the balance would be if each charge were an aircraft or in progress.
Expected == Opening + adjusted - Price * (Cardinality(owned) + Cardinality(Charged))

\* Money is neither lost nor made: without failing calls the balance is the
\* expected one, whatever overlaps, and each failing call moves it by one
\* price at most (CreateAircraft, fleet_service.go:39).
Conserved ==
    /\ balance >= Expected - Price * failures
    /\ balance <= Expected + Price * failures

Funds == balance + SumLedger(ledger)

\* What was booked without comparing it to the funds: flights, debits (which
\* count in both stores), and analyses.
Unchecked ==
    LET debits == {e \in ledger : e.kind # "hub-fee" /\ e.amount < 0}
    IN  MapThenSumSet(LAMBDA e : IF e.kind = "admin-adjustment" THEN -2 * e.amount
                                                               ELSE -e.amount, debits)

Dearest == Max({Price} \cup {HubFee[a] : a \in Airports})

\* Requests that overlap can together spend money only one of them has, but
\* no more than one purchase or hub each.  And each slot can have charged one
\* aircraft that the answer on its way does not show yet, even to requests
\* that begin after the purchase has ended (backend-http.ts:128).  What is
\* spent on aircraft and hubs exceeds the funds by at most that
\* (scoring.ts:170, hubs/index.ts:59).
Overlaps == (Cardinality(Slots) - 1) * Dearest

Unseen == Cardinality(Slots) * Price

OverdraftBounded == Funds + Unchecked >= -(Overlaps + Unseen)

\* An analysis is only sold to a player who can pay for it.
AnalysesAfforded ==
    [][\A e \in ledger' \ ledger : e.kind = "price-analysis" => Funds' >= 0]_vars
=============================================================================
