--------------------------- MODULE BalanceProofs ---------------------------
(***************************************************************************)
(* What Balance promises, for any number of requests, airports, tail       *)
(* numbers and failing calls: types, paid hubs, conserved money, a bounded *)
(* overdraft.                                                              *)
(***************************************************************************)
EXTENDS Balance, TLAPS, FiniteSetTheorems, WellFoundedInduction

-----------------------------------------------------------------------------
(* Types.  A handler's record fits the await it is suspended on.           *)

Fits(label, j) ==
    /\ label \in {"fleet", "charge", "insert", "refund"} => j.kind = "purchase"
    /\ label \in {"list hubs", "add hub"} => j.kind = "hub"
    /\ label = "remove hub" => j.kind = "close"
    /\ label = "analyse" => j.kind = "analysis"
    /\ label = "pay" => j.kind \in {"hub", "analysis"}
    /\ label \in {"airline", "ledger"} => j.kind \in {"purchase", "hub", "close", "analysis"}
    /\ label = "sync" => j.kind = "credit"
    /\ j.kind = "purchase" => j.target \in Tails
    /\ j.kind \in {"hub", "close"} => j.target \in Airports
    /\ j.kind = "credit" => j.target \in Amounts
    /\ j.kind # "none" => j.number \in 1 .. MaxRequests

Locals ==
    /\ pc \in [Slots -> Awaits]
    /\ job \in [Slots -> Job]
    /\ \A s \in Slots : Fits(pc[s], job[s])

Stores ==
    /\ balance \in Nat
    /\ owned \in SUBSET Tails
    /\ ledger \in SUBSET Entry
    /\ hubs \in SUBSET Airports
    /\ reading \in Nat \cup {NoRead}
    /\ served \in 0 .. MaxRequests
    /\ failures \in 0 .. MaxFailures
    /\ restarts \in 0 .. MaxRestarts
    /\ adjusted \in Int
    /\ unfinished \in SUBSET Airports

Typed == Stores /\ Locals

\* Mapping a slot to a new label and record keeps the records fitting.
LEMMA LocalsGoOn ==
    ASSUME Locals, NEW s \in Slots, NEW label \in Awaits, NEW j \in Job,
           Fits(label, j), GoOn(s, label, j)
    PROVE  Locals'
  BY DEF Locals, GoOn, Fits

\* Moving a slot to a new label with its own record does so too.
LEMMA LocalsAwait ==
    ASSUME Locals, NEW s \in Slots, NEW label \in Awaits,
           Fits(label, job[s]), Await(s, label)
    PROVE  Locals'
  BY DEF Locals, Await, Fits

\* The record of an idle slot is typed.
LEMMA NoJobTyped == NoJob \in Job /\ Fits("idle", NoJob)
  BY BalanceAssumption DEF NoJob, Request, Job, Fits

\* A handler that returns leaves its slot typed.
LEMMA LocalsFinish ==
    ASSUME Locals, NEW s \in Slots, Finish(s)
    PROVE  Locals'
  <1>1. GoOn(s, "idle", NoJob)
    BY DEF Finish, GoOn
  <1>2. "idle" \in Awaits
    BY DEF Awaits
  <1> QED
    BY <1>1, <1>2, NoJobTyped, LocalsGoOn

\* Handlers that do not move stay typed.
LEMMA LocalsSame ==
    ASSUME Locals, UNCHANGED local
    PROVE  Locals'
  BY DEF Locals, local

\* Writing to the ledger adds at most the given entry.
LEMMA SaveLedgerAdds ==
    ASSUME NEW e, SaveLedger(e)
    PROVE  ledger' \subseteq ledger \cup {e} /\ ledger \subseteq ledger'
  BY DEF SaveLedger

\* The initial stores and the idle slots are typed.
LEMMA InitTyped == Init => Typed
  BY BalanceAssumption, NoJobTyped DEF Init, Typed, Stores, Locals, Awaits

\* A new request fits any await that fits its kind.
LEMMA RequestTyped ==
    ASSUME NEW kind \in {"purchase", "hub", "close", "analysis", "credit"},
           NEW number \in 1 .. MaxRequests, NEW funds \in Nat,
           NEW target \in {0} \cup Airports \cup Tails \cup Amounts,
           NEW tails \in SUBSET Tails
    PROVE  Request(kind, number, target, funds, tails) \in Job
  BY BalanceAssumption DEF Request, Job

\* What a handler is told the balance is.
LEMMA CoalescedTyped ==
    ASSUME Typed
    PROVE  Coalesced \in Nat
  BY DEF Typed, Stores, Coalesced, NoRead

\* Accepting a request keeps the types.
LEMMA BeginTyped ==
    ASSUME Typed, NEW s \in Slots, Begin(s)
    PROVE  Typed'
  <1>1. served + 1 \in 1 .. MaxRequests
    BY BalanceAssumption DEF Begin, Typed, Stores
  <1>2. Stores'
    BY <1>1, CoalescedTyped, BalanceAssumption DEF Typed, Stores, Begin, stores
  <1>3. PICK kind \in {"purchase", "hub", "close", "analysis"} :
          \E target \in Targets(kind) :
             GoOn(s, "airline", Request(kind, served + 1, target, Coalesced, {}))
    BY DEF Begin
  <1>4. PICK target \in Targets(kind) :
             GoOn(s, "airline", Request(kind, served + 1, target, Coalesced, {}))
    BY <1>3
  <1> DEFINE j == Request(kind, served + 1, target, Coalesced, {})
  <1>5. /\ kind = "purchase" => target \in Tails
        /\ kind \in {"hub", "close"} => target \in Airports
        /\ kind = "analysis" => target = 0
    BY DEF Targets
  <1>6. j \in Job
    <2>1. target \in {0} \cup Airports \cup Tails \cup Amounts
      BY <1>5
    <2> QED
      BY <1>1, <2>1, CoalescedTyped, RequestTyped
  <1>7. j.kind = kind /\ j.target = target /\ j.number = served + 1
    BY DEF Request
  <1>8. Fits("airline", j)
    BY <1>1, <1>5, <1>7 DEF Fits
  <1>9. "airline" \in Awaits
    BY DEF Awaits
  <1> HIDE DEF j
  <1>10. Locals'
    BY <1>4, <1>6, <1>8, <1>9, LocalsGoOn DEF Typed, j
  <1> QED
    BY <1>2, <1>10 DEF Typed

\* Opening a page keeps the types.
LEMMA OpenPageTyped ==
    ASSUME Typed, OpenPage
    PROVE  Typed'
  <1>1. Stores'
    BY DEF Typed, Stores, OpenPage, stores
  <1> QED
    BY <1>1, LocalsSame DEF Typed, OpenPage

\* Every handler that waited for the airline goes on to what its kind needs.
LEMMA AirlineAnsweredTyped ==
    ASSUME Typed, AirlineAnswered
    PROVE  Typed'
  <1>1. Stores'
    BY DEF Typed, Stores, AirlineAnswered, stores
  <1>2. ASSUME NEW r \in Slots
        PROVE  pc'[r] \in Awaits /\ Fits(pc'[r], job[r])
    <2>1. pc[r] \in Awaits /\ Fits(pc[r], job[r])
      BY DEF Typed, Locals
    <2>2. pc'[r] = IF pc[r] = "airline" THEN AfterAirline(job[r]) ELSE pc[r]
      BY DEF AirlineAnswered
    <2>3. CASE pc[r] # "airline"
      BY <2>1, <2>2, <2>3
    <2>4. CASE pc[r] = "airline"
      BY <2>1, <2>2, <2>4 DEF Fits, Awaits, AfterAirline
    <2> QED
      BY <2>3, <2>4
  <1>3. job' = job /\ DOMAIN pc' = Slots /\ pc' = [r \in Slots |-> pc'[r]]
    BY DEF AirlineAnswered
  <1> QED
    BY <1>1, <1>2, <1>3 DEF Typed, Locals

\* A restart keeps the types.
LEMMA RestartTyped ==
    ASSUME Typed, Restart
    PROVE  Typed'
  <1>1. Stores'
    BY BalanceAssumption DEF Typed, Stores, Restart, stores
  <1>2. "idle" \in Awaits
    BY DEF Awaits
  <1>3. Locals'
    BY <1>2, NoJobTyped DEF Typed, Locals, Restart
  <1> QED
    BY <1>1, <1>3 DEF Typed

\* Reading the fleet keeps the types.
LEMMA ReadFleetTyped ==
    ASSUME Typed, NEW s \in Slots, ReadFleet(s)
    PROVE  Typed'
  <1>1. Stores'
    BY DEF Typed, Stores, ReadFleet, stores, shared
  <1>2. job[s] \in Job /\ Fits("fleet", job[s])
    BY DEF Typed, Locals, ReadFleet
  <1>3. PICK tails \in SUBSET owned : GoOn(s, "ledger", [job[s] EXCEPT !.tails = tails])
    BY DEF ReadFleet
  <1> DEFINE j == [job[s] EXCEPT !.tails = tails]
  <1>4. j \in Job /\ Fits("ledger", j)
    BY <1>2 DEF Job, Fits, Typed, Stores
  <1>5. "ledger" \in Awaits
    BY DEF Awaits
  <1> HIDE DEF j
  <1>6. Locals'
    BY <1>3, <1>4, <1>5, LocalsGoOn DEF Typed, j
  <1> QED
    BY <1>1, <1>6 DEF Typed

\* Where a handler goes once its snapshot is complete.
LEMMA ReadLedgerMoves ==
    ASSUME Typed, NEW s \in Slots, ReadLedger(s)
    PROVE  \/ Finish(s)
           \/ \E label \in {"charge", "list hubs", "remove hub", "analyse"} :
                 LET j == [job[s] EXCEPT !.ledger = ledger]
                 IN  Fits(label, j) /\ GoOn(s, label, j)
  <1> DEFINE j == [job[s] EXCEPT !.ledger = ledger]
  <1>1. job[s] \in Job /\ Fits("ledger", job[s])
    BY DEF Typed, Locals, ReadLedger
  <1>2. j \in Job /\ j.kind = job[s].kind /\ Fits("ledger", j)
    BY <1>1 DEF Job, Fits, Typed, Stores
  <1>3. /\ j.kind = "purchase" => Fits("charge", j)
        /\ j.kind = "hub" => Fits("list hubs", j)
        /\ j.kind = "close" => Fits("remove hub", j)
        /\ j.kind = "analysis" => Fits("analyse", j)
    BY <1>2 DEF Fits
  <1>4. j.kind \in {"purchase", "hub", "close", "analysis"}
    BY <1>2 DEF Fits
  <1>5. \/ Finish(s)
        \/ j.kind = "purchase" /\ GoOn(s, "charge", j)
        \/ j.kind = "hub" /\ GoOn(s, "list hubs", j)
        \/ j.kind = "close" /\ GoOn(s, "remove hub", j)
        \/ j.kind = "analysis" /\ GoOn(s, "analyse", j)
    BY <1>4 DEF ReadLedger
  <1> HIDE DEF j
  <1> QED
    BY <1>3, <1>5 DEF j

\* Reading the ledger keeps the types.
LEMMA ReadLedgerTyped ==
    ASSUME Typed, NEW s \in Slots, ReadLedger(s)
    PROVE  Typed'
  <1>1. Stores'
    BY DEF Typed, Stores, ReadLedger, stores, shared
  <1> DEFINE j == [job[s] EXCEPT !.ledger = ledger]
  <1>2. j \in Job
    BY DEF Typed, Locals, Stores, Job
  <1>3. {"charge", "list hubs", "remove hub", "analyse"} \subseteq Awaits
    BY DEF Awaits
  <1>4. Finish(s) \/ \E label \in Awaits : Fits(label, j) /\ GoOn(s, label, j)
    BY <1>3, ReadLedgerMoves
  <1> HIDE DEF j
  <1>5. Locals'
    BY <1>2, <1>4, LocalsGoOn, LocalsFinish DEF Typed
  <1> QED
    BY <1>1, <1>5 DEF Typed

\* The steps that write one store and move on with the same record.
LEMMA ListHubsTyped ==
    ASSUME Typed, NEW s \in Slots, ListHubs(s)
    PROVE  Typed'
  <1>1. Stores'
    BY DEF Typed, Stores, ListHubs, stores, shared
  <1>2. Fits("add hub", job[s]) /\ "add hub" \in Awaits
    BY DEF Typed, Locals, ListHubs, Fits, Awaits
  <1>3. Finish(s) \/ Await(s, "add hub")
    BY DEF ListHubs
  <1> QED
    BY <1>1, <1>2, <1>3, LocalsFinish, LocalsAwait DEF Typed

\* Adding a hub keeps the types.
LEMMA AddHubTyped ==
    ASSUME Typed, NEW s \in Slots, AddHub(s)
    PROVE  Typed'
  <1>1. job[s].target \in Airports /\ Fits("pay", job[s]) /\ "pay" \in Awaits
    BY DEF Typed, Locals, AddHub, Fits, Awaits
  <1>2. Stores'
    BY <1>1 DEF Typed, Stores, AddHub, shared
  <1> QED
    BY <1>1, <1>2, LocalsAwait DEF Typed, AddHub

\* Removing a hub keeps the types.
LEMMA RemoveHubTyped ==
    ASSUME Typed, NEW s \in Slots, RemoveHub(s)
    PROVE  Typed'
  <1>1. Stores'
    BY DEF Typed, Stores, RemoveHub, shared
  <1> QED
    BY <1>1, LocalsFinish DEF Typed, RemoveHub

\* Pricing an analysis keeps the types.
LEMMA AnalyseRoutePriceTyped ==
    ASSUME Typed, NEW s \in Slots, AnalyseRoutePrice(s)
    PROVE  Typed'
  <1>1. Stores'
    BY DEF Typed, Stores, AnalyseRoutePrice, stores, shared
  <1>2. Fits("pay", job[s]) /\ "pay" \in Awaits
    BY DEF Typed, Locals, AnalyseRoutePrice, Fits, Awaits
  <1>3. Finish(s) \/ Await(s, "pay")
    BY DEF AnalyseRoutePrice
  <1> QED
    BY <1>1, <1>2, <1>3, LocalsFinish, LocalsAwait DEF Typed

\* Paying a fee keeps the types.
LEMMA PayFeeTyped ==
    ASSUME Typed, NEW s \in Slots, PayFee(s)
    PROVE  Typed'
  <1>1. /\ job[s].kind \in {"hub", "analysis"}
        /\ job[s].kind = "hub" => job[s].target \in Airports
        /\ job[s].number \in 1 .. MaxRequests
    BY DEF Typed, Locals, PayFee, Fits
  <1>2. FeeTransaction(job[s]) \in Entry
    <2>1. CASE job[s].kind = "hub"
      <3>1. -HubFee[job[s].target] \in Int
        BY <1>1, <2>1, BalanceAssumption
      <3> QED
        BY <1>1, <2>1, <3>1 DEF FeeTransaction, Entry
    <2>2. CASE job[s].kind = "analysis"
      <3>1. -AnalysisFee \in Int
        BY BalanceAssumption
      <3> QED
        BY <1>1, <2>2, <3>1 DEF FeeTransaction, Entry
    <2> QED
      BY <1>1, <2>1, <2>2
  <1>3. ledger' \in SUBSET Entry
    BY <1>2, SaveLedgerAdds DEF PayFee, Typed, Stores
  <1>4. Stores'
    BY <1>3 DEF Typed, Stores, PayFee, shared
  <1> QED
    BY <1>4, LocalsFinish DEF Typed, PayFee

\* A balance that is adjusted stays a natural number.
LEMMA AdjustBalanceTyped ==
    ASSUME balance \in Nat, NEW amount \in Int, AdjustBalance(amount)
    PROVE  balance' \in Nat /\ balance' = balance + amount
  BY DEF AdjustBalance, Covers

\* A failed call is counted, within the bound.
LEMMA CallFailsTyped ==
    ASSUME failures \in 0 .. MaxFailures, CallFails
    PROVE  failures' \in 0 .. MaxFailures /\ failures' = failures + 1
  BY BalanceAssumption DEF CallFails

\* Charging a purchase keeps the types.
LEMMA ChargeTyped ==
    ASSUME Typed, NEW s \in Slots, Charge(s)
    PROVE  Typed'
  <1>1. -Price \in Int
    BY BalanceAssumption
  <1>2. balance' \in Nat
    BY <1>1, AdjustBalanceTyped DEF Typed, Stores, Charge, shared
  <1>3. failures' \in 0 .. MaxFailures
    BY CallFailsTyped DEF Typed, Stores, Charge, shared
  <1>4. Stores'
    BY <1>2, <1>3 DEF Typed, Stores, Charge, shared
  <1>5. Fits("insert", job[s]) /\ "insert" \in Awaits
    BY DEF Typed, Locals, Charge, Fits, Awaits
  <1>6. Finish(s) \/ Await(s, "insert")
    BY DEF Charge
  <1> QED
    BY <1>4, <1>5, <1>6, LocalsFinish, LocalsAwait DEF Typed

\* Inserting the bought aircraft keeps the types.
LEMMA InsertAircraftTyped ==
    ASSUME Typed, NEW s \in Slots, InsertAircraft(s)
    PROVE  Typed'
  <1>1. job[s].target \in Tails /\ Fits("refund", job[s]) /\ "refund" \in Awaits
    BY DEF Typed, Locals, InsertAircraft, Fits, Awaits
  <1>2. failures' \in 0 .. MaxFailures
    BY CallFailsTyped DEF Typed, Stores, InsertAircraft, shared
  <1>3. owned' \in SUBSET Tails
    BY <1>1 DEF Typed, Stores, InsertAircraft, shared
  <1>4. Stores'
    BY <1>2, <1>3 DEF Typed, Stores, InsertAircraft, shared
  <1>5. Finish(s) \/ Await(s, "refund")
    BY DEF InsertAircraft, Compensate
  <1> QED
    BY <1>1, <1>4, <1>5, LocalsFinish, LocalsAwait DEF Typed

\* Refunding a purchase keeps the types.
LEMMA RefundTyped ==
    ASSUME Typed, NEW s \in Slots, Refund(s)
    PROVE  Typed'
  <1>1. Price \in Int
    BY BalanceAssumption
  <1>2. balance' \in Nat
    BY <1>1, AdjustBalanceTyped DEF Typed, Stores, Refund, shared
  <1>3. failures' \in 0 .. MaxFailures
    BY CallFailsTyped DEF Typed, Stores, Refund, shared
  <1>4. Stores'
    BY <1>2, <1>3 DEF Typed, Stores, Refund, shared
  <1> QED
    BY <1>4, LocalsFinish DEF Typed, Refund

\* Saving an adjustment keeps the types.
LEMMA SaveAdjustmentTyped ==
    ASSUME Typed, NEW s \in Slots, SaveAdjustment(s)
    PROVE  Typed'
  <1>1. PICK amount \in Amounts :
          /\ SaveLedger([kind |-> "admin-adjustment", ref |-> served + 1, amount |-> amount])
          /\ GoOn(s, "sync", Request("credit", served + 1, amount, 0, {}))
    BY DEF SaveAdjustment
  <1>2. served + 1 \in 1 .. MaxRequests /\ served' = served + 1
    BY BalanceAssumption DEF SaveAdjustment, Typed, Stores
  <1>3. [kind |-> "admin-adjustment", ref |-> served + 1, amount |-> amount] \in Entry
    BY <1>2, BalanceAssumption DEF Entry
  <1>4. ledger' \in SUBSET Entry
    BY <1>1, <1>3, SaveLedgerAdds DEF Typed, Stores
  <1>5. Stores'
    BY <1>2, <1>4 DEF Typed, Stores, SaveAdjustment, shared
  <1> DEFINE j == Request("credit", served + 1, amount, 0, {})
  <1>6. j \in Job
    BY <1>2, RequestTyped
  <1>7. Fits("sync", j) /\ "sync" \in Awaits
    BY <1>2 DEF Fits, Request, Awaits
  <1> HIDE DEF j
  <1>8. Locals'
    BY <1>1, <1>6, <1>7, LocalsGoOn DEF Typed, j
  <1> QED
    BY <1>5, <1>8 DEF Typed

\* Moving the balance by an adjustment keeps the types.
LEMMA SyncBalanceTyped ==
    ASSUME Typed, NEW s \in Slots, SyncBalance(s)
    PROVE  Typed'
  <1>1. job[s].target \in Int
    BY BalanceAssumption DEF Typed, Locals, SyncBalance, Fits
  <1>2. balance' \in Nat /\ adjusted' \in Int
    BY <1>1, AdjustBalanceTyped DEF Typed, Stores, SyncBalance, shared
  <1>3. failures' \in 0 .. MaxFailures
    BY CallFailsTyped DEF Typed, Stores, SyncBalance, shared
  <1>4. Stores'
    BY <1>2, <1>3 DEF Typed, Stores, SyncBalance, shared
  <1> QED
    BY <1>4, LocalsFinish DEF Typed, SyncBalance

\* Booking a flight keeps the types.
LEMMA BookFlightTyped ==
    ASSUME Typed, BookFlight
    PROVE  Typed'
  <1>1. PICK f \in Flights :
          SaveLedger([kind |-> "flight", ref |-> f, amount |-> FlightResult[f]])
    BY DEF BookFlight
  <1>2. [kind |-> "flight", ref |-> f, amount |-> FlightResult[f]] \in Entry
    BY BalanceAssumption DEF Entry
  <1>3. ledger' \in SUBSET Entry
    BY <1>1, <1>2, SaveLedgerAdds DEF Typed, Stores
  <1>4. Stores'
    BY <1>3 DEF Typed, Stores, BookFlight, shared
  <1> QED
    BY <1>4, LocalsSame DEF Typed, BookFlight

\* Every step keeps the types.
LEMMA TypedStep == Typed /\ [Next]_vars => Typed'
  <1> SUFFICES ASSUME Typed, [Next]_vars PROVE Typed'
    OBVIOUS
  <1>1. CASE UNCHANGED vars
    BY <1>1, LocalsSame DEF Typed, Stores, vars, stores, shared, shared
  <1>2. CASE BookFlight
    BY <1>2, BookFlightTyped
  <1>3. ASSUME NEW s \in Slots, Begin(s) \/ SaveAdjustment(s) \/ Serve(s)
        PROVE  Typed'
    BY <1>3, BeginTyped, SaveAdjustmentTyped, ReadFleetTyped, ReadLedgerTyped,
       ListHubsTyped, AddHubTyped, RemoveHubTyped, AnalyseRoutePriceTyped, PayFeeTyped,
       ChargeTyped, InsertAircraftTyped, RefundTyped, SyncBalanceTyped DEF Serve
  <1>4. CASE OpenPage \/ AirlineAnswered \/ Restart
    BY <1>4, OpenPageTyped, AirlineAnsweredTyped, RestartTyped
  <1> QED
    BY <1>1, <1>2, <1>3, <1>4 DEF Next

\* The types hold always.
LEMMA TypedAlways == Spec => []Typed
  BY InitTyped, TypedStep, PTL DEF Spec

\* Every store and every handler's copy of it keeps its type, and the balance
\* never goes below zero, although charges, refunds and credits overlap.
THEOREM BalanceTypeCorrect == Spec => []TypeOK
  <1>1. Typed => TypeOK
    BY DEF Typed, Stores, Locals, TypeOK
  <1> QED
    BY <1>1, TypedAlways, PTL

-----------------------------------------------------------------------------
(* Paid hubs.  The invariant is inductive given the types: a handler that  *)
(* opened a hub waits in "pay" until it wrote the fee or a restart put the *)
(* hub down as unfinished, and the ledger only grows.                      *)

\* A step of another await, and the hubs it leaves alone.
LEMMA PaidKept ==
    ASSUME Typed, HubsPaid, NEW s \in Slots, pc[s] # "pay",
           ledger \subseteq ledger', hubs' \subseteq hubs, UNCHANGED shared,
           \A r \in Slots \ {s} : pc'[r] = pc[r] /\ job'[r] = job[r]
    PROVE  HubsPaid'
  BY DEF HubsPaid, Paid, Paying, shared

\* Only the slot that moves on changes.
LEMMA OthersWait ==
    ASSUME Typed, NEW s \in Slots, NEW label, NEW j,
           Finish(s) \/ Await(s, label) \/ GoOn(s, label, j)
    PROVE  \A r \in Slots \ {s} : pc'[r] = pc[r] /\ job'[r] = job[r]
  BY DEF Typed, Locals, Finish, Await, GoOn

\* Every step keeps the hubs paid for.
LEMMA HubsPaidStep == Typed /\ HubsPaid /\ [Next]_vars => HubsPaid'
  <1> SUFFICES ASSUME Typed, HubsPaid, [Next]_vars PROVE HubsPaid'
    OBVIOUS
  <1>1. CASE UNCHANGED vars
    BY <1>1 DEF HubsPaid, Paid, Paying, vars, stores, local, shared
  <1>2. CASE BookFlight
    BY <1>2, SaveLedgerAdds DEF BookFlight, HubsPaid, Paid, Paying, local, shared
  <1>3. ASSUME NEW s \in Slots, Begin(s) PROVE HubsPaid'
    <2>1. \A r \in Slots \ {s} : pc'[r] = pc[r] /\ job'[r] = job[r]
      BY <1>3, OthersWait DEF Begin
    <2>2. pc[s] # "pay" /\ UNCHANGED <<hubs, ledger, unfinished>>
      BY <1>3 DEF Begin, stores
    <2> QED
      BY <2>1, <2>2 DEF HubsPaid, Paid, Paying
  <1>4. ASSUME NEW s \in Slots, SaveAdjustment(s) PROVE HubsPaid'
    <2>1. \A r \in Slots \ {s} : pc'[r] = pc[r] /\ job'[r] = job[r]
      BY <1>4, OthersWait DEF SaveAdjustment
    <2>2. ledger \subseteq ledger'
      BY <1>4, SaveLedgerAdds DEF SaveAdjustment
    <2> QED
      BY <1>4, <2>1, <2>2, PaidKept DEF SaveAdjustment
  <1>5. ASSUME NEW s \in Slots, AddHub(s) PROVE HubsPaid'
    <2> SUFFICES ASSUME NEW h \in hubs' \ unfinished
                 PROVE  Paid(h)' \/ Paying(h)'
      BY <1>5 DEF HubsPaid, AddHub, shared
    <2>1. \A r \in Slots \ {s} : pc'[r] = pc[r] /\ job'[r] = job[r]
      BY <1>5, OthersWait DEF AddHub
    <2>2. CASE h = job[s].target
      <3>1. pc'[s] = "pay" /\ job'[s] = job[s] /\ job[s].kind = "hub"
        BY <1>5 DEF AddHub, Await, Typed, Locals, Fits
      <3> QED
        BY <2>2, <3>1 DEF Paying
    <2>3. CASE h \in hubs /\ Paid(h)
      BY <1>5, <2>3 DEF AddHub, Paid
    <2>4. CASE h \in hubs /\ ~Paid(h)
      <3>1. PICK r \in Slots : pc[r] = "pay" /\ job[r].kind = "hub" /\ job[r].target = h
        BY <2>4 DEF HubsPaid, Paying
      <3>2. r # s
        BY <1>5, <3>1 DEF AddHub
      <3> QED
        BY <2>1, <3>1, <3>2 DEF Paying
    <2> QED
      BY <1>5, <2>2, <2>3, <2>4 DEF AddHub
  <1>6. ASSUME NEW s \in Slots, PayFee(s) PROVE HubsPaid'
    <2>1. \A r \in Slots \ {s} : pc'[r] = pc[r] /\ job'[r] = job[r]
      BY <1>6, OthersWait DEF PayFee
    <2>2. ledger \subseteq ledger'
      BY <1>6, SaveLedgerAdds DEF PayFee
    <2> SUFFICES ASSUME NEW h \in hubs \ unfinished
                 PROVE  Paid(h)' \/ Paying(h)'
      BY <1>6 DEF PayFee, HubsPaid, shared
    <2>3. CASE Paid(h)
      BY <2>2, <2>3 DEF Paid
    <2>4. CASE job[s].kind = "hub" /\ job[s].target = h
      <3> DEFINE e == FeeTransaction(job[s])
      <3>1. e.kind = "hub-fee" /\ e.ref = h
        BY <2>4 DEF FeeTransaction
      <3> HIDE DEF e
      <3>2. SaveLedger(e)
        BY <1>6 DEF PayFee, e
      <3>3. \E f \in ledger' : SameKey(e, f)
        BY <3>2 DEF SaveLedger, SameKey
      <3> QED
        BY <3>1, <3>3 DEF Paid, SameKey
    <2>5. CASE ~Paid(h) /\ ~(job[s].kind = "hub" /\ job[s].target = h)
      <3>1. PICK r \in Slots : pc[r] = "pay" /\ job[r].kind = "hub" /\ job[r].target = h
        BY <2>5 DEF HubsPaid, Paying
      <3> QED
        BY <2>1, <2>5, <3>1 DEF Paying
    <2> QED
      BY <2>3, <2>4, <2>5
  <1>7. ASSUME NEW s \in Slots,
               \/ ReadFleet(s) \/ ReadLedger(s) \/ ListHubs(s)
               \/ RemoveHub(s) \/ AnalyseRoutePrice(s) \/ Charge(s)
               \/ InsertAircraft(s) \/ Refund(s) \/ SyncBalance(s)
        PROVE  HubsPaid'
    <2>1. /\ pc[s] # "pay"
          /\ ledger' = ledger
          /\ hubs' \subseteq hubs
          /\ UNCHANGED shared
      BY <1>7 DEF ReadFleet, ReadLedger, ListHubs, RemoveHub, AnalyseRoutePrice,
         Charge, InsertAircraft, Refund, SyncBalance, stores
    <2>2. \A r \in Slots \ {s} : pc'[r] = pc[r] /\ job'[r] = job[r]
      <3>1. CASE ReadFleet(s)
        BY <3>1, OthersWait DEF ReadFleet
      <3>2. CASE ReadLedger(s)
        BY <3>2, ReadLedgerMoves, OthersWait
      <3>3. CASE ListHubs(s) \/ AnalyseRoutePrice(s)
        BY <3>3, OthersWait DEF ListHubs, AnalyseRoutePrice
      <3>4. CASE RemoveHub(s) \/ Refund(s) \/ SyncBalance(s)
        BY <3>4, OthersWait DEF RemoveHub, Refund, SyncBalance
      <3>5. CASE Charge(s) \/ InsertAircraft(s)
        BY <3>5, OthersWait DEF Charge, InsertAircraft, Compensate
      <3> QED
        BY <1>7, <3>1, <3>2, <3>3, <3>4, <3>5
    <2> QED
      BY <2>1, <2>2, PaidKept
  <1>8. CASE OpenPage
    BY <1>8 DEF OpenPage, HubsPaid, Paid, Paying, stores, local
  <1>9. CASE AirlineAnswered
    <2>1. \A r \in Slots : pc[r] = "pay" => pc'[r] = "pay"
      BY <1>9 DEF AirlineAnswered
    <2>2. UNCHANGED <<hubs, ledger, job, unfinished>>
      BY <1>9 DEF AirlineAnswered, stores
    <2> QED
      BY <2>1, <2>2 DEF HubsPaid, Paid, Paying
  <1>10. CASE Restart
    <2>1. UNCHANGED <<hubs, ledger>>
      BY <1>10 DEF Restart, stores
    <2>2. \A h \in hubs : Paying(h) => h \in unfinished'
      BY <1>10 DEF Restart, Typed, Stores
    <2>3. unfinished \subseteq unfinished'
      BY <1>10 DEF Restart
    <2> QED
      BY <2>1, <2>2, <2>3 DEF HubsPaid, Paid
  <1> QED
    BY <1>1, <1>2, <1>3, <1>4, <1>5, <1>6, <1>7, <1>8, <1>9, <1>10 DEF Next, Serve

\* No hub is open without its fee in the ledger, except while the request that
\* opened it is about to write it, or once a restart has come between the two,
\* whichever requests overlap.
THEOREM HubsArePaid == Spec => []HubsPaid
  <1>1. Init => HubsPaid
    BY DEF Init, HubsPaid
  <1> QED
    BY <1>1, TypedAlways, HubsPaidStep, PTL DEF Spec

-----------------------------------------------------------------------------
(* Conserved money.  Spent counts the prices the balance should be short   *)
(* of; each step moves the balance and Spent together, or a failing call   *)
(* explains the difference.                                                *)

Spent == Cardinality(owned) + Cardinality(Charged)

\* The aircraft owned and the purchases charged are counted by numbers.
LEMMA CountsTyped ==
    ASSUME Typed
    PROVE  /\ IsFiniteSet(owned) /\ Cardinality(owned) \in Nat
           /\ IsFiniteSet(Charged) /\ Cardinality(Charged) \in Nat
           /\ Spent \in Nat
  <1>1. IsFiniteSet(owned)
    BY BalanceAssumption, FS_Subset DEF Typed, Stores
  <1>2. IsFiniteSet(Charged)
    BY BalanceAssumption, FS_Subset DEF Charged
  <1> QED
    BY <1>1, <1>2, FS_CardinalityType DEF Spent

\* How the label of one slot changes the set of charged purchases.
LEMMA ChargedMoves ==
    ASSUME Typed, NEW s \in Slots, NEW label, pc' = [pc EXCEPT ![s] = label]
    PROVE  Charged' = IF label \in {"insert", "refund"} THEN Charged \cup {s}
                                                       ELSE Charged \ {s}
  <1>1. \A t \in Slots : pc'[t] = IF t = s THEN label ELSE pc[t]
    BY DEF Typed, Locals
  <1> QED
    BY <1>1 DEF Charged

\* A slot that stays charged, or uncharged, leaves the charged purchases alone.
LEMMA ChargedSame ==
    ASSUME Typed, NEW s \in Slots, NEW label, pc' = [pc EXCEPT ![s] = label],
           pc[s] \in {"insert", "refund"} <=> label \in {"insert", "refund"}
    PROVE  Charged' = Charged
  <1>1. s \in Charged <=> label \in {"insert", "refund"}
    BY DEF Charged
  <1> QED
    BY <1>1, ChargedMoves

\* A slot that is charged adds one charged purchase.
LEMMA ChargedGrows ==
    ASSUME Typed, NEW s \in Slots, NEW label, pc' = [pc EXCEPT ![s] = label],
           pc[s] \notin {"insert", "refund"}, label \in {"insert", "refund"}
    PROVE  Cardinality(Charged') = Cardinality(Charged) + 1
  <1>1. s \notin Charged /\ Charged' = Charged \cup {s}
    BY ChargedMoves DEF Charged
  <1> QED
    BY <1>1, CountsTyped, FS_AddElement

\* A slot that is charged no longer removes one.
LEMMA ChargedShrinks ==
    ASSUME Typed, NEW s \in Slots, NEW label, pc' = [pc EXCEPT ![s] = label],
           pc[s] \in {"insert", "refund"}, label \notin {"insert", "refund"}
    PROVE  Cardinality(Charged') = Cardinality(Charged) - 1
  <1>1. s \in Charged /\ Charged' = Charged \ {s}
    BY ChargedMoves DEF Charged
  <1> QED
    BY <1>1, CountsTyped, FS_RemoveElement

\* The linear part of the next lemma, on numbers: a store b with a history a
\* stays within y + v of what it should be.
LEMMA Margins ==
    ASSUME NEW b \in Int, NEW a \in Int, NEW bb \in Int, NEW aa \in Int, NEW o \in Int,
           NEW x \in Int, NEW y \in Int, NEW u \in Int, NEW v \in Int,
           b >= (o + a - x) - y, b <= (o + a - x) + y,
           (bb - aa) - (b - a) + u >= -v, (bb - aa) - (b - a) + u <= v
    PROVE  /\ bb >= (o + aa - (x + u)) - (y + v)
           /\ bb <= (o + aa - (x + u)) + (y + v)
  OBVIOUS

\* A step that spends d more prices and in which m more calls fail.
Moves(d, m) ==
    /\ Spent' = Spent + d
    /\ failures' = failures + m
    /\ (balance' - adjusted') - (balance - adjusted) + Price * d >= -(Price * m)
    /\ (balance' - adjusted') - (balance - adjusted) + Price * d <= Price * m

\* The one place the arithmetic is done.
LEMMA ConservedMoves ==
    ASSUME Typed, Typed', Conserved, NEW d \in Int, NEW m \in {0, 1}, Moves(d, m)
    PROVE  Conserved'
  <1>1. /\ Spent \in Int /\ failures \in Int /\ balance \in Int /\ adjusted \in Int
        /\ balance' \in Int /\ adjusted' \in Int /\ Price \in Int /\ Opening \in Int
    BY CountsTyped, BalanceAssumption DEF Typed, Stores
  <1>2. Expected = Opening + adjusted - Price * Spent
    BY DEF Expected, Spent
  <1>3. Expected' = Opening + adjusted' - Price * (Spent + d)
    BY DEF Expected, Spent, Moves
  <1>4. Price * (Spent + d) = Price * Spent + Price * d
    BY <1>1
  <1>5. Price * (failures + m) = Price * failures + Price * m
    BY <1>1
  <1>6. balance >= Expected - Price * failures /\ balance <= Expected + Price * failures
    BY DEF Conserved
  <1>7. /\ balance' >= Expected' - (Price * failures + Price * m)
        /\ balance' <= Expected' + (Price * failures + Price * m)
    <2> DEFINE x == Price * Spent
               y == Price * failures
               u == Price * d
               v == Price * m
    <2>1. x \in Int /\ y \in Int /\ u \in Int /\ v \in Int
      BY <1>1
    <2>2. Expected = Opening + adjusted - x /\ Expected' = Opening + adjusted' - (x + u)
      BY <1>2, <1>3, <1>4
    <2>3. balance >= Expected - y /\ balance <= Expected + y
      BY <1>6
    <2>4. /\ (balance' - adjusted') - (balance - adjusted) + u >= -v
          /\ (balance' - adjusted') - (balance - adjusted) + u <= v
      BY DEF Moves
    <2> HIDE DEF x, y, u, v
    <2>5. /\ balance >= (Opening + adjusted - x) - y
          /\ balance <= (Opening + adjusted - x) + y
      BY <2>2, <2>3
    <2>6. /\ balance' >= (Opening + adjusted' - (x + u)) - (y + v)
          /\ balance' <= (Opening + adjusted' - (x + u)) + (y + v)
      <3> DEFINE b == balance
                 bb == balance'
                 a == adjusted
                 aa == adjusted'
                 o == Opening
      <3>1. b \in Int /\ bb \in Int /\ a \in Int /\ aa \in Int /\ o \in Int
        BY <1>1
      <3>2. /\ b >= (o + a - x) - y /\ b <= (o + a - x) + y
            /\ (bb - aa) - (b - a) + u >= -v /\ (bb - aa) - (b - a) + u <= v
        BY <2>4, <2>5
      <3> HIDE DEF b, bb, a, aa, o
      <3>3. /\ bb >= (o + aa - (x + u)) - (y + v)
            /\ bb <= (o + aa - (x + u)) + (y + v)
        BY <2>1, <3>1, <3>2, Margins
      <3> QED
        BY <3>3 DEF bb, aa, o
    <2>7. balance' >= Expected' - (y + v) /\ balance' <= Expected' + (y + v)
      BY <2>2, <2>6
    <2> QED
      BY <2>7 DEF y, v
  <1> QED
    BY <1>5, <1>7 DEF Conserved, Moves

\* Steps that move no money.
LEMMA ConservedSame ==
    ASSUME Typed, Typed', Conserved, Charged' = Charged, owned' = owned,
           balance' - adjusted' = balance - adjusted,
           failures' = failures \/ failures' = failures + 1
    PROVE  Conserved'
  <1>1. Spent' = Spent + 0 /\ Spent \in Nat
    BY CountsTyped DEF Spent
  <1>2. balance \in Int /\ adjusted \in Int /\ failures \in Int /\ Price \in Nat
    BY BalanceAssumption DEF Typed, Stores
  <1>3. Price * 0 = 0 /\ Price * 1 = Price
    BY <1>2
  <1>4. CASE failures' = failures
    BY <1>1, <1>2, <1>3, <1>4, ConservedMoves DEF Moves
  <1>5. CASE failures' = failures + 1
    BY <1>1, <1>2, <1>3, <1>5, ConservedMoves DEF Moves
  <1> QED
    BY <1>4, <1>5

\* A charge that went through, one that was refused, one left unanswered.
LEMMA ChargeConserves ==
    ASSUME Typed, Typed', Conserved, NEW s \in Slots, Charge(s)
    PROVE  Conserved'
  <1>1. balance \in Int /\ adjusted \in Int /\ Price \in Nat /\ failures \in Int
    BY BalanceAssumption DEF Typed, Stores
  <1>2. owned' = owned /\ adjusted' = adjusted /\ pc[s] = "charge"
    BY DEF Charge
  <1>3. Price * 0 = 0 /\ Price * 1 = Price
    BY <1>1
  <1>4. CASE AdjustBalance(-Price) /\ Await(s, "insert") /\ UNCHANGED failures
    <2>1. balance' = balance - Price
      BY <1>1, <1>4 DEF AdjustBalance
    <2>2. Cardinality(Charged') = Cardinality(Charged) + 1
      BY <1>2, <1>4, ChargedGrows DEF Await
    <2>3. Spent' = Spent + 1
      BY <1>2, <2>2, CountsTyped DEF Spent
    <2>4. failures' = failures + 0
      BY <1>1, <1>4
    <2> QED
      BY <1>1, <1>2, <1>3, <2>1, <2>3, <2>4, ConservedMoves DEF Moves
  <1>5. CASE Finish(s) /\ UNCHANGED <<balance, failures>>
    <2>1. Charged' = Charged
      BY <1>2, <1>5, ChargedSame DEF Finish
    <2> QED
      BY <1>2, <1>5, <2>1, ConservedSame
  <1>6. CASE CallFails /\ (AdjustBalance(-Price) \/ UNCHANGED balance) /\ Finish(s)
    <2>1. Charged' = Charged
      BY <1>2, <1>6, ChargedSame DEF Finish
    <2>2. Spent' = Spent + 0 /\ failures' = failures + 1
      BY <1>2, <1>6, <2>1, CountsTyped DEF Spent, CallFails
    <2>3. balance' = balance - Price \/ balance' = balance
      BY <1>1, <1>6 DEF AdjustBalance
    <2> QED
      BY <1>1, <1>2, <1>3, <2>2, <2>3, ConservedMoves DEF Moves
  <1> QED
    BY <1>4, <1>5, <1>6 DEF Charge

\* An aircraft that is stored takes the place of its charge; a call that
\* fails may leave both.
LEMMA InsertAircraftConserves ==
    ASSUME Typed, Typed', Conserved, NEW s \in Slots, InsertAircraft(s)
    PROVE  Conserved'
  <1> DEFINE tail == job[s].target
  <1>1. balance \in Int /\ adjusted \in Int /\ Price \in Nat /\ failures \in Int
    BY BalanceAssumption DEF Typed, Stores
  <1>2. balance' = balance /\ adjusted' = adjusted /\ pc[s] = "insert"
    BY DEF InsertAircraft
  <1>3. Price * 0 = 0 /\ Price * 1 = Price
    BY <1>1
  <1>4. ASSUME tail \notin owned, owned' = owned \cup {tail}
        PROVE  Cardinality(owned') = Cardinality(owned) + 1
    BY <1>4, CountsTyped, FS_AddElement
  <1>5. CASE tail \notin owned /\ owned' = owned \cup {tail} /\ Finish(s) /\ UNCHANGED failures
    <2>1. Cardinality(Charged') = Cardinality(Charged) - 1
      BY <1>2, <1>5, ChargedShrinks DEF Finish
    <2>2. Spent' = Spent + 0
      BY <1>4, <1>5, <2>1, CountsTyped DEF Spent
    <2>3. failures' = failures + 0
      BY <1>1, <1>5
    <2> QED
      BY <1>1, <1>2, <1>3, <2>2, <2>3, ConservedMoves DEF Moves
  <1>6. CASE Await(s, "refund") /\ owned' = owned /\ (UNCHANGED failures \/ CallFails)
    <2>1. Charged' = Charged
      BY <1>2, <1>6, ChargedSame DEF Await
    <2>2. failures' = failures \/ failures' = failures + 1
      BY <1>6 DEF CallFails
    <2> QED
      BY <1>2, <1>6, <2>1, <2>2, ConservedSame
  <1>7. CASE tail \notin owned /\ owned' = owned \cup {tail} /\ Await(s, "refund") /\ CallFails
    <2>1. Charged' = Charged
      BY <1>2, <1>7, ChargedSame DEF Await
    <2>2. Spent' = Spent + 1
      BY <1>4, <1>7, <2>1, CountsTyped DEF Spent
    <2>3. failures' = failures + 1
      BY <1>7 DEF CallFails
    <2> QED
      BY <1>1, <1>2, <1>3, <2>2, <2>3, ConservedMoves DEF Moves
  <1> QED
    BY <1>5, <1>6, <1>7 DEF InsertAircraft, Compensate

\* A refund that arrives, and one that is lost.
LEMMA RefundConserves ==
    ASSUME Typed, Typed', Conserved, NEW s \in Slots, Refund(s)
    PROVE  Conserved'
  <1>1. balance \in Int /\ adjusted \in Int /\ Price \in Nat /\ failures \in Int
    BY BalanceAssumption DEF Typed, Stores
  <1>2. owned' = owned /\ adjusted' = adjusted /\ pc[s] = "refund" /\ Finish(s)
    BY DEF Refund
  <1>3. Price * 0 = 0 /\ Price * 1 = Price /\ Price * (-1) = -Price
    BY <1>1
  <1>4. Cardinality(Charged') = Cardinality(Charged) - 1
    BY <1>2, ChargedShrinks DEF Finish
  <1>5. Spent' = Spent + (-1)
    BY <1>2, <1>4, CountsTyped DEF Spent
  <1>6. CASE AdjustBalance(Price) /\ UNCHANGED failures
    <2>1. balance' = balance + Price /\ failures' = failures + 0
      BY <1>1, <1>6 DEF AdjustBalance
    <2> QED
      BY <1>1, <1>2, <1>3, <1>5, <2>1, ConservedMoves DEF Moves
  <1>7. CASE CallFails /\ UNCHANGED balance
    <2>1. failures' = failures + 1
      BY <1>7 DEF CallFails
    <2> QED
      BY <1>1, <1>2, <1>3, <1>5, <1>7, <2>1, ConservedMoves DEF Moves
  <1> QED
    BY <1>6, <1>7 DEF Refund

\* A credit moves the balance and its history together.
LEMMA SyncBalanceConserves ==
    ASSUME Typed, Typed', Conserved, NEW s \in Slots, SyncBalance(s)
    PROVE  Conserved'
  <1>1. balance \in Int /\ adjusted \in Int
    BY DEF Typed, Stores
  <1>2. job[s].target \in Int
    BY BalanceAssumption DEF Typed, Locals, SyncBalance, Fits
  <1>3. balance' - adjusted' = balance - adjusted
    BY <1>1, <1>2 DEF SyncBalance, AdjustBalance
  <1>4. failures' = failures \/ failures' = failures + 1
    BY DEF SyncBalance, CallFails
  <1>5. Charged' = Charged
    BY ChargedSame DEF SyncBalance, Finish
  <1> QED
    BY <1>3, <1>4, <1>5, ConservedSame DEF SyncBalance

\* The other steps leave the balance, the aircraft and the charges alone.
LEMMA OthersConserve ==
    ASSUME Typed, Typed', Conserved, NEW s \in Slots,
           \/ Begin(s) \/ SaveAdjustment(s) \/ ReadFleet(s) \/ ReadLedger(s)
           \/ ListHubs(s) \/ AddHub(s) \/ RemoveHub(s)
           \/ AnalyseRoutePrice(s) \/ PayFee(s)
    PROVE  Conserved'
  <1>1. balance' = balance /\ owned' = owned /\ adjusted' = adjusted /\ failures' = failures
    BY DEF Begin, SaveAdjustment, ReadFleet, ReadLedger, ListHubs, AddHub, RemoveHub,
       AnalyseRoutePrice, PayFee, stores
  <1>2. pc[s] \notin {"insert", "refund"}
    <2>1. CASE ReadLedger(s)
      BY <2>1 DEF ReadLedger
    <2>2. CASE Begin(s) \/ SaveAdjustment(s) \/ ReadFleet(s) \/ ListHubs(s)
      BY <2>2 DEF Begin, SaveAdjustment, ReadFleet, ListHubs
    <2>3. CASE AddHub(s) \/ RemoveHub(s) \/ AnalyseRoutePrice(s) \/ PayFee(s)
      BY <2>3 DEF AddHub, RemoveHub, AnalyseRoutePrice, PayFee
    <2> QED
      BY <2>1, <2>2, <2>3
  <1>3. PICK label \in Awaits :
          label \notin {"insert", "refund"} /\ pc' = [pc EXCEPT ![s] = label]
    <2>1. CASE ReadLedger(s)
      BY <2>1, ReadLedgerMoves DEF Finish, GoOn, Awaits
    <2>2. CASE Begin(s) \/ SaveAdjustment(s) \/ ReadFleet(s)
      BY <2>2 DEF Begin, SaveAdjustment, ReadFleet, GoOn, Awaits
    <2>3. CASE ListHubs(s) \/ AddHub(s) \/ AnalyseRoutePrice(s)
      BY <2>3 DEF ListHubs, AddHub, AnalyseRoutePrice, Finish, Await, Awaits
    <2>4. CASE RemoveHub(s) \/ PayFee(s)
      BY <2>4 DEF RemoveHub, PayFee, Finish, Awaits
    <2> QED
      BY <2>1, <2>2, <2>3, <2>4
  <1>4. Charged' = Charged
    BY <1>2, <1>3, ChargedSame
  <1> QED
    BY <1>1, <1>4, ConservedSame

\* Every step conserves the money.
LEMMA ConservedStep == Typed /\ Typed' /\ Conserved /\ [Next]_vars => Conserved'
  <1> SUFFICES ASSUME Typed, Typed', Conserved, [Next]_vars PROVE Conserved'
    OBVIOUS
  <1>1. CASE UNCHANGED vars
    BY <1>1, ConservedSame DEF vars, stores, local, Charged
  <1>2. CASE BookFlight
    BY <1>2, ConservedSame DEF BookFlight, local, Charged
  <1>3. ASSUME NEW s \in Slots, Begin(s) \/ SaveAdjustment(s) \/ Serve(s)
        PROVE  Conserved'
    BY <1>3, OthersConserve, ChargeConserves, InsertAircraftConserves, RefundConserves,
       SyncBalanceConserves DEF Serve
  <1>4. CASE OpenPage
    BY <1>4, ConservedSame DEF OpenPage, stores, local, Charged
  <1>5. CASE AirlineAnswered
    <2>1. Charged' = Charged
      BY <1>5 DEF AirlineAnswered, AfterAirline, Charged
    <2> QED
      BY <1>5, <2>1, ConservedSame DEF AirlineAnswered, stores
  <1>6. CASE Restart
    <2>1. Charged' = Charged
      BY <1>6 DEF Restart, Charged
    <2> QED
      BY <1>6, <2>1, ConservedSame DEF Restart, stores
  <1> QED
    BY <1>1, <1>2, <1>3, <1>4, <1>5, <1>6 DEF Next

\* At every moment the balance is the opening one, plus what administrators
\* moved, less one price for each aircraft and each purchase in progress, give
\* or take one price for each call that failed.
THEOREM MoneyConserved == Spec => []Conserved
  <1>1. Init => Conserved
    <2> SUFFICES ASSUME Init PROVE Conserved
      OBVIOUS
    <2>1. Charged = {} /\ owned = {}
      BY DEF Init, Charged
    <2>2. Cardinality(owned) + Cardinality(Charged) = 0
      BY <2>1, FS_EmptySet
    <2>3. Price * 0 = 0 /\ Opening \in Int
      BY BalanceAssumption
    <2> QED
      BY <2>2, <2>3 DEF Init, Conserved, Expected
  <1>2. Spec => []Typed
    BY TypedAlways
  <1> QED
    BY <1>1, <1>2, TypedStep, ConservedStep, PTL DEF Spec

-----------------------------------------------------------------------------
(* Sums.  The sum of a function over a finite set, and the inductions over *)
(* the set that its laws need.                                             *)

\* What holds of 0 and with n of n + 1 holds of every number: of the numbers
\* it does not hold of, none is the least.
LEMMA NumberSteps ==
    ASSUME NEW A, 0 \in A, \A n \in Nat : n \in A => n + 1 \in A
    PROVE  Nat \subseteq A
  <1> DEFINE T == Nat \ A
  <1>1. SUFFICES ASSUME T # {} PROVE FALSE
    OBVIOUS
  <1>2. PICK n \in T : \A m \in T : ~(<<m, n>> \in OpToRel(<, Nat))
    BY <1>1, WFMin, NatLessThanWellFounded
  <1>3. \A m \in T : ~(m < n)
    BY <1>2 DEF OpToRel
  <1>4. n - 1 \in Nat /\ n - 1 \notin T
    BY <1>3
  <1> QED
    BY <1>4

\* Without one of its elements a set counts one less.
LEMMA OneLess ==
    ASSUME NEW T, IsFiniteSet(T), NEW x \in T, NEW n \in Nat, Cardinality(T) = n + 1
    PROVE  Cardinality(T \ {x}) = n
  <1>1. Cardinality(T \ {x}) = IF x \in T THEN Cardinality(T) - 1 ELSE Cardinality(T)
    BY FS_RemoveElement
  <1> QED
    BY <1>1

\* A set that counts at least one has an element.
LEMMA NotEmpty ==
    ASSUME NEW T, NEW n \in Nat, Cardinality(T) = n + 1
    PROVE  T # {}
  BY FS_EmptySet

\* What holds of the empty set and, with T, of T and one element more, holds of
\* every finite set.
LEMMA FiniteSteps ==
    ASSUME NEW S, IsFiniteSet(S), NEW G, {} \in G,
           \A T \in SUBSET S : \A x \in S \ T : T \in G => T \cup {x} \in G
    PROVE  S \in G
  <1> DEFINE A == {k \in Nat : \A T \in SUBSET S : Cardinality(T) = k => T \in G}
  <1>1. \A T \in SUBSET S : IsFiniteSet(T) /\ Cardinality(T) \in Nat
    BY FS_Subset, FS_CardinalityType
  <1>2. 0 \in A
    BY <1>1, FS_EmptySet
  <1>3. ASSUME NEW n \in Nat, n \in A PROVE n + 1 \in A
    <2>1. ASSUME NEW T \in SUBSET S, Cardinality(T) = n + 1 PROVE T \in G
      <3>1. PICK x : x \in T
        BY <2>1, NotEmpty
      <3>2. Cardinality(T \ {x}) = n
        BY <1>1, <2>1, <3>1, OneLess
      <3>3. T \ {x} \in G /\ x \in S \ (T \ {x})
        BY <1>3, <3>1, <3>2
      <3>4. T = (T \ {x}) \cup {x}
        BY <3>1
      <3> QED
        BY <3>3, <3>4
    <2> QED
      BY <2>1
  <1>4. Nat \subseteq A
    <2> HIDE DEF A
    <2> QED
      BY <1>2, <1>3, NumberSteps
  <1>5. S \in SUBSET S /\ Cardinality(S) \in A
    BY <1>1, <1>4
  <1> QED
    BY <1>5

\* The element of a set that a fold takes first.
Some(U) == CHOOSE x \in U : TRUE

\* f sums w over each set of the family F, taking Some element first.
IsTotal(f, F, w) ==
    f = [U \in F |-> IF U = {} THEN 0 ELSE w[Some(U)] + f[U \ {Some(U)}]]

Total(w, S) == (CHOOSE f : IsTotal(f, SUBSET S, w))[S]

\* The family of small subsets.
UpTo(S, k) == {U \in SUBSET S : Cardinality(U) <= k}

\* Such a function exists.
LEMMA TotalExists ==
    ASSUME NEW S, IsFiniteSet(S), NEW w
    PROVE  \E f : IsTotal(f, SUBSET S, w)
  <1> DEFINE A == {k \in Nat : \E f : IsTotal(f, UpTo(S, k), w)}
  <1>1. \A U \in SUBSET S : IsFiniteSet(U) /\ Cardinality(U) \in Nat /\ Cardinality(U) <= Cardinality(S)
    BY FS_Subset, FS_CardinalityType
  <1>2. 0 \in A
    <2>1. \A U \in UpTo(S, 0) : U = {}
      BY <1>1, FS_EmptySet DEF UpTo
    <2>2. IsTotal([U \in UpTo(S, 0) |-> 0], UpTo(S, 0), w)
      BY <2>1 DEF IsTotal
    <2> QED
      BY <2>2
  <1>3. ASSUME NEW k \in Nat, k \in A PROVE k + 1 \in A
    <2>1. PICK f : IsTotal(f, UpTo(S, k), w)
      BY <1>3
    <2> DEFINE g == [U \in UpTo(S, k + 1) |->
                        IF U = {} THEN 0 ELSE w[Some(U)] + f[U \ {Some(U)}]]
    <2>2. ASSUME NEW U \in UpTo(S, k)
          PROVE  U \in UpTo(S, k + 1) /\ g[U] = f[U]
      <3>1. U \in UpTo(S, k + 1)
        BY <1>1 DEF UpTo
      <3>2. f[U] = IF U = {} THEN 0 ELSE w[Some(U)] + f[U \ {Some(U)}]
        BY <2>1 DEF IsTotal
      <3> QED
        BY <3>1, <3>2
    <2>3. ASSUME NEW U \in UpTo(S, k + 1), U # {}
          PROVE  U \ {Some(U)} \in UpTo(S, k)
      <3>1. Some(U) \in U
        BY <2>3 DEF Some
      <3>2. Cardinality(U \ {Some(U)}) = Cardinality(U) - 1
        BY <1>1, <3>1, FS_RemoveElement DEF UpTo
      <3> QED
        BY <1>1, <3>2 DEF UpTo
    <2>4. IsTotal(g, UpTo(S, k + 1), w)
      BY <2>2, <2>3 DEF IsTotal
    <2> QED
      BY <2>4
  <1>4. Nat \subseteq A
    <2> HIDE DEF A
    <2> QED
      BY <1>2, <1>3, NumberSteps
  <1>5. UpTo(S, Cardinality(S)) = SUBSET S
    BY <1>1 DEF UpTo
  <1>6. Cardinality(S) \in A
    BY <1>1, <1>4
  <1> QED
    BY <1>5, <1>6

\* f sums w over the subsets of S.
Sums(f, S, w) == IsTotal(f, SUBSET S, w)

\* There is one sum: two such functions agree where what they sum agrees.
LEMMA TotalUnique ==
    ASSUME NEW S, IsFiniteSet(S), NEW w, NEW f, Sums(f, S, w),
           NEW V \in SUBSET S, NEW u, NEW g, Sums(g, V, u),
           \A x \in V : w[x] = u[x]
    PROVE  f[V] = g[V]
  <1> DEFINE A == {k \in Nat : \A T \in SUBSET V : Cardinality(T) = k => f[T] = g[T]}
  <1>0. IsFiniteSet(V)
    BY FS_Subset
  <1>1. \A T \in SUBSET V : IsFiniteSet(T) /\ Cardinality(T) \in Nat
    BY <1>0, FS_Subset, FS_CardinalityType
  <1>2. \A T \in SUBSET V :
          /\ f[T] = IF T = {} THEN 0 ELSE w[Some(T)] + f[T \ {Some(T)}]
          /\ g[T] = IF T = {} THEN 0 ELSE u[Some(T)] + g[T \ {Some(T)}]
    BY DEF Sums, IsTotal
  <1>3. 0 \in A
    BY <1>1, <1>2, FS_EmptySet
  <1>4. ASSUME NEW k \in Nat, k \in A PROVE k + 1 \in A
    <2>1. ASSUME NEW T \in SUBSET V, Cardinality(T) = k + 1 PROVE f[T] = g[T]
      <3>1. T # {}
        BY <2>1, NotEmpty
      <3>2. Some(T) \in T
        BY <3>1 DEF Some
      <3>3. Cardinality(T \ {Some(T)}) = k
        BY <1>1, <2>1, <3>2, OneLess
      <3>4. f[T \ {Some(T)}] = g[T \ {Some(T)}]
        BY <1>4, <3>3
      <3> QED
        BY <1>2, <3>1, <3>2, <3>4
    <2> QED
      BY <2>1
  <1>5. Nat \subseteq A
    <2> HIDE DEF A
    <2> QED
      BY <1>3, <1>4, NumberSteps
  <1>6. V \in SUBSET V /\ Cardinality(V) \in A
    BY <1>1, <1>5
  <1> QED
    BY <1>6

\* The sum takes Some element and then those that remain.
LEMMA TotalStep ==
    ASSUME NEW S, IsFiniteSet(S), NEW w
    PROVE  Total(w, S) = IF S = {} THEN 0 ELSE w[Some(S)] + Total(w, S \ {Some(S)})
  <1> DEFINE R == S \ {Some(S)}
             f == CHOOSE h : Sums(h, S, w)
             g == CHOOSE h : Sums(h, R, w)
  <1>1. IsFiniteSet(R)
    BY FS_Subset
  <1>2. Sums(f, S, w) /\ Sums(g, R, w)
    BY <1>1, TotalExists DEF Sums
  <1>3. f[R] = g[R]
    <2> HIDE DEF f, g
    <2>1. R \in SUBSET S
      OBVIOUS
    <2> HIDE DEF R
    <2> QED
      BY <1>1, <1>2, <2>1, TotalUnique
  <1>4. f[S] = IF S = {} THEN 0 ELSE w[Some(S)] + f[R]
    <2> HIDE DEF f
    <2> QED
      BY <1>2 DEF Sums, IsTotal
  <1> QED
    BY <1>3, <1>4 DEF Total, Sums

\* The sum depends on what is summed alone.
LEMMA TotalSame ==
    ASSUME NEW S, IsFiniteSet(S), NEW w, NEW u, \A x \in S : w[x] = u[x]
    PROVE  Total(w, S) = Total(u, S)
  <1> DEFINE f == CHOOSE h : Sums(h, S, w)
             g == CHOOSE h : Sums(h, S, u)
  <1>1. Sums(f, S, w) /\ Sums(g, S, u)
    BY TotalExists DEF Sums
  <1>2. f[S] = g[S]
    <2> HIDE DEF f, g
    <2>1. S \in SUBSET S
      OBVIOUS
    <2> QED
      BY <1>1, <2>1, TotalUnique
  <1> QED
    BY <1>2 DEF Total, Sums

\* Integers add up to an integer.
LEMMA TotalTyped ==
    ASSUME NEW S, IsFiniteSet(S), NEW w, \A x \in S : w[x] \in Int
    PROVE  Total(w, S) \in Int
  <1> DEFINE A == {k \in Nat : \A T \in SUBSET S : Cardinality(T) = k => Total(w, T) \in Int}
  <1>1. \A T \in SUBSET S : IsFiniteSet(T) /\ Cardinality(T) \in Nat
    BY FS_Subset, FS_CardinalityType
  <1>2. 0 \in A
    BY <1>1, FS_EmptySet, TotalStep
  <1>3. ASSUME NEW k \in Nat, k \in A PROVE k + 1 \in A
    <2>1. ASSUME NEW T \in SUBSET S, Cardinality(T) = k + 1 PROVE Total(w, T) \in Int
      <3>1. Some(T) \in T
        BY <2>1, NotEmpty DEF Some
      <3>2. Cardinality(T \ {Some(T)}) = k
        BY <1>1, <2>1, <3>1, OneLess
      <3>3. Total(w, T \ {Some(T)}) \in Int
        BY <1>3, <3>2
      <3>4. Total(w, T) = w[Some(T)] + Total(w, T \ {Some(T)})
        BY <1>1, <3>1, TotalStep
      <3> QED
        BY <3>1, <3>3, <3>4
    <2> QED
      BY <2>1
  <1>4. Nat \subseteq A
    <2> HIDE DEF A
    <2> QED
      BY <1>2, <1>3, NumberSteps
  <1>5. S \in SUBSET S /\ Cardinality(S) \in A
    BY <1>1, <1>4
  <1> QED
    BY <1>5

\* Any element may be taken first.
LEMMA TotalTake ==
    ASSUME NEW S, IsFiniteSet(S), NEW w, \A x \in S : w[x] \in Int, NEW x \in S
    PROVE  Total(w, S) = w[x] + Total(w, S \ {x})
  <1> DEFINE A == {k \in Nat : \A T \in SUBSET S : Cardinality(T) = k =>
                      \A y \in T : Total(w, T) = w[y] + Total(w, T \ {y})}
  <1>1. \A T \in SUBSET S : IsFiniteSet(T) /\ Cardinality(T) \in Nat /\ Total(w, T) \in Int
    <2>1. \A T \in SUBSET S : IsFiniteSet(T) /\ Cardinality(T) \in Nat
      BY FS_Subset, FS_CardinalityType
    <2> QED
      BY <2>1, TotalTyped
  <1>2. 0 \in A
    BY <1>1, FS_EmptySet
  <1>3. ASSUME NEW k \in Nat, k \in A PROVE k + 1 \in A
    <2>1. ASSUME NEW T \in SUBSET S, Cardinality(T) = k + 1, NEW y \in T
          PROVE  Total(w, T) = w[y] + Total(w, T \ {y})
      <3> DEFINE c == Some(T)
      <3>1. c \in T
        BY DEF Some
      <3>2. Total(w, T) = w[c] + Total(w, T \ {c})
        BY <1>1, TotalStep
      <3> HIDE DEF c
      <3>3. CASE y = c
        BY <3>2, <3>3
      <3>4. CASE y # c
        <4>1. Cardinality(T \ {c}) = k /\ Cardinality(T \ {y}) = k
          BY <1>1, <2>1, <3>1, OneLess
        <4>2. Total(w, T \ {c}) = w[y] + Total(w, (T \ {c}) \ {y})
          BY <1>3, <3>1, <3>4, <4>1
        <4>3. Total(w, T \ {y}) = w[c] + Total(w, (T \ {y}) \ {c})
          BY <1>3, <3>1, <3>4, <4>1
        <4>4. (T \ {c}) \ {y} = (T \ {y}) \ {c}
          OBVIOUS
        <4> DEFINE rest == Total(w, (T \ {y}) \ {c})
        <4>5. w[c] \in Int /\ w[y] \in Int /\ rest \in Int
          BY <1>1, <3>1
        <4>6. Total(w, T) = w[c] + (w[y] + rest)
          BY <3>2, <4>2, <4>4
        <4>7. Total(w, T \ {y}) = w[c] + rest
          BY <4>3
        <4> HIDE DEF rest
        <4> QED
          BY <4>5, <4>6, <4>7
      <3> QED
        BY <3>3, <3>4
    <2> QED
      BY <2>1
  <1>4. Nat \subseteq A
    <2> HIDE DEF A
    <2> QED
      BY <1>2, <1>3, NumberSteps
  <1>5. S \in SUBSET S /\ Cardinality(S) \in A
    BY <1>1, <1>4
  <1> QED
    BY <1>5

\* A sum grows by what is added.
LEMMA TotalAdd ==
    ASSUME NEW S, IsFiniteSet(S), NEW w, NEW x, x \notin S,
           \A y \in S \cup {x} : w[y] \in Int
    PROVE  Total(w, S \cup {x}) = Total(w, S) + w[x]
  <1>1. IsFiniteSet(S \cup {x}) /\ x \in S \cup {x} /\ (S \cup {x}) \ {x} = S
    BY FS_AddElement
  <1>2. Total(w, S \cup {x}) = w[x] + Total(w, S)
    BY <1>1, TotalTake
  <1>3. Total(w, S) \in Int /\ w[x] \in Int
    BY TotalTyped
  <1> QED
    BY <1>2, <1>3

\* What is summed of R is compared, element by element, with w and, on Q, with u.
LEMMA TotalLess ==
    ASSUME NEW S, IsFiniteSet(S), NEW R, NEW Q, NEW v, NEW w, NEW u,
           \A x \in S : v[x] \in Int /\ w[x] \in Int /\ u[x] \in Int,
           \A x \in S : (IF x \in R THEN v[x] ELSE 0) <= w[x] + (IF x \in Q THEN u[x] ELSE 0)
    PROVE  Total(v, S \cap R) <= Total(w, S) + Total(u, S \cap Q)
  <1> DEFINE G == {T \in SUBSET S : Total(v, T \cap R) <= Total(w, T) + Total(u, T \cap Q)}
  <1>1. {} \in G
    <2>1. {} \cap R = {} /\ {} \cap Q = {}
      OBVIOUS
    <2>2. Total(v, {}) = 0 /\ Total(w, {}) = 0 /\ Total(u, {}) = 0
      BY FS_EmptySet, TotalStep
    <2> QED
      BY <2>1, <2>2
  <1>2. ASSUME NEW T \in SUBSET S, NEW x \in S \ T, T \in G PROVE T \cup {x} \in G
    <2>1. IsFiniteSet(T) /\ IsFiniteSet(T \cap R) /\ IsFiniteSet(T \cap Q)
      BY FS_Subset
    <2>2. /\ Total(v, T \cap R) \in Int /\ Total(w, T) \in Int /\ Total(u, T \cap Q) \in Int
          /\ v[x] \in Int /\ w[x] \in Int /\ u[x] \in Int
      BY <2>1, TotalTyped
    <2>3. Total(w, T \cup {x}) = Total(w, T) + w[x]
      BY <2>1, TotalAdd
    <2>4. Total(v, (T \cup {x}) \cap R) =
             Total(v, T \cap R) + (IF x \in R THEN v[x] ELSE 0)
      <3>1. CASE x \in R
        <4>1. (T \cup {x}) \cap R = (T \cap R) \cup {x} /\ x \notin T \cap R
          BY <3>1
        <4>2. Total(v, (T \cap R) \cup {x}) = Total(v, T \cap R) + v[x]
          BY <2>1, <4>1, TotalAdd
        <4> QED
          BY <3>1, <4>1, <4>2
      <3>2. CASE x \notin R
        <4>1. (T \cup {x}) \cap R = T \cap R
          BY <3>2
        <4> QED
          BY <2>2, <3>2, <4>1
      <3> QED
        BY <3>1, <3>2
    <2>5. Total(u, (T \cup {x}) \cap Q) =
             Total(u, T \cap Q) + (IF x \in Q THEN u[x] ELSE 0)
      <3>1. CASE x \in Q
        <4>1. (T \cup {x}) \cap Q = (T \cap Q) \cup {x} /\ x \notin T \cap Q
          BY <3>1
        <4>2. Total(u, (T \cap Q) \cup {x}) = Total(u, T \cap Q) + u[x]
          BY <2>1, <4>1, TotalAdd
        <4> QED
          BY <3>1, <4>1, <4>2
      <3>2. CASE x \notin Q
        <4>1. (T \cup {x}) \cap Q = T \cap Q
          BY <3>2
        <4> QED
          BY <2>2, <3>2, <4>1
      <3> QED
        BY <3>1, <3>2
    <2>6. Total(v, T \cap R) <= Total(w, T) + Total(u, T \cap Q)
      BY <1>2
    <2>7. (IF x \in R THEN v[x] ELSE 0) <= w[x] + (IF x \in Q THEN u[x] ELSE 0)
      OBVIOUS
    <2>8. Total(v, (T \cup {x}) \cap R) <= Total(w, T \cup {x}) + Total(u, (T \cup {x}) \cap Q)
      <3> DEFINE a == Total(v, T \cap R)
                 b == Total(w, T)
                 c == Total(u, T \cap Q)
      <3>1. a \in Int /\ b \in Int /\ c \in Int /\ a <= b + c
        BY <2>2, <2>6
      <3>2. Total(v, (T \cup {x}) \cap R) = a + (IF x \in R THEN v[x] ELSE 0)
        BY <2>4
      <3>3. Total(w, T \cup {x}) = b + w[x]
        BY <2>3
      <3>4. Total(u, (T \cup {x}) \cap Q) = c + (IF x \in Q THEN u[x] ELSE 0)
        BY <2>5
      <3> HIDE DEF a, b, c
      <3> QED
        BY <2>2, <2>7, <3>1, <3>2, <3>3, <3>4
    <2> QED
      BY <2>8
  <1>3. S \in G
    <2> HIDE DEF G
    <2> QED
      BY <1>1, <1>2, FiniteSteps
  <1> QED
    BY <1>3

\* Summing less of each element.
LEMMA TotalMonotone ==
    ASSUME NEW S, IsFiniteSet(S), NEW v, NEW w,
           \A x \in S : v[x] \in Int /\ w[x] \in Int /\ v[x] <= w[x]
    PROVE  Total(v, S) <= Total(w, S)
  <1>1. Total(v, S \cap S) <= Total(w, S) + Total(w, S \cap {})
    <2>1. \A x \in S : (IF x \in S THEN v[x] ELSE 0) <= w[x] + (IF x \in {} THEN w[x] ELSE 0)
      OBVIOUS
    <2> QED
      BY <2>1, TotalLess
  <1>2. S \cap S = S /\ S \cap {} = {}
    OBVIOUS
  <1>3. Total(w, {}) = 0 /\ Total(w, S) \in Int
    BY FS_EmptySet, TotalStep, TotalTyped
  <1> QED
    BY <1>1, <1>2, <1>3

\* Summing fewer elements, none of them negative.
LEMMA TotalOfPart ==
    ASSUME NEW S, IsFiniteSet(S), NEW R \in SUBSET S, NEW v, NEW w,
           \A x \in S : w[x] \in Nat, \A x \in R : v[x] = w[x]
    PROVE  Total(v, R) <= Total(w, S)
  <1>1. Total(w, S \cap R) <= Total(w, S) + Total(w, S \cap {})
    <2>1. \A x \in S : (IF x \in R THEN w[x] ELSE 0) <= w[x] + (IF x \in {} THEN w[x] ELSE 0)
      OBVIOUS
    <2>2. \A x \in S : w[x] \in Int
      OBVIOUS
    <2> QED
      BY <2>1, <2>2, TotalLess
  <1>2. S \cap R = R /\ S \cap {} = {}
    OBVIOUS
  <1>3. Total(w, {}) = 0 /\ Total(w, S) \in Int
    BY FS_EmptySet, TotalStep, TotalTyped
  <1>4. Total(v, R) = Total(w, R)
    <2>1. IsFiniteSet(R)
      BY FS_Subset
    <2> QED
      BY <2>1, TotalSame
  <1> QED
    BY <1>1, <1>2, <1>3, <1>4

\* Elements of at most d each.
LEMMA TotalBounds ==
    ASSUME NEW S, IsFiniteSet(S), NEW w, NEW d \in Nat,
           \A x \in S : w[x] \in 0 .. d
    PROVE  Total(w, S) \in 0 .. (Cardinality(S) * d)
  <1> DEFINE G == {T \in SUBSET S : Total(w, T) \in 0 .. (Cardinality(T) * d)}
  <1>1. {} \in G
    <2>1. Total(w, {}) = 0 /\ Cardinality({}) = 0
      BY FS_EmptySet, TotalStep
    <2>2. 0 * d = 0 /\ 0 \in 0 .. 0
      OBVIOUS
    <2>3. Total(w, {}) \in 0 .. (Cardinality({}) * d)
      BY <2>1, <2>2
    <2> QED
      BY <2>3
  <1>2. ASSUME NEW T \in SUBSET S, NEW x \in S \ T, T \in G PROVE T \cup {x} \in G
    <2>1. IsFiniteSet(T) /\ Cardinality(T) \in Nat
      BY FS_Subset, FS_CardinalityType
    <2>2. Cardinality(T \cup {x}) = Cardinality(T) + 1
      BY <2>1, FS_AddElement
    <2>3. Total(w, T \cup {x}) = Total(w, T) + w[x]
      BY <2>1, TotalAdd
    <2>4. w[x] \in 0 .. d /\ Total(w, T) \in 0 .. (Cardinality(T) * d)
      BY <1>2
    <2>5. Cardinality(T) * d \in Nat /\ (Cardinality(T) + 1) * d = Cardinality(T) * d + d
      BY <2>1
    <2>6. Total(w, T) + w[x] \in 0 .. (Cardinality(T) * d + d)
      BY <2>4, <2>5
    <2>7. Total(w, T \cup {x}) \in 0 .. (Cardinality(T \cup {x}) * d)
      BY <2>2, <2>3, <2>5, <2>6
    <2> QED
      BY <2>7
  <1>3. S \in G
    <2> HIDE DEF G
    <2> QED
      BY <1>1, <1>2, FiniteSteps
  <1> QED
    BY <1>3

\* One element changes: its old share leaves the sum, its new one enters.
LEMMA TotalMoves ==
    ASSUME NEW S, IsFiniteSet(S), NEW R, IsFiniteSet(R), NEW x, S \ {x} = R \ {x},
           NEW v, NEW w, \A y \in S : v[y] \in Int, \A y \in R : w[y] \in Int,
           \A y \in S \ {x} : v[y] = w[y]
    PROVE  Total(w, R) = Total(v, S) - (IF x \in S THEN v[x] ELSE 0)
                                     + (IF x \in R THEN w[x] ELSE 0)
  <1> DEFINE Q == S \ {x}
  <1>1. IsFiniteSet(Q) /\ Q = R \ {x} /\ x \notin Q
    BY FS_Subset
  <1>2. Total(v, Q) = Total(w, Q) /\ Total(v, Q) \in Int
    BY <1>1, TotalSame, TotalTyped
  <1>3. Total(v, S) = Total(v, Q) + (IF x \in S THEN v[x] ELSE 0)
    <2>1. CASE x \in S
      BY <1>2, <2>1, TotalTake
    <2>2. CASE x \notin S
      <3>1. S = Q
        BY <2>2
      <3> HIDE DEF Q
      <3> QED
        BY <1>2, <2>2, <3>1
    <2> QED
      BY <2>1, <2>2
  <1>4. Total(w, R) = Total(w, Q) + (IF x \in R THEN w[x] ELSE 0)
    <2>1. CASE x \in R
      <3>1. Total(w, R) = w[x] + Total(w, R \ {x})
        BY <2>1, TotalTake
      <3> HIDE DEF Q
      <3> QED
        BY <1>1, <1>2, <2>1, <3>1
    <2>2. CASE x \notin R
      <3>1. R = Q
        BY <1>1, <2>2
      <3> HIDE DEF Q
      <3> QED
        BY <1>2, <2>2, <3>1
    <2> QED
      BY <2>1, <2>2
  <1>5. x \in S => v[x] \in Int
    OBVIOUS
  <1>6. x \in R => w[x] \in Int
    OBVIOUS
  <1> HIDE DEF Q
  <1> QED
    BY <1>2, <1>3, <1>4, <1>5, <1>6

-----------------------------------------------------------------------------
(* The overdraft.  What is left when every decided purchase and hub has    *)
(* been paid is bounded below, and remains so whoever decides next.        *)

\* No purchase and no hub costs more than the dearest.
LEMMA DearestIsLargest ==
    /\ Dearest \in Nat
    /\ Price <= Dearest
    /\ \A a \in Airports : HubFee[a] <= Dearest
  <1> DEFINE S == {Price} \cup {HubFee[a] : a \in Airports}
             G == {T \in SUBSET S : T = {} \/ \E x \in T : \A y \in T : x >= y}
  <1>1. IsFiniteSet(S) /\ S \subseteq Nat /\ S # {}
    <2>1. IsFiniteSet({HubFee[a] : a \in Airports})
      <3> DEFINE T == {HubFee[a] : a \in Airports}
      <3>1. HubFee \in Surjection(Airports, T)
        BY BalanceAssumption DEF Surjection
      <3> HIDE DEF T
      <3>2. IsFiniteSet(T)
        BY <3>1, BalanceAssumption, FS_Surjection
      <3> QED
        BY <3>2 DEF T
    <2>2. IsFiniteSet(S)
      BY <2>1, FS_Singleton, FS_Union
    <2> QED
      BY <2>2, BalanceAssumption
  <1>2. {} \in G
    OBVIOUS
  <1>3. ASSUME NEW T \in SUBSET S, NEW x \in S \ T, T \in G PROVE T \cup {x} \in G
    <2> HIDE DEF S
    <2>1. T \subseteq Nat /\ x \in Nat
      BY <1>1
    <2>2. CASE T = {}
      <3>1. \A y \in T \cup {x} : x >= y
        BY <2>1, <2>2
      <3> QED
        BY <3>1
    <2>3. CASE T # {}
      <3>1. PICK z \in T : \A y \in T : z >= y
        BY <1>3, <2>3
      <3>2. CASE x >= z
        <4>1. \A y \in T \cup {x} : x >= y
          BY <2>1, <3>1, <3>2
        <4> QED
          BY <4>1
      <3>3. CASE z >= x
        <4>1. \A y \in T \cup {x} : z >= y
          BY <2>1, <3>1, <3>3
        <4> QED
          BY <4>1
      <3> QED
        BY <2>1, <3>2, <3>3
    <2> QED
      BY <2>2, <2>3
  <1>4. S \in G
    <2> HIDE DEF G, S
    <2> QED
      BY <1>1, <1>2, <1>3, FiniteSteps
  <1>5. \E x \in S : \A y \in S : x >= y
    BY <1>1, <1>4
  <1>6. Dearest \in S /\ \A y \in S : Dearest >= y
    BY <1>5 DEF Dearest, Max
  <1> QED
    BY <1>1, <1>6

\* Of the undecided requests U some number W: money is left for all slots but
\* those and one more, or one of those knows how little is left.
Known(W, left, sees) ==
    LET rest == Cardinality(Slots) - Cardinality(W)
    IN  \/ left >= -((rest - 1) * Dearest) - Unseen
        \/ \E t \in W : sees[t] - left - Unseen <= rest * Dearest

Floor(U, left, sees) == \A W \in SUBSET U : Known(W, left, sees)

\* There is a slot, and what the slots may have charged unseen is a number.
LEMMA SlotsCounted ==
    /\ Cardinality(Slots) \in Nat
    /\ Cardinality(Slots) >= 1
    /\ Unseen \in Nat
  <1>1. Cardinality(Slots) \in Nat /\ Cardinality(Slots) # 0
    BY BalanceAssumption, FS_CardinalityType, FS_EmptySet
  <1>2. ASSUME NEW i \in Nat, NEW j \in Nat PROVE i * j \in Nat
    OBVIOUS
  <1>3. Price \in Nat
    BY BalanceAssumption
  <1>4. Unseen \in Nat
    BY <1>1, <1>2, <1>3 DEF Unseen
  <1> QED
    BY <1>1, <1>4

\* A set of slots is finite and no larger than the set of all.
LEMMA Counted ==
    ASSUME NEW W, W \subseteq Slots
    PROVE  IsFiniteSet(W) /\ Cardinality(W) \in Nat /\ Cardinality(W) <= Cardinality(Slots)
  <1>1. IsFiniteSet(Slots) /\ W \in SUBSET Slots
    BY BalanceAssumption
  <1> QED
    BY <1>1, FS_Subset, FS_CardinalityType

\* The slots that are not in W, and what they may be short of.
LEMMA RestTyped ==
    ASSUME NEW W, W \subseteq Slots, NEW rest, rest = Cardinality(Slots) - Cardinality(W)
    PROVE  /\ rest \in Nat
           /\ rest * Dearest \in Int
           /\ (rest - 1) * Dearest = rest * Dearest - Dearest
           /\ (rest - 1 - 1) * Dearest = rest * Dearest - Dearest - Dearest
  <1>1. rest \in Nat
    BY Counted, SlotsCounted
  <1>2. Dearest \in Nat
    BY DearestIsLargest
  <1>3. \A i, j \in Int : /\ i * j \in Int
                          /\ (i - 1) * j = i * j - j
                          /\ (i - 1 - 1) * j = i * j - j - j
    OBVIOUS
  <1> QED
    BY <1>1, <1>2, <1>3

\* Nobody decides: what is left does not shrink, and nobody sees more of it.
LEMMA FloorKept ==
    ASSUME NEW U \in SUBSET Slots, NEW left \in Int, NEW sees \in [Slots -> Int],
           Floor(U, left, sees),
           NEW U2 \in SUBSET U, NEW left2 \in Int, NEW sees2 \in [Slots -> Int],
           left2 >= left, \A t \in U2 : sees2[t] - left2 <= sees[t] - left
    PROVE  Floor(U2, left2, sees2)
  <1>1. SUFFICES ASSUME NEW W \in SUBSET U2 PROVE Known(W, left2, sees2)
    BY DEF Floor
  <1> DEFINE rest == Cardinality(Slots) - Cardinality(W)
  <1>2. Unseen \in Nat /\ rest * Dearest \in Int /\ (rest - 1) * Dearest \in Int
    <2>1. W \subseteq Slots
      OBVIOUS
    <2> QED
      BY <2>1, SlotsCounted, RestTyped, DearestIsLargest
  <1>3. \/ left >= -((rest - 1) * Dearest) - Unseen
        \/ \E t \in W : sees[t] - left - Unseen <= rest * Dearest
    BY DEF Floor, Known
  <1>4. CASE left >= -((rest - 1) * Dearest) - Unseen
    <2>1. left2 >= -((rest - 1) * Dearest) - Unseen
      BY <1>2, <1>4
    <2> QED
      BY <2>1 DEF Known
  <1>5. ASSUME NEW t \in W, sees[t] - left - Unseen <= rest * Dearest
        PROVE  Known(W, left2, sees2)
    <2>1. sees[t] \in Int /\ sees2[t] \in Int /\ sees2[t] - left2 <= sees[t] - left
      OBVIOUS
    <2>2. sees2[t] - left2 - Unseen <= rest * Dearest
      BY <1>2, <1>5, <2>1
    <2> QED
      BY <2>2 DEF Known
  <1> QED
    BY <1>3, <1>4, <1>5

\* s decides on a cost that it sees is covered.
LEMMA FloorDecided ==
    ASSUME NEW U \in SUBSET Slots, NEW left \in Int, NEW sees \in [Slots -> Int],
           Floor(U, left, sees),
           NEW s \in U, NEW cost \in Nat, cost <= Dearest, cost <= sees[s],
           NEW U2 \in SUBSET (U \ {s}), NEW sees2 \in [Slots -> Int],
           \A t \in U2 : sees2[t] = sees[t]
    PROVE  Floor(U2, left - cost, sees2)
  <1>1. SUFFICES ASSUME NEW W \in SUBSET U2 PROVE Known(W, left - cost, sees2)
    BY DEF Floor
  <1> DEFINE V == W \cup {s}
             rest == Cardinality(Slots) - Cardinality(W)
             D == Dearest
  <1>2. Cardinality(V) = Cardinality(W) + 1 /\ V \in SUBSET U
    <2>1. W \subseteq Slots /\ s \notin W
      OBVIOUS
    <2>2. IsFiniteSet(W)
      BY <2>1, Counted
    <2> QED
      BY <2>1, <2>2, FS_AddElement
  <1>3. rest \in Int /\ Cardinality(Slots) - Cardinality(V) = rest - 1
    <2>1. W \subseteq Slots
      OBVIOUS
    <2>2. rest \in Nat /\ Cardinality(W) \in Nat
      BY <2>1, Counted, RestTyped
    <2> QED
      BY <1>2, <2>2, SlotsCounted
  <1>4. /\ D \in Nat /\ Unseen \in Nat
        /\ rest * D \in Int
        /\ (rest - 1) * D = rest * D - D
        /\ (rest - 1 - 1) * D = rest * D - D - D
    <2>1. W \subseteq Slots
      OBVIOUS
    <2> QED
      BY <2>1, SlotsCounted, DearestIsLargest, RestTyped
  <1> DEFINE m == rest * D
  <1>5. \/ left >= -(m - D - D) - Unseen
        \/ \E t \in V : sees[t] - left - Unseen <= m - D
    <2>1. Known(V, left, sees)
      BY <1>2 DEF Floor
    <2> HIDE DEF V, rest
    <2> QED
      BY <1>3, <1>4, <2>1 DEF Known
  <1>6. SUFFICES \/ left - cost >= -(m - D) - Unseen
                 \/ \E t \in W : sees2[t] - (left - cost) - Unseen <= m
    <2> HIDE DEF m
    <2>1. (rest - 1) * D = m - D /\ rest * D = m
      BY <1>4 DEF m
    <2> QED
      BY <2>1 DEF Known
  <1>7. m \in Int /\ D \in Nat /\ cost <= D /\ Unseen \in Nat
    BY <1>4
  <1> HIDE DEF m, rest, D
  <1>8. CASE left >= -(m - D - D) - Unseen
    BY <1>7, <1>8
  <1>9. CASE sees[s] - left - Unseen <= m - D
    <2>1. sees[s] \in Int
      OBVIOUS
    <2> QED
      BY <1>7, <1>9, <2>1
  <1>10. ASSUME NEW t \in W, sees[t] - left - Unseen <= m - D
         PROVE  sees2[t] - (left - cost) - Unseen <= m
    <2>1. sees[t] \in Int /\ sees2[t] = sees[t]
      OBVIOUS
    <2> QED
      BY <1>7, <1>10, <2>1
  <1> QED
    BY <1>5, <1>8, <1>9, <1>10

\* s begins, and sees no more than what is left and what others, who have
\* decided, have committed themselves to.
LEMMA FloorBegun ==
    ASSUME NEW U \in SUBSET Slots, NEW left \in Int, NEW sees \in [Slots -> Int],
           Floor(U, left, sees),
           NEW s \in Slots, NEW sees2 \in [Slots -> Int], \A t \in U : sees2[t] = sees[t],
           NEW C \in SUBSET Slots, C \cap (U \cup {s}) = {}, s \notin U,
           sees2[s] - left - Unseen <= Cardinality(C) * Dearest
    PROVE  Floor(U \cup {s}, left, sees2)
  <1>1. SUFFICES ASSUME NEW W \in SUBSET (U \cup {s}) PROVE Known(W, left, sees2)
    BY DEF Floor
  <1> DEFINE rest == Cardinality(Slots) - Cardinality(W)
  <1>2. CASE s \in W
    <2>1. Cardinality(C) <= rest
      <3>1. C \subseteq Slots /\ W \subseteq Slots /\ C \cup W \subseteq Slots /\ C \cap W = {}
        OBVIOUS
      <3>2. /\ IsFiniteSet(C) /\ IsFiniteSet(W)
            /\ Cardinality(C) \in Nat /\ Cardinality(W) \in Nat
            /\ Cardinality(C \cup W) <= Cardinality(Slots)
        BY <3>1, Counted
      <3>3. Cardinality(C \cup W) = Cardinality(C) + Cardinality(W) - Cardinality(C \cap W)
        BY <3>2, FS_Union
      <3>4. Cardinality(C \cap W) = 0
        BY <3>1, FS_EmptySet
      <3> QED
        BY <3>2, <3>3, <3>4, SlotsCounted
    <2>2. Cardinality(C) \in Nat /\ rest \in Nat /\ Dearest \in Nat /\ Unseen \in Nat
      <3>1. C \subseteq Slots /\ W \subseteq Slots
        OBVIOUS
      <3> QED
        BY <3>1, Counted, SlotsCounted, RestTyped, DearestIsLargest
    <2>3. Cardinality(C) * Dearest <= rest * Dearest
      BY <2>1, <2>2
    <2>4. Cardinality(C) * Dearest \in Int /\ rest * Dearest \in Int
      BY <2>2
    <2>5. sees2[s] - left - Unseen <= rest * Dearest
      BY <2>2, <2>3, <2>4
    <2> QED
      BY <1>2, <2>5 DEF Known
  <1>3. CASE s \notin W
    <2>1. Known(W, left, sees) /\ \A t \in W : sees2[t] = sees[t]
      BY <1>3 DEF Floor
    <2> QED
      BY <2>1 DEF Known
  <1> QED
    BY <1>2, <1>3

-----------------------------------------------------------------------------
(* What the ledger and the requests in progress add up to.                 *)

EntryAmount == [e \in Entry |-> e.amount]

\* The ledger's sum is the total of its amounts.
LEMMA SumLedgerIsTotal ==
    ASSUME NEW L \in SUBSET Entry, IsFiniteSet(L)
    PROVE  SumLedger(L) = Total(EntryAmount, L) /\ SumLedger(L) \in Int
  <1> DEFINE Eq(f) == f = [V \in SUBSET L |->
                             IF V = {} THEN 0
                             ELSE (CHOOSE x \in V : TRUE).amount + f[V \ {CHOOSE x \in V : TRUE}]]
             g == CHOOSE h : IsTotal(h, SUBSET L, EntryAmount)
  <1>1. \A V \in SUBSET L : V # {} =>
           /\ (CHOOSE x \in V : TRUE) \in L
           /\ EntryAmount[CHOOSE x \in V : TRUE] = (CHOOSE x \in V : TRUE).amount
    BY DEF EntryAmount
  <1>2. IsTotal(g, SUBSET L, EntryAmount)
    BY TotalExists
  <1>3. Eq(g)
    <2> HIDE DEF g
    <2> QED
      BY <1>1, <1>2 DEF IsTotal, Some
  <1>4. Eq(CHOOSE f : Eq(f))
    <2> HIDE DEF g
    <2> QED
      BY <1>3
  <1>5. SumLedger(L) = (CHOOSE f : Eq(f))[L]
    BY DEF SumLedger, MapThenSumSet, MapThenFoldSet
  <1>6. IsTotal(CHOOSE f : Eq(f), SUBSET L, EntryAmount)
    <2> DEFINE c == CHOOSE f : Eq(f)
    <2>1. Eq(c)
      BY <1>4
    <2> HIDE DEF c, g
    <2>2. IsTotal(c, SUBSET L, EntryAmount)
      BY <1>1, <2>1 DEF IsTotal, Some
    <2> QED
      BY <2>2 DEF c
  <1>7. (CHOOSE f : Eq(f))[L] = g[L]
    <2> DEFINE c == CHOOSE f : Eq(f)
    <2>1. Sums(c, L, EntryAmount) /\ Sums(g, L, EntryAmount)
      BY <1>2, <1>6 DEF Sums
    <2>2. L \in SUBSET L
      OBVIOUS
    <2> HIDE DEF c, g
    <2>3. c[L] = g[L]
      BY <2>1, <2>2, TotalUnique
    <2> QED
      BY <2>3 DEF c
  <1>8. SumLedger(L) = Total(EntryAmount, L)
    BY <1>5, <1>7 DEF Total
  <1>9. Total(EntryAmount, L) \in Int
    <2>1. \A e \in L : EntryAmount[e] \in Int
      BY DEF EntryAmount, Entry
    <2> QED
      BY <2>1, TotalTyped
  <1> QED
    BY <1>8, <1>9

\* The entries whose amount counts against the funds unchecked, and how.
Debits == {e \in ledger : e.kind # "hub-fee" /\ e.amount < 0}

UncheckedAmount ==
    [e \in Entry |-> IF e.kind = "admin-adjustment" THEN -2 * e.amount ELSE -e.amount]

\* What was booked unchecked is the sum of the debits, those of adjustments twice.
LEMMA UncheckedIsTotal ==
    ASSUME ledger \in SUBSET Entry, IsFiniteSet(ledger)
    PROVE  Unchecked = Total(UncheckedAmount, Debits)
  <1> DEFINE L == Debits
             Eq(f) == f = [V \in SUBSET L |->
                             IF V = {} THEN 0
                             ELSE (IF (CHOOSE x \in V : TRUE).kind = "admin-adjustment"
                                   THEN -2 * (CHOOSE x \in V : TRUE).amount
                                   ELSE -(CHOOSE x \in V : TRUE).amount)
                                  + f[V \ {CHOOSE x \in V : TRUE}]]
             g == CHOOSE h : IsTotal(h, SUBSET L, UncheckedAmount)
  <1>0. L \in SUBSET Entry /\ IsFiniteSet(L)
    BY FS_Subset DEF Debits
  <1>1. Unchecked = (CHOOSE f : Eq(f))[L]
    BY DEF Unchecked, MapThenSumSet, MapThenFoldSet, Debits
  <1> HIDE DEF L
  <1>2. \A V \in SUBSET L : V # {} =>
           /\ (CHOOSE x \in V : TRUE) \in L
           /\ UncheckedAmount[CHOOSE x \in V : TRUE] =
                 IF (CHOOSE x \in V : TRUE).kind = "admin-adjustment"
                 THEN -2 * (CHOOSE x \in V : TRUE).amount
                 ELSE -(CHOOSE x \in V : TRUE).amount
    BY <1>0 DEF UncheckedAmount
  <1>3. IsTotal(g, SUBSET L, UncheckedAmount)
    BY <1>0, TotalExists
  <1>4. Eq(g)
    <2> HIDE DEF g
    <2> QED
      BY <1>2, <1>3 DEF IsTotal, Some
  <1>5. Eq(CHOOSE f : Eq(f))
    <2> HIDE DEF g
    <2> QED
      BY <1>4
  <1>6. IsTotal(CHOOSE f : Eq(f), SUBSET L, UncheckedAmount)
    <2> DEFINE c == CHOOSE f : Eq(f)
    <2>1. Eq(c)
      BY <1>5
    <2> HIDE DEF c, g
    <2>2. IsTotal(c, SUBSET L, UncheckedAmount)
      BY <1>2, <2>1 DEF IsTotal, Some
    <2> QED
      BY <2>2 DEF c
  <1>7. (CHOOSE f : Eq(f))[L] = g[L]
    <2> DEFINE c == CHOOSE f : Eq(f)
    <2>1. Sums(c, L, UncheckedAmount) /\ Sums(g, L, UncheckedAmount)
      BY <1>3, <1>6 DEF Sums
    <2>2. L \in SUBSET L
      OBVIOUS
    <2> HIDE DEF c, g
    <2>3. c[L] = g[L]
      BY <1>0, <2>1, <2>2, TotalUnique
    <2> QED
      BY <2>3 DEF c
  <1> QED
    BY <1>1, <1>7 DEF Total, L

\* The numbers of the adjustments whose balance has not been asked for yet.
Syncing == {job[s].number : s \in {r \in Slots : pc[r] = "sync"}}

\* What an entry is worth once the balance has followed: a credit or a fee its
\* amount, an unchecked debit nothing, and a debit that the balance was asked
\* for as much as the balance may have lost.
Value(e, syncing) ==
    IF e.kind = "hub-fee" \/ e.amount >= 0 THEN e.amount
    ELSE IF e.kind = "admin-adjustment" /\ e.ref \notin syncing THEN -e.amount
    ELSE 0

Values(syncing) == [e \in Entry |-> Value(e, syncing)]

\* What the player could spend if every entry counted so.
Worth == balance + Total(Values(Syncing), ledger)

\* A purchase or hub that is decided and not paid yet, and what it costs.
Commits(label, j) ==
    label = "charge" \/ (label \in {"add hub", "pay"} /\ j.kind = "hub")

Committed == {s \in Slots : Commits(pc[s], job[s])}

Cost(j) ==
    IF j.kind = "purchase" THEN Price ELSE IF j.kind = "hub" THEN HubFee[j.target] ELSE 0

Costs == [s \in Slots |-> Cost(job[s])]

\* What the decided purchases and hubs still have to pay.
Reserved == Total(Costs, Committed)

\* What is left when they have paid.
Left == Worth - Reserved

\* A purchase or hub that will be decided with the balance it was told and the
\* ledger it has read, or will read, next.
Decides(label, j) ==
    label \in {"airline", "fleet", "ledger", "list hubs"} /\ j.kind \in {"purchase", "hub"}

Undecided == {s \in Slots : Decides(pc[s], job[s])}

SeesAt(label, j) ==
    j.balance + (IF label = "list hubs" THEN SumLedger(j.ledger) ELSE SumLedger(ledger))

Seen == [s \in Slots |-> SeesAt(pc[s], job[s])]

\* The requests that got their answer and may still be charged: for each of the
\* others the answer on its way may have missed a purchase.
Ahead == {s \in Slots : pc[s] \in {"fleet", "ledger", "charge"}}

Heard ==
    reading # NoRead =>
        reading + SumLedger(ledger) <= Worth + Price * (Cardinality(Slots) - Cardinality(Ahead))

\* The books: they are finite, adjustments are numbered as they are served, and
\* one whose balance is still to follow is in the ledger.
Adjustment(j) == [kind |-> "admin-adjustment", ref |-> j.number, amount |-> j.target]

Books ==
    /\ IsFiniteSet(ledger)
    /\ \A s \in Slots : IsFiniteSet(job[s].ledger)
    /\ \A e \in ledger : e.kind = "admin-adjustment" => e.ref \in 1 .. served
    /\ \A s \in Slots : pc[s] = "sync" => Adjustment(job[s]) \in ledger
    /\ \A s, r \in Slots :
          pc[s] = "sync" /\ pc[r] = "sync" /\ job[s].number = job[r].number => s = r

\* The request of s goes on to label and is then j; the others wait.
Turn(s, label, j) ==
    /\ pc'[s] = label
    /\ job'[s] = j
    /\ \A r \in Slots \ {s} : pc'[r] = pc[r] /\ job'[r] = job[r]

\* A request that goes on takes a turn.
LEMMA GoOnTurns ==
    ASSUME Typed, NEW s \in Slots, NEW label, NEW j, GoOn(s, label, j)
    PROVE  Turn(s, label, j)
  BY DEF Typed, Locals, GoOn, Turn

\* A request that ends leaves its slot idle.
LEMMA FinishTurns ==
    ASSUME Typed, NEW s \in Slots, Finish(s)
    PROVE  Turn(s, "idle", NoJob)
  BY DEF Typed, Locals, Finish, Turn

\* A request that only waits for its next call keeps its record.
LEMMA AwaitTurns ==
    ASSUME Typed, NEW s \in Slots, NEW label, Await(s, label)
    PROVE  Turn(s, label, job[s])
  BY DEF Typed, Locals, Await, Turn

\* What an entry does to the ledger.
LEMMA SaveLedgerCases ==
    ASSUME NEW e, SaveLedger(e)
    PROVE  \/ ledger' = ledger /\ \E f \in ledger : SameKey(e, f)
           \/ /\ ledger' = ledger \cup {e}
              /\ e \notin ledger
              /\ ~\E f \in ledger : SameKey(e, f)
  BY DEF SaveLedger, SameKey

\* The books stay in order when a request goes on without starting a sync.
LEMMA BooksTurn ==
    ASSUME Books, NEW s \in Slots, NEW label, NEW j, Turn(s, label, j), label # "sync",
           IsFiniteSet(j.ledger), UNCHANGED <<ledger, served>>
    PROVE  Books'
  BY DEF Books, Turn, Adjustment

\* And when it writes an entry of another kind.
LEMMA BooksSave ==
    ASSUME Books, NEW s \in Slots, NEW label, NEW j, Turn(s, label, j), label # "sync",
           IsFiniteSet(j.ledger), UNCHANGED served,
           NEW e, SaveLedger(e), e.kind # "admin-adjustment"
    PROVE  Books'
  <1>1. IsFiniteSet(ledger')
    BY SaveLedgerCases, FS_AddElement DEF Books
  <1>2. ledger \subseteq ledger' /\ ledger' \subseteq ledger \cup {e}
    BY SaveLedgerAdds
  <1>3. \A f \in ledger' : f.kind = "admin-adjustment" => f.ref \in 1 .. served'
    BY <1>2 DEF Books
  <1>4. \A r \in Slots : IsFiniteSet(job'[r].ledger)
    BY DEF Books, Turn
  <1>5. \A r \in Slots : pc'[r] = "sync" => r # s /\ pc[r] = "sync" /\ job'[r] = job[r]
    BY DEF Turn
  <1>6. \A r \in Slots : pc'[r] = "sync" => Adjustment(job'[r]) \in ledger'
    BY <1>2, <1>5 DEF Books
  <1>7. \A q, r \in Slots :
          pc'[q] = "sync" /\ pc'[r] = "sync" /\ job'[q].number = job'[r].number => q = r
    BY <1>5 DEF Books
  <1> QED
    BY <1>1, <1>3, <1>4, <1>6, <1>7 DEF Books, Adjustment

\* An administrator's adjustment is entered under a number of its own.
LEMMA BooksAdjust ==
    ASSUME Typed, Books, NEW s \in Slots, SaveAdjustment(s)
    PROVE  /\ Books'
           /\ Adjustment(job'[s]) \notin ledger
           /\ ledger' = ledger \cup {Adjustment(job'[s])}
           /\ \E j \in Job : j.kind = "credit" /\ Turn(s, "sync", j)
           /\ job'[s].number = served + 1
  <1>1. PICK amount \in Amounts :
          /\ SaveLedger([kind |-> "admin-adjustment", ref |-> served + 1, amount |-> amount])
          /\ GoOn(s, "sync", Request("credit", served + 1, amount, 0, {}))
    BY DEF SaveAdjustment
  <1> DEFINE j == Request("credit", served + 1, amount, 0, {})
  <1>2. /\ Turn(s, "sync", j) /\ j.number = served + 1 /\ j.target = amount
        /\ j.ledger = {} /\ j.kind = "credit"
    BY <1>1, GoOnTurns DEF Request
  <1>3. Adjustment(j) = [kind |-> "admin-adjustment", ref |-> served + 1, amount |-> amount]
    BY <1>2 DEF Adjustment
  <1>4. served' = served + 1 /\ served \in Nat /\ served + 1 \in 1 .. MaxRequests
    BY BalanceAssumption DEF SaveAdjustment, Typed, Stores
  <1>5. j \in Job
    BY <1>4, RequestTyped
  <1> HIDE DEF j
  <1>6. ~\E f \in ledger : SameKey(Adjustment(j), f)
    BY <1>3, <1>4 DEF SameKey, Books
  <1>7. ledger' = ledger \cup {Adjustment(j)} /\ Adjustment(j) \notin ledger
    BY <1>1, <1>3, <1>6, SaveLedgerCases
  <1>8. IsFiniteSet(ledger')
    BY <1>7, FS_AddElement DEF Books
  <1>9. \A r \in Slots : IsFiniteSet(job'[r].ledger)
    BY <1>2, FS_EmptySet DEF Books, Turn
  <1>10. \A f \in ledger' : f.kind = "admin-adjustment" => f.ref \in 1 .. served'
    BY <1>3, <1>4, <1>7 DEF Books
  <1>11. \A r \in Slots \ {s} : pc[r] = "sync" => job[r].number \in 1 .. served
    BY DEF Books, Adjustment
  <1>12. \A r \in Slots \ {s} : pc'[r] = pc[r] /\ job'[r] = job[r]
    BY <1>2 DEF Turn
  <1>13. pc'[s] = "sync" /\ job'[s] = j
    BY <1>2 DEF Turn
  <1>14. \A r \in Slots : pc'[r] = "sync" => Adjustment(job'[r]) \in ledger'
    BY <1>7, <1>12, <1>13 DEF Books
  <1>15. \A q, r \in Slots :
           pc'[q] = "sync" /\ pc'[r] = "sync" /\ job'[q].number = job'[r].number => q = r
    BY <1>2, <1>4, <1>11, <1>12, <1>13 DEF Books
  <1>16. Books'
    BY <1>8, <1>9, <1>10, <1>14, <1>15 DEF Books, Adjustment
  <1> QED
    BY <1>2, <1>5, <1>7, <1>13, <1>16

\* The steps of one request that write nothing to the ledger.
Quiet(s) ==
    \/ Begin(s) \/ ReadFleet(s) \/ ReadLedger(s) \/ ListHubs(s) \/ AddHub(s) \/ RemoveHub(s)
    \/ AnalyseRoutePrice(s) \/ Charge(s) \/ InsertAircraft(s) \/ Refund(s) \/ SyncBalance(s)

\* Where such a step takes its request.
LEMMA QuietTurns ==
    ASSUME Typed, Books, NEW s \in Slots, Quiet(s)
    PROVE  \E label \in Awaits \ {"sync"}, j \in Job : Turn(s, label, j) /\ IsFiniteSet(j.ledger)
  <1>1. /\ NoJob \in Job /\ IsFiniteSet(NoJob.ledger)
        /\ job[s] \in Job /\ IsFiniteSet(job[s].ledger) /\ IsFiniteSet(ledger)
    BY NoJobTyped, FS_EmptySet DEF Typed, Locals, Books, NoJob, Request
  <1>2. {"airline", "ledger", "charge", "list hubs", "remove hub", "analyse", "add hub", "pay",
         "insert", "refund", "idle"} \subseteq Awaits \ {"sync"}
    BY DEF Awaits
  <1>3. CASE Finish(s)
    BY <1>1, <1>2, <1>3, FinishTurns
  <1>4. ASSUME NEW label \in Awaits \ {"sync"}, Await(s, label)
        PROVE  Turn(s, label, job[s])
    BY <1>4, AwaitTurns
  <1>5. CASE Begin(s)
    <2>1. PICK kind \in {"purchase", "hub", "close", "analysis"} : \E target \in Targets(kind) :
             GoOn(s, "airline", Request(kind, served + 1, target, Coalesced, {}))
      BY <1>5 DEF Begin
    <2>2. PICK target \in Targets(kind) :
             GoOn(s, "airline", Request(kind, served + 1, target, Coalesced, {}))
      BY <2>1
    <2> DEFINE j == Request(kind, served + 1, target, Coalesced, {})
    <2>3. Turn(s, "airline", j) /\ IsFiniteSet(j.ledger)
      BY <2>2, GoOnTurns, FS_EmptySet DEF Request
    <2>4. j \in Job
      <3>1. target \in {0} \cup Airports \cup Tails \cup Amounts
        BY DEF Targets
      <3>2. served + 1 \in 1 .. MaxRequests
        BY <1>5, BalanceAssumption DEF Begin, Typed, Stores
      <3> QED
        BY <3>1, <3>2, CoalescedTyped, RequestTyped
    <2> QED
      BY <1>2, <2>3, <2>4
  <1>6. CASE ReadFleet(s)
    <2>1. PICK tails \in SUBSET owned : GoOn(s, "ledger", [job[s] EXCEPT !.tails = tails])
      BY <1>6 DEF ReadFleet
    <2> DEFINE j == [job[s] EXCEPT !.tails = tails]
    <2>2. j \in Job /\ j.ledger = job[s].ledger
      BY <1>1 DEF Job, Typed, Stores
    <2>3. Turn(s, "ledger", j)
      BY <2>1, GoOnTurns
    <2> HIDE DEF j
    <2> QED
      BY <1>1, <1>2, <2>2, <2>3
  <1>7. CASE ReadLedger(s)
    <2> DEFINE j == [job[s] EXCEPT !.ledger = ledger]
    <2>1. j \in Job /\ j.ledger = ledger
      BY <1>1 DEF Job, Typed, Stores
    <2>2. \/ Finish(s)
          \/ \E label \in {"charge", "list hubs", "remove hub", "analyse"} : GoOn(s, label, j)
      BY <1>7, ReadLedgerMoves
    <2> HIDE DEF j
    <2>3. ASSUME NEW label \in {"charge", "list hubs", "remove hub", "analyse"}, GoOn(s, label, j)
          PROVE  Turn(s, label, j)
      BY <2>3, GoOnTurns
    <2> QED
      BY <1>1, <1>2, <1>3, <2>1, <2>2, <2>3
  <1>8. CASE ListHubs(s) \/ AddHub(s) \/ RemoveHub(s) \/ AnalyseRoutePrice(s)
    <2>1. Finish(s) \/ Await(s, "add hub") \/ Await(s, "pay")
      BY <1>8 DEF ListHubs, AddHub, RemoveHub, AnalyseRoutePrice
    <2> QED
      BY <1>1, <1>2, <1>3, <1>4, <2>1
  <1>9. CASE Charge(s) \/ InsertAircraft(s) \/ Refund(s) \/ SyncBalance(s)
    <2>1. Finish(s) \/ Await(s, "insert") \/ Await(s, "refund")
      BY <1>9 DEF Charge, InsertAircraft, Refund, SyncBalance, Compensate
    <2> QED
      BY <1>1, <1>2, <1>3, <1>4, <2>1
  <1> QED
    BY <1>5, <1>6, <1>7, <1>8, <1>9 DEF Quiet

\* Every step keeps the books in order.
LEMMA BooksStep == Typed /\ Books /\ [Next]_vars => Books'
  <1> SUFFICES ASSUME Typed, Books, [Next]_vars PROVE Books'
    OBVIOUS
  <1>1. CASE UNCHANGED vars
    BY <1>1 DEF Books, Adjustment, vars, stores, local
  <1>2. ASSUME NEW s \in Slots, Quiet(s) PROVE Books'
    <2>1. PICK label \in Awaits \ {"sync"} :
             \E j \in Job : Turn(s, label, j) /\ IsFiniteSet(j.ledger)
      BY <1>2, QuietTurns
    <2>2. PICK j \in Job : Turn(s, label, j) /\ IsFiniteSet(j.ledger)
      BY <2>1
    <2>3. ledger' = ledger
      BY <1>2 DEF Quiet, Begin, ReadFleet, ReadLedger, ListHubs, AddHub, RemoveHub,
         AnalyseRoutePrice, Charge, InsertAircraft, Refund, SyncBalance, stores
    <2>4. CASE served' = served
      BY <2>2, <2>3, <2>4, BooksTurn
    <2>5. CASE Begin(s)
      <3>1. served' = served + 1 /\ served \in Nat
        BY <2>5, BalanceAssumption DEF Begin, Typed, Stores
      <3>2. \A f \in ledger' : f.kind = "admin-adjustment" => f.ref \in 1 .. served'
        BY <2>3, <3>1 DEF Books
      <3>3. \A r \in Slots : pc'[r] = "sync" => r # s /\ pc[r] = "sync" /\ job'[r] = job[r]
        BY <2>2 DEF Turn
      <3>4. \A r \in Slots : IsFiniteSet(job'[r].ledger)
        BY <2>2 DEF Books, Turn
      <3>5. \A r \in Slots : pc'[r] = "sync" => Adjustment(job'[r]) \in ledger'
        BY <2>3, <3>3 DEF Books
      <3>6. \A q, r \in Slots :
              pc'[q] = "sync" /\ pc'[r] = "sync" /\ job'[q].number = job'[r].number => q = r
        BY <3>3 DEF Books
      <3> QED
        BY <2>3, <3>2, <3>4, <3>5, <3>6 DEF Books, Adjustment
    <2>6. served' = served \/ Begin(s)
      BY <1>2 DEF Quiet, ReadFleet, ReadLedger, ListHubs, AddHub, RemoveHub,
         AnalyseRoutePrice, Charge, InsertAircraft, Refund, SyncBalance
    <2> QED
      BY <2>4, <2>5, <2>6
  <1>3. ASSUME NEW s \in Slots, PayFee(s) PROVE Books'
    <2>1. Turn(s, "idle", NoJob) /\ IsFiniteSet(NoJob.ledger)
      BY <1>3, FinishTurns, FS_EmptySet DEF PayFee, NoJob, Request
    <2>2. FeeTransaction(job[s]).kind # "admin-adjustment"
      BY DEF FeeTransaction
    <2>3. UNCHANGED served /\ SaveLedger(FeeTransaction(job[s]))
      BY <1>3 DEF PayFee
    <2> QED
      BY <2>1, <2>2, <2>3, BooksSave
  <1>4. ASSUME NEW s \in Slots, SaveAdjustment(s) PROVE Books'
    BY <1>4, BooksAdjust
  <1>5. CASE BookFlight
    <2>1. PICK f \in Flights :
             SaveLedger([kind |-> "flight", ref |-> f, amount |-> FlightResult[f]])
      BY <1>5 DEF BookFlight
    <2> DEFINE e == [kind |-> "flight", ref |-> f, amount |-> FlightResult[f]]
    <2>2. SaveLedger(e) /\ e.kind # "admin-adjustment"
      BY <2>1
    <2> HIDE DEF e
    <2>3. IsFiniteSet(ledger') /\ ledger \subseteq ledger' /\ ledger' \subseteq ledger \cup {e}
      BY <2>2, SaveLedgerCases, FS_AddElement DEF Books
    <2>4. UNCHANGED local /\ UNCHANGED served
      BY <1>5 DEF BookFlight
    <2> QED
      BY <2>2, <2>3, <2>4 DEF Books, Adjustment, local
  <1>6. CASE OpenPage
    BY <1>6 DEF Books, Adjustment, OpenPage, stores, local
  <1>7. CASE AirlineAnswered
    <2>1. UNCHANGED <<ledger, job, served>>
      BY <1>7 DEF AirlineAnswered, stores
    <2>2. \A r \in Slots : pc'[r] = "sync" => pc[r] = "sync"
      BY <1>7 DEF AirlineAnswered, AfterAirline
    <2> QED
      BY <2>1, <2>2 DEF Books, Adjustment
  <1>8. CASE Restart
    <2>1. UNCHANGED <<ledger, served>>
      BY <1>8 DEF Restart, stores
    <2>2. \A r \in Slots : pc'[r] # "sync" /\ (job'[r] = NoJob \/ job'[r] = job[r])
      BY <1>8 DEF Restart
    <2>3. \A r \in Slots : IsFiniteSet(job'[r].ledger)
      <3>1. IsFiniteSet(NoJob.ledger)
        BY FS_EmptySet DEF NoJob, Request
      <3> QED
        BY <2>2, <3>1 DEF Books
    <2> QED
      BY <2>1, <2>2, <2>3 DEF Books, Adjustment
  <1> QED
    BY <1>1, <1>2, <1>3, <1>4, <1>5, <1>6, <1>7, <1>8 DEF Next, Serve, Quiet

\* What the accounts consist of.
Accounted ==
    /\ balance \in Int
    /\ SumLedger(ledger) \in Int
    /\ Total(Values(Syncing), ledger) \in Int
    /\ balance + SumLedger(ledger) <= Worth
    /\ Worth \in Int
    /\ Committed \subseteq Slots
    /\ IsFiniteSet(Committed)
    /\ \A s \in Slots : Costs[s] \in 0 .. Dearest
    /\ Reserved \in 0 .. (Cardinality(Committed) * Dearest)
    /\ Left \in Int
    /\ Left <= Worth
    /\ Undecided \in SUBSET Slots
    /\ \A s \in Slots : job[s].balance \in Int
    /\ Seen \in [Slots -> Int]
    /\ Cardinality(Ahead) \in 0 .. Cardinality(Slots)

\* The value of an entry is a number, and at least its amount.
LEMMA ValueTyped ==
    ASSUME NEW e \in Entry, NEW syncing
    PROVE  /\ Value(e, syncing) \in Int
           /\ e.amount \in Int
           /\ e.amount <= Value(e, syncing)
           /\ Value(e, syncing) =
                 IF e.kind = "hub-fee" \/ e.amount >= 0 THEN e.amount
                 ELSE IF e.kind = "admin-adjustment" /\ e.ref \notin syncing THEN -e.amount
                 ELSE 0
  <1>1. e.amount \in Int
    BY DEF Entry
  <1> QED
    BY <1>1 DEF Value

\* No purchase or hub costs more than the dearest.
LEMMA CostTyped ==
    ASSUME NEW j, NEW label, Fits(label, j)
    PROVE  Cost(j) \in 0 .. Dearest
  <1>1. Price \in 0 .. Dearest /\ 0 \in 0 .. Dearest
    BY DearestIsLargest, BalanceAssumption
  <1>2. \A a \in Airports : HubFee[a] \in 0 .. Dearest
    BY DearestIsLargest, BalanceAssumption
  <1> QED
    BY <1>1, <1>2 DEF Cost, Fits

\* Every sum of the accounts is an integer.
LEMMA AccountsTyped == Typed /\ Books => Accounted
  <1> SUFFICES ASSUME Typed, Books PROVE Accounted
    OBVIOUS
  <1>1. ledger \in SUBSET Entry /\ IsFiniteSet(ledger)
    BY DEF Typed, Stores, Books
  <1>2. SumLedger(ledger) = Total(EntryAmount, ledger) /\ SumLedger(ledger) \in Int
    BY <1>1, SumLedgerIsTotal
  <1> DEFINE V == Values(Syncing)
  <1>3. \A e \in ledger : /\ V[e] \in Int /\ EntryAmount[e] \in Int
                          /\ EntryAmount[e] <= V[e]
    BY <1>1, ValueTyped DEF Values, EntryAmount
  <1>4. Total(V, ledger) \in Int /\ Total(EntryAmount, ledger) <= Total(V, ledger)
    <2> HIDE DEF V
    <2> QED
      BY <1>1, <1>3, TotalTyped, TotalMonotone
  <1>5. balance \in Int
    BY DEF Typed, Stores
  <1>6. Worth \in Int /\ balance + SumLedger(ledger) <= Worth
    BY <1>2, <1>4, <1>5 DEF Worth
  <1>7. Committed \subseteq Slots /\ Undecided \in SUBSET Slots /\ Ahead \subseteq Slots
    BY DEF Committed, Undecided, Ahead
  <1>8. IsFiniteSet(Committed) /\ Cardinality(Committed) \in Nat
        /\ Cardinality(Ahead) \in 0 .. Cardinality(Slots)
    BY <1>7, Counted
  <1>9. \A s \in Slots : Costs[s] \in 0 .. Dearest
    BY CostTyped DEF Costs, Typed, Locals
  <1>10. Reserved \in 0 .. (Cardinality(Committed) * Dearest)
    BY <1>7, <1>8, <1>9, DearestIsLargest, TotalBounds DEF Reserved
  <1>11. Reserved \in Nat
    BY <1>10
  <1>12. Left \in Int /\ Left <= Worth
    BY <1>6, <1>11 DEF Left
  <1>13. \A s \in Slots : SeesAt(pc[s], job[s]) \in Int
    <2> SUFFICES ASSUME NEW s \in Slots PROVE SeesAt(pc[s], job[s]) \in Int
      OBVIOUS
    <2>1. job[s] \in Job /\ IsFiniteSet(job[s].ledger)
      BY DEF Typed, Locals, Books
    <2>2. job[s].balance \in Int /\ job[s].ledger \in SUBSET Entry
      BY <2>1 DEF Job
    <2>3. SumLedger(job[s].ledger) \in Int
      BY <2>1, <2>2, SumLedgerIsTotal
    <2>4. \A x, y \in Int : x + y \in Int
      OBVIOUS
    <2>5. CASE pc[s] = "list hubs"
      <3>1. SeesAt(pc[s], job[s]) = job[s].balance + SumLedger(job[s].ledger)
        BY <2>5 DEF SeesAt
      <3> QED
        BY <2>2, <2>3, <2>4, <3>1
    <2>6. CASE pc[s] # "list hubs"
      <3>1. SeesAt(pc[s], job[s]) = job[s].balance + SumLedger(ledger)
        BY <2>6 DEF SeesAt
      <3> QED
        BY <1>2, <2>2, <2>4, <3>1
    <2> QED
      BY <2>5, <2>6
  <1>14. Seen \in [Slots -> Int]
    BY <1>13 DEF Seen
  <1>15. \A s \in Slots : job[s].balance \in Int
    BY DEF Typed, Locals, Job
  <1> QED
    BY <1>5, <1>15, <1>2, <1>4, <1>6, <1>7, <1>8, <1>9, <1>10, <1>12, <1>14 DEF Accounted

\* And is so after a step.
LEMMA AccountsTypedNext == (Typed /\ Books)' => Accounted'
  BY AccountsTyped, PTL

\* The reserved money when one request goes on.
LEMMA ReservedTurns ==
    ASSUME Accounted, Accounted', NEW s \in Slots, NEW label, NEW j, Turn(s, label, j)
    PROVE  Reserved' = Reserved - (IF Commits(pc[s], job[s]) THEN Cost(job[s]) ELSE 0)
                                + (IF Commits(label, j) THEN Cost(j) ELSE 0)
  <1>1. Committed \ {s} = Committed' \ {s}
    BY DEF Committed, Turn
  <1>2. \A r \in Slots \ {s} : Costs[r] = Costs'[r]
    BY DEF Costs, Turn
  <1>3. \A r \in Slots : Costs[r] \in Int /\ Costs'[r] \in Int
    <2>1. \A r \in Slots : Costs[r] \in 0 .. Dearest /\ Costs'[r] \in 0 .. Dearest
      BY DEF Accounted
    <2> QED
      BY <2>1
  <1>4. /\ s \in Committed <=> Commits(pc[s], job[s])
        /\ s \in Committed' <=> Commits(label, j)
    BY DEF Committed, Turn
  <1>5. Costs[s] = Cost(job[s]) /\ Costs'[s] = Cost(j)
    BY DEF Costs, Turn
  <1>6. /\ IsFiniteSet(Committed) /\ IsFiniteSet(Committed')
        /\ Committed \subseteq Slots /\ Committed' \subseteq Slots
    BY DEF Accounted
  <1>7. Total(Costs', Committed') = Total(Costs, Committed)
                                       - (IF s \in Committed THEN Costs[s] ELSE 0)
                                       + (IF s \in Committed' THEN Costs'[s] ELSE 0)
    BY <1>1, <1>2, <1>3, <1>6, TotalMoves
  <1> QED
    BY <1>4, <1>5, <1>7 DEF Reserved

\* An entry that the balance has followed, or never will, is worth no less.
LEMMA ValueSettles ==
    ASSUME NEW e \in Entry, NEW syncing, NEW syncing2, syncing2 \subseteq syncing
    PROVE  Value(e, syncing) <= Value(e, syncing2)
  BY ValueTyped

\* No entry is added: what is in the ledger is worth no less, and more by what
\* the entry of an adjustment gains.
LEMMA WorthSettles ==
    ASSUME Typed, Books, Accounted, Accounted', UNCHANGED ledger, Syncing' \subseteq Syncing,
           NEW e, NEW gain \in Int,
           \/ gain = 0
           \/ e \in ledger /\ gain = Value(e, Syncing') - Value(e, Syncing)
    PROVE  Total(Values(Syncing'), ledger') >= Total(Values(Syncing), ledger) + gain
  <1> DEFINE V == Values(Syncing)
             W == Values(Syncing')
  <1>1. ledger \in SUBSET Entry /\ IsFiniteSet(ledger)
    BY DEF Typed, Stores, Books
  <1>2. \A f \in ledger : V[f] \in Int /\ W[f] \in Int /\ V[f] <= W[f]
    BY <1>1, ValueTyped, ValueSettles DEF Values
  <1>3. e \in ledger => V[e] = Value(e, Syncing) /\ W[e] = Value(e, Syncing')
    BY <1>1 DEF Values
  <1>4. Total(V, ledger) \in Int /\ Total(W, ledger) \in Int
    BY DEF Accounted
  <1> HIDE DEF V, W
  <1>5. CASE gain = 0
    <2>1. Total(V, ledger) <= Total(W, ledger)
      BY <1>1, <1>2, TotalMonotone
    <2> QED
      BY <1>4, <1>5, <2>1 DEF V, W
  <1>6. CASE e \in ledger /\ gain = Value(e, Syncing') - Value(e, Syncing)
    <2> DEFINE R == ledger \ {e}
    <2>1. IsFiniteSet(R) /\ R \subseteq ledger
      BY <1>1, FS_Subset
    <2>2. /\ Total(V, ledger) = V[e] + Total(V, R)
          /\ Total(W, ledger) = W[e] + Total(W, R)
      BY <1>1, <1>2, <1>6, TotalTake
    <2> HIDE DEF R
    <2>3. /\ Total(V, R) \in Int /\ Total(W, R) \in Int
          /\ Total(V, R) <= Total(W, R)
      BY <1>2, <2>1, TotalTyped, TotalMonotone
    <2>4. V[e] \in Int /\ W[e] \in Int /\ gain = W[e] - V[e]
      BY <1>2, <1>3, <1>6
    <2>5. Total(W, ledger) >= Total(V, ledger) + gain
      BY <2>2, <2>3, <2>4
    <2> QED
      BY <2>5 DEF V, W
  <1> QED
    BY <1>5, <1>6

\* An entry is added, and the others keep their value.
LEMMA WorthSaves ==
    ASSUME Typed, Books, NEW e \in Entry, e \notin ledger, ledger' = ledger \cup {e},
           \A f \in ledger : Value(f, Syncing') = Value(f, Syncing)
    PROVE  /\ Total(Values(Syncing'), ledger') = Total(Values(Syncing), ledger) + Value(e, Syncing')
           /\ SumLedger(ledger') = SumLedger(ledger) + e.amount
  <1> DEFINE V == Values(Syncing)
             W == Values(Syncing')
  <1>1. ledger \in SUBSET Entry /\ IsFiniteSet(ledger)
    BY DEF Typed, Stores, Books
  <1>2. \A f \in ledger \cup {e} : V[f] \in Int /\ W[f] \in Int
    BY <1>1, ValueTyped DEF Values
  <1>3. \A f \in ledger : V[f] = W[f]
    BY <1>1 DEF Values
  <1>4. W[e] = Value(e, Syncing')
    BY DEF Values
  <1>5. Total(W, ledger \cup {e}) = Total(W, ledger) + W[e]
    <2> HIDE DEF V, W
    <2> QED
      BY <1>1, <1>2, TotalAdd
  <1>6. Total(V, ledger) = Total(W, ledger)
    <2> HIDE DEF V, W
    <2> QED
      BY <1>1, <1>3, TotalSame
  <1>7. \A f \in ledger \cup {e} : EntryAmount[f] = f.amount /\ EntryAmount[f] \in Int
    BY <1>1 DEF EntryAmount, Entry
  <1>8. Total(EntryAmount, ledger \cup {e}) = Total(EntryAmount, ledger) + e.amount
    <2>1. Total(EntryAmount, ledger \cup {e}) = Total(EntryAmount, ledger) + EntryAmount[e]
      <3>1. \A f \in ledger \cup {e} : EntryAmount[f] \in Int
        BY <1>7
      <3> QED
        BY <1>1, <3>1, TotalAdd
    <2> QED
      BY <1>7, <2>1
  <1>9. ledger \cup {e} \in SUBSET Entry /\ IsFiniteSet(ledger \cup {e})
    BY <1>1, FS_AddElement
  <1>10. /\ SumLedger(ledger) = Total(EntryAmount, ledger)
         /\ SumLedger(ledger \cup {e}) = Total(EntryAmount, ledger \cup {e})
    BY <1>1, <1>9, SumLedgerIsTotal
  <1> QED
    BY <1>4, <1>5, <1>6, <1>8, <1>10

FloorHolds == Floor(Undecided, Left, Seen)

\* One request goes on and decides nothing; what the others see of what is left
\* does not grow.
LEMMA FloorTurns ==
    ASSUME Accounted, Accounted', FloorHolds, NEW s \in Slots, NEW label, NEW j, Turn(s, label, j),
           Left' >= Left, SumLedger(ledger') - Left' <= SumLedger(ledger) - Left,
           Decides(label, j) => /\ Decides(pc[s], job[s])
                                /\ Seen'[s] - Left' <= Seen[s] - Left
    PROVE  FloorHolds'
  <1>1. Undecided' \in SUBSET Undecided
    BY DEF Undecided, Turn
  <1>2. ASSUME NEW r \in Undecided' PROVE Seen'[r] - Left' <= Seen[r] - Left
    <2>1. CASE r = s
      BY <2>1 DEF Undecided, Turn
    <2>2. CASE r # s
      <3>1. r \in Slots /\ pc'[r] = pc[r] /\ job'[r] = job[r]
        BY <2>2 DEF Undecided, Turn
      <3>2. /\ Left \in Int /\ Left' \in Int /\ Seen[r] \in Int /\ Seen'[r] \in Int
            /\ SumLedger(ledger) \in Int /\ SumLedger(ledger') \in Int
        BY <3>1 DEF Accounted
      <3>3. CASE pc[r] = "list hubs"
        <4>1. Seen'[r] = Seen[r]
          BY <3>1, <3>3 DEF Seen, SeesAt
        <4> QED
          BY <3>2, <4>1
      <3>4. CASE pc[r] # "list hubs"
        <4>1. /\ Seen[r] = job[r].balance + SumLedger(ledger)
              /\ Seen'[r] = job[r].balance + SumLedger(ledger')
          BY <3>1, <3>4 DEF Seen, SeesAt
        <4>2. job[r].balance \in Int
          BY <3>1 DEF Accounted
        <4> QED
          BY <3>2, <4>1, <4>2
      <3> QED
        BY <3>3, <3>4
    <2> QED
      BY <2>1, <2>2
  <1>3. /\ Undecided \in SUBSET Slots /\ Left \in Int /\ Seen \in [Slots -> Int]
        /\ Left' \in Int /\ Seen' \in [Slots -> Int]
    BY DEF Accounted
  <1>4. Floor(Undecided', Left', Seen')
    BY <1>1, <1>2, <1>3, FloorKept DEF FloorHolds
  <1> QED
    BY <1>4 DEF FloorHolds

\* What is on its way shows no more than there is, but for what the requests
\* that are not ahead may have been charged, whatever moves in the books.
LEMMA HeardKept ==
    ASSUME Accounted, Accounted', Heard, reading' = reading, reading \in Int,
           Ahead' \subseteq Ahead, SumLedger(ledger') - Worth' <= SumLedger(ledger) - Worth
    PROVE  Heard'
  <1> SUFFICES ASSUME reading # NoRead
               PROVE  reading + SumLedger(ledger') <=
                         Worth' + Price * (Cardinality(Slots) - Cardinality(Ahead'))
    BY DEF Heard
  <1>1. reading + SumLedger(ledger) <=
           Worth + Price * (Cardinality(Slots) - Cardinality(Ahead))
    BY DEF Heard
  <1>2. Cardinality(Ahead') <= Cardinality(Ahead)
    <2>1. IsFiniteSet(Ahead)
      <3>1. Ahead \subseteq Slots
        BY DEF Ahead
      <3> QED
        BY <3>1, Counted
    <2> QED
      BY <2>1, FS_Subset
  <1> DEFINE k == Cardinality(Slots) - Cardinality(Ahead)
             m == Cardinality(Slots) - Cardinality(Ahead')
  <1>3. k \in Nat /\ m \in Nat /\ k <= m
    BY <1>2, SlotsCounted DEF Accounted
  <1>4. Price \in Nat
    BY BalanceAssumption
  <1> HIDE DEF k, m
  <1>5. Price * k <= Price * m /\ Price * k \in Int /\ Price * m \in Int
    <2>1. \A p, x, y \in Nat : x <= y => p * x <= p * y /\ p * x \in Int /\ p * y \in Int
      <3> SUFFICES ASSUME NEW p \in Nat, NEW x \in Nat, NEW y \in Nat, x <= y
                   PROVE  p * x <= p * y
        OBVIOUS
      <3>1. p * y = p * x + p * (y - x) /\ y - x \in Nat
        OBVIOUS
      <3>2. p * (y - x) \in Nat /\ p * x \in Int
        BY <3>1
      <3> QED
        BY <3>1, <3>2
    <2> QED
      BY <1>3, <1>4, <2>1
  <1>6. /\ SumLedger(ledger) \in Int /\ SumLedger(ledger') \in Int
        /\ Worth \in Int /\ Worth' \in Int
    BY DEF Accounted
  <1>7. reading + SumLedger(ledger') <= Worth' + Price * m
    <2>1. reading + SumLedger(ledger) <= Worth + Price * k
      BY <1>1 DEF k
    <2> QED
      BY <1>5, <1>6, <2>1
  <1> QED
    BY <1>7 DEF m

\* The balance itself shows no more than there is.
LEMMA HeardFresh ==
    ASSUME Accounted
    PROVE  balance + SumLedger(ledger) <=
              Worth + Price * (Cardinality(Slots) - Cardinality(Ahead))
  <1> DEFINE k == Cardinality(Slots) - Cardinality(Ahead)
  <1>1. k \in Nat /\ Price \in Nat
    BY SlotsCounted, BalanceAssumption DEF Accounted
  <1> HIDE DEF k
  <1>2. Price * k \in Nat
    BY <1>1
  <1>3. /\ balance + SumLedger(ledger) <= Worth /\ Worth \in Int
        /\ SumLedger(ledger) \in Int
    BY DEF Accounted
  <1>4. Worth <= Worth + Price * k
    BY <1>2, <1>3
  <1>5. balance + SumLedger(ledger) <= Worth + Price * k
    <2>1. balance \in Int
      BY DEF Accounted
    <2> QED
      BY <1>2, <1>3, <2>1
  <1> QED
    BY <1>5 DEF k

\* Nothing starts or ends a sync.
LEMMA SyncingTurns ==
    ASSUME NEW s \in Slots, NEW label, NEW j, Turn(s, label, j), label # "sync", pc[s] # "sync"
    PROVE  Syncing' = Syncing
  <1>1. \A r \in Slots : pc'[r] = "sync" <=> pc[r] = "sync"
    BY DEF Turn
  <1>2. \A r \in Slots : pc[r] = "sync" => job'[r] = job[r]
    BY DEF Turn
  <1> QED
    BY <1>1, <1>2 DEF Syncing

\* A turn that moves no money: what it decides was decided before.
LEMMA StillTurns ==
    ASSUME Accounted, Accounted', FloorHolds, Heard,
           NEW s \in Slots, NEW label, NEW j, Turn(s, label, j),
           UNCHANGED <<balance, ledger>>, reading' = reading, reading \in Int, Syncing' = Syncing,
           Commits(label, j) => Commits(pc[s], job[s]) /\ Cost(j) = Cost(job[s]),
           Decides(label, j) => /\ Decides(pc[s], job[s])
                                /\ SeesAt(label, j) = SeesAt(pc[s], job[s]),
           s \in Ahead' => s \in Ahead
    PROVE  FloorHolds' /\ Heard'
  <1>1. Worth' = Worth /\ SumLedger(ledger') = SumLedger(ledger)
    BY DEF Worth
  <1>2. Reserved' <= Reserved
    <2>1. Reserved' = Reserved - (IF Commits(pc[s], job[s]) THEN Cost(job[s]) ELSE 0)
                               + (IF Commits(label, j) THEN Cost(j) ELSE 0)
      BY ReservedTurns
    <2>2. Cost(job[s]) \in 0 .. Dearest /\ Reserved \in 0 .. (Cardinality(Committed) * Dearest)
      BY DEF Accounted, Costs
    <2>3. Cost(job[s]) \in Nat /\ Reserved \in Int
      BY <2>2
    <2> QED
      BY <2>1, <2>3
  <1>3. /\ Left \in Int /\ Left' \in Int /\ Left' >= Left
        /\ Worth \in Int /\ SumLedger(ledger) \in Int
    <2>1. Reserved \in Int /\ Reserved' \in Int
      BY DEF Accounted
    <2>2. Worth \in Int /\ Left \in Int /\ Left' \in Int /\ SumLedger(ledger) \in Int
      BY DEF Accounted
    <2> QED
      BY <1>1, <1>2, <2>1, <2>2 DEF Left
  <1>4. Seen'[s] = SeesAt(label, j) /\ Seen[s] = SeesAt(pc[s], job[s])
    BY DEF Seen, SeesAt, Turn
  <1>5. Seen[s] \in Int
    BY DEF Accounted
  <1>6. Decides(label, j) => Seen'[s] - Left' <= Seen[s] - Left
    BY <1>3, <1>4, <1>5
  <1>7. FloorHolds'
    BY <1>1, <1>3, <1>6, FloorTurns
  <1>8. Ahead' \subseteq Ahead
    BY DEF Ahead, Turn
  <1> QED
    BY <1>1, <1>3, <1>7, <1>8, HeardKept

\* A turn that moves no money and decides on a purchase or a hub.
LEMMA StillDecides ==
    ASSUME Accounted, Accounted', FloorHolds, Heard,
           NEW s \in Slots, NEW label, NEW j, Turn(s, label, j),
           UNCHANGED <<balance, ledger>>, reading' = reading, reading \in Int, Syncing' = Syncing,
           Decides(pc[s], job[s]), Commits(label, j), Cost(j) <= SeesAt(pc[s], job[s]),
           s \in Ahead' => s \in Ahead
    PROVE  FloorHolds' /\ Heard'
  <1>1. Worth' = Worth /\ SumLedger(ledger') = SumLedger(ledger)
    BY DEF Worth
  <1>2. ~Commits(pc[s], job[s]) /\ ~Decides(label, j)
    BY DEF Commits, Decides
  <1>3. Reserved \in Int /\ Cost(j) \in Nat /\ Cost(j) <= Dearest
    <2>1. Costs'[s] \in 0 .. Dearest /\ Costs'[s] = Cost(j)
      BY DEF Accounted, Costs, Turn
    <2>2. Reserved \in 0 .. (Cardinality(Committed) * Dearest)
      BY DEF Accounted
    <2> QED
      BY <2>1, <2>2, DearestIsLargest
  <1>4. Reserved' = Reserved + Cost(j)
    <2>1. Reserved' = Reserved - (IF Commits(pc[s], job[s]) THEN Cost(job[s]) ELSE 0)
                               + (IF Commits(label, j) THEN Cost(j) ELSE 0)
      BY ReservedTurns
    <2> QED
      BY <1>2, <1>3, <2>1
  <1>5. Left' = Left - Cost(j)
    <2>1. Worth \in Int
      BY DEF Accounted
    <2> QED
      BY <1>1, <1>3, <1>4, <2>1 DEF Left
  <1>6. s \in Undecided /\ Undecided' \in SUBSET (Undecided \ {s})
    BY <1>2 DEF Undecided, Turn
  <1>7. \A r \in Undecided' : Seen'[r] = Seen[r]
    BY <1>1, <1>6 DEF Undecided, Seen, SeesAt, Turn
  <1>8. Cost(j) <= Seen[s]
    BY DEF Seen
  <1>9. /\ Undecided \in SUBSET Slots /\ Left \in Int /\ Seen \in [Slots -> Int]
        /\ Seen' \in [Slots -> Int]
    BY DEF Accounted
  <1>10. Floor(Undecided', Left - Cost(j), Seen')
    BY <1>3, <1>6, <1>7, <1>8, <1>9, FloorDecided DEF FloorHolds
  <1>11. FloorHolds'
    BY <1>5, <1>10 DEF FloorHolds
  <1>12. Ahead' \subseteq Ahead
    BY DEF Ahead, Turn
  <1>13. SumLedger(ledger') - Worth' <= SumLedger(ledger) - Worth
    BY <1>1 DEF Accounted
  <1> QED
    BY <1>11, <1>12, <1>13, HeardKept

\* What the steps keep, and what it makes of the accounts.
Sound ==
    /\ Typed /\ Books /\ Accounted
    /\ FloorHolds
    /\ Heard

Bounds == FloorHolds /\ Heard

\* The reading on its way is an integer, and every record fits its await.
LEMMA ReadingTyped ==
    ASSUME Sound
    PROVE  reading \in Int /\ \A s \in Slots : job[s] \in Job /\ Fits(pc[s], job[s])
  BY DEF Sound, Typed, Stores, Locals, NoRead

\* A request that is dropped or answered leaves the bounds as they are.
LEMMA FinishBounds ==
    ASSUME Sound, Accounted', NEW s \in Slots, pc[s] # "sync", Finish(s),
           UNCHANGED <<balance, ledger, reading>>
    PROVE  Bounds'
  <1>1. Turn(s, "idle", NoJob)
    BY FinishTurns DEF Sound
  <1>2. Syncing' = Syncing
    BY <1>1, SyncingTurns
  <1>3. ~Commits("idle", NoJob) /\ ~Decides("idle", NoJob) /\ s \notin Ahead'
    BY <1>1 DEF Commits, Decides, Ahead, Turn
  <1> QED
    BY <1>1, <1>2, <1>3, ReadingTyped, StillTurns DEF Sound, Bounds

\* One that waits for the next answer may wait ahead only if it did before.
LEMMA AwaitBounds ==
    ASSUME Sound, Accounted', NEW s \in Slots, pc[s] # "sync",
           NEW label \in {"pay", "insert", "refund"}, Await(s, label),
           UNCHANGED <<balance, ledger, reading>>,
           Commits(label, job[s]) => Commits(pc[s], job[s])
    PROVE  Bounds'
  <1>1. Turn(s, label, job[s])
    BY AwaitTurns DEF Sound
  <1>2. Syncing' = Syncing
    BY <1>1, SyncingTurns
  <1>3. ~Decides(label, job[s]) /\ s \notin Ahead'
    BY <1>1 DEF Decides, Ahead, Turn
  <1> QED
    BY <1>1, <1>2, <1>3, ReadingTyped, StillTurns DEF Sound, Bounds

\* A purchase that has read the fleet still has to be decided.
LEMMA ReadFleetBounds ==
    ASSUME Sound, Accounted', NEW s \in Slots, ReadFleet(s)
    PROVE  Bounds'
  <1>1. PICK tails \in SUBSET owned : GoOn(s, "ledger", [job[s] EXCEPT !.tails = tails])
    BY DEF ReadFleet
  <1> DEFINE j == [job[s] EXCEPT !.tails = tails]
  <1>2. j.kind = job[s].kind /\ j.balance = job[s].balance /\ j.ledger = job[s].ledger
    BY ReadingTyped DEF Job
  <1>3. Turn(s, "ledger", j)
    BY <1>1, GoOnTurns DEF Sound
  <1> HIDE DEF j
  <1>4. pc[s] = "fleet" /\ UNCHANGED <<balance, ledger, reading>>
    BY DEF ReadFleet, stores, shared
  <1>5. Syncing' = Syncing
    BY <1>3, <1>4, SyncingTurns
  <1>6. /\ ~Commits("ledger", j)
        /\ Decides("ledger", j) => Decides(pc[s], job[s])
        /\ SeesAt("ledger", j) = SeesAt(pc[s], job[s])
        /\ s \in Ahead
    BY <1>2, <1>4 DEF Commits, Decides, SeesAt, Ahead
  <1> QED
    BY <1>3, <1>4, <1>5, <1>6, ReadingTyped, StillTurns DEF Sound, Bounds

\* A purchase is decided with the ledger it reads; a hub goes on to list the hubs.
LEMMA ReadLedgerBounds ==
    ASSUME Sound, Accounted', NEW s \in Slots, ReadLedger(s)
    PROVE  Bounds'
  <1> DEFINE j == [job[s] EXCEPT !.ledger = ledger]
  <1>1. /\ j.kind = job[s].kind /\ j.balance = job[s].balance /\ j.ledger = ledger
        /\ j.target = job[s].target
    BY ReadingTyped DEF Job
  <1>2. /\ pc[s] = "ledger" /\ UNCHANGED <<balance, ledger, reading>>
        /\ j.kind \in {"purchase", "hub", "close", "analysis"}
    BY <1>1, ReadingTyped DEF ReadLedger, stores, shared, Fits
  <1>3. \/ Finish(s)
        \/ j.kind = "purchase" /\ CanPurchase(j) /\ GoOn(s, "charge", j)
        \/ j.kind = "hub" /\ GoOn(s, "list hubs", j)
        \/ j.kind = "close" /\ GoOn(s, "remove hub", j)
        \/ j.kind = "analysis" /\ GoOn(s, "analyse", j)
    BY <1>2 DEF ReadLedger
  <1> HIDE DEF j
  <1>4. CASE Finish(s)
    BY <1>2, <1>4, FinishBounds
  <1>5. CASE j.kind = "purchase" /\ CanPurchase(j) /\ GoOn(s, "charge", j)
    <2>1. Turn(s, "charge", j)
      BY <1>5, GoOnTurns DEF Sound
    <2>2. Syncing' = Syncing
      BY <1>2, <2>1, SyncingTurns
    <2>3. Decides(pc[s], job[s]) /\ Commits("charge", j) /\ s \in Ahead
      BY <1>1, <1>2, <1>5 DEF Decides, Commits, Ahead
    <2>4. Cost(j) <= SeesAt(pc[s], job[s])
      <3>1. Cost(j) = Price
        BY <1>5 DEF Cost
      <3>2. Available(j) = SeesAt(pc[s], job[s])
        BY <1>1, <1>2 DEF Available, SeesAt
      <3>3. SeesAt(pc[s], job[s]) \in Int
        BY DEF Sound, Accounted, Seen
      <3> QED
        BY <1>5, <3>1, <3>2, <3>3, BalanceAssumption DEF CanPurchase
    <2> QED
      BY <1>2, <2>1, <2>2, <2>3, <2>4, ReadingTyped, StillDecides DEF Sound, Bounds
  <1>6. CASE j.kind = "hub" /\ GoOn(s, "list hubs", j)
    <2>1. Turn(s, "list hubs", j)
      BY <1>6, GoOnTurns DEF Sound
    <2>2. Syncing' = Syncing
      BY <1>2, <2>1, SyncingTurns
    <2>3. /\ Decides(pc[s], job[s]) /\ ~Commits("list hubs", j) /\ s \in Ahead
          /\ SeesAt("list hubs", j) = SeesAt(pc[s], job[s])
      BY <1>1, <1>2, <1>6 DEF Decides, Commits, Ahead, SeesAt
    <2> QED
      BY <1>2, <2>1, <2>2, <2>3, ReadingTyped, StillTurns DEF Sound, Bounds
  <1>7. ASSUME NEW label \in {"remove hub", "analyse"}, GoOn(s, label, j)
        PROVE  Bounds'
    <2>1. Turn(s, label, j)
      BY <1>7, GoOnTurns DEF Sound
    <2>2. Syncing' = Syncing
      BY <1>2, <2>1, SyncingTurns
    <2>3. ~Decides(label, j) /\ ~Commits(label, j) /\ s \in Ahead
      BY <1>2 DEF Decides, Commits, Ahead
    <2> QED
      BY <1>2, <2>1, <2>2, <2>3, ReadingTyped, StillTurns DEF Sound, Bounds
  <1> QED
    BY <1>3, <1>4, <1>5, <1>6, <1>7

\* A hub is decided where the hubs are listed and stays to be paid once it is added;
\* closing one costs nothing.
LEMMA HubsBounds ==
    ASSUME Sound, Accounted', NEW s \in Slots, ListHubs(s) \/ AddHub(s) \/ RemoveHub(s)
    PROVE  Bounds'
  <1>1. UNCHANGED <<balance, ledger, reading>> /\ pc[s] # "sync"
    BY DEF ListHubs, AddHub, RemoveHub, stores, shared
  <1>2. CASE Finish(s)
    BY <1>1, <1>2, FinishBounds
  <1>3. CASE AddHub(s)
    <2>1. Commits(pc[s], job[s]) /\ Await(s, "pay")
      BY <1>3, ReadingTyped DEF AddHub, Commits, Fits
    <2> QED
      BY <1>1, <2>1, AwaitBounds
  <1>4. CASE ListHubs(s) /\ ~Finish(s)
    <2>1. /\ pc[s] = "list hubs" /\ Await(s, "add hub")
          /\ job[s].target \in Airports /\ job[s].kind = "hub"
          /\ ~(Available(job[s]) < HubFee[job[s].target])
      BY <1>4, ReadingTyped DEF ListHubs, Fits
    <2>2. Turn(s, "add hub", job[s])
      BY <2>1, AwaitTurns DEF Sound
    <2>3. Syncing' = Syncing
      BY <2>1, <2>2, SyncingTurns
    <2>4. Decides(pc[s], job[s]) /\ Commits("add hub", job[s]) /\ s \notin Ahead'
      BY <2>1, <2>2 DEF Decides, Commits, Ahead, Turn
    <2>5. Cost(job[s]) <= SeesAt(pc[s], job[s])
      <3>1. Cost(job[s]) = HubFee[job[s].target] /\ HubFee[job[s].target] \in Nat
        BY <2>1, BalanceAssumption DEF Cost
      <3>2. Available(job[s]) = SeesAt(pc[s], job[s])
        BY <2>1 DEF Available, SeesAt
      <3>3. SeesAt(pc[s], job[s]) \in Int
        BY DEF Sound, Accounted, Seen
      <3> DEFINE fee == HubFee[job[s].target]
                 sees == SeesAt(pc[s], job[s])
      <3>4. ~(sees < fee)
        BY <2>1, <3>2, Zenon
      <3>5. sees \in Int /\ fee \in Int
        BY <3>1, <3>3
      <3>6. sees >= fee
        <4> HIDE DEF sees, fee
        <4> QED
          BY <3>4, <3>5
      <3> QED
        BY <3>1, <3>6
    <2> QED
      BY <1>1, <2>2, <2>3, <2>4, <2>5, ReadingTyped, StillDecides DEF Sound, Bounds
  <1> QED
    BY <1>2, <1>3, <1>4 DEF RemoveHub

\* An analysis decides nothing.
LEMMA AnalyseBounds ==
    ASSUME Sound, Accounted', NEW s \in Slots, AnalyseRoutePrice(s)
    PROVE  Bounds'
  <1>1. /\ UNCHANGED <<balance, ledger, reading>> /\ pc[s] # "sync"
        /\ job[s].kind = "analysis"
        /\ Finish(s) \/ Await(s, "pay")
    BY ReadingTyped DEF AnalyseRoutePrice, stores, shared, Fits
  <1>2. ~Commits("pay", job[s])
    BY <1>1 DEF Commits
  <1> QED
    BY <1>1, <1>2, FinishBounds, AwaitBounds

\* An aircraft that is bought, or has to be refunded, was charged before.
LEMMA InsertAircraftBounds ==
    ASSUME Sound, Accounted', NEW s \in Slots, InsertAircraft(s)
    PROVE  Bounds'
  <1>1. /\ UNCHANGED <<balance, ledger, reading>> /\ pc[s] # "sync"
        /\ Finish(s) \/ Await(s, "refund")
    BY DEF InsertAircraft, Compensate, shared
  <1>2. ~Commits("refund", job[s])
    BY DEF Commits
  <1> QED
    BY <1>1, <1>2, FinishBounds, AwaitBounds

\* A turn that moves money and decides nothing.
LEMMA TurnBounds ==
    ASSUME Sound, Accounted', NEW s \in Slots, NEW label, NEW j, Turn(s, label, j),
           ~Decides(label, j), ~Commits(label, j), label \notin {"fleet", "ledger", "charge"},
           reading' = reading,
           NEW v \in Int, NEW d \in Int, d <= v, Worth' >= Worth + v,
           SumLedger(ledger') = SumLedger(ledger) + d,
           NEW c \in Nat, c = (IF Commits(pc[s], job[s]) THEN Cost(job[s]) ELSE 0), v + c >= 0
    PROVE  Bounds'
  <1>1. /\ Worth \in Int /\ Worth' \in Int /\ Left \in Int /\ Left' \in Int
        /\ SumLedger(ledger) \in Int
    BY DEF Sound, Accounted
  <1>2. Reserved \in Int /\ Reserved' \in Int
    BY DEF Sound, Accounted
  <1>3. Reserved' = Reserved - c
    <2>1. Reserved' = Reserved - (IF Commits(pc[s], job[s]) THEN Cost(job[s]) ELSE 0)
                               + (IF Commits(label, j) THEN Cost(j) ELSE 0)
      BY ReservedTurns DEF Sound
    <2>2. Reserved' = Reserved - c + 0
      BY <2>1
    <2> QED
      BY <1>2, <2>2
  <1>4. Left' >= Left + v + c
    BY <1>1, <1>2, <1>3 DEF Left
  <1>5. Left' >= Left /\ SumLedger(ledger') - Left' <= SumLedger(ledger) - Left
    BY <1>1, <1>4
  <1>6. SumLedger(ledger') - Worth' <= SumLedger(ledger) - Worth
    BY <1>1
  <1>7. FloorHolds'
    BY <1>5, FloorTurns DEF Sound
  <1>8. Ahead' \subseteq Ahead
    BY DEF Ahead, Turn
  <1> QED
    BY <1>6, <1>7, <1>8, ReadingTyped, HeardKept DEF Sound, Bounds

\* r still knows, or will read, the same ledger.
StillSees(r) == job'[r] = job[r] /\ (pc'[r] = "list hubs" <=> pc[r] = "list hubs")

\* Steps of all requests, or of none.
LEMMA FloorSpreads ==
    ASSUME Accounted, Accounted', FloorHolds, Undecided' \subseteq Undecided,
           \A r \in Undecided' : StillSees(r),
           Left' >= Left, SumLedger(ledger') - Left' <= SumLedger(ledger) - Left
    PROVE  FloorHolds'
  <1>1. ASSUME NEW r \in Undecided' PROVE Seen'[r] - Left' <= Seen[r] - Left
    <2>1. r \in Slots
      BY DEF Undecided
    <2>2. /\ Left \in Int /\ Left' \in Int /\ Seen[r] \in Int /\ Seen'[r] \in Int
          /\ SumLedger(ledger) \in Int /\ SumLedger(ledger') \in Int
          /\ job[r].balance \in Int
      BY <2>1 DEF Accounted
    <2>3. CASE pc[r] = "list hubs"
      <3>1. Seen'[r] = Seen[r]
        BY <2>1, <2>3 DEF Seen, SeesAt, StillSees
      <3> QED
        BY <2>2, <3>1
    <2>4. CASE pc[r] # "list hubs"
      <3>1. /\ Seen[r] = job[r].balance + SumLedger(ledger)
            /\ Seen'[r] = job[r].balance + SumLedger(ledger')
        BY <2>1, <2>4 DEF Seen, SeesAt, StillSees
      <3> QED
        BY <2>2, <3>1
    <2> QED
      BY <2>3, <2>4
  <1>2. /\ Undecided \in SUBSET Slots /\ Left \in Int /\ Seen \in [Slots -> Int]
        /\ Left' \in Int /\ Seen' \in [Slots -> Int] /\ Undecided' \in SUBSET Undecided
    BY DEF Accounted
  <1>3. Floor(Undecided', Left', Seen')
    BY <1>1, <1>2, FloorKept DEF FloorHolds
  <1> QED
    BY <1>3 DEF FloorHolds

\* What a request is told, with the ledger, is no more than what there is and
\* what the answer on its way may have missed.
LEMMA CoalescedBound ==
    ASSUME Sound
    PROVE  /\ Coalesced + SumLedger(ledger) <=
                 Worth + Price * (Cardinality(Slots) - Cardinality(Ahead))
           /\ Coalesced + SumLedger(ledger) <= Worth + Unseen
           /\ Coalesced \in Int
  <1> DEFINE n == Cardinality(Slots)
             k == Cardinality(Ahead)
  <1>1. Coalesced + SumLedger(ledger) <= Worth + Price * (n - k)
    <2>1. CASE reading = NoRead
      BY <2>1, HeardFresh DEF Sound, Coalesced
    <2>2. CASE reading # NoRead
      BY <2>2 DEF Sound, Heard, Coalesced
    <2> QED
      BY <2>1, <2>2
  <1>2. n \in Nat /\ k \in 0 .. n /\ Price \in Nat
    BY SlotsCounted, BalanceAssumption DEF Sound, Accounted
  <1>3. Unseen = n * Price
    BY DEF Unseen
  <1>4. Coalesced \in Int /\ SumLedger(ledger) \in Int /\ Worth \in Int
    BY CoalescedTyped DEF Sound, Accounted
  <1> HIDE DEF n, k
  <1>5. Price * (n - k) <= n * Price /\ Price * (n - k) \in Int /\ n * Price \in Int
    <2>1. n * Price = Price * (n - k) + Price * k
      BY <1>2
    <2>2. Price * k \in Nat /\ Price * (n - k) \in Int
      BY <1>2
    <2> QED
      BY <2>1, <2>2
  <1>6. Coalesced + SumLedger(ledger) <= Worth + n * Price
    BY <1>1, <1>4, <1>5
  <1> QED
    BY <1>1, <1>3, <1>4, <1>6 DEF n, k

\* A request begins with the balance of the one answer the requests share.
LEMMA BeginBounds ==
    ASSUME Sound, Accounted', NEW s \in Slots, Begin(s)
    PROVE  Bounds'
  <1>1. PICK kind \in {"purchase", "hub", "close", "analysis"} : \E target \in Targets(kind) :
           GoOn(s, "airline", Request(kind, served + 1, target, Coalesced, {}))
    BY DEF Begin
  <1>2. PICK target \in Targets(kind) :
           GoOn(s, "airline", Request(kind, served + 1, target, Coalesced, {}))
    BY <1>1
  <1> DEFINE j == Request(kind, served + 1, target, Coalesced, {})
  <1>3. Turn(s, "airline", j) /\ j.balance = Coalesced
    BY <1>2, GoOnTurns DEF Sound, Request
  <1> HIDE DEF j
  <1>4. pc[s] = "idle" /\ UNCHANGED <<balance, ledger>> /\ reading' = Coalesced
    BY DEF Begin, stores
  <1>5. Syncing' = Syncing
    BY <1>3, <1>4, SyncingTurns
  <1>6. Worth' = Worth /\ SumLedger(ledger') = SumLedger(ledger)
    BY <1>4, <1>5 DEF Worth
  <1>7. ~Commits(pc[s], job[s]) /\ ~Commits("airline", j) /\ s \notin Undecided
    BY <1>4 DEF Commits, Undecided, Decides
  <1>8. Reserved' = Reserved /\ Reserved \in Int
    <2>1. Reserved' = Reserved - (IF Commits(pc[s], job[s]) THEN Cost(job[s]) ELSE 0)
                               + (IF Commits("airline", j) THEN Cost(j) ELSE 0)
      BY <1>3, ReservedTurns DEF Sound
    <2>2. Reserved' = Reserved - 0 + 0
      BY <1>7, <2>1
    <2>3. Reserved \in Int
      BY DEF Sound, Accounted
    <2> QED
      BY <2>2, <2>3
  <1>9. /\ Left' = Left /\ Left \in Int /\ Worth \in Int /\ Worth - Left = Reserved
        /\ SumLedger(ledger) \in Int
    <2>1. Left' = Left /\ Left \in Int /\ Worth \in Int /\ SumLedger(ledger) \in Int
      BY <1>6, <1>8 DEF Left, Sound, Accounted
    <2>2. Left = Worth - Reserved
      BY DEF Left
    <2> QED
      BY <1>8, <2>1, <2>2
  <1>10. Heard'
    <2>1. Ahead' = Ahead
      BY <1>3, <1>4 DEF Ahead, Turn
    <2> QED
      BY <1>4, <1>6, <2>1, CoalescedBound DEF Heard
  <1>11. CASE ~Decides("airline", j)
    <2>1. FloorHolds'
      BY <1>3, <1>6, <1>9, <1>11, FloorTurns DEF Sound
    <2> QED
      BY <1>10, <2>1 DEF Bounds
  <1>12. CASE Decides("airline", j)
    <2>1. Undecided' = Undecided \cup {s}
      BY <1>3, <1>12 DEF Undecided, Turn
    <2>2. \A r \in Undecided : Seen'[r] = Seen[r]
      BY <1>3, <1>6, <1>7 DEF Undecided, Seen, SeesAt, Turn
    <2>3. Seen'[s] = Coalesced + SumLedger(ledger)
      BY <1>3, <1>6 DEF Seen, SeesAt, Turn
    <2>4. Committed \in SUBSET Slots /\ Committed \cap (Undecided \cup {s}) = {}
      BY <1>7 DEF Committed, Undecided, Commits, Decides
    <2>5. Seen'[s] - Left - Unseen <= Cardinality(Committed) * Dearest
      <3> DEFINE m == Cardinality(Committed) * Dearest
      <3>1. Reserved \in 0 .. m
        BY DEF Sound, Accounted
      <3>2. Cardinality(Committed) \in Nat /\ Dearest \in Nat
        <4>1. Committed \subseteq Slots
          BY <2>4
        <4> QED
          BY <4>1, Counted, DearestIsLargest
      <3>3. m \in Int
        BY <3>2
      <3> HIDE DEF m
      <3>4. Reserved <= m
        BY <3>1, <3>3
      <3>5. Coalesced \in Int /\ Coalesced + SumLedger(ledger) <= Worth + Unseen
        BY CoalescedBound
      <3>6. Seen'[s] <= Worth + Unseen /\ Seen'[s] \in Int
        BY <1>9, <2>3, <3>5
      <3>7. Seen'[s] - Left - Unseen <= m
        BY <1>8, <1>9, <3>3, <3>4, <3>6, SlotsCounted
      <3> QED
        BY <3>7 DEF m
    <2>6. Undecided \in SUBSET Slots /\ Seen \in [Slots -> Int] /\ Seen' \in [Slots -> Int]
      BY DEF Sound, Accounted
    <2>7. Floor(Undecided \cup {s}, Left, Seen')
      BY <1>7, <1>9, <2>2, <2>4, <2>5, <2>6, FloorBegun DEF Sound, FloorHolds
    <2>8. FloorHolds'
      BY <1>9, <2>1, <2>7 DEF FloorHolds
    <2> QED
      BY <1>10, <2>8 DEF Bounds
  <1> QED
    BY <1>11, <1>12

\* A charge leaves the books and the reserve alike, and the slot is no longer
\* ahead: the answer on its way may show the money that is gone.
LEMMA PaidBounds ==
    ASSUME Sound, Accounted', NEW s \in Slots, pc[s] = "charge",
           Finish(s) \/ Await(s, "insert"),
           balance' = balance - Price, UNCHANGED <<ledger, reading>>
    PROVE  Bounds'
  <1>1. PICK label \in {"idle", "insert"} : \E j : Turn(s, label, j)
    BY FinishTurns, AwaitTurns DEF Sound
  <1>2. PICK j : Turn(s, label, j)
    BY <1>1
  <1>3. Syncing' = Syncing
    BY <1>2, SyncingTurns
  <1>4. Price \in Nat /\ balance \in Int
    BY BalanceAssumption DEF Sound, Accounted
  <1>5. Worth' = Worth - Price
    <2>1. Total(Values(Syncing), ledger) \in Int
      BY DEF Sound, Accounted
    <2> QED
      BY <1>3, <1>4, <2>1 DEF Worth
  <1>6. Commits(pc[s], job[s]) /\ Cost(job[s]) = Price
    BY ReadingTyped DEF Commits, Fits, Cost
  <1>7. ~Commits(label, j)
    BY <1>1 DEF Commits
  <1>8. Reserved' = Reserved - Price + 0
    <2>1. Reserved' = Reserved - (IF Commits(pc[s], job[s]) THEN Cost(job[s]) ELSE 0)
                               + (IF Commits(label, j) THEN Cost(j) ELSE 0)
      BY <1>2, ReservedTurns DEF Sound
    <2> QED
      BY <1>6, <1>7, <2>1
  <1>9. /\ Worth \in Int /\ Reserved \in Int /\ SumLedger(ledger) \in Int /\ Left \in Int
        /\ reading \in Int
    BY ReadingTyped DEF Sound, Accounted
  <1>10. Left' = Left /\ SumLedger(ledger') = SumLedger(ledger)
    BY <1>4, <1>5, <1>8, <1>9 DEF Left
  <1>11. FloorHolds'
    <2>1. ~Decides(label, j)
      BY <1>1 DEF Decides
    <2> QED
      BY <1>2, <1>9, <1>10, <2>1, FloorTurns DEF Sound
  <1>12. Heard'
    <2> SUFFICES ASSUME reading # NoRead
                 PROVE  reading + SumLedger(ledger) <=
                           Worth' + Price * (Cardinality(Slots) - Cardinality(Ahead'))
      BY DEF Heard
    <2>1. Ahead' = Ahead \ {s} /\ s \in Ahead /\ Ahead \subseteq Slots
      BY <1>2 DEF Ahead, Turn
    <2>2. Cardinality(Ahead') = Cardinality(Ahead) - 1
      <3>1. IsFiniteSet(Ahead)
        BY <2>1, Counted
      <3> QED
        BY <2>1, <3>1, FS_RemoveElement
    <2> DEFINE n == Cardinality(Slots)
               k == Cardinality(Ahead)
    <2>3. n \in Nat /\ k \in Nat
      BY <2>1, SlotsCounted, Counted
    <2>4. reading + SumLedger(ledger) <= Worth + Price * (n - k)
      BY DEF Sound, Heard
    <2>5. Price * (n - (k - 1)) = Price * (n - k) + Price /\ Price * (n - k) \in Int
      <3> HIDE DEF n, k
      <3>1. n - (k - 1) = (n - k) + 1 /\ n - k \in Int
        BY <2>3
      <3>2. \A p, x \in Int : p * (x + 1) = p * x + p /\ p * x \in Int
        OBVIOUS
      <3> QED
        BY <1>4, <3>1, <3>2
    <2>6. reading + SumLedger(ledger) <= Worth' + Price * (n - (k - 1))
      <3> HIDE DEF n, k
      <3> QED
        BY <1>4, <1>5, <1>9, <2>4, <2>5
    <2> QED
      BY <2>2, <2>6
  <1> QED
    BY <1>11, <1>12 DEF Bounds

\* A charge takes from the balance what the purchase had reserved.
LEMMA ChargeBounds ==
    ASSUME Sound, Accounted', NEW s \in Slots, Charge(s)
    PROVE  Bounds'
  <1>1. pc[s] = "charge" /\ UNCHANGED <<ledger, reading>>
    BY DEF Charge, shared
  <1>2. CASE Finish(s) /\ UNCHANGED balance
    BY <1>1, <1>2, FinishBounds
  <1>3. CASE AdjustBalance(-Price) /\ (Finish(s) \/ Await(s, "insert"))
    <2>1. balance' = balance - Price
      <3>1. balance' = balance + (-Price)
        BY <1>3 DEF AdjustBalance
      <3>2. balance \in Int /\ Price \in Int
        BY BalanceAssumption DEF Sound, Accounted
      <3> QED
        BY <3>1, <3>2
    <2> QED
      BY <1>1, <1>3, <2>1, PaidBounds
  <1> QED
    BY <1>2, <1>3 DEF Charge

\* A refund gives the price back.
LEMMA RefundBounds ==
    ASSUME Sound, Accounted', NEW s \in Slots, Refund(s)
    PROVE  Bounds'
  <1>1. Turn(s, "idle", NoJob) /\ pc[s] = "refund" /\ UNCHANGED <<ledger, reading>>
    BY FinishTurns DEF Sound, Refund, shared
  <1>2. Syncing' = Syncing
    BY <1>1, SyncingTurns
  <1>3. balance' >= balance
    <2>1. balance \in Int /\ Price \in Nat
      BY BalanceAssumption DEF Sound, Accounted
    <2> QED
      BY <2>1 DEF Refund, AdjustBalance
  <1>4. Worth' >= Worth + 0 /\ SumLedger(ledger') = SumLedger(ledger) + 0
    <2>1. /\ Total(Values(Syncing), ledger) \in Int /\ balance \in Int /\ balance' \in Int
          /\ SumLedger(ledger) \in Int
      BY DEF Sound, Accounted
    <2> QED
      BY <1>1, <1>2, <1>3, <2>1 DEF Worth
  <1>5. /\ ~Commits(pc[s], job[s]) /\ ~Decides("idle", NoJob) /\ ~Commits("idle", NoJob)
    BY <1>1 DEF Commits, Decides
  <1>6. 0 \in Nat /\ 0 \in Int /\ 0 <= 0 /\ 0 + 0 >= 0
    OBVIOUS
  <1>7. 0 = IF Commits(pc[s], job[s]) THEN Cost(job[s]) ELSE 0
    BY <1>5
  <1>8. "idle" \notin {"fleet", "ledger", "charge"} /\ reading' = reading
    BY <1>1
  <1> QED
    BY <1>1, <1>4, <1>5, <1>6, <1>7, <1>8, TurnBounds

\* A fee takes from the ledger what the hub had reserved; that of an analysis goes
\* unchecked.
LEMMA PayFeeBounds ==
    ASSUME Sound, Accounted', NEW s \in Slots, PayFee(s)
    PROVE  Bounds'
  <1> DEFINE e == FeeTransaction(job[s])
             c == IF Commits(pc[s], job[s]) THEN Cost(job[s]) ELSE 0
  <1>1. /\ Turn(s, "idle", NoJob) /\ pc[s] = "pay" /\ UNCHANGED <<balance, reading>>
        /\ SaveLedger(e)
    BY FinishTurns DEF Sound, PayFee, shared
  <1>2. Syncing' = Syncing
    BY <1>1, SyncingTurns
  <1>3. job[s].kind \in {"hub", "analysis"} /\ (job[s].kind = "hub" => job[s].target \in Airports)
        /\ job[s].number \in 1 .. MaxRequests
    BY <1>1, ReadingTyped DEF Fits
  <1>4. e \in Entry /\ e.kind # "admin-adjustment"
    <2>1. \A f \in {HubFee[a] : a \in Airports} \cup {AnalysisFee} : -f \in Int
      BY BalanceAssumption
    <2> QED
      BY <1>3, <2>1 DEF FeeTransaction, Entry
  <1>5. c \in Nat /\ e.amount <= 0 /\ Value(e, Syncing) + c >= 0
    <2>1. CASE job[s].kind = "hub"
      <3>1. HubFee[job[s].target] \in Nat
        BY <1>3, <2>1, BalanceAssumption
      <3>2. c = HubFee[job[s].target]
        BY <1>1, <2>1 DEF Commits, Cost
      <3>3. e.kind = "hub-fee" /\ e.amount = -HubFee[job[s].target]
        BY <2>1 DEF FeeTransaction
      <3>4. Value(e, Syncing) = e.amount
        BY <3>3 DEF Value
      <3> DEFINE fee == HubFee[job[s].target]
      <3>5. fee \in Nat /\ c = fee /\ e.amount = -fee
        BY <3>1, <3>2, <3>3
      <3> HIDE DEF fee, c, e
      <3> QED
        BY <3>4, <3>5
    <2>2. CASE job[s].kind = "analysis"
      <3>1. e.kind = "price-analysis" /\ e.amount = -AnalysisFee
        BY <2>2 DEF FeeTransaction
      <3>2. c = 0
        BY <1>1, <2>2 DEF Commits
      <3> HIDE DEF e, c
      <3>3. e.amount <= 0 /\ e.amount \in Int
        BY <3>1, BalanceAssumption
      <3>4. Value(e, Syncing) = 0
        BY <3>1, <3>3 DEF Value
      <3> QED
        BY <3>2, <3>3, <3>4
    <2> QED
      BY <1>3, <2>1, <2>2
  <1>6. /\ ~Decides("idle", NoJob) /\ ~Commits("idle", NoJob)
        /\ "idle" \notin {"fleet", "ledger", "charge"} /\ reading' = reading
    BY <1>1 DEF Commits, Decides
  <1>7. /\ Total(Values(Syncing), ledger) \in Int /\ balance \in Int
        /\ SumLedger(ledger) \in Int /\ Worth \in Int
    BY DEF Sound, Accounted
  <1>8. Value(e, Syncing) \in Int /\ e.amount \in Int /\ e.amount <= Value(e, Syncing)
    <2> HIDE DEF e
    <2> QED
      BY <1>4, ValueTyped
  <1> HIDE DEF e, c
  <1>9. CASE ledger' = ledger
    <2>1. Worth' >= Worth + 0 /\ SumLedger(ledger') = SumLedger(ledger) + 0
      BY <1>1, <1>2, <1>7, <1>9 DEF Worth
    <2>2. 0 \in Int /\ 0 <= 0 /\ 0 + c >= 0
      BY <1>5
    <2> QED
      BY <1>1, <1>5, <1>6, <2>1, <2>2, TurnBounds DEF c
  <1>10. CASE ledger' = ledger \cup {e} /\ e \notin ledger
    <2>1. \A f \in ledger : Value(f, Syncing') = Value(f, Syncing)
      BY <1>2
    <2>2. /\ Total(Values(Syncing'), ledger') = Total(Values(Syncing), ledger) + Value(e, Syncing')
          /\ SumLedger(ledger') = SumLedger(ledger) + e.amount
      BY <1>4, <1>10, <2>1, WorthSaves DEF Sound
    <2>3. Worth' >= Worth + Value(e, Syncing)
      BY <1>1, <1>2, <1>7, <1>8, <2>2 DEF Worth
    <2> QED
      BY <1>1, <1>5, <1>6, <1>8, <2>2, <2>3, TurnBounds DEF c
  <1> QED
    BY <1>1, <1>9, <1>10, SaveLedgerCases

\* An adjustment is booked before the balance follows.
LEMMA SaveAdjustmentBounds ==
    ASSUME Sound, Accounted', NEW s \in Slots, SaveAdjustment(s), Typed'
    PROVE  Bounds'
  <1>1. PICK j \in Job : j.kind = "credit" /\ Turn(s, "sync", j)
    BY BooksAdjust DEF Sound
  <1> DEFINE e == Adjustment(job'[s])
  <1>2. /\ e \notin ledger /\ ledger' = ledger \cup {e} /\ job'[s] = j
        /\ job'[s].number = served + 1
        /\ e.kind = "admin-adjustment" /\ e.ref = served + 1
    BY <1>1, BooksAdjust DEF Sound, Turn, Adjustment
  <1>3. pc[s] = "idle" /\ UNCHANGED <<balance, reading>> /\ served \in Nat
    BY BalanceAssumption DEF SaveAdjustment, shared, Sound, Typed, Stores
  <1>4. Syncing' = Syncing \cup {served + 1}
    <2>1. {r \in Slots : pc'[r] = "sync"} = {r \in Slots : pc[r] = "sync"} \cup {s}
      BY <1>1 DEF Turn
    <2>2. \A r \in {q \in Slots : pc[q] = "sync"} : job'[r] = job[r]
      BY <1>1, <1>3 DEF Turn
    <2> QED
      BY <1>2, <2>1, <2>2 DEF Syncing
  <1> HIDE DEF e
  <1>5. e \in Entry
    BY <1>2 DEF Typed, Stores
  <1>6. \A f \in ledger : Value(f, Syncing') = Value(f, Syncing)
    <2>1. \A f \in ledger : f.kind = "admin-adjustment" => f.ref # served + 1
      BY <1>3 DEF Sound, Books
    <2> QED
      BY <1>4, <2>1 DEF Value
  <1>7. /\ Total(Values(Syncing'), ledger') = Total(Values(Syncing), ledger) + Value(e, Syncing')
        /\ SumLedger(ledger') = SumLedger(ledger) + e.amount
    BY <1>2, <1>5, <1>6, WorthSaves DEF Sound
  <1>8. e.amount \in Int /\ Value(e, Syncing') \in Int /\ e.amount <= Value(e, Syncing')
    BY <1>5, ValueTyped
  <1>9. Value(e, Syncing') >= 0
    <2>1. Value(e, Syncing') = IF e.amount >= 0 THEN e.amount ELSE 0
      BY <1>2, <1>4 DEF Value
    <2> QED
      BY <1>8, <2>1
  <1>10. Worth' >= Worth + Value(e, Syncing')
    <2>1. Total(Values(Syncing), ledger) \in Int /\ balance \in Int
      BY DEF Sound, Accounted
    <2> QED
      BY <1>3, <1>7, <1>8, <2>1 DEF Worth
  <1>11. /\ ~Decides("sync", j) /\ ~Commits("sync", j)
         /\ "sync" \notin {"fleet", "ledger", "charge"} /\ reading' = reading
         /\ ~Commits(pc[s], job[s])
    BY <1>3 DEF Commits, Decides
  <1>12. /\ 0 = IF Commits(pc[s], job[s]) THEN Cost(job[s]) ELSE 0
         /\ 0 \in Nat /\ Value(e, Syncing') + 0 >= 0
    BY <1>8, <1>9, <1>11
  <1> QED
    BY <1>1, <1>7, <1>8, <1>10, <1>11, <1>12, TurnBounds

\* The balance follows an adjustment, or the call fails and it never does.
LEMMA SyncBalanceBounds ==
    ASSUME Sound, Accounted', NEW s \in Slots, SyncBalance(s)
    PROVE  Bounds'
  <1> DEFINE e == Adjustment(job[s])
             amount == job[s].target
  <1>1. Turn(s, "idle", NoJob) /\ pc[s] = "sync" /\ UNCHANGED <<ledger, reading>>
    BY FinishTurns DEF Sound, SyncBalance, shared
  <1>2. /\ e \in ledger /\ e \in Entry /\ amount \in Int
        /\ e.kind = "admin-adjustment" /\ e.ref = job[s].number /\ e.amount = amount
    <2>1. e \in ledger /\ e \in Entry
      BY <1>1 DEF Sound, Books, Typed, Stores
    <2>2. amount \in Int
      BY <1>1, ReadingTyped, BalanceAssumption DEF Fits
    <2> QED
      BY <2>1, <2>2 DEF Adjustment
  <1>3. Syncing' \subseteq Syncing \ {job[s].number} /\ job[s].number \in Syncing
    <2>1. \A r \in Slots : pc'[r] = "sync" => r # s /\ pc[r] = "sync" /\ job'[r] = job[r]
      BY <1>1 DEF Turn
    <2>2. \A r \in Slots : pc'[r] = "sync" => job[r].number # job[s].number
      BY <1>1, <2>1 DEF Sound, Books
    <2> QED
      BY <1>1, <2>1, <2>2 DEF Syncing
  <1> DEFINE gain == Value(e, Syncing') - Value(e, Syncing)
  <1>4. /\ Value(e, Syncing) = IF amount >= 0 THEN amount ELSE 0
        /\ Value(e, Syncing') = IF amount >= 0 THEN amount ELSE -amount
    <2> HIDE DEF e, amount
    <2> QED
      BY <1>2, <1>3 DEF Value
  <1>5. gain = IF amount >= 0 THEN 0 ELSE -amount
    <2> HIDE DEF e, amount
    <2> QED
      BY <1>2, <1>4
  <1>6. gain \in Int
    <2> HIDE DEF amount, gain
    <2> QED
      BY <1>2, <1>5
  <1>7. Total(Values(Syncing'), ledger') >= Total(Values(Syncing), ledger) + gain
    <2>1. Syncing' \subseteq Syncing
      BY <1>3
    <2> HIDE DEF e
    <2> QED
      BY <1>1, <1>2, <1>6, <2>1, WorthSettles DEF Sound
  <1>8. balance' = balance \/ balance' = balance + amount
    BY DEF SyncBalance, AdjustBalance
  <1>9. Worth' >= Worth + 0 /\ SumLedger(ledger') = SumLedger(ledger) + 0
    <2>1. /\ Total(Values(Syncing), ledger) \in Int /\ balance \in Int /\ balance' \in Int
          /\ Total(Values(Syncing'), ledger') \in Int
          /\ SumLedger(ledger) \in Int
      BY DEF Sound, Accounted
    <2>2. balance' + gain >= balance
      <3> HIDE DEF amount, gain
      <3> QED
        BY <1>2, <1>5, <1>8, <2>1
    <2> DEFINE x == Total(Values(Syncing), ledger)
               y == Total(Values(Syncing'), ledger')
    <2>3. x \in Int /\ y \in Int /\ y >= x + gain /\ Worth = balance + x /\ Worth' = balance' + y
      BY <1>7, <2>1 DEF Worth
    <2> HIDE DEF x, y, gain
    <2> QED
      BY <1>1, <1>6, <2>1, <2>2, <2>3 DEF gain
  <1>10. /\ ~Decides("idle", NoJob) /\ ~Commits("idle", NoJob) /\ ~Commits(pc[s], job[s])
         /\ "idle" \notin {"fleet", "ledger", "charge"} /\ reading' = reading
    BY <1>1 DEF Commits, Decides
  <1>11. /\ 0 = IF Commits(pc[s], job[s]) THEN Cost(job[s]) ELSE 0
         /\ 0 \in Nat /\ 0 \in Int /\ 0 <= 0 /\ 0 + 0 >= 0
    BY <1>10
  <1> QED
    BY <1>1, <1>9, <1>10, <1>11, TurnBounds

\* A step of no single request that leaves the accounts no worse.
LEMMA SpreadBounds ==
    ASSUME Sound, Accounted', Undecided' \subseteq Undecided,
           \A r \in Undecided' : StillSees(r),
           (reading' = reading /\ Ahead' \subseteq Ahead) \/ Heard',
           NEW v \in Nat, NEW d \in Int, d <= v, Worth' >= Worth + v,
           SumLedger(ledger') = SumLedger(ledger) + d, Reserved' <= Reserved
    PROVE  Bounds'
  <1>1. /\ Worth \in Int /\ Worth' \in Int /\ Left \in Int /\ Left' \in Int
        /\ SumLedger(ledger) \in Int /\ Reserved \in Int /\ Reserved' \in Int
    BY DEF Sound, Accounted
  <1>2. Left' >= Left + v
    <2>1. Left = Worth - Reserved /\ Left' = Worth' - Reserved'
      BY DEF Left
    <2>2. \A w, w2, r, r2 \in Int : w2 >= w + v /\ r2 <= r => w2 - r2 >= (w - r) + v
      OBVIOUS
    <2>3. Worth' - Reserved' >= (Worth - Reserved) + v
      BY <1>1, <2>2
    <2> QED
      BY <2>1, <2>3
  <1>3. Left' >= Left /\ SumLedger(ledger') - Left' <= SumLedger(ledger) - Left
    BY <1>1, <1>2
  <1>4. SumLedger(ledger') - Worth' <= SumLedger(ledger) - Worth
    BY <1>1
  <1>5. FloorHolds'
    BY <1>3, FloorSpreads DEF Sound
  <1>6. Heard'
    BY <1>4, ReadingTyped, HeardKept DEF Sound
  <1> QED
    BY <1>5, <1>6 DEF Bounds

\* A flight that was settled adds its result, unchecked when it is a loss.
LEMMA BookFlightBounds ==
    ASSUME Sound, Accounted', BookFlight
    PROVE  Bounds'
  <1>1. PICK f \in Flights :
           SaveLedger([kind |-> "flight", ref |-> f, amount |-> FlightResult[f]])
    BY DEF BookFlight
  <1> DEFINE e == [kind |-> "flight", ref |-> f, amount |-> FlightResult[f]]
  <1>2. e \in Entry /\ SaveLedger(e) /\ e.kind = "flight"
    BY <1>1, BalanceAssumption DEF Entry
  <1> HIDE DEF e
  <1>3. UNCHANGED <<balance, pc, job, reading>>
    BY DEF BookFlight, local, shared
  <1>4. /\ Syncing' = Syncing /\ Undecided' = Undecided /\ Ahead' = Ahead
        /\ Committed' = Committed /\ Costs' = Costs
        /\ \A r \in Undecided' : StillSees(r)
    BY <1>3 DEF Syncing, Undecided, Ahead, Committed, Costs, StillSees
  <1>5. Reserved' <= Reserved
    <2>1. Reserved' = Reserved
      BY <1>4 DEF Reserved
    <2>2. Reserved \in Int
      BY DEF Sound, Accounted
    <2> QED
      BY <2>1, <2>2
  <1>6. /\ Value(e, Syncing) \in Int /\ e.amount \in Int /\ e.amount <= Value(e, Syncing)
    BY <1>2, ValueTyped
  <1>7. Value(e, Syncing) \in Nat
    <2>1. Value(e, Syncing) = IF e.amount >= 0 THEN e.amount ELSE 0
      BY <1>2 DEF Value
    <2> QED
      BY <1>6, <2>1
  <1>8. /\ Total(Values(Syncing), ledger) \in Int /\ balance \in Int
        /\ SumLedger(ledger) \in Int /\ Worth \in Int
    BY DEF Sound, Accounted
  <1>9. CASE ledger' = ledger
    <2>1. Worth' >= Worth + 0 /\ SumLedger(ledger') = SumLedger(ledger) + 0
      BY <1>3, <1>4, <1>8, <1>9 DEF Worth
    <2>2. 0 \in Nat /\ 0 \in Int /\ 0 <= 0
      OBVIOUS
    <2> QED
      BY <1>3, <1>4, <1>5, <2>1, <2>2, SpreadBounds
  <1>10. CASE ledger' = ledger \cup {e} /\ e \notin ledger
    <2>1. \A g \in ledger : Value(g, Syncing') = Value(g, Syncing)
      BY <1>4
    <2>2. /\ Total(Values(Syncing'), ledger') = Total(Values(Syncing), ledger) + Value(e, Syncing')
          /\ SumLedger(ledger') = SumLedger(ledger) + e.amount
      BY <1>2, <1>10, <2>1, WorthSaves DEF Sound
    <2>3. Worth' >= Worth + Value(e, Syncing)
      BY <1>3, <1>4, <1>6, <1>8, <2>2 DEF Worth
    <2> QED
      BY <1>3, <1>4, <1>5, <1>6, <1>7, <2>2, <2>3, SpreadBounds
  <1> QED
    BY <1>2, <1>9, <1>10, SaveLedgerCases

\* Nothing happens to the money.
LEMMA SameBounds ==
    ASSUME Sound, Accounted', UNCHANGED <<balance, ledger, job>>, Syncing' = Syncing,
           Committed' = Committed, Undecided' = Undecided,
           \A r \in Undecided' : StillSees(r),
           (reading' = reading /\ Ahead' \subseteq Ahead) \/ Heard'
    PROVE  Bounds'
  <1>1. Costs' = Costs /\ Reserved' = Reserved /\ Reserved \in Int
    BY DEF Costs, Reserved, Sound, Accounted
  <1>2. /\ Worth' = Worth /\ Worth \in Int
        /\ SumLedger(ledger') = SumLedger(ledger) /\ SumLedger(ledger) \in Int
    BY DEF Worth, Sound, Accounted
  <1>3. /\ Worth' >= Worth + 0 /\ SumLedger(ledger') = SumLedger(ledger) + 0
        /\ Reserved' <= Reserved /\ 0 \in Nat /\ 0 \in Int /\ 0 <= 0
    BY <1>1, <1>2
  <1> QED
    BY <1>3, SpreadBounds

\* A page reads the balance as it is.
LEMMA OpenPageBounds ==
    ASSUME Sound, Accounted', OpenPage
    PROVE  Bounds'
  <1>1. UNCHANGED <<balance, ledger, pc, job>> /\ reading' = balance
    BY DEF OpenPage, stores, local
  <1>2. /\ Syncing' = Syncing /\ Undecided' = Undecided /\ Ahead' = Ahead
        /\ Committed' = Committed
        /\ \A r \in Undecided' : StillSees(r)
    BY <1>1 DEF Syncing, Undecided, Ahead, Committed, StillSees
  <1>3. Heard'
    <2>1. Worth' = Worth
      BY <1>1, <1>2 DEF Worth
    <2> QED
      BY <1>1, <1>2, <2>1, HeardFresh DEF Sound, Heard
  <1> QED
    BY <1>1, <1>2, <1>3, SameBounds

\* The answer that was on its way reaches every request that waits for it.
LEMMA AirlineAnsweredBounds ==
    ASSUME Sound, Accounted', AirlineAnswered
    PROVE  Bounds'
  <1>1. UNCHANGED <<balance, ledger, job>> /\ reading' = NoRead
    BY DEF AirlineAnswered, stores
  <1>2. \A r \in Slots : pc'[r] = IF pc[r] = "airline" THEN AfterAirline(job[r]) ELSE pc[r]
    BY DEF AirlineAnswered
  <1>3. \A r \in Slots : pc[r] = "airline" => pc'[r] \in {"fleet", "ledger"}
    BY <1>2 DEF AfterAirline
  <1>4. \A r \in Slots : pc[r] # "airline" => pc'[r] = pc[r]
    BY <1>2
  <1>5. Syncing' = Syncing
    <2>1. \A r \in Slots : pc'[r] = "sync" <=> pc[r] = "sync"
      BY <1>3, <1>4
    <2> QED
      BY <1>1, <2>1 DEF Syncing
  <1>6. Undecided' = Undecided /\ Committed' = Committed
    <2>1. \A r \in Slots : /\ Decides(pc'[r], job[r]) <=> Decides(pc[r], job[r])
                           /\ Commits(pc'[r], job[r]) <=> Commits(pc[r], job[r])
      BY <1>3, <1>4 DEF Decides, Commits
    <2> QED
      BY <1>1, <2>1 DEF Undecided, Committed
  <1>7. \A r \in Undecided' : StillSees(r)
    BY <1>1, <1>3, <1>4 DEF StillSees, Undecided
  <1>8. Heard'
    BY <1>1 DEF Heard
  <1> QED
    BY <1>1, <1>5, <1>6, <1>7, <1>8, SameBounds

\* A restart forgets the requests that have no call under way at the fleet service.
LEMMA RestartBounds ==
    ASSUME Sound, Accounted', Restart
    PROVE  Bounds'
  <1>1. UNCHANGED <<balance, ledger>> /\ reading' = NoRead
    BY DEF Restart, stores
  <1>2. \A r \in Slots :
          \/ pc[r] \in {"charge", "insert", "refund"} /\ pc'[r] = pc[r] /\ job'[r] = job[r]
          \/ pc'[r] = "idle" /\ job'[r] = NoJob
    BY DEF Restart
  <1>3. Syncing' \subseteq Syncing
    <2>1. \A r \in Slots : pc'[r] # "sync"
      BY <1>2
    <2> QED
      BY <2>1 DEF Syncing
  <1>4. Undecided' = {}
    BY <1>2 DEF Undecided, Decides
  <1>5. Reserved' <= Reserved
    <2>1. Committed' \subseteq Committed /\ \A r \in Committed' : Costs'[r] = Costs[r]
      BY <1>2 DEF Committed, Commits, Costs
    <2>2. IsFiniteSet(Committed) /\ \A r \in Committed : Costs[r] \in Nat
      <3>1. /\ IsFiniteSet(Committed) /\ Committed \subseteq Slots
            /\ \A r \in Slots : Costs[r] \in 0 .. Dearest
        BY DEF Sound, Accounted
      <3> QED
        BY <3>1
    <2>3. Committed' \in SUBSET Committed
      BY <2>1
    <2> QED
      BY <2>1, <2>2, <2>3, TotalOfPart DEF Reserved
  <1>6. Worth' >= Worth + 0 /\ SumLedger(ledger') = SumLedger(ledger) + 0
    <2>1. Total(Values(Syncing'), ledger') >= Total(Values(Syncing), ledger) + 0
      BY <1>1, <1>3, WorthSettles DEF Sound
    <2>2. /\ Total(Values(Syncing), ledger) \in Int /\ balance \in Int
          /\ Total(Values(Syncing'), ledger') \in Int
          /\ SumLedger(ledger) \in Int
      BY DEF Sound, Accounted
    <2> QED
      BY <1>1, <2>1, <2>2 DEF Worth
  <1>7. Heard'
    BY <1>1 DEF Heard
  <1>8. /\ Undecided' \subseteq Undecided /\ \A r \in Undecided' : StillSees(r)
        /\ 0 \in Nat /\ 0 \in Int /\ 0 <= 0
    BY <1>4
  <1> QED
    BY <1>5, <1>6, <1>7, <1>8, SpreadBounds

\* Every step keeps the bounds.
LEMMA BoundsStep == Sound /\ Typed' /\ Accounted' /\ [Next]_vars => Bounds'
  <1> SUFFICES ASSUME Sound, Typed', Accounted', [Next]_vars PROVE Bounds'
    OBVIOUS
  <1>1. CASE UNCHANGED vars
    <2>1. UNCHANGED <<balance, ledger, pc, job, reading>>
      BY <1>1 DEF vars, stores, local, shared
    <2>2. /\ Syncing' = Syncing /\ Undecided' = Undecided /\ Ahead' = Ahead
          /\ Committed' = Committed
          /\ \A r \in Undecided' : StillSees(r)
      BY <2>1 DEF Syncing, Undecided, Ahead, Committed, StillSees
    <2> QED
      BY <2>1, <2>2, SameBounds
  <1>2. CASE BookFlight \/ OpenPage \/ AirlineAnswered \/ Restart
    BY <1>2, BookFlightBounds, OpenPageBounds, AirlineAnsweredBounds, RestartBounds
  <1>3. ASSUME NEW s \in Slots, Begin(s) \/ SaveAdjustment(s) \/ Serve(s)
        PROVE  Bounds'
    BY <1>3, BeginBounds, SaveAdjustmentBounds, ReadFleetBounds, ReadLedgerBounds, HubsBounds,
       AnalyseBounds, PayFeeBounds, ChargeBounds, InsertAircraftBounds, RefundBounds,
       SyncBalanceBounds DEF Serve
  <1> QED
    BY <1>1, <1>2, <1>3 DEF Next

\* Before any request there is the opening balance, and nothing is reserved.
LEMMA InitSound == Init => Sound
  <1> SUFFICES ASSUME Init PROVE Sound
    OBVIOUS
  <1>1. Typed
    BY InitTyped
  <1>2. Books
    <2>1. \A s \in Slots : job[s].ledger = {} /\ pc[s] = "idle"
      BY DEF Init, NoJob, Request
    <2> QED
      BY <2>1, FS_EmptySet DEF Init, Books
  <1>3. Accounted
    BY <1>1, <1>2, AccountsTyped
  <1>4. Heard
    BY DEF Init, Heard
  <1>5. FloorHolds
    <2>1. Undecided = {} /\ Committed = {} /\ ledger = {}
      BY DEF Init, Undecided, Committed, Decides, Commits
    <2>2. Reserved = 0 /\ Worth = balance + 0
      BY <2>1, FS_EmptySet, TotalStep DEF Reserved, Worth
    <2>3. Left = balance /\ balance \in Nat
      BY <2>2, BalanceAssumption DEF Init, Left
    <2>4. ASSUME NEW W \in SUBSET Undecided PROVE Known(W, Left, Seen)
      <3>1. Cardinality(W) = 0
        BY <2>1, FS_EmptySet
      <3> DEFINE rest == Cardinality(Slots) - Cardinality(W)
      <3>2. rest \in Nat /\ rest - 1 \in Nat /\ Dearest \in Nat /\ Unseen \in Nat
        BY <3>1, SlotsCounted, DearestIsLargest
      <3>3. (rest - 1) * Dearest \in Nat
        <4>1. \A x, y \in Nat : x * y \in Nat
          OBVIOUS
        <4> HIDE DEF rest
        <4> QED
          BY <3>2, <4>1
      <3>4. Left >= -((rest - 1) * Dearest) - Unseen
        <4> DEFINE m == (rest - 1) * Dearest
        <4>1. m \in Nat
          BY <3>3
        <4> HIDE DEF m
        <4>2. Left >= -m - Unseen
          BY <2>3, <3>2, <4>1
        <4> QED
          BY <4>2 DEF m
      <3> QED
        BY <3>4 DEF Known
    <2> QED
      BY <2>4 DEF FloorHolds, Floor
  <1> QED
    BY <1>1, <1>2, <1>3, <1>4, <1>5 DEF Sound

\* The accounts stay sound.
LEMMA SoundStep == Sound /\ [Next]_vars => Sound'
  <1> SUFFICES ASSUME Sound, [Next]_vars PROVE Sound'
    OBVIOUS
  <1>1. Typed' /\ Books'
    BY TypedStep, BooksStep DEF Sound
  <1>2. Accounted'
    BY <1>1, AccountsTypedNext
  <1>3. Bounds'
    BY <1>1, <1>2, BoundsStep
  <1> QED
    BY <1>1, <1>2, <1>3 DEF Sound, Bounds

\* With no request counted out, the floor bounds what is left, and the funds and
\* what was booked unchecked are at least that.
LEMMA SoundIsBounded == Sound => OverdraftBounded
  <1> SUFFICES ASSUME Sound PROVE OverdraftBounded
    OBVIOUS
  <1>1. Left >= -((Cardinality(Slots) - 1) * Dearest) - Unseen
    <2>1. Known({}, Left, Seen) /\ Cardinality({}) = 0
      BY FS_EmptySet DEF Sound, FloorHolds, Floor
    <2>2. Cardinality(Slots) - 0 = Cardinality(Slots)
      BY SlotsCounted
    <2>3. Left >= -((Cardinality(Slots) - Cardinality({}) - 1) * Dearest) - Unseen
      BY <2>1 DEF Known
    <2> QED
      BY <2>1, <2>2, <2>3
  <1>2. ledger \in SUBSET Entry /\ IsFiniteSet(ledger)
    BY DEF Sound, Typed, Stores, Books
  <1> DEFINE V == Values(Syncing)
  <1>3. Total(V, ledger) <= SumLedger(ledger) + Unchecked
    <2>1. \A e \in ledger : V[e] \in Int /\ EntryAmount[e] \in Int /\ UncheckedAmount[e] \in Int
      BY <1>2, ValueTyped DEF Values, EntryAmount, UncheckedAmount
    <2>2. ASSUME NEW e \in ledger
          PROVE  (IF e \in ledger THEN V[e] ELSE 0)
                    <= EntryAmount[e] + (IF e \in Debits THEN UncheckedAmount[e] ELSE 0)
      <3>1. /\ V[e] = Value(e, Syncing) /\ EntryAmount[e] = e.amount /\ e.amount \in Int
            /\ UncheckedAmount[e] = IF e.kind = "admin-adjustment" THEN -2 * e.amount
                                                                   ELSE -e.amount
        BY <1>2, ValueTyped DEF Values, EntryAmount, UncheckedAmount
      <3>2. e \in Debits <=> e.kind # "hub-fee" /\ e.amount < 0
        BY DEF Debits
      <3> HIDE DEF V
      <3>3. CASE e \in Debits
        <4> DEFINE a == e.amount
        <4>1. a \in Int /\ a < 0 /\ EntryAmount[e] = a
          BY <3>1, <3>2, <3>3
        <4>2. V[e] \in {0, -a} /\ (e.kind # "admin-adjustment" => V[e] = 0)
          BY <3>1, <3>2, <3>3 DEF Value
        <4>3. UncheckedAmount[e] = IF e.kind = "admin-adjustment" THEN -2 * a ELSE -a
          BY <3>1
        <4> HIDE DEF a
        <4>4. V[e] <= EntryAmount[e] + UncheckedAmount[e]
          <5>1. CASE e.kind = "admin-adjustment"
            <6>1. UncheckedAmount[e] = -2 * a
              BY <4>3, <5>1
            <6>2. \A x \in Int : x < 0 => -x <= x + (-2 * x) /\ 0 <= x + (-2 * x)
              OBVIOUS
            <6> QED
              BY <4>1, <4>2, <6>1, <6>2
          <5>2. CASE e.kind # "admin-adjustment"
            BY <4>1, <4>2, <4>3, <5>2
          <5> QED
            BY <5>1, <5>2
        <4> QED
          BY <3>3, <4>4
      <3>4. CASE e \notin Debits
        <4>1. Value(e, Syncing) = e.amount
          BY <3>1, <3>2, <3>4 DEF Value
        <4> QED
          BY <3>1, <3>4, <4>1
      <3> QED
        BY <3>3, <3>4
    <2> HIDE DEF V
    <2>3. Total(V, ledger \cap ledger) <=
             Total(EntryAmount, ledger) + Total(UncheckedAmount, ledger \cap Debits)
      BY <1>2, <2>1, <2>2, TotalLess
    <2>4. ledger \cap ledger = ledger /\ ledger \cap Debits = Debits
      BY DEF Debits
    <2> QED
      BY <1>2, <2>3, <2>4, SumLedgerIsTotal, UncheckedIsTotal
  <1>4. Left <= Worth /\ Worth \in Int /\ Left \in Int /\ balance \in Int
        /\ SumLedger(ledger) \in Int /\ Total(V, ledger) \in Int
    BY DEF Sound, Accounted
  <1>5. Unchecked \in Int
    <2>1. Unchecked = Total(UncheckedAmount, Debits)
      BY <1>2, UncheckedIsTotal
    <2>2. IsFiniteSet(Debits) /\ \A e \in Debits : UncheckedAmount[e] \in Int
      BY <1>2, FS_Subset, ValueTyped DEF Debits, UncheckedAmount
    <2> QED
      BY <2>1, <2>2, TotalTyped
  <1>6. Worth = balance + Total(V, ledger)
    BY DEF Worth
  <1>7. Funds + Unchecked >= Worth
    <2> HIDE DEF V
    <2> QED
      BY <1>3, <1>4, <1>5, <1>6 DEF Funds
  <1>8. Overlaps \in Int /\ Unseen \in Int /\ Overlaps = (Cardinality(Slots) - 1) * Dearest
    <2>1. \A x, y \in Int : x * y \in Int
      OBVIOUS
    <2>2. Cardinality(Slots) - 1 \in Int /\ Dearest \in Int /\ Unseen \in Int
      BY SlotsCounted, DearestIsLargest
    <2> QED
      BY <2>1, <2>2 DEF Overlaps
  <1>9. Funds + Unchecked \in Int
    BY <1>4, <1>5 DEF Funds
  <1>10. Left >= -Overlaps - Unseen
    BY <1>1, <1>8
  <1>11. Funds + Unchecked >= -(Overlaps + Unseen)
    <2> DEFINE f == Funds + Unchecked
    <2>1. f \in Int /\ f >= Worth
      BY <1>7, <1>9
    <2> HIDE DEF f
    <2>2. f >= -(Overlaps + Unseen)
      BY <1>4, <1>8, <1>10, <2>1
    <2> QED
      BY <2>2 DEF f
  <1> QED
    BY <1>11 DEF OverdraftBounded

\* However purchases, hubs, analyses, credits, flights, failing calls and
\* restarts overlap, what is spent on aircraft and hubs exceeds the player's
\* funds by at most one purchase or hub for every slot but one, and one aircraft
\* for every slot.
THEOREM OverdraftIsBounded == Spec => []OverdraftBounded
  <1>1. Spec => []Sound
    BY InitSound, SoundStep, PTL DEF Spec
  <1> QED
    BY <1>1, SoundIsBounded, PTL
=============================================================================
