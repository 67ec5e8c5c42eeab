----------------------------- MODULE WorldProofs -----------------------------
(***************************************************************************)
(* Theorems about the clock and the fuel prices for every period, every    *)
(* start price, every wobble and any number of kills and failed calls: no  *)
(* tick is skipped, a fault costs at most one duplicate, every hour tick   *)
(* is priced.  TickInv of TickLoop and FuelInv of FuelPrices are           *)
(* inductive.                                                              *)
(*                                                                         *)
(* The composition implements its parts: tick-service with everything      *)
(* around it is the tick loop, and operations-service and the gateway      *)
(* behind it are the fuel prices of some topic of hour ticks.  What is     *)
(* proved of the parts therefore holds of the world.                       *)
(***************************************************************************)
EXTENDS World, ConsumerProofs

-----------------------------------------------------------------------------
(* Arithmetic.                                                             *)

\* One more period is one more summand.
LEMMA OneMore ==
  ASSUME NEW p \in Int, NEW n \in Int
  PROVE  /\ p * n \in Int
         /\ p * (n + 1) = p * n + p
         /\ (n + 1) * p = p * n + p
         /\ n * p = p * n
  OBVIOUS

\* More periods are not less game time.
LEMMA Monotone ==
  ASSUME NEW p \in Nat, NEW m \in Nat, NEW n \in Nat, m <= n
  PROVE  p * m <= p * n
<1>1. PICK d \in Nat : n = m + d
  OBVIOUS
<1>2. p * n = p * m + p * d /\ p * d \in Nat
  BY <1>1
<1> QED
  BY <1>2

-----------------------------------------------------------------------------
(* The two conjuncts that multiply, for one kind and in plain numbers.     *)

\* The events sent for a kind, in game time.
SentTime(k) == Period[k] * sent[k]

\* The duplicates a kind is allowed, in game time.
Allowance(k) == Period[k] * (faults + (IF pc = "record" /\ kind = k THEN 1 ELSE 0))

\* What NoTickSkipped and DuplicatesBounded say of one kind.
Counted(k) ==
    /\ Recorded(k) <= Start + SentTime(k)
    /\ SentTime(k) <= Recorded(k) - Start + Allowance(k)

\* The types of all the terms that are compared.
LEMMA Numbers ==
  ASSUME TickTypeOK, NEW k \in Kinds
  PROVE  /\ Period[k] \in Nat /\ Period[k] > 0
         /\ row[k] \in Nat \cup {Unset}
         /\ Recorded(k) \in Nat /\ last[k] \in Nat /\ sent[k] \in Nat
         /\ faults \in Nat /\ clock \in Nat /\ now \in Nat /\ Start \in Nat
         /\ SentTime(k) \in Int /\ Allowance(k) \in Int
         /\ sent[k] * Period[k] = SentTime(k)
<1> USE TickAssumption DEF TickTypeOK
<1>1. Period[k] \in Nat /\ Period[k] > 0 /\ sent[k] \in Nat /\ faults \in Nat
  OBVIOUS
<1>2. SentTime(k) \in Int /\ sent[k] * Period[k] = SentTime(k)
  BY <1>1, OneMore DEF SentTime
<1>3. Allowance(k) \in Int
  BY <1>1, OneMore DEF Allowance
<1> QED
  BY <1>1, <1>2, <1>3 DEF Recorded, Unset

\* One more fault, and one more event, in game time.
LEMMA OnePeriod ==
  ASSUME TickTypeOK, NEW k \in Kinds
  PROVE  /\ Period[k] * faults \in Int
         /\ Period[k] * (faults + 1) = Period[k] * faults + Period[k]
         /\ Period[k] * (sent[k] + 1) = SentTime(k) + Period[k]
<1>1. Period[k] \in Int /\ faults \in Int /\ sent[k] \in Int
  BY Numbers
<1>2. /\ Period[k] * faults \in Int
      /\ Period[k] * (faults + 1) = Period[k] * faults + Period[k]
  BY <1>1, OneMore
<1>3. Period[k] * (sent[k] + 1) = SentTime(k) + Period[k]
  BY <1>1, OneMore DEF SentTime
<1> QED
  BY <1>2, <1>3

\* The two invariants are Counted of every kind.
LEMMA CountedIs ==
  ASSUME TickTypeOK, ProduceMissedEvents
  PROVE  (NoTickSkipped /\ DuplicatesBounded) <=> \A k \in Kinds : Counted(k)
<1>1. ASSUME NEW k \in Kinds
      PROVE  sent[k] * Period[k] = SentTime(k)
  BY <1>1, Numbers
<1> QED
  BY <1>1 DEF NoTickSkipped, DuplicatesBounded, Counted, SentTime, Allowance

-----------------------------------------------------------------------------
(* Every step but the two invariants that multiply.                        *)

\* TickInv without them.
Shape ==
    /\ TickTypeOK
    /\ NoEarlyTick
    /\ LoopFollowsRow
    /\ now <= clock
    /\ Start <= clock
    /\ pc \in {"polling", "check", "record"} => \A k \in Kinds : last[k] <= clock
    /\ pc = "record" => Elapsed(kind)

\* The steps keep the types.
LEMMA TickTypeStep ==
  ASSUME TickTypeOK, [TickNext]_tickVars
  PROVE  TickTypeOK'
<1> USE TickAssumption DEF TickTypeOK, Places, Kinds
<1>1. CASE ClockMoves
  BY <1>1 DEF ClockMoves
<1>2. CASE LoadState
  BY <1>2 DEF LoadState, WholeRow, NoRow
<1>3. CASE BeginIteration
  BY <1>3 DEF BeginIteration
<1>4. CASE NotElapsed
  BY <1>4 DEF NotElapsed, NextCheck
<1>5. CASE SendTick
  BY <1>5 DEF SendTick
<1>6. CASE RecordTick
  BY <1>6 DEF RecordTick, NextCheck
<1>7. CASE SendFails
  BY <1>7 DEF SendFails
<1>8. CASE RecordFails
  BY <1>8 DEF RecordFails
<1>9. CASE LoadFails \/ TickKilled \/ TickRestarted \/ TickStartedAgain
  BY <1>9 DEF LoadFails, TickKilled, TickRestarted, TickStartedAgain
<1>10. CASE UNCHANGED tickVars
  BY <1>10 DEF tickVars
<1> QED
  BY <1>1, <1>2, <1>3, <1>4, <1>5, <1>6, <1>7, <1>8, <1>9, <1>10
     DEF TickNext, TickWork

\* The steps keep the loop within the clock and the row.
LEMMA ShapeStep ==
  ASSUME Shape, [TickNext]_tickVars
  PROVE  Shape'
<1> USE DEF Shape
<1>1. TickTypeOK'
  BY TickTypeStep
<1>2. \A k \in Kinds : /\ Period[k] \in Nat /\ Period[k] > 0
                        /\ last[k] \in Nat /\ row[k] \in Nat \cup {Unset}
  BY TickAssumption DEF TickTypeOK
<1>3. now \in Nat /\ clock \in Nat /\ Start \in Nat /\ kind \in Kinds
  BY TickAssumption DEF TickTypeOK
<1> USE <1>1, <1>2, <1>3 DEF NoEarlyTick, LoopFollowsRow, Recorded, Unset, Elapsed
<1>4. CASE ClockMoves
  BY <1>4 DEF ClockMoves
<1>5. CASE LoadState
  BY <1>5 DEF LoadState, WholeRow, NoRow
<1>6. CASE BeginIteration
  BY <1>6 DEF BeginIteration
<1>7. CASE NotElapsed
  BY <1>7 DEF NotElapsed, NextCheck
<1>8. CASE SendTick
  BY <1>8 DEF SendTick
<1>9. CASE RecordTick
  BY <1>9 DEF RecordTick, NextCheck, TickTypeOK
<1>10. CASE SendFails
  BY <1>10 DEF SendFails
<1>11. CASE RecordFails
  BY <1>11 DEF RecordFails, TickTypeOK
<1>12. CASE LoadFails \/ TickKilled \/ TickRestarted \/ TickStartedAgain
  BY <1>12 DEF LoadFails, TickKilled, TickRestarted, TickStartedAgain
<1>13. CASE UNCHANGED tickVars
  BY <1>13 DEF tickVars
<1> QED
  BY <1>4, <1>5, <1>6, <1>7, <1>8, <1>9, <1>10, <1>11, <1>12, <1>13
     DEF TickNext, TickWork

-----------------------------------------------------------------------------
(* The two invariants that multiply.                                       *)

\* A step keeps the count of a kind when it leaves what the count is about.
LEMMA CountUntouched ==
  ASSUME NEW k \in Kinds, Counted(k),
         sent'[k] = sent[k], row'[k] = row[k], Allowance(k)' = Allowance(k)
  PROVE  Counted(k)'
  BY DEF Counted, SentTime, Recorded

\* A send keeps every count: one more event, which may wait for its record.
LEMMA CountSend ==
  ASSUME TickTypeOK, SendTick, NEW k \in Kinds, Counted(k)
  PROVE  Counted(k)'
<1>1. CASE k # kind
  <2>1. Allowance(k)' = Allowance(k)
    BY <1>1 DEF SendTick, Allowance
  <2> QED
    BY <1>1, <2>1, CountUntouched DEF SendTick, TickTypeOK
<1>2. CASE k = kind
  <2>1. sent'[k] = sent[k] + 1 /\ row' = row /\ faults' = faults /\ pc = "check"
        /\ pc' = "record" /\ kind' = kind
    BY <1>2 DEF SendTick, TickTypeOK
  <2>2. SentTime(k)' = SentTime(k) + Period[k]
    BY <2>1, OnePeriod DEF SentTime
  <2>3. Allowance(k)' = Allowance(k) + Period[k]
    <3>1. Allowance(k) = Period[k] * faults /\ Allowance(k)' = Period[k] * (faults + 1)
      BY <1>2, <2>1, Numbers DEF Allowance
    <3> QED
      BY <3>1, Numbers, OnePeriod
  <2>4. Recorded(k)' = Recorded(k)
    BY <2>1 DEF Recorded
  <2> QED
    BY <2>2, <2>3, <2>4, Numbers DEF Counted
<1> QED
  BY <1>1, <1>2

\* A record keeps every count: the event that waited for it has it.
LEMMA CountRecord ==
  ASSUME Shape, SentFirst, ProduceMissedEvents, RecordTick,
         NEW k \in Kinds, Counted(k)
  PROVE  Counted(k)'
<1> USE DEF Shape
<1>1. CASE k # kind
  <2>1. Allowance(k)' = Allowance(k)
    <3>1. pc' # "record" /\ faults' = faults
      BY DEF RecordTick, NextCheck
    <3> QED
      BY <1>1, <3>1 DEF Allowance
  <2> QED
    BY <1>1, <2>1, CountUntouched DEF RecordTick, TickTypeOK
<1>2. CASE k = kind
  <2>1. sent' = sent /\ faults' = faults /\ pc = "record" /\ pc' # "record"
        /\ row'[k] = last[k] + Period[k]
    BY <1>2 DEF RecordTick, NextCheck, TickTypeOK
  <2>2. Recorded(k)' = Recorded(k) + Period[k]
    BY <2>1, Numbers DEF Recorded, LoopFollowsRow, Unset
  <2>3. Allowance(k)' = Allowance(k) - Period[k]
    <3>1. Allowance(k) = Period[k] * (faults + 1) /\ Allowance(k)' = Period[k] * faults
      BY <1>2, <2>1, Numbers DEF Allowance
    <3> QED
      BY <3>1, Numbers, OnePeriod
  <2>4. Recorded(k) + Period[k] <= Start + SentTime(k)
    BY <1>2, <2>1 DEF SentFirst, SentTime
  <2>5. SentTime(k)' = SentTime(k)
    BY <2>1 DEF SentTime
  <2> QED
    BY <2>2, <2>3, <2>4, <2>5, Numbers DEF Counted
<1> QED
  BY <1>1, <1>2

\* A fault adds a period to every allowance, and takes one from the kind whose
\* record it leaves out.
LEMMA FaultAllows ==
  ASSUME TickTypeOK, NEW k \in Kinds, faults' = faults + 1, pc' # "record"
  PROVE  /\ Allowance(k) + (IF pc = "record" /\ kind = k THEN 0 ELSE Period[k])
                = Allowance(k)'
         /\ Allowance(k)' \in Int
<1>1. Allowance(k)' = Period[k] * (faults + 1)
  BY Numbers DEF Allowance
<1>2. CASE pc = "record" /\ kind = k
  BY <1>1, <1>2, Numbers DEF Allowance
<1>3. CASE ~(pc = "record" /\ kind = k)
  <2>1. Allowance(k) = Period[k] * faults
    BY <1>3, Numbers DEF Allowance
  <2> QED
    BY <1>1, <1>3, <2>1, Numbers, OnePeriod
<1> QED
  BY <1>2, <1>3

\* A failed load, a failed send, a failed record and a kill keep every count.
LEMMA CountFault ==
  ASSUME Shape, SentFirst, ProduceMissedEvents,
         LoadFails \/ SendFails \/ RecordFails \/ TickKilled, NEW k \in Kinds, Counted(k)
  PROVE  Counted(k)'
<1> USE DEF Shape
<1>1. faults' = faults + 1 /\ pc' # "record" /\ kind' = kind
  BY DEF LoadFails, SendFails, RecordFails, TickKilled
<1>2. Allowance(k)' = Allowance(k) + (IF pc = "record" /\ kind = k THEN 0 ELSE Period[k])
  BY <1>1, FaultAllows
<1>3. CASE SendFails
  <2>1. pc = "check" /\ row' = row /\ (sent'[k] = sent[k] \/ sent'[k] = sent[k] + 1)
    BY <1>3 DEF SendFails, TickTypeOK
  <2>2. SentTime(k)' = SentTime(k) \/ SentTime(k)' = SentTime(k) + Period[k]
    BY <2>1, OnePeriod DEF SentTime
  <2> QED
    BY <1>2, <2>1, <2>2, Numbers DEF Counted, Recorded
<1>4. CASE RecordFails
  <2>1. sent' = sent /\ pc = "record" /\ (row' = row
            \/ row' = [row EXCEPT ![kind] = last[kind] + Period[kind]])
    BY <1>4 DEF RecordFails
  <2>2. CASE row'[k] = row[k]
    BY <1>2, <2>1, <2>2, Numbers DEF Counted, Recorded, SentTime
  <2>3. CASE row'[k] # row[k]
    <3>1. k = kind /\ row'[k] = last[k] + Period[k]
      BY <2>1, <2>3 DEF TickTypeOK
    <3>2. Recorded(k)' = Recorded(k) + Period[k]
      BY <2>1, <3>1, Numbers DEF Recorded, LoopFollowsRow, Unset
    <3>3. Recorded(k) + Period[k] <= Start + SentTime(k)
      BY <2>1, <3>1 DEF SentFirst, SentTime
    <3>4. SentTime(k)' = SentTime(k) /\ Allowance(k)' = Allowance(k)
      BY <1>2, <2>1, <3>1, Numbers DEF SentTime
    <3> QED
      BY <3>2, <3>3, <3>4, Numbers DEF Counted
  <2> QED
    BY <2>2, <2>3
<1>5. CASE LoadFails \/ TickKilled
  <2>1. sent' = sent /\ row' = row
    BY <1>5 DEF LoadFails, TickKilled
  <2> QED
    BY <1>2, <2>1, Numbers DEF Counted, Recorded, SentTime
<1> QED
  BY <1>3, <1>4, <1>5

\* The other steps touch neither the topic nor the table.
LEMMA CountElsewhere ==
  ASSUME NEW k \in Kinds, Counted(k),
         \/ ClockMoves \/ LoadState \/ BeginIteration \/ NotElapsed
         \/ TickRestarted \/ TickStartedAgain \/ UNCHANGED tickVars
  PROVE  Counted(k)'
<1>1. sent' = sent /\ row' = row /\ faults' = faults
      /\ ((pc' = "record" /\ kind' = k) <=> (pc = "record" /\ kind = k))
  BY DEF ClockMoves, LoadState, BeginIteration, NotElapsed, NextCheck,
         TickRestarted, TickStartedAgain, tickVars
<1>2. Allowance(k)' = Allowance(k)
  BY <1>1 DEF Allowance
<1> QED
  BY <1>1, <1>2, CountUntouched

\* The steps keep the send before the record.
LEMMA SentFirstStep ==
  ASSUME Shape, SentFirst, ProduceMissedEvents => \A k \in Kinds : Counted(k),
         [TickNext]_tickVars
  PROVE  SentFirst'
<1> USE DEF Shape
<1> SUFFICES ASSUME ProduceMissedEvents, pc' = "record"
             PROVE  (Recorded(kind) + Period[kind] <= Start + Period[kind] * sent[kind])'
  BY DEF SentFirst
<1>1. CASE SendTick
  <2>1. kind \in Kinds /\ kind' = kind /\ row' = row /\ sent'[kind] = sent[kind] + 1
    BY <1>1 DEF SendTick, TickTypeOK
  <2>2. Period[kind] * (sent[kind] + 1) = SentTime(kind) + Period[kind]
    BY <2>1, OnePeriod DEF SentTime
  <2>3. Recorded(kind) <= Start + SentTime(kind)
    BY <2>1 DEF Counted
  <2>4. Recorded(kind)' = Recorded(kind)
    BY <2>1 DEF Recorded
  <2> QED
    BY <2>1, <2>2, <2>3, <2>4, Numbers
<1>2. CASE ClockMoves \/ UNCHANGED tickVars
  BY <1>2 DEF ClockMoves, tickVars, SentFirst, Recorded
<1> QED
  BY <1>1, <1>2
     DEF TickNext, TickWork, LoadState, BeginIteration, NotElapsed, NextCheck,
         RecordTick, LoadFails, SendFails, RecordFails, TickKilled, TickRestarted,
         TickStartedAgain

-----------------------------------------------------------------------------
(* The inductive invariant.                                                *)

\* TickInv in the parts the steps are proved for.
LEMMA InvIs ==
  TickInv <=> /\ Shape
              /\ SentFirst
              /\ ProduceMissedEvents => \A k \in Kinds : Counted(k)
<1>1. ASSUME TickTypeOK
      PROVE  (NoTickSkipped /\ DuplicatesBounded)
             <=> (ProduceMissedEvents => \A k \in Kinds : Counted(k))
  BY <1>1, CountedIs DEF NoTickSkipped, DuplicatesBounded
<1> QED
  BY <1>1 DEF TickInv, Shape

\* The initial states satisfy it: nothing is sent and nothing recorded.
LEMMA InvInit ==
  ASSUME TickInit
  PROVE  TickInv
<1>1. Shape
  BY TickAssumption
     DEF TickInit, Shape, TickTypeOK, NoEarlyTick, LoopFollowsRow, Recorded,
         Unset, Places, Kinds
<1>2. SentFirst
  BY DEF TickInit, SentFirst
<1>3. ASSUME NEW k \in Kinds
      PROVE  Counted(k)
  <2>1. Recorded(k) = Start /\ sent[k] = 0 /\ faults = 0 /\ pc # "record"
    BY DEF TickInit, Recorded
  <2>2. SentTime(k) = 0 /\ Allowance(k) = 0
    BY <2>1, <1>1, Numbers DEF Shape, SentTime, Allowance
  <2> QED
    BY <2>1, <2>2, TickAssumption DEF Counted
<1> QED
  BY <1>1, <1>2, <1>3, InvIs

\* And every step keeps it.
LEMMA InvStep ==
  ASSUME TickInv, [TickNext]_tickVars
  PROVE  TickInv'
<1>1. Shape /\ SentFirst /\ (ProduceMissedEvents => \A k \in Kinds : Counted(k))
  BY InvIs
<1>2. Shape' /\ SentFirst'
  BY <1>1, ShapeStep, SentFirstStep
<1>3. ASSUME ProduceMissedEvents, NEW k \in Kinds
      PROVE  Counted(k)'
  <2>1. Counted(k) /\ TickTypeOK
    BY <1>1, <1>3 DEF Shape
  <2>2. CASE SendTick
    BY <2>1, <2>2, CountSend
  <2>3. CASE RecordTick
    BY <1>1, <1>3, <2>1, <2>3, CountRecord
  <2>4. CASE LoadFails \/ SendFails \/ RecordFails \/ TickKilled
    BY <1>1, <1>3, <2>1, <2>4, CountFault
  <2>5. CASE \/ ClockMoves \/ LoadState \/ BeginIteration \/ NotElapsed
             \/ TickRestarted \/ TickStartedAgain \/ UNCHANGED tickVars
    BY <2>1, <2>5, CountElsewhere
  <2> QED
    BY <2>2, <2>3, <2>4, <2>5 DEF TickNext, TickWork
<1>4. TickTypeOK'
  BY <1>2 DEF Shape
<1>5. NoTickSkipped' /\ DuplicatesBounded'
  <2>1. CASE ProduceMissedEvents
    <3>1. ASSUME NEW k \in Kinds
          PROVE  (sent[k] * Period[k])' = SentTime(k)'
      <4>1. Period[k] \in Int /\ sent'[k] \in Int
        BY <1>4, TickAssumption DEF TickTypeOK
      <4> QED
        BY <4>1, OneMore DEF SentTime
    <3> QED
      BY <1>3, <2>1, <3>1
         DEF NoTickSkipped, DuplicatesBounded, Counted, SentTime, Allowance
  <2>2. CASE ~ProduceMissedEvents
    BY <2>2 DEF NoTickSkipped, DuplicatesBounded
  <2> QED
    BY <2>1, <2>2
<1> QED
  BY <1>2, <1>5 DEF TickInv, Shape

\* TickInv holds in every state of the loop.
THEOREM TickInvariant == TickSpec => []TickInv
<1>1. TickInit => TickInv
  BY InvInit
<1>2. TickInv /\ [TickNext]_tickVars => TickInv'
  BY InvStep
<1> QED
  BY <1>1, <1>2, PTL DEF TickSpec

\* Every time game_state says is processed has its event on the topic, for
\* any number of kills and failures between the send and the record.
THEOREM TicksNotSkipped == TickSpec => []NoTickSkipped
<1>1. TickInv => NoTickSkipped
  BY DEF TickInv
<1> QED
  BY <1>1, TickInvariant, PTL

\* A kill or a failed call costs at most one duplicate of one tick.
THEOREM DuplicatesPerFault == TickSpec => []DuplicatesBounded
<1>1. TickInv => DuplicatesBounded
  BY DEF TickInv
<1> QED
  BY <1>1, TickInvariant, PTL

\* No period is recorded as processed before the game clock has passed it.
THEOREM TicksNotEarly == TickSpec => []NoEarlyTick
<1>1. TickInv => NoEarlyTick
  BY DEF TickInv
<1> QED
  BY <1>1, TickInvariant, PTL

-----------------------------------------------------------------------------
(* The table. *)

\* A drawn price is at most a wobble away.
LEMMA DrawnNear ==
  ASSUME NEW from \in Int, NEW price \in WobblePrice(from)
  PROVE  price \in Int /\ Near(price, from, Wobble)
  BY FuelAssumption DEF WobblePrice, Near

\* What an append does to a sequence.
LEMMA Appended ==
  ASSUME NEW S, NEW s \in Seq(S), NEW e \in S
  PROVE  /\ Append(s, e) \in Seq(S)
         /\ Len(s) \in Nat
         /\ Len(Append(s, e)) = Len(s) + 1
         /\ Append(s, e) # <<>>
         /\ Append(s, e)[Len(s) + 1] = e
         /\ \A i \in 1..Len(s) : Append(s, e)[i] = s[i]
         /\ s = <<>> <=> Len(s) = 0
  OBVIOUS

\* A price drawn from the last price goes on with the walk.
LEMMA WalkOn ==
  ASSUME stored \in Seq(Int), lastPrice \in Int, PricesWalk, LastPriceNear,
         NEW price \in WobblePrice(lastPrice), stored' = Append(stored, price)
  PROVE  /\ PricesWalk'
         /\ stored' \in Seq(Int) /\ stored' # <<>> /\ Len(stored') = Len(stored) + 1
         /\ Near(stored'[Len(stored')], lastPrice, Wobble)
<1>1. price \in Int /\ Near(price, lastPrice, Wobble)
  BY DrawnNear
<1>2. /\ stored' \in Seq(Int) /\ stored' # <<>>
      /\ Len(stored) \in Nat
      /\ Len(stored') = Len(stored) + 1
      /\ stored'[Len(stored) + 1] = price
      /\ \A i \in 1..Len(stored) : stored'[i] = stored[i]
  BY <1>1, Appended
<1>3. stored = <<>> => lastPrice = StartPrice
  BY DEF LastPriceNear
<1>4. stored # <<>> => Near(stored[Len(stored)], lastPrice, Wobble)
  BY DEF LastPriceNear
<1>5. Near(stored'[1], StartPrice, Wobble)
  <2>1. CASE stored = <<>>
    BY <1>1, <1>2, <1>3, <2>1
  <2>2. CASE stored # <<>>
    BY <1>2, <2>2 DEF PricesWalk
  <2> QED
    BY <2>1, <2>2
<1>6. ASSUME NEW i \in 1..(Len(stored') - 1)
      PROVE  Near(stored'[i + 1], stored'[i], 2 * Wobble)
  <2>1. CASE i = Len(stored)
    <3>1. stored # <<>> /\ stored[Len(stored)] \in Int /\ stored'[i] = stored[Len(stored)]
          /\ stored'[i + 1] = price
      BY <1>2, <1>6, <2>1
    <3>2. \A x, y, z, w \in Int : Near(x, z, w) /\ Near(y, z, w) => Near(y, x, 2 * w)
      BY DEF Near
    <3>3. lastPrice \in Int /\ Wobble \in Int
      BY FuelAssumption
    <3> QED
      BY <1>1, <1>4, <3>1, <3>2, <3>3
  <2>2. CASE i # Len(stored)
    <3>1. i \in 1..(Len(stored) - 1) /\ stored'[i] = stored[i] /\ stored'[i + 1] = stored[i + 1]
      BY <1>2, <1>6, <2>2
    <3> QED
      BY <3>1 DEF PricesWalk
  <2> QED
    BY <2>1, <2>2
<1> QED
  BY <1>1, <1>2, <1>5, <1>6 DEF PricesWalk

-----------------------------------------------------------------------------
(* The steps. *)

\* What changes in the group, for every step of operations-service.
LEMMA OpsGroupStep ==
  ASSUME FuelTypeOK, hourTicks \in Nat,
         \/ OpsPoll
         \/ HasRecord(opsGroup) /\ opsGroup' = Handled(opsGroup)
         \/ OpsRestarted
  PROVE  /\ opsGroup' \in Group
         /\ OrderedGroup(opsGroup')
         /\ opsGroup'.limit <= hourTicks
         /\ opsGroup.next \in Nat
         /\ opsGroup'.next <= opsGroup.next + 1
         /\ (OpsPoll \/ OpsRestarted) => opsGroup'.next <= opsGroup.next
<1> USE DEF FuelTypeOK
<1>1. opsGroup.next \in Nat
  BY DEF Group
<1>2. CASE OpsPoll
  <2>1. CanPoll(opsGroup, hourTicks) /\ opsGroup' = Poll(opsGroup, hourTicks)
    BY <1>2 DEF OpsPoll
  <2> QED
    BY <1>1, <2>1, GroupSteps
<1>3. CASE OpsRestarted
  <2>1. PICK c \in Commits(opsGroup) : opsGroup' = Rejoined(opsGroup, c)
    BY <1>3 DEF OpsRestarted
  <2>2. opsGroup'.next \in Nat
    BY <2>1, GroupSteps DEF Group
  <2> QED
    BY <1>1, <2>1, <2>2, GroupSteps
<1>4. CASE ~OpsPoll /\ ~OpsRestarted
  BY <1>1, <1>4, GroupSteps
<1> QED
  BY <1>2, <1>3, <1>4

\* And for every step of the gateway.
LEMMA GateGroupStep ==
  ASSUME FuelTypeOK,
         \/ GatePoll
         \/ HasRecord(gateGroup) /\ gateGroup' = Handled(gateGroup)
         \/ GateRestarted
  PROVE  /\ gateGroup' \in Group
         /\ OrderedGroup(gateGroup')
         /\ gateGroup'.limit <= Len(announced)
         /\ gateGroup.next \in Nat
         /\ (GatePoll \/ GateRestarted) => gateGroup'.next <= gateGroup.next
         /\ ~(GatePoll \/ GateRestarted) => gateGroup'.next = gateGroup.next + 1
<1> USE DEF FuelTypeOK
<1>1. gateGroup.next \in Nat /\ Len(announced) \in Nat
  BY DEF Group
<1>2. CASE GatePoll
  <2>1. CanPoll(gateGroup, Len(announced)) /\ gateGroup' = Poll(gateGroup, Len(announced))
    BY <1>2 DEF GatePoll
  <2> QED
    BY <1>1, <1>2, <2>1, GroupSteps
<1>3. CASE GateRestarted
  <2>1. PICK c \in Commits(gateGroup) : gateGroup' = Rejoined(gateGroup, c)
    BY <1>3 DEF GateRestarted
  <2> QED
    BY <1>1, <1>3, <2>1, GroupSteps
<1>4. CASE ~GatePoll /\ ~GateRestarted
  BY <1>1, <1>4, GroupSteps
<1> QED
  BY <1>2, <1>3, <1>4

\* A step of the services or of the topic they read.
FuelStep == (FuelNext /\ UNCHANGED hourTicks) \/ HourTick

\* The steps that leave the table and the last price alone.
LEMMA TableUntouched ==
  ASSUME [FuelStep]_<<hourTicks, fuelVars>>, ~StorePrice, ~StoreFails,
         ~AnnouncePrice, ~OpsRestarted
  PROVE  UNCHANGED <<stored, lastPrice>>
  BY DEF FuelStep, HourTick, FuelNext, OpsWork, GateWork, OpsPoll, OpsPollFails,
         AnnounceFails, OpsKilled, GatePoll, GatePollFails, Broadcast, BroadcastFails,
         GateKilled, GateRestarted, fuelVars, opsVars

\* The steps keep the walk and the last price near its end.
LEMMA TableStep ==
  ASSUME FuelInv, [FuelStep]_<<hourTicks, fuelVars>>
  PROVE  /\ PricesWalk' /\ LastPriceNear'
         /\ stored' \in Seq(Int) /\ lastPrice' \in Int
<1> USE DEF FuelInv, FuelTypeOK
<1>1. CASE stored' = stored /\ lastPrice' = lastPrice
  BY <1>1 DEF PricesWalk, LastPriceNear
<1>2. CASE (\E price \in WobblePrice(lastPrice) : stored' = Append(stored, price))
           /\ lastPrice' = lastPrice
  <2>1. PICK price \in WobblePrice(lastPrice) : stored' = Append(stored, price)
    BY <1>2
  <2>2. /\ PricesWalk'
        /\ stored' \in Seq(Int) /\ stored' # <<>>
        /\ Near(stored'[Len(stored')], lastPrice, Wobble)
    BY <2>1, WalkOn
  <2> QED
    BY <1>2, <2>2 DEF LastPriceNear
<1>3. CASE stored' = stored /\ stored # <<>> /\ lastPrice' = stored[Len(stored)]
  <2>1. stored[Len(stored)] \in Int
    BY <1>3
  <2>2. Near(stored[Len(stored)], stored[Len(stored)], Wobble)
    BY <2>1, FuelAssumption DEF Near
  <2> QED
    BY <1>3, <2>1, <2>2 DEF PricesWalk, LastPriceNear
<1>4. CASE stored' = stored /\ stored = <<>> /\ lastPrice' = StartPrice
  BY <1>4, FuelAssumption DEF PricesWalk, LastPriceNear
<1>5. CASE StorePrice
  BY <1>2, <1>5 DEF StorePrice
<1>6. CASE StoreFails
  BY <1>1, <1>2, <1>6 DEF StoreFails
<1>7. CASE AnnouncePrice
  BY <1>3, <1>7 DEF AnnouncePrice, SendingNewest
<1>8. CASE OpsRestarted
  BY <1>3, <1>4, <1>8 DEF OpsRestarted
<1> QED
  BY <1>1, <1>5, <1>6, <1>7, <1>8, TableUntouched

\* The steps keep the number of rows and failures at what was handled, and
\* what waits for its announcement the newest row.
LEMMA TicksStep ==
  ASSUME FuelInv, [FuelStep]_<<hourTicks, fuelVars>>
  PROVE  /\ TicksPriced' /\ SendingNewest'
         /\ opsGroup' \in Group /\ OrderedGroup(opsGroup')
         /\ opsGroup'.limit <= hourTicks'
         /\ opsPc' \in {"down", "idle", "sending"} /\ failedDraws' \in Nat
<1> USE DEF FuelInv, FuelTypeOK
<1>0. /\ opsGroup.next \in Nat /\ opsGroup.limit \in Nat /\ Len(stored) \in Nat
      /\ failedDraws \in Nat /\ hourTicks \in Nat
  BY DEF Group
<1>1. CASE OpsPoll /\ UNCHANGED hourTicks
  <2>1. /\ opsGroup' \in Group /\ OrderedGroup(opsGroup') /\ opsGroup'.limit <= hourTicks
        /\ opsGroup'.next <= opsGroup.next /\ opsGroup'.next \in Nat
    BY <1>1, OpsGroupStep DEF Group
  <2> QED
    BY <1>0, <1>1, <2>1 DEF OpsPoll, TicksPriced, SendingNewest
<1>2. CASE StorePrice /\ UNCHANGED hourTicks
  <2>1. PICK price \in WobblePrice(lastPrice) : stored' = Append(stored, price)
    BY <1>2 DEF StorePrice
  <2>2. stored' # <<>> /\ Len(stored') = Len(stored) + 1
    BY <2>1, WalkOn
  <2>3. \A i \in 1..Len(announced) : announced[i] <= Len(stored)
    BY DEF AnnouncedInOrder
  <2>4. \A i \in 1..Len(announced) : announced[i] \in Nat
    OBVIOUS
  <2>5. /\ opsGroup \in Group /\ OrderedGroup(opsGroup)
        /\ opsGroup.limit <= hourTicks /\ TicksPriced
    OBVIOUS
  <2>6. /\ opsPc' = "sending" /\ HasRecord(opsGroup)
        /\ UNCHANGED <<opsGroup, failedDraws, announced, hourTicks>>
    BY <1>2 DEF StorePrice
  <2> HIDE DEF FuelInv, FuelTypeOK
  <2>7. SendingNewest'
    <3>1. \A i \in 1..Len(announced) : announced[i] < Len(stored')
      BY <1>0, <2>2, <2>3, <2>4
    <3>2. opsGroup.next < Len(stored') + failedDraws
      BY <1>0, <2>2, <2>5 DEF TicksPriced
    <3> QED
      BY <2>2, <2>6, <3>1, <3>2 DEF SendingNewest, HasRecord
  <2>8. TicksPriced'
    BY <1>0, <2>2, <2>5, <2>6 DEF TicksPriced
  <2> QED
    BY <1>0, <2>5, <2>6, <2>7, <2>8
<1>3. CASE StoreFails /\ UNCHANGED hourTicks
  <2>1. HasRecord(opsGroup) /\ opsGroup' = Handled(opsGroup)
    BY <1>3 DEF StoreFails
  <2>2. /\ opsGroup' \in Group /\ OrderedGroup(opsGroup') /\ opsGroup'.limit <= hourTicks
        /\ opsGroup'.next <= opsGroup.next + 1 /\ opsGroup'.next \in Nat
    BY <2>1, OpsGroupStep DEF Group
  <2>3. Len(stored') \in Nat /\ Len(stored') >= Len(stored)
    BY <1>0, <1>3, WalkOn DEF StoreFails
  <2> QED
    BY <1>0, <1>3, <2>2, <2>3 DEF StoreFails, TicksPriced, SendingNewest
<1>4. CASE AnnouncePrice /\ UNCHANGED hourTicks
  <2>1. HasRecord(opsGroup) /\ opsGroup' = Handled(opsGroup)
    BY <1>4 DEF AnnouncePrice, SendingNewest
  <2>2. /\ opsGroup' \in Group /\ OrderedGroup(opsGroup') /\ opsGroup'.limit <= hourTicks
        /\ opsGroup'.next <= opsGroup.next + 1 /\ opsGroup'.next \in Nat
    BY <2>1, OpsGroupStep DEF Group
  <2> QED
    BY <1>0, <1>4, <2>2 DEF AnnouncePrice, TicksPriced, SendingNewest
<1>5. CASE AnnounceFails /\ UNCHANGED hourTicks
  <2>1. HasRecord(opsGroup) /\ opsGroup' = Handled(opsGroup)
    BY <1>5 DEF AnnounceFails, SendingNewest
  <2>2. /\ opsGroup' \in Group /\ OrderedGroup(opsGroup') /\ opsGroup'.limit <= hourTicks
        /\ opsGroup'.next <= opsGroup.next + 1 /\ opsGroup'.next \in Nat
    BY <2>1, OpsGroupStep DEF Group
  <2> QED
    BY <1>0, <1>5, <2>2 DEF AnnounceFails, TicksPriced, SendingNewest
<1>6. CASE OpsKilled /\ UNCHANGED hourTicks
  BY <1>6 DEF OpsKilled, TicksPriced, SendingNewest
<1>7. CASE OpsRestarted /\ UNCHANGED hourTicks
  <2>1. /\ opsGroup' \in Group /\ OrderedGroup(opsGroup') /\ opsGroup'.limit <= hourTicks
        /\ opsGroup'.next <= opsGroup.next /\ opsGroup'.next \in Nat
    BY <1>7, OpsGroupStep DEF Group
  <2> QED
    BY <1>0, <1>7, <2>1 DEF OpsRestarted, TicksPriced, SendingNewest
<1>8. CASE UNCHANGED <<opsVars, announced>> /\ hourTicks' \in {hourTicks, hourTicks + 1}
  BY <1>0, <1>8 DEF opsVars, TicksPriced, SendingNewest
<1>9. CASE OpsPollFails /\ UNCHANGED hourTicks
  <2>1. /\ CanPoll(opsGroup, hourTicks) /\ opsGroup' = Dropped(opsGroup, hourTicks)
        /\ failedDraws' = failedDraws + (hourTicks - opsGroup.next)
        /\ opsPc = "idle" /\ UNCHANGED <<opsPc, stored, announced>>
    BY <1>9 DEF OpsPollFails
  <2>2. /\ opsGroup' \in Group /\ OrderedGroup(opsGroup') /\ opsGroup'.limit <= hourTicks
        /\ opsGroup'.next = hourTicks
    BY <1>0, <2>1, GroupSteps
  <2>3. opsGroup.next < hourTicks
    BY <2>1 DEF CanPoll
  <2> QED
    BY <1>0, <1>9, <2>1, <2>2, <2>3 DEF TicksPriced, SendingNewest
<1>10. CASE GateWork \/ GatePollFails \/ BroadcastFails \/ GateKilled \/ HourTick
            \/ UNCHANGED <<hourTicks, fuelVars>>
  <2>1. UNCHANGED <<opsVars, announced>> /\ hourTicks' \in {hourTicks, hourTicks + 1}
    BY <1>10 DEF GateWork, GatePoll, GatePollFails, Broadcast, GateRestarted,
                BroadcastFails, GateKilled, HourTick, fuelVars, FuelStep, FuelNext, OpsWork,
                OpsPoll, OpsPollFails, StorePrice, StoreFails, AnnouncePrice, AnnounceFails, OpsKilled, OpsRestarted
  <2> QED
    BY <1>8, <2>1
<1> QED
  BY <1>1, <1>2, <1>3, <1>4, <1>5, <1>6, <1>7, <1>9, <1>10
     DEF FuelStep, FuelNext, OpsWork

\* The steps keep the announcements in the order of the table.
LEMMA AnnouncedStep ==
  ASSUME FuelInv, [FuelStep]_<<hourTicks, fuelVars>>
  PROVE  /\ AnnouncedInOrder'
         /\ announced' \in Seq(Nat) /\ Len(announced') >= Len(announced)
<1> USE DEF FuelInv, FuelTypeOK
<1>1. CASE /\ opsPc = "sending"
           /\ announced' = Append(announced, Len(stored))
           /\ stored' = stored
  <2>1. \A i \in 1..Len(announced) :
            announced[i] \in 1..Len(stored) /\ announced[i] < Len(stored)
    BY <1>1 DEF SendingNewest, AnnouncedInOrder
  <2>2. Len(stored) \in Nat /\ stored # <<>> => Len(stored) \in 1..Len(stored)
    OBVIOUS
  <2>3. /\ announced' \in Seq(Nat) /\ Len(announced) \in Nat
        /\ Len(announced') = Len(announced) + 1
        /\ announced'[Len(announced) + 1] = Len(stored)
        /\ \A i \in 1..Len(announced) : announced'[i] = announced[i]
    BY <1>1, <2>2, Appended
  <2>4. \A i \in 1..Len(announced') : announced'[i] \in 1..Len(stored)
    BY <1>1, <2>1, <2>2, <2>3 DEF SendingNewest
  <2>6. \A i, j \in 1..Len(announced) : i < j => announced[i] < announced[j]
    BY DEF AnnouncedInOrder
  <2> HIDE DEF FuelInv, FuelTypeOK
  <2>5. ASSUME NEW i \in 1..Len(announced'), NEW j \in 1..Len(announced'), i < j
        PROVE  announced'[i] < announced'[j]
    <3>1. CASE j = Len(announced) + 1
      <4>1. /\ i \in 1..Len(announced) /\ announced'[i] = announced[i]
            /\ announced'[j] = Len(stored)
        BY <2>3, <2>5, <3>1
      <4> QED
        BY <2>1, <4>1
    <3>2. CASE j # Len(announced) + 1
      <4>1. /\ i \in 1..Len(announced) /\ j \in 1..Len(announced)
            /\ announced'[i] = announced[i] /\ announced'[j] = announced[j]
        BY <2>3, <2>5, <3>2
      <4> QED
        BY <2>5, <2>6, <4>1
    <3> QED
      BY <3>1, <3>2
  <2> QED
    BY <1>1, <2>3, <2>4, <2>5 DEF AnnouncedInOrder
<1>2. CASE announced' = announced /\ Len(stored') \in Nat /\ Len(stored') >= Len(stored)
  <2>1. Len(stored) \in Nat
    OBVIOUS
  <2> QED
    BY <1>2, <2>1 DEF AnnouncedInOrder
<1>3. CASE AnnouncePrice
  BY <1>1, <1>3 DEF AnnouncePrice
<1>4. CASE AnnounceFails
  BY <1>1, <1>2, <1>4 DEF AnnounceFails
<1>5. CASE StorePrice \/ StoreFails
  <2>1. announced' = announced
    BY <1>5 DEF StorePrice, StoreFails
  <2>2. Len(stored') \in Nat /\ Len(stored') >= Len(stored)
    BY <1>5, WalkOn DEF StorePrice, StoreFails
  <2> QED
    BY <1>2, <2>1, <2>2
<1>6. CASE UNCHANGED <<stored, announced>>
  BY <1>2, <1>6
<1>7. CASE ~StorePrice /\ ~StoreFails /\ ~AnnouncePrice /\ ~AnnounceFails
  <2>1. UNCHANGED <<stored, announced>>
    BY <1>7 DEF FuelStep, HourTick, FuelNext, OpsWork, GateWork, OpsPoll, OpsPollFails,
                OpsKilled, OpsRestarted, GatePoll, GatePollFails, Broadcast,
                BroadcastFails, GateKilled,
                GateRestarted, fuelVars, opsVars
  <2> QED
    BY <1>6, <2>1
<1> QED
  BY <1>3, <1>4, <1>5, <1>7

\* The steps keep what is shown up with what was announced.
LEMMA GateStep ==
  ASSUME FuelInv, [FuelStep]_<<hourTicks, fuelVars>>
  PROVE  /\ NoAnnouncementSkipped'
         /\ gateUp' \in BOOLEAN
         /\ gateGroup' \in Group /\ OrderedGroup(gateGroup')
         /\ gateGroup'.limit <= Len(announced')
         /\ shown' \in Nat /\ failedBroadcasts' \in Nat
<1> USE DEF FuelInv, FuelTypeOK
<1>1. /\ gateGroup.next \in Nat /\ gateGroup.limit \in Nat
      /\ Len(announced) \in Nat /\ Len(announced') \in Nat
      /\ Len(announced') >= Len(announced)
  BY AnnouncedStep DEF Group
<1>2. CASE Broadcast
  <2>1. /\ HasRecord(gateGroup) /\ gateGroup' = Handled(gateGroup)
        /\ shown' = gateGroup.next + 1
    BY <1>2 DEF Broadcast, Current
  <2>2. ~(GatePoll \/ GateRestarted)
    BY <1>1, <1>2, <2>1 DEF Broadcast, GatePoll, GateRestarted, CanPoll, HasRecord
  <2>3. /\ gateGroup' \in Group /\ OrderedGroup(gateGroup')
        /\ gateGroup'.limit <= Len(announced) /\ gateGroup'.next = gateGroup.next + 1
    BY <2>1, <2>2, GateGroupStep
  <2>4. gateGroup.next < Len(announced)
    BY <1>1, <2>1 DEF HasRecord
  <2> QED
    BY <1>1, <1>2, <2>1, <2>3, <2>4 DEF Broadcast, NoAnnouncementSkipped
<1>3. CASE BroadcastFails
  <2>1. HasRecord(gateGroup) /\ gateGroup' = Handled(gateGroup)
    BY <1>3 DEF BroadcastFails
  <2>2. ~(GatePoll \/ GateRestarted)
    BY <1>1, <1>3, <2>1
       DEF BroadcastFails, GatePoll, GateRestarted, CanPoll, HasRecord
  <2>3. /\ gateGroup' \in Group /\ OrderedGroup(gateGroup')
        /\ gateGroup'.limit <= Len(announced) /\ gateGroup'.next = gateGroup.next + 1
    BY <2>1, <2>2, GateGroupStep
  <2> QED
    BY <1>1, <1>3, <2>3 DEF BroadcastFails, NoAnnouncementSkipped
<1>4. CASE GatePoll \/ GateRestarted
  <2>1. /\ gateGroup' \in Group /\ OrderedGroup(gateGroup')
        /\ gateGroup'.limit <= Len(announced) /\ gateGroup'.next <= gateGroup.next
    BY <1>4, GateGroupStep
  <2>2. gateGroup'.next \in Nat
    BY <2>1 DEF Group
  <2>3. UNCHANGED <<announced, shown, failedBroadcasts>> /\ gateUp' \in BOOLEAN
    BY <1>4 DEF GatePoll, GateRestarted
  <2> QED
    BY <1>1, <2>1, <2>2, <2>3 DEF NoAnnouncementSkipped
<1>5. CASE UNCHANGED <<gateGroup, shown, failedBroadcasts>> /\ gateUp' \in BOOLEAN
  BY <1>1, <1>5 DEF NoAnnouncementSkipped
<1>6. CASE GatePollFails
  <2>1. /\ CanPoll(gateGroup, Len(announced))
        /\ gateGroup' = Dropped(gateGroup, Len(announced))
        /\ failedBroadcasts' = failedBroadcasts + (Len(announced) - gateGroup.next)
        /\ UNCHANGED <<announced, gateUp, shown>>
    BY <1>6 DEF GatePollFails
  <2>2. /\ gateGroup' \in Group /\ OrderedGroup(gateGroup')
        /\ gateGroup'.limit <= Len(announced) /\ gateGroup'.next = Len(announced)
    BY <1>1, <2>1, GroupSteps
  <2>3. gateGroup.next < Len(announced)
    BY <2>1 DEF CanPoll
  <2>4. /\ shown \in Nat /\ failedBroadcasts \in Nat /\ gateUp \in BOOLEAN
        /\ shown <= Len(announced) /\ gateGroup.next <= shown + failedBroadcasts
    BY DEF NoAnnouncementSkipped
  <2> HIDE DEF FuelInv, FuelTypeOK
  <2>5. /\ failedBroadcasts' \in Nat
        /\ Len(announced) <= shown + failedBroadcasts'
    BY <1>1, <2>1, <2>3, <2>4
  <2>6. /\ shown' = shown /\ gateUp' = gateUp /\ announced' = announced
    BY <2>1
  <2>7. NoAnnouncementSkipped'
    BY <2>2, <2>4, <2>5, <2>6 DEF NoAnnouncementSkipped
  <2> QED
    BY <2>2, <2>4, <2>5, <2>6, <2>7
<1>7. CASE ~Broadcast /\ ~BroadcastFails /\ ~GatePoll /\ ~GatePollFails /\ ~GateRestarted
  <2>1. UNCHANGED <<gateGroup, shown, failedBroadcasts>> /\ gateUp' \in BOOLEAN
    BY <1>7 DEF FuelStep, HourTick, FuelNext, OpsWork, GateWork, OpsPoll,
                OpsPollFails, StorePrice,
                StoreFails, AnnouncePrice, AnnounceFails, OpsKilled, OpsRestarted,
                GateKilled, fuelVars, gateVars
  <2> QED
    BY <1>5, <2>1
<1> QED
  BY <1>2, <1>3, <1>4, <1>7, <1>6

\* A step counts its fault, if it has one.
LEMMA FaultStep ==
  ASSUME FuelTypeOK, [FuelStep]_<<hourTicks, fuelVars>>
  PROVE  fuelFaults' \in Nat
  BY DEF FuelTypeOK, FuelStep, HourTick, FuelNext, OpsWork, GateWork, OpsPoll, OpsPollFails,
         StorePrice, StoreFails, AnnouncePrice, AnnounceFails, OpsKilled,
         OpsRestarted, GatePoll, GatePollFails, Broadcast, BroadcastFails, GateKilled,
         GateRestarted, MayFail, fuelVars

-----------------------------------------------------------------------------
(* The invariant. *)

\* The initial states satisfy it: there is no row, no tick and no client.
LEMMA FuelInvInit ==
  ASSUME FuelInit, hourTicks = 0
  PROVE  FuelInv
<1>1. FuelTypeOK
  BY FuelAssumption, NewGroupOrdered DEF FuelInit, FuelTypeOK
<1>2. PricesWalk /\ LastPriceNear /\ SendingNewest
  BY DEF FuelInit, PricesWalk, LastPriceNear, SendingNewest
<1>3. TicksPriced /\ AnnouncedInOrder /\ NoAnnouncementSkipped
  BY NewGroupOrdered DEF FuelInit, TicksPriced, AnnouncedInOrder, NoAnnouncementSkipped
<1> QED
  BY <1>1, <1>2, <1>3 DEF FuelInit, FuelInv

\* And every step keeps it.
LEMMA FuelInvStep ==
  ASSUME FuelInv, [FuelStep]_<<hourTicks, fuelVars>>
  PROVE  FuelInv'
<1>1. hourTicks' \in Nat
  BY DEF FuelInv, FuelStep, HourTick
<1>2. FuelTypeOK'
  BY <1>1, TableStep, TicksStep, AnnouncedStep, GateStep, FaultStep
     DEF FuelInv, FuelTypeOK, OrderedGroup
<1> QED
  BY <1>1, <1>2, TableStep, TicksStep, AnnouncedStep, GateStep DEF FuelInv

\* FuelInv holds in every state, however the hour ticks come.
THEOREM FuelInvariant == FuelSpec => []FuelInv
<1>1. FuelInit /\ hourTicks = 0 => FuelInv
  BY FuelInvInit
<1>2. FuelInv /\ [FuelStep]_<<hourTicks, fuelVars>> => FuelInv'
  BY FuelInvStep
<1> QED
  BY <1>1, <1>2, PTL DEF FuelSpec, FuelStep

\* Two stored prices in a row are two draws apart at most.
THEOREM PricesAreAWalk == FuelSpec => []PricesWalk
<1>1. FuelInv => PricesWalk
  BY DEF FuelInv
<1> QED
  BY <1>1, FuelInvariant, PTL

\* Every hour tick the group is past has a stored price, unless its handler
\* or the poll that brought it failed: none is lost to a kill or a commit.
THEOREM EveryTickPriced == FuelSpec => []TicksPriced
<1>1. FuelInv => TicksPriced
  BY DEF FuelInv
<1> QED
  BY <1>1, FuelInvariant, PTL

\* The clients hear of stored prices only, in the order of the table.
THEOREM AnnouncementsOrdered == FuelSpec => []AnnouncedInOrder
<1>1. FuelInv => AnnouncedInOrder
  BY DEF FuelInv
<1> QED
  BY <1>1, FuelInvariant, PTL

\* The gateway passes over an announcement only when its broadcast, or the
\* poll that brought it, failed.
THEOREM AnnouncementsShown == FuelSpec => []NoAnnouncementSkipped
<1>1. FuelInv => NoAnnouncementSkipped
  BY DEF FuelInv
<1> QED
  BY <1>1, FuelInvariant, PTL

-----------------------------------------------------------------------------
(* The world. *)

\* The step of a part is the step of the world, or nothing.
LEMMA TickSteps ==
  ASSUME [WorldNext]_worldVars
  PROVE  [TickNext]_tickVars
  BY DEF WorldNext, worldVars

\* A step of tick-service adds at most one hour tick to the topic.
LEMMA HourTopicGrows ==
  ASSUME TickTypeOK, [TickNext]_tickVars
  PROVE  sent'["hour"] \in {sent["hour"], sent["hour"] + 1}
  BY DEF TickTypeOK, Kinds, TickNext, TickWork, ClockMoves, LoadState, BeginIteration,
         NotElapsed, SendTick, RecordTick, LoadFails, SendFails, RecordFails,
         TickKilled, TickRestarted, TickStartedAgain, tickVars

\* The topic operations-service reads is the one tick-service writes.
OneTopic == hourTicks = sent["hour"]

\* The fuel prices see the steps of the world as their own, as one more hour
\* tick, or not at all.
LEMMA FuelSteps ==
  ASSUME TickTypeOK, OneTopic, [WorldNext]_worldVars
  PROVE  OneTopic' /\ [FuelStep]_<<hourTicks, fuelVars>>
<1>1. CASE TickNext /\ hourTicks' = sent'["hour"] /\ UNCHANGED fuelVars
  <2>1. hourTicks' \in {hourTicks, hourTicks + 1}
    BY <1>1, HourTopicGrows DEF OneTopic
  <2> QED
    BY <1>1, <2>1 DEF OneTopic, FuelStep, HourTick
<1>2. CASE FuelNext /\ UNCHANGED <<tickVars, hourTicks>>
  BY <1>2 DEF OneTopic, FuelStep, tickVars
<1>3. CASE UNCHANGED worldVars
  BY <1>3 DEF OneTopic, worldVars, tickVars
<1> QED
  BY <1>1, <1>2, <1>3 DEF WorldNext

\* The world's tick-service is the tick loop of TickLoop.
THEOREM WorldHasTickLoop == WorldSpec => TickSpec
<1>1. WorldInit => TickInit
  BY DEF WorldInit
<1>2. [WorldNext]_worldVars => [TickNext]_tickVars
  BY TickSteps
<1> QED
  BY <1>1, <1>2, PTL DEF WorldSpec, TickSpec

\* And its operations-service and gateway are those of FuelPrices.
THEOREM WorldHasFuelPrices == WorldSpec => FuelSpec
<1>1. WorldInit => FuelInit /\ hourTicks = 0 /\ OneTopic
  BY DEF WorldInit, TickInit, OneTopic, Kinds
<1>2. TickInv => TickTypeOK
  BY DEF TickInv
<1>3. TickTypeOK /\ OneTopic /\ [WorldNext]_worldVars
      => OneTopic' /\ [FuelStep]_<<hourTicks, fuelVars>>
  BY FuelSteps
<1> QED
  BY <1>1, <1>2, <1>3, WorldHasTickLoop, TickInvariant, PTL
     DEF WorldSpec, FuelSpec, FuelStep

\* The types of the whole world.
THEOREM WorldTypeCorrect == WorldSpec => []WorldTypeOK
<1>1. WorldInit => OneTopic
  BY DEF WorldInit, TickInit, OneTopic, Kinds
<1>2. TickInv => TickTypeOK
  BY DEF TickInv
<1>3. TickTypeOK /\ OneTopic /\ [WorldNext]_worldVars => OneTopic'
  BY FuelSteps
<1>4. TickTypeOK /\ OneTopic /\ FuelInv => WorldTypeOK
  BY DEF FuelInv, WorldTypeOK, OneTopic
<1> QED
  BY <1>1, <1>2, <1>3, <1>4, WorldHasTickLoop, TickInvariant, WorldHasFuelPrices,
     FuelInvariant, PTL DEF WorldSpec

\* No tick is skipped and none is sent twice without a fault, in the world.
THEOREM WorldTicks == WorldSpec => [](NoTickSkipped /\ DuplicatesBounded)
  BY WorldHasTickLoop, TicksNotSkipped, DuplicatesPerFault, PTL

\* Its prices are a walk, and an hour tick without one had a failure.
THEOREM WorldPrices == WorldSpec => [](PricesWalk /\ TicksPriced)
  BY WorldHasFuelPrices, PricesAreAWalk, EveryTickPriced, PTL
==============================================================================
