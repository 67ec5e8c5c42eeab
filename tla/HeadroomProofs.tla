--------------------------- MODULE HeadroomProofs ---------------------------
(***************************************************************************)
(* What Headroom promises, for any airports, zones, patterns and requests: *)
(* types, the night ban, and that activations keep to the capacity.        *)
(***************************************************************************)
EXTENDS Headroom, TLAPS, FiniteSetTheorems, WellFoundedInduction

-----------------------------------------------------------------------------
(* Numbers.                                                                *)

\* What holds of 0 and with n of n + 1 holds of every number: of the numbers
\* it does not hold of, none is the least.
LEMMA NumberSteps ==
    ASSUME NEW A, 0 \in A, \A n \in Nat : n \in A => n + 1 \in A
    PROVE  Nat \subseteq A
  <1> DEFINE T == Nat \ A
  <1>1. SUFFICES ASSUME T # {} PROVE FALSE
    OBVIOUS
  <1>2. PICK n \in T : \A m \in T : ~(<<m, n>> \in OpToRel(<, Nat))
    BY <1>1, WFMin, NatLessThanWellFounded
  <1>3. \A m \in T : ~(m < n)
    BY <1>2 DEF OpToRel
  <1>4. n - 1 \in Nat /\ n - 1 \notin T
    BY <1>3
  <1> QED
    BY <1>4

\* A multiple of one number that lies below it, either side, is no multiple
\* but zero.
LEMMA NoMultiple ==
    ASSUME NEW D \in Nat \ {0}, NEW k \in Int, NEW r \in Int,
           r = D * k, r < D, -D < r
    PROVE  r = 0
  <1>1. CASE k >= 1
    <2>1. D * k >= D * 1
      BY <1>1
    <2> QED
      BY <2>1
  <1>2. CASE k <= -1
    <2>1. D * k <= D * (-1)
      BY <1>2
    <2> QED
      BY <2>1
  <1> QED
    BY <1>1, <1>2

\* Quotient and remainder.
LEMMA Divided ==
    ASSUME NEW D \in Nat \ {0}, NEW x \in Int
    PROVE  /\ x = D * (x \div D) + (x % D)
           /\ x \div D \in Int
           /\ x % D \in 0 .. (D - 1)
  OBVIOUS

\* The remainder is unique.
LEMMA Remainder ==
    ASSUME NEW D \in Nat \ {0}, NEW x \in Int, NEW q \in Int, NEW r \in 0 .. (D - 1),
           x = D * q + r
    PROVE  x % D = r
  <1> DEFINE s == x % D
             k == x \div D
  <1>1. x = D * k + s /\ k \in Int /\ s \in 0 .. (D - 1)
    BY Divided
  <1> HIDE DEF s, k
  <1>2. D * (k - q) = D * k - D * q
    BY <1>1
  <1>3. r - s = D * (k - q)
    BY <1>1, <1>2
  <1>4. r - s = 0
    BY <1>1, <1>3, NoMultiple
  <1> QED
    BY <1>1, <1>4 DEF s

\* So is the quotient.
LEMMA Quotient ==
    ASSUME NEW D \in Nat \ {0}, NEW x \in Int, NEW q \in Int, NEW r \in 0 .. (D - 1),
           x = D * q + r
    PROVE  x \div D = q
  <1> DEFINE s == x % D
             k == x \div D
  <1>1. x = D * k + s /\ k \in Int /\ s \in 0 .. (D - 1)
    BY Divided
  <1>2. s = r
    BY Remainder
  <1> HIDE DEF s, k
  <1>3. D * (k - q) = D * k - D * q /\ k - q \in Int
    BY <1>1
  <1>4. D * (k - q) = 0
    BY <1>1, <1>2, <1>3
  <1>5. CASE k - q >= 1
    <2>1. D * (k - q) >= D * 1
      BY <1>1, <1>5
    <2> QED
      BY <1>4, <2>1
  <1>6. CASE k - q <= -1
    <2>1. D * (k - q) <= D * (-1)
      BY <1>1, <1>6
    <2> QED
      BY <1>4, <2>1
  <1>7. k = q
    BY <1>1, <1>5, <1>6
  <1> QED
    BY <1>7 DEF k

\* Whole days do not change the time of day, and are counted.
LEMMA DaysOff ==
    ASSUME NEW D \in Nat \ {0}, NEW x \in Int, NEW k \in Int
    PROVE  /\ (k * D + x) % D = x % D
           /\ (k * D + x) \div D = k + (x \div D)
  <1> DEFINE s == x % D
             q == x \div D
  <1>1. x = D * q + s /\ q \in Int /\ s \in 0 .. (D - 1)
    BY Divided
  <1> HIDE DEF s, q
  <1>2. D * (k + q) = k * D + D * q
    BY <1>1
  <1>3. k * D + x = D * (k + q) + s /\ k * D + x \in Int /\ k + q \in Int
    BY <1>1, <1>2
  <1> QED
    BY <1>1, <1>3, Remainder, Quotient DEF s, q

\* Nor does it matter whether days are dropped before more time is added.
LEMMA DaysDropped ==
    ASSUME NEW D \in Nat \ {0}, NEW x \in Int, NEW y \in Int
    PROVE  /\ ((x % D) + y) % D = (x + y) % D
           /\ (x \div D) + (((x % D) + y) \div D) = (x + y) \div D
  <1> DEFINE s == x % D
             q == x \div D
  <1>1. x = D * q + s /\ q \in Int /\ s \in 0 .. (D - 1)
    BY Divided
  <1> HIDE DEF s, q
  <1>2. x + y = q * D + (s + y) /\ s + y \in Int
    BY <1>1
  <1>3. /\ (q * D + (s + y)) % D = (s + y) % D
        /\ (q * D + (s + y)) \div D = q + ((s + y) \div D)
    BY <1>1, <1>2, DaysOff
  <1> QED
    BY <1>2, <1>3 DEF s, q

-----------------------------------------------------------------------------
(* Local times.  The planner's local times of a pattern are those of the   *)
(* flights that come of it on every day on which the clocks show what they *)
(* show on the reference date.                                             *)

ScheduleIds == [aircraft : Aircraft, pattern : Patterns, start : Int]

Statuses == {"scheduled", "boarding", "in_flight", "completed", "cancelled"}

Rows == [sched : ScheduleIds, from : Airports, to : Airports, dep : Int, arr : Int,
         status : Statuses]

\* What the clocks of an airport show on the reference date.
RefDay(a, t) == (t + Reference[a]) \div DayLen

RefTime(a, t) == (t + Reference[a]) % DayLen

\* The clocks of an airport show the same day and time whether they are worked
\* out day by day or from the instant.
LEMMA ClocksAgree ==
    ASSUME NEW a \in Airports, NEW day \in Int, NEW time \in Int
    PROVE  /\ RefTime(a, day * DayLen + (time - Reference[a])) = time % DayLen
           /\ RefDay(a, day * DayLen + (time - Reference[a])) = day + (time \div DayLen)
  <1>1. Reference[a] \in Int /\ DayLen \in Nat \ {0}
    BY HeadroomAssumption
  <1>2. \A z, n \in Int : (n + (time - z)) + z = n + time
    OBVIOUS
  <1>3. day * DayLen \in Int
    BY <1>1
  <1>4. (day * DayLen + (time - Reference[a])) + Reference[a] = day * DayLen + time
    BY <1>1, <1>2, <1>3
  <1>5. /\ (day * DayLen + time) % DayLen = time % DayLen
        /\ (day * DayLen + time) \div DayLen = day + (time \div DayLen)
    BY <1>1, DaysOff
  <1> QED
    BY <1>4, <1>5 DEF RefTime, RefDay

\* The four local times of an operating day of pattern p.
OutTime(p) == p.time

ThereTime(p) ==
    (p.time + (Block - Reference[Origin[p.route]] + Reference[Destination[p.route]])) % DayLen

BackTime(p) == (ThereTime(p) + p.turn) % DayLen

HomeTime(p) ==
    (BackTime(p) + (Block - Reference[Destination[p.route]] + Reference[Origin[p.route]])) % DayLen

\* And how many local days after the operating day they are.
ThereDay(p) ==
    (p.time + (Block - Reference[Origin[p.route]] + Reference[Destination[p.route]])) \div DayLen

BackDay(p) == ThereDay(p) + ((ThereTime(p) + p.turn) \div DayLen)

HomeDay(p) ==
    BackDay(p) + ((BackTime(p) + (Block - Reference[Destination[p.route]] + Reference[Origin[p.route]]))
                     \div DayLen)

\* They are whole numbers of days and ticks.
LEMMA UseDays ==
    ASSUME NEW p \in Patterns
    PROVE  /\ ThereDay(p) \in Int /\ BackDay(p) \in Int /\ HomeDay(p) \in Int
           /\ (ThereTime(p) + p.turn) \div DayLen \in Int
           /\ (BackTime(p) + (Block - Reference[Destination[p.route]] + Reference[Origin[p.route]]))
                 \div DayLen \in Int
  <1> DEFINE o == Origin[p.route]
             d == Destination[p.route]
             home == (BackTime(p) + (Block - Reference[d] + Reference[o])) \div DayLen
             back == (ThereTime(p) + p.turn) \div DayLen
  <1>1. Reference[o] \in Int /\ Reference[d] \in Int /\ Block \in Int /\ DayLen \in Nat \ {0}
    BY HeadroomAssumption DEF Patterns
  <1>2. p.time \in Int /\ p.turn \in Int
    BY <1>1 DEF Patterns
  <1>3. ThereTime(p) \in Int /\ ThereDay(p) \in Int
    BY <1>1, <1>2 DEF ThereTime, ThereDay
  <1>4. BackTime(p) \in Int /\ back \in Int
    BY <1>1, <1>2, <1>3 DEF BackTime
  <1>5. home \in Int
    BY <1>1, <1>4
  <1> HIDE DEF home, back
  <1>6. BackDay(p) \in Int
    BY <1>3, <1>4 DEF BackDay, back
  <1>7. HomeDay(p) \in Int
    BY <1>5, <1>6 DEF HomeDay, home
  <1> QED
    BY <1>3, <1>4, <1>5, <1>6, <1>7 DEF home, back

\* They are those of the planner's uses.
LEMMA UseTimes ==
    ASSUME NEW p \in Patterns
    PROVE  PlannedUses(p) =
              {Use("departure", Origin[p.route], 0, OutTime(p)),
               Use("arrival", Destination[p.route], ThereDay(p), ThereTime(p)),
               Use("return departure", Destination[p.route], BackDay(p), BackTime(p)),
               Use("return arrival", Origin[p.route], HomeDay(p), HomeTime(p))}
  <1> DEFINE o == Origin[p.route]
             d == Destination[p.route]
             there == ArrivalLocal(p.time, o, d)
             back == AddTicks(there.time, p.turn)
             home == ArrivalLocal(back.time, d, o)
  <1>1. there.time = ThereTime(p) /\ back.time = BackTime(p) /\ home.time = HomeTime(p)
    BY DEF ThereTime, BackTime, HomeTime, ArrivalLocal, AddTicks
  <1>2. there.day = ThereDay(p)
    BY DEF ThereDay, ArrivalLocal, AddTicks
  <1>3. back.day = (there.time + p.turn) \div DayLen
    BY DEF AddTicks
  <1>4. home.day = (back.time + (Block - Reference[d] + Reference[o])) \div DayLen
    BY DEF ArrivalLocal, AddTicks
  <1>5. PlannedUses(p) = {Use("departure", o, 0, p.time),
                          Use("arrival", d, there.day, there.time),
                          Use("return departure", d, there.day + back.day, back.time),
                          Use("return arrival", o, there.day + back.day + home.day, home.time)}
    BY DEF PlannedUses
  <1> HIDE DEF there, back, home
  <1>6. there.day + back.day = BackDay(p)
    BY <1>1, <1>2, <1>3 DEF BackDay
  <1>7. there.day + back.day + home.day = HomeDay(p)
    BY <1>1, <1>4, <1>6 DEF HomeDay
  <1> QED
    BY <1>1, <1>2, <1>5, <1>6, <1>7 DEF OutTime

\* A pattern the ban lets pass is in the open at its four local times.
LEMMA NotAtNight ==
    ASSUME NEW p \in Patterns, ~NightProhibited(p)
    PROVE  /\ Origin[p.route] \in ClosedAtNight =>
                 OutTime(p) \notin Night /\ HomeTime(p) \notin Night
           /\ Destination[p.route] \in ClosedAtNight =>
                 ThereTime(p) \notin Night /\ BackTime(p) \notin Night
  <1>1. PlannedUses(p) =
           {Use("departure", Origin[p.route], 0, OutTime(p)),
            Use("arrival", Destination[p.route], ThereDay(p), ThereTime(p)),
            Use("return departure", Destination[p.route], BackDay(p), BackTime(p)),
            Use("return arrival", Origin[p.route], HomeDay(p), HomeTime(p))}
    BY UseTimes
  <1>2. \A u \in PlannedUses(p) : u.at \in ClosedAtNight => u.time \notin Night
    BY DEF NightProhibited
  <1>3. \A leg, a, day, time :
           Use(leg, a, day, time) \in PlannedUses(p) /\ a \in ClosedAtNight => time \notin Night
    BY <1>2 DEF Use
  <1> QED
    BY <1>1, <1>3

\* Time on the ground is added day by day, or to the instant.
LEMMA GroundClocks ==
    ASSUME NEW a \in Airports, NEW n \in Int, NEW turn \in Int
    PROVE  /\ RefTime(a, n + turn) = (RefTime(a, n) + turn) % DayLen
           /\ RefDay(a, n + turn) = RefDay(a, n) + ((RefTime(a, n) + turn) \div DayLen)
  <1>1. Reference[a] \in Int /\ DayLen \in Nat \ {0}
    BY HeadroomAssumption
  <1>2. n + Reference[a] \in Int /\ (n + turn) + Reference[a] = (n + Reference[a]) + turn
    BY <1>1
  <1>3. /\ (((n + Reference[a]) % DayLen) + turn) % DayLen = ((n + Reference[a]) + turn) % DayLen
        /\ ((n + Reference[a]) \div DayLen) + ((((n + Reference[a]) % DayLen) + turn) \div DayLen)
              = ((n + Reference[a]) + turn) \div DayLen
    BY <1>1, <1>2, DaysDropped
  <1> QED
    BY <1>2, <1>3 DEF RefTime, RefDay

\* A leg that departs at an instant lands on the local day and at the local time
\* the planner adds up to from those of its departure.
LEMMA FlightClocks ==
    ASSUME NEW a \in Airports, NEW b \in Airports, NEW n \in Int
    PROVE  /\ RefTime(b, n + Block) = (RefTime(a, n) + (Block - Reference[a] + Reference[b])) % DayLen
           /\ RefDay(b, n + Block)
                 = RefDay(a, n) + ((RefTime(a, n) + (Block - Reference[a] + Reference[b])) \div DayLen)
  <1>1. Reference[a] \in Int /\ Reference[b] \in Int /\ Block \in Int /\ DayLen \in Nat \ {0}
    BY HeadroomAssumption
  <1>2. n + Reference[a] \in Int /\ Block - Reference[a] + Reference[b] \in Int
    BY <1>1
  <1>3. \A za, zb, k \in Int : (n + k) + zb = (n + za) + (k - za + zb)
    OBVIOUS
  <1>4. (n + Block) + Reference[b] = (n + Reference[a]) + (Block - Reference[a] + Reference[b])
    BY <1>1, <1>3
  <1> DEFINE shift == Block - Reference[a] + Reference[b]
  <1>5. /\ (((n + Reference[a]) % DayLen) + shift) % DayLen = ((n + Reference[a]) + shift) % DayLen
        /\ ((n + Reference[a]) \div DayLen) + ((((n + Reference[a]) % DayLen) + shift) \div DayLen)
              = ((n + Reference[a]) + shift) \div DayLen
    BY <1>1, <1>2, DaysDropped
  <1> QED
    BY <1>4, <1>5 DEF RefTime, RefDay

\* A flight leaves and lands at the times the planner has for pattern p.
FliesBy(f, p) ==
    \/ /\ f.from = Origin[p.route] /\ f.to = Destination[p.route]
       /\ LocalTime(f.from, f.dep) = OutTime(p)
       /\ LocalTime(f.to, f.arr) = ThereTime(p)
    \/ /\ f.from = Destination[p.route] /\ f.to = Origin[p.route]
       /\ LocalTime(f.from, f.dep) = BackTime(p)
       /\ LocalTime(f.to, f.arr) = HomeTime(p)

\* It is the outbound, or the return, flight of an operating day.
FliesOut(f, p, day) ==
    /\ f.from = Origin[p.route] /\ f.to = Destination[p.route]
    /\ LocalDay(f.from, f.dep) = day
    /\ LocalDay(f.to, f.arr) = day + ThereDay(p)

FliesHome(f, p, day) ==
    /\ f.from = Destination[p.route] /\ f.to = Origin[p.route]
    /\ LocalDay(f.from, f.dep) = day + BackDay(p)
    /\ LocalDay(f.to, f.arr) = day + HomeDay(p)

\* A flight is a row between its two airports.
LEMMA FlightTyped ==
    ASSUME NEW id \in ScheduleIds, NEW a \in Airports, NEW b \in Airports,
           NEW n \in Int, NEW t \in Int
    PROVE  /\ Flight(id, a, b, n, t) \in Rows
           /\ Flight(id, a, b, n, t).sched = id
           /\ Flight(id, a, b, n, t).from = a
           /\ Flight(id, a, b, n, t).to = b
           /\ Flight(id, a, b, n, t).dep = n
           /\ Flight(id, a, b, n, t).arr = n + Block
  <1>1. n + Block \in Int
    BY HeadroomAssumption
  <1> QED
    BY <1>1 DEF Flight, Rows, StatusAt, Statuses

\* The instant at which the outbound leg of an operating day departs, and its
\* wall time.
Wall(id, i) == ScheduleDay(id, i) * DayLen + id.pattern.time

Leaves(id, i) == WallTimeToUtc(Origin[id.pattern.route], Wall(id, i))

\* The legs take turns, and the return leg waits for the turnaround.
LEMMA LegByLeg ==
    ASSUME NEW id, NEW i, NEW t
    PROVE  LET p == id.pattern
               o == Origin[p.route]
               d == Destination[p.route]
               outbound == Flight(id, o, d, Leaves(id, i), t)
           IN  ScheduleFlight(id, i, t) =
                  IF i % 2 = 1 THEN outbound ELSE Flight(id, d, o, outbound.arr + p.turn, t)
  BY DEF ScheduleFlight, Leaves, Wall

\* Offsets are numbers, and one of two.
LEMMA OffsetTyped ==
    ASSUME NEW a \in Airports, NEW t
    PROVE  Offset(a, t) \in Int /\ Offset(a, t) \in {Zone[a], Changed[a]}
  BY HeadroomAssumption DEF Offset

\* The numbers of an instance.
LEMMA Numbers ==
    /\ Block \in Int /\ DayLen \in Int /\ DayLen \in Nat \ {0}
    /\ WeekLen \in Nat \ {0} /\ WeekLen \in Int
  BY HeadroomAssumption

\* And of a schedule.
LEMMA IdTyped ==
    ASSUME NEW id \in ScheduleIds
    PROVE  LET p == id.pattern
               o == Origin[p.route]
               d == Destination[p.route]
           IN  /\ p \in Patterns /\ id.start \in Int
               /\ o \in Airports /\ d \in Airports /\ o # d
               /\ p.time \in 0 .. (DayLen - 1) /\ p.time \in Int /\ p.turn \in Int
               /\ Reference[o] \in Int /\ Reference[d] \in Int
  <1> DEFINE p == id.pattern
  <1>1. p \in Patterns /\ id.start \in Int
    BY DEF ScheduleIds
  <1> HIDE DEF p
  <1>2. p.route \in Routes /\ p.time \in 0 .. (DayLen - 1) /\ p.turn \in Nat
    BY <1>1 DEF Patterns
  <1>3. p.time \in Int /\ p.turn \in Int
    BY <1>2, Numbers
  <1>4. /\ Origin[p.route] \in Airports /\ Destination[p.route] \in Airports
        /\ Origin[p.route] # Destination[p.route]
    BY <1>2, HeadroomAssumption
  <1>5. \A a \in Airports : Reference[a] \in Int
    BY HeadroomAssumption
  <1> QED
    BY <1>1, <1>2, <1>3, <1>4, <1>5 DEF p

\* The flights of an operating day are rows between the ends of the route.
LEMMA FlightShape ==
    ASSUME NEW id \in ScheduleIds, NEW i \in Nat, NEW t \in Int
    PROVE  LET p == id.pattern
               o == Origin[p.route]
               d == Destination[p.route]
               f == ScheduleFlight(id, i, t)
           IN  /\ f \in Rows /\ f.sched = id /\ f.arr = f.dep + Block
               /\ ScheduleDay(id, i) \in Int /\ Wall(id, i) \in Int /\ Leaves(id, i) \in Int
               /\ i % 2 = 1 => f.from = o /\ f.to = d /\ f.dep = Leaves(id, i)
               /\ i % 2 # 1 => /\ f.from = d /\ f.to = o
                               /\ f.dep = (Leaves(id, i) + Block) + p.turn
  <1> DEFINE p == id.pattern
             o == Origin[p.route]
             d == Destination[p.route]
             dep == Leaves(id, i)
             back == (dep + Block) + p.turn
  <1>1. /\ p \in Patterns /\ o \in Airports /\ d \in Airports /\ id.start \in Int
        /\ p.time \in Int /\ p.turn \in Int /\ Block \in Int /\ DayLen \in Int
    BY IdTyped, Numbers
  <1>2. ScheduleDay(id, i) \in Int
    BY <1>1 DEF ScheduleDay
  <1>3. Wall(id, i) \in Int
    BY <1>1, <1>2 DEF Wall
  <1>4. dep \in Int
    BY <1>1, <1>3, OffsetTyped DEF Leaves, WallTimeToUtc
  <1> HIDE DEF dep
  <1>5. back \in Int
    BY <1>1, <1>4
  <1>6. ScheduleFlight(id, i, t) =
           IF i % 2 = 1 THEN Flight(id, o, d, dep, t)
           ELSE Flight(id, d, o, Flight(id, o, d, dep, t).arr + p.turn, t)
    BY LegByLeg DEF dep
  <1>7. Flight(id, o, d, dep, t).arr = dep + Block
    BY <1>1, <1>4, FlightTyped
  <1> HIDE DEF back
  <1>8. CASE i % 2 = 1
    <2>1. ScheduleFlight(id, i, t) = Flight(id, o, d, dep, t)
      BY <1>6, <1>8
    <2> QED
      BY <1>1, <1>2, <1>3, <1>4, <1>8, <2>1, FlightTyped DEF dep
  <1>9. CASE i % 2 # 1
    <2>1. ScheduleFlight(id, i, t) = Flight(id, d, o, back, t)
      BY <1>6, <1>7, <1>9 DEF back
    <2> QED
      BY <1>1, <1>2, <1>3, <1>4, <1>5, <1>9, <2>1, FlightTyped DEF dep, back
  <1> QED
    BY <1>8, <1>9

\* On the planner's clocks the first departure of the operating day has been
\* worked out with the offset of the reference date.
LEMMA WorkedOut ==
    ASSUME NEW id \in ScheduleIds, NEW i \in Nat, NEW t \in Int, NEW f,
           f = ScheduleFlight(id, i, t), OnPlannersClocks(f)
    PROVE  Leaves(id, i) = Wall(id, i) - Reference[Origin[id.pattern.route]]
  <1> DEFINE p == id.pattern
             o == Origin[p.route]
             d == Destination[p.route]
             dep == Leaves(id, i)
             z == Offset(o, Wall(id, i))
  <1>1. /\ o \in Airports /\ d \in Airports /\ o # d
        /\ p.turn \in Int /\ Block \in Int
    BY IdTyped, Numbers
  <1>2. /\ f.sched = id /\ Wall(id, i) \in Int /\ dep \in Int
        /\ i % 2 = 1 => f.from = o /\ f.dep = dep
        /\ i % 2 # 1 => f.from = d /\ f.dep = (dep + Block) + p.turn
    BY FlightShape
  <1>3. z \in Int /\ z \in {Zone[o], Changed[o]}
    BY <1>1, OffsetTyped
  <1>4. dep = Wall(id, i) - z
    BY DEF Leaves, WallTimeToUtc
  <1> HIDE DEF dep
  <1>5. OutboundDep(f) = dep
    <2>1. \A x, y, n \in Int : (((x + y) + n) - n) - y = x
      OBVIOUS
    <2> QED
      BY <1>1, <1>2, <2>1 DEF OutboundDep
  <1> HIDE DEF z
  <1>6. Offset(o, dep + z) = Reference[o]
    BY <1>2, <1>3, <1>5 DEF OnPlannersClocks
  <1>7. dep + z = Wall(id, i)
    BY <1>2, <1>3, <1>4
  <1>8. z = Reference[o]
    BY <1>6, <1>7 DEF z
  <1> QED
    BY <1>4, <1>8 DEF dep

\* On the planner's clocks the flights of an operating day fly on the days and
\* at the times that the planner has worked out.
LEMMA FlightTimes ==
    ASSUME NEW id \in ScheduleIds, NEW i \in Nat, NEW t \in Int, NEW f,
           f = ScheduleFlight(id, i, t), OnPlannersClocks(f)
    PROVE  /\ FliesBy(f, id.pattern)
           /\ i % 2 = 1 => FliesOut(f, id.pattern, ScheduleDay(id, i))
           /\ i % 2 # 1 => FliesHome(f, id.pattern, ScheduleDay(id, i))
  <1> DEFINE p == id.pattern
             o == Origin[p.route]
             d == Destination[p.route]
             day == ScheduleDay(id, i)
             dep == Leaves(id, i)
             back == (dep + Block) + p.turn
  <1>1. /\ p \in Patterns /\ o \in Airports /\ d \in Airports
        /\ p.time \in 0 .. (DayLen - 1) /\ p.time \in Int /\ p.turn \in Int
        /\ Reference[o] \in Int /\ Block \in Int /\ DayLen \in Nat \ {0}
    BY IdTyped, Numbers
  <1>2. /\ f.sched = id /\ f.arr = f.dep + Block
        /\ day \in Int /\ Wall(id, i) \in Int /\ dep \in Int
        /\ i % 2 = 1 => f.from = o /\ f.to = d /\ f.dep = dep
        /\ i % 2 # 1 => f.from = d /\ f.to = o /\ f.dep = back
    BY FlightShape
  <1>3. /\ LocalTime(f.from, f.dep) = RefTime(f.from, f.dep)
        /\ LocalDay(f.from, f.dep) = RefDay(f.from, f.dep)
        /\ LocalTime(f.to, f.arr) = RefTime(f.to, f.arr)
        /\ LocalDay(f.to, f.arr) = RefDay(f.to, f.arr)
    BY DEF OnPlannersClocks, LocalTime, LocalDay, RefTime, RefDay
  <1>4. dep = Wall(id, i) - Reference[o]
    BY WorkedOut
  <1>5. dep = day * DayLen + (p.time - Reference[o])
    <2>1. \A x, y, n \in Int : (x + y) - n = x + (y - n)
      OBVIOUS
    <2>2. Wall(id, i) = day * DayLen + p.time /\ day * DayLen \in Int
      BY <1>1, <1>2 DEF Wall
    <2> HIDE DEF day, dep
    <2> QED
      BY <1>1, <1>4, <2>1, <2>2
  <1>6. RefTime(o, dep) = OutTime(p) /\ RefDay(o, dep) = day
    <2>1. /\ RefTime(o, day * DayLen + (p.time - Reference[o])) = p.time % DayLen
          /\ RefDay(o, day * DayLen + (p.time - Reference[o])) = day + (p.time \div DayLen)
      <3> HIDE DEF day, dep, p, o
      <3> QED
        BY <1>1, <1>2, ClocksAgree
    <2>2. p.time = DayLen * 0 + p.time
      BY <1>1
    <2>3. p.time % DayLen = p.time /\ p.time \div DayLen = 0
      BY <1>1, <2>2, Remainder, Quotient
    <2> HIDE DEF day, dep
    <2> QED
      BY <1>2, <1>5, <2>1, <2>3 DEF OutTime
  <1> HIDE DEF day, dep
  <1>7. dep + Block \in Int /\ back \in Int
    BY <1>1, <1>2
  <1>8. RefTime(d, dep + Block) = ThereTime(p) /\ RefDay(d, dep + Block) = day + ThereDay(p)
    BY <1>1, <1>2, <1>6, FlightClocks DEF ThereTime, ThereDay, OutTime
  <1>9. RefTime(d, back) = BackTime(p) /\ RefDay(d, back) = day + BackDay(p)
    <2>1. /\ RefTime(d, (dep + Block) + p.turn) = (RefTime(d, dep + Block) + p.turn) % DayLen
          /\ RefDay(d, (dep + Block) + p.turn)
                = RefDay(d, dep + Block) + ((RefTime(d, dep + Block) + p.turn) \div DayLen)
      BY <1>1, <1>7, GroundClocks
    <2>2. ThereDay(p) \in Int /\ (ThereTime(p) + p.turn) \div DayLen \in Int
      BY <1>1, UseDays
    <2> QED
      BY <1>2, <1>8, <2>1, <2>2 DEF BackTime, BackDay
  <1> HIDE DEF back
  <1>10. RefTime(o, back + Block) = HomeTime(p) /\ RefDay(o, back + Block) = day + HomeDay(p)
    <2>1. /\ RefTime(o, back + Block) = HomeTime(p)
          /\ RefDay(o, back + Block) = RefDay(d, back)
                + ((BackTime(p) + (Block - Reference[d] + Reference[o])) \div DayLen)
      BY <1>1, <1>7, <1>9, FlightClocks DEF HomeTime
    <2>2. /\ BackDay(p) \in Int
          /\ (BackTime(p) + (Block - Reference[d] + Reference[o])) \div DayLen \in Int
      BY <1>1, UseDays
    <2> QED
      BY <1>2, <1>9, <2>1, <2>2 DEF HomeDay
  <1>11. CASE i % 2 = 1
    <2>1. f.from = o /\ f.to = d /\ f.dep = dep /\ f.arr = dep + Block
      BY <1>2, <1>11
    <2>2. FliesBy(f, p) /\ FliesOut(f, p, day)
      BY <1>3, <1>6, <1>8, <2>1 DEF FliesBy, FliesOut
    <2> QED
      BY <1>11, <2>2 DEF day
  <1>12. CASE i % 2 # 1
    <2>1. f.from = d /\ f.to = o /\ f.dep = back /\ f.arr = back + Block
      BY <1>2, <1>12
    <2>2. FliesBy(f, p) /\ FliesHome(f, p, day)
      BY <1>3, <1>9, <1>10, <2>1 DEF FliesBy, FliesHome
    <2> QED
      BY <1>12, <2>2 DEF day
  <1> QED
    BY <1>11, <1>12

-----------------------------------------------------------------------------
(* What a request plans.                                                   *)

\* A flight keeps the night bans of its two airports; the rows of the documents
\* do as long as the clocks are the planner's.
ByDay(f) ==
    /\ f.from \in ClosedAtNight => LocalTime(f.from, f.dep) \notin Night
    /\ f.to \in ClosedAtNight => LocalTime(f.to, f.arr) \notin Night

DayRows == {f \in Rows : OnPlannersClocks(f) => ByDay(f)}

ScheduleRows == [id : ScheduleIds, status : {"active", "draft"}]

\* What a plan has to save is typed and flies by day.
PlanTyped(plan) ==
    /\ plan.schedules \in SUBSET ScheduleRows
    /\ \A r \in plan.rows : r.flight \in DayRows

\* The flights of a pattern that is not prohibited are such rows.
LEMMA PatternByDay ==
    ASSUME NEW id \in ScheduleIds, ~NightProhibited(id.pattern), NEW n, NEW round,
           NEW t \in Int, NEW r \in GenerateFlights(n, id, round, t)
    PROVE  r.flight \in DayRows
  <1>1. PICK i \in GeneratedIndices(id, round) : r.flight = ScheduleFlight(id, i, t)
    BY DEF GenerateFlights
  <1>2. i \in Nat
    BY DEF GeneratedIndices
  <1> DEFINE f == ScheduleFlight(id, i, t)
  <1>3. f \in Rows /\ (OnPlannersClocks(f) => FliesBy(f, id.pattern))
    BY <1>2, FlightShape, FlightTimes
  <1> HIDE DEF f
  <1>4. id.pattern \in Patterns
    BY DEF ScheduleIds
  <1>5. OnPlannersClocks(f) => ByDay(f)
    BY <1>3, <1>4, NotAtNight DEF FliesBy, ByDay
  <1> QED
    BY <1>1, <1>3, <1>5 DEF DayRows, f

\* Placing one more pattern keeps the plan so: the pattern became active only
\* if the ban lets it pass.
LEMMA PlaceTyped ==
    ASSUME NEW plan, PlanTyped(plan), NEW n, NEW body, body.aircraft \in Aircraft,
           body.patterns[n] \in Patterns, NEW start \in Int, NEW fits, NEW t \in Int
    PROVE  PlanTyped(Place(plan, n, body, start, fits, t))
  <1> DEFINE id == ScheduleId(body.aircraft, body.patterns[n], start)
             active == CanActivate(plan.view, body.aircraft, body.patterns[n], fits)
             rows == {r \in GenerateFlights(n, id, body.round, t) : active /\ r.flight.dep >= t}
             placed == Place(plan, n, body, start, fits, t)
  <1>1. id \in ScheduleIds /\ id.pattern = body.patterns[n]
    BY DEF ScheduleId, ScheduleIds
  <1>2. Schedule(id, active) \in ScheduleRows
    BY <1>1 DEF Schedule, ScheduleRows
  <1>3. \A r \in rows : r.flight \in DayRows
    BY <1>1, PatternByDay DEF CanActivate
  <1>4. /\ placed.schedules = plan.schedules \cup {Schedule(id, active)}
        /\ placed.rows = plan.rows \cup rows
    BY DEF Place
  <1> HIDE DEF id, active, rows, placed
  <1>5. PlanTyped(placed)
    BY <1>2, <1>3, <1>4 DEF PlanTyped
  <1> QED
    BY <1>5 DEF placed

\* The plans c of a body, as more and more of its patterns are placed.
Placing(c, view, body, start, fits, t) ==
    /\ c[0] = Plan(view)
    /\ \A n \in 1 .. Len(body.patterns) :
           c[n] = Place(c[n - 1], n, body, start, n \in fits, t)
    /\ PlaceAll(view, body, start, fits, t) = c[Len(body.patterns)]

\* Placing all patterns of a body is placing them one after the other.
LEMMA OneByOne ==
    ASSUME NEW view, NEW body, Len(body.patterns) \in Nat, NEW start, NEW fits, NEW t
    PROVE  \E c : Placing(c, view, body, start, fits, t)
  <1> DEFINE N == Len(body.patterns)
             Next1(n, plan) == Place(plan, n, body, start, n \in fits, t)
             Unfolds(g, m) == g = [n \in 0 .. m |-> IF n = 0 THEN Plan(view)
                                                          ELSE Next1(n, g[n - 1])]
             c == CHOOSE g : Unfolds(g, N)
  <1>1. N \in Nat
    OBVIOUS
  <1>2. PlaceAll(view, body, start, fits, t) = c[N]
    BY DEF PlaceAll
  <1>3. \A n, plan : Next1(n, plan) = Place(plan, n, body, start, n \in fits, t)
    OBVIOUS
  <1>4. N = Len(body.patterns)
    OBVIOUS
  <1> HIDE DEF N, Next1
  <1>5. \E g : Unfolds(g, N)
    <2> DEFINE A == {m \in Nat : \E g : Unfolds(g, m)}
    <2>1. 0 \in A
      <3>1. Unfolds([n \in 0 .. 0 |-> Plan(view)], 0)
        OBVIOUS
      <3> QED
        BY <3>1
    <2>2. ASSUME NEW m \in Nat, m \in A PROVE m + 1 \in A
      <3>1. PICK g : Unfolds(g, m)
        BY <2>2
      <3> DEFINE h == [n \in 0 .. (m + 1) |-> IF n = m + 1 THEN Next1(m + 1, g[m]) ELSE g[n]]
      <3>2. \A n \in 0 .. m : h[n] = g[n] /\ g[n] = IF n = 0 THEN Plan(view)
                                                         ELSE Next1(n, g[n - 1])
        BY <3>1
      <3>3. h[m + 1] = Next1(m + 1, h[m])
        BY <3>2
      <3>4. \A n \in 0 .. (m + 1) : h[n] = IF n = 0 THEN Plan(view) ELSE Next1(n, h[n - 1])
        <4> SUFFICES ASSUME NEW n \in 0 .. (m + 1)
                     PROVE  h[n] = IF n = 0 THEN Plan(view) ELSE Next1(n, h[n - 1])
          OBVIOUS
        <4>1. CASE n = m + 1
          <5>1. n # 0 /\ n - 1 = m
            BY <4>1
          <5> QED
            BY <3>3, <4>1, <5>1
        <4>2. CASE n # m + 1 /\ n # 0
          <5>1. n \in 0 .. m /\ n - 1 \in 0 .. m
            BY <4>2
          <5> HIDE DEF h
          <5> QED
            BY <3>2, <4>2, <5>1
        <4>3. CASE n # m + 1 /\ n = 0
          <5>1. 0 \in 0 .. m
            BY <2>2
          <5> HIDE DEF h
          <5>2. h[0] = g[0] /\ g[0] = Plan(view)
            BY <3>2, <5>1
          <5> QED
            BY <4>3, <5>2
        <4> QED
          BY <4>1, <4>2, <4>3
      <3> DEFINE u == [n \in 0 .. (m + 1) |-> IF n = 0 THEN Plan(view) ELSE Next1(n, h[n - 1])]
      <3>5. h = u
        <4>1. DOMAIN h = 0 .. (m + 1) /\ h = [n \in 0 .. (m + 1) |-> h[n]]
          OBVIOUS
        <4> HIDE DEF h
        <4> QED
          BY <3>4, <4>1
      <3>6. Unfolds(h, m + 1)
        <4> HIDE DEF h
        <4> QED
          BY <3>5
      <3>7. \E f : Unfolds(f, m + 1)
        <4> HIDE DEF h
        <4> QED
          BY <3>6
      <3> HIDE DEF Unfolds
      <3> QED
        BY <3>7
    <2>3. Nat \subseteq A
      <3> HIDE DEF A
      <3> QED
        BY <2>1, <2>2, NumberSteps
    <2> QED
      BY <1>1, <2>3
  <1>6. Unfolds(c, N)
    BY <1>5
  <1>7. /\ c[0] = Plan(view)
        /\ \A n \in 1 .. N : c[n] = Next1(n, c[n - 1])
    <2> HIDE DEF c
    <2>1. \A n \in 0 .. N : c[n] = IF n = 0 THEN Plan(view) ELSE Next1(n, c[n - 1])
      BY <1>6
    <2>2. 0 \in 0 .. N /\ \A n \in 1 .. N : n \in 0 .. N /\ n # 0
      BY <1>1
    <2> QED
      BY <2>1, <2>2
  <1> HIDE DEF c
  <1>8. Placing(c, view, body, start, fits, t)
    BY <1>2, <1>3, <1>4, <1>7 DEF Placing
  <1> QED
    BY <1>8

\* What every placed pattern preserves holds of the whole plan.
LEMMA PlanInduction ==
    ASSUME NEW N \in Nat, NEW c, NEW Good, c[0] \in Good,
           \A n \in 1 .. N : c[n - 1] \in Good => c[n] \in Good
    PROVE  c[N] \in Good
  <1> DEFINE B == {m \in Nat : m <= N => c[m] \in Good}
  <1>1. 0 \in B
    OBVIOUS
  <1>2. ASSUME NEW m \in Nat, m \in B PROVE m + 1 \in B
    <2>1. CASE m + 1 <= N
      <3>1. m + 1 \in 1 .. N /\ (m + 1) - 1 = m /\ c[m] \in Good
        BY <1>2, <2>1
      <3> QED
        BY <3>1
    <2>2. CASE ~(m + 1 <= N)
      BY <2>2
    <2> QED
      BY <2>1, <2>2
  <1>3. Nat \subseteq B
    <2> HIDE DEF B
    <2> QED
      BY <1>1, <1>2, NumberSteps
  <1> QED
    BY <1>3

\* Placing all patterns of a body one after the other yields such a plan.
LEMMA PlaceAllTyped ==
    ASSUME NEW body \in Activations \cup Replacements, NEW view, NEW start \in Int,
           NEW fits, NEW t \in Int
    PROVE  PlanTyped(PlaceAll(view, body, start, fits, t))
  <1> DEFINE N == Len(body.patterns)
  <1>1. /\ body.aircraft \in Aircraft /\ N \in Nat
        /\ \A n \in 1 .. N : body.patterns[n] \in Patterns
    BY HeadroomAssumption
  <1>2. PICK c : Placing(c, view, body, start, fits, t)
    BY <1>1, OneByOne
  <1> DEFINE Good == {x \in {c[m] : m \in 0 .. N} : PlanTyped(x)}
  <1>3. PlanTyped(c[0])
    BY <1>2 DEF PlanTyped, Plan, Placing
  <1>4. \A n \in 1 .. N : PlanTyped(c[n - 1]) => PlanTyped(c[n])
    BY <1>1, <1>2, PlaceTyped DEF Placing
  <1> HIDE DEF N
  <1>5. c[0] \in Good
    BY <1>1, <1>3
  <1>6. \A n \in 1 .. N : c[n - 1] \in Good => c[n] \in Good
    BY <1>1, <1>4
  <1>7. c[N] \in Good
    <2> HIDE DEF Good
    <2> QED
      BY <1>1, <1>5, <1>6, PlanInduction
  <1> QED
    BY <1>2, <1>7 DEF N, Placing

-----------------------------------------------------------------------------
(* Types, and the night ban.                                               *)

Typed ==
    /\ now \in Nat
    /\ schedules \in SUBSET ScheduleRows
    /\ flights \in SUBSET Rows
    /\ served \in Nat

\* And the flights fly by day as long as the planner's clocks are right.
Lawful == Typed /\ flights \in SUBSET DayRows

\* What is left of the rows and what a plan adds fly by day.
LEMMA WritesTyped ==
    ASSUME NEW rows \in SUBSET DayRows, NEW plan, PlanTyped(plan), NEW current
    PROVE  MergeFlights(rows, Dedupe(current, plan.rows)) \in SUBSET DayRows
  BY DEF MergeFlights, Dedupe, PlanTyped

\* What a plan saves are schedules.
LEMMA SavesTyped ==
    ASSUME NEW doc \in SUBSET ScheduleRows, NEW plan, PlanTyped(plan)
    PROVE  SaveSchedules(doc, plan.schedules) \in SUBSET ScheduleRows
  BY DEF SaveSchedules, PlanTyped

\* A new status leaves a flight's times alone.
LEMMA StatusTyped ==
    ASSUME Lawful, NEW f \in flights, NEW status \in Statuses
    PROVE  WithStatus(f, status) \in SUBSET DayRows
  <1> DEFINE g == [f EXCEPT !.status = status]
  <1>1. f \in Rows /\ (OnPlannersClocks(f) => ByDay(f))
    BY DEF Lawful, Typed, DayRows
  <1>2. /\ g \in Rows /\ g.from = f.from /\ g.to = f.to
        /\ g.dep = f.dep /\ g.arr = f.arr /\ g.sched = f.sched
    BY <1>1 DEF Rows
  <1> HIDE DEF g
  <1>3. (OnPlannersClocks(g) <=> OnPlannersClocks(f)) /\ (ByDay(g) <=> ByDay(f))
    BY <1>2 DEF OnPlannersClocks, OutboundDep, ByDay
  <1>4. g \in DayRows
    BY <1>1, <1>2, <1>3 DEF DayRows
  <1> QED
    BY <1>4 DEF Lawful, WithStatus, g

\* Whatever is served, and however long it takes, the documents stay typed and
\* every flight flies by day.
LEMMA TypedStep == Lawful /\ [Next]_vars => Lawful'
  <1> SUFFICES ASSUME Lawful, [Next]_vars PROVE Lawful'
    OBVIOUS
  <1>1. ASSUME Activate PROVE Lawful'
    <2> DEFINE view == [schedules |-> schedules, flights |-> flights]
    <2>1. PICK b \in Activations, start \in StartDays, fits \in SUBSET {1} :
             LET plan == PlaceAll(view, b, start, fits, now)
             IN  /\ schedules' = SaveSchedules(schedules, plan.schedules)
                 /\ flights' = MergeFlights(flights, Dedupe(flights, plan.rows))
      BY <1>1 DEF Activate
    <2> DEFINE plan == PlaceAll(view, b, start, fits, now)
    <2>2. PlanTyped(plan)
      BY PlaceAllTyped, HeadroomAssumption DEF Lawful, Typed
    <2>3. /\ schedules' = SaveSchedules(schedules, plan.schedules)
          /\ flights' = MergeFlights(flights, Dedupe(flights, plan.rows))
          /\ now' = now /\ served' = served + 1
      BY <1>1, <2>1 DEF Activate, Serve
    <2> HIDE DEF plan
    <2>4. schedules \in SUBSET ScheduleRows /\ flights \in SUBSET DayRows
      BY DEF Lawful, Typed
    <2>5. SaveSchedules(schedules, plan.schedules) \in SUBSET ScheduleRows
      BY <2>2, <2>4, SavesTyped
    <2>6. MergeFlights(flights, Dedupe(flights, plan.rows)) \in SUBSET DayRows
      BY <2>2, <2>4, WritesTyped
    <2> QED
      BY <2>3, <2>5, <2>6 DEF Lawful, Typed, DayRows
  <1>2. ASSUME Replace PROVE Lawful'
    <2>1. PICK b \in Replacements : \E fits \in SUBSET DOMAIN b.patterns :
             LET others == {s \in schedules : s.id.aircraft # b.aircraft}
                 removed == {s.id : s \in schedules \ others}
                 kept == {f \in flights : ~IsFuture(f, b.aircraft)}
                 view == [schedules |-> others, flights |-> kept]
                 plan == PlaceAll(view, b, now \div DayLen, fits, now)
                 left == {f \in flights : ~(f.sched \in removed /\ f.status = "scheduled")}
             IN  /\ schedules' = SaveSchedules(others, plan.schedules)
                 /\ flights' = MergeFlights(left, Dedupe(kept, plan.rows))
      BY <1>2 DEF Replace
    <2> DEFINE others == {s \in schedules : s.id.aircraft # b.aircraft}
               removed == {s.id : s \in schedules \ others}
               kept == {f \in flights : ~IsFuture(f, b.aircraft)}
               view == [schedules |-> others, flights |-> kept]
               left == {f \in flights : ~(f.sched \in removed /\ f.status = "scheduled")}
    <2>2. PICK fits : /\ schedules' = SaveSchedules(others,
                              PlaceAll(view, b, now \div DayLen, fits, now).schedules)
                      /\ flights' = MergeFlights(left,
                              Dedupe(kept, PlaceAll(view, b, now \div DayLen, fits, now).rows))
      BY <2>1
    <2> DEFINE plan == PlaceAll(view, b, now \div DayLen, fits, now)
    <2>3. now \div DayLen \in Int /\ now \in Int
      BY HeadroomAssumption DEF Lawful, Typed
    <2>4. PlanTyped(plan)
      BY <2>3, PlaceAllTyped
    <2>5. others \in SUBSET ScheduleRows /\ left \in SUBSET DayRows
      BY DEF Lawful, Typed
    <2>6. now' = now /\ served' = served + 1
      BY <1>2 DEF Replace, Serve
    <2> HIDE DEF plan, others, left, kept, view, removed
    <2>7. /\ schedules' = SaveSchedules(others, plan.schedules)
          /\ flights' = MergeFlights(left, Dedupe(kept, plan.rows))
      BY <2>2 DEF plan
    <2>8. SaveSchedules(others, plan.schedules) \in SUBSET ScheduleRows
      BY <2>4, <2>5, SavesTyped
    <2>9. MergeFlights(left, Dedupe(kept, plan.rows)) \in SUBSET DayRows
      BY <2>4, <2>5, WritesTyped
    <2> QED
      BY <2>6, <2>7, <2>8, <2>9 DEF Lawful, Typed, DayRows
  <1>3. ASSUME Complete \/ Cancel PROVE Lawful'
    <2>1. PICK f \in flights, status \in {"completed", "cancelled"} :
             flights' = WithStatus(f, status)
      BY <1>3 DEF Complete, Cancel
    <2>2. flights' \in SUBSET DayRows
      BY <2>1, StatusTyped DEF Statuses
    <2> QED
      BY <1>3, <2>2 DEF Lawful, Typed, DayRows, Complete, Cancel, Serve
  <1>4. ASSUME Tick \/ UNCHANGED vars PROVE Lawful'
    BY <1>4 DEF Tick, vars, Lawful, Typed
  <1> QED
    BY <1>1, <1>2, <1>3, <1>4 DEF Next

\* The inductive invariant of the two.
THEOREM LawIsKept == Spec => []Lawful
  <1>1. Init => Lawful
    BY DEF Init, Lawful, Typed
  <1> QED
    BY <1>1, TypedStep, PTL DEF Spec

\* The documents keep their types, for any airports, patterns and requests.
THEOREM HeadroomTypeCorrect == Spec => []Typed
  <1>1. Lawful => Typed
    BY DEF Lawful
  <1> QED
    BY <1>1, LawIsKept, PTL

\* As long as the clocks of a flight's two ends show what they show on the
\* reference date, it departs and arrives at no hour that is prohibited,
\* whatever is activated and replaced, for any offsets and changes of clocks,
\* block times, patterns and turnarounds: the planner works out the local times
\* on a day of its own, the flights are stored as instants.
THEOREM NightBansAreKept == Spec => []NightBanKept
  <1>1. Lawful => NightBanKept
    BY DEF Lawful, DayRows, ByDay, NightBanKept
  <1> QED
    BY <1>1, LawIsKept, PTL

-----------------------------------------------------------------------------
(* The rows of the documents: finitely many, each between the ends of its  *)
(* schedule's route, and one of a schedule for an instant.                 *)

Ends(f) ==
    \/ f.from = Origin[f.sched.pattern.route] /\ f.to = Destination[f.sched.pattern.route]
    \/ f.from = Destination[f.sched.pattern.route] /\ f.to = Origin[f.sched.pattern.route]

Shaped(f) == Ends(f) /\ f.arr = f.dep + Block

Orderly(rows) ==
    /\ IsFiniteSet(rows)
    /\ \A f \in rows : Shaped(f)
    /\ \A f, g \in rows : FlightId(f) = FlightId(g) => f = g

\* The flight a request generates at a position.
RowAt(body, start, t, at) ==
    ScheduleFlight(ScheduleId(body.aircraft, body.patterns[at[1]], start), at[2], t)

PlanOrderly(plan, body, start, t) ==
    /\ IsFiniteSet(plan.schedules)
    /\ IsFiniteSet(plan.rows)
    /\ \A r \in plan.rows : /\ r.at \in Nat \X Nat
                            /\ r.flight = RowAt(body, start, t, r.at)
                            /\ Shaped(r.flight)

\* Finitely many things have finitely many images.
LEMMA ImageFinite ==
    ASSUME NEW f, IsFiniteSet(DOMAIN f)
    PROVE  IsFiniteSet({f[x] : x \in DOMAIN f})
  <1> DEFINE T == {f[x] : x \in DOMAIN f}
             g == [x \in DOMAIN f |-> f[x]]
  <1>1. g \in Surjection(DOMAIN f, T)
    BY DEF Surjection
  <1> HIDE DEF T, g
  <1>2. IsFiniteSet(T)
    BY <1>1, FS_Surjection
  <1> QED
    BY <1>2 DEF T

\* A pattern has finitely many flights.
LEMMA GeneratedFinite ==
    ASSUME NEW n, NEW id, NEW round, NEW t
    PROVE  IsFiniteSet(GenerateFlights(n, id, round, t))
  <1> DEFINE I == GeneratedIndices(id, round)
             g == [i \in I |-> [at |-> <<n, i>>, flight |-> ScheduleFlight(id, i, t)]]
  <1>1. WeekLen \in Nat /\ 4 * WeekLen \in Int
    BY HeadroomAssumption
  <1>2. IsFiniteSet(1 .. (4 * WeekLen))
    BY <1>1, FS_Interval
  <1>3. IsFiniteSet(I)
    BY <1>2, FS_Subset DEF GeneratedIndices
  <1> HIDE DEF I
  <1>4. IsFiniteSet({g[i] : i \in DOMAIN g})
    <2>1. DOMAIN g = I
      OBVIOUS
    <2> HIDE DEF g
    <2> QED
      BY <1>3, <2>1, ImageFinite
  <1>5. {g[i] : i \in DOMAIN g} = GenerateFlights(n, id, round, t)
    BY DEF GenerateFlights, I
  <1> QED
    BY <1>4, <1>5

\* Its flights are shaped.
LEMMA GeneratedShaped ==
    ASSUME NEW id \in ScheduleIds, NEW i \in Nat, NEW t \in Int
    PROVE  Shaped(ScheduleFlight(id, i, t))
  <1> SUFFICES ASSUME NEW f, f = ScheduleFlight(id, i, t)
               PROVE  Shaped(f)
    OBVIOUS
  <1> DEFINE o == Origin[id.pattern.route]
             d == Destination[id.pattern.route]
  <1>1. /\ f.sched = id /\ f.arr = f.dep + Block
        /\ i % 2 = 1 => f.from = o /\ f.to = d
        /\ i % 2 # 1 => f.from = d /\ f.to = o
    BY FlightShape
  <1>2. Ends(f)
    BY <1>1 DEF Ends
  <1> QED
    BY <1>1, <1>2 DEF Shaped

\* Placing one more pattern keeps a plan orderly.
LEMMA PlaceOrderly ==
    ASSUME NEW body, body.aircraft \in Aircraft, NEW start \in Int, NEW t \in Int,
           NEW plan, PlanOrderly(plan, body, start, t),
           NEW n \in Nat, body.patterns[n] \in Patterns, NEW fits
    PROVE  PlanOrderly(Place(plan, n, body, start, fits, t), body, start, t)
  <1> DEFINE id == ScheduleId(body.aircraft, body.patterns[n], start)
             active == CanActivate(plan.view, body.aircraft, body.patterns[n], fits)
             generated == GenerateFlights(n, id, body.round, t)
             rows == {r \in generated : active /\ r.flight.dep >= t}
             placed == Place(plan, n, body, start, fits, t)
             schedule == Schedule(id, active)
  <1>1. id \in ScheduleIds
    BY DEF ScheduleId, ScheduleIds
  <1>2. /\ placed.schedules = plan.schedules \cup {schedule}
        /\ placed.rows = plan.rows \cup rows
    BY DEF Place
  <1>3. IsFiniteSet(generated)
    BY GeneratedFinite
  <1>4. \A r \in generated : /\ r.at \in Nat \X Nat
                             /\ r.flight = RowAt(body, start, t, r.at)
                             /\ Shaped(r.flight)
    <2> SUFFICES ASSUME NEW r \in generated
                 PROVE  /\ r.at \in Nat \X Nat
                        /\ r.flight = RowAt(body, start, t, r.at)
                        /\ Shaped(r.flight)
      OBVIOUS
    <2>1. PICK i \in GeneratedIndices(id, body.round) :
             r = [at |-> <<n, i>>, flight |-> ScheduleFlight(id, i, t)]
      BY DEF GenerateFlights
    <2>2. i \in Nat
      BY DEF GeneratedIndices
    <2>3. r.at = <<n, i>> /\ r.flight = ScheduleFlight(id, i, t)
      BY <2>1
    <2>4. RowAt(body, start, t, <<n, i>>) = ScheduleFlight(id, i, t)
      BY DEF RowAt
    <2> HIDE DEF id, generated
    <2> QED
      BY <1>1, <2>2, <2>3, <2>4, GeneratedShaped
  <1> HIDE DEF id, active, generated, placed, schedule
  <1>5. IsFiniteSet(rows)
    BY <1>3, FS_Subset
  <1>6. \A r \in rows : r \in generated
    OBVIOUS
  <1> HIDE DEF rows
  <1>7. IsFiniteSet(placed.schedules) /\ IsFiniteSet(placed.rows)
    <2>1. IsFiniteSet(plan.schedules) /\ IsFiniteSet(plan.rows)
      BY DEF PlanOrderly
    <2>2. IsFiniteSet(plan.schedules \cup {schedule})
      BY <2>1, FS_AddElement
    <2>3. IsFiniteSet(plan.rows \cup rows)
      BY <1>5, <2>1, FS_Union
    <2> QED
      BY <1>2, <2>2, <2>3
  <1>8. PlanOrderly(placed, body, start, t)
    BY <1>2, <1>4, <1>6, <1>7 DEF PlanOrderly
  <1> QED
    BY <1>8 DEF placed

\* So does placing all patterns of a body.
LEMMA PlaceAllOrderly ==
    ASSUME NEW body \in Activations \cup Replacements, NEW view, NEW start \in Int,
           NEW fits, NEW t \in Int
    PROVE  PlanOrderly(PlaceAll(view, body, start, fits, t), body, start, t)
  <1> DEFINE N == Len(body.patterns)
  <1>1. /\ body.aircraft \in Aircraft /\ N \in Nat
        /\ \A n \in 1 .. N : body.patterns[n] \in Patterns /\ n \in Nat
    BY HeadroomAssumption
  <1>2. PICK c : Placing(c, view, body, start, fits, t)
    BY <1>1, OneByOne
  <1> DEFINE Good == {x \in {c[m] : m \in 0 .. N} : PlanOrderly(x, body, start, t)}
  <1>3. PlanOrderly(c[0], body, start, t)
    BY <1>2, FS_EmptySet DEF PlanOrderly, Plan, Placing
  <1>4. \A n \in 1 .. N : PlanOrderly(c[n - 1], body, start, t) => PlanOrderly(c[n], body, start, t)
    BY <1>1, <1>2, PlaceOrderly DEF Placing
  <1> HIDE DEF N
  <1>5. c[0] \in Good
    BY <1>1, <1>3
  <1>6. \A n \in 1 .. N : c[n - 1] \in Good => c[n] \in Good
    BY <1>1, <1>4
  <1>7. c[N] \in Good
    <2> HIDE DEF Good
    <2> QED
      BY <1>1, <1>5, <1>6, PlanInduction
  <1> QED
    BY <1>2, <1>7 DEF N, Placing

\* What survives of an orderly plan is orderly: of two rows with the same key
\* the later one is dropped.
LEMMA DedupeOrderly ==
    ASSUME NEW body, NEW start, NEW t, NEW plan, PlanOrderly(plan, body, start, t), NEW current
    PROVE  Orderly(Dedupe(current, plan.rows))
  <1> DEFINE g == [r \in plan.rows |-> r.flight]
             new == Dedupe(current, plan.rows)
  <1>1. IsFiniteSet({g[r] : r \in DOMAIN g})
    <2>1. DOMAIN g = plan.rows /\ IsFiniteSet(plan.rows)
      BY DEF PlanOrderly
    <2> HIDE DEF g
    <2> QED
      BY <2>1, ImageFinite
  <1>2. new \subseteq {g[r] : r \in DOMAIN g}
    BY DEF Dedupe
  <1>3. IsFiniteSet(new)
    BY <1>1, <1>2, FS_Subset
  <1>4. \A f \in new : Shaped(f)
    BY DEF Dedupe, PlanOrderly
  <1>5. ASSUME NEW f \in new, NEW h \in new, FlightId(f) = FlightId(h) PROVE f = h
    <2>1. PICK r \in plan.rows : /\ f = r.flight
                                 /\ \A q \in plan.rows : Before(q.at, r.at) =>
                                       FlightKey(q.flight) # FlightKey(r.flight)
      BY DEF Dedupe
    <2>2. PICK s \in plan.rows : /\ h = s.flight
                                 /\ \A q \in plan.rows : Before(q.at, s.at) =>
                                       FlightKey(q.flight) # FlightKey(s.flight)
      BY DEF Dedupe
    <2>3. FlightKey(f) = FlightKey(h)
      BY <1>5 DEF FlightId, FlightKey
    <2>4. ~Before(r.at, s.at) /\ ~Before(s.at, r.at)
      BY <2>1, <2>2, <2>3
    <2>5. r.at \in Nat \X Nat /\ s.at \in Nat \X Nat
      BY DEF PlanOrderly
    <2>6. r.at = s.at
      BY <2>4, <2>5 DEF Before
    <2> QED
      BY <2>1, <2>2, <2>6 DEF PlanOrderly
  <1> HIDE DEF new
  <1>6. Orderly(new)
    BY <1>3, <1>4, <1>5 DEF Orderly
  <1> QED
    BY <1>6 DEF new

\* Orderly rows stay so when others replace those of the same id.
LEMMA MergeOrderly ==
    ASSUME NEW rows, Orderly(rows), NEW new, Orderly(new)
    PROVE  Orderly(MergeFlights(rows, new))
  <1> DEFINE kept == {f \in rows : \A g \in new : FlightId(g) # FlightId(f)}
  <1>1. MergeFlights(rows, new) = kept \cup new
    BY DEF MergeFlights
  <1>2. IsFiniteSet(kept)
    BY FS_Subset DEF Orderly
  <1>3. IsFiniteSet(kept \cup new)
    BY <1>2, FS_Union DEF Orderly
  <1>4. \A f, g \in kept \cup new : FlightId(f) = FlightId(g) => f = g
    BY DEF Orderly
  <1>5. \A f \in kept \cup new : Shaped(f)
    BY DEF Orderly
  <1> QED
    BY <1>1, <1>3, <1>4, <1>5 DEF Orderly

\* And when some are dropped.
LEMMA FewerOrderly ==
    ASSUME NEW rows, Orderly(rows), NEW fewer \in SUBSET rows
    PROVE  Orderly(fewer)
  BY FS_Subset DEF Orderly

\* And when one gets another status.
LEMMA StatusOrderly ==
    ASSUME flights \subseteq Rows, Orderly(flights), NEW f \in flights, NEW status
    PROVE  Orderly(WithStatus(f, status))
  <1> DEFINE g == [f EXCEPT !.status = status]
  <1>1. /\ g.sched = f.sched /\ g.from = f.from /\ g.to = f.to
        /\ g.dep = f.dep /\ g.arr = f.arr
    BY DEF Rows
  <1>2. Shaped(g) /\ FlightId(g) = FlightId(f)
    BY <1>1 DEF Orderly, Shaped, Ends, FlightId
  <1> HIDE DEF g
  <1>3. Orderly(flights \ {f})
    BY FewerOrderly
  <1>4. IsFiniteSet((flights \ {f}) \cup {g})
    BY <1>3, FS_AddElement DEF Orderly
  <1>5. Orderly((flights \ {f}) \cup {g})
    BY <1>2, <1>3, <1>4 DEF Orderly
  <1> QED
    BY <1>5 DEF WithStatus, g

\* Saving finitely many schedules leaves finitely many.
LEMMA SavesFinite ==
    ASSUME NEW doc, IsFiniteSet(doc), NEW new, IsFiniteSet(new)
    PROVE  IsFiniteSet(SaveSchedules(doc, new))
  <1> DEFINE kept == {s \in doc : \A n \in new : n.id # s.id}
  <1>1. IsFiniteSet(kept)
    BY FS_Subset
  <1>2. SaveSchedules(doc, new) = kept \cup new
    BY DEF SaveSchedules
  <1> HIDE DEF kept
  <1> QED
    BY <1>1, <1>2, FS_Union

\* The inductive invariant.
Kept == Lawful /\ IsFiniteSet(schedules) /\ Orderly(flights)

\* Every step leaves orderly rows.
LEMMA KeptStep == Kept /\ [Next]_vars => Kept'
  <1> SUFFICES ASSUME Kept, [Next]_vars PROVE Kept'
    OBVIOUS
  <1>1. Lawful'
    BY TypedStep DEF Kept
  <1>2. /\ Lawful /\ IsFiniteSet(schedules) /\ Orderly(flights)
        /\ now \in Int
    BY DEF Kept, Lawful, Typed
  <1>3. ASSUME Activate PROVE Kept'
    <2> DEFINE view == [schedules |-> schedules, flights |-> flights]
    <2>1. PICK b \in Activations, start \in StartDays, fits \in SUBSET {1} :
             LET plan == PlaceAll(view, b, start, fits, now)
             IN  /\ schedules' = SaveSchedules(schedules, plan.schedules)
                 /\ flights' = MergeFlights(flights, Dedupe(flights, plan.rows))
      BY <1>3 DEF Activate
    <2> DEFINE plan == PlaceAll(view, b, start, fits, now)
    <2>2. start \in Int
      BY HeadroomAssumption
    <2>3. PlanOrderly(plan, b, start, now)
      BY <1>2, <2>2, PlaceAllOrderly
    <2>4. /\ schedules' = SaveSchedules(schedules, plan.schedules)
          /\ flights' = MergeFlights(flights, Dedupe(flights, plan.rows))
      BY <2>1
    <2> HIDE DEF plan
    <2>5. IsFiniteSet(SaveSchedules(schedules, plan.schedules))
      <3>1. IsFiniteSet(plan.schedules)
        BY <2>3 DEF PlanOrderly
      <3> QED
        BY <1>2, <3>1, SavesFinite
    <2>6. Orderly(Dedupe(flights, plan.rows))
      BY <2>3, DedupeOrderly
    <2>7. Orderly(MergeFlights(flights, Dedupe(flights, plan.rows)))
      BY <1>2, <2>6, MergeOrderly
    <2>8. IsFiniteSet(schedules') /\ Orderly(flights')
      BY <2>4, <2>5, <2>7
    <2> QED
      BY <1>1, <2>8 DEF Kept, Orderly, Shaped, Ends, FlightId
  <1>4. ASSUME Replace PROVE Kept'
    <2>1. PICK b \in Replacements : \E fits \in SUBSET DOMAIN b.patterns :
             LET others == {s \in schedules : s.id.aircraft # b.aircraft}
                 removed == {s.id : s \in schedules \ others}
                 kept == {f \in flights : ~IsFuture(f, b.aircraft)}
                 view == [schedules |-> others, flights |-> kept]
                 plan == PlaceAll(view, b, now \div DayLen, fits, now)
                 left == {f \in flights : ~(f.sched \in removed /\ f.status = "scheduled")}
             IN  /\ schedules' = SaveSchedules(others, plan.schedules)
                 /\ flights' = MergeFlights(left, Dedupe(kept, plan.rows))
      BY <1>4 DEF Replace
    <2> DEFINE others == {s \in schedules : s.id.aircraft # b.aircraft}
               removed == {s.id : s \in schedules \ others}
               kept == {f \in flights : ~IsFuture(f, b.aircraft)}
               view == [schedules |-> others, flights |-> kept]
               left == {f \in flights : ~(f.sched \in removed /\ f.status = "scheduled")}
    <2>2. PICK fits : /\ schedules' = SaveSchedules(others,
                              PlaceAll(view, b, now \div DayLen, fits, now).schedules)
                      /\ flights' = MergeFlights(left,
                              Dedupe(kept, PlaceAll(view, b, now \div DayLen, fits, now).rows))
      BY <2>1
    <2> DEFINE plan == PlaceAll(view, b, now \div DayLen, fits, now)
    <2>3. now \div DayLen \in Int
      BY <1>2, HeadroomAssumption
    <2>4. PlanOrderly(plan, b, now \div DayLen, now)
      BY <1>2, <2>3, PlaceAllOrderly
    <2>5. IsFiniteSet(others)
      BY <1>2, FS_Subset
    <2>6. Orderly(left)
      BY <1>2, FewerOrderly
    <2> HIDE DEF plan, others, left, kept, view, removed
    <2>7. /\ schedules' = SaveSchedules(others, plan.schedules)
          /\ flights' = MergeFlights(left, Dedupe(kept, plan.rows))
      BY <2>2 DEF plan
    <2>8. IsFiniteSet(SaveSchedules(others, plan.schedules))
      <3>1. IsFiniteSet(plan.schedules)
        BY <2>4 DEF PlanOrderly
      <3> QED
        BY <2>5, <3>1, SavesFinite
    <2>9. Orderly(Dedupe(kept, plan.rows))
      BY <2>4, DedupeOrderly
    <2>10. Orderly(MergeFlights(left, Dedupe(kept, plan.rows)))
      BY <2>6, <2>9, MergeOrderly
    <2>11. IsFiniteSet(schedules') /\ Orderly(flights')
      BY <2>7, <2>8, <2>10
    <2> QED
      BY <1>1, <2>11 DEF Kept, Orderly, Shaped, Ends, FlightId
  <1>5. ASSUME Complete \/ Cancel PROVE Kept'
    <2>1. PICK f \in flights, status \in {"completed", "cancelled"} :
             flights' = WithStatus(f, status)
      BY <1>5 DEF Complete, Cancel
    <2>2. flights \subseteq Rows
      BY <1>2 DEF Lawful, Typed, DayRows
    <2>3. Orderly(WithStatus(f, status))
      BY <1>2, <2>2, StatusOrderly
    <2>4. IsFiniteSet(schedules') /\ Orderly(flights')
      BY <1>2, <1>5, <2>1, <2>3 DEF Complete, Cancel
    <2> QED
      BY <1>1, <2>4 DEF Kept, Orderly, Shaped, Ends, FlightId
  <1>6. ASSUME Tick \/ UNCHANGED vars PROVE Kept'
    <2>1. schedules' = schedules /\ flights' = flights
      BY <1>6 DEF Tick, vars
    <2> QED
      BY <1>1, <1>2, <2>1 DEF Kept, Orderly, Shaped, Ends, FlightId
  <1> QED
    BY <1>3, <1>4, <1>5, <1>6 DEF Next

\* Whatever happens, the flights stay finitely many, each between the ends of
\* its schedule's route, and no schedule has two of them at one instant.
THEOREM RowsStayOrderly == Spec => []Kept
  <1>1. Init => Kept
    BY FS_EmptySet DEF Init, Kept, Lawful, Typed, Orderly
  <1> QED
    BY <1>1, KeptStep, PTL DEF Spec

-----------------------------------------------------------------------------
(* Runway uses.  The movements of a date are counted in the planner's      *)
(* summary of the weekday: each by the flight of the representative week   *)
(* that stands for it, or by the use that the planner expected of it.      *)

DepartingOn(rows, a, d) == {f \in rows : f.from = a /\ Weekday(LocalDay(a, f.dep)) = d}

LandingOn(rows, a, d) == {f \in rows : f.to = a /\ Weekday(LocalDay(a, f.arr)) = d}

\* A set that is mapped to another one to one is no larger.
LEMMA Injected ==
    ASSUME NEW S, NEW T, IsFiniteSet(T), NEW f \in [S -> T],
           \A x, y \in S : f[x] = f[y] => x = y
    PROVE  IsFiniteSet(S) /\ Cardinality(S) <= Cardinality(T)
  <1>1. f \in Injection(S, T)
    BY DEF Injection, IsInjective
  <1> QED
    BY <1>1, FS_Injection

\* A week is two days or more.
LEMMA WeekTicks == Week \in Nat \ {0} /\ DayLen + DayLen <= Week
  <1>1. \A m \in Nat \ {0, 1}, n \in Nat \ {0} : m * n \in Nat \ {0} /\ n + n <= m * n
    <2> SUFFICES ASSUME NEW m \in Nat \ {0, 1}, NEW n \in Nat \ {0}
                 PROVE  m * n \in Nat \ {0} /\ n + n <= m * n
      OBVIOUS
    <2>1. m * n = (m - 2) * n + (n + n) /\ (m - 2) * n >= 0 /\ (m - 2) * n \in Int
      OBVIOUS
    <2> QED
      BY <2>1
  <1> QED
    BY <1>1, HeadroomAssumption DEF Week

\* The clocks of an airport move by less than a day when they change.
LEMMA ClocksMove ==
    ASSUME NEW a \in Airports, NEW x, NEW y
    PROVE  Offset(a, x) - Offset(a, y) \in (1 - DayLen) .. (DayLen - 1)
  BY HeadroomAssumption DEF Offset

\* Of the instants of one date at most one is whole weeks away from another
\* instant, whether the clocks change on that date or not.
LEMMA OneOfADate ==
    ASSUME NEW a \in Airports, NEW x \in Int, NEW y \in Int, NEW z \in Int,
           LocalDay(a, x) = LocalDay(a, y), (x - z) % Week = 0, (y - z) % Week = 0
    PROVE  x = y
  <1> DEFINE j == (x - z) \div Week
             k == (y - z) \div Week
             u == Offset(a, x)
             v == Offset(a, y)
             q == (x + u) \div DayLen
             r == (x + u) % DayLen
             s == (y + v) % DayLen
  <1>1. /\ u \in Int /\ v \in Int /\ u - v < DayLen /\ -DayLen < u - v
        /\ DayLen \in Nat \ {0} /\ Week \in Nat \ {0} /\ DayLen + DayLen <= Week
    <2>1. DayLen \in Nat \ {0} /\ Week \in Nat \ {0} /\ DayLen + DayLen <= Week
      BY Numbers, WeekTicks
    <2>2. u \in Int /\ v \in Int
      BY OffsetTyped
    <2>3. u - v \in (1 - DayLen) .. (DayLen - 1)
      BY ClocksMove
    <2> HIDE DEF u, v
    <2> QED
      BY <2>1, <2>2, <2>3
  <1>2. /\ x - z = Week * j + 0 /\ j \in Int
        /\ y - z = Week * k + 0 /\ k \in Int
    <2>1. x - z \in Int /\ y - z \in Int
      OBVIOUS
    <2>2. x - z = Week * j + ((x - z) % Week) /\ j \in Int
      BY <1>1, <2>1, Divided
    <2>3. y - z = Week * k + ((y - z) % Week) /\ k \in Int
      BY <1>1, <2>1, Divided
    <2> QED
      BY <2>2, <2>3
  <1>3. /\ x + u = DayLen * q + r
        /\ y + v = DayLen * q + s
        /\ q \in Int /\ r \in 0 .. (DayLen - 1) /\ s \in 0 .. (DayLen - 1)
    <2>1. q = (y + v) \div DayLen
      BY DEF LocalDay
    <2>2. x + u \in Int /\ y + v \in Int
      BY <1>1
    <2> HIDE DEF u, v
    <2>3. x + u = DayLen * q + r /\ q \in Int /\ r \in 0 .. (DayLen - 1)
      BY <1>1, <2>2, Divided
    <2>4. /\ y + v = DayLen * ((y + v) \div DayLen) + s
          /\ s \in 0 .. (DayLen - 1)
      BY <1>1, <2>2, Divided
    <2> QED
      BY <2>1, <2>3, <2>4
  <1> HIDE DEF j, k, q, r, s, u, v
  <1>4. DayLen * q \in Int /\ Week * j \in Int /\ Week * k \in Int
    BY <1>1, <1>2, <1>3
  <1>5. Week * (j - k) = Week * j - Week * k /\ j - k \in Int
    BY <1>1, <1>2
  <1>6. x - y = Week * (j - k)
    BY <1>2, <1>4, <1>5
  <1>7. x - y < Week /\ -Week < x - y /\ x - y \in Int
    BY <1>1, <1>3, <1>4
  <1>8. x - y = 0
    BY <1>1, <1>5, <1>6, <1>7, NoMultiple
  <1> QED
    BY <1>8

\* The flight of the representative week that shows the departure of f, or its
\* landing, on the weekday of a date.
ShowsDeparture(f, a, day) ==
    CHOOSE g \in Likes(f) : Weekday(LocalDay(a, g.dep)) = Weekday(day)

ShowsLanding(f, a, day) ==
    CHOOSE g \in Likes(f) : Weekday(LocalDay(a, g.arr)) = Weekday(day)

\* A flight that is like another has its ends.
LEMMA Alike ==
    ASSUME flights \subseteq Rows, Orderly(flights), NEW f \in flights, NEW g \in Likes(f)
    PROVE  /\ g \in RepresentativeWeek(flights) /\ g \in flights /\ f \in Rows /\ g \in Rows
           /\ g.sched = f.sched /\ g.from = f.from /\ g.to = f.to
           /\ (f.dep - g.dep) % Week = 0
           /\ (f.arr - g.arr) % Week = 0
  <1>1. g \in RepresentativeWeek(flights) /\ g.sched = f.sched /\ g.from = f.from
        /\ (f.dep - g.dep) % Week = 0
    BY DEF Likes
  <1>2. g \in flights /\ f \in Rows /\ g \in Rows
    BY <1>1 DEF RepresentativeWeek
  <1>3. g.to = f.to
    BY <1>1, <1>2 DEF Orderly, Shaped, Ends
  <1>4. f.arr = f.dep + Block /\ g.arr = g.dep + Block /\ f.dep \in Int /\ g.dep \in Int
    BY <1>2 DEF Orderly, Shaped, Rows
  <1>5. f.arr - g.arr = f.dep - g.dep
    <2>1. \A x, y, z \in Int : (x + z) - (y + z) = x - y
      OBVIOUS
    <2> QED
      BY <1>4, <2>1, HeadroomAssumption
  <1> QED
    BY <1>1, <1>2, <1>3, <1>5

\* The representative week counts at least the movements of any date of which
\* it hides none.
LEMMA SummaryCounts ==
    ASSUME Kept, NEW a \in Airports, NEW day \in Int, ~HiddenOn(a, day)
    PROVE  LET week == RepresentativeWeek(flights)
               d == Weekday(day)
           IN  /\ IsFiniteSet(week)
               /\ Cardinality(Departing(flights, a, day)) <= Cardinality(DepartingOn(week, a, d))
               /\ Cardinality(Landing(flights, a, day)) <= Cardinality(LandingOn(week, a, d))
  <1> DEFINE week == RepresentativeWeek(flights)
             d == Weekday(day)
             out == [f \in Departing(flights, a, day) |-> ShowsDeparture(f, a, day)]
             in == [f \in Landing(flights, a, day) |-> ShowsLanding(f, a, day)]
  <1>1. flights \subseteq Rows /\ Orderly(flights)
    BY DEF Kept, Lawful, Typed
  <1>2. week \subseteq flights
    BY DEF RepresentativeWeek
  <1>3. /\ IsFiniteSet(week)
        /\ IsFiniteSet(DepartingOn(week, a, d))
        /\ IsFiniteSet(LandingOn(week, a, d))
    BY <1>1, <1>2, FS_Subset DEF Orderly, DepartingOn, LandingOn
  <1>4. Cardinality(Departing(flights, a, day)) <= Cardinality(DepartingOn(week, a, d))
    <2> DEFINE S == Departing(flights, a, day)
    <2>1. \A f \in S : f \in flights /\ f.from = a /\ LocalDay(a, f.dep) = day
      BY DEF Departing
    <2>2. \A f \in S : out[f] \in Likes(f) /\ Weekday(LocalDay(a, out[f].dep)) = d
      BY DEF HiddenOn, ShowsDeparture
    <2>3. \A f \in S : /\ out[f] \in week /\ f \in Rows /\ out[f] \in Rows
                       /\ out[f].sched = f.sched /\ out[f].from = a
                       /\ (f.dep - out[f].dep) % Week = 0
      <3> HIDE DEF S, out
      <3> QED
        BY <1>1, <2>1, <2>2, Alike
    <2> HIDE DEF S, week
    <2>4. \A f \in S : out[f] \in DepartingOn(week, a, d)
      BY <2>2, <2>3 DEF DepartingOn
    <2>5. ASSUME NEW f \in S, NEW h \in S, out[f] = out[h] PROVE f = h
      <3>1. f.dep \in Int /\ h.dep \in Int /\ out[f].dep \in Int
        BY <2>3 DEF Rows
      <3>2. LocalDay(a, f.dep) = LocalDay(a, h.dep)
        BY <2>1
      <3>3. f.dep = h.dep
        <4>1. (f.dep - out[f].dep) % Week = 0 /\ (h.dep - out[f].dep) % Week = 0
          BY <2>3, <2>5
        <4> QED
          BY <3>1, <3>2, <4>1, OneOfADate
      <3>4. FlightId(f) = FlightId(h)
        BY <2>3, <2>5, <3>3 DEF FlightId
      <3> QED
        BY <1>1, <2>1, <3>4 DEF Orderly
    <2>6. out \in [S -> DepartingOn(week, a, d)]
      BY <2>4 DEF S
    <2> HIDE DEF out
    <2>7. Cardinality(S) <= Cardinality(DepartingOn(week, a, d))
      BY <1>3, <2>5, <2>6, Injected
    <2> QED
      BY <2>7 DEF S
  <1>5. Cardinality(Landing(flights, a, day)) <= Cardinality(LandingOn(week, a, d))
    <2> DEFINE S == Landing(flights, a, day)
    <2>1. \A f \in S : f \in flights /\ f.to = a /\ LocalDay(a, f.arr) = day
      BY DEF Landing
    <2>2. \A f \in S : in[f] \in Likes(f) /\ Weekday(LocalDay(a, in[f].arr)) = d
      BY DEF HiddenOn, ShowsLanding
    <2>3. \A f \in S : /\ in[f] \in week /\ in[f] \in flights /\ f \in Rows /\ in[f] \in Rows
                       /\ in[f].sched = f.sched /\ in[f].to = a
                       /\ (f.arr - in[f].arr) % Week = 0
      <3> HIDE DEF S, in
      <3> QED
        BY <1>1, <2>1, <2>2, Alike
    <2> HIDE DEF S, week
    <2>4. \A f \in S : in[f] \in LandingOn(week, a, d)
      BY <2>2, <2>3 DEF LandingOn
    <2>5. ASSUME NEW f \in S, NEW h \in S, in[f] = in[h] PROVE f = h
      <3>1. f.arr \in Int /\ h.arr \in Int /\ in[f].arr \in Int /\ f.dep \in Int /\ h.dep \in Int
        BY <2>3 DEF Rows
      <3>2. LocalDay(a, f.arr) = LocalDay(a, h.arr)
        BY <2>1
      <3>3. f.arr = h.arr
        <4>1. (f.arr - in[f].arr) % Week = 0 /\ (h.arr - in[f].arr) % Week = 0
          BY <2>3, <2>5
        <4> QED
          BY <3>1, <3>2, <4>1, OneOfADate
      <3>4. f.dep = h.dep
        <4>1. f.arr = f.dep + Block /\ h.arr = h.dep + Block
          BY <1>1, <2>1 DEF Orderly, Shaped
        <4>2. \A x, y, z \in Int : x + z = y + z => x = y
          OBVIOUS
        <4>3. Block \in Int
          BY HeadroomAssumption
        <4> QED
          BY <3>1, <3>3, <4>1, <4>2, <4>3
      <3>5. FlightId(f) = FlightId(h)
        BY <2>3, <2>5, <3>4 DEF FlightId
      <3> QED
        BY <1>1, <2>1, <3>5 DEF Orderly
    <2>6. in \in [S -> LandingOn(week, a, d)]
      BY <2>4 DEF S
    <2> HIDE DEF in
    <2>7. Cardinality(S) <= Cardinality(LandingOn(week, a, d))
      BY <1>3, <2>5, <2>6, Injected
    <2> QED
      BY <2>7 DEF S
  <1> QED
    BY <1>3, <1>4, <1>5

\* The planner's use for a flight that departs, or lands, of an operating day.
DepartureUse(p, i) ==
    IF i % 2 = 1 THEN Use("departure", Origin[p.route], 0, OutTime(p))
    ELSE Use("return departure", Destination[p.route], BackDay(p), BackTime(p))

ArrivalUse(p, i) ==
    IF i % 2 = 1 THEN Use("arrival", Destination[p.route], ThereDay(p), ThereTime(p))
    ELSE Use("return arrival", Origin[p.route], HomeDay(p), HomeTime(p))

\* The use names the leg.
LEMMA LegParity ==
    ASSUME NEW p, NEW i \in Nat, NEW j \in Nat,
           \/ DepartureUse(p, i).leg = DepartureUse(p, j).leg
           \/ ArrivalUse(p, i).leg = ArrivalUse(p, j).leg
    PROVE  i % 2 = j % 2
  <1>1. \A k \in Nat : k % 2 = 0 \/ k % 2 = 1
    OBVIOUS
  <1>2. \A k : /\ DepartureUse(p, k).leg = IF k % 2 = 1 THEN "departure" ELSE "return departure"
               /\ ArrivalUse(p, k).leg = IF k % 2 = 1 THEN "arrival" ELSE "return arrival"
    BY DEF DepartureUse, ArrivalUse, Use
  <1> QED
    BY <1>1, <1>2

\* The uses that count for a weekday.
UsesOn(p, a, d) ==
    {u \in PlannedUses(p) : u.at = a /\ \E k \in p.days : Weekday(k + u.day) = d}

\* There are finitely many of them.
LEMMA UsesFinite ==
    ASSUME NEW p \in Patterns, NEW a, NEW d
    PROVE  IsFiniteSet(UsesOn(p, a, d))
  <1>1. PICK u, v, w, x : PlannedUses(p) = {u, v, w, x}
    BY UseTimes
  <1>2. PlannedUses(p) = (({u} \cup {v}) \cup {w}) \cup {x}
    BY <1>1
  <1>3. IsFiniteSet((({u} \cup {v}) \cup {w}) \cup {x})
    <2>1. IsFiniteSet({u} \cup {v})
      BY FS_Singleton, FS_AddElement
    <2>2. IsFiniteSet(({u} \cup {v}) \cup {w})
      BY <2>1, FS_AddElement
    <2> QED
      BY <2>2, FS_AddElement
  <1> QED
    BY <1>2, <1>3, FS_Subset DEF UsesOn

\* So their number is one.
LEMMA ProjectionCounted ==
    ASSUME NEW p \in Patterns, NEW a, NEW d
    PROVE  ProjectedUses(p, a, d) \in Nat
  <1>1. ProjectedUses(p, a, d) = Cardinality(UsesOn(p, a, d))
    BY DEF ProjectedUses, UsesOn
  <1> QED
    BY <1>1, UsesFinite, FS_CardinalityType

\* The weekday of an operating day and the days after it give the weekday of
\* the date.
LEMMA WeekdayLater ==
    ASSUME NEW s \in Int, NEW n \in Int
    PROVE  Weekday(Weekday(s) + n) = Weekday(s + n)
  BY DaysDropped, HeadroomAssumption DEF Weekday

\* A leg of an operating day has one index.
LEMMA OneIndex ==
    ASSUME NEW id \in ScheduleIds, NEW i \in Nat, NEW j \in Nat, i % 2 = j % 2,
           ScheduleDay(id, i) = ScheduleDay(id, j)
    PROVE  i = j
  <1>1. id.start \in Int
    BY DEF ScheduleIds
  <1>2. (i - 1) \div 2 = (j - 1) \div 2
    BY <1>1 DEF ScheduleDay
  <1> QED
    BY <1>2

\* On the planner's clocks it expected a flight that departs on a date.
LEMMA DepartureExpected ==
    ASSUME NEW id \in ScheduleIds, NEW round, NEW t \in Int,
           NEW i \in GeneratedIndices(id, round), NEW f, f = ScheduleFlight(id, i, t),
           OnPlannersClocks(f)
    PROVE  /\ DepartureUse(id.pattern, i)
                 \in UsesOn(id.pattern, f.from, Weekday(LocalDay(f.from, f.dep)))
           /\ DepartureUse(id.pattern, i).leg \in {"departure", "return departure"}
           /\ DepartureUse(id.pattern, i).day \in Int
           /\ LocalDay(f.from, f.dep) = ScheduleDay(id, i) + DepartureUse(id.pattern, i).day
  <1> DEFINE p == id.pattern
             u == DepartureUse(p, i)
             s == ScheduleDay(id, i)
  <1>1. i \in Nat /\ Weekday(s) \in p.days /\ p \in Patterns
    BY DEF GeneratedIndices, ScheduleIds
  <1>2. /\ s \in Int
        /\ i % 2 = 1 => FliesOut(f, p, s)
        /\ i % 2 # 1 => FliesHome(f, p, s)
    BY <1>1, FlightShape, FlightTimes
  <1>3. u \in PlannedUses(p)
    BY <1>1, UseTimes DEF DepartureUse
  <1>4. u.at = f.from /\ u.day \in Int /\ LocalDay(f.from, f.dep) = s + u.day
    BY <1>1, <1>2, UseDays DEF DepartureUse, Use, FliesOut, FliesHome
  <1>5. u.leg \in {"departure", "return departure"}
    BY DEF DepartureUse, Use
  <1> HIDE DEF p, u, s
  <1>6. Weekday(Weekday(s) + u.day) = Weekday(LocalDay(f.from, f.dep))
    BY <1>2, <1>4, WeekdayLater
  <1>7. u \in UsesOn(p, f.from, Weekday(LocalDay(f.from, f.dep)))
    BY <1>1, <1>3, <1>4, <1>6 DEF UsesOn
  <1> QED
    BY <1>4, <1>5, <1>7 DEF p, u, s

\* And one that lands.
LEMMA ArrivalExpected ==
    ASSUME NEW id \in ScheduleIds, NEW round, NEW t \in Int,
           NEW i \in GeneratedIndices(id, round), NEW f, f = ScheduleFlight(id, i, t),
           OnPlannersClocks(f)
    PROVE  /\ ArrivalUse(id.pattern, i)
                 \in UsesOn(id.pattern, f.to, Weekday(LocalDay(f.to, f.arr)))
           /\ ArrivalUse(id.pattern, i).leg \in {"arrival", "return arrival"}
           /\ ArrivalUse(id.pattern, i).day \in Int
           /\ LocalDay(f.to, f.arr) = ScheduleDay(id, i) + ArrivalUse(id.pattern, i).day
  <1> DEFINE p == id.pattern
             u == ArrivalUse(p, i)
             s == ScheduleDay(id, i)
  <1>1. i \in Nat /\ Weekday(s) \in p.days /\ p \in Patterns
    BY DEF GeneratedIndices, ScheduleIds
  <1>2. /\ s \in Int
        /\ i % 2 = 1 => FliesOut(f, p, s)
        /\ i % 2 # 1 => FliesHome(f, p, s)
    BY <1>1, FlightShape, FlightTimes
  <1>3. u \in PlannedUses(p)
    BY <1>1, UseTimes DEF ArrivalUse
  <1>4. u.at = f.to /\ u.day \in Int /\ LocalDay(f.to, f.arr) = s + u.day
    BY <1>1, <1>2, UseDays DEF ArrivalUse, Use, FliesOut, FliesHome
  <1>5. u.leg \in {"arrival", "return arrival"}
    BY DEF ArrivalUse, Use
  <1> HIDE DEF p, u, s
  <1>6. Weekday(Weekday(s) + u.day) = Weekday(LocalDay(f.to, f.arr))
    BY <1>2, <1>4, WeekdayLater
  <1>7. u \in UsesOn(p, f.to, Weekday(LocalDay(f.to, f.arr)))
    BY <1>1, <1>3, <1>4, <1>6 DEF UsesOn
  <1> QED
    BY <1>4, <1>5, <1>7 DEF p, u, s

\* The index of a flight among those that a request generates.
IndexOf(f, id, round, t) ==
    CHOOSE i \in GeneratedIndices(id, round) : f = ScheduleFlight(id, i, t)

\* The movements that a pattern adds to a date, if they are on the planner's
\* clocks, are counted in the uses that the planner projected for the weekday.
LEMMA ProjectionCounts ==
    ASSUME NEW id \in ScheduleIds, NEW round, NEW t \in Int, NEW new,
           \A f \in new : \E i \in GeneratedIndices(id, round) : f = ScheduleFlight(id, i, t),
           NEW a \in Airports, NEW day \in Int,
           \A f \in Departing(new, a, day) \cup Landing(new, a, day) : OnPlannersClocks(f)
    PROVE  /\ IsFiniteSet(Departing(new, a, day))
           /\ IsFiniteSet(Landing(new, a, day))
           /\ Cardinality(Departing(new, a, day)) + Cardinality(Landing(new, a, day))
                 <= ProjectedUses(id.pattern, a, Weekday(day))
  <1> DEFINE p == id.pattern
             Ix(f) == IndexOf(f, id, round, t)
             uses == UsesOn(p, a, Weekday(day))
             departures == {u \in uses : u.leg \in {"departure", "return departure"}}
             arrivals == {u \in uses : u.leg \in {"arrival", "return arrival"}}
             out == [f \in Departing(new, a, day) |-> DepartureUse(p, Ix(f))]
             in == [f \in Landing(new, a, day) |-> ArrivalUse(p, Ix(f))]
  <1>1. \A f \in new : /\ Ix(f) \in GeneratedIndices(id, round) /\ Ix(f) \in Nat
                       /\ f = ScheduleFlight(id, Ix(f), t) /\ ScheduleDay(id, Ix(f)) \in Int
    <2>1. \A i \in GeneratedIndices(id, round) : i \in Nat /\ ScheduleDay(id, i) \in Int
      BY FlightShape DEF GeneratedIndices
    <2> QED
      BY <2>1 DEF IndexOf
  <1> HIDE DEF Ix
  <1>2. /\ IsFiniteSet(uses) /\ IsFiniteSet(departures) /\ IsFiniteSet(arrivals)
        /\ Cardinality(departures) + Cardinality(arrivals) <= Cardinality(uses)
    <2>1. IsFiniteSet(uses)
      BY UsesFinite DEF ScheduleIds
    <2> HIDE DEF uses
    <2>2. IsFiniteSet(departures) /\ IsFiniteSet(arrivals)
      BY <2>1, FS_Subset
    <2>3. departures \cap arrivals = {} /\ departures \cup arrivals \in SUBSET uses
      OBVIOUS
    <2> HIDE DEF departures, arrivals
    <2>4. Cardinality(departures \cup arrivals)
             = Cardinality(departures) + Cardinality(arrivals) - Cardinality(departures \cap arrivals)
      BY <2>2, FS_Union
    <2>5. Cardinality(departures \cap arrivals) = 0
      BY <2>3, FS_EmptySet
    <2>6. Cardinality(departures \cup arrivals) <= Cardinality(uses)
      BY <2>1, <2>3, FS_Subset
    <2>7. Cardinality(departures) \in Nat /\ Cardinality(arrivals) \in Nat
      BY <2>2, FS_CardinalityType
    <2> QED
      BY <2>1, <2>2, <2>4, <2>5, <2>6, <2>7
  <1>3. /\ IsFiniteSet(Departing(new, a, day))
        /\ Cardinality(Departing(new, a, day)) <= Cardinality(departures)
    <2> DEFINE S == Departing(new, a, day)
    <2>1. \A f \in S : f \in new /\ f.from = a /\ LocalDay(a, f.dep) = day /\ OnPlannersClocks(f)
      BY DEF Departing
    <2>2. \A f \in S : /\ out[f] \in uses /\ out[f].leg \in {"departure", "return departure"}
                       /\ out[f].day \in Int /\ day = ScheduleDay(id, Ix(f)) + out[f].day
                       /\ out[f] = DepartureUse(p, Ix(f))
      <3> SUFFICES ASSUME NEW f \in S
                   PROVE  /\ out[f] \in uses /\ out[f].leg \in {"departure", "return departure"}
                          /\ out[f].day \in Int /\ day = ScheduleDay(id, Ix(f)) + out[f].day
                          /\ out[f] = DepartureUse(p, Ix(f))
        OBVIOUS
      <3>1. out[f] = DepartureUse(p, Ix(f))
        OBVIOUS
      <3>2. Ix(f) \in GeneratedIndices(id, round) /\ f = ScheduleFlight(id, Ix(f), t)
        BY <1>1, <2>1
      <3> HIDE DEF out, S
      <3> DEFINE i == Ix(f)
      <3>3. i \in GeneratedIndices(id, round) /\ f = ScheduleFlight(id, i, t)
        BY <3>2
      <3> HIDE DEF i
      <3>4. /\ DepartureUse(p, i) \in UsesOn(p, f.from, Weekday(LocalDay(f.from, f.dep)))
            /\ DepartureUse(p, i).leg \in {"departure", "return departure"}
            /\ DepartureUse(p, i).day \in Int
            /\ LocalDay(f.from, f.dep) = ScheduleDay(id, i) + DepartureUse(p, i).day
        <4>1. OnPlannersClocks(f)
          BY <2>1 DEF S
        <4> QED
          BY <3>3, <4>1, DepartureExpected
      <3> QED
        BY <2>1, <3>1, <3>4 DEF i
    <2> HIDE DEF S
    <2>3. ASSUME NEW f \in S, NEW h \in S, out[f] = out[h] PROVE f = h
      <3>1. Ix(f) % 2 = Ix(h) % 2
        <4>1. Ix(f) \in Nat /\ Ix(h) \in Nat
          BY <1>1, <2>1
        <4>2. DepartureUse(p, Ix(f)).leg = DepartureUse(p, Ix(h)).leg
          BY <2>2, <2>3
        <4> QED
          BY <4>1, <4>2, LegParity
      <3>2. ScheduleDay(id, Ix(f)) = ScheduleDay(id, Ix(h))
        <4>1. \A x, y, n \in Int : x + n = y + n => x = y
          OBVIOUS
        <4>2. /\ out[f].day \in Int
              /\ ScheduleDay(id, Ix(f)) + out[f].day = ScheduleDay(id, Ix(h)) + out[f].day
          BY <2>2, <2>3
        <4>3. ScheduleDay(id, Ix(f)) \in Int /\ ScheduleDay(id, Ix(h)) \in Int
          BY <1>1, <2>1
        <4> HIDE DEF out
        <4> QED
          BY <4>1, <4>2, <4>3
      <3>3. Ix(f) = Ix(h)
        BY <1>1, <2>1, <3>1, <3>2, OneIndex
      <3> QED
        BY <1>1, <2>1, <3>3
    <2>4. out \in [S -> departures]
      BY <2>2 DEF S
    <2> HIDE DEF out, departures
    <2>5. IsFiniteSet(S) /\ Cardinality(S) <= Cardinality(departures)
      BY <1>2, <2>3, <2>4, Injected
    <2> QED
      BY <2>5 DEF S
  <1>4. /\ IsFiniteSet(Landing(new, a, day))
        /\ Cardinality(Landing(new, a, day)) <= Cardinality(arrivals)
    <2> DEFINE S == Landing(new, a, day)
    <2>1. \A f \in S : f \in new /\ f.to = a /\ LocalDay(a, f.arr) = day /\ OnPlannersClocks(f)
      BY DEF Landing
    <2>2. \A f \in S : /\ in[f] \in uses /\ in[f].leg \in {"arrival", "return arrival"}
                       /\ in[f].day \in Int /\ day = ScheduleDay(id, Ix(f)) + in[f].day
                       /\ in[f] = ArrivalUse(p, Ix(f))
      <3> SUFFICES ASSUME NEW f \in S
                   PROVE  /\ in[f] \in uses /\ in[f].leg \in {"arrival", "return arrival"}
                          /\ in[f].day \in Int /\ day = ScheduleDay(id, Ix(f)) + in[f].day
                          /\ in[f] = ArrivalUse(p, Ix(f))
        OBVIOUS
      <3>1. in[f] = ArrivalUse(p, Ix(f))
        OBVIOUS
      <3>2. Ix(f) \in GeneratedIndices(id, round) /\ f = ScheduleFlight(id, Ix(f), t)
        BY <1>1, <2>1
      <3> HIDE DEF in, S
      <3> DEFINE i == Ix(f)
      <3>3. i \in GeneratedIndices(id, round) /\ f = ScheduleFlight(id, i, t)
        BY <3>2
      <3> HIDE DEF i
      <3>4. /\ ArrivalUse(p, i) \in UsesOn(p, f.to, Weekday(LocalDay(f.to, f.arr)))
            /\ ArrivalUse(p, i).leg \in {"arrival", "return arrival"}
            /\ ArrivalUse(p, i).day \in Int
            /\ LocalDay(f.to, f.arr) = ScheduleDay(id, i) + ArrivalUse(p, i).day
        <4>1. OnPlannersClocks(f)
          BY <2>1 DEF S
        <4> QED
          BY <3>3, <4>1, ArrivalExpected
      <3> QED
        BY <2>1, <3>1, <3>4 DEF i
    <2> HIDE DEF S
    <2>3. ASSUME NEW f \in S, NEW h \in S, in[f] = in[h] PROVE f = h
      <3>1. Ix(f) % 2 = Ix(h) % 2
        <4>1. Ix(f) \in Nat /\ Ix(h) \in Nat
          BY <1>1, <2>1
        <4>2. ArrivalUse(p, Ix(f)).leg = ArrivalUse(p, Ix(h)).leg
          BY <2>2, <2>3
        <4> QED
          BY <4>1, <4>2, LegParity
      <3>2. ScheduleDay(id, Ix(f)) = ScheduleDay(id, Ix(h))
        <4>1. \A x, y, n \in Int : x + n = y + n => x = y
          OBVIOUS
        <4>2. /\ in[f].day \in Int
              /\ ScheduleDay(id, Ix(f)) + in[f].day = ScheduleDay(id, Ix(h)) + in[f].day
          BY <2>2, <2>3
        <4>3. ScheduleDay(id, Ix(f)) \in Int /\ ScheduleDay(id, Ix(h)) \in Int
          BY <1>1, <2>1
        <4> HIDE DEF in
        <4> QED
          BY <4>1, <4>2, <4>3
      <3>3. Ix(f) = Ix(h)
        BY <1>1, <2>1, <3>1, <3>2, OneIndex
      <3> QED
        BY <1>1, <2>1, <3>3
    <2>4. in \in [S -> arrivals]
      BY <2>2 DEF S
    <2> HIDE DEF in, arrivals
    <2>5. IsFiniteSet(S) /\ Cardinality(S) <= Cardinality(arrivals)
      BY <1>2, <2>3, <2>4, Injected
    <2> QED
      BY <2>5 DEF S
  <1>5. ProjectedUses(p, a, Weekday(day)) = Cardinality(uses)
    BY DEF ProjectedUses, UsesOn
  <1> HIDE DEF uses, departures, arrivals
  <1>6. /\ Cardinality(Departing(new, a, day)) \in Nat /\ Cardinality(Landing(new, a, day)) \in Nat
        /\ Cardinality(departures) \in Nat /\ Cardinality(arrivals) \in Nat
        /\ Cardinality(uses) \in Nat
    BY <1>2, <1>3, <1>4, FS_CardinalityType
  <1> QED
    BY <1>2, <1>3, <1>4, <1>5, <1>6

\* What HeadroomKept says of a step, for every date.
Room ==
    \A a \in Airports, day \in Int :
        /\ Capacity[a] > 0
        /\ Movements(flights', a, day) > Capacity[a]
        /\ Movements(flights', a, day) > Movements(flights, a, day)
        => HiddenOn(a, day) \/ MisplannedOn(a, day)

\* A set within two others is no larger than they are together.
LEMMA UnionBound ==
    ASSUME NEW S, NEW T, IsFiniteSet(S), IsFiniteSet(T), NEW R, R \subseteq S \cup T
    PROVE  Cardinality(R) <= Cardinality(S) + Cardinality(T) /\ Cardinality(R) \in Nat
  <1>1. /\ IsFiniteSet(S \cup T)
        /\ Cardinality(S \cup T) = Cardinality(S) + Cardinality(T) - Cardinality(S \cap T)
    BY FS_Union
  <1>2. IsFiniteSet(R) /\ Cardinality(R) <= Cardinality(S \cup T)
    BY <1>1, FS_Subset
  <1>3. IsFiniteSet(S \cap T)
    BY FS_Intersection
  <1>4. /\ Cardinality(R) \in Nat /\ Cardinality(S) \in Nat /\ Cardinality(T) \in Nat
        /\ Cardinality(S \cap T) \in Nat
    BY <1>2, <1>3, FS_CardinalityType
  <1> QED
    BY <1>1, <1>2, <1>4

\* Flights that depart and land no more often make no more movements.
LEMMA NoMoreMovements ==
    ASSUME NEW a, NEW day, NEW rows, IsFiniteSet(rows), NEW others,
           Departing(others, a, day) \subseteq Departing(rows, a, day),
           Landing(others, a, day) \subseteq Landing(rows, a, day)
    PROVE  ~(Movements(others, a, day) > Movements(rows, a, day))
  <1>1. IsFiniteSet(Departing(rows, a, day)) /\ IsFiniteSet(Landing(rows, a, day))
    BY FS_Subset DEF Departing, Landing
  <1>2. /\ Cardinality(Departing(others, a, day)) <= Cardinality(Departing(rows, a, day))
        /\ Cardinality(Landing(others, a, day)) <= Cardinality(Landing(rows, a, day))
        /\ IsFiniteSet(Departing(others, a, day)) /\ IsFiniteSet(Landing(others, a, day))
    BY <1>1, FS_Subset
  <1>3. /\ Cardinality(Departing(others, a, day)) \in Nat
        /\ Cardinality(Landing(others, a, day)) \in Nat
        /\ Cardinality(Departing(rows, a, day)) \in Nat
        /\ Cardinality(Landing(rows, a, day)) \in Nat
    BY <1>1, <1>2, FS_CardinalityType
  <1>4. /\ Movements(others, a, day)
              = Cardinality(Departing(others, a, day)) + Cardinality(Landing(others, a, day))
        /\ Movements(rows, a, day)
              = Cardinality(Departing(rows, a, day)) + Cardinality(Landing(rows, a, day))
    BY DEF Movements, Departing, Landing
  <1> QED
    BY <1>2, <1>3, <1>4

\* The flights of a request are those of its one pattern, and none unless
\* nothing blocked the pattern.
LEMMA ActivatedRows ==
    ASSUME NEW b \in Activations, NEW view, NEW start, NEW fits, NEW t
    PROVE  LET id == ScheduleId(b.aircraft, b.patterns[1], start)
           IN  \A r \in PlaceAll(view, b, start, fits, t).rows :
                   /\ CanActivate(view, b.aircraft, b.patterns[1], 1 \in fits)
                   /\ \E i \in GeneratedIndices(id, b.round) : r.flight = ScheduleFlight(id, i, t)
  <1> DEFINE id == ScheduleId(b.aircraft, b.patterns[1], start)
             active == CanActivate(view, b.aircraft, b.patterns[1], 1 \in fits)
  <1>1. Len(b.patterns) = 1 /\ Len(b.patterns) \in Nat
    BY HeadroomAssumption
  <1>2. PICK c : Placing(c, view, b, start, fits, t)
    BY <1>1, OneByOne
  <1>3. c[0] = Plan(view) /\ c[1] = Place(c[0], 1, b, start, 1 \in fits, t)
    BY <1>1, <1>2 DEF Placing
  <1>4. Plan(view).view = view /\ Plan(view).rows = {}
    BY DEF Plan
  <1>5. PlaceAll(view, b, start, fits, t) = Place(Plan(view), 1, b, start, 1 \in fits, t)
    BY <1>1, <1>2, <1>3 DEF Placing
  <1>6. \A r \in Place(Plan(view), 1, b, start, 1 \in fits, t).rows :
           active /\ r \in GenerateFlights(1, id, b.round, t)
    BY <1>4 DEF Place
  <1>7. \A r \in GenerateFlights(1, id, b.round, t) :
           \E i \in GeneratedIndices(id, b.round) : r.flight = ScheduleFlight(id, i, t)
    BY DEF GenerateFlights
  <1> HIDE DEF id, active
  <1>8. \A r \in PlaceAll(view, b, start, fits, t).rows :
           active /\ \E i \in GeneratedIndices(id, b.round) : r.flight = ScheduleFlight(id, i, t)
    BY <1>5, <1>6, <1>7
  <1> QED
    BY <1>8 DEF id, active

\* Where the planner found room, the summary and the projection of a weekday
\* fit the capacity together.
LEMMA RoomFound ==
    ASSUME Kept, NEW aircraft, NEW p \in Patterns, NEW fits, NEW a \in Airports,
           NEW day \in Int,
           CanActivate([schedules |-> schedules, flights |-> flights], aircraft, p, fits),
           a \in {Origin[p.route], Destination[p.route]}, Capacity[a] > 0
    PROVE  LET week == RepresentativeWeek(flights)
               d == Weekday(day)
           IN  Cardinality(DepartingOn(week, a, d)) + Cardinality(LandingOn(week, a, d))
                  + ProjectedUses(p, a, d) <= Capacity[a]
  <1> DEFINE view == [schedules |-> schedules, flights |-> flights]
             week == RepresentativeWeek(flights)
             d == Weekday(day)
             empty == {s \in view.schedules :
                          /\ s.status = "active"
                          /\ \A f \in view.flights : f.sched # s.id
                          /\ a \in {Origin[s.id.pattern.route], Destination[s.id.pattern.route]}
                          /\ d \in s.id.pattern.days}
  <1>1. d \in Days
    <2>1. day % WeekLen \in 0 .. (WeekLen - 1)
      BY Numbers, Divided
    <2> QED
      BY <2>1 DEF Weekday, Days
  <1>2. ~CapacityExceeded(view, p, a)
    BY DEF CanActivate
  <1>3. /\ Capacity[a] \in Nat
        /\ view.flights = flights /\ view.schedules = schedules
    BY HeadroomAssumption
  <1>4. PlannedUsesOf(view, a, d)
           = ScheduleUses(view, a, d)
                + (Cardinality(DepartingOn(week, a, d)) + Cardinality(LandingOn(week, a, d)))
    BY DEF PlannedUsesOf, MaterializedUses, DepartingOn, LandingOn
  <1>5. ScheduleUses(view, a, d) \in Nat
    <2>1. empty \in SUBSET schedules
      BY <1>3
    <2>2. ScheduleUses(view, a, d) = Cardinality(empty)
      BY DEF ScheduleUses
    <2> HIDE DEF empty
    <2> QED
      BY <2>1, <2>2, FS_Subset, FS_CardinalityType DEF Kept
  <1>6. /\ Cardinality(DepartingOn(week, a, d)) \in Nat
        /\ Cardinality(LandingOn(week, a, d)) \in Nat
    <2>1. DepartingOn(week, a, d) \in SUBSET flights /\ LandingOn(week, a, d) \in SUBSET flights
      BY DEF DepartingOn, LandingOn, RepresentativeWeek
    <2> QED
      BY <2>1, FS_Subset, FS_CardinalityType DEF Kept, Orderly
  <1>7. ProjectedUses(p, a, d) \in Nat
    BY ProjectionCounted
  <1> HIDE DEF d, view, week, empty
  <1>8. ~(PlannedUsesOf(view, a, d) + ProjectedUses(p, a, d) > Capacity[a])
    BY <1>1, <1>2 DEF CapacityExceeded
  <1>9. Cardinality(DepartingOn(week, a, d)) + Cardinality(LandingOn(week, a, d))
           + ProjectedUses(p, a, d) <= Capacity[a]
    BY <1>3, <1>4, <1>5, <1>6, <1>7, <1>8
  <1> QED
    BY <1>9 DEF d, week

\* An activation adds no movement to a full date.
LEMMA ActivationsLeaveRoom == Kept /\ Activate => Room
  <1> SUFFICES ASSUME Kept, Activate, NEW a \in Airports, NEW day \in Int,
                      Capacity[a] > 0,
                      Movements(flights', a, day) > Capacity[a],
                      Movements(flights', a, day) > Movements(flights, a, day),
                      ~HiddenOn(a, day), ~MisplannedOn(a, day)
               PROVE  FALSE
    BY DEF Room
  <1> DEFINE view == [schedules |-> schedules, flights |-> flights]
  <1>1. PICK b \in Activations, start \in StartDays, fits \in SUBSET {1} :
           LET plan == PlaceAll(view, b, start, fits, now)
           IN  /\ schedules' = SaveSchedules(schedules, plan.schedules)
               /\ flights' = MergeFlights(flights, Dedupe(flights, plan.rows))
    BY DEF Activate
  <1> DEFINE p == b.patterns[1]
             id == ScheduleId(b.aircraft, p, start)
             plan == PlaceAll(view, b, start, fits, now)
             new == Dedupe(flights, plan.rows)
  <1>2. p \in Patterns /\ id \in ScheduleIds /\ id.pattern = p /\ now \in Int
    <2>1. b.aircraft \in Aircraft /\ b.patterns \in Seq(Patterns) /\ Len(b.patterns) = 1
          /\ start \in Int
      BY HeadroomAssumption
    <2> QED
      BY <2>1 DEF ScheduleId, ScheduleIds, Kept, Lawful, Typed
  <1>3. flights' = MergeFlights(flights, new)
    BY <1>1
  <1>4. \A f \in new : /\ CanActivate(view, b.aircraft, p, 1 \in fits)
                       /\ \E i \in GeneratedIndices(id, b.round) : f = ScheduleFlight(id, i, now)
    BY ActivatedRows DEF Dedupe
  <1> HIDE DEF view, p, id, plan, new
  <1>5. /\ Departing(flights', a, day) \subseteq Departing(flights, a, day) \cup Departing(new, a, day)
        /\ Landing(flights', a, day) \subseteq Landing(flights, a, day) \cup Landing(new, a, day)
    BY <1>3 DEF MergeFlights, Departing, Landing
  <1>6. IsFiniteSet(flights)
    BY DEF Kept, Orderly
  <1>7. Departing(new, a, day) # {} \/ Landing(new, a, day) # {}
    BY <1>5, <1>6, NoMoreMovements
  <1>8. PICK f \in new : f.from = a \/ f.to = a
    BY <1>7 DEF Departing, Landing
  <1>9. CanActivate(view, b.aircraft, p, 1 \in fits)
    BY <1>4, <1>8
  <1>10. a \in {Origin[p.route], Destination[p.route]}
    <2>1. PICK i \in GeneratedIndices(id, b.round) : f = ScheduleFlight(id, i, now)
      BY <1>4
    <2>2. i \in Nat
      BY DEF GeneratedIndices
    <2>3. Shaped(ScheduleFlight(id, i, now)) /\ ScheduleFlight(id, i, now).sched = id
      BY <1>2, <2>2, FlightShape, GeneratedShaped
    <2> QED
      BY <1>2, <1>8, <2>1, <2>3 DEF Shaped, Ends
  <1> DEFINE week == RepresentativeWeek(flights)
             d == Weekday(day)
  <1>11. Cardinality(DepartingOn(week, a, d)) + Cardinality(LandingOn(week, a, d))
            + ProjectedUses(p, a, d) <= Capacity[a]
    BY <1>2, <1>9, <1>10, RoomFound DEF view
  <1>12. /\ Cardinality(Departing(flights, a, day)) <= Cardinality(DepartingOn(week, a, d))
         /\ Cardinality(Landing(flights, a, day)) <= Cardinality(LandingOn(week, a, d))
    BY SummaryCounts
  <1>13. /\ IsFiniteSet(Departing(new, a, day)) /\ IsFiniteSet(Landing(new, a, day))
         /\ Cardinality(Departing(new, a, day)) + Cardinality(Landing(new, a, day))
               <= ProjectedUses(p, a, d)
    <2>1. \A g \in new : g \in flights' /\ g \notin flights
      BY <1>3 DEF MergeFlights, Dedupe, new
    <2>2. \A g \in Departing(new, a, day) \cup Landing(new, a, day) : OnPlannersClocks(g)
      BY <2>1 DEF MisplannedOn, Departing, Landing
    <2> QED
      BY <1>2, <1>4, <2>2, ProjectionCounts
  <1>14. /\ IsFiniteSet(Departing(flights, a, day)) /\ IsFiniteSet(Landing(flights, a, day))
         /\ IsFiniteSet(DepartingOn(week, a, d)) /\ IsFiniteSet(LandingOn(week, a, d))
    BY <1>6, FS_Subset DEF Departing, Landing, DepartingOn, LandingOn, RepresentativeWeek
  <1>15. ProjectedUses(p, a, d) \in Nat
    BY <1>2, ProjectionCounted
  <1> HIDE DEF week, d
  <1>16. /\ Cardinality(Departing(flights', a, day))
               <= Cardinality(Departing(flights, a, day)) + Cardinality(Departing(new, a, day))
         /\ Cardinality(Departing(flights', a, day)) \in Nat
    BY <1>5, <1>13, <1>14, UnionBound
  <1>17. /\ Cardinality(Landing(flights', a, day))
               <= Cardinality(Landing(flights, a, day)) + Cardinality(Landing(new, a, day))
         /\ Cardinality(Landing(flights', a, day)) \in Nat
    BY <1>5, <1>13, <1>14, UnionBound
  <1>18. Movements(flights', a, day)
            = Cardinality(Departing(flights', a, day)) + Cardinality(Landing(flights', a, day))
    BY DEF Movements, Departing, Landing
  <1>19. /\ Cardinality(Departing(flights, a, day)) \in Nat
         /\ Cardinality(Landing(flights, a, day)) \in Nat
         /\ Cardinality(Departing(new, a, day)) \in Nat
         /\ Cardinality(Landing(new, a, day)) \in Nat
         /\ Cardinality(DepartingOn(week, a, d)) \in Nat
         /\ Cardinality(LandingOn(week, a, d)) \in Nat
         /\ Capacity[a] \in Nat
    BY <1>13, <1>14, FS_CardinalityType, HeadroomAssumption
  <1>20. Movements(flights', a, day) <= Capacity[a]
    BY <1>11, <1>12, <1>13, <1>15, <1>16, <1>17, <1>18, <1>19
  <1>21. Movements(flights', a, day) \in Nat
    BY <1>16, <1>17, <1>18
  <1> QED
    BY <1>19, <1>20, <1>21

\* No activation takes an airport above its capacity on any date, with the
\* exceptions that HeadroomKept makes, whatever was served before, for any
\* offsets and changes of clocks, capacities, patterns and turnarounds: what the
\* planner counts for a weekday is no less than what moves on any date.
THEOREM ActivationsKeepHeadroom == Spec => HeadroomKept
  <1> DEFINE HeadroomStep ==
                 \A a \in Airports, day \in Dates :
                     /\ Capacity[a] > 0
                     /\ Movements(flights', a, day) > Capacity[a]
                     /\ Movements(flights', a, day) > Movements(flights, a, day)
                     /\ Activate
                     => HiddenOn(a, day) \/ MisplannedOn(a, day)
  <1>1. Dates \subseteq Int
    BY HeadroomAssumption DEF Dates
  <1>2. Kept /\ Activate => Room
    BY ActivationsLeaveRoom
  <1>3. Kept => [HeadroomStep]_vars
    BY <1>1, <1>2 DEF Room
  <1>4. HeadroomKept <=> [][HeadroomStep]_vars
    BY DEF HeadroomKept
  <1> QED
    BY <1>3, <1>4, RowsStayOrderly, PTL
=============================================================================
