---------------------------- MODULE ImportProofs ----------------------------
(***************************************************************************)
(* Theorems about the world-data import for all the world data there may   *)
(* be, every dependency between them, any number of imports at once, and   *)
(* any number of releases, administrator's changes and faults.             *)
(***************************************************************************)
EXTENDS WorldImport, ConsumerProofs

-----------------------------------------------------------------------------
(* Types. *)

Run ==
    [pc : {"idle", "preparing", "reconciling", "importing", "saving"},
     release : 0..MaxRelease,
     mem : [Keys -> Mappings \cup {None}],
     unread : SUBSET Kinds,
     seen : SUBSET Keys,
     token : {"none", "good", "expired"},
     retried : BOOLEAN,
     next : 1..(Len(Order) + 1),
     skips : SUBSET Keys,
     errors : BOOLEAN]

\* The rows have ids that were given, and no two the same; so do the
\* announcements.
TablesType ==
    /\ rows \in [Keys -> Row \cup {None}]
    /\ nextId \in Nat \ {0}
    /\ created \in Seq(1..(nextId - 1))
    /\ \A k \in Keys : Exists(k) => rows[k].id \in 1..(nextId - 1)
    /\ \A j, k \in Keys : Exists(j) /\ Exists(k) /\ rows[j].id = rows[k].id => j = k

ViewType ==
    /\ view \subseteq 1..(nextId - 1)
    /\ viewGroup \in Group
    /\ OrderedGroup(viewGroup)
    /\ viewGroup.limit <= Len(created)

FileType ==
    /\ file \in [Keys -> Mappings \cup {None}]
    /\ \A k \in Keys : IsMapping(file[k])

RunsType ==
    /\ run \in [Imports -> Run]
    /\ \A p \in Imports, k \in Keys : IsMapping(run[p].mem[k])

TypeInv ==
    /\ release \in 1..MaxRelease
    /\ TablesType
    /\ ViewType
    /\ FileType
    /\ RunsType

\* No mapping and no row is the absence of one.
LEMMA Present ==
  /\ \A m \in Mappings : m # None
  /\ \A r \in Row : r # None
  BY ImportAssumption, AirportsAssumption

\* A payload that names what it refers to is one.
LEMMA RefsArePayload ==
  ASSUME NEW v \in Nat, NEW k \in Keys, NEW code \in Keys,
         NEW f \in [Deps[k] -> Keys \cup Nat]
  PROVE  [version |-> v, code |-> code, refs |-> f] \in Payloads
<1>1. Deps[k] \in SUBSET Keys
  BY AirportsAssumption
<1> QED
  BY <1>1 DEF Payloads

\* The payload of the sources, whatever its release.
LEMMA SourcePayloadType ==
  ASSUME NEW k \in Keys, NEW v \in 0..MaxRelease
  PROVE  SourcePayload(k, v) \in Payloads /\ SourcePayload(k, v).version = v
<1>1. [d \in Deps[k] |-> d] \in [Deps[k] -> Keys \cup Nat]
  BY AirportsAssumption
<1>2. SourceCode[k][v] \in Keys /\ v \in Nat
  BY ImportAssumption
<1> QED
  BY <1>1, <1>2, RefsArePayload DEF SourcePayload

\* The payload that is sent, once what it refers to has an id.
LEMMA PayloadType ==
  ASSUME NEW k \in Keys, NEW r \in Run,
         \A d \in Deps[k] : r.mem[d] # None
  PROVE  Payload(r, k) \in Payloads /\ Payload(r, k).version = r.release
<1>1. Deps[k] \in SUBSET Keys
  BY AirportsAssumption
<1>2. \A d \in Deps[k] : r.mem[d].id \in Nat
  BY <1>1 DEF Run, Mappings
<1>3. [d \in Deps[k] |-> r.mem[d].id] \in [Deps[k] -> Keys \cup Nat]
  BY <1>2
<1>4. r.release \in Nat /\ SourceCode[k][r.release] \in Keys
  BY ImportAssumption DEF Run
<1> QED
  BY <1>3, <1>4, RefsArePayload DEF Payload

\* The row's id at which a payload of an administrator points.
LEMMA CurrentRefsType ==
  ASSUME NEW k \in Keys, NEW code \in Keys, TablesType, \A d \in Deps[k] : Exists(d)
  PROVE  [version |-> 0, code |-> code, refs |-> CurrentRefs(k)] \in Payloads
<1>1. Deps[k] \in SUBSET Keys
  BY AirportsAssumption
<1>2. \A d \in Deps[k] : rows[d].id \in Nat
  BY <1>1 DEF TablesType, Exists, Row
<1>3. CurrentRefs(k) \in [Deps[k] -> Keys \cup Nat]
  BY <1>2 DEF CurrentRefs
<1> QED
  BY <1>3, RefsArePayload

-----------------------------------------------------------------------------
(* What a step may do to the rows. *)

\* Ids are given once; what is announced stays announced.
TablesStep ==
    /\ nextId' >= nextId
    /\ Len(created') >= Len(created)
    /\ \A i \in 1..Len(created) : created'[i] = created[i]

\* No row is deleted, moved to another natural key or replaced.
KeepsRows == \A k \in Keys : Exists(k) => rows'[k] # None /\ rows'[k].id = rows[k].id

\* Tables nobody writes to keep their type, and all their rows.
LEMMA SameTables ==
  ASSUME TablesType, UNCHANGED <<rows, nextId, created>>
  PROVE  TablesType' /\ TablesStep /\ KeepsRows
  BY DEF TablesType, TablesStep, KeepsRows, Exists

\* A row for k, under the next id, and only that.
LEMMA NewRow ==
  ASSUME TablesType, NEW k \in Keys, NEW payload \in Payloads, CanInsert(k, payload),
         WriteRow(k, nextId, payload), nextId' = nextId + 1,
         \/ created' = Append(created, nextId)
         \/ created' = created
  PROVE  TablesType' /\ TablesStep /\ KeepsRows /\ rows'[k] # None /\ rows'[k].id = nextId
<1>1. [id |-> nextId, payload |-> payload] \in Row /\ nextId \in Nat
  BY DEF TablesType, Row
<1>2. \A j \in Keys : ~HasId(j, nextId)
  BY DEF TablesType, HasId
<1>3. ~Exists(k)
  BY <1>2 DEF CanInsert, Taken, Table, HasId
<1>4. rows' = [rows EXCEPT ![k] = [id |-> nextId, payload |-> payload]]
  BY <1>2 DEF WriteRow, TablesType
<1>5. rows' \in [Keys -> Row \cup {None}] /\ rows'[k] # None /\ rows'[k].id = nextId
  BY <1>1, <1>4, Present DEF TablesType
<1>6. \A j \in Keys : j # k => rows'[j] = rows[j]
  BY <1>4 DEF TablesType
<1>7. /\ created' \in Seq(1..(nextId' - 1))
      /\ Len(created') >= Len(created)
      /\ \A i \in 1..Len(created) : created'[i] = created[i]
  <2>1. 1..(nextId - 1) \subseteq 1..nextId /\ nextId \in 1..nextId /\ nextId' - 1 = nextId
    BY DEF TablesType
  <2>2. created \in Seq(1..nextId)
    BY <2>1 DEF TablesType
  <2>3. CASE created' = Append(created, nextId)
    BY <2>1, <2>2, <2>3
  <2>4. CASE created' = created
    BY <2>1, <2>2, <2>4
  <2> QED
    BY <2>3, <2>4
<1>8. \A j \in Keys : rows'[j] # None => rows'[j].id \in 1..(nextId' - 1)
  BY <1>5, <1>6 DEF TablesType, Exists
<1>9. ASSUME NEW i \in Keys, NEW j \in Keys, rows'[i] # None, rows'[j] # None,
             rows'[i].id = rows'[j].id
      PROVE  i = j
  BY <1>2, <1>5, <1>6, <1>9 DEF TablesType, Exists, HasId
<1>10. TablesType'
  BY <1>1, <1>5, <1>7, <1>8, <1>9 DEF TablesType, Exists
<1>11. TablesStep
  BY <1>1, <1>7 DEF TablesStep
<1>12. KeepsRows
  BY <1>3, <1>6 DEF KeepsRows, Exists
<1> QED
  BY <1>5, <1>10, <1>11, <1>12

\* An insert, announced or not, adds a row and removes none.
LEMMA InsertStep ==
  ASSUME TablesType, NEW k \in Keys, NEW payload \in Payloads, CanInsert(k, payload),
         Insert(k, payload) \/ InsertUnannounced(k, payload)
  PROVE  TablesType' /\ TablesStep /\ KeepsRows /\ rows'[k] # None /\ rows'[k].id = nextId
  BY NewRow DEF Insert, InsertUnannounced

\* Another payload, and maybe another natural key, for a row that is there.
LEMMA ChangeStep ==
  ASSUME TablesType, NEW k \in Keys, NEW id, NEW payload \in Payloads,
         HasRow(k, id), Change(k, id, payload)
  PROVE  /\ TablesType' /\ TablesStep /\ rows'[k] # None /\ rows'[k].id = id
         /\ \A j \in Keys : j # k /\ HasId(j, id) => rows'[j] = None
         /\ HasId(k, id) => KeepsRows
<1>1. PICK j0 \in Keys : HasId(j0, id)
  BY DEF HasRow, Table
<1>2. /\ rows[j0] \in Row /\ id = rows[j0].id /\ id \in 1..(nextId - 1)
      /\ nextId' = nextId /\ created' = created
  BY <1>1 DEF HasId, Exists, TablesType, Change
<1>3. [id |-> id, payload |-> payload] \in Row
  BY <1>2 DEF Row
<1>4. rows' = [j \in Keys |-> IF j = k THEN [id |-> id, payload |-> payload]
                             ELSE IF HasId(j, id) THEN None ELSE rows[j]]
  BY DEF Change, WriteRow
<1>5. rows' \in [Keys -> Row \cup {None}] /\ rows'[k] # None /\ rows'[k].id = id
  BY <1>3, <1>4, Present DEF TablesType
<1>6. \A j \in Keys : j # k => rows'[j] = IF HasId(j, id) THEN None ELSE rows[j]
  BY <1>4
<1>7. \A j \in Keys : rows'[j] # None => rows'[j].id \in 1..(nextId' - 1)
  BY <1>2, <1>5, <1>6 DEF TablesType, Exists
<1>8. ASSUME NEW i \in Keys, NEW j \in Keys, rows'[i] # None, rows'[j] # None,
             rows'[i].id = rows'[j].id
      PROVE  i = j
  BY <1>5, <1>6, <1>8 DEF TablesType, Exists, HasId
<1>9. TablesType'
  BY <1>2, <1>5, <1>7, <1>8 DEF TablesType, Exists
<1>10. TablesStep
  BY <1>2 DEF TablesType, TablesStep
<1>11. HasId(k, id) => KeepsRows
  BY <1>5, <1>6 DEF KeepsRows, HasId, Exists, TablesType
<1> QED
  BY <1>5, <1>6, <1>9, <1>10, <1>11

\* A row is deleted.
LEMMA DeleteStep ==
  ASSUME TablesType, NEW k \in Keys, AdminDeletes(k)
  PROVE  TablesType' /\ TablesStep
<1>1. rows' = [rows EXCEPT ![k] = None] /\ UNCHANGED <<nextId, created>>
  BY DEF AdminDeletes
<1>2. rows' \in [Keys -> Row \cup {None}] /\ rows'[k] = None
  BY <1>1 DEF TablesType
<1>3. \A j \in Keys : j # k => rows'[j] = rows[j]
  BY <1>1 DEF TablesType
<1> QED
  BY <1>1, <1>2, <1>3 DEF TablesType, TablesStep, Exists

\* Ids that were given stay given.
LEMMA MoreIds ==
  ASSUME NEW m \in Nat, NEW n \in Nat, m <= n
  PROVE  1..(m - 1) \subseteq 1..(n - 1)
  OBVIOUS

\* And so do the ids of a mapping.
LEMMA MappingsStay ==
  ASSUME TablesType, TablesType', TablesStep, NEW m, IsMapping(m)
  PROVE  IsMapping(m)'
  BY DEF TablesType, TablesStep, IsMapping

\* A view nobody touches keeps its type while the tables grow.
LEMMA ViewStays ==
  ASSUME TablesType, TablesType', TablesStep, ViewType, UNCHANGED viewVars
  PROVE  ViewType'
<1>1. nextId <= nextId' /\ nextId \in Nat /\ nextId' \in Nat
  BY DEF TablesType, TablesStep
<1>2. Len(created) \in Nat /\ Len(created') \in Nat
  BY DEF TablesType
<1>3. 1..(nextId - 1) \subseteq 1..(nextId' - 1)
  BY <1>1, MoreIds
<1>4. viewGroup.limit \in Nat /\ UNCHANGED <<view, viewGroup>>
  BY DEF ViewType, viewVars, Group
<1>5. view' \subseteq 1..(nextId' - 1)
  BY <1>3, <1>4 DEF ViewType
<1>6. viewGroup'.limit <= Len(created')
  BY <1>2, <1>4 DEF TablesStep, ViewType
<1> QED
  BY <1>4, <1>5, <1>6 DEF ViewType, OrderedGroup

-----------------------------------------------------------------------------
(* What a step may do to the runs. *)

\* The other parts of TypeInv after a step of the tables.
LEMMA FileStays ==
  ASSUME TablesType, TablesType', TablesStep, FileType, UNCHANGED file
  PROVE  FileType'
<1>1. \A k \in Keys : IsMapping(file[k])'
  BY MappingsStay DEF FileType, IsMapping, TablesType, TablesStep
<1> QED
  BY <1>1 DEF FileType, IsMapping

\* A run that goes on with mappings whose ids were given.
LEMMA RunStep ==
  ASSUME TablesType, TablesType', TablesStep, RunsType, NEW p \in Imports,
         NEW r \in Run, run' = [run EXCEPT ![p] = r],
         \A k \in Keys : IsMapping(r.mem[k]) \/ IsMapping(r.mem[k])'
  PROVE  RunsType' /\ run'[p] = r /\ \A q \in Imports : q # p => run'[q] = run[q]
<1>1. run' \in [Imports -> Run] /\ run'[p] = r /\ \A q \in Imports : q # p => run'[q] = run[q]
  BY DEF RunsType
<1>2. ASSUME NEW q \in Imports, NEW k \in Keys
      PROVE  IsMapping(run[q].mem[k])'
  <2>1. nextId \in Nat /\ nextId' \in Nat /\ nextId' >= nextId
    BY DEF TablesType, TablesStep
  <2>2. CASE q = p
    BY <1>1, <2>1, <2>2 DEF IsMapping
  <2>3. CASE q # p
    BY <1>1, <2>1, <2>3 DEF IsMapping, RunsType
  <2> QED
    BY <2>2, <2>3
<1> QED
  BY <1>1, <1>2 DEF RunsType

\* The runs while only the tables change.
LEMMA RunsStay ==
  ASSUME TablesType, TablesType', TablesStep, RunsType, UNCHANGED run
  PROVE  RunsType'
<1>1. ASSUME NEW p \in Imports, NEW k \in Keys
      PROVE  IsMapping(run[p].mem[k])'
  <2>1. nextId \in Nat /\ nextId' \in Nat /\ nextId' >= nextId
    BY DEF TablesType, TablesStep
  <2>2. IsMapping(run[p].mem[k]) /\ run' = run
    BY DEF RunsType
  <2> QED
    BY <2>1, <2>2 DEF IsMapping
<1> QED
  BY <1>1 DEF RunsType

\* An import that has ended, or not begun.
LEMMA IdleType ==
  /\ Idle \in Run /\ \A k \in Keys : Idle.mem[k] = None
  /\ \A k \in Keys : IsMapping(Idle.mem[k])
<1>1. Len(Order) \in Nat
  BY ImportAssumption
<1> QED
  BY <1>1, ImportAssumption DEF Idle, Run, IsMapping

\* An import that ends goes back to idle and leaves the others alone.
LEMMA EndsStep ==
  ASSUME TablesType, TablesType', TablesStep, RunsType, NEW p \in Imports, Ends(p)
  PROVE  RunsType' /\ run'[p] = Idle /\ \A q \in Imports : q # p => run'[q] = run[q]
  BY RunStep, IdleType DEF Ends

-----------------------------------------------------------------------------
(* The inductive invariant. *)

\* What an import knows.  It has a mapping for every row its lists had; unless
\* a natural key has lost its row, its mappings are of the rows that have their
\* keys and what it is past is there, unless it was skipped or an error reported.
RunGood(r) ==
    /\ r.pc = "preparing" => r.seen = {}
    /\ \A k \in Keys : r.mem[k] = None => k \notin r.seen
    /\ ~deleted =>
          /\ \A k \in Keys : r.mem[k] # None => HasId(k, r.mem[k].id)
          /\ ~r.errors =>
                \A i \in 1..(r.next - 1) : Exists(Order[i]) \/ Order[i] \in r.skips
          /\ ~r.errors /\ r.pc = "saving" => r.next = Len(Order) + 1

\* The mappings of the file are of rows that exist.
FileGood == ~deleted => \A k \in Keys : file[k] # None => HasId(k, file[k].id)

IInv ==
    /\ TypeInv
    /\ FileGood
    /\ \A p \in Imports : RunGood(run[p])

\* What is good stays good while rows are added, or once one was deleted.
LEMMA GoodStays ==
  ASSUME NEW r \in Run, RunGood(r), deleted => deleted', deleted' \/ KeepsRows
  PROVE  RunGood(r)'
<1>1. ASSUME ~deleted'
      PROVE  /\ \A k \in Keys : r.mem[k] # None => HasId(k, r.mem[k].id)'
             /\ ~r.errors => \A i \in 1..(r.next - 1) :
                                 rows'[Order[i]] # None \/ Order[i] \in r.skips
             /\ ~r.errors /\ r.pc = "saving" => r.next = Len(Order) + 1
  <2>1. \A i \in 1..(r.next - 1) : Order[i] \in Keys
    BY ImportAssumption DEF Run
  <2> QED
    BY <1>1, <2>1 DEF RunGood, KeepsRows, HasId, Exists
<1> QED
  BY <1>1 DEF RunGood, Exists

\* The p-th import goes on, in good order.
Moves(p) ==
    \E r \in Run :
       /\ run' = [run EXCEPT ![p] = r]
       /\ \A k \in Keys : IsMapping(r.mem[k])'
       /\ RunGood(r)'

\* What every step does to the tables.
Steady == TablesType' /\ TablesStep /\ (deleted => deleted') /\ (deleted' \/ KeepsRows)

\* The others are as they were.
LEMMA MovesKeep ==
  ASSUME IInv, Steady, NEW p \in Imports, Moves(p)
  PROVE  RunsType' /\ \A q \in Imports : RunGood(run[q])'
<1>1. PICK r \in Run : /\ run' = [run EXCEPT ![p] = r]
                       /\ \A k \in Keys : IsMapping(r.mem[k])'
                       /\ RunGood(r)'
  BY DEF Moves
<1>2. TablesType /\ RunsType /\ \A q \in Imports : run[q] \in Run /\ RunGood(run[q])
  BY DEF IInv, TypeInv, RunsType
<1>3. RunsType' /\ run'[p] = r /\ \A q \in Imports : q # p => run'[q] = run[q]
  BY <1>1, <1>2, RunStep DEF Steady
<1>4. ASSUME NEW q \in Imports
      PROVE  RunGood(run[q])'
  <2>1. CASE q = p
    BY <1>1, <1>3, <2>1 DEF RunGood, Exists, HasId
  <2>2. CASE q # p
    <3>1. RunGood(run[q]) /\ run[q] \in Run /\ run'[q] = run[q]
      BY <1>2, <1>3, <2>2
    <3>2. \A r0 \in Run : RunGood(r0) => RunGood(r0)'
      BY GoodStays DEF Steady
    <3> QED
      BY <3>1, <3>2 DEF RunGood, Exists, HasId
  <2> QED
    BY <2>1, <2>2
<1> QED
  BY <1>3, <1>4

\* An import that ends.
LEMMA EndsMoves ==
  ASSUME IInv, Steady, NEW p \in Imports, Ends(p)
  PROVE  Moves(p)
<1>1. Idle \in Run /\ \A k \in Keys : Idle.mem[k] = None
  BY IdleType
<1>2. Idle.pc = "idle" /\ Idle.next = 1 /\ Idle.seen = {}
  BY DEF Idle
<1>3. RunGood(Idle)'
  BY <1>1, <1>2 DEF RunGood
<1> QED
  BY <1>1, <1>3 DEF Ends, Moves, IsMapping

\* A step that leaves the tables alone takes nothing an import knows away.
LEMMA SameSteady ==
  ASSUME IInv, UNCHANGED <<rows, nextId, created, deleted>>
  PROVE  Steady
  BY SameTables DEF IInv, TypeInv, Steady

-----------------------------------------------------------------------------
(* One lemma per action of an import. *)

\* What Steady says of an import's knowledge.
LEMMA RunFacts ==
  ASSUME IInv, NEW p \in Imports
  PROVE  /\ run[p] \in Run /\ RunGood(run[p]) /\ DOMAIN run = Imports
         /\ \A k \in Keys : IsMapping(run[p].mem[k])
         /\ TablesType /\ FileType /\ release \in 1..MaxRelease
         /\ run \in [Imports -> Run]
  BY DEF IInv, TypeInv, RunsType

\* A started import knows nothing yet.
LEMMA StartMoves ==
  ASSUME IInv, NEW p \in Imports, Start(p)
  PROVE  Steady /\ Moves(p)
<1>1. Steady
  BY SameSteady DEF Start, airportVars, tableVars
<1>2. release \in 0..MaxRelease
  BY ImportAssumption DEF IInv, TypeInv
<1>3. [Idle EXCEPT !.pc = "preparing", !.release = release] \in Run
  BY <1>2, IdleType DEF Run
<1>4. PICK r \in Run : r = [Idle EXCEPT !.pc = "preparing", !.release = release]
  BY <1>3
<1>5. run' = [run EXCEPT ![p] = r]
  BY <1>4 DEF Start
<1>6. /\ r.pc = "preparing" /\ r.next = 1 /\ r.seen = {}
      /\ \A k \in Keys : r.mem[k] = None
  BY <1>4 DEF Idle
<1>7. RunGood(r)'
  BY <1>6 DEF RunGood
<1> QED
  BY <1>1, <1>5, <1>6, <1>7 DEF Moves, IsMapping

\* A prepared import takes over the mappings of the file, and no others.
LEMMA PrepareMoves ==
  ASSUME IInv, NEW p \in Imports, Prepare(p) \/ PrepareWithoutToken(p)
  PROVE  Steady /\ Moves(p)
<1>1. Steady
  BY SameSteady DEF Prepare, PrepareWithoutToken, airportVars, tableVars
<1>2. run[p] \in Run /\ RunGood(run[p]) /\ FileType /\ FileGood
  BY RunFacts DEF IInv
<1>3. UNCHANGED <<rows, nextId, deleted, file>>
  BY DEF Prepare, PrepareWithoutToken, airportVars, tableVars
<1>4. \A k \in Keys : IsMapping(file[k])'
  BY <1>2, <1>3 DEF FileType, IsMapping
<1>5. CASE Prepare(p)
  <2>1. [run[p] EXCEPT !.mem = file, !.token = "good", !.unread = Kinds,
                       !.pc = "reconciling"] \in Run
    BY <1>2 DEF Run, FileType
  <2>2. PICK r \in Run :
          r = [run[p] EXCEPT !.mem = file, !.token = "good", !.unread = Kinds,
                             !.pc = "reconciling"]
    BY <2>1
  <2>3. run' = [run EXCEPT ![p] = r]
    BY <1>5, <2>2, RunFacts DEF Prepare
  <2>4. /\ r.mem = file /\ r.unread = Kinds /\ r.pc = "reconciling"
        /\ r.seen = run[p].seen /\ r.next = run[p].next /\ r.errors = run[p].errors
        /\ r.skips = run[p].skips
    BY <1>2, <2>2 DEF Run
  <2>5. run[p].seen = {}
    BY <1>2, <1>5 DEF Prepare, RunGood
  <2>6. RunGood(r)'
    BY <1>2, <1>3, <2>4, <2>5 DEF RunGood, FileGood, Exists, HasId
  <2> QED
    BY <1>1, <1>3, <1>4, <2>3, <2>4, <2>6 DEF Moves, IsMapping
<1>6. CASE PrepareWithoutToken(p)
  <2>1. [run[p] EXCEPT !.mem = file, !.errors = TRUE, !.pc = "saving"] \in Run
    BY <1>2 DEF Run, FileType
  <2>2. PICK r \in Run :
          r = [run[p] EXCEPT !.mem = file, !.errors = TRUE, !.pc = "saving"]
    BY <2>1
  <2>3. run' = [run EXCEPT ![p] = r]
    BY <1>6, <2>2, RunFacts DEF PrepareWithoutToken
  <2>4. /\ r.mem = file /\ r.pc = "saving" /\ r.errors = TRUE
        /\ r.seen = run[p].seen
    BY <1>2, <2>2 DEF Run
  <2>5. run[p].seen = {}
    BY <1>2, <1>6 DEF PrepareWithoutToken, RunGood
  <2>6. RunGood(r)'
    BY <1>2, <1>3, <2>4, <2>5 DEF RunGood, FileGood, Exists, HasId
  <2> QED
    BY <1>1, <1>3, <1>4, <2>3, <2>4, <2>6 DEF Moves, IsMapping
<1> QED
  BY <1>5, <1>6

\* A list that is read leaves without a mapping only what has no row.
LEMMA ReadListMoves ==
  ASSUME IInv, NEW p \in Imports, NEW kind \in Kinds, ReadList(p, kind)
  PROVE  Steady /\ Moves(p)
<1>1. Steady
  BY SameSteady DEF ReadList, airportVars, tableVars
<1>2. run[p] \in Run /\ RunGood(run[p]) /\ TablesType
  BY RunFacts
<1>3. UNCHANGED <<rows, nextId, deleted>>
  BY DEF ReadList, airportVars, tableVars
<1> DEFINE listed == {k \in SourceKeys : Kind[k] = kind}
           mem == [k \in Keys |-> IF k \in listed THEN Reconciled(p, k)
                                ELSE run[p].mem[k]]
           seen == run[p].seen \cup {k \in listed : Exists(k)}
<1>4. ASSUME NEW k \in Keys
      PROVE  /\ mem[k] \in Mappings \cup {None}
             /\ IsMapping(mem[k])
             /\ mem[k] = None => run[p].mem[k] = None
             /\ mem[k] = None => k \notin listed \/ ~Exists(k)
             /\ mem[k] # None => mem[k] = run[p].mem[k] \/ HasId(k, mem[k].id)
  <2>1. CASE k \in listed /\ run[p].mem[k] = None /\ Exists(k)
    <3>1. run[p].release \in 0..MaxRelease
      BY <1>2 DEF Run
    <3>2. /\ rows[k].id \in 1..(nextId - 1) /\ rows[k].id \in Nat
          /\ SourcePayload(k, run[p].release) \in Payloads
          /\ SourcePayload(k, run[p].release).version = run[p].release
      BY <1>2, <2>1, <3>1, SourcePayloadType DEF TablesType
    <3>3. mem[k] = [id |-> rows[k].id, hash |-> SourcePayload(k, run[p].release)]
      BY <2>1 DEF Reconciled, Mapping
    <3>4. mem[k] \in Mappings
      BY <3>2, <3>3 DEF Mappings
    <3>5. IsMapping(mem[k])
      BY <3>1, <3>2, <3>3 DEF IsMapping
    <3>6. HasId(k, mem[k].id)
      BY <2>1, <3>3 DEF HasId
    <3> QED
      BY <2>1, <3>4, <3>5, <3>6, Present
  <2>2. CASE ~(k \in listed /\ run[p].mem[k] = None /\ Exists(k))
    <3>1. mem[k] = run[p].mem[k]
      BY <2>2 DEF Reconciled
    <3> QED
      BY <1>2, <2>2, <3>1, RunFacts DEF Run
  <2> QED
    BY <2>1, <2>2
<1>5. mem \in [Keys -> Mappings \cup {None}]
  BY <1>4
<1>6. listed \subseteq Keys
  BY ImportAssumption DEF SourceKeys
<1>7. seen \in SUBSET Keys
  BY <1>2, <1>6 DEF Run
<1>8. PICK r \in Run : r = [run[p] EXCEPT !.mem = mem, !.seen = seen,
                                            !.unread = run[p].unread \ {kind}]
  <2> HIDE DEF mem, seen
  <2> QED
    BY <1>2, <1>5, <1>7 DEF Run
<1>9. run' = [run EXCEPT ![p] = r]
  BY <1>2, <1>8, RunFacts DEF ReadList, Run
<1>10. /\ r.mem = mem /\ r.seen = seen
       /\ r.pc = "reconciling" /\ r.next = run[p].next
       /\ r.errors = run[p].errors /\ r.skips = run[p].skips
  BY <1>2, <1>8 DEF Run, ReadList
<1> HIDE DEF mem
<1>11. RunGood(r)'
  <2>1. \A k \in Keys : r.mem[k] = None => k \notin r.seen
    BY <1>2, <1>4, <1>10 DEF RunGood
  <2>2. ~deleted => \A k \in Keys : r.mem[k] # None => HasId(k, r.mem[k].id)
    BY <1>2, <1>4, <1>10 DEF RunGood
  <2> QED
    BY <1>2, <1>3, <1>10, <2>1, <2>2 DEF RunGood, Exists, HasId
<1> QED
  BY <1>1, <1>3, <1>4, <1>9, <1>10, <1>11 DEF Moves, IsMapping

\* A step that changes where the import is, or its token, and nothing else.
LEMMA GoesOn ==
  ASSUME IInv, NEW p \in Imports, UNCHANGED <<rows, nextId, created, deleted>>,
         NEW r \in Run, run' = [run EXCEPT ![p] = r],
         r.mem = run[p].mem, r.seen = run[p].seen, r.skips = run[p].skips,
         r.next = run[p].next, r.errors = run[p].errors,
         \/ r.pc = run[p].pc
         \/ r.pc = "importing"
         \/ r.pc = "saving" /\ r.next = Len(Order) + 1
  PROVE  Steady /\ Moves(p)
<1>1. Steady
  BY SameSteady
<1>2. run[p] \in Run /\ RunGood(run[p]) /\ \A k \in Keys : IsMapping(run[p].mem[k])
  BY RunFacts
<1>3. RunGood(r)'
  BY <1>2 DEF RunGood, Exists, HasId
<1> QED
  BY <1>1, <1>2, <1>3 DEF Moves, IsMapping

\* An import that begins to send keeps what it knows.
LEMMA BeginSendingMoves ==
  ASSUME IInv, NEW p \in Imports, BeginSending(p)
  PROVE  Steady /\ Moves(p)
<1>1. run[p] \in Run
  BY RunFacts
<1>2. PICK r \in Run : r = [run[p] EXCEPT !.pc = "importing"]
  BY <1>1 DEF Run
<1>3. run' = [run EXCEPT ![p] = r]
  BY <1>2, RunFacts DEF BeginSending
<1> QED
  BY <1>1, <1>2, <1>3, GoesOn DEF BeginSending, Run, airportVars, tableVars

\* A token that expires or is renewed changes nothing an import knows.
LEMMA TokenMoves ==
  ASSUME IInv, NEW p \in Imports,
         TokenExpires(p) \/ (Relogin(p) /\ ~run[p].retried)
  PROVE  Steady /\ Moves(p)
<1>1. run[p] \in Run /\ UNCHANGED <<rows, nextId, created, deleted>>
  BY RunFacts DEF TokenExpires, Relogin, airportVars, tableVars
<1>2. CASE TokenExpires(p)
  <2>1. PICK r \in Run : r = [run[p] EXCEPT !.token = "expired"]
    BY <1>1 DEF Run
  <2>2. run' = [run EXCEPT ![p] = r]
    BY <1>2, <2>1, RunFacts DEF TokenExpires
  <2> QED
    BY <1>1, <2>1, <2>2, GoesOn DEF Run
<1>3. CASE Relogin(p) /\ ~run[p].retried
  <2>1. PICK r \in Run : r = [run[p] EXCEPT !.token = "good", !.retried = TRUE]
    BY <1>1 DEF Run
  <2>2. run' = [run EXCEPT ![p] = r]
    BY <1>3, <2>1, RunFacts DEF Relogin
  <2> QED
    BY <1>1, <2>1, <2>2, GoesOn DEF Run
<1> QED
  BY <1>2, <1>3

\* An import past its last entity has sent them all.
LEMMA FinishSendingMoves ==
  ASSUME IInv, NEW p \in Imports, FinishSending(p)
  PROVE  Steady /\ Moves(p)
<1>1. run[p] \in Run
  BY RunFacts
<1>2. PICK r \in Run : r = [run[p] EXCEPT !.pc = "saving"]
  BY <1>1 DEF Run
<1>3. run' = [run EXCEPT ![p] = r]
  BY <1>2, RunFacts DEF FinishSending
<1>4. run[p].next = Len(Order) + 1
  <2>1. Len(Order) \in Nat /\ run[p].next \in 1..(Len(Order) + 1)
    BY <1>1, ImportAssumption DEF Run
  <2>2. run[p].next..Len(Order) = {}
    BY DEF FinishSending, Left
  <2> QED
    BY <2>1, <2>2
<1> QED
  BY <1>1, <1>2, <1>3, <1>4, GoesOn DEF FinishSending, Run, airportVars, tableVars

\* An import that has an entity has a next one to go on to.
LEMMA NextFacts ==
  ASSUME IInv, NEW p \in Imports, HasEntity(p)
  PROVE  run[p].next \in Nat /\ run[p].next + 1 \in 1..(Len(Order) + 1)
<1>1. Len(Order) \in Nat /\ run[p].next \in 1..(Len(Order) + 1)
  BY RunFacts, ImportAssumption DEF Run
<1>2. run[p].next..Len(Order) # {}
  BY DEF HasEntity, Left
<1> QED
  BY <1>1, <1>2

\* On to the next entity: this one is there, or was skipped, or an error has been
\* reported.
LEMMA MovesOn ==
  ASSUME IInv, Steady, NEW p \in Imports, HasEntity(p), UNCHANGED deleted,
         NEW r \in Run, run' = [run EXCEPT ![p] = r],
         r.pc = run[p].pc, r.seen = run[p].seen, r.next = run[p].next + 1,
         run[p].skips \subseteq r.skips, run[p].errors => r.errors,
         \A k \in Keys : IsMapping(r.mem[k])',
         \A k \in Keys : \/ r.mem[k] = run[p].mem[k]
                         \/ r.mem[k] # None /\ HasId(k, r.mem[k].id)',
         \/ r.errors
         \/ deleted \/ rows'[Entity(p)] # None \/ Entity(p) \in r.skips
  PROVE  Moves(p)
<1>1. PICK r0 \in Run : r0 = run[p] /\ RunGood(r0)
  BY RunFacts
<1>2. RunGood(r0)'
  BY <1>1, GoodStays DEF Steady
<1>3. r.pc = "importing" /\ run[p].next \in Nat
  BY NextFacts DEF HasEntity
<1>4. ASSUME ~deleted', ~r.errors
      PROVE  \A i \in 1..(r.next - 1) : rows'[Order[i]] # None \/ Order[i] \in r.skips
  <2>1. ASSUME NEW i \in 1..(r.next - 1)
        PROVE  rows'[Order[i]] # None \/ Order[i] \in r.skips
    <3>1. CASE i = run[p].next
      BY <1>4, <3>1 DEF Entity
    <3>2. CASE i # run[p].next
      <4>1. i \in 1..(r0.next - 1)
        BY <1>1, <1>3, <3>2
      <4> QED
        BY <1>1, <1>2, <1>4, <4>1 DEF RunGood, Exists
    <3> QED
      BY <3>1, <3>2
  <2> QED
    BY <2>1
<1>5. ASSUME NEW k \in Keys
      PROVE  /\ r.mem[k] = None => k \notin r.seen
             /\ ~deleted' /\ r.mem[k] # None => HasId(k, r.mem[k].id)'
  BY <1>1, <1>2 DEF RunGood, HasId, Exists
<1>6. RunGood(r)'
  BY <1>3, <1>4, <1>5 DEF RunGood, Exists, HasId
<1> QED
  BY <1>6 DEF Moves

\* The step that goes on to the next entity.
LEMMA AdvanceMoves ==
  ASSUME IInv, Steady, NEW p \in Imports, HasEntity(p), UNCHANGED deleted,
         NEW mem \in [Keys -> Mappings \cup {None}], NEW errors \in BOOLEAN,
         Advance(p, mem, errors),
         \A k \in Keys : IsMapping(mem[k])',
         \A k \in Keys : \/ mem[k] = run[p].mem[k]
                         \/ mem[k] # None /\ HasId(k, mem[k].id)',
         \/ errors
         \/ errors = run[p].errors /\ (deleted \/ rows'[Entity(p)] # None)
  PROVE  Moves(p)
<1>1. run[p] \in Run /\ run[p].next + 1 \in 1..(Len(Order) + 1)
  BY RunFacts, NextFacts
<1>2. PICK r \in Run : r = [run[p] EXCEPT !.mem = mem, !.errors = errors,
                                          !.next = run[p].next + 1, !.retried = FALSE]
  BY <1>1 DEF Run
<1>3. run' = [run EXCEPT ![p] = r]
  BY <1>1, <1>2, RunFacts DEF Advance, Run
<1>4. /\ r.mem = mem /\ r.errors = errors /\ r.next = run[p].next + 1
      /\ r.seen = run[p].seen /\ r.skips = run[p].skips /\ r.pc = run[p].pc
  BY <1>1, <1>2 DEF Run
<1>5. /\ \A k \in Keys : IsMapping(r.mem[k])'
      /\ \A k \in Keys : \/ r.mem[k] = run[p].mem[k]
                         \/ r.mem[k] # None /\ HasId(k, r.mem[k].id)'
  BY <1>4
<1> QED
  BY <1>3, <1>4, <1>5, MovesOn

\* The entity an import is at, and what it would send of it.
LEMMA EntityFacts ==
  ASSUME IInv, NEW p \in Imports, HasEntity(p)
  PROVE  /\ Entity(p) \in Keys /\ Entity(p) \in SourceKeys
         /\ run[p].mem \in [Keys -> Mappings \cup {None}] /\ run[p].errors \in BOOLEAN
         /\ ~MissingDeps(p, Entity(p)) =>
               /\ Payload(run[p], Entity(p)) \in Payloads
               /\ Payload(run[p], Entity(p)).version \in 0..MaxRelease
<1>1. run[p] \in Run
  BY RunFacts
<1>2. Entity(p) \in Keys /\ Entity(p) \in SourceKeys
  <2>1. Len(Order) \in Nat /\ run[p].next \in 1..(Len(Order) + 1)
    BY <1>1, ImportAssumption DEF Run
  <2>2. run[p].next..Len(Order) # {}
    BY DEF HasEntity, Left
  <2>3. run[p].next \in 1..Len(Order)
    BY <2>1, <2>2
  <2>4. Order[run[p].next] \in Keys
    BY <2>1, <2>3, ImportAssumption
  <2> QED
    BY <2>3, <2>4 DEF Entity, SourceKeys
<1>3. ~MissingDeps(p, Entity(p)) =>
        /\ Payload(run[p], Entity(p)) \in Payloads
        /\ Payload(run[p], Entity(p)).version = run[p].release
  BY <1>1, <1>2, PayloadType DEF MissingDeps
<1> QED
  BY <1>1, <1>2, <1>3 DEF Run

\* An entity that is passed over leaves the tables and the mappings alone.
LEMMA PassOverMoves ==
  ASSUME IInv, NEW p \in Imports, PassOver(p)
  PROVE  Steady /\ Moves(p)
<1>1. UNCHANGED <<rows, nextId, created, deleted>> /\ HasEntity(p)
  BY DEF PassOver, airportVars, tableVars
<1>2. Steady
  BY <1>1, SameSteady
<1>3. /\ RunGood(run[p]) /\ \A k \in Keys : IsMapping(run[p].mem[k])
      /\ Entity(p) \in Keys
      /\ run[p].mem \in [Keys -> Mappings \cup {None}] /\ run[p].errors \in BOOLEAN
  BY <1>1, RunFacts, EntityFacts
<1>5. PICK mem \in [Keys -> Mappings \cup {None}] : mem = run[p].mem
  BY <1>3
<1>6. \A k \in Keys : IsMapping(mem[k])'
  BY <1>1, <1>3, <1>5 DEF IsMapping
<1>7. CASE Advance(p, mem, TRUE)
  BY <1>1, <1>2, <1>5, <1>6, <1>7, AdvanceMoves
<1>8. CASE UpToDate(p, Entity(p)) /\ Advance(p, mem, run[p].errors)
  <2>1. deleted \/ rows'[Entity(p)] # None
    BY <1>1, <1>3, <1>8 DEF UpToDate, RunGood, Exists, HasId
  <2>2. PICK errors \in BOOLEAN : errors = run[p].errors
    BY <1>3
  <2> QED
    BY <1>1, <1>2, <1>5, <1>6, <1>8, <2>1, <2>2, AdvanceMoves
<1> QED
  BY <1>2, <1>5, <1>7, <1>8 DEF PassOver

\* A conflict skips the entity and says so.
LEMMA ConflictMoves ==
  ASSUME IInv, NEW p \in Imports, Conflict(p)
  PROVE  Steady /\ Moves(p)
<1>1. UNCHANGED <<rows, nextId, created, deleted>> /\ HasEntity(p)
  BY DEF Conflict, airportVars, tableVars
<1>2. Steady
  BY <1>1, SameSteady
<1>3. /\ run[p] \in Run /\ \A k \in Keys : IsMapping(run[p].mem[k])
      /\ Entity(p) \in Keys /\ run[p].next + 1 \in 1..(Len(Order) + 1)
  BY <1>1, RunFacts, EntityFacts, NextFacts
<1>4. PICK r \in Run : r = [run[p] EXCEPT !.skips = run[p].skips \cup {Entity(p)},
                                          !.next = run[p].next + 1, !.retried = FALSE]
  BY <1>3 DEF Run
<1>5. run' = [run EXCEPT ![p] = r]
  BY <1>3, <1>4, RunFacts DEF Conflict, Run
<1>6. /\ r.mem = run[p].mem /\ r.errors = run[p].errors /\ r.next = run[p].next + 1
      /\ r.seen = run[p].seen /\ r.skips = run[p].skips \cup {Entity(p)}
      /\ r.pc = run[p].pc
  BY <1>3, <1>4 DEF Run
<1>7. \A k \in Keys : IsMapping(r.mem[k])'
  BY <1>1, <1>3, <1>6 DEF IsMapping
<1> QED
  BY <1>1, <1>2, <1>5, <1>6, <1>7, MovesOn

\* A request that is done is done to the row it is about.
LEMMA RequestSteady ==
  ASSUME IInv, NEW p \in Imports, HasEntity(p), Accepts(p, Entity(p)), UNCHANGED deleted,
         \/ /\ Creates(p, Entity(p))
            /\ \/ Insert(Entity(p), Payload(run[p], Entity(p)))
               \/ InsertUnannounced(Entity(p), Payload(run[p], Entity(p)))
         \/ /\ Updates(p, Entity(p))
            /\ Change(Entity(p), run[p].mem[Entity(p)].id, Payload(run[p], Entity(p)))
  PROVE  /\ Steady /\ rows'[Entity(p)] # None
         /\ rows'[Entity(p)].id = RequestId(p, Entity(p))
<1>1. TablesType /\ Entity(p) \in Keys /\ Payload(run[p], Entity(p)) \in Payloads
  BY RunFacts, EntityFacts DEF Creates, Updates
<1>2. CASE /\ Creates(p, Entity(p))
           /\ \/ Insert(Entity(p), Payload(run[p], Entity(p)))
              \/ InsertUnannounced(Entity(p), Payload(run[p], Entity(p)))
  <2>1. CanInsert(Entity(p), Payload(run[p], Entity(p)))
    BY <1>2 DEF Accepts, Creates
  <2>2. /\ TablesType' /\ TablesStep /\ KeepsRows
        /\ rows'[Entity(p)] # None /\ rows'[Entity(p)].id = nextId
    BY <1>1, <1>2, <2>1, InsertStep
  <2> QED
    BY <1>2, <2>2 DEF Steady, Creates, RequestId
<1>3. CASE /\ Updates(p, Entity(p))
           /\ Change(Entity(p), run[p].mem[Entity(p)].id, Payload(run[p], Entity(p)))
  <2>1. PICK id : id = run[p].mem[Entity(p)].id
    OBVIOUS
  <2>2. HasRow(Entity(p), id) /\ id = RequestId(p, Entity(p))
    BY <1>3, <2>1 DEF Accepts, CanChange, Updates, RequestId
  <2>3. ~deleted => HasId(Entity(p), id)
    BY <1>1, <1>3, <2>1, RunFacts DEF RunGood, Updates
  <2>4. /\ TablesType' /\ TablesStep /\ rows'[Entity(p)] # None /\ rows'[Entity(p)].id = id
        /\ HasId(Entity(p), id) => KeepsRows
    BY <1>1, <1>3, <2>1, <2>2, ChangeStep
  <2> QED
    BY <1>3, <2>2, <2>3, <2>4 DEF Steady
<1> QED
  BY <1>2, <1>3

\* A request that succeeds leaves its entity with a mapping of its row.
LEMMA SendMoves ==
  ASSUME IInv, NEW p \in Imports, SendCreate(p) \/ SendUpdate(p)
  PROVE  Steady /\ Moves(p)
<1>1. HasEntity(p)
  BY DEF SendCreate, SendUpdate
<1>2. PICK k \in Keys : k = Entity(p)
  BY <1>1, EntityFacts
<1>3. Accepts(p, k) /\ UNCHANGED deleted /\ ~MissingDeps(p, k)
  BY <1>2 DEF SendCreate, SendUpdate, Creates, Updates
<1>4. PICK i : i = RequestId(p, k)
  OBVIOUS
<1>5. Steady /\ rows'[k] # None /\ rows'[k].id = i /\ HasId(k, i)'
  BY <1>1, <1>2, <1>3, <1>4, RequestSteady DEF SendCreate, SendUpdate, HasId, Exists
<1>6. /\ TablesType /\ TablesType' /\ TablesStep
      /\ Payload(run[p], k) \in Payloads
      /\ Payload(run[p], k).version \in 0..MaxRelease
      /\ \A j \in Keys : IsMapping(run[p].mem[j])
      /\ run[p].mem \in [Keys -> Mappings \cup {None}] /\ run[p].errors \in BOOLEAN
      /\ i \in 1..(nextId' - 1) /\ i \in Nat
  <2>1. TablesType' /\ TablesStep
    BY <1>5 DEF Steady
  <2>2. i \in 1..(nextId' - 1)
    BY <1>5, <2>1 DEF TablesType, Exists
  <2> QED
    BY <1>1, <1>2, <1>3, <2>1, <2>2, RunFacts, EntityFacts
<1>7. Mapping(i, Payload(run[p], k)) \in Mappings
  BY <1>6 DEF Mapping, Mappings
<1>8. PICK mem \in [Keys -> Mappings \cup {None}], errors \in BOOLEAN :
        /\ mem = [run[p].mem EXCEPT ![k] = Mapping(i, Payload(run[p], k))]
        /\ errors = run[p].errors
  BY <1>6, <1>7
<1>9. Advance(p, mem, errors)
  BY <1>2, <1>4, <1>8 DEF SendCreate, SendUpdate, RequestId, Creates, Updates
<1>10. /\ mem[k] = Mapping(i, Payload(run[p], k)) /\ mem[k] # None
       /\ \A j \in Keys : j # k => mem[j] = run[p].mem[j]
  BY <1>6, <1>7, <1>8, Present
<1>11. mem[k].id = i /\ mem[k].hash.version \in 0..MaxRelease
  BY <1>6, <1>10 DEF Mapping
<1>12. ASSUME NEW j \in Keys
       PROVE  IsMapping(mem[j])'
  <2>1. CASE j = k
    BY <1>6, <1>11, <2>1 DEF IsMapping
  <2>2. CASE j # k
    BY <1>6, <1>10, <2>2, MappingsStay
  <2> QED
    BY <2>1, <2>2
<1>13. \A j \in Keys : \/ mem[j] = run[p].mem[j]
                       \/ mem[j] # None /\ HasId(j, mem[j].id)'
  BY <1>5, <1>10, <1>11
<1> QED
  BY <1>1, <1>2, <1>3, <1>5, <1>8, <1>9, <1>12, <1>13, AdvanceMoves

\* An import that ends, whatever it has done last.
LEMMA EndingMoves ==
  ASSUME IInv, NEW p \in Imports,
         \/ PrepareFails(p) \/ Throws(p) \/ Refused(p) \/ SaveMappings(p) \/ Killed(p)
         \/ RequestFails(p)
         \/ Relogin(p) /\ run[p].retried
  PROVE  Steady /\ Moves(p)
<1>1. Ends(p)
  BY DEF PrepareFails, Throws, Refused, SaveMappings, Killed, RequestFails, Relogin
<1>2. CASE UNCHANGED <<rows, nextId, created, deleted>>
  BY <1>1, <1>2, SameSteady, EndsMoves
<1>3. CASE RequestFails(p) /\ ~UNCHANGED tableVars
  <2>1. Steady
    BY <1>3, RequestSteady DEF RequestFails
  <2> QED
    BY <1>1, <2>1, EndsMoves
<1> QED
  BY <1>2, <1>3 DEF PrepareFails, Throws, Refused, SaveMappings, Killed, RequestFails,
     Relogin, airportVars, tableVars

\* Every step of an import.
LEMMA ImportMoves ==
  ASSUME IInv, NEW p \in Imports,
         \/ Start(p) \/ ImportWork(p) \/ PrepareWithoutToken(p) \/ Throws(p)
         \/ RequestFails(p) \/ TokenExpires(p) \/ Killed(p)
  PROVE  Steady /\ Moves(p)
<1>1. CASE Start(p)
  BY <1>1, StartMoves
<1>2. CASE Prepare(p) \/ PrepareWithoutToken(p)
  BY <1>2, PrepareMoves
<1>3. CASE \E kind \in Kinds : ReadList(p, kind)
  BY <1>3, ReadListMoves
<1>4. CASE BeginSending(p)
  BY <1>4, BeginSendingMoves
<1>5. CASE PassOver(p)
  BY <1>5, PassOverMoves
<1>6. CASE SendCreate(p) \/ SendUpdate(p)
  BY <1>6, SendMoves
<1>7. CASE Conflict(p)
  BY <1>7, ConflictMoves
<1>8. CASE TokenExpires(p) \/ (Relogin(p) /\ ~run[p].retried)
  BY <1>8, TokenMoves
<1>9. CASE FinishSending(p)
  BY <1>9, FinishSendingMoves
<1> QED
  BY <1>1, <1>2, <1>3, <1>4, <1>5, <1>6, <1>7, <1>8, <1>9, EndingMoves DEF ImportWork

-----------------------------------------------------------------------------
(* The administrator and airline-service. *)

\* An administrator's change keeps the tables' type, and takes the row of a key
\* away only openly.
LEMMA AdminSteady ==
  ASSUME IInv, OtherNext, AdminNext
  PROVE  Steady /\ UNCHANGED viewVars
<1>1. TablesType /\ (deleted => deleted')
  BY DEF IInv, TypeInv, OtherNext
<1>2. ASSUME NEW k \in Keys, NEW code \in Codes(k), AdminCreates(k, code)
      PROVE  Steady /\ UNCHANGED viewVars
  <2>1. code \in Keys
    BY <1>2 DEF Codes, Table
  <2>2. PICK payload \in Payloads : CanInsert(k, payload) /\ Insert(k, payload)
    BY <1>1, <1>2, <2>1, CurrentRefsType DEF AdminCreates
  <2> QED
    BY <1>1, <1>2, <2>2, InsertStep DEF AdminCreates, Steady
<1>3. ASSUME NEW k \in Keys, NEW code \in Codes(k), NEW j \in Table(k),
             AdminEdits(j, k, code)
      PROVE  Steady /\ UNCHANGED viewVars
  <2>1. code \in Keys /\ j \in Keys
    BY <1>3 DEF Codes, Table
  <2>2. rows[j] \in Row /\ HasId(j, rows[j].id)
    BY <1>1, <1>3, <2>1 DEF AdminEdits, TablesType, Exists, HasId
  <2>3. [version |-> 0, code |-> code, refs |-> rows[j].payload.refs] \in Payloads
    BY <2>1, <2>2 DEF Row, Payloads
  <2>4. PICK id : id = rows[j].id
    OBVIOUS
  <2>5. PICK payload \in Payloads : HasRow(k, id) /\ Change(k, id, payload)
    BY <1>3, <2>3, <2>4 DEF AdminEdits, CanChange
  <2>6. /\ TablesType' /\ TablesStep
        /\ \A i \in Keys : i # k /\ HasId(i, id) => rows'[i] = None
        /\ HasId(k, id) => KeepsRows
    BY <1>1, <2>5, ChangeStep
  <2>7. deleted' \/ KeepsRows
    <3>1. CASE j = k
      BY <2>2, <2>4, <2>6, <3>1
    <3>2. CASE j # k
      BY <1>3, <2>1, <2>2, <2>4, <2>6, <3>2 DEF OtherNext, AdminEdits
    <3> QED
      BY <3>1, <3>2
  <2> QED
    BY <1>1, <1>3, <2>6, <2>7 DEF AdminEdits, Steady
<1>4. ASSUME NEW k \in Keys, AdminDeletes(k)
      PROVE  Steady /\ UNCHANGED viewVars
  <2>1. deleted'
    BY <1>1, <1>4 DEF AdminDeletes, OtherNext, TablesType
  <2> QED
    BY <1>1, <1>4, <2>1, DeleteStep DEF AdminDeletes, Steady
<1> QED
  BY <1>2, <1>3, <1>4 DEF AdminNext

\* The view's consumer moves on in the topic and adds what was announced.
LEMMA ViewSteps ==
  ASSUME IInv,
         ViewPolls \/ ViewPollFails \/ ViewAdds \/ ViewAddFails \/ ViewRestarts
  PROVE  ViewType' /\ UNCHANGED <<rows, nextId, created>>
<1>1. /\ TablesType /\ ViewType /\ Len(created) \in Nat
      /\ viewGroup \in Group /\ OrderedGroup(viewGroup) /\ viewGroup.limit <= Len(created)
  BY DEF IInv, TypeInv, TablesType, ViewType
<1>2. CASE ViewPolls \/ ViewPollFails
  <2>1. /\ viewGroup' \in {Poll(viewGroup, Len(created)), Dropped(viewGroup, Len(created))}
        /\ CanPoll(viewGroup, Len(created))
        /\ UNCHANGED <<rows, nextId, created, view>>
    BY <1>2 DEF ViewPolls, ViewPollFails, tableVars
  <2>2. viewGroup' \in Group /\ OrderedGroup(viewGroup') /\ viewGroup'.limit <= Len(created)
    BY <1>1, <2>1, GroupSteps
  <2> QED
    BY <1>1, <2>1, <2>2 DEF ViewType, OrderedGroup
<1>3. CASE ViewAdds \/ ViewAddFails
  <2>1. /\ viewGroup' = Handled(viewGroup) /\ HasRecord(viewGroup)
        /\ view' \in {view, view \cup {created[Current(viewGroup)]}}
        /\ UNCHANGED <<rows, nextId, created>>
    BY <1>3 DEF ViewAdds, ViewAddFails, tableVars
  <2>2. viewGroup' \in Group /\ OrderedGroup(viewGroup') /\ viewGroup'.limit <= Len(created)
    BY <1>1, <2>1, GroupSteps
  <2>3. Current(viewGroup) \in 1..Len(created)
    BY <1>1, <2>1 DEF Current, HasRecord, Group
  <2>4. created[Current(viewGroup)] \in 1..(nextId - 1)
    BY <1>1, <2>3 DEF TablesType
  <2> QED
    BY <1>1, <2>1, <2>2, <2>4 DEF ViewType, OrderedGroup
<1>4. CASE ViewRestarts
  <2>1. PICK c \in Commits(viewGroup) : viewGroup' = Rejoined(viewGroup, c)
    BY <1>4 DEF ViewRestarts
  <2>2. UNCHANGED <<rows, nextId, created, view>>
    BY <1>4 DEF ViewRestarts, tableVars
  <2>3. viewGroup' \in Group /\ OrderedGroup(viewGroup') /\ viewGroup'.limit <= Len(created)
    BY <1>1, <2>1, GroupSteps
  <2> QED
    BY <1>1, <2>2, <2>3 DEF ViewType, OrderedGroup
<1> QED
  BY <1>2, <1>3, <1>4

\* So do the steps of airline-service.
LEMMA OtherSteady ==
  ASSUME IInv, OtherNext
  PROVE  Steady /\ ViewType'
<1>1. CASE AdminNext
  BY <1>1, AdminSteady, ViewStays DEF Steady, IInv, TypeInv
<1>2. CASE ViewPolls \/ ViewPollFails \/ ViewAdds \/ ViewAddFails \/ ViewRestarts
  <2>1. ViewType' /\ UNCHANGED <<rows, nextId, created>>
    BY <1>2, ViewSteps
  <2>2. TablesType /\ (deleted => deleted')
    BY DEF IInv, TypeInv, OtherNext
  <2> QED
    BY <2>1, <2>2, SameTables DEF Steady
<1> QED
  BY <1>1, <1>2 DEF OtherNext, AirportsNext, ViewWork

-----------------------------------------------------------------------------
(* The theorems. *)

\* The file is replaced by an import's mappings, or stays.
LEMMA FileSteps ==
  ASSUME IInv, Steady, NEW p \in Imports, SaveMappings(p) \/ UNCHANGED file
  PROVE  FileType' /\ FileGood'
<1>1. CASE SaveMappings(p)
  <2>1. /\ file' = run[p].mem /\ run[p] \in Run /\ RunGood(run[p])
        /\ \A k \in Keys : IsMapping(run[p].mem[k])
        /\ UNCHANGED <<rows, nextId, deleted>>
    BY <1>1, RunFacts DEF SaveMappings, airportVars, tableVars
  <2> QED
    BY <2>1 DEF FileType, FileGood, RunGood, Run, IsMapping, Exists, HasId
<1>2. CASE UNCHANGED file
  <2>1. FileType'
    BY <1>2, FileStays DEF IInv, TypeInv, Steady
  <2> QED
    BY <1>2, <2>1 DEF IInv, Steady, FileGood, FileType, KeepsRows, Exists, HasId
<1> QED
  BY <1>1, <1>2

\* Every step keeps the invariant, and does to the tables what is allowed.
LEMMA StepKeeps ==
  ASSUME IInv, [Next]_vars
  PROVE  IInv' /\ Steady
<1>1. CASE NewRelease
  <2>1. UNCHANGED <<airportVars, rows, nextId, created, deleted, file, run>>
    BY <1>1 DEF NewRelease, airportVars, tableVars
  <2>2. release' \in 1..MaxRelease
    BY <1>1, ImportAssumption DEF NewRelease, IInv, TypeInv
  <2>3. Steady
    BY <2>1, SameSteady
  <2>4. RunsType' /\ FileType' /\ ViewType'
    BY <2>1, <2>3, RunsStay, FileStays, ViewStays
       DEF IInv, TypeInv, Steady, airportVars
  <2>5. FileGood' /\ \A p \in Imports : RunGood(run[p])'
    BY <2>1 DEF IInv, FileGood, RunGood, Exists, HasId
  <2> QED
    BY <2>2, <2>3, <2>4, <2>5 DEF IInv, TypeInv, Steady
<1>2. ASSUME NEW p \in Imports,
             \/ Start(p) \/ ImportWork(p) \/ PrepareWithoutToken(p) \/ Throws(p)
             \/ RequestFails(p) \/ TokenExpires(p) \/ Killed(p)
      PROVE  IInv' /\ Steady
  <2>1. Steady /\ Moves(p)
    BY <1>2, ImportMoves
  <2>2. UNCHANGED <<viewVars, release>> /\ (SaveMappings(p) \/ UNCHANGED file)
    BY <1>2 DEF Start, ImportWork, Prepare, PrepareFails, ReadList, BeginSending, PassOver,
       SendCreate, SendUpdate, Conflict, Refused, Relogin, FinishSending, SaveMappings,
       PrepareWithoutToken, Throws, RequestFails, TokenExpires, Killed, airportVars
  <2>3. FileType' /\ FileGood'
    BY <2>1, <2>2, FileSteps
  <2>4. RunsType' /\ \A q \in Imports : RunGood(run[q])'
    BY <2>1, MovesKeep
  <2>5. ViewType'
    BY <2>1, <2>2, ViewStays DEF IInv, TypeInv, Steady
  <2> QED
    BY <2>1, <2>2, <2>3, <2>4, <2>5 DEF IInv, TypeInv, Steady
<1>3. CASE OtherNext
  <2>1. Steady /\ ViewType' /\ UNCHANGED <<release, file, run>>
    BY <1>3, OtherSteady DEF OtherNext
  <2>2. RunsType' /\ FileType'
    BY <2>1, RunsStay, FileStays DEF IInv, TypeInv, Steady
  <2>3. ASSUME NEW p \in Imports
        PROVE  RunGood(run[p])'
    <3>1. PICK r \in Run : r = run[p]
      BY RunFacts
    <3>2. RunGood(r) /\ r = run'[p]
      BY <2>1, <3>1, RunFacts
    <3>3. RunGood(r)'
      BY <2>1, <3>2, GoodStays DEF Steady
    <3> QED
      BY <3>2, <3>3 DEF RunGood, Exists, HasId
  <2>4. FileGood'
    BY <2>1 DEF IInv, Steady, FileGood, KeepsRows, Exists, HasId
  <2> QED
    BY <2>1, <2>2, <2>3, <2>4 DEF IInv, TypeInv, Steady
<1>4. CASE UNCHANGED vars
  <2>1. UNCHANGED <<viewVars, rows, nextId, created, deleted, file, run, release>>
    BY <1>4 DEF vars, airportVars, tableVars, importVars
  <2>2. Steady
    BY <2>1, SameSteady
  <2>3. RunsType' /\ FileType' /\ ViewType'
    BY <2>1, <2>2, RunsStay, FileStays, ViewStays DEF IInv, TypeInv, Steady
  <2>4. FileGood' /\ \A p \in Imports : RunGood(run[p])'
    BY <2>1 DEF IInv, FileGood, RunGood, Exists, HasId
  <2> QED
    BY <2>1, <2>2, <2>3, <2>4 DEF IInv, TypeInv, Steady
<1> QED
  BY <1>1, <1>2, <1>3, <1>4 DEF Next, ImportNext

\* The empty tables and the empty file.
LEMMA InitGood ==
  ASSUME Init
  PROVE  IInv
<1>1. /\ rows = [k \in Keys |-> None] /\ nextId = 1 /\ created = <<>> /\ view = {}
      /\ viewGroup = NewGroup /\ release = 1 /\ file = [k \in Keys |-> None]
      /\ run = [p \in Imports |-> Idle]
  BY DEF Init, AirportsInit
<1>2. TablesType
  BY <1>1 DEF TablesType, Exists
<1>3. ViewType
  BY <1>1, NewGroupOrdered DEF ViewType
<1>4. FileType /\ FileGood
  BY <1>1 DEF FileType, FileGood, IsMapping
<1>5. RunsType
  BY <1>1, IdleType DEF RunsType
<1>6. RunGood(Idle)
  <2>1. /\ Idle.pc = "idle" /\ Idle.next = 1 /\ Idle.seen = {}
        /\ \A k \in Keys : Idle.mem[k] = None
    BY DEF Idle
  <2> QED
    BY <1>1, <2>1 DEF RunGood
<1> QED
  BY <1>1, <1>2, <1>3, <1>4, <1>5, <1>6, ImportAssumption DEF IInv, TypeInv

\* The invariant.
THEOREM ImportInvariant == Spec => []IInv
<1>1. Init => IInv
  BY InitGood
<1>2. IInv /\ [Next]_vars => IInv'
  BY StepKeeps
<1> QED
  BY <1>1, <1>2, PTL DEF Spec

\* Type correctness: ids in the table, in the mappings and in the view are ids
\* that were given.
THEOREM ImportTypes == Spec => []ImportTypeOK
<1>1. IInv => ImportTypeOK
  BY DEF IInv, TypeInv, TablesType, ViewType, FileType, RunsType, Run, ImportTypeOK, Exists
<1> QED
  BY <1>1, ImportInvariant, PTL

\* No import creates blindly what it could have seen (reconcileMapping).
THEOREM ImportsDoNotPostBlindly == Spec => []NoBlindPost
<1>1. ASSUME IInv
      PROVE  NoBlindPost
  <2>1. ASSUME NEW p \in Imports, run[p].pc = "importing", NEW i \in Left(p)
        PROVE  run[p].mem[Order[i]] = None => Order[i] \notin run[p].seen
    <3>1. run[p] \in Run /\ RunGood(run[p])
      BY <1>1, RunFacts
    <3>2. i \in 1..Len(Order)
      <4>1. Len(Order) \in Nat /\ run[p].next \in 1..(Len(Order) + 1)
        BY <3>1, ImportAssumption DEF Run
      <4> QED
        BY <2>1, <4>1 DEF Left
    <3>3. Order[i] \in Keys
      BY <3>2, ImportAssumption
    <3> QED
      BY <2>1, <3>1, <3>3 DEF RunGood
  <2> QED
    BY <2>1 DEF NoBlindPost
<1> QED
  BY <1>1, ImportInvariant, PTL

\* An import that will report success has brought in everything but what its
\* report says was skipped for a conflict (planOrImport, importEntity).
THEOREM SuccessIsComplete == Spec => []SucceededIsComplete
<1>1. ASSUME IInv
      PROVE  SucceededIsComplete
  <2>1. ASSUME ~deleted, NEW p \in Imports, run[p].pc = "saving", ~run[p].errors,
               NEW k \in SourceKeys \ run[p].skips
        PROVE  Exists(k)
    <3>1. run[p] \in Run /\ RunGood(run[p])
      BY <1>1, RunFacts
    <3>2. run[p].next - 1 = Len(Order)
      BY <2>1, <3>1, ImportAssumption DEF RunGood
    <3>3. PICK i \in 1..Len(Order) : k = Order[i]
      BY <2>1 DEF SourceKeys
    <3> QED
      BY <2>1, <3>1, <3>2, <3>3 DEF RunGood
  <2> QED
    BY <2>1 DEF SucceededIsComplete
<1> QED
  BY <1>1, ImportInvariant, PTL

\* An airport that was lost to the view stays so.
LEMMA LostStays ==
  ASSUME [Next]_vars
  PROVE  lost \subseteq lost'
<1>1. CASE UNCHANGED lost
  BY <1>1
<1>2. CASE OtherNext
  <2>1. CASE AdminNext
    BY <2>1 DEF AdminNext, AdminCreates, AdminEdits, AdminDeletes, Insert, Change
  <2>2. CASE ViewPolls \/ ViewPollFails \/ ViewAdds \/ ViewAddFails \/ ViewRestarts
    BY <2>2 DEF ViewPolls, ViewPollFails, ViewAdds, ViewAddFails, ViewRestarts, tableVars
  <2> QED
    BY <1>2, <2>1, <2>2 DEF OtherNext, AirportsNext, ViewWork
<1>3. CASE ImportNext
  <2>1. CASE NewRelease
    BY <2>1 DEF NewRelease, airportVars, tableVars
  <2>2. ASSUME NEW p \in Imports, ImportWork(p)
        PROVE  lost \subseteq lost'
    <3>1. CASE SendCreate(p) \/ SendUpdate(p)
      BY <3>1 DEF SendCreate, SendUpdate, Insert, Change
    <3>2. CASE ~SendCreate(p) /\ ~SendUpdate(p)
      BY <2>2, <3>2 DEF ImportWork, Prepare, PrepareFails, ReadList, BeginSending,
         PassOver, Conflict, Refused, Relogin, FinishSending, SaveMappings,
         airportVars, tableVars
    <3> QED
      BY <3>1, <3>2
  <2>3. ASSUME NEW p \in Imports, RequestFails(p)
        PROVE  lost \subseteq lost'
    BY <2>3 DEF RequestFails, Insert, InsertUnannounced, Change, tableVars
  <2>4. ASSUME NEW p \in Imports,
               Start(p) \/ PrepareWithoutToken(p) \/ Throws(p) \/ TokenExpires(p) \/ Killed(p)
        PROVE  lost \subseteq lost'
    BY <2>4 DEF Start, PrepareWithoutToken, Throws, TokenExpires, Killed, airportVars,
       tableVars
  <2> QED
    BY <1>3, <2>1, <2>2, <2>3, <2>4 DEF ImportNext
<1> QED
  BY <1>1, <1>2, <1>3 DEF Next, vars, airportVars, tableVars

\* Nobody but airline-service changes the view or its place in the topic.
LEMMA ViewIsAlone ==
  ASSUME [Next]_vars
  PROVE  \/ UNCHANGED viewVars
         \/ ViewPolls \/ ViewPollFails \/ ViewAdds \/ ViewAddFails \/ ViewRestarts
<1>1. CASE OtherNext
  <2>1. CASE AdminNext
    BY <2>1 DEF AdminNext, AdminCreates, AdminEdits, AdminDeletes
  <2> QED
    BY <1>1, <2>1 DEF OtherNext, AirportsNext, ViewWork
<1>2. CASE ImportNext
  <2>1. CASE NewRelease
    BY <2>1 DEF NewRelease, airportVars
  <2>2. ASSUME NEW p \in Imports, ImportWork(p)
        PROVE  UNCHANGED viewVars
    BY <2>2 DEF ImportWork, Prepare, PrepareFails, ReadList, BeginSending, PassOver,
       SendCreate, SendUpdate, Conflict, Refused, Relogin, FinishSending, SaveMappings,
       airportVars
  <2>3. ASSUME NEW p \in Imports,
               \/ Start(p) \/ PrepareWithoutToken(p) \/ Throws(p) \/ RequestFails(p)
               \/ TokenExpires(p) \/ Killed(p)
        PROVE  UNCHANGED viewVars
    BY <2>3 DEF Start, PrepareWithoutToken, Throws, RequestFails, TokenExpires, Killed,
       airportVars
  <2> QED
    BY <1>2, <2>1, <2>2, <2>3 DEF ImportNext
<1> QED
  BY <1>1, <1>2 DEF Next, vars, airportVars

\* What the consumer is past is in the view or was lost, whatever the kills:
\* the offset it goes on from is never past what it has handled.
THEOREM AirportViewKeepsUp == Spec => []ViewKeepsUp
<1>1. ASSUME Init
      PROVE  ViewKeepsUp
  BY <1>1, NewGroupOrdered DEF Init, AirportsInit, ViewKeepsUp
<1>2. ASSUME IInv, ViewKeepsUp, [Next]_vars
      PROVE  ViewKeepsUp'
  <2>1. /\ viewGroup \in Group /\ OrderedGroup(viewGroup)
        /\ viewGroup.limit <= Len(created) /\ Len(created) \in Nat
        /\ viewGroup.next \in Nat /\ viewGroup.limit \in Nat
    BY <1>2 DEF IInv, TypeInv, ViewType, TablesType, Group
  <2>2. \A i \in 1..Len(created) : created'[i] = created[i]
    BY <1>2, StepKeeps DEF Steady, TablesStep
  <2>3. lost \subseteq lost'
    BY <1>2, LostStays
  <2>8. UNCHANGED viewVars \/ ViewPolls \/ ViewPollFails \/ ViewAdds \/ ViewAddFails \/ ViewRestarts
    BY <1>2, ViewIsAlone
  <2>4. view \subseteq view'
    BY <2>8 DEF viewVars, ViewPolls, ViewPollFails, ViewAdds, ViewAddFails, ViewRestarts
  <2>5. CASE ViewAdds \/ ViewAddFails
    <3>1. /\ viewGroup' = Handled(viewGroup) /\ HasRecord(viewGroup)
          /\ created[Current(viewGroup)] \in view' \cup lost'
      BY <2>5 DEF ViewAdds, ViewAddFails
    <3>2. viewGroup'.next = viewGroup.next + 1 /\ Current(viewGroup) = viewGroup.next + 1
      BY <2>1, <3>1, GroupSteps DEF Current
    <3>3. ASSUME NEW i \in 1..viewGroup'.next
          PROVE  created'[i] \in view' \cup lost'
      <4>1. i \in 1..viewGroup.next \/ i = viewGroup.next + 1
        BY <2>1, <3>2
      <4>2. i \in 1..Len(created)
        BY <2>1, <3>1, <3>2 DEF HasRecord
      <4> QED
        BY <1>2, <2>2, <2>3, <2>4, <3>1, <3>2, <4>1, <4>2 DEF ViewKeepsUp
    <3> QED
      BY <3>3 DEF ViewKeepsUp
  <2>6. CASE ~(ViewAdds \/ ViewAddFails \/ ViewPollFails)
    <3>1. viewGroup'.next \in Nat /\ viewGroup'.next <= viewGroup.next
      <4>1. CASE ViewPolls
        BY <2>1, <4>1, GroupSteps DEF ViewPolls
      <4>2. CASE ViewRestarts
        <5>1. PICK c \in Commits(viewGroup) : viewGroup' = Rejoined(viewGroup, c)
          BY <4>2 DEF ViewRestarts
        <5> QED
          BY <2>1, <5>1, GroupSteps DEF Group
      <4>3. CASE UNCHANGED viewGroup
        BY <2>1, <4>3
      <4> QED
        BY <2>6, <2>8, <4>1, <4>2, <4>3 DEF viewVars
    <3>2. ASSUME NEW i \in 1..viewGroup'.next
          PROVE  created'[i] \in view' \cup lost'
      <4>1. i \in 1..viewGroup.next
        BY <2>1, <3>1
      <4>2. i \in 1..Len(created)
        BY <2>1, <4>1 DEF OrderedGroup
      <4> QED
        BY <1>2, <2>2, <2>3, <2>4, <4>1, <4>2 DEF ViewKeepsUp
    <3> QED
      BY <3>2 DEF ViewKeepsUp
  <2>7. CASE ViewPollFails
    <3>1. /\ viewGroup' = Dropped(viewGroup, Len(created))
          /\ CanPoll(viewGroup, Len(created))
          /\ \A i \in Current(viewGroup)..Len(created) : created[i] \in lost'
      BY <2>7 DEF ViewPollFails
    <3>2. viewGroup'.next \in Nat /\ viewGroup'.next <= Len(created)
      BY <2>1, <3>1, GroupSteps DEF Group, OrderedGroup
    <3>3. ASSUME NEW i \in 1..viewGroup'.next
          PROVE  created'[i] \in view' \cup lost'
      <4>1. i \in 1..Len(created)
        BY <2>1, <3>2
      <4>2. i \in 1..viewGroup.next \/ i \in Current(viewGroup)..Len(created)
        BY <2>1, <4>1 DEF Current
      <4> QED
        BY <1>2, <2>2, <2>3, <2>4, <3>1, <4>1, <4>2 DEF ViewKeepsUp
    <3> QED
      BY <3>3 DEF ViewKeepsUp
  <2> QED
    BY <2>5, <2>6, <2>7
<1> QED
  BY <1>1, <1>2, ImportInvariant, PTL DEF Spec

\* In a settled world the file has the mapping of every row of the data.
LEMMA CalmFile ==
  ASSUME IInv, Calm, NEW k \in SourceKeys
  PROVE  /\ file[k] # None
         /\ file[k].id = rows[k].id
         /\ file[k].hash = Target(k)
         /\ k \in Keys /\ Deps[k] \subseteq SourceKeys
<1>1. /\ \A j \in SourceKeys : Exists(j) /\ Deps[j] \subseteq SourceKeys
      /\ file[k] = Mapping(rows[k].id, Target(k))
      /\ TablesType /\ release \in 0..MaxRelease
  BY RunFacts, ImportAssumption DEF Calm, Settled, IInv, TypeInv
<1>2. SourceKeys \subseteq Keys
  BY ImportAssumption DEF SourceKeys
<1>3. \A j \in SourceKeys : rows[j].id \in Nat
  BY <1>1, <1>2 DEF TablesType, Exists, Row
<1>4. \A d \in Deps[k] : rows[d].id \in Nat
  BY <1>1, <1>3
<1>5. CurrentRefs(k) \in [Deps[k] -> Keys \cup Nat]
  BY <1>4 DEF CurrentRefs
<1>6. k \in Keys /\ release \in Nat /\ SourceCode[k][release] \in Keys
  BY <1>1, <1>2, ImportAssumption
<1>7. Target(k) \in Payloads
  BY <1>5, <1>6, RefsArePayload DEF Target
<1> HIDE DEF Target
<1>8. Mapping(rows[k].id, Target(k)) \in Mappings
  BY <1>3, <1>7 DEF Mapping, Mappings
<1> QED
  BY <1>1, <1>6, <1>8, Present DEF Mapping

\* The payload an import would send is the one it sent.
LEMMA CalmIsIdle ==
  ASSUME IInv, Calm, NEW p \in Imports, HasEntity(p)
  PROVE  ~NeedsRequest(p, Entity(p))
<1> DEFINE k == Entity(p)
<1>1. run[p].release = release /\ run[p].mem = file
  BY DEF Calm, HasEntity, Running
<1>2. k \in SourceKeys /\ Deps[k] \subseteq SourceKeys
  BY EntityFacts, CalmFile
<1>3. \A d \in Deps[k] : file[d].id = rows[d].id
  BY <1>2, CalmFile
<1>4. [d \in Deps[k] |-> run[p].mem[d].id] = [d \in Deps[k] |-> rows[d].id]
  BY <1>1, <1>3
<1>5. Payload(run[p], k) = Target(k)
  BY <1>1, <1>4 DEF Payload, Target, CurrentRefs
<1>6. file[k] # None /\ file[k].hash = Target(k)
  BY <1>2, CalmFile
<1>7. UpToDate(p, k)
  BY <1>1, <1>5, <1>6 DEF UpToDate
<1> QED
  BY <1>1, <1>6, <1>7 DEF NeedsRequest, Creates, Updates

\* In a settled world an import that goes on works from the settled file.
CalmRun(r) ==
    r.pc # "idle" =>
        /\ r.release = release
        /\ r.pc = "preparing" \/ r.mem = file

\* In a calm state an import sends nothing and learns nothing.
LEMMA CalmRuns ==
  ASSUME IInv, Calm, NEW p \in Imports,
         \/ Start(p) \/ ImportWork(p) \/ PrepareWithoutToken(p) \/ Throws(p)
         \/ RequestFails(p) \/ TokenExpires(p) \/ Killed(p)
  PROVE  CalmRun(run'[p]) /\ file' = file /\ rows' = rows
<1>1. /\ run[p] \in Run /\ DOMAIN run = Imports /\ FileType
      /\ \A k \in SourceKeys : file[k] # None
      /\ CalmRun(run[p])
      /\ HasEntity(p) => ~NeedsRequest(p, Entity(p))
  BY RunFacts, CalmFile, CalmIsIdle DEF Calm, CalmRun, Running
<1>2. CASE Ends(p) /\ rows' = rows /\ file' = file
  <2>1. run'[p] = Idle /\ Idle.pc = "idle"
    BY <1>1, <1>2 DEF Ends, Idle
  <2> QED
    BY <1>2, <2>1 DEF CalmRun
<1>3. CASE Start(p)
  <2>1. run'[p] = [Idle EXCEPT !.pc = "preparing", !.release = release]
    BY <1>1, <1>3 DEF Start
  <2>2. run'[p].pc = "preparing" /\ run'[p].release = release
    BY <2>1 DEF Idle
  <2> QED
    BY <1>3, <2>2 DEF Start, CalmRun, airportVars, tableVars
<1>4. CASE Prepare(p) \/ PrepareWithoutToken(p)
  <2>1. run'[p].mem = file /\ run'[p].release = run[p].release /\ run[p].pc = "preparing"
    BY <1>1, <1>4 DEF Prepare, PrepareWithoutToken, Run
  <2> QED
    BY <1>1, <1>4, <2>1
       DEF Prepare, PrepareWithoutToken, CalmRun, airportVars, tableVars
<1>5. ASSUME NEW kind \in Kinds, ReadList(p, kind)
      PROVE  CalmRun(run'[p]) /\ file' = file /\ rows' = rows
  <2>1. run[p].pc = "reconciling" /\ run[p].mem = file /\ run[p].release = release
    BY <1>1, <1>5 DEF ReadList, CalmRun
  <2>2. \A k \in SourceKeys : Reconciled(p, k) = file[k]
    BY <1>1, <2>1 DEF Reconciled
  <2>3. [k \in Keys |-> IF k \in {j \in SourceKeys : Kind[j] = kind}
                       THEN Reconciled(p, k) ELSE run[p].mem[k]] = file
    BY <1>1, <2>1, <2>2 DEF FileType
  <2>4. run'[p].mem = file /\ run'[p].release = release
    BY <1>1, <1>5, <2>1, <2>3 DEF ReadList, Run
  <2> QED
    BY <1>5, <2>4 DEF ReadList, CalmRun, airportVars, tableVars
<1>6. CASE \/ BeginSending(p) \/ PassOver(p) \/ Conflict(p) \/ FinishSending(p)
           \/ TokenExpires(p) \/ (Relogin(p) /\ ~run[p].retried)
  <2>1. run'[p].mem = run[p].mem /\ run'[p].release = run[p].release
    BY <1>1, <1>6 DEF BeginSending, PassOver, Conflict, FinishSending, TokenExpires, Relogin,
       Advance, Run
  <2>2. run[p].pc \in {"reconciling", "importing"}
    BY <1>6 DEF BeginSending, PassOver, Conflict, FinishSending, TokenExpires, Relogin,
       HasEntity
  <2> QED
    BY <1>1, <1>6, <2>1, <2>2 DEF BeginSending, PassOver, Conflict, FinishSending,
       TokenExpires, Relogin, CalmRun, airportVars, tableVars
<1>7. CASE SaveMappings(p)
  <2>1. file' = file /\ rows' = rows /\ Ends(p)
    BY <1>1, <1>7 DEF SaveMappings, CalmRun, airportVars, tableVars
  <2> QED
    BY <1>2, <2>1
<1>8. ~(SendCreate(p) \/ SendUpdate(p) \/ RequestFails(p))
  BY <1>1 DEF SendCreate, SendUpdate, RequestFails, NeedsRequest, Updates, Creates
<1>9. CASE \/ PrepareFails(p) \/ Throws(p) \/ Refused(p) \/ Killed(p)
           \/ Relogin(p) /\ run[p].retried
  BY <1>2, <1>9 DEF PrepareFails, Throws, Refused, Killed, Relogin, airportVars, tableVars
<1> QED
  BY <1>3, <1>4, <1>5, <1>6, <1>7, <1>8, <1>9 DEF ImportWork

\* The changes of an administrator are counted.
Counted == adminChanges \in Nat

\* The count of an administrator's changes is a number.
LEMMA ChangesCounted == Spec => []Counted
<1>1. Init => Counted
  BY DEF Init, AirportsInit, Counted
<1>2. ASSUME Counted, [Next]_vars
      PROVE  Counted'
  <2>1. CASE AdminNext
    <3>1. AdminChange
      BY <2>1 DEF AdminNext, AdminCreates, AdminEdits, AdminDeletes
    <3> QED
      BY <1>2, <3>1 DEF Counted, AdminChange
  <2>2. CASE ImportNext
    <3>1. ASSUME NEW p \in Imports, ImportWork(p)
          PROVE  UNCHANGED adminChanges
      BY <3>1 DEF ImportWork, airportVars, Prepare, PrepareFails, ReadList, BeginSending,
         PassOver, SendCreate, SendUpdate, Conflict, Refused, Relogin, FinishSending,
         SaveMappings
    <3>2. ASSUME NEW p \in Imports,
                 \/ Start(p) \/ PrepareWithoutToken(p) \/ Throws(p) \/ RequestFails(p)
                 \/ TokenExpires(p) \/ Killed(p)
          PROVE  UNCHANGED adminChanges
      BY <3>2 DEF Start, PrepareWithoutToken, Throws, RequestFails, TokenExpires, Killed,
         airportVars
    <3>3. CASE NewRelease
      BY <1>2, <3>3 DEF NewRelease, airportVars, Counted
    <3>4. UNCHANGED adminChanges \/ NewRelease
      BY <2>2, <3>1, <3>2 DEF ImportNext
    <3> QED
      BY <1>2, <3>3, <3>4 DEF Counted
  <2>3. CASE ViewWork \/ ViewPollFails \/ ViewAddFails \/ ViewRestarts \/ UNCHANGED vars
    <3>1. UNCHANGED adminChanges
      BY <2>3 DEF ViewWork, ViewPolls, ViewPollFails, ViewAdds, ViewAddFails, ViewRestarts,
         vars, airportVars
    <3> QED
      BY <1>2, <3>1 DEF Counted
  <2> QED
    BY <1>2, <2>1, <2>2, <2>3 DEF Next, OtherNext, AirportsNext
<1> QED
  BY <1>1, <1>2, PTL DEF Spec

\* Idempotence: in a settled world every entity is passed over, nothing is
\* written and the world stays settled (planOrImport, hashPayload).
THEOREM ReimportsAreIdle == Spec => ReimportIsIdle
<1>1. ASSUME IInv, Counted, [Next]_vars, Calm,
             UNCHANGED <<release, adminChanges>>
      PROVE  /\ \A p \in Imports : HasEntity(p) => ~NeedsRequest(p, Entity(p))
             /\ UNCHANGED rows
             /\ torn' \/ Calm'
  <2>1. \A p \in Imports : CalmRun(run[p])
    BY <1>1 DEF Calm, CalmRun, Running
  <2>2. /\ UNCHANGED <<rows, file>>
        /\ \A p \in Imports : CalmRun(run'[p])
    <3>1. CASE NewRelease
      BY <1>1, <3>1 DEF NewRelease, IInv, TypeInv
    <3>2. ASSUME NEW p \in Imports,
                 \/ Start(p) \/ ImportWork(p) \/ PrepareWithoutToken(p) \/ Throws(p)
                 \/ RequestFails(p) \/ TokenExpires(p) \/ Killed(p)
          PROVE  UNCHANGED <<rows, file>> /\ \A q \in Imports : CalmRun(run'[q])
      <4>1. CalmRun(run'[p]) /\ UNCHANGED <<rows, file>>
        BY <1>1, <3>2, CalmRuns
      <4>2. Steady /\ Moves(p)
        BY <1>1, <3>2, ImportMoves
      <4>3. \A q \in Imports : q # p => run'[q] = run[q]
        BY <1>1, <4>2, RunFacts DEF Moves
      <4> QED
        BY <2>1, <4>1, <4>3 DEF CalmRun
    <3>3. CASE OtherNext
      <4>1. AdminNext => adminChanges' = adminChanges + 1 /\ adminChanges \in Nat
        BY <1>1 DEF AdminNext, AdminCreates, AdminEdits, AdminDeletes, AdminChange, Counted
      <4>2. ViewWork \/ ViewPollFails \/ ViewAddFails \/ ViewRestarts
        BY <1>1, <3>3, <4>1 DEF OtherNext, AirportsNext
      <4>3. UNCHANGED rows
        BY <4>2 DEF ViewWork, ViewPolls, ViewPollFails, ViewAdds, ViewAddFails, ViewRestarts,
           tableVars
      <4> QED
        BY <2>1, <3>3, <4>3 DEF OtherNext, CalmRun
    <3>4. CASE UNCHANGED vars
      BY <2>1, <3>4 DEF vars, airportVars, tableVars, importVars, CalmRun
    <3> QED
      BY <1>1, <3>1, <3>2, <3>3, <3>4 DEF Next, ImportNext
  <2>3. torn' \/ Calm'
    BY <1>1, <2>2 DEF Calm, Settled, CalmRun, Running, Exists, Target, CurrentRefs
  <2> QED
    BY <1>1, <2>2, <2>3, CalmIsIdle
<1>2. IInv /\ Counted /\ [Next]_vars =>
        [Calm /\ UNCHANGED <<release, adminChanges>> =>
            /\ \A p \in Imports : HasEntity(p) => ~NeedsRequest(p, Entity(p))
            /\ UNCHANGED rows
            /\ torn' \/ Calm']_vars
  BY <1>1
<1> QED
  BY <1>2, ImportInvariant, ChangesCounted, PTL DEF Spec, ReimportIsIdle
=============================================================================
