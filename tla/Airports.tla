------------------------------ MODULE Airports ------------------------------
(***************************************************************************)
(* The backend's world data and who hears of it: operations-service keeps  *)
(* countries, regions and airports (fleet-service the aircraft types) in   *)
(* tables with unique natural keys (an airport's and an aircraft type's    *)
(* IATA code is a second one) and foreign keys, and announces a new        *)
(* airport on a topic.  airline-service keeps its own view of the airports *)
(* from that topic and lets an airline start only at an airport in it.     *)
(*                                                                         *)
(* The insert and the announcement are two calls to two systems, the view  *)
(* follows later, and airline-service can be killed at any point of its    *)
(* batch.  A deleted airport is announced on "operations_airports_deleted" *)
(* while airline-service has a handler for "operations_airport_deleted"    *)
(* and subscribes to neither: no action here reads it.                     *)
(***************************************************************************)
EXTENDS Integers, Sequences, Consumer

CONSTANTS Keys,            \* what world data there is, by natural key
          Kind,            \* Kind[k]: country, region, airport, aircraft-type
          Deps,            \* Deps[k]: the keys k's foreign keys are about
          None,            \* no row
          MaxAdminChanges, \* bound: changes by an administrator
          MaxWorldFaults   \* bound: failed calls, kills, lost tokens

\* There is one list, and one pair of endpoints, per kind.
Kinds == {Kind[k] : k \in Keys}

\* A payload: a version of the entity's own fields, its second unique code
\* (named by the key that has it in the sources) and what it refers to (by
\* source key before the import resolves it, by id in a row).
Payloads ==
    [version : Nat, code : Keys,
     refs : UNION {[ks -> Keys \cup Nat] : ks \in SUBSET Keys}]

Row == [id : Nat, payload : Payloads]

ASSUME AirportsAssumption ==
    /\ None \notin Row
    /\ Kind \in [Keys -> {"country", "region", "airport", "aircraft-type"}]
    /\ Deps \in [Keys -> SUBSET Keys]
    /\ MaxAdminChanges \in Nat
    /\ MaxWorldFaults \in Nat

VARIABLES
    rows,         \* rows[k]: id and payload of the row with natural key k
    nextId,       \* the id the next row gets
    created,      \* operations_airport_created: airport ids
    view,         \* airline-service's airport_view
    viewGroup,    \* airline-service-group on that topic
    lost,         \* airports whose announcement, poll or handler failed
    adminChanges, \* changes by an administrator so far
    worldFaults   \* failed calls, kills and lost tokens so far

tableVars == <<rows, nextId, created, lost>>
viewVars == <<view, viewGroup>>
airportVars == <<tableVars, viewVars, adminChanges, worldFaults>>

AirportsInit ==
    /\ rows = [k \in Keys |-> None]
    /\ nextId = 1
    /\ created = <<>>
    /\ view = {}
    /\ viewGroup = NewGroup
    /\ lost = {}
    /\ adminChanges = 0
    /\ worldFaults = 0

WorldFault ==
    /\ worldFaults < MaxWorldFaults
    /\ worldFaults' = worldFaults + 1

-----------------------------------------------------------------------------
(* operations-service, and fleet-service for the aircraft types.           *)

Exists(k) == rows[k] # None
HasId(k, id) == Exists(k) /\ rows[k].id = id

Table(k) == {j \in Keys : Kind[j] = Kind[k]}

\* A country and a region have no code but their natural key.
Codes(k) == IF Kind[k] \in {"airport", "aircraft-type"} THEN Table(k) ELSE {k}

\* UNIQUE: another row of the table has the natural key or the code.
Taken(k, id, payload) ==
    \E j \in Table(k) :
        /\ Exists(j)
        /\ rows[j].id # id
        /\ j = k \/ rows[j].payload.code = payload.code

\* The foreign keys of a payload point at rows.
RefsExist(payload) ==
    \A d \in DOMAIN payload.refs : \E j \in Table(d) : HasId(j, payload.refs[d])

\* ON DELETE RESTRICT.
Referenced(k) ==
    \E j \in Keys :
        /\ Exists(j)
        /\ \E d \in DOMAIN rows[j].payload.refs : rows[j].payload.refs[d] = rows[k].id

\* The row with that id, new or not, has natural key k now.
WriteRow(k, id, payload) ==
    rows' = [j \in Keys |-> IF j = k THEN [id |-> id, payload |-> payload]
                           ELSE IF HasId(j, id) THEN None ELSE rows[j]]

CanInsert(k, payload) == ~Taken(k, nextId, payload) /\ RefsExist(payload)

\* A new row and, for an airport, its event.
Insert(k, payload) ==
    /\ WriteRow(k, nextId, payload)
    /\ nextId' = nextId + 1
    /\ created' = IF Kind[k] = "airport" THEN Append(created, nextId) ELSE created
    /\ UNCHANGED lost

\* The row is there and its event is not: the caller gets an error.
InsertUnannounced(k, payload) ==
    /\ Kind[k] = "airport"
    /\ WriteRow(k, nextId, payload)
    /\ nextId' = nextId + 1
    /\ lost' = lost \cup {nextId}
    /\ UNCHANGED created

HasRow(k, id) == \E j \in Table(k) : HasId(j, id)

CanChange(k, id, payload) ==
    HasRow(k, id) /\ ~Taken(k, id, payload) /\ RefsExist(payload)

Change(k, id, payload) ==
    /\ WriteRow(k, id, payload)
    /\ UNCHANGED <<nextId, created, lost>>

\* The ids of the rows k depends on.
CurrentRefs(k) == [d \in Deps[k] |-> rows[d].id]

-----------------------------------------------------------------------------
(* An administrator, through the same endpoints. *)

AdminChange ==
    /\ adminChanges < MaxAdminChanges
    /\ adminChanges' = adminChanges + 1

AdminCreates(k, code) ==
    /\ AdminChange
    /\ \A d \in Deps[k] : Exists(d)
    /\ LET payload == [version |-> 0, code |-> code, refs |-> CurrentRefs(k)] IN
       CanInsert(k, payload) /\ Insert(k, payload)
    /\ UNCHANGED <<viewVars, worldFaults>>

\* A PUT may change the natural key and the code too.  There is no endpoint
\* that changes or deletes an aircraft type.
AdminEdits(j, k, code) ==
    /\ AdminChange
    /\ Exists(j)
    /\ Kind[j] # "aircraft-type"
    /\ LET payload == [version |-> 0, code |-> code, refs |-> rows[j].payload.refs] IN
       CanChange(k, rows[j].id, payload) /\ Change(k, rows[j].id, payload)
    /\ UNCHANGED <<viewVars, worldFaults>>

AdminDeletes(k) ==
    /\ AdminChange
    /\ Exists(k)
    /\ Kind[k] # "aircraft-type"
    /\ ~Referenced(k)
    /\ rows' = [rows EXCEPT ![k] = None]
    /\ UNCHANGED <<nextId, created, lost, viewVars, worldFaults>>

-----------------------------------------------------------------------------
(* airline-service. *)

ViewPolls ==
    /\ CanPoll(viewGroup, Len(created))
    /\ viewGroup' = Poll(viewGroup, Len(created))
    /\ UNCHANGED <<tableVars, view, adminChanges, worldFaults>>

\* The poll has an error: Run drops the announcements that came with it.
ViewPollFails ==
    /\ CanPoll(viewGroup, Len(created))
    /\ WorldFault
    /\ viewGroup' = Dropped(viewGroup, Len(created))
    /\ lost' = lost \cup {created[i] : i \in Current(viewGroup)..Len(created)}
    /\ UNCHANGED <<rows, nextId, created, view, adminChanges>>

\* INSERT ... ON CONFLICT DO NOTHING.
ViewAdds ==
    /\ HasRecord(viewGroup)
    /\ view' = view \cup {created[Current(viewGroup)]}
    /\ viewGroup' = Handled(viewGroup)
    /\ UNCHANGED <<tableVars, adminChanges, worldFaults>>

\* The handler's insert fails; the record is not tried again.
ViewAddFails ==
    /\ HasRecord(viewGroup)
    /\ WorldFault
    /\ lost' = lost \cup {created[Current(viewGroup)]}
    /\ viewGroup' = Handled(viewGroup)
    /\ UNCHANGED <<rows, nextId, created, view, adminChanges>>

\* Killed and started again.
ViewRestarts ==
    /\ WorldFault
    /\ \E c \in Commits(viewGroup) : viewGroup' = Rejoined(viewGroup, c)
    /\ UNCHANGED <<tableVars, view, adminChanges>>

\* What airline-service does by itself.
ViewWork == ViewPolls \/ ViewAdds

AdminNext ==
    \E k \in Keys :
        \/ \E code \in Codes(k) :
              AdminCreates(k, code) \/ \E j \in Table(k) : AdminEdits(j, k, code)
        \/ AdminDeletes(k)

AirportsNext ==
    \/ AdminNext
    \/ ViewWork
    \/ ViewPollFails
    \/ ViewAddFails
    \/ ViewRestarts

-----------------------------------------------------------------------------

\* An airport of the table with this id.
IsAirport(id) == \E k \in Keys : Kind[k] = "airport" /\ HasId(k, id)

\* An announced airport the group is past is in the view, unless its handler
\* failed or the poll it came with did: nothing is lost to a kill between the
\* insert and the commit of the offset.
ViewKeepsUp ==
    \A i \in 1..viewGroup.next : created[i] \in view \cup lost
=============================================================================
