----------------------------- MODULE WorldImport -----------------------------
(***************************************************************************)
(* The world-data import: a pipeline that builds the data of a release,    *)
(* reads its mappings (source key -> backend id and the hash of the        *)
(* payload it sent) from a file, completes them from the backend's lists,  *)
(* sends creates and updates one by one in dependency order, and only at   *)
(* its end writes the mappings back.                                       *)
(*                                                                         *)
(* The BFF runs at most one import job, but the same pipeline is also a    *)
(* command: two processes can be in it at once, over one file and one      *)
(* backend, while an administrator changes the world.  A request can fail  *)
(* with or without its effect, a token can expire, a process can be killed *)
(* anywhere, and the file is not replaced atomically.                      *)
(***************************************************************************)
EXTENDS Airports, FiniteSets

CONSTANTS Order,       \* the data in the order of the import, by key
          SourceCode,  \* SourceCode[k][v]: k's second unique code in release v
          MaxAtOnce,   \* processes that import: the BFF's job and the command
          MaxRelease,  \* bound: releases of the source data
          MaxImports   \* bound: imports

Mappings == [id : Nat, hash : Payloads]

ASSUME ImportAssumption ==
    /\ None \notin Mappings
    /\ Order \in Seq(Keys)
    /\ SourceCode \in [Keys -> [0..MaxRelease -> Keys]]
    /\ MaxRelease \in Nat \ {0}
    /\ {MaxAtOnce, MaxImports} \subseteq Nat

VARIABLES
    release, \* the version of the source data now
    file,    \* source-mapping.json: file[k] is a mapping or None
    torn,    \* a kill in the middle of the write left it unreadable
    run,     \* run[p]: where the p-th import is in the pipeline
    imports, \* imports started so far
    deleted  \* history: a natural key has lost its row

importVars == <<release, file, torn, run, imports, deleted>>
vars == <<airportVars, importVars>>

Imports == 1..MaxImports
SourceKeys == {Order[i] : i \in 1..Len(Order)}

\* skips and errors are the report's; seen, a history field, is what of the
\* data had a row when its list was read.
Idle ==
    [pc |-> "idle", release |-> 0,
     mem |-> [k \in Keys |-> None], unread |-> {}, seen |-> {},
     token |-> "none", retried |-> FALSE, next |-> 1, skips |-> {}, errors |-> FALSE]

Init ==
    /\ AirportsInit
    /\ release = 1
    /\ file = [k \in Keys |-> None]
    /\ torn = FALSE
    /\ run = [p \in Imports |-> Idle]
    /\ imports = 0
    /\ deleted = FALSE

-----------------------------------------------------------------------------
(* The payload of k, before and after the source keys in it are replaced   *)
(* by the backend ids of the mappings.  Its hash is the payload itself.    *)

SourcePayload(k, v) ==
    [version |-> v, code |-> SourceCode[k][v], refs |-> [d \in Deps[k] |-> d]]

Payload(r, k) ==
    [version |-> r.release, code |-> SourceCode[k][r.release],
     refs |-> [d \in Deps[k] |-> r.mem[d].id]]

Mapping(id, hash) == [id |-> id, hash |-> hash]

Running(p) == run[p].pc # "idle"

Ends(p) == run' = [run EXCEPT ![p] = Idle]

-----------------------------------------------------------------------------

\* A new release of the sources; a run takes the one it builds from.
NewRelease ==
    /\ release < MaxRelease
    /\ release' = release + 1
    /\ UNCHANGED <<airportVars, file, torn, run, imports, deleted>>

\* The job or the command starts and builds the data.  (A dry run reads the
\* same things and sends and writes nothing.)
Start(p) ==
    /\ p = imports + 1
    /\ Cardinality({q \in Imports : Running(q)}) < MaxAtOnce
    /\ imports' = p
    /\ run' = [run EXCEPT ![p] =
                  [Idle EXCEPT !.pc = "preparing", !.release = release]]
    /\ UNCHANGED <<airportVars, release, file, torn, deleted>>

\* prepareReconcileState: the mappings and an admin token.
Prepare(p) ==
    /\ run[p].pc = "preparing"
    /\ ~torn
    /\ run' = [run EXCEPT ![p].mem = file, ![p].token = "good",
                          ![p].unread = Kinds, ![p].pc = "reconciling"]
    /\ UNCHANGED <<airportVars, release, file, torn, imports, deleted>>

\* The login fails: nothing is reconciled or sent and an error is reported.
PrepareWithoutToken(p) ==
    /\ run[p].pc = "preparing"
    /\ ~torn
    /\ WorldFault
    /\ run' = [run EXCEPT ![p].mem = file, ![p].errors = TRUE, ![p].pc = "saving"]
    /\ UNCHANGED <<tableVars, viewVars, adminChanges, release, file, torn, imports,
                   deleted>>

\* JSON.parse throws.
PrepareFails(p) ==
    /\ run[p].pc = "preparing"
    /\ torn
    /\ Ends(p)
    /\ UNCHANGED <<airportVars, release, file, torn, imports, deleted>>

\* Mutant: only the mappings of the file count.
ReconciledFromFile(p, k) == run[p].mem[k]

\* reconcileMapping: a row with the same natural key becomes the mapping of
\* an entity that has none, with the hash of the payload of this release.
Reconciled(p, k) ==
    IF run[p].mem[k] = None /\ Exists(k)
    THEN Mapping(rows[k].id, SourcePayload(k, run[p].release))
    ELSE run[p].mem[k]

\* The lists are read at once and answered in any order.
ReadList(p, kind) ==
    /\ run[p].pc = "reconciling"
    /\ kind \in run[p].unread
    /\ LET listed == {k \in SourceKeys : Kind[k] = kind} IN
       run' = [run EXCEPT
                 ![p].mem = [k \in Keys |->
                     IF k \in listed THEN Reconciled(p, k) ELSE run[p].mem[k]],
                 ![p].seen = @ \cup {k \in listed : Exists(k)},
                 ![p].unread = @ \ {kind}]
    /\ UNCHANGED <<airportVars, release, file, torn, imports, deleted>>

\* A source or a list cannot be had.
Throws(p) ==
    /\ run[p].pc \in {"preparing", "reconciling"}
    /\ WorldFault
    /\ Ends(p)
    /\ UNCHANGED <<tableVars, viewVars, adminChanges, release, file, torn, imports,
                   deleted>>

BeginSending(p) ==
    /\ run[p].pc = "reconciling"
    /\ run[p].unread = {}
    /\ run' = [run EXCEPT ![p].pc = "importing"]
    /\ UNCHANGED <<airportVars, release, file, torn, imports, deleted>>

-----------------------------------------------------------------------------
(* planOrImport: one entity after the other. *)

Left(p) == run[p].next..Len(Order)
HasEntity(p) == run[p].pc = "importing" /\ Left(p) # {}
Entity(p) == Order[run[p].next]

\* Mutant: what could not be sent is passed over without an error.
AdvanceSilently(p, mem, errors) ==
    run' = [run EXCEPT ![p].mem = mem, ![p].next = @ + 1, ![p].retried = FALSE]

\* On to the next entity, with k's mapping and the errors reported so far.
Advance(p, mem, errors) ==
    run' = [run EXCEPT ![p].mem = mem, ![p].errors = errors,
                       ![p].next = @ + 1, ![p].retried = FALSE]

MissingDeps(p, k) == \E d \in Deps[k] : run[p].mem[d] = None
\* Mutant: the hash is compared before the source keys are resolved.
UpToDateUnresolved(p, k) ==
    run[p].mem[k] # None /\ run[p].mem[k].hash = SourcePayload(k, run[p].release)

UpToDate(p, k) ==
    run[p].mem[k] # None /\ run[p].mem[k].hash = Payload(run[p], k)

\* What needs no request: a dependency that has no backend id is an error,
\* an unchanged hash is skipped, an aircraft type cannot be updated.
PassOver(p) ==
    /\ HasEntity(p)
    /\ LET k == Entity(p) IN
       \/ MissingDeps(p, k) /\ Advance(p, run[p].mem, TRUE)
       \/ ~MissingDeps(p, k) /\ UpToDate(p, k) /\ Advance(p, run[p].mem, run[p].errors)
       \/ /\ ~MissingDeps(p, k)
          /\ ~UpToDate(p, k)
          /\ run[p].mem[k] # None
          /\ Kind[k] = "aircraft-type"
          /\ Advance(p, run[p].mem, TRUE)
    /\ UNCHANGED <<airportVars, release, file, torn, imports, deleted>>

Creates(p, k) == ~MissingDeps(p, k) /\ run[p].mem[k] = None
Updates(p, k) ==
    /\ ~MissingDeps(p, k)
    /\ run[p].mem[k] # None
    /\ ~UpToDate(p, k)
    /\ Kind[k] # "aircraft-type"

NeedsRequest(p, k) == Creates(p, k) \/ Updates(p, k)

\* The row the request would write.
RequestId(p, k) == IF run[p].mem[k] = None THEN nextId ELSE run[p].mem[k].id

\* A unique key of k is another row's.
Clashes(p, k) ==
    /\ run[p].mem[k] # None => HasRow(k, RequestId(p, k))
    /\ Taken(k, RequestId(p, k), Payload(run[p], k))

\* The backend's answer to the request is what the tables allow.
Accepts(p, k) ==
    IF run[p].mem[k] = None
    THEN CanInsert(k, Payload(run[p], k))
    ELSE CanChange(k, run[p].mem[k].id, Payload(run[p], k))

SendCreate(p) ==
    /\ HasEntity(p)
    /\ run[p].token = "good"
    /\ Creates(p, Entity(p))
    /\ Accepts(p, Entity(p))
    /\ LET k == Entity(p) IN
       /\ Insert(k, Payload(run[p], k))
       /\ Advance(p, [run[p].mem EXCEPT ![k] = Mapping(nextId, Payload(run[p], k))],
                  run[p].errors)
    /\ UNCHANGED <<viewVars, adminChanges, worldFaults, release, file, torn, imports,
                   deleted>>

SendUpdate(p) ==
    /\ HasEntity(p)
    /\ run[p].token = "good"
    /\ Updates(p, Entity(p))
    /\ Accepts(p, Entity(p))
    /\ LET k == Entity(p)
           id == run[p].mem[k].id
       IN /\ Change(k, id, Payload(run[p], k))
          /\ Advance(p, [run[p].mem EXCEPT ![k] = Mapping(id, Payload(run[p], k))],
                     run[p].errors)
    /\ UNCHANGED <<viewVars, adminChanges, worldFaults, release, file, torn, imports,
                   deleted>>

\* 409, of a create or an update, on the natural key or the code: the entity
\* is skipped, which is reported and is no error.
Conflict(p) ==
    /\ HasEntity(p)
    /\ run[p].token = "good"
    /\ NeedsRequest(p, Entity(p))
    /\ Clashes(p, Entity(p))
    /\ run' = [run EXCEPT ![p].skips = @ \cup {Entity(p)}, ![p].next = @ + 1,
                          ![p].retried = FALSE]
    /\ UNCHANGED <<airportVars, release, file, torn, imports, deleted>>

\* Any other refusal is thrown and ends the import: the row of the mapping or
\* a row it refers to is gone.
Refused(p) ==
    /\ HasEntity(p)
    /\ run[p].token = "good"
    /\ NeedsRequest(p, Entity(p))
    /\ ~Accepts(p, Entity(p))
    /\ ~Clashes(p, Entity(p))
    /\ Ends(p)
    /\ UNCHANGED <<airportVars, release, file, torn, imports, deleted>>

\* A timeout or a 5xx is thrown too; the request may have been done, and a
\* new airport may be there unannounced.
RequestFails(p) ==
    /\ HasEntity(p)
    /\ run[p].token = "good"
    /\ WorldFault
    /\ LET k == Entity(p) IN
       /\ NeedsRequest(p, k)
       /\ \/ UNCHANGED tableVars
          \/ /\ Creates(p, k)
             /\ Accepts(p, k)
             /\ Insert(k, Payload(run[p], k)) \/ InsertUnannounced(k, Payload(run[p], k))
          \/ /\ Updates(p, k)
             /\ Accepts(p, k)
             /\ Change(k, run[p].mem[k].id, Payload(run[p], k))
    /\ Ends(p)
    /\ UNCHANGED <<viewVars, adminChanges, release, file, torn, imports, deleted>>

\* 401 or 403: a new token, and the request once more.
Relogin(p) ==
    /\ HasEntity(p)
    /\ NeedsRequest(p, Entity(p))
    /\ run[p].token = "expired"
    /\ IF run[p].retried
       THEN Ends(p)
       ELSE run' = [run EXCEPT ![p].token = "good", ![p].retried = TRUE]
    /\ UNCHANGED <<airportVars, release, file, torn, imports, deleted>>

\* The token is no longer good when a request needs it.
TokenExpires(p) ==
    /\ HasEntity(p)
    /\ NeedsRequest(p, Entity(p))
    /\ WorldFault
    /\ run[p].token = "good"
    /\ run' = [run EXCEPT ![p].token = "expired"]
    /\ UNCHANGED <<tableVars, viewVars, adminChanges, release, file, torn, imports,
                   deleted>>

\* The report is written, then the mappings.
FinishSending(p) ==
    /\ run[p].pc = "importing"
    /\ Left(p) = {}
    /\ run' = [run EXCEPT ![p].pc = "saving"]
    /\ UNCHANGED <<airportVars, release, file, torn, imports, deleted>>

SaveMappings(p) ==
    /\ run[p].pc = "saving"
    /\ file' = run[p].mem
    /\ torn' = FALSE
    /\ Ends(p)
    /\ UNCHANGED <<airportVars, release, imports, deleted>>

\* The process is killed; a kill during the write leaves half a file.
Killed(p) ==
    /\ Running(p)
    /\ WorldFault
    /\ torn' \in IF run[p].pc = "saving" THEN {torn, TRUE} ELSE {torn}
    /\ Ends(p)
    /\ UNCHANGED <<tableVars, viewVars, adminChanges, release, file, imports, deleted>>

-----------------------------------------------------------------------------

\* What a started import does by itself.
ImportWork(p) ==
    \/ Prepare(p)
    \/ PrepareFails(p)
    \/ \E kind \in Kinds : ReadList(p, kind)
    \/ BeginSending(p)
    \/ PassOver(p)
    \/ SendCreate(p)
    \/ SendUpdate(p)
    \/ Conflict(p)
    \/ Refused(p)
    \/ Relogin(p)
    \/ FinishSending(p)
    \/ SaveMappings(p)

ImportNext ==
    \/ NewRelease
    \/ \E p \in Imports :
          \/ Start(p)
          \/ ImportWork(p)
          \/ PrepareWithoutToken(p)
          \/ Throws(p)
          \/ RequestFails(p)
          \/ TokenExpires(p)
          \/ Killed(p)

\* The administrator and airline-service.
OtherNext ==
    /\ AirportsNext
    /\ deleted' = (deleted \/ \E k \in Keys : Exists(k) /\ rows'[k] = None)
    /\ UNCHANGED <<release, file, torn, run, imports>>

Next == ImportNext \/ OtherNext

Spec == Init /\ [][Next]_vars

\* A started import goes on, which its calls leave to the runtime's own limits
\* on an idle request (fetch.ts sets none), and airline-service's consumer goes
\* on: it has no condition but its topic.
FairSpec ==
    /\ Spec
    /\ \A p \in Imports : WF_vars(ImportWork(p))
    /\ WF_vars(ViewWork /\ UNCHANGED importVars)

-----------------------------------------------------------------------------

IsMapping(m) == m = None \/ (m.id \in 1..(nextId - 1) /\ m.hash.version \in 0..MaxRelease)

ImportTypeOK ==
    /\ \A k \in Keys : rows[k] = None \/ rows[k].id \in 1..(nextId - 1)
    /\ view \subseteq 1..(nextId - 1)
    /\ OrderedGroup(viewGroup) /\ viewGroup.limit <= Len(created)
    /\ release \in 1..MaxRelease
    /\ \A k \in Keys : IsMapping(file[k])
    /\ \A p \in Imports :
          /\ run[p].pc \in {"idle", "preparing", "reconciling", "importing", "saving"}
          /\ run[p].token \in {"none", "good", "expired"}
          /\ \A k \in Keys : IsMapping(run[p].mem[k])

\* import/README.md, on the mappings: reconciling "prevents blind repeated
\* POST requests".  An import that is about to create a row that exists did not
\* find it in the list it has read.
NoBlindPost ==
    \A p \in Imports : run[p].pc = "importing" =>
        \A i \in Left(p) :
            LET k == Order[i] IN
            run[p].mem[k] = None /\ Exists(k) => k \notin run[p].seen

\* An import that will say it succeeded (its report has no error) has brought in
\* all of its data but what the report says was skipped for a conflict, whatever
\* the other process did meanwhile and whatever failed before; only a row whose
\* key an administrator took away may be missing besides.
SucceededIsComplete ==
    ~deleted =>
        \A p \in Imports : run[p].pc = "saving" /\ ~run[p].errors =>
            \A k \in SourceKeys \ run[p].skips : Exists(k)

\* The backend is the source data, and the file knows it.
Target(k) ==
    [version |-> release, code |-> SourceCode[k][release], refs |-> CurrentRefs(k)]

Settled ==
    /\ ~torn
    /\ \A k \in SourceKeys :
          /\ Exists(k)
          /\ Deps[k] \subseteq SourceKeys
          /\ rows[k].payload = Target(k)
          /\ file[k] = Mapping(rows[k].id, Target(k))

\* And no process works from anything else.
Calm ==
    /\ Settled
    /\ \A p \in Imports : Running(p) =>
          /\ run[p].release = release
          /\ run[p].pc = "preparing" \/ run[p].mem = file

\* Idempotence: once the world is settled, further imports send nothing and
\* leave it settled, until the sources or an administrator change.
ReimportIsIdle ==
    [][Calm /\ UNCHANGED <<release, adminChanges>> =>
          /\ \A p \in Imports : HasEntity(p) => ~NeedsRequest(p, Entity(p))
          /\ UNCHANGED rows
          /\ torn' \/ Calm']_vars

\* airport_service.go announces "airport deleted" and airline-service has a
\* handler that takes the airport out of its view: a deleted airport leaves it.
DeletedLeavesView ==
    \A i \in 1..MaxImports :
        (Len(created) >= i /\ ~IsAirport(created[i])) ~>
            (Len(created) >= i /\ created[i] \notin view)
=============================================================================
