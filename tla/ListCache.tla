------------------------------ MODULE ListCache ------------------------------
(***************************************************************************)
(* The BFF's cache of the backend's lists: filled by the answer of a list  *)
(* request, never expired, emptied as a whole by every mutation that went  *)
(* through the BFF and was answered with success.  The lists differ in     *)
(* their path only, so one of them is modelled; a list is the version of   *)
(* the backend's data it was read from.                                    *)
(*                                                                         *)
(* Between a request and its answer anything can happen: a load is read by *)
(* the backend (perhaps in a second attempt) some time after it was sent   *)
(* and stored in the cache some time after that.                           *)
(***************************************************************************)
EXTENDS Integers

CONSTANTS Readers,      \* list requests that can be under way at once
          MaxVersion    \* bound: changes of the backend's data

ASSUME CacheAssumption == MaxVersion \in Nat

VARIABLES
    version, \* the backend's data now
    entry,   \* the cached list, or Nothing
    loads,   \* loads[r]: the list request under way for reader r
    write,   \* "none", "sent" or "done": a mutation through the BFF
    answered \* history: the data the last clearing write left

cacheVars == <<version, entry, loads, write, answered>>

Nothing == [version |-> -1, crossed |-> FALSE]

\* got is -1 until the backend has read the list; crossed, a history field:
\* the cache was cleared while the request was under way.
NoLoad == [busy |-> FALSE, got |-> -1, crossed |-> FALSE]

CacheTypeOK ==
    /\ version \in 0..MaxVersion
    /\ entry \in [version : -1..version, crossed : BOOLEAN]
    /\ loads \in [Readers -> [busy : BOOLEAN, got : -1..version, crossed : BOOLEAN]]
    /\ write \in {"none", "sent", "done"}
    /\ answered \in 0..version

CacheInit ==
    /\ version = 0
    /\ entry = Nothing
    /\ loads = [r \in Readers |-> NoLoad]
    /\ write = "none"
    /\ answered = 0

\* cache.clear().
ClearCache ==
    /\ entry' = Nothing
    /\ loads' = [r \in Readers |->
                    [loads[r] EXCEPT !.crossed = loads[r].busy]]
    /\ answered' = version

-----------------------------------------------------------------------------

\* handleCacheableRoute: without an entry, or with refresh=true, the list is
\* asked for.  (A hit changes nothing.)
BeginLoad(r) ==
    /\ ~loads[r].busy
    /\ loads' = [loads EXCEPT ![r] = [NoLoad EXCEPT !.busy = TRUE]]
    /\ UNCHANGED <<version, entry, write, answered>>

BackendReads(r) ==
    /\ loads[r].busy
    /\ loads[r].got = -1
    /\ loads' = [loads EXCEPT ![r].got = version]
    /\ UNCHANGED <<version, entry, write, answered>>

\* cache.set.
StoreList(r) ==
    /\ loads[r].busy
    /\ loads[r].got # -1
    /\ entry' = [version |-> loads[r].got, crossed |-> loads[r].crossed]
    /\ loads' = [loads EXCEPT ![r] = NoLoad]
    /\ UNCHANGED <<version, write, answered>>

\* The answer is an error or comes too late: the old entry is served, marked
\* stale, and stays.
LoadFails(r) ==
    /\ loads[r].busy
    /\ loads' = [loads EXCEPT ![r] = NoLoad]
    /\ UNCHANGED <<version, entry, write, answered>>

-----------------------------------------------------------------------------

\* forwardBackendRequest: one attempt.
SendWrite ==
    /\ write = "none"
    /\ version < MaxVersion
    /\ write' = "sent"
    /\ UNCHANGED <<version, entry, loads, answered>>

\* The backend's data changes, whoever asked for it.
Changes ==
    /\ version < MaxVersion
    /\ version' = version + 1
    /\ UNCHANGED <<entry, loads, answered>>

BackendWrites == write = "sent" /\ Changes /\ write' = "done"

\* Mutant: the answer is passed on and the cache kept.
WriteAnsweredOnly ==
    /\ write = "done"
    /\ answered' = version
    /\ write' = "none"
    /\ UNCHANGED <<version, entry, loads>>

WriteAnswered ==
    /\ write = "done"
    /\ ClearCache
    /\ write' = "none"
    /\ UNCHANGED version

\* An error or a timeout: no clear, although the write may have been done.
WriteFails ==
    /\ write # "none"
    /\ write' = "none"
    /\ UNCHANGED <<version, entry, loads, answered>>

CacheNext ==
    \/ \E r \in Readers :
          BeginLoad(r) \/ BackendReads(r) \/ StoreList(r) \/ LoadFails(r)
    \/ SendWrite
    \/ BackendWrites
    \/ WriteAnswered
    \/ WriteFails

-----------------------------------------------------------------------------

\* Who reads a list after a write was answered sees it: a cached list is as
\* new as the last write that cleared the cache, unless its request had been
\* under way at that moment already, in whatever order the answers came.
ReadsSeeWrites ==
    entry # Nothing /\ ~entry.crossed => entry.version >= answered

\* What its proof needs: the same of the answers on their way.
AnswersSeeWrites ==
    \A r \in Readers :
        loads[r].busy /\ ~loads[r].crossed /\ loads[r].got # -1 =>
            loads[r].got >= answered
=============================================================================
