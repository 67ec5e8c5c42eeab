--------------------------- MODULE Notifications ---------------------------
(***************************************************************************)
(* The BFF's notifications of one airline: a stored list of warnings that  *)
(* almost every request reconciles with the conditions the game is in, and *)
(* the feed of events that tells the player about them.                    *)
(*                                                                         *)
(* A request first loads what it needs from the backend, then lists the    *)
(* stored notifications, writes the reconciled list back whole and records *)
(* the events.  Each slot of Slots is one request being served; pc[s]      *)
(* names the await it is suspended on, and between two awaits any other    *)
(* slot may run.                                                           *)
(***************************************************************************)
EXTENDS Naturals, FiniteSets

CONSTANTS
    Slots,        \* requests that can be in progress at once
    Conditions,   \* what can be wrong with an airline
    Key,          \* the dedupe key a full check gives to each condition
    PlainKey,     \* the key the dashboard's fallback gives to those it sees
    Keep,         \* how many ignored, and resolved, notifications are kept
    MaxRequests,  \* bound on the number of requests
    MaxChanges,   \* bound on the changes of the game
    MaxCrashes    \* bound on the restarts of the BFF

VARIABLES
    holding,      \* the conditions the airline is in
    notes,        \* the notifications document
    feed,         \* the dedupe keys of the recorded warning events
    pc,           \* the await each slot is suspended on
    job,          \* the request each slot serves
    served,       \* how many requests were started
    changes,      \* how often the game changed
    crashes       \* how often the BFF was restarted

local == <<pc, job>>
bounds == <<served, changes, crashes>>
vars == <<holding, notes, feed, pc, job, served, changes, crashes>>

ASSUME NotificationsAssumption ==
    /\ DOMAIN Key = Conditions
    /\ DOMAIN PlainKey \subseteq Conditions
    /\ Keep \in Nat
    /\ MaxRequests \in Nat
    /\ MaxChanges \in Nat
    /\ MaxCrashes \in Nat

Keys == {Key[c] : c \in Conditions} \cup {PlainKey[c] : c \in DOMAIN PlainKey}

\* The random id of the notification the i-th request raises for a condition.
Ids == (1 .. MaxRequests) \X Conditions

States == {"active", "ignored", "resolved"}

Notification == [id : Ids, key : Keys, state : States, read : BOOLEAN]

\* A "check" is a request that ends with the reconcile: reading notifications
\* or changing anything else in the game.
Kinds == {"check", "dashboard", "read-all", "read", "unread", "ignore"}

\* The requests that go on after the reconcile.
Edits == {"read-all", "read", "unread", "ignore"}

KeysOf(ns) == {n.key : n \in ns}

IdsOf(ns) == {n.id : n \in ns}

-----------------------------------------------------------------------------
(* The risks a check finds.                                                *)

\* reconcileNotificationsForRequest names every condition.
Risks(conds) == {<<c, Key[c]>> : c \in conds}

\* reconcileNotificationsForDashboard names a few, some by another key.
DashboardRisks(conds) == {<<c, PlainKey[c]>> : c \in conds \cap DOMAIN PlainKey}

RiskKeys(risks) == {r[2] : r \in risks}

-----------------------------------------------------------------------------
(* The reconciled list.                                                    *)

ReconcileExisting(n, risks) ==
    IF n.key \notin RiskKeys(risks) THEN [n EXCEPT !.state = "resolved"]
    ELSE IF n.state = "ignored" THEN [n EXCEPT !.read = TRUE]
    ELSE [n EXCEPT !.state = "active", !.read = n.read /\ n.state = "active"]

\* Mutant of NewRisks: resolved notifications do not count as existing.
NewUnlessOpen(list, risks) ==
    {r \in risks : r[2] \notin KeysOf({n \in list : n.state # "resolved"})}

\* The keys of the list are collected once, before the first is added.
NewRisks(list, risks) == {r \in risks : r[2] \notin KeysOf(list)}

NewNotification(i, r) ==
    [id |-> <<i, r[1]>>, key |-> r[2], state |-> "active", read |-> FALSE]

NewNotifications(i, list, risks) ==
    {NewNotification(i, r) : r \in NewRisks(list, risks)}

Reconciled(i, list, risks) ==
    {ReconcileExisting(n, risks) : n \in list} \cup NewNotifications(i, list, risks)

\* The active notifications no risk stands for any more.
Gone(list, risks) ==
    {n \in list : n.state = "active" /\ n.key \notin RiskKeys(risks)}

\* What is kept of a list: all that is active, the latest Keep that are
\* ignored and the latest Keep that are resolved.  Which ones are latest is
\* abstracted.
InState(ns, state) == {n \in ns : n.state = state}

Trimmed(all, kept) ==
    \/ kept = all
    \/ kept \subseteq all /\ Cardinality(kept) = Keep /\ Keep < Cardinality(all)

Retained(ns) ==
    {kept \in SUBSET ns : /\ InState(kept, "active") = InState(ns, "active")
                          /\ Trimmed(InState(ns, "ignored"), InState(kept, "ignored"))
                          /\ Trimmed(InState(ns, "resolved"), InState(kept, "resolved"))}

\* The airlines to replace are read off the list: an empty one replaces none.
SaveNotifications(ns) ==
    IF ns = {} THEN notes' = notes ELSE notes' \in Retained(ns)

-----------------------------------------------------------------------------
(* A request.                                                              *)

NoJob == [kind |-> "none", number |-> 0, target |-> {}, seen |-> {},
          risks |-> {}, list |-> {}, fresh |-> {}, gone |-> {}]

Finish(s) ==
    /\ pc' = [pc EXCEPT ![s] = "idle"]
    /\ job' = [job EXCEPT ![s] = NoJob]

GoOn(s, label, j) ==
    /\ pc' = [pc EXCEPT ![s] = label]
    /\ job' = [job EXCEPT ![s] = j]

\* A request arrives and its handler loads its own snapshot.  One that edits
\* a single notification names one the player has seen.
Begin(s) ==
    /\ pc[s] = "idle"
    /\ served < MaxRequests
    /\ served' = served + 1
    /\ \E kind \in Kinds :
       \E target \in IF kind \in Edits \ {"read-all"} THEN {{i} : i \in IdsOf(notes)} ELSE {{}} :
           GoOn(s, "load", [NoJob EXCEPT !.kind = kind, !.number = served + 1,
                                         !.target = target, !.seen = holding])
    /\ UNCHANGED <<holding, notes, feed, changes, crashes>>

\* The reconcile loads the full snapshot.
LoadSnapshot(s) ==
    /\ pc[s] = "load"
    /\ GoOn(s, "list", [job[s] EXCEPT !.risks = Risks(holding), !.seen = {}])
    /\ UNCHANGED <<holding, notes, feed, bounds>>

\* The backend fails to answer.  The dashboard falls back on what it has; a
\* mutation only logs the failure and any other request is answered with it.
LoadFails(s) ==
    /\ pc[s] = "load"
    /\ IF job[s].kind = "dashboard"
       THEN GoOn(s, "list", [job[s] EXCEPT !.risks = DashboardRisks(job[s].seen), !.seen = {}])
       ELSE Finish(s)
    /\ UNCHANGED <<holding, notes, feed, bounds>>

ListNotifications(s) ==
    /\ pc[s] = "list"
    /\ GoOn(s, "save", [job[s] EXCEPT !.list = notes])
    /\ UNCHANGED <<holding, notes, feed, bounds>>

SaveReconciled(s) ==
    /\ pc[s] = "save"
    /\ LET list == job[s].list
           risks == job[s].risks
           i == job[s].number
       IN  /\ SaveNotifications(Reconciled(i, list, risks))
           /\ GoOn(s, "created", [job[s] EXCEPT !.risks = {}, !.list = {},
                                                !.fresh = IdsOf(NewNotifications(i, list, risks)),
                                                !.gone = IdsOf(Gone(list, risks))])
    /\ UNCHANGED <<holding, feed, bounds>>

\* Mutant of Announce: only the notification raised first is announced.
AnnounceOne(code, ids) ==
    IF ids = {} THEN {} ELSE {<<code, CHOOSE i \in ids : TRUE>>}

\* The events recorded for a set of notifications, by their dedupe keys: one
\* that is already in the feed is not recorded again.
Announce(code, ids) == {<<code, i>> : i \in ids}

RecordCreated(s) ==
    /\ pc[s] = "created"
    /\ feed' = feed \cup Announce("created", job[s].fresh)
    /\ GoOn(s, "resolved", [job[s] EXCEPT !.fresh = {}])
    /\ UNCHANGED <<holding, notes, bounds>>

RecordResolved(s) ==
    /\ pc[s] = "resolved"
    /\ feed' = feed \cup Announce("resolved", job[s].gone)
    /\ IF job[s].kind \in Edits
       THEN GoOn(s, "list edited", [job[s] EXCEPT !.gone = {}])
       ELSE Finish(s)
    /\ UNCHANGED <<holding, notes, bounds>>

\* markAllNotificationsRead, patchNotificationRead and ignoreNotification
\* list the notifications again...
ListEdited(s) ==
    /\ pc[s] = "list edited"
    /\ GoOn(s, "save edited", [job[s] EXCEPT !.list = notes])
    /\ UNCHANGED <<holding, notes, feed, bounds>>

\* Mutant of Ignored: a state the list does not know.
Dismissed(n) == [n EXCEPT !.state = "dismissed", !.read = TRUE]

Ignored(n) == [n EXCEPT !.state = "ignored", !.read = TRUE]

Edited(kind, n) ==
    CASE kind = "read-all" -> [n EXCEPT !.read = n.read \/ n.state = "active"]
      [] kind = "read"     -> [n EXCEPT !.read = TRUE]
      [] kind = "unread"   -> [n EXCEPT !.read = FALSE]
      [] kind = "ignore"   -> Ignored(n)

\* ... and write them back with the edit.  A notification that is no longer
\* listed answers 404.
SaveEdited(s) ==
    /\ pc[s] = "save edited"
    /\ LET list == job[s].list
           picked == IF job[s].kind = "read-all" THEN IdsOf(list) ELSE job[s].target
       IN  IF picked \subseteq IdsOf(list)
           THEN SaveNotifications({IF n.id \in picked THEN Edited(job[s].kind, n) ELSE n
                                      : n \in list})
           ELSE UNCHANGED notes
    /\ Finish(s)
    /\ UNCHANGED <<holding, feed, bounds>>

Serve(s) ==
    \/ LoadSnapshot(s) \/ LoadFails(s)
    \/ ListNotifications(s) \/ SaveReconciled(s)
    \/ RecordCreated(s) \/ RecordResolved(s)
    \/ ListEdited(s) \/ SaveEdited(s)

-----------------------------------------------------------------------------
(* The surroundings.                                                       *)

\* A condition appears or is gone: money moves, aircraft wear, schedules and
\* routes change.
GameMoves ==
    /\ changes < MaxChanges
    /\ changes' = changes + 1
    /\ \E c \in Conditions :
           holding' = IF c \in holding THEN holding \ {c} ELSE holding \cup {c}
    /\ UNCHANGED <<notes, feed, local, served, crashes>>

\* The BFF restarts: requests are lost, documents are not.
Crash ==
    /\ crashes < MaxCrashes
    /\ crashes' = crashes + 1
    /\ pc' = [s \in Slots |-> "idle"]
    /\ job' = [s \in Slots |-> NoJob]
    /\ UNCHANGED <<holding, notes, feed, served, changes>>

Init ==
    /\ holding \in SUBSET Conditions
    /\ notes = {}
    /\ feed = {}
    /\ pc = [s \in Slots |-> "idle"]
    /\ job = [s \in Slots |-> NoJob]
    /\ served = 0
    /\ changes = 0
    /\ crashes = 0

Next ==
    \/ \E s \in Slots : Begin(s) \/ Serve(s)
    \/ GameMoves
    \/ Crash

Spec == Init /\ [][Next]_vars

-----------------------------------------------------------------------------
(* What must hold.                                                         *)

Job == [kind : Kinds \cup {"none"}, number : 0 .. MaxRequests, target : SUBSET Ids,
        seen : SUBSET Conditions, risks : SUBSET (Conditions \X Keys),
        list : SUBSET Notification, fresh : SUBSET Ids, gone : SUBSET Ids]

Awaits == {"idle", "load", "list", "save", "created", "resolved",
           "list edited", "save edited"}

\* The documents and every handler's copies of them have the shapes of
\* StoredNotification and StoredGameEvent (events/types.ts).
TypeOK ==
    /\ holding \in SUBSET Conditions
    /\ notes \in SUBSET Notification
    /\ feed \in SUBSET ({"created", "resolved"} \X Ids)
    /\ pc \in [Slots -> Awaits]
    /\ job \in [Slots -> Job]
    /\ served \in 0 .. MaxRequests
    /\ changes \in 0 .. MaxChanges
    /\ crashes \in 0 .. MaxCrashes

\* What stands in the list for one dedupe key comes from one check.  A check
\* may raise a key more than once - two constraints of an airport share one -
\* but no later and no overlapping check raises it again while it is listed:
\* reconcileNotificationRisks finds it there, whatever is saved in between.
OneCheckPerKey == \A m, n \in notes : m.key = n.key => m.id[1] = n.id[1]

\* A player hears of every warning: as long as the BFF does not die, each
\* stored or resolved notification has its WARNING_CREATED event in the feed,
\* or the request that raised it is about to record it.
Announced(i) == <<"created", i>> \in feed \/ \E s \in Slots : i \in job[s].fresh

WarningsAnnounced ==
    crashes = 0 =>
        /\ \A n \in notes : Announced(n.id)
        /\ \A e \in feed : Announced(e[2])
=============================================================================
