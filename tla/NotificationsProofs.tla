------------------------ MODULE NotificationsProofs ------------------------
(***************************************************************************)
(* Theorems about Notifications for every set of conditions and keys and   *)
(* any number of concurrent requests.                                      *)
(***************************************************************************)
EXTENDS Notifications, TLAPS

-----------------------------------------------------------------------------
(* The reconciled list.                                                    *)

\* Both kinds of check name conditions of the airline by keys it has.
LEMMA RisksType ==
  ASSUME NEW conds \in SUBSET Conditions
  PROVE  /\ Risks(conds) \in SUBSET (Conditions \X Keys)
         /\ DashboardRisks(conds) \in SUBSET (Conditions \X Keys)
  BY DEF Risks, DashboardRisks, Keys

\* Reconciling or editing a notification keeps its id, its key and its type.
LEMMA ReconcileExistingType ==
  ASSUME NEW n \in Notification, NEW risks
  PROVE  /\ ReconcileExisting(n, risks) \in Notification
         /\ ReconcileExisting(n, risks).id = n.id
         /\ ReconcileExisting(n, risks).key = n.key
  BY DEF ReconcileExisting, Notification, States

\* The same of an edit by the player.
LEMMA EditedType ==
  ASSUME NEW n \in Notification, NEW kind \in Edits
  PROVE  /\ Edited(kind, n) \in Notification
         /\ Edited(kind, n).id = n.id
         /\ Edited(kind, n).key = n.key
<1>1. CASE kind = "read-all"
  BY <1>1 DEF Edited, Notification
<1>2. CASE kind = "read"
  BY <1>2 DEF Edited, Notification
<1>3. CASE kind = "unread"
  BY <1>3 DEF Edited, Notification
<1>4. CASE kind = "ignore"
  BY <1>4 DEF Edited, Ignored, Notification, States
<1> QED
  BY <1>1, <1>2, <1>3, <1>4 DEF Edits

\* A new notification stands for a risk that is not listed.
LEMMA NewNotificationsType ==
  ASSUME NEW i \in 1 .. MaxRequests, NEW list,
         NEW risks \in SUBSET (Conditions \X Keys)
  PROVE  /\ NewNotifications(i, list, risks) \in SUBSET Notification
         /\ IdsOf(NewNotifications(i, list, risks)) \in SUBSET Ids
<1>1. ASSUME NEW r \in risks
      PROVE  NewNotification(i, r) \in Notification
  <2>1. r[1] \in Conditions /\ r[2] \in Keys
    OBVIOUS
  <2>2. <<i, r[1]>> \in Ids
    BY <2>1 DEF Ids
  <2> QED
    BY <2>1, <2>2 DEF NewNotification, Notification, States
<1>2. NewNotifications(i, list, risks) \in SUBSET Notification
  BY <1>1 DEF NewNotifications, NewRisks
<1> QED
  BY <1>2 DEF IdsOf, Notification

\* The reconciled list is a list of notifications.
LEMMA ReconciledType ==
  ASSUME NEW i \in 1 .. MaxRequests, NEW list \in SUBSET Notification,
         NEW risks \in SUBSET (Conditions \X Keys)
  PROVE  Reconciled(i, list, risks) \in SUBSET Notification
<1>1. \A n \in list : ReconcileExisting(n, risks) \in Notification
  BY ReconcileExistingType
<1> QED
  BY <1>1, NewNotificationsType DEF Reconciled

\* Saving keeps a part of what is saved, or everything as it was.
LEMMA SaveIsSubset ==
  ASSUME NEW ns, SaveNotifications(ns)
  PROVE  notes' \subseteq ns \/ notes' = notes
  BY DEF SaveNotifications, Retained

\* What an edit saves is a list of notifications, with the ids and keys of
\* the list it was made from.
EditedList(kind, list, picked) ==
    {IF n.id \in picked THEN Edited(kind, n) ELSE n : n \in list}

\* An edited list is a list of notifications.
LEMMA EditedListType ==
  ASSUME NEW kind \in Edits, NEW list \in SUBSET Notification, NEW picked
  PROVE  EditedList(kind, list, picked) \in SUBSET Notification
<1>1. \A n \in list : Edited(kind, n) \in Notification
  BY EditedType
<1> QED
  BY <1>1 DEF EditedList

-----------------------------------------------------------------------------
(* Type correctness.                                                       *)

\* A request that waits to save an edit is an edit.
EditsEdit ==
    \A s \in Slots : /\ pc[s] \in {"list edited", "save edited"} => job[s].kind \in Edits
                     /\ pc[s] # "idle" => job[s].number \in 1 .. MaxRequests

TypeInv == TypeOK /\ EditsEdit

USE NotificationsAssumption

\* A request is idle and empty before it begins.
LEMMA NoJobType == NoJob \in Job
  BY DEF NoJob, Job, Kinds

\* A request that has just arrived is well typed.
LEMMA NewJobType ==
  ASSUME NEW kind \in Kinds, NEW number \in 1 .. MaxRequests,
         NEW target \in SUBSET Ids, NEW seen \in SUBSET Conditions
  PROVE  LET j == [NoJob EXCEPT !.kind = kind, !.number = number,
                                !.target = target, !.seen = seen]
         IN  j \in Job /\ j.number = number
<1>1. number \in 0 .. MaxRequests
  OBVIOUS
<1> QED
  BY <1>1 DEF NoJob, Job

\* Replacing one slot's await and request keeps the shape of both.
LEMMA GoOnType ==
  ASSUME TypeInv, NEW s \in Slots, NEW label \in Awaits, NEW j \in Job,
         label # "idle" => j.number \in 1 .. MaxRequests,
         label \in {"list edited", "save edited"} => j.kind \in Edits,
         GoOn(s, label, j)
  PROVE  /\ pc' \in [Slots -> Awaits]
         /\ job' \in [Slots -> Job]
         /\ EditsEdit'
<1>1. /\ pc' \in [Slots -> Awaits]
      /\ job' \in [Slots -> Job]
  BY DEF GoOn, TypeInv, TypeOK
<1>2. ASSUME NEW t \in Slots
      PROVE  /\ pc'[t] \in {"list edited", "save edited"} => job'[t].kind \in Edits
             /\ pc'[t] # "idle" => job'[t].number \in 1 .. MaxRequests
  <2>1. CASE t = s
    BY <2>1 DEF GoOn, TypeInv, TypeOK
  <2>2. CASE t # s
    BY <2>2 DEF GoOn, TypeInv, TypeOK, EditsEdit
  <2> QED
    BY <2>1, <2>2
<1> QED
  BY <1>1, <1>2 DEF EditsEdit

\* The same when a request ends.
LEMMA FinishType ==
  ASSUME TypeInv, NEW s \in Slots, Finish(s)
  PROVE  /\ pc' \in [Slots -> Awaits]
         /\ job' \in [Slots -> Job]
         /\ EditsEdit'
<1>1. GoOn(s, "idle", NoJob)
  BY DEF Finish, GoOn
<1> QED
  BY <1>1, GoOnType, NoJobType DEF Awaits

\* The events of notifications are events.
LEMMA AnnounceType ==
  ASSUME NEW code \in {"created", "resolved"}, NEW ids \in SUBSET Ids
  PROVE  Announce(code, ids) \in SUBSET ({"created", "resolved"} \X Ids)
  BY DEF Announce

\* A request in progress is well typed and numbered.
LEMMA JobAt ==
  ASSUME TypeInv, NEW s \in Slots
  PROVE  /\ job[s] \in Job
         /\ pc[s] # "idle" => job[s].number \in 1 .. MaxRequests
         /\ pc[s] \in {"list edited", "save edited"} => job[s].kind \in Edits
  BY DEF TypeInv, TypeOK, EditsEdit

\* The stores and copies keep their types from step to step.
LEMMA TypeStep ==
  ASSUME TypeInv, [Next]_vars
  PROVE  TypeInv'
<1>1. ASSUME NEW s \in Slots, Begin(s)
      PROVE  TypeInv'
  <2>1. PICK kind \in Kinds, target \in SUBSET Ids :
            GoOn(s, "load", [NoJob EXCEPT !.kind = kind, !.number = served + 1,
                                          !.target = target, !.seen = holding])
    <3>1. \A i \in IdsOf(notes) : {i} \in SUBSET Ids
      BY DEF TypeInv, TypeOK, IdsOf, Notification
    <3> QED
      BY <1>1, <3>1 DEF Begin
  <2> DEFINE j == [NoJob EXCEPT !.kind = kind, !.number = served + 1,
                                !.target = target, !.seen = holding]
  <2>2. served + 1 \in 1 .. MaxRequests /\ holding \in SUBSET Conditions
    BY <1>1 DEF Begin, TypeInv, TypeOK
  <2>3. j \in Job /\ j.number \in 1 .. MaxRequests
    BY <2>2, NewJobType
  <2>4. /\ pc' \in [Slots -> Awaits]
        /\ job' \in [Slots -> Job]
        /\ EditsEdit'
    <3> HIDE DEF j
    <3> QED
      BY <2>1, <2>3, GoOnType DEF Awaits, j
  <2>5. served' \in 0 .. MaxRequests
    BY <1>1 DEF Begin, TypeInv, TypeOK
  <2> QED
    BY <1>1, <2>4, <2>5 DEF Begin, TypeInv, TypeOK
<1>2. ASSUME NEW s \in Slots, LoadSnapshot(s)
      PROVE  TypeInv'
  <2> DEFINE j == [job[s] EXCEPT !.risks = Risks(holding), !.seen = {}]
  <2>1. j \in Job /\ j.number \in 1 .. MaxRequests
    <3>1. job[s] \in Job /\ job[s].number \in 1 .. MaxRequests
      BY <1>2, JobAt DEF LoadSnapshot
    <3>2. Risks(holding) \in SUBSET (Conditions \X Keys)
      BY RisksType DEF TypeInv, TypeOK
    <3> QED
      BY <3>1, <3>2 DEF Job
  <2>2. GoOn(s, "list", j)
    BY <1>2 DEF LoadSnapshot
  <2> HIDE DEF j
  <2> QED
    BY <1>2, <2>1, <2>2, GoOnType DEF LoadSnapshot, bounds, Awaits, TypeInv, TypeOK
<1>3. ASSUME NEW s \in Slots, LoadFails(s)
      PROVE  TypeInv'
  <2>1. CASE job[s].kind = "dashboard"
    <3> DEFINE j == [job[s] EXCEPT !.risks = DashboardRisks(job[s].seen), !.seen = {}]
    <3>1. j \in Job /\ j.number \in 1 .. MaxRequests
      <4>1. job[s] \in Job /\ job[s].number \in 1 .. MaxRequests
        BY <1>3, JobAt DEF LoadFails
      <4>2. DashboardRisks(job[s].seen) \in SUBSET (Conditions \X Keys)
        BY <4>1, RisksType DEF Job
      <4> QED
        BY <4>1, <4>2 DEF Job
    <3>2. GoOn(s, "list", j)
      BY <1>3, <2>1 DEF LoadFails
    <3> HIDE DEF j
    <3> QED
      BY <1>3, <3>1, <3>2, GoOnType DEF LoadFails, bounds, Awaits, TypeInv, TypeOK
  <2>2. CASE job[s].kind # "dashboard"
    BY <1>3, <2>2, FinishType DEF LoadFails, bounds, TypeInv, TypeOK
  <2> QED
    BY <2>1, <2>2
<1>4. ASSUME NEW s \in Slots, ListNotifications(s)
      PROVE  TypeInv'
  <2> DEFINE j == [job[s] EXCEPT !.list = notes]
  <2>1. j \in Job /\ j.number \in 1 .. MaxRequests
    <3>1. job[s] \in Job /\ job[s].number \in 1 .. MaxRequests
      BY <1>4, JobAt DEF ListNotifications
    <3>2. notes \in SUBSET Notification
      BY DEF TypeInv, TypeOK
    <3> QED
      BY <3>1, <3>2 DEF Job
  <2>2. GoOn(s, "save", j)
    BY <1>4 DEF ListNotifications
  <2> HIDE DEF j
  <2> QED
    BY <1>4, <2>1, <2>2, GoOnType DEF ListNotifications, bounds, Awaits, TypeInv, TypeOK
<1>5. ASSUME NEW s \in Slots, SaveReconciled(s)
      PROVE  TypeInv'
  <2> DEFINE list == job[s].list
             risks == job[s].risks
             i == job[s].number
             j == [job[s] EXCEPT !.risks = {}, !.list = {},
                                 !.fresh = IdsOf(NewNotifications(i, list, risks)),
                                 !.gone = IdsOf(Gone(list, risks))]
  <2>1. /\ list \in SUBSET Notification
        /\ risks \in SUBSET (Conditions \X Keys)
        /\ i \in 1 .. MaxRequests
        /\ job[s] \in Job
    <3>1. job[s] \in Job /\ i \in 1 .. MaxRequests
      BY <1>5, JobAt DEF SaveReconciled
    <3> QED
      BY <3>1 DEF Job
  <2>2. IdsOf(Gone(list, risks)) \in SUBSET Ids
    BY <2>1 DEF Gone, IdsOf, Notification
  <2>3. j \in Job /\ j.number = i
    BY <2>1, <2>2, NewNotificationsType DEF Job
  <2>4. /\ GoOn(s, "created", j)
        /\ SaveNotifications(Reconciled(i, list, risks))
    BY <1>5 DEF SaveReconciled
  <2>5. notes' \in SUBSET Notification
    BY <2>1, <2>4, SaveIsSubset, ReconciledType DEF TypeInv, TypeOK
  <2> HIDE DEF j
  <2> QED
    BY <1>5, <2>1, <2>3, <2>4, <2>5, GoOnType
    DEF SaveReconciled, bounds, Awaits, TypeInv, TypeOK
<1>6. ASSUME NEW s \in Slots, RecordCreated(s)
      PROVE  TypeInv'
  <2> DEFINE j == [job[s] EXCEPT !.fresh = {}]
  <2>1. j \in Job /\ j.number \in 1 .. MaxRequests
    <3>1. job[s] \in Job /\ job[s].number \in 1 .. MaxRequests
      BY <1>6, JobAt DEF RecordCreated
    <3> QED
      BY <3>1 DEF Job
  <2>2. GoOn(s, "resolved", j)
    BY <1>6 DEF RecordCreated
  <2>3. feed' \in SUBSET ({"created", "resolved"} \X Ids)
    <3>1. job[s].fresh \in SUBSET Ids
      BY JobAt DEF Job
    <3>2. Announce("created", job[s].fresh) \in SUBSET ({"created", "resolved"} \X Ids)
      BY <3>1, AnnounceType
    <3> QED
      BY <1>6, <3>2 DEF RecordCreated, TypeInv, TypeOK
  <2> HIDE DEF j
  <2> QED
    BY <1>6, <2>1, <2>2, <2>3, GoOnType DEF RecordCreated, bounds, Awaits, TypeInv, TypeOK
<1>7. ASSUME NEW s \in Slots, RecordResolved(s)
      PROVE  TypeInv'
  <2>1. feed' \in SUBSET ({"created", "resolved"} \X Ids)
    <3>1. job[s].gone \in SUBSET Ids
      BY JobAt DEF Job
    <3>2. Announce("resolved", job[s].gone) \in SUBSET ({"created", "resolved"} \X Ids)
      BY <3>1, AnnounceType
    <3> QED
      BY <1>7, <3>2 DEF RecordResolved, TypeInv, TypeOK
  <2>2. CASE job[s].kind \in Edits
    <3> DEFINE j == [job[s] EXCEPT !.gone = {}]
    <3>1. j \in Job /\ j.number \in 1 .. MaxRequests /\ j.kind \in Edits
      <4>1. job[s] \in Job /\ job[s].number \in 1 .. MaxRequests
        BY <1>7, JobAt DEF RecordResolved
      <4> QED
        BY <2>2, <4>1 DEF Job
    <3>2. GoOn(s, "list edited", j)
      BY <1>7, <2>2 DEF RecordResolved
    <3> HIDE DEF j
    <3> QED
      BY <1>7, <2>1, <3>1, <3>2, GoOnType DEF RecordResolved, bounds, Awaits, TypeInv, TypeOK
  <2>3. CASE job[s].kind \notin Edits
    BY <1>7, <2>1, <2>3, FinishType DEF RecordResolved, bounds, TypeInv, TypeOK
  <2> QED
    BY <2>2, <2>3
<1>8. ASSUME NEW s \in Slots, ListEdited(s)
      PROVE  TypeInv'
  <2> DEFINE j == [job[s] EXCEPT !.list = notes]
  <2>1. j \in Job /\ j.number \in 1 .. MaxRequests /\ j.kind \in Edits
    <3>1. job[s] \in Job /\ job[s].number \in 1 .. MaxRequests /\ job[s].kind \in Edits
      BY <1>8, JobAt DEF ListEdited
    <3>2. notes \in SUBSET Notification
      BY DEF TypeInv, TypeOK
    <3> QED
      BY <3>1, <3>2 DEF Job
  <2>2. GoOn(s, "save edited", j)
    BY <1>8 DEF ListEdited
  <2> HIDE DEF j
  <2> QED
    BY <1>8, <2>1, <2>2, GoOnType DEF ListEdited, bounds, Awaits, TypeInv, TypeOK
<1>9. ASSUME NEW s \in Slots, SaveEdited(s)
      PROVE  TypeInv'
  <2>1. PICK picked : \/ SaveNotifications(EditedList(job[s].kind, job[s].list, picked))
                      \/ notes' = notes
    BY <1>9 DEF SaveEdited, EditedList
  <2>2. job[s].kind \in Edits /\ job[s].list \in SUBSET Notification
    BY <1>9, JobAt DEF SaveEdited, Job
  <2>3. notes' \in SUBSET Notification
    BY <2>1, <2>2, SaveIsSubset, EditedListType DEF TypeInv, TypeOK
  <2> QED
    BY <1>9, <2>3, FinishType DEF SaveEdited, bounds, TypeInv, TypeOK
<1>10. ASSUME GameMoves
       PROVE  TypeInv'
  <2>1. /\ holding' \in SUBSET Conditions
        /\ changes' \in 0 .. MaxChanges
    BY <1>10 DEF GameMoves, TypeInv, TypeOK
  <2> QED
    BY <1>10, <2>1 DEF GameMoves, local, TypeInv, TypeOK, EditsEdit
<1>11. ASSUME Crash
       PROVE  TypeInv'
  <2>1. /\ pc' \in [Slots -> Awaits]
        /\ job' \in [Slots -> Job]
    BY <1>11, NoJobType DEF Crash, Awaits
  <2>2. crashes' \in 0 .. MaxCrashes
    BY <1>11 DEF Crash, TypeInv, TypeOK
  <2>3. EditsEdit'
    BY <1>11 DEF Crash, EditsEdit
  <2> QED
    BY <1>11, <2>1, <2>2, <2>3 DEF Crash, TypeInv, TypeOK
<1>12. ASSUME UNCHANGED vars
       PROVE  TypeInv'
  BY <1>12 DEF vars, TypeInv, TypeOK, EditsEdit
<1> QED
  BY <1>1, <1>2, <1>3, <1>4, <1>5, <1>6, <1>7, <1>8, <1>9, <1>10, <1>11, <1>12 DEF Next, Serve

\* Documents and handlers' copies keep their shapes (TypeOK), together with
\* the fact that only edits wait to save an edit.
THEOREM TypeInvariant == Spec => []TypeInv
<1>1. Init => TypeInv
  BY NoJobType DEF Init, TypeInv, TypeOK, EditsEdit, Awaits
<1>2. TypeInv /\ [Next]_vars => TypeInv'
  BY TypeStep
<1> QED
  BY <1>1, <1>2, PTL DEF Spec

\* The notifications document, the feed and the copies the handlers hold keep
\* the shapes of events/types.ts.
THEOREM NotificationsTypeCorrect == Spec => []TypeOK
<1>1. TypeInv => TypeOK
  BY DEF TypeInv
<1> QED
  BY <1>1, TypeInvariant, PTL

-----------------------------------------------------------------------------
(* The notifications of one key come from one check.                       *)

OneCheck(ns) == \A m, n \in ns : m.key = n.key => m.id[1] = n.id[1]

\* Every list a handler holds is as orderly as the document.
KeyInv ==
    /\ OneCheck(notes)
    /\ \A s \in Slots : OneCheck(job[s].list)

\* Whatever a check raises carries its number and a key that was not listed.
LEMMA RaisedByCheck ==
  ASSUME NEW i, NEW list, NEW risks,
         NEW n \in NewNotifications(i, list, risks)
  PROVE  n.id[1] = i /\ n.key \notin KeysOf(list)
<1>1. PICK r \in NewRisks(list, risks) : n = NewNotification(i, r)
  BY DEF NewNotifications
<1>2. n.id = <<i, r[1]>> /\ n.key = r[2]
  BY <1>1 DEF NewNotification
<1> QED
  BY <1>1, <1>2 DEF NewRisks

\* Reconciling raises no key a second time.
LEMMA ReconciledOnce ==
  ASSUME NEW i, NEW list \in SUBSET Notification, NEW risks, OneCheck(list)
  PROVE  OneCheck(Reconciled(i, list, risks))
<1> DEFINE old == {ReconcileExisting(n, risks) : n \in list}
           new == NewNotifications(i, list, risks)
<1>1. \A m \in old : \E n \in list : m.key = n.key /\ m.id = n.id
  BY ReconcileExistingType
<1>2. \A m, n \in old : m.key = n.key => m.id[1] = n.id[1]
  BY <1>1 DEF OneCheck
<1>3. \A n \in new : n.id[1] = i /\ n.key \notin KeysOf(list)
  BY RaisedByCheck
<1>4. \A m \in old, n \in new : m.key # n.key
  BY <1>1, <1>3 DEF KeysOf
<1>5. Reconciled(i, list, risks) = old \cup new
  BY DEF Reconciled
<1> HIDE DEF old, new
<1>6. ASSUME NEW m \in old \cup new, NEW n \in old \cup new, m.key = n.key
      PROVE  m.id[1] = n.id[1]
  <2>1. CASE m \in old /\ n \in old
    BY <1>2, <1>6, <2>1
  <2>2. CASE m \in new /\ n \in new
    BY <1>3, <2>2
  <2>3. CASE m \in old /\ n \in new
    BY <1>4, <1>6, <2>3
  <2>4. CASE m \in new /\ n \in old
    BY <1>4, <1>6, <2>4
  <2> QED
    BY <2>1, <2>2, <2>3, <2>4
<1> QED
  BY <1>5, <1>6 DEF OneCheck

\* An edit changes neither a key nor an id.
LEMMA EditedOnce ==
  ASSUME NEW kind \in Edits, NEW list \in SUBSET Notification, NEW picked,
         OneCheck(list)
  PROVE  OneCheck(EditedList(kind, list, picked))
<1>1. \A m \in EditedList(kind, list, picked) :
          \E n \in list : m.key = n.key /\ m.id = n.id
  BY EditedType DEF EditedList
<1> QED
  BY <1>1 DEF OneCheck

\* What is saved is as orderly as what was asked to be saved.
LEMMA SavedOnce ==
  ASSUME NEW ns, OneCheck(ns), OneCheck(notes), SaveNotifications(ns)
  PROVE  OneCheck(notes')
  BY SaveIsSubset DEF OneCheck

\* Only the slot that moves changes its copies.
LEMMA CopiesOnce ==
  ASSUME TypeInv, KeyInv, NEW s \in Slots, NEW label, NEW j,
         GoOn(s, label, j), OneCheck(j.list)
  PROVE  \A t \in Slots : OneCheck(job'[t].list)
<1>1. \A t \in Slots : job'[t] = IF t = s THEN j ELSE job[t]
  BY DEF GoOn, TypeInv, TypeOK
<1> QED
  BY <1>1 DEF KeyInv

\* The same when the request ends.
LEMMA FinishOnce ==
  ASSUME TypeInv, KeyInv, NEW s \in Slots, Finish(s)
  PROVE  \A t \in Slots : OneCheck(job'[t].list)
<1>1. GoOn(s, "idle", NoJob)
  BY DEF Finish, GoOn
<1>2. OneCheck(NoJob.list)
  BY DEF NoJob, OneCheck
<1> QED
  BY <1>1, <1>2, CopiesOnce

\* No step raises a key that is listed.
LEMMA KeyStep ==
  ASSUME TypeInv, KeyInv, [Next]_vars
  PROVE  KeyInv'
<1>1. ASSUME NEW s \in Slots, Begin(s)
      PROVE  KeyInv'
  <2>1. PICK kind, target :
            GoOn(s, "load", [NoJob EXCEPT !.kind = kind, !.number = served + 1,
                                          !.target = target, !.seen = holding])
    BY <1>1 DEF Begin
  <2> DEFINE j == [NoJob EXCEPT !.kind = kind, !.number = served + 1,
                                !.target = target, !.seen = holding]
  <2>2. OneCheck(j.list)
    BY DEF NoJob, OneCheck
  <2> HIDE DEF j
  <2>3. \A t \in Slots : OneCheck(job'[t].list)
    BY <2>1, <2>2, CopiesOnce DEF j
  <2> QED
    BY <1>1, <2>3 DEF Begin, KeyInv
<1>2. ASSUME NEW s \in Slots, LoadSnapshot(s)
      PROVE  KeyInv'
  <2> DEFINE j == [job[s] EXCEPT !.risks = Risks(holding), !.seen = {}]
  <2>1. j.list = job[s].list
    BY JobAt DEF Job
  <2>2. OneCheck(j.list)
    BY <2>1 DEF KeyInv
  <2>3. GoOn(s, "list", j) /\ notes' = notes
    BY <1>2 DEF LoadSnapshot
  <2> HIDE DEF j
  <2> QED
    BY <2>2, <2>3, CopiesOnce DEF KeyInv
<1>3. ASSUME NEW s \in Slots, LoadFails(s)
      PROVE  KeyInv'
  <2>1. CASE job[s].kind = "dashboard"
    <3> DEFINE j == [job[s] EXCEPT !.risks = DashboardRisks(job[s].seen), !.seen = {}]
    <3>1. j.list = job[s].list
      BY JobAt DEF Job
    <3>2. OneCheck(j.list)
      BY <3>1 DEF KeyInv
    <3>3. GoOn(s, "list", j) /\ notes' = notes
      BY <1>3, <2>1 DEF LoadFails
    <3> HIDE DEF j
    <3> QED
      BY <3>2, <3>3, CopiesOnce DEF KeyInv
  <2>2. CASE job[s].kind # "dashboard"
    BY <1>3, <2>2, FinishOnce DEF LoadFails, KeyInv
  <2> QED
    BY <2>1, <2>2
<1>4. ASSUME NEW s \in Slots, ListNotifications(s) \/ ListEdited(s)
      PROVE  KeyInv'
  <2> DEFINE j == [job[s] EXCEPT !.list = notes]
  <2>1. j.list = notes
    BY JobAt DEF Job
  <2>2. OneCheck(j.list)
    BY <2>1 DEF KeyInv
  <2>3. PICK label : GoOn(s, label, j)
    BY <1>4 DEF ListNotifications, ListEdited
  <2>4. notes' = notes
    BY <1>4 DEF ListNotifications, ListEdited
  <2> HIDE DEF j
  <2> QED
    BY <2>2, <2>3, <2>4, CopiesOnce DEF KeyInv
<1>5. ASSUME NEW s \in Slots, SaveReconciled(s)
      PROVE  KeyInv'
  <2> DEFINE list == job[s].list
             risks == job[s].risks
             i == job[s].number
             j == [job[s] EXCEPT !.risks = {}, !.list = {},
                                 !.fresh = IdsOf(NewNotifications(i, list, risks)),
                                 !.gone = IdsOf(Gone(list, risks))]
  <2>1. j.list = {}
    BY JobAt DEF Job
  <2>2. OneCheck(j.list)
    BY <2>1 DEF OneCheck
  <2>3. /\ GoOn(s, "created", j)
        /\ SaveNotifications(Reconciled(i, list, risks))
    BY <1>5 DEF SaveReconciled
  <2>4. list \in SUBSET Notification
    BY JobAt DEF Job
  <2>5. OneCheck(notes')
    BY <2>3, <2>4, ReconciledOnce, SavedOnce DEF KeyInv
  <2> HIDE DEF j
  <2> QED
    BY <2>2, <2>3, <2>5, CopiesOnce DEF KeyInv
<1>6. ASSUME NEW s \in Slots, RecordCreated(s)
      PROVE  KeyInv'
  <2> DEFINE j == [job[s] EXCEPT !.fresh = {}]
  <2>1. j.list = job[s].list
    BY JobAt DEF Job
  <2>2. GoOn(s, "resolved", j) /\ notes' = notes
    BY <1>6 DEF RecordCreated
  <2> HIDE DEF j
  <2> QED
    BY <2>1, <2>2, CopiesOnce DEF KeyInv
<1>7. ASSUME NEW s \in Slots, RecordResolved(s)
      PROVE  KeyInv'
  <2>1. CASE job[s].kind \in Edits
    <3> DEFINE j == [job[s] EXCEPT !.gone = {}]
    <3>1. j.list = job[s].list
      BY JobAt DEF Job
    <3>2. GoOn(s, "list edited", j) /\ notes' = notes
      BY <1>7, <2>1 DEF RecordResolved
    <3> HIDE DEF j
    <3> QED
      BY <3>1, <3>2, CopiesOnce DEF KeyInv
  <2>2. CASE job[s].kind \notin Edits
    BY <1>7, <2>2, FinishOnce DEF RecordResolved, KeyInv
  <2> QED
    BY <2>1, <2>2
<1>8. ASSUME NEW s \in Slots, SaveEdited(s)
      PROVE  KeyInv'
  <2>1. PICK picked : \/ SaveNotifications(EditedList(job[s].kind, job[s].list, picked))
                      \/ notes' = notes
    BY <1>8 DEF SaveEdited, EditedList
  <2>2. job[s].kind \in Edits /\ job[s].list \in SUBSET Notification
    BY <1>8, JobAt DEF SaveEdited, Job
  <2>3. OneCheck(EditedList(job[s].kind, job[s].list, picked))
    BY <2>2, EditedOnce DEF KeyInv
  <2>4. OneCheck(notes')
    BY <2>1, <2>3, SavedOnce DEF KeyInv
  <2> QED
    BY <1>8, <2>4, FinishOnce DEF SaveEdited, KeyInv
<1>9. ASSUME GameMoves \/ UNCHANGED vars
      PROVE  KeyInv'
  BY <1>9 DEF GameMoves, local, vars, KeyInv
<1>10. ASSUME Crash
       PROVE  KeyInv'
  BY <1>10 DEF Crash, NoJob, KeyInv, OneCheck
<1> QED
  BY <1>1, <1>2, <1>3, <1>4, <1>5, <1>6, <1>7, <1>8, <1>9, <1>10 DEF Next, Serve

\* Whatever stands in the document for one risk was raised by one check,
\* however many requests reconcile it at once, whichever of them overwrites
\* the other and whenever the BFF restarts - also where several conditions
\* share a key.
THEOREM NotificationsUnique == Spec => []OneCheckPerKey
<1>1. Init => KeyInv
  BY DEF Init, KeyInv, OneCheck, NoJob
<1>2. TypeInv /\ KeyInv /\ [Next]_vars => KeyInv'
  BY KeyStep
<1>3. KeyInv => OneCheckPerKey
  BY DEF KeyInv, OneCheck, OneCheckPerKey
<1> QED
  BY <1>1, <1>2, <1>3, TypeInvariant, PTL DEF Spec

-----------------------------------------------------------------------------
(* Every warning is announced.                                             *)

\* While the BFF lives, whatever a document or a handler's copy names was
\* announced, or the request that raised it is about to announce it.
AnnouncedInv ==
    crashes = 0 =>
        /\ \A n \in notes : Announced(n.id)
        /\ \A e \in feed : Announced(e[2])
        /\ \A s \in Slots : /\ \A n \in job[s].list : Announced(n.id)
                           /\ \A i \in job[s].gone : Announced(i)

\* A step in which no request forgets what it has to announce, unless it
\* announces it, un-announces nothing.
LEMMA StillAnnounced ==
  ASSUME feed \subseteq feed',
         \A s \in Slots : \A i \in job[s].fresh :
             i \in job'[s].fresh \/ <<"created", i>> \in feed',
         NEW i, Announced(i)
  PROVE  Announced(i)'
  BY DEF Announced

\* The same for the step of one slot.
LEMMA SlotAnnounces ==
  ASSUME TypeInv, AnnouncedInv, NEW s \in Slots, NEW label, NEW j,
         GoOn(s, label, j), feed \subseteq feed', crashes' = crashes,
         \A i \in job[s].fresh : i \in j.fresh \/ <<"created", i>> \in feed',
         crashes = 0 => /\ \A e \in feed' \ feed : Announced(e[2])'
                        /\ \A n \in notes' : Announced(n.id) \/ Announced(n.id)'
                        /\ \A n \in j.list : Announced(n.id)
                        /\ \A i \in j.gone : Announced(i) \/ Announced(i)'
  PROVE  AnnouncedInv'
<1>1. \A t \in Slots : job'[t] = IF t = s THEN j ELSE job[t]
  BY DEF GoOn, TypeInv, TypeOK
<1>2. \A i : Announced(i) => Announced(i)'
  BY <1>1, StillAnnounced
<1>3. ASSUME crashes = 0, NEW t \in Slots
      PROVE  /\ \A n \in job'[t].list : Announced(n.id)'
             /\ \A i \in job'[t].gone : Announced(i)'
  BY <1>1, <1>2, <1>3 DEF AnnouncedInv
<1>4. ASSUME crashes = 0
      PROVE  /\ \A n \in notes' : Announced(n.id)'
             /\ \A e \in feed' : Announced(e[2])'
  BY <1>2, <1>4 DEF AnnouncedInv
<1> QED
  BY <1>3, <1>4 DEF AnnouncedInv

\* A request that is not about to announce has nothing left to announce.
FreshInv == \A s \in Slots : pc[s] # "created" => job[s].fresh = {}

\* Only the slot that moves changes what it has to announce.
LEMMA FreshKept ==
  ASSUME TypeInv, FreshInv, NEW s \in Slots, NEW label, NEW j,
         GoOn(s, label, j), label # "created" => j.fresh = {}
  PROVE  FreshInv'
  BY DEF FreshInv, GoOn, TypeInv, TypeOK

\* A step that adds nothing to the feed keeps the invariant, if what its
\* handler now holds is announced and it has forgotten nothing.
LEMMA QuietStep ==
  ASSUME TypeInv, AnnouncedInv, FreshInv, NEW s \in Slots, pc[s] # "created",
         NEW label, NEW j, GoOn(s, label, j), label # "created", j.fresh = {},
         feed' = feed, crashes' = crashes,
         crashes = 0 => /\ \A n \in notes' : Announced(n.id)
                        /\ \A n \in j.list : Announced(n.id)
                        /\ \A i \in j.gone : Announced(i)
  PROVE  AnnouncedInv' /\ FreshInv'
<1>1. FreshInv'
  BY FreshKept
<1>2. AnnouncedInv'
  BY SlotAnnounces DEF FreshInv
<1> QED
  BY <1>1, <1>2

\* The same when the request ends.
LEMMA QuietEnd ==
  ASSUME TypeInv, AnnouncedInv, FreshInv, NEW s \in Slots, pc[s] # "created",
         Finish(s), feed' = feed, crashes' = crashes,
         crashes = 0 => \A n \in notes' : Announced(n.id)
  PROVE  AnnouncedInv' /\ FreshInv'
<1>1. GoOn(s, "idle", NoJob)
  BY DEF Finish, GoOn
<1>2. NoJob.fresh = {} /\ NoJob.list = {} /\ NoJob.gone = {}
  BY DEF NoJob
<1> QED
  BY <1>1, <1>2, QuietStep

\* Every id of a reconciled list is listed or new.
LEMMA ReconciledIds ==
  ASSUME NEW i, NEW list \in SUBSET Notification, NEW risks, NEW n \in Reconciled(i, list, risks)
  PROVE  \/ \E m \in list : m.id = n.id
         \/ n.id \in IdsOf(NewNotifications(i, list, risks))
<1>1. \A m \in list : ReconcileExisting(m, risks).id = m.id
  BY ReconcileExistingType
<1> QED
  BY <1>1 DEF Reconciled, IdsOf

\* Every id of an edited list is listed.
LEMMA EditedIds ==
  ASSUME NEW kind \in Edits, NEW list \in SUBSET Notification, NEW picked,
         NEW n \in EditedList(kind, list, picked)
  PROVE  \E m \in list : m.id = n.id
<1>1. \A m \in list : Edited(kind, m).id = m.id
  BY EditedType
<1> QED
  BY <1>1 DEF EditedList

\* Every step keeps the invariant.
LEMMA AnnouncedStep ==
  ASSUME TypeInv, AnnouncedInv, FreshInv, [Next]_vars
  PROVE  AnnouncedInv' /\ FreshInv'
<1>1. ASSUME NEW s \in Slots, Begin(s)
      PROVE  AnnouncedInv' /\ FreshInv'
  <2>1. PICK kind, target :
            GoOn(s, "load", [NoJob EXCEPT !.kind = kind, !.number = served + 1,
                                          !.target = target, !.seen = holding])
    BY <1>1 DEF Begin
  <2> DEFINE j == [NoJob EXCEPT !.kind = kind, !.number = served + 1,
                                !.target = target, !.seen = holding]
  <2>2. j.list = {} /\ j.fresh = {} /\ j.gone = {}
    BY DEF NoJob
  <2>3. pc[s] # "created" /\ feed' = feed /\ crashes' = crashes /\ notes' = notes
    BY <1>1 DEF Begin
  <2>4. GoOn(s, "load", j)
    BY <2>1
  <2> HIDE DEF j
  <2> QED
    BY <2>2, <2>3, <2>4, QuietStep DEF AnnouncedInv
<1>2. ASSUME NEW s \in Slots, LoadSnapshot(s)
      PROVE  AnnouncedInv' /\ FreshInv'
  <2> DEFINE j == [job[s] EXCEPT !.risks = Risks(holding), !.seen = {}]
  <2>1. j.list = job[s].list /\ j.fresh = job[s].fresh /\ j.gone = job[s].gone
    BY JobAt DEF Job
  <2>2. /\ pc[s] # "created" /\ feed' = feed /\ crashes' = crashes /\ notes' = notes
        /\ GoOn(s, "list", j)
    BY <1>2 DEF LoadSnapshot, bounds
  <2> HIDE DEF j
  <2> QED
    BY <2>1, <2>2, QuietStep DEF AnnouncedInv, FreshInv
<1>3. ASSUME NEW s \in Slots, LoadFails(s)
      PROVE  AnnouncedInv' /\ FreshInv'
  <2>1. /\ pc[s] # "created" /\ feed' = feed /\ crashes' = crashes /\ notes' = notes
    BY <1>3 DEF LoadFails, bounds
  <2>2. CASE job[s].kind = "dashboard"
    <3> DEFINE j == [job[s] EXCEPT !.risks = DashboardRisks(job[s].seen), !.seen = {}]
    <3>1. j.list = job[s].list /\ j.fresh = job[s].fresh /\ j.gone = job[s].gone
      BY JobAt DEF Job
    <3>2. GoOn(s, "list", j)
      BY <1>3, <2>2 DEF LoadFails
    <3> HIDE DEF j
    <3> QED
      BY <2>1, <3>1, <3>2, QuietStep DEF AnnouncedInv, FreshInv
  <2>3. CASE job[s].kind # "dashboard"
    BY <1>3, <2>1, <2>3, QuietEnd DEF LoadFails, AnnouncedInv
  <2> QED
    BY <2>2, <2>3
<1>4. ASSUME NEW s \in Slots, ListNotifications(s) \/ ListEdited(s)
      PROVE  AnnouncedInv' /\ FreshInv'
  <2> DEFINE j == [job[s] EXCEPT !.list = notes]
  <2>1. j.list = notes /\ j.fresh = job[s].fresh /\ j.gone = job[s].gone
    BY JobAt DEF Job
  <2>2. PICK label : GoOn(s, label, j) /\ label # "created"
    <3>1. GoOn(s, "save", j) \/ GoOn(s, "save edited", j)
      BY <1>4 DEF ListNotifications, ListEdited
    <3>2. "save" # "created" /\ "save edited" # "created"
      OBVIOUS
    <3> HIDE DEF j
    <3> QED
      BY <3>1, <3>2, Zenon
  <2>3. pc[s] # "created" /\ feed' = feed /\ crashes' = crashes /\ notes' = notes
    BY <1>4 DEF ListNotifications, ListEdited, bounds
  <2> HIDE DEF j
  <2> QED
    BY <2>1, <2>2, <2>3, QuietStep DEF AnnouncedInv, FreshInv
<1>5. ASSUME NEW s \in Slots, SaveReconciled(s)
      PROVE  AnnouncedInv' /\ FreshInv'
  <2> DEFINE list == job[s].list
             risks == job[s].risks
             i == job[s].number
             new == IdsOf(NewNotifications(i, list, risks))
             gone == IdsOf(Gone(list, risks))
             j == [job[s] EXCEPT !.risks = {}, !.list = {}, !.fresh = new, !.gone = gone]
  <2>1. /\ pc[s] = "save" /\ feed' = feed /\ crashes' = crashes
        /\ GoOn(s, "created", j)
        /\ SaveNotifications(Reconciled(i, list, risks))
    BY <1>5 DEF SaveReconciled, bounds
  <2>2. j.list = {} /\ j.fresh = new /\ j.gone = gone /\ list \in SUBSET Notification
    BY JobAt DEF Job
  <2>3. FreshInv'
    <3> HIDE DEF j
    <3> QED
      BY <2>1, FreshKept
  <2>4. job'[s] = j
    BY <2>1 DEF GoOn, TypeInv, TypeOK
  <2>5. \A k \in new : Announced(k)'
    <3> HIDE DEF new, j
    <3>1. \A k \in new : k \in job'[s].fresh
      BY <2>2, <2>4
    <3> QED
      BY <3>1 DEF Announced
  <2>6. crashes = 0 => \A m \in list : Announced(m.id)
    BY DEF AnnouncedInv
  <2>7. crashes = 0 => \A n \in notes' : Announced(n.id) \/ Announced(n.id)'
    <3> SUFFICES ASSUME crashes = 0, NEW n \in notes'
                 PROVE  Announced(n.id) \/ Announced(n.id)'
      OBVIOUS
    <3>1. CASE n \in notes
      BY <3>1 DEF AnnouncedInv
    <3>2. CASE n \in Reconciled(i, list, risks)
      <4> HIDE DEF list, risks, i
      <4>1. (\E m \in list : m.id = n.id) \/ n.id \in new
        BY <2>2, <3>2, ReconciledIds
      <4> QED
        BY <2>5, <2>6, <4>1
    <3> QED
      BY <2>1, <3>1, <3>2, SaveIsSubset
  <2>8. crashes = 0 => \A k \in gone : Announced(k)
    BY <2>6 DEF Gone, IdsOf
  <2>9. job[s].fresh = {}
    BY <2>1 DEF FreshInv
  <2> HIDE DEF j
  <2>10. AnnouncedInv'
    BY <2>1, <2>2, <2>7, <2>8, <2>9, SlotAnnounces
  <2> QED
    BY <2>3, <2>10
<1>6. ASSUME NEW s \in Slots, RecordCreated(s)
      PROVE  AnnouncedInv' /\ FreshInv'
  <2> DEFINE j == [job[s] EXCEPT !.fresh = {}]
  <2>1. j.list = job[s].list /\ j.fresh = {} /\ j.gone = job[s].gone
    BY JobAt DEF Job
  <2>2. /\ crashes' = crashes /\ notes' = notes
        /\ GoOn(s, "resolved", j)
        /\ feed' = feed \cup Announce("created", job[s].fresh)
    BY <1>6 DEF RecordCreated, bounds
  <2>3. \A i \in job[s].fresh : <<"created", i>> \in feed'
    BY <2>2 DEF Announce
  <2>4. \A e \in feed' \ feed : Announced(e[2])'
    BY <2>2, <2>3 DEF Announce, Announced
  <2> HIDE DEF j
  <2>5. AnnouncedInv'
    BY <2>1, <2>2, <2>3, <2>4, SlotAnnounces DEF AnnouncedInv
  <2> QED
    BY <2>1, <2>2, <2>5, FreshKept
<1>7. ASSUME NEW s \in Slots, RecordResolved(s)
      PROVE  AnnouncedInv' /\ FreshInv'
  <2>1. PICK label, j : /\ GoOn(s, label, j) /\ label # "created"
                        /\ j.list \subseteq job[s].list /\ j.fresh = {} /\ j.gone = {}
    <3>1. CASE job[s].kind \in Edits
      <4> DEFINE j == [job[s] EXCEPT !.gone = {}]
      <4>1. j.list = job[s].list /\ j.fresh = job[s].fresh /\ j.gone = {}
        BY JobAt DEF Job
      <4>2. GoOn(s, "list edited", j)
        BY <1>7, <3>1 DEF RecordResolved
      <4>3. j.fresh = {}
        BY <1>7, <4>1 DEF RecordResolved, FreshInv
      <4> HIDE DEF j
      <4> QED
        BY <4>1, <4>2, <4>3
    <3>2. CASE job[s].kind \notin Edits
      <4>1. GoOn(s, "idle", NoJob)
        BY <1>7, <3>2 DEF RecordResolved, Finish, GoOn
      <4>2. NoJob.list = {} /\ NoJob.fresh = {} /\ NoJob.gone = {}
        BY DEF NoJob
      <4> QED
        BY <4>1, <4>2
    <3> QED
      BY <3>1, <3>2
  <2>2. /\ crashes' = crashes /\ notes' = notes /\ pc[s] # "created"
        /\ feed' = feed \cup Announce("resolved", job[s].gone)
    BY <1>7 DEF RecordResolved, bounds
  <2>3. job[s].fresh = {}
    BY <2>2 DEF FreshInv
  <2>4. crashes = 0 => \A e \in feed' \ feed : Announced(e[2])
    BY <2>2 DEF Announce, AnnouncedInv
  <2>5. \A k : Announced(k) => Announced(k)'
    <3>1. \A t \in Slots : job'[t] = IF t = s THEN j ELSE job[t]
      BY <2>1 DEF GoOn, TypeInv, TypeOK
    <3>2. \A t \in Slots : \A k \in job[t].fresh : k \in job'[t].fresh
      BY <2>3, <3>1
    <3> QED
      BY <2>2, <3>2, StillAnnounced
  <2>6. AnnouncedInv'
    BY <2>1, <2>2, <2>3, <2>4, <2>5, SlotAnnounces DEF AnnouncedInv
  <2> QED
    BY <2>1, <2>6, FreshKept
<1>8. ASSUME NEW s \in Slots, SaveEdited(s)
      PROVE  AnnouncedInv' /\ FreshInv'
  <2>1. PICK picked : \/ SaveNotifications(EditedList(job[s].kind, job[s].list, picked))
                      \/ notes' = notes
    BY <1>8 DEF SaveEdited, EditedList
  <2>2. job[s].kind \in Edits /\ job[s].list \in SUBSET Notification
    BY <1>8, JobAt DEF SaveEdited, Job
  <2>3. crashes = 0 => \A n \in notes' : Announced(n.id)
    <3> SUFFICES ASSUME crashes = 0, NEW n \in notes'
                 PROVE  Announced(n.id)
      OBVIOUS
    <3>1. CASE n \in notes
      BY <3>1 DEF AnnouncedInv
    <3>2. CASE n \in EditedList(job[s].kind, job[s].list, picked)
      <4>1. \E m \in job[s].list : m.id = n.id
        BY <2>2, <3>2, EditedIds
      <4> QED
        BY <4>1 DEF AnnouncedInv
    <3> QED
      BY <2>1, <3>1, <3>2, SaveIsSubset
  <2> QED
    BY <1>8, <2>3, QuietEnd DEF SaveEdited, bounds
<1>9. ASSUME GameMoves \/ UNCHANGED vars
      PROVE  AnnouncedInv' /\ FreshInv'
  BY <1>9 DEF GameMoves, local, vars, AnnouncedInv, FreshInv, Announced
<1>10. ASSUME Crash
       PROVE  AnnouncedInv' /\ FreshInv'
  <2>1. crashes' # 0
    BY <1>10 DEF Crash, TypeInv, TypeOK
  <2>2. FreshInv'
    BY <1>10 DEF Crash, NoJob, FreshInv
  <2> QED
    BY <2>1, <2>2 DEF AnnouncedInv
<1> QED
  BY <1>1, <1>2, <1>3, <1>4, <1>5, <1>6, <1>7, <1>8, <1>9, <1>10 DEF Next, Serve

\* Until the BFF restarts, no warning is stored and no resolution is reported
\* that the feed does not announce, or is not about to: whatever overlapping
\* requests overwrite.
THEOREM EveryWarningAnnounced == Spec => []WarningsAnnounced
<1>1. Init => AnnouncedInv /\ FreshInv
  BY DEF Init, AnnouncedInv, FreshInv, NoJob
<1>2. TypeInv /\ AnnouncedInv /\ FreshInv /\ [Next]_vars => AnnouncedInv' /\ FreshInv'
  BY AnnouncedStep
<1>3. AnnouncedInv => WarningsAnnounced
  BY DEF AnnouncedInv, WarningsAnnounced
<1> QED
  BY <1>1, <1>2, <1>3, TypeInvariant, PTL DEF Spec
=============================================================================
