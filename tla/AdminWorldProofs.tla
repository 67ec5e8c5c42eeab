-------------------------- MODULE AdminWorldProofs --------------------------
(***************************************************************************)
(* Theorems about the administrator's side of the BFF for any number of    *)
(* list requests, writes, jobs, changes, sockets, subscriptions and        *)
(* overrides: one job of a registry runs at a time, no socket is left      *)
(* without the end of the job it follows, a list that was asked for after  *)
(* a write shows it, and an override outlives the refresh job.             *)
(***************************************************************************)
EXTENDS AdminWorld, TLAPS

-----------------------------------------------------------------------------
(* A socket. *)

\* What sending a job does to a socket.
LEMMA SentSocket ==
  ASSUME NEW k \in Socket, NEW j \in 0..MaxJobs, NEW rev \in 0..MaxRevision
  PROVE  /\ Sent(k, j, rev) \in Socket
         /\ Sent(k, j, rev).open = k.open
         /\ Sent(k, j, rev).follows = k.follows
         /\ Sent(k, j, rev).pending = k.pending
         /\ Sent(k, j, rev).timer = k.timer
         /\ Sent(k, j, rev).recent = TRUE
         /\ Sent(k, j, rev).seen = <<j, rev>>
<1>1. [k EXCEPT !.seen = <<j, rev>>] \in Socket
  BY DEF Socket
<1> QED
  BY <1>1 DEF Sent, Socket

\* What clearing its timer does.
LEMMA ClearedSocket ==
  ASSUME NEW k \in Socket
  PROVE  /\ Cleared(k) \in Socket
         /\ Cleared(k).open = k.open
         /\ Cleared(k).follows = k.follows
         /\ Cleared(k).pending = Zero
         /\ Cleared(k).timer = FALSE
         /\ Cleared(k).recent = k.recent
         /\ Cleared(k).seen = k.seen
<1>1. Zero \in 0..MaxJobs
  BY JobsAssumption DEF Zero
<1>2. [k EXCEPT !.pending = Zero] \in Socket
  BY <1>1 DEF Socket
<1> QED
  BY <1>1, <1>2 DEF Cleared, Socket

\* What queueing a job does: it waits for the timer, or it is sent.
LEMMA QueuedSocket ==
  ASSUME NEW k \in Socket, NEW j \in 1..MaxJobs, NEW rev \in 0..MaxRevision,
         k.timer = (k.pending # Zero)
  PROVE  /\ Queued(k, j, rev) \in Socket
         /\ Queued(k, j, rev).open = k.open
         /\ Queued(k, j, rev).follows = k.follows
         /\ Queued(k, j, rev).recent = TRUE
         /\ Queued(k, j, rev).timer = (Queued(k, j, rev).pending # Zero)
         /\ Queued(k, j, rev).pending \in {Zero, j}
         /\ \/ Queued(k, j, rev).pending = j
            \/ Queued(k, j, rev).seen = <<j, rev>>
<1>1. CASE k.recent
  <2>1. Queued(k, j, rev) = [k EXCEPT !.pending = j, !.timer = TRUE]
    BY <1>1 DEF Queued
  <2>2. j \in 0..MaxJobs /\ j # Zero
    BY DEF Zero
  <2>3. [k EXCEPT !.pending = j] \in Socket
    BY <2>2 DEF Socket
  <2>4. /\ Queued(k, j, rev) \in Socket
        /\ Queued(k, j, rev).open = k.open
        /\ Queued(k, j, rev).follows = k.follows
        /\ Queued(k, j, rev).recent = k.recent
        /\ Queued(k, j, rev).timer = TRUE
        /\ Queued(k, j, rev).pending = j
    BY <2>1, <2>2, <2>3 DEF Socket
  <2> QED
    BY <1>1, <2>2, <2>4 DEF Socket
<1>2. CASE ~k.recent
  <2>1. PICK c \in Socket : c = Cleared(k)
    BY ClearedSocket
  <2>2. Queued(k, j, rev) = Sent(c, j, rev)
    BY <1>2, <2>1 DEF Queued
  <2>3. j \in 0..MaxJobs
    BY JobsAssumption
  <2>4. /\ Sent(c, j, rev) \in Socket
        /\ Sent(c, j, rev).open = c.open
        /\ Sent(c, j, rev).follows = c.follows
        /\ Sent(c, j, rev).recent = TRUE
        /\ Sent(c, j, rev).timer = c.timer
        /\ Sent(c, j, rev).pending = c.pending
        /\ Sent(c, j, rev).seen = <<j, rev>>
    BY <2>3, SentSocket
  <2>5. c.open = k.open /\ c.follows = k.follows /\ c.pending = Zero /\ c.timer = FALSE
    BY <2>1, ClearedSocket
  <2> QED
    BY <2>2, <2>4, <2>5
<1> QED
  BY <1>1, <1>2

\* A socket that was just sent the job it has selected.
LEMMA SelectedSocket ==
  ASSUME jobs \in Seq(Job), Len(jobs) <= MaxJobs,
         NEW k \in Socket, k.follows \in 0..Len(jobs)
  PROVE  /\ SelectedSent(k) \in Socket
         /\ SelectedSent(k).open = k.open
         /\ SelectedSent(k).follows = k.follows
         /\ SelectedSent(k).pending = Zero
         /\ SelectedSent(k).timer = FALSE
         /\ LET j == Selected(k.follows) IN
            j # Zero => SelectedSent(k).seen = <<j, jobs[j].rev>>
<1> DEFINE j == Selected(k.follows)
<1>1. j \in 0..Len(jobs) /\ Len(jobs) \in Nat
  BY DEF Selected, Zero
<1>. HIDE DEF j
<1>2. CASE j = Zero
  <2>1. SelectedSent(k) = Cleared(k)
    BY <1>2 DEF SelectedSent, j
  <2> QED
    BY <1>2, <2>1, ClearedSocket DEF j
<1>3. CASE j # Zero
  <2>1. jobs[j] \in Job
    BY <1>1, <1>3 DEF Zero
  <2>2. jobs[j].rev \in 0..MaxRevision /\ j \in 0..MaxJobs
    BY <1>1, <2>1, JobsAssumption DEF Job
  <2>3. PICK c \in Socket : c = Cleared(k)
    BY ClearedSocket
  <2>4. SelectedSent(k) = Sent(c, j, jobs[j].rev)
    BY <1>3, <2>3 DEF SelectedSent, j
  <2>5. /\ Sent(c, j, jobs[j].rev) \in Socket
        /\ Sent(c, j, jobs[j].rev).open = c.open
        /\ Sent(c, j, jobs[j].rev).follows = c.follows
        /\ Sent(c, j, jobs[j].rev).pending = c.pending
        /\ Sent(c, j, jobs[j].rev).timer = c.timer
        /\ Sent(c, j, jobs[j].rev).seen = <<j, jobs[j].rev>>
    BY <2>2, SentSocket
  <2>6. c.open = k.open /\ c.follows = k.follows /\ c.pending = Zero /\ c.timer = FALSE
    BY <2>3, ClearedSocket
  <2> QED
    BY <2>4, <2>5, <2>6 DEF j
<1> QED
  BY <1>2, <1>3

-----------------------------------------------------------------------------
(* One socket and the registry js.  The job it has selected is sel.        *)

Sel(follows, js) == IF follows = Zero THEN Len(js) ELSE follows

\* The socket's type, and what PendingSelected and NoStaleSocket say of it.
Good(k, js) ==
    /\ k \in Socket
    /\ k.follows \in 0..Len(js)
    /\ k.pending \in 0..Len(js)
    /\ k.timer = (k.pending # Zero)
    /\ k.pending # Zero => k.open /\ k.pending = Sel(k.follows, js)
    /\ LET sel == Sel(k.follows, js) IN
       k.open /\ sel # Zero /\ js[sel].status \in Ended =>
           k.seen = <<sel, js[sel].rev>> \/ k.pending = sel

\* The registry's type.
Registry(js) == js \in Seq(Job) /\ Len(js) <= MaxJobs

\* Bounds of what a registry holds.
LEMMA RegistryBounds ==
  ASSUME NEW js, Registry(js), NEW j \in 1..Len(js)
  PROVE  /\ js[j] \in Job /\ js[j].rev \in 0..MaxRevision
         /\ j \in 1..MaxJobs /\ j \in 0..MaxJobs /\ Len(js) \in Nat
<1>1. js[j] \in Job /\ Len(js) \in Nat
  BY DEF Registry
<1> QED
  BY <1>1, JobsAssumption DEF Registry, Job

\* A closed socket is good, whatever the registry.
LEMMA ClosedGood ==
  ASSUME NEW js, Registry(js)
  PROVE  Good(Closed, js)
<1>1. Zero \in 0..MaxJobs /\ 0 \in 0..MaxRevision /\ Zero \in 0..Len(js)
  BY JobsAssumption DEF Registry, Zero
<1>2. /\ Closed \in Socket
      /\ Closed.open = FALSE /\ Closed.timer = FALSE
      /\ Closed.follows = Zero /\ Closed.pending = Zero
  BY <1>1 DEF Closed, Socket
<1> QED
  BY <1>1, <1>2 DEF Good

\* A socket that was sent the selected job is good.
LEMMA SelectedGood ==
  ASSUME Registry(jobs), NEW k \in Socket, k.follows \in 0..Len(jobs)
  PROVE  Good(SelectedSent(k), jobs)
<1>1. /\ SelectedSent(k) \in Socket
      /\ SelectedSent(k).follows = k.follows
      /\ SelectedSent(k).pending = Zero
      /\ SelectedSent(k).timer = FALSE
      /\ LET j == Selected(k.follows) IN
         j # Zero => SelectedSent(k).seen = <<j, jobs[j].rev>>
  BY SelectedSocket DEF Registry
<1>2. Selected(k.follows) = Sel(k.follows, jobs) /\ Len(jobs) \in Nat
  BY DEF Selected, Sel, Registry
<1>3. Zero \in 0..Len(jobs)
  BY <1>2 DEF Zero
<1>4. PICK d \in Socket : d = SelectedSent(k)
  BY <1>1
<1>5. Good(d, jobs)
  BY <1>1, <1>2, <1>3, <1>4 DEF Good
<1> QED
  BY <1>4, <1>5

\* When job n, the last one, has changed, a socket that is told is good, and
\* so is one that does not follow it or follows a job that still runs.
LEMMA ChangedGood ==
  ASSUME NEW js, NEW ks, Registry(js), Registry(ks), Len(ks) = Len(js), Len(js) # 0,
         \A i \in 1..Len(js) : i # Len(js) => ks[i] = js[i],
         NEW k, Good(k, js)
  PROVE  /\ Follows(k, Len(js)) => Good(Queued(k, Len(js), ks[Len(js)].rev), ks)
         /\ ~Follows(k, Len(js)) \/ ks[Len(js)].status \notin Ended => Good(k, ks)
<1> DEFINE n == Len(js)
           rev == ks[n].rev
<1>1. n \in Nat /\ n \in 1..Len(ks) /\ n # Zero
  BY DEF Registry, Zero
<1>2. n \in 1..MaxJobs /\ rev \in 0..MaxRevision
  BY <1>1, RegistryBounds
<1>3. k \in Socket /\ k.timer = (k.pending # Zero) /\ k.follows \in 0..n
  BY DEF Good
<1>4. ASSUME Follows(k, n)
      PROVE  Good(Queued(k, n, rev), ks)
  <2>1. k.open /\ Sel(k.follows, ks) = n
    BY <1>4 DEF Follows, Sel
  <2>2. /\ Queued(k, n, rev) \in Socket
        /\ Queued(k, n, rev).open = k.open
        /\ Queued(k, n, rev).follows = k.follows
        /\ Queued(k, n, rev).timer = (Queued(k, n, rev).pending # Zero)
        /\ Queued(k, n, rev).pending \in {Zero, n}
        /\ \/ Queued(k, n, rev).pending = n
           \/ Queued(k, n, rev).seen = <<n, rev>>
    BY <1>2, <1>3, QueuedSocket
  <2>3. Zero \in 0..n /\ n \in 0..n
    BY <1>1 DEF Zero
  <2> HIDE DEF n
  <2> QED
    BY <1>3, <2>1, <2>2, <2>3 DEF Good, n, rev
<1>5. ASSUME ~Follows(k, n) \/ ks[n].status \notin Ended
      PROVE  Good(k, ks)
  <2>1. Sel(k.follows, ks) = Sel(k.follows, js)
    BY DEF Sel
  <2>2. CASE Sel(k.follows, js) = n
    <3>1. k.open => Follows(k, n)
      BY <1>3, <2>2 DEF Follows, Sel
    <3> QED
      BY <1>5, <2>1, <2>2, <3>1 DEF Good
  <2>3. CASE Sel(k.follows, js) # n
    <3>1. Sel(k.follows, js) \in 1..n /\ ks[Sel(k.follows, js)] = js[Sel(k.follows, js)]
      BY <1>1, <1>3, <2>3 DEF Sel, Zero
    <3> QED
      BY <2>1, <3>1 DEF Good
  <2> QED
    BY <2>2, <2>3
<1> QED
  BY <1>4, <1>5

\* When a job is started, a socket that is told of it twice is good, and so is
\* one that follows an older job, or none.
LEMMA StartedGood ==
  ASSUME NEW js, NEW job \in Job, Registry(js), Registry(Append(js, job)),
         job.status \notin Ended, NEW k, Good(k, js)
  PROVE  LET n == Len(js) + 1 IN
         /\ Follows(k, n) => Good(Queued(Queued(k, n, 1), n, 2), Append(js, job))
         /\ ~Follows(k, n) => Good(k, Append(js, job))
<1> DEFINE n == Len(js) + 1
           ks == Append(js, job)
<1>1. /\ Len(js) \in Nat /\ n \in Nat /\ n # Zero /\ Len(ks) = n /\ ks[n] = job
      /\ \A i \in 1..Len(js) : ks[i] = js[i]
  BY DEF Registry, Zero
<1>2. n \in 1..MaxJobs /\ 1 \in 0..MaxRevision /\ 2 \in 0..MaxRevision
  BY <1>1, JobsAssumption DEF Registry
<1>3. k \in Socket /\ k.timer = (k.pending # Zero) /\ k.follows \in 0..Len(js)
  BY DEF Good
<1>4. ASSUME Follows(k, n)
      PROVE  Good(Queued(Queued(k, n, 1), n, 2), ks)
  <2>1. k.open /\ k.follows = Zero
    BY <1>1, <1>3, <1>4 DEF Follows
  <2>2. PICK q \in Socket : /\ q = Queued(k, n, 1)
                           /\ q.open = k.open /\ q.follows = k.follows
                           /\ q.timer = (q.pending # Zero)
    <3> HIDE DEF n
    <3> QED
      BY <1>2, <1>3, QueuedSocket
  <2>3. q.open = k.open /\ q.follows = k.follows /\ q.timer = (q.pending # Zero)
    BY <2>2
  <2>4. /\ Queued(q, n, 2) \in Socket
        /\ Queued(q, n, 2).open = q.open
        /\ Queued(q, n, 2).follows = q.follows
        /\ Queued(q, n, 2).timer = (Queued(q, n, 2).pending # Zero)
        /\ Queued(q, n, 2).pending \in {Zero, n}
    BY <1>2, <2>3, QueuedSocket
  <2>5. Zero \in 0..n /\ n \in 0..n /\ Sel(Zero, ks) = n
    BY <1>1 DEF Sel, Zero
  <2> HIDE DEF n, ks
  <2>6. Good(Queued(q, n, 2), ks)
    BY <1>1, <2>1, <2>3, <2>4, <2>5 DEF Good
  <2> QED
    BY <2>2, <2>6
<1>5. ASSUME ~Follows(k, n)
      PROVE  Good(k, ks)
  <2>1. CASE k.open
    <3>1. k.follows # Zero /\ k.follows \in 1..Len(js)
      BY <1>1, <1>3, <1>5, <2>1 DEF Follows, Zero
    <3>2. Sel(k.follows, ks) = k.follows /\ Sel(k.follows, js) = k.follows
          /\ ks[k.follows] = js[k.follows]
      BY <1>1, <3>1 DEF Sel
    <3>3. 0..Len(js) \subseteq 0..n
      BY <1>1
    <3> HIDE DEF n, ks
    <3> QED
      BY <1>1, <3>2, <3>3 DEF Good
  <2>2. CASE ~k.open
    <3>1. 0..Len(js) \subseteq 0..n
      BY <1>1
    <3> HIDE DEF n, ks
    <3> QED
      BY <1>1, <2>2, <3>1 DEF Good
  <2> QED
    BY <2>1, <2>2
<1> QED
  BY <1>4, <1>5

\* The timer sends what waited for it, or the half second is over.
LEMMA FlushedGood ==
  ASSUME Registry(jobs), NEW k, Good(k, jobs)
  PROVE  Good(Flushed(k), jobs)
<1>1. k \in Socket /\ k.timer = (k.pending # Zero) /\ k.pending \in 0..Len(jobs)
  BY DEF Good
<1>2. PICK c \in Socket : c = Cleared(k)
  BY <1>1, ClearedSocket
<1>3. /\ c.open = k.open /\ c.follows = k.follows /\ c.pending = Zero
      /\ c.timer = FALSE /\ c.seen = k.seen
  BY <1>1, <1>2, ClearedSocket
<1>4. Zero \in 0..Len(jobs)
  BY DEF Zero, Registry
<1>5. CASE k.timer
  <2>0. k.pending # Zero
    BY <1>1, <1>5, Zenon
  <2> DEFINE n == Len(jobs)
             p == k.pending
  <2>a. n \in Nat
    BY DEF Registry
  <2>b. p \in 0..n /\ p # 0
    BY <1>1, <2>0 DEF Zero
  <2> HIDE DEF n, p
  <2>c. p \in 1..n
    BY <2>a, <2>b
  <2>1. k.pending # Zero /\ k.pending \in 1..Len(jobs)
    BY <2>0, <2>c DEF n, p
  <2>2. k.open /\ k.pending = Sel(k.follows, jobs)
    BY <2>1 DEF Good
  <2>3. Follows(k, k.pending)
    BY <2>2 DEF Follows, Sel
  <2>4. jobs[k.pending].rev \in 0..MaxRevision /\ k.pending \in 0..MaxJobs
    BY <2>1, RegistryBounds
  <2>5. PICK d \in Socket : d = Sent(c, k.pending, jobs[k.pending].rev)
    BY <2>4, SentSocket
  <2>6. /\ d.open = c.open /\ d.follows = c.follows /\ d.pending = c.pending
        /\ d.timer = c.timer /\ d.seen = <<k.pending, jobs[k.pending].rev>>
    BY <2>4, <2>5, SentSocket
  <2>7. Good(d, jobs)
    BY <1>1, <1>3, <1>4, <2>2, <2>6 DEF Good
  <2> QED
    BY <1>2, <1>5, <2>3, <2>5, <2>7 DEF Flushed
<1>6. CASE ~k.timer
  <2>1. PICK d \in Socket : d = [c EXCEPT !.recent = FALSE]
    BY DEF Socket
  <2>2. /\ d.open = c.open /\ d.follows = c.follows /\ d.pending = c.pending
        /\ d.timer = c.timer /\ d.seen = c.seen
    BY <2>1 DEF Socket
  <2>3. k.pending = Zero
    BY <1>1, <1>6
  <2>4. Good(d, jobs)
    BY <1>1, <1>3, <1>4, <2>2, <2>3 DEF Good
  <2> QED
    BY <1>2, <1>6, <2>1, <2>4 DEF Flushed
<1> QED
  BY <1>5, <1>6

-----------------------------------------------------------------------------
(* The invariant and the steps. *)

\* A running job has a change left for its end.
RevisionLeft == \A j \in DOMAIN jobs : jobs[j].status = "running" => jobs[j].rev < MaxRevision

JobsInv ==
    /\ Registry(jobs)
    /\ calibrations \in Seq(Ended \cup {"running"})
    /\ visits \in Nat
    /\ OneActiveJob
    /\ RevisionLeft
    /\ sockets \in [Sockets -> Socket]
    /\ \A s \in Sockets : Good(sockets[s], jobs)

\* It says what the runs check.
LEMMA JobsInvIs ==
  ASSUME JobsInv
  PROVE  JobsTypeOK /\ OneActiveJob /\ NoStaleSocket /\ PendingSelected
<1> USE DEF JobsInv
<1>1. \A follows : Selected(follows) = Sel(follows, jobs)
  BY DEF Selected, Sel
<1>2. NoStaleSocket /\ PendingSelected
  BY <1>1 DEF NoStaleSocket, PendingSelected, SeenEnd, Good
<1>3. JobsTypeOK
  BY DEF JobsTypeOK, Registry, Good
<1> QED
  BY <1>2, <1>3

\* When a job runs, it is the last one.
LEMMA LastRuns ==
  ASSUME Registry(jobs), OneActiveJob, ~NoActiveJob
  PROVE  /\ Len(jobs) \in 1..Len(jobs) /\ jobs[Len(jobs)].status = "running"
         /\ \A i \in DOMAIN jobs : i # Len(jobs) => jobs[i].status # "running"
<1>1. PICK j \in DOMAIN jobs : jobs[j].status \notin Ended
  BY DEF NoActiveJob
<1>2. DOMAIN jobs = 1..Len(jobs) /\ Len(jobs) \in Nat /\ jobs[j] \in Job
  BY <1>1 DEF Registry
<1>3. jobs[j].status = "running"
  BY <1>1, <1>2 DEF Job
<1> QED
  BY <1>1, <1>2, <1>3 DEF OneActiveJob

\* Starting a job keeps the invariant.
LEMMA StartJobStep ==
  ASSUME JobsInv, NEW kind \in JobKinds, StartJob(kind)
  PROVE  JobsInv'
<1> USE DEF JobsInv
<1> DEFINE job == [kind |-> kind, status |-> "running", rev |-> 2]
           n == Len(jobs) + 1
<1>1. /\ jobs' = Append(jobs, job) /\ Len(jobs) < MaxJobs /\ NoActiveJob
      /\ UNCHANGED <<calibrations, visits>>
      /\ sockets' =
             [s \in Sockets |->
                 IF Follows(sockets[s], n)
                 THEN Queued(Queued(sockets[s], n, 1), n, 2)
                 ELSE sockets[s]]
  BY DEF StartJob
<1>2. job \in Job /\ job.status = "running" /\ job.rev = 2 /\ 2 < MaxRevision
  BY JobsAssumption DEF Job, Ended
<1>3. /\ Len(jobs) \in Nat /\ DOMAIN jobs = 1..Len(jobs)
      /\ jobs' \in Seq(Job) /\ Len(jobs') = n /\ DOMAIN jobs' = 1..n
      /\ jobs'[n] = job /\ \A i \in 1..Len(jobs) : jobs'[i] = jobs[i]
  <2>1. jobs \in Seq(Job)
    BY DEF Registry
  <2> HIDE DEF job
  <2> QED
    BY <1>1, <1>2, <2>1
<1>4. Registry(jobs')
  BY <1>1, <1>3, JobsAssumption DEF Registry
<1>5. OneActiveJob'
  <2>1. \A i \in 1..Len(jobs) : jobs[i].status # "running"
    BY <1>1, <1>3 DEF NoActiveJob, Ended
  <2> QED
    BY <1>1, <1>3, <2>1 DEF OneActiveJob
<1>6. RevisionLeft'
  BY <1>2, <1>3 DEF RevisionLeft
<1>7. ASSUME NEW s \in Sockets
      PROVE  Good(sockets'[s], jobs')
  <2>1. job.status \notin Ended
    BY <1>2 DEF Ended
  <2> HIDE DEF job
  <2>2. /\ Follows(sockets[s], n) => Good(Queued(Queued(sockets[s], n, 1), n, 2), jobs')
        /\ ~Follows(sockets[s], n) => Good(sockets[s], jobs')
    BY <1>1, <1>2, <1>4, <2>1, StartedGood
  <2> QED
    BY <1>1, <2>2
<1>8. sockets' \in [Sockets -> Socket]
  BY <1>1, <1>7 DEF Good
<1> QED
  BY <1>1, <1>4, <1>5, <1>6, <1>7, <1>8 DEF Registry

\* So does a change of the job that runs.
LEMMA ChangeStep ==
  ASSUME JobsInv, ~NoActiveJob, NEW job \in Job,
         jobs' = [jobs EXCEPT ![Len(jobs)] = job],
         job.status = "running" => job.rev < MaxRevision,
         \/ sockets' = Published(Len(jobs), job.rev)
         \/ sockets' = sockets /\ job.status = "running",
         UNCHANGED <<calibrations, visits>>
  PROVE  JobsInv'
<1> USE DEF JobsInv
<1> DEFINE n == Len(jobs)
<1>1. /\ n \in 1..n /\ n # 0 /\ DOMAIN jobs = 1..n
      /\ \A i \in DOMAIN jobs : i # n => jobs[i].status # "running"
  BY LastRuns DEF Registry
<1>2. /\ jobs' \in Seq(Job) /\ Len(jobs') = n /\ DOMAIN jobs' = 1..n
      /\ jobs'[n] = job /\ \A i \in 1..n : i # n => jobs'[i] = jobs[i]
  <2>1. jobs \in Seq(Job)
    BY DEF Registry
  <2> QED
    BY <1>1, <2>1
<1>3. Registry(jobs')
  BY <1>2 DEF Registry
<1>4. OneActiveJob' /\ RevisionLeft'
  BY <1>1, <1>2 DEF OneActiveJob, RevisionLeft
<1>5. ASSUME NEW s \in Sockets
      PROVE  Good(sockets'[s], jobs')
  <2>1. /\ Follows(sockets[s], n) => Good(Queued(sockets[s], n, job.rev), jobs')
        /\ ~Follows(sockets[s], n) \/ job.status \notin Ended => Good(sockets[s], jobs')
    BY <1>1, <1>2, <1>3, ChangedGood
  <2>2. CASE sockets' = Published(n, job.rev)
    BY <2>1, <2>2 DEF Published
  <2>3. CASE sockets' = sockets /\ job.status = "running"
    BY <2>1, <2>3 DEF Ended
  <2> QED
    BY <2>2, <2>3
<1>6. sockets' \in [Sockets -> Socket]
  BY <1>5 DEF Published, Good
<1> QED
  BY <1>3, <1>4, <1>5, <1>6 DEF Registry

\* Its progress,
LEMMA ReportProgressStep ==
  ASSUME JobsInv, ReportProgress
  PROVE  JobsInv'
<1> USE DEF JobsInv
<1> DEFINE n == Len(jobs)
           job == [jobs[n] EXCEPT !.rev = @ + 1]
<1>1. n \in 1..n /\ jobs[n].status = "running" /\ ~NoActiveJob
  BY LastRuns DEF ReportProgress
<1>2. jobs[n] \in Job /\ jobs[n].rev \in 1..MaxRevision
  BY <1>1, RegistryBounds DEF Job
<1>3. jobs[n].rev + 1 \in 1..MaxRevision /\ jobs[n].rev + 1 < MaxRevision
  BY <1>2, JobsAssumption DEF ReportProgress
<1>4. job \in Job /\ job.rev = jobs[n].rev + 1 /\ job.status = "running"
  BY <1>1, <1>2, <1>3 DEF Job
<1>5. jobs' = [jobs EXCEPT ![n] = job]
  BY DEF ReportProgress
<1>6. /\ sockets' \in {sockets, Published(n, jobs[n].rev + 1)}
      /\ UNCHANGED <<calibrations, visits>>
  BY DEF ReportProgress
<1> HIDE DEF job
<1> QED
  BY <1>1, <1>3, <1>4, <1>5, <1>6, ChangeStep

\* and its end.
LEMMA EndJobStep ==
  ASSUME JobsInv, NEW status \in Ended, EndJob(status)
  PROVE  JobsInv'
<1> USE DEF JobsInv
<1> DEFINE n == Len(jobs)
           job == [jobs[n] EXCEPT !.rev = @ + 1, !.status = status]
<1>1. n \in 1..n /\ n \in DOMAIN jobs /\ jobs[n].status = "running" /\ ~NoActiveJob
  BY LastRuns DEF EndJob, Registry
<1>2. jobs[n] \in Job /\ jobs[n].rev \in 1..MaxRevision /\ jobs[n].rev < MaxRevision
  BY <1>1, RegistryBounds DEF Job, RevisionLeft
<1>3. jobs[n].rev + 1 \in 1..MaxRevision
  BY <1>2, JobsAssumption
<1>4. [jobs[n] EXCEPT !.rev = @ + 1] \in Job
  BY <1>2, <1>3 DEF Job
<1>5. job \in Job /\ job.rev = jobs[n].rev + 1 /\ job.status = status
  BY <1>2, <1>4 DEF Job
<1>6. jobs' = [jobs EXCEPT ![n] = job]
  BY <1>1 DEF EndJob, Registry
<1>7. sockets' = Published(n, jobs[n].rev + 1) /\ UNCHANGED <<calibrations, visits>>
  BY DEF EndJob
<1>8. status # "running"
  BY DEF Ended
<1> HIDE DEF job
<1> QED
  BY <1>1, <1>5, <1>6, <1>7, <1>8, ChangeStep

\* A calibration is started and ends like a job; nothing else is about it.
LEMMA CalibrationStep ==
  ASSUME JobsInv, StartCalibration \/ EndCalibration
  PROVE  JobsInv'
<1> USE DEF JobsInv
<1>1. UNCHANGED <<jobs, sockets, visits>>
  BY DEF StartCalibration, EndCalibration
<1>2. CASE StartCalibration
  <2>1. /\ calibrations' = Append(calibrations, "running")
        /\ \A c \in DOMAIN calibrations : calibrations[c] # "running"
    BY <1>2 DEF StartCalibration, Ended
  <2> QED
    BY <1>1, <2>1 DEF OneActiveJob, RevisionLeft
<1>3. CASE EndCalibration
  <2>1. PICK c \in DOMAIN calibrations, status \in Ended :
            calibrations' = [calibrations EXCEPT ![c] = status]
    BY <1>3 DEF EndCalibration
  <2>2. status # "running"
    BY DEF Ended
  <2> QED
    BY <1>1, <2>1, <2>2 DEF OneActiveJob, RevisionLeft
<1> QED
  BY <1>2, <1>3

\* A visit, a close and a timer change one socket.
LEMMA SocketStep ==
  ASSUME JobsInv, NEW s \in Sockets, NEW k, Good(k, jobs),
         sockets' = [sockets EXCEPT ![s] = k],
         jobs' = jobs, calibrations' = calibrations, visits' \in Nat
  PROVE  JobsInv'
<1> USE DEF JobsInv
<1>1. k \in Socket
  BY DEF Good
<1>2. ASSUME NEW t \in Sockets
      PROVE  Good(sockets'[t], jobs')
  BY DEF Good
<1>3. OneActiveJob' /\ RevisionLeft'
  BY DEF OneActiveJob, RevisionLeft
<1>4. Registry(jobs') /\ sockets' \in [Sockets -> Socket]
  BY <1>1 DEF Registry
<1> QED
  BY <1>2, <1>3, <1>4 DEF Registry

\* What the sockets do keeps the invariant.
LEMMA SocketsStep ==
  ASSUME JobsInv, SocketNext
  PROVE  JobsInv'
<1> USE DEF JobsInv
<1>1. PICK s \in Sockets :
          \/ \E follows \in 0..Len(jobs) : OpenSocket(s, follows) \/ Subscribe(s, follows)
          \/ CloseSocket(s)
          \/ HalfSecond(s)
  BY DEF SocketNext
<1>2. sockets[s] \in Socket /\ Good(sockets[s], jobs) /\ Len(jobs) \in Nat
      /\ Len(jobs) <= MaxJobs
  BY DEF Registry
<1>3. CASE \E follows \in 0..Len(jobs) : OpenSocket(s, follows) \/ Subscribe(s, follows)
  <2>1. PICK follows \in 0..Len(jobs) : OpenSocket(s, follows) \/ Subscribe(s, follows)
    BY <1>3
  <2>2. follows \in 0..MaxJobs
    BY <1>2, JobsAssumption
  <2>3. UNCHANGED <<jobs, calibrations>> /\ visits' \in Nat
    BY <2>1 DEF OpenSocket, Subscribe, Visit
  <2>4. CASE OpenSocket(s, follows)
    <3>1. Closed \in Socket
      BY ClosedGood DEF Good
    <3>2. [Closed EXCEPT !.open = TRUE] \in Socket
      BY <3>1 DEF Socket
    <3> DEFINE fresh == [Closed EXCEPT !.open = TRUE, !.follows = follows]
    <3>3. fresh \in Socket /\ fresh.follows = follows
      BY <2>2, <3>1, <3>2 DEF Socket
    <3>4. PICK k \in Socket :
              k = [Closed EXCEPT !.open = TRUE, !.follows = follows] /\ k.follows = follows
      BY <3>3
    <3>5. Good(SelectedSent(k), jobs)
      BY <3>4, SelectedGood
    <3>6. sockets' = [sockets EXCEPT ![s] = SelectedSent(k)]
      BY <2>4, <3>4 DEF OpenSocket
    <3> QED
      BY <2>3, <3>5, <3>6, SocketStep
  <2>5. CASE Subscribe(s, follows)
    <3> DEFINE changed == [sockets[s] EXCEPT !.follows = follows]
    <3>1. changed \in Socket /\ changed.follows = follows
      BY <1>2, <2>2 DEF Socket
    <3>2. PICK k \in Socket :
              k = [sockets[s] EXCEPT !.follows = follows] /\ k.follows = follows
      BY <3>1
    <3>3. Good(SelectedSent(k), jobs)
      BY <3>2, SelectedGood
    <3>4. sockets' = [sockets EXCEPT ![s] = SelectedSent(k)]
      BY <2>5, <3>2 DEF Subscribe
    <3> QED
      BY <2>3, <3>3, <3>4, SocketStep
  <2> QED
    BY <2>1, <2>4, <2>5
<1>4. CASE CloseSocket(s)
  BY <1>4, ClosedGood, SocketStep DEF CloseSocket
<1>5. CASE HalfSecond(s)
  <2>1. Good(Flushed(sockets[s]), jobs)
    BY <1>2, FlushedGood
  <2>2. sockets' = [sockets EXCEPT ![s] = Flushed(sockets[s])]
    BY <1>5 DEF HalfSecond
  <2>3. UNCHANGED <<jobs, calibrations, visits>>
    BY <1>5 DEF HalfSecond
  <2> QED
    BY <2>1, <2>2, <2>3, SocketStep
<1> QED
  BY <1>1, <1>3, <1>4, <1>5

\* Nothing is queued at first.
LEMMA JobsInvInit ==
  ASSUME JobsInit
  PROVE  JobsInv
<1>1. Registry(jobs)
  BY JobsAssumption DEF JobsInit, Registry
<1>2. \A s \in Sockets : sockets[s] = Closed /\ Good(sockets[s], jobs)
  BY <1>1, ClosedGood DEF JobsInit
<1>3. sockets \in [Sockets -> Socket]
  BY <1>2 DEF JobsInit, Good
<1> QED
  BY <1>1, <1>2, <1>3 DEF JobsInit, JobsInv, OneActiveJob, RevisionLeft

\* Every step keeps the invariant.
LEMMA JobsInvStep ==
  ASSUME JobsInv, [JobsNext]_jobsVars
  PROVE  JobsInv'
<1>1. CASE UNCHANGED jobsVars
  BY <1>1 DEF jobsVars, JobsInv, Registry, OneActiveJob, RevisionLeft
<1> QED
  BY <1>1, StartJobStep, ReportProgressStep, EndJobStep, CalibrationStep, SocketsStep
     DEF JobsNext

\* The invariant holds in every state.
THEOREM JobsInvariant == JobsSpec => []JobsInv
<1>1. JobsInit => JobsInv
  BY JobsInvInit
<1>2. JobsInv /\ [JobsNext]_jobsVars => JobsInv'
  BY JobsInvStep
<1> QED
  BY <1>1, <1>2, PTL DEF JobsSpec

\* The registries and the sockets keep their types.
THEOREM JobsTypeCorrect == JobsSpec => []JobsTypeOK
<1>1. JobsInv => JobsTypeOK
  BY JobsInvIs
<1> QED
  BY <1>1, JobsInvariant, PTL

\* One job of a registry runs at a time: the last, since none starts beside it.
THEOREM OneJobRuns == JobsSpec => []OneActiveJob
<1>1. JobsInv => OneActiveJob
  BY JobsInvIs
<1> QED
  BY <1>1, JobsInvariant, PTL

\* A socket has been sent the end of the job it has selected, or will be.
THEOREM NoSocketLeftBehind == JobsSpec => []NoStaleSocket
<1>1. JobsInv => NoStaleSocket
  BY JobsInvIs
<1> QED
  BY <1>1, JobsInvariant, PTL

-----------------------------------------------------------------------------
(* The parts of a step. *)

\* The cache's part: its own steps, the import's writes and the ends of jobs.
CacheStep ==
    \/ CacheNext
    \/ Changes /\ write' = write
    \/ ClearCache /\ UNCHANGED <<version, write>>

\* The images' part.
ImagesStep ==
    \/ \E option \in BOOLEAN : CopyImages(option)
    \/ SkipType
    \/ FetchImage
    \/ MissImage
    \/ FindImage
    \/ FinishImages
    \/ OverrideNext

\* A step of the whole is, of each part, one of its steps or none.
LEMMA Parts ==
  ASSUME [AdminNext]_adminVars
  PROVE  /\ [JobsNext]_jobsVars
         /\ [CacheStep]_cacheVars
         /\ [ImagesStep]_imagesVars
<1>1. CASE \E kind \in JobKinds : Start(kind)
  <2>1. PICK kind \in JobKinds : StartJob(kind) /\ UNCHANGED <<cacheVars, imagesVars>>
    BY <1>1 DEF Start
  <2> QED
    BY <2>1 DEF JobsNext
<1>2. CASE ImportWrites
  BY <1>2 DEF ImportWrites, CacheStep
<1>3. CASE EndWorldJob
  <2>1. PICK status \in Ended :
          /\ EndJob(status)
          /\ IF status = "succeeded" /\ ActiveJob("import")
             THEN ClearCache /\ UNCHANGED <<version, write>>
             ELSE UNCHANGED cacheVars
    BY <1>3 DEF EndWorldJob
  <2>2. [JobsNext]_jobsVars
    BY <2>1 DEF JobsNext
  <2>3. [CacheStep]_cacheVars
    BY <2>1 DEF CacheStep
  <2>4. UNCHANGED imagesVars
    BY <1>3 DEF EndWorldJob
  <2> QED
    BY <2>2, <2>3, <2>4
<1>4. CASE LoadTypes \/ RefreshType
  BY <1>4 DEF LoadTypes, RefreshType, ImagesStep
<1>5. CASE EndImagesJob
  <2>1. [JobsNext]_jobsVars
    BY <1>5 DEF EndImagesJob, JobsNext, Ended
  <2>2. [CacheStep]_cacheVars
    BY <1>5 DEF EndImagesJob, CacheStep
  <2>3. [ImagesStep]_imagesVars
    BY <1>5 DEF EndImagesJob, ImagesStep
  <2> QED
    BY <2>1, <2>2, <2>3
<1>6. CASE ImagesJobFails
  BY <1>6 DEF ImagesJobFails, JobsNext, Ended
<1>7. CASE CacheNext /\ UNCHANGED <<jobsVars, imagesVars>>
  BY <1>7 DEF CacheStep
<1>8. CASE OverrideNext /\ UNCHANGED <<jobsVars, cacheVars>>
  BY <1>8 DEF ImagesStep
<1>9. CASE UNCHANGED adminVars
  BY <1>9 DEF adminVars
<1> QED
  BY <1>1, <1>2, <1>3, <1>4, <1>5, <1>6, <1>7, <1>8, <1>9
     DEF AdminNext, JobNext, JobWork

\* The registry of the whole is the one of ImportJobs.
THEOREM AdminHasJobs == AdminSpec => JobsSpec
<1>1. AdminInit => JobsInit
  BY DEF AdminInit
<1>2. [AdminNext]_adminVars => [JobsNext]_jobsVars
  BY Parts
<1> QED
  BY <1>1, <1>2, PTL DEF AdminSpec, JobsSpec

-----------------------------------------------------------------------------
(* The cache. *)

CacheInv == CacheTypeOK /\ ReadsSeeWrites /\ AnswersSeeWrites

\* Nothing is cached at first.
LEMMA CacheInvInit ==
  ASSUME CacheInit
  PROVE  CacheInv
  BY CacheAssumption
     DEF CacheInit, CacheInv, CacheTypeOK, ReadsSeeWrites, AnswersSeeWrites, Nothing,
         NoLoad

\* A clear leaves no entry, and no answer that counts on its way.
LEMMA ClearStep ==
  ASSUME CacheInv, ClearCache, version' = version, write' \in {"none", "sent", "done"}
  PROVE  CacheInv'
<1> USE DEF CacheInv, CacheTypeOK
<1>1. entry' = Nothing /\ answered' = version
      /\ loads' = [r \in Readers |-> [loads[r] EXCEPT !.crossed = loads[r].busy]]
  BY DEF ClearCache
<1>2. version \in 0..MaxVersion /\ version \in Nat /\ version \in 0..version
  BY CacheAssumption
<1>3. entry' \in [version : -1..version', crossed : BOOLEAN]
  BY <1>1, <1>2 DEF Nothing
<1>4. loads' \in [Readers -> [busy : BOOLEAN, got : -1..version', crossed : BOOLEAN]]
  BY <1>1
<1>5. ReadsSeeWrites'
  BY <1>1 DEF ReadsSeeWrites
<1>6. ASSUME NEW r \in Readers, loads'[r].busy
      PROVE  loads'[r].crossed
  BY <1>1, <1>6
<1>7. AnswersSeeWrites'
  BY <1>6 DEF AnswersSeeWrites
<1> QED
  BY <1>1, <1>2, <1>3, <1>4, <1>5, <1>7

\* The backend's data only gets newer.
LEMMA ChangesStep ==
  ASSUME CacheInv, Changes, write' \in {"none", "sent", "done"}
  PROVE  CacheInv'
<1> USE DEF CacheInv, CacheTypeOK
<1>1. version' = version + 1 /\ version < MaxVersion /\ UNCHANGED <<entry, loads, answered>>
  BY DEF Changes
<1>2. version \in Nat /\ MaxVersion \in Nat
  BY CacheAssumption
<1>3. -1..version \subseteq -1..version' /\ 0..version \subseteq 0..version'
      /\ version' \in 0..MaxVersion
  BY <1>1, <1>2
<1>4. entry' \in [version : -1..version', crossed : BOOLEAN]
  BY <1>1, <1>3
<1>5. loads' \in [Readers -> [busy : BOOLEAN, got : -1..version', crossed : BOOLEAN]]
  BY <1>1, <1>3
<1>6. ReadsSeeWrites' /\ AnswersSeeWrites'
  BY <1>1 DEF ReadsSeeWrites, AnswersSeeWrites
<1> QED
  BY <1>1, <1>3, <1>4, <1>5, <1>6

\* A list request is sent, read, stored or given up.
LEMMA LoadStep ==
  ASSUME CacheInv, NEW r \in Readers,
         BeginLoad(r) \/ BackendReads(r) \/ StoreList(r) \/ LoadFails(r)
  PROVE  CacheInv'
<1> USE DEF CacheInv, CacheTypeOK
<1> DEFINE Load == [busy : BOOLEAN, got : -1..version, crossed : BOOLEAN]
<1>1. /\ version \in Nat /\ -1 \in -1..version /\ version \in -1..version
      /\ answered \in Int /\ answered <= version
      /\ loads[r] \in Load
  BY CacheAssumption
<1>2. UNCHANGED <<version, write, answered>>
  BY DEF BeginLoad, BackendReads, StoreList, LoadFails
<1>3. NoLoad \in Load /\ ~NoLoad.busy
  BY <1>1 DEF NoLoad
<1>4. CASE StoreList(r) \/ LoadFails(r)
  <2>1. loads' = [loads EXCEPT ![r] = NoLoad]
    BY <1>4 DEF StoreList, LoadFails
  <2>2. loads' \in [Readers -> Load] /\ AnswersSeeWrites'
    BY <1>2, <1>3, <2>1 DEF AnswersSeeWrites
  <2>3. CASE LoadFails(r)
    BY <1>2, <2>2, <2>3 DEF LoadFails, ReadsSeeWrites
  <2>4. CASE StoreList(r)
    <3>1. /\ entry' = [version |-> loads[r].got, crossed |-> loads[r].crossed]
          /\ loads[r].busy /\ loads[r].got # -1
      BY <2>4 DEF StoreList
    <3>2. ~loads[r].crossed => loads[r].got >= answered
      BY <3>1 DEF AnswersSeeWrites
    <3>3. entry' \in [version : -1..version, crossed : BOOLEAN]
      BY <1>1, <3>1
    <3>4. ReadsSeeWrites'
      BY <1>2, <3>1, <3>2 DEF ReadsSeeWrites
    <3> QED
      BY <1>2, <2>2, <3>3, <3>4
  <2> QED
    BY <1>4, <2>3, <2>4
<1>5. CASE BeginLoad(r)
  <2> DEFINE begun == [NoLoad EXCEPT !.busy = TRUE]
  <2>1. begun \in Load /\ begun.got = -1
    BY <1>1 DEF NoLoad
  <2>2. PICK load \in Load : load = begun /\ load.got = -1
    BY <2>1
  <2>3. loads' = [loads EXCEPT ![r] = load] /\ entry' = entry
    BY <1>5, <2>2 DEF BeginLoad
  <2>4. loads' \in [Readers -> Load]
    BY <2>3
  <2>5. AnswersSeeWrites'
    BY <1>2, <2>2, <2>3 DEF AnswersSeeWrites
  <2> QED
    BY <1>2, <2>3, <2>4, <2>5 DEF ReadsSeeWrites
<1>6. CASE BackendReads(r)
  <2> DEFINE read == [loads[r] EXCEPT !.got = version]
  <2>1. read \in Load /\ read.got = version
    BY <1>1
  <2>2. PICK load \in Load : load = read /\ load.got = version
    BY <2>1
  <2>3. loads' = [loads EXCEPT ![r] = load] /\ entry' = entry
    BY <1>6, <2>2 DEF BackendReads
  <2>4. loads' \in [Readers -> Load]
    BY <2>3
  <2>5. AnswersSeeWrites'
    BY <1>1, <1>2, <2>2, <2>3 DEF AnswersSeeWrites
  <2> QED
    BY <1>2, <2>3, <2>4, <2>5 DEF ReadsSeeWrites
<1> QED
  BY <1>4, <1>5, <1>6

\* Every step keeps the invariant of the cache.
LEMMA CacheInvStep ==
  ASSUME CacheInv, [CacheStep]_cacheVars
  PROVE  CacheInv'
<1>1. CASE UNCHANGED cacheVars \/ SendWrite \/ WriteFails
  BY <1>1 DEF cacheVars, SendWrite, WriteFails, CacheInv, CacheTypeOK, ReadsSeeWrites,
              AnswersSeeWrites
<1>2. CASE \E r \in Readers : BeginLoad(r) \/ BackendReads(r) \/ StoreList(r) \/ LoadFails(r)
  BY <1>2, LoadStep
<1>3. CASE BackendWrites
  BY <1>3, ChangesStep DEF BackendWrites
<1>4. CASE WriteAnswered
  BY <1>4, ClearStep DEF WriteAnswered
<1>5. CASE Changes /\ write' = write
  BY <1>5, ChangesStep DEF CacheInv, CacheTypeOK
<1>6. CASE ClearCache /\ UNCHANGED <<version, write>>
  BY <1>6, ClearStep DEF CacheInv, CacheTypeOK
<1> QED
  BY <1>1, <1>2, <1>3, <1>4, <1>5, <1>6 DEF CacheStep, CacheNext

\* The invariant of the cache holds in every state.
THEOREM CacheInvariant == AdminSpec => []CacheInv
<1>1. AdminInit => CacheInv
  BY CacheInvInit DEF AdminInit
<1>2. CacheInv /\ [AdminNext]_adminVars => CacheInv'
  BY Parts, CacheInvStep
<1> QED
  BY <1>1, <1>2, PTL DEF AdminSpec

\* Who asks for a list after a write was answered, or after a job that wrote
\* has succeeded, reads it.
THEOREM ListsSeeWrites == AdminSpec => []ReadsSeeWrites
<1>1. CacheInv => ReadsSeeWrites
  BY DEF CacheInv
<1> QED
  BY <1>1, CacheInvariant, PTL

-----------------------------------------------------------------------------
(* The images. *)

ImagesInv == ImagesTypeOK /\ OverridesLast /\ JobKeepsOverrides

\* There is no image at first.
LEMMA ImagesInvInit ==
  ASSUME ImagesInit
  PROVE  ImagesInv
<1>1. 0 \in 0..(Len(TypeOrder) + 1)
  BY ImagesAssumption
<1>2. ImagesTypeOK
  BY <1>1 DEF ImagesInit, ImagesTypeOK, ImageKinds
<1>3. OverridesLast /\ JobKeepsOverrides
  BY DEF ImagesInit, OverridesLast, JobKeepsOverrides
<1> QED
  BY <1>2, <1>3 DEF ImagesInv

\* A job that is fetching is at a type of its list.
LEMMA FetchingIsAtType ==
  ASSUME ImagesInv, fetching
  PROVE  /\ AtType /\ Type \in Types
         /\ position # 0 /\ position \in Nat /\ position <= Len(TypeOrder)
         /\ position + 1 \in 0..(Len(TypeOrder) + 1)
         /\ position # Len(TypeOrder) + 1
<1>1. AtType
  BY DEF ImagesInv, JobKeepsOverrides
<1>2. Len(TypeOrder) \in Nat /\ Type \in Types
  BY <1>1, ImagesAssumption DEF AtType, Type
<1> QED
  BY <1>1, <1>2 DEF AtType

\* What a job finds replaces no image that lasts.
LEMMA FindStep ==
  ASSUME ImagesInv, FindImage
  PROVE  ImagesInv'
<1> USE DEF ImagesInv, ImagesTypeOK, ImageKinds
<1>1. /\ fetching
      /\ jobImages' = [jobImages EXCEPT ![Type] = "found"]
      /\ images' = jobImages' /\ aliased' = TRUE /\ written' = TRUE
      /\ position' = position + 1 /\ fetching' = FALSE
      /\ lasting' = IF refresh THEN lasting \ {Type} ELSE lasting
      /\ UNCHANGED <<refresh, overrides>>
  BY DEF FindImage, WriteJobImages, NextType
<1>2. /\ Type \in Types /\ position # 0
      /\ position' \in 0..(Len(TypeOrder) + 1)
  BY <1>1, FetchingIsAtType
<1>3. Type \notin lasting' /\ lasting' \subseteq lasting
  BY <1>1 DEF JobKeepsOverrides
<1>4. \A t \in lasting' : jobImages'[t] = "override"
  BY <1>1, <1>2, <1>3 DEF JobKeepsOverrides
<1>5. ImagesTypeOK'
  BY <1>1, <1>2, <1>3
<1>6. OverridesLast' /\ JobKeepsOverrides'
  BY <1>1, <1>4 DEF OverridesLast, JobKeepsOverrides
<1> QED
  BY <1>5, <1>6

\* A job that ends writes its map: it holds what lasts.
LEMMA FinishStep ==
  ASSUME ImagesInv, FinishImages
  PROVE  ImagesInv'
<1> USE DEF ImagesInv, ImagesTypeOK
<1>1. ~fetching
  BY FetchingIsAtType DEF FinishImages
<1>2. /\ position # 0 /\ position' = 0
      /\ images' = jobImages /\ aliased' = TRUE /\ written' = TRUE
      /\ UNCHANGED <<jobImages, fetching, refresh, overrides, lasting>>
  BY ImagesAssumption DEF FinishImages, WriteJobImages
<1>3. \A t \in lasting : jobImages[t] = "override"
  BY <1>2 DEF JobKeepsOverrides
<1>4. 0 \in 0..(Len(TypeOrder) + 1)
  BY ImagesAssumption
<1>5. ImagesTypeOK'
  BY <1>2, <1>4
<1>6. OverridesLast' /\ JobKeepsOverrides'
  BY <1>1, <1>2, <1>3 DEF OverridesLast, JobKeepsOverrides
<1> QED
  BY <1>5, <1>6

\* An administrator's change of one type leaves the others.
LEMMA OverrideStep ==
  ASSUME ImagesInv, NEW t \in Types, PutImage(t) \/ DeleteImage(t)
  PROVE  ImagesInv'
<1> USE DEF ImagesInv, ImagesTypeOK, ImageKinds
<1>1. /\ overrides' \in Nat
      /\ position' = position /\ fetching' = fetching /\ refresh' = refresh
  BY DEF PutImage, DeleteImage, Override
<1>2. fetching => AtType /\ position # 0
  BY FetchingIsAtType
<1>3. AtType' = AtType /\ Type' = Type
  BY <1>1 DEF AtType, Type
<1>4. CASE PutImage(t)
  <2>1. /\ images' = [images EXCEPT ![t] = "override"]
        /\ jobImages' = IF aliased THEN images' ELSE jobImages
        /\ lasting' = IF SafeToSet(t) THEN lasting \cup {t} ELSE lasting \ {t}
        /\ UNCHANGED <<aliased, written>>
    BY <1>4 DEF PutImage
  <2>2. OverridesLast'
    BY <2>1 DEF OverridesLast
  <2>3. position # 0 => \A u \in lasting' : jobImages'[u] = "override"
    BY <2>1, <2>2 DEF OverridesLast, JobKeepsOverrides, SafeToSet
  <2>4. ASSUME fetching, ~refresh
        PROVE  Type \notin lasting'
    BY <1>2, <2>1, <2>4 DEF JobKeepsOverrides, SafeToSet
  <2>5. JobKeepsOverrides'
    BY <1>1, <1>2, <1>3, <2>1, <2>3, <2>4 DEF JobKeepsOverrides
  <2> QED
    BY <1>1, <2>1, <2>2, <2>5
<1>5. CASE DeleteImage(t)
  <2>1. /\ images' = [images EXCEPT ![t] = "none"]
        /\ aliased' = FALSE /\ written' = FALSE
        /\ lasting' = lasting \ {t}
        /\ jobImages' = jobImages
    BY <1>5 DEF DeleteImage
  <2> QED
    BY <1>1, <1>2, <1>3, <2>1 DEF OverridesLast, JobKeepsOverrides
<1> QED
  BY <1>4, <1>5

\* Every step keeps the invariant of the images.
LEMMA ImagesInvStep ==
  ASSUME ImagesInv, [ImagesStep]_imagesVars
  PROVE  ImagesInv'
<1>1. CASE \E option \in BOOLEAN : CopyImages(option)
  <2>1. PICK option \in BOOLEAN : CopyImages(option)
    BY <1>1
  <2>2. /\ jobImages' = images /\ ~aliased' /\ ~written' /\ refresh' = option
        /\ aliased' \in BOOLEAN /\ written' \in BOOLEAN
        /\ UNCHANGED <<images, fetching, overrides, lasting>> /\ position = 0
    BY <2>1 DEF CopyImages
  <2>3. position' \in 0..(Len(TypeOrder) + 1)
    BY <2>1, ImagesAssumption DEF CopyImages
  <2>4. ImagesTypeOK'
    BY <2>2, <2>3 DEF ImagesInv, ImagesTypeOK
  <2>5. ~fetching
    BY <2>2, FetchingIsAtType
  <2>6. OverridesLast' /\ JobKeepsOverrides'
    BY <2>2, <2>5 DEF ImagesInv, OverridesLast, JobKeepsOverrides
  <2> QED
    BY <2>4, <2>6 DEF ImagesInv
<1>2. CASE SkipType \/ FetchImage \/ MissImage
  <2>1. /\ UNCHANGED <<images, jobImages, aliased, refresh, overrides, written, lasting>>
        /\ AtType
    BY <1>2, FetchingIsAtType DEF SkipType, FetchImage, MissImage
  <2>2. /\ Len(TypeOrder) \in Nat /\ position \in 1..Len(TypeOrder)
        /\ position + 1 \in 0..(Len(TypeOrder) + 1) /\ position # 0
    BY <2>1, ImagesAssumption DEF AtType
  <2>3. CASE SkipType \/ MissImage
    <3>1. position' = position + 1 /\ fetching' = FALSE
      BY <2>3 DEF SkipType, MissImage, NextType
    <3> QED
      BY <2>1, <2>2, <3>1 DEF ImagesInv, ImagesTypeOK, OverridesLast, JobKeepsOverrides
  <2>4. CASE FetchImage
    <3>1. /\ position' = position /\ fetching' = TRUE
          /\ refresh \/ jobImages[Type] = "none"
      BY <2>4 DEF FetchImage
    <3>2. AtType' /\ Type' = Type
      BY <2>1, <3>1 DEF AtType, Type
    <3>3. ~refresh => Type \notin lasting
      BY <2>2, <3>1 DEF ImagesInv, JobKeepsOverrides
    <3>4. JobKeepsOverrides'
      BY <2>1, <3>1, <3>2, <3>3 DEF ImagesInv, JobKeepsOverrides
    <3> QED
      BY <2>1, <3>1, <3>4 DEF ImagesInv, ImagesTypeOK, OverridesLast
  <2> QED
    BY <1>2, <2>3, <2>4
<1>3. CASE FindImage \/ FinishImages
  BY <1>3, FindStep, FinishStep
<1>4. CASE OverrideNext
  BY <1>4, OverrideStep DEF OverrideNext
<1>5. CASE UNCHANGED imagesVars
  BY <1>5 DEF imagesVars, ImagesInv, ImagesTypeOK, OverridesLast, JobKeepsOverrides,
              AtType, Type
<1> QED
  BY <1>1, <1>2, <1>3, <1>4, <1>5 DEF ImagesStep

\* The invariant of the images holds in every state.
THEOREM ImagesInvariant == AdminSpec => []ImagesInv
<1>1. AdminInit => ImagesInv
  BY ImagesInvInit DEF AdminInit
<1>2. ImagesInv /\ [AdminNext]_adminVars => ImagesInv'
  BY Parts, ImagesInvStep
<1> QED
  BY <1>1, <1>2, PTL DEF AdminSpec

\* An override set while no job is in its loop, or after the job's first
\* write and not while that very type is being fetched, is there until
\* somebody changes that type again or a job that was asked to refresh finds
\* another image of it.
THEOREM OverridesKept == AdminSpec => []OverridesLast
<1>1. ImagesInv => OverridesLast
  BY DEF ImagesInv
<1> QED
  BY <1>1, ImagesInvariant, PTL

\* The types of the whole.
THEOREM AdminTypeCorrect == AdminSpec => []AdminTypeOK
<1>1. JobsInv /\ CacheInv /\ ImagesInv => AdminTypeOK
  BY JobsInvIs DEF CacheInv, ImagesInv, AdminTypeOK
<1> QED
  BY <1>1, AdminHasJobs, JobsInvariant, CacheInvariant, ImagesInvariant, PTL
=============================================================================
