----------------------------- MODULE ImportJobs -----------------------------
(***************************************************************************)
(* The BFF's job registries and the import WebSocket.  World-data imports  *)
(* and aircraft-image refreshes share one registry, demand calibrations    *)
(* have their own; each runs one job at a time.  A job is an object that   *)
(* its run changes in place and publishes now and then, and a socket sends *)
(* at most one message per half second: what is published in between waits *)
(* for a timer that sends the job as it is then.                           *)
(*                                                                         *)
(* Every action is the code between two awaits, a timer or an event of a   *)
(* socket.  The registry is memory only: a restart of the BFF empties it   *)
(* and closes the sockets, which is the initial state again.               *)
(***************************************************************************)
EXTENDS Integers, Sequences

CONSTANTS Sockets,     \* import WebSocket connections
          MaxJobs,     \* bound: jobs of each registry
          MaxRevision, \* bound: changes of one job
          MaxVisits    \* bound: connections and subscriptions

ASSUME JobsAssumption ==
    /\ {MaxJobs, MaxVisits} \subseteq Nat
    /\ MaxRevision \in Nat \ {0, 1, 2}

VARIABLES
    jobs,         \* the registry of imports and image refreshes, oldest first
    calibrations, \* calibrationJobs: their statuses, oldest first
    sockets,      \* sockets[s]: the connection and what is scheduled for it
    visits        \* connections and subscriptions so far

jobsVars == <<jobs, calibrations, sockets, visits>>

JobKinds == {"import", "dry-run", "images"}
Ended == {"succeeded", "failed"}

\* No job, and a socket that follows them all.
Zero == 0

Closed ==
    [open |-> FALSE, follows |-> Zero, pending |-> Zero, timer |-> FALSE,
     recent |-> FALSE, seen |-> <<Zero, 0>>]

Job == [kind : JobKinds, status : Ended \cup {"running"}, rev : 1..MaxRevision]

Socket ==
    [open : BOOLEAN, follows : 0..MaxJobs, pending : 0..MaxJobs, timer : BOOLEAN,
     recent : BOOLEAN, seen : (0..MaxJobs) \X (0..MaxRevision)]

JobsTypeOK ==
    /\ jobs \in Seq(Job)
    /\ Len(jobs) <= MaxJobs
    /\ calibrations \in Seq(Ended \cup {"running"})
    /\ sockets \in [Sockets -> Socket]
    /\ \A s \in Sockets :
          /\ {sockets[s].follows, sockets[s].pending} \subseteq 0..Len(jobs)
          /\ sockets[s].timer = (sockets[s].pending # Zero)
    /\ visits \in Nat

JobsInit ==
    /\ jobs = <<>>
    /\ calibrations = <<>>
    /\ sockets = [s \in Sockets |-> Closed]
    /\ visits = 0

-----------------------------------------------------------------------------
(* What a socket does with a job, as functions of the socket. *)

\* sendJob: the job as it is now; the half second begins.
Sent(k, j, rev) == [k EXCEPT !.seen = <<j, rev>>, !.recent = TRUE]

\* Mutant: the timer is cleared and stays registered.
ClearedPending(k) == [k EXCEPT !.pending = Zero]

\* clearScheduledSend.
Cleared(k) == [k EXCEPT !.pending = Zero, !.timer = FALSE]

\* Mutant: nothing is scheduled in the half second after a message.
QueuedNow(k, j, rev) == IF k.recent THEN k ELSE Sent(k, j, rev)

\* queueJob.
Queued(k, j, rev) ==
    IF k.recent
    THEN [k EXCEPT !.pending = j, !.timer = TRUE]
    ELSE Sent(Cleared(k), j, rev)

Follows(k, j) == k.open /\ k.follows \in {Zero, j}

\* publishJob, for the sockets that follow the job.
Published(j, rev) ==
    [s \in Sockets |->
        IF Follows(sockets[s], j) THEN Queued(sockets[s], j, rev) ELSE sockets[s]]

\* The job a socket has selected: the latest when it follows them all.
Selected(follows) == IF follows = Zero THEN Len(jobs) ELSE follows

\* sendSelectedJob.
SelectedSent(k) ==
    LET j == Selected(k.follows) IN
    IF j = Zero THEN Cleared(k) ELSE Sent(Cleared(k), j, jobs[j].rev)

-----------------------------------------------------------------------------
(* The jobs. *)

\* Mutant: a running job is not looked for.
NoQueuedJob == \A j \in DOMAIN jobs : jobs[j].status # "queued"

NoActiveJob == \A j \in DOMAIN jobs : jobs[j].status \in Ended
ActiveJob(kind) ==
    Len(jobs) > 0 /\ jobs[Len(jobs)].kind = kind /\ jobs[Len(jobs)].status = "running"

\* startWorldDataImportJob, startAircraftImagesJob: queued, published, then
\* running and published again, before the first await.  The second message
\* of a socket that gets the first at once has to wait for the timer.
StartJob(kind) ==
    /\ NoActiveJob
    /\ Len(jobs) < MaxJobs
    /\ LET j == Len(jobs) + 1 IN
       /\ jobs' = Append(jobs, [kind |-> kind, status |-> "running", rev |-> 2])
       /\ sockets' =
             [s \in Sockets |->
                 IF Follows(sockets[s], j)
                 THEN Queued(Queued(sockets[s], j, 1), j, 2)
                 ELSE sockets[s]]
    /\ UNCHANGED <<calibrations, visits>>

\* Progress or a log line: published, unless another was just before.
ReportProgress ==
    LET j == Len(jobs) IN
    /\ ~NoActiveJob
    /\ jobs[j].rev < MaxRevision - 1
    /\ jobs' = [jobs EXCEPT ![j].rev = @ + 1]
    /\ sockets' \in {sockets, Published(j, jobs[j].rev + 1)}
    /\ UNCHANGED <<calibrations, visits>>

\* Mutant: the last change is not published.
EndJobQuietly(status) ==
    LET j == Len(jobs) IN
    /\ ~NoActiveJob
    /\ jobs' = [jobs EXCEPT ![j].rev = @ + 1, ![j].status = status]
    /\ UNCHANGED <<calibrations, sockets, visits>>

\* The result, or the error that was thrown, and the last publishJob.
EndJob(status) ==
    LET j == Len(jobs) IN
    /\ ~NoActiveJob
    /\ jobs' = [jobs EXCEPT ![j].rev = @ + 1, ![j].status = status]
    /\ sockets' = Published(j, jobs[j].rev + 1)
    /\ UNCHANGED <<calibrations, visits>>

StartCalibration ==
    /\ \A c \in DOMAIN calibrations : calibrations[c] \in Ended
    /\ Len(calibrations) < MaxJobs
    /\ calibrations' = Append(calibrations, "running")
    /\ UNCHANGED <<jobs, sockets, visits>>

\* runCalibrationJob: every error ends in handleJobError.
EndCalibration ==
    \E c \in DOMAIN calibrations, status \in Ended :
        /\ calibrations[c] = "running"
        /\ calibrations' = [calibrations EXCEPT ![c] = status]
        /\ UNCHANGED <<jobs, sockets, visits>>

-----------------------------------------------------------------------------
(* The sockets. *)

Visit ==
    /\ visits < MaxVisits
    /\ visits' = visits + 1
    /\ UNCHANGED <<jobs, calibrations>>

OpenSocket(s, follows) ==
    /\ Visit
    /\ ~sockets[s].open
    /\ sockets' = [sockets EXCEPT
                     ![s] = SelectedSent([Closed EXCEPT !.open = TRUE, !.follows = follows])]

\* A "subscribe" message.
Subscribe(s, follows) ==
    /\ Visit
    /\ sockets[s].open
    /\ sockets' = [sockets EXCEPT ![s] = SelectedSent([@ EXCEPT !.follows = follows])]

CloseSocket(s) ==
    /\ sockets[s].open
    /\ sockets' = [sockets EXCEPT ![s] = Closed]
    /\ UNCHANGED <<jobs, calibrations, visits>>

\* flushJob, when a timer was set; without one the half second just passes.
Flushed(k) ==
    IF k.timer /\ Follows(k, k.pending)
    THEN Sent(Cleared(k), k.pending, jobs[k.pending].rev)
    ELSE [Cleared(k) EXCEPT !.recent = FALSE]

\* Half a second after the last message.
HalfSecond(s) ==
    /\ sockets[s].recent
    /\ sockets' = [sockets EXCEPT ![s] = Flushed(@)]
    /\ UNCHANGED <<jobs, calibrations, visits>>

SocketNext ==
    \E s \in Sockets :
        \/ \E follows \in 0..Len(jobs) : OpenSocket(s, follows) \/ Subscribe(s, follows)
        \/ CloseSocket(s)
        \/ HalfSecond(s)

JobsNext ==
    \/ \E kind \in JobKinds : StartJob(kind)
    \/ ReportProgress
    \/ \E status \in Ended : EndJob(status)
    \/ StartCalibration
    \/ EndCalibration
    \/ SocketNext

JobsSpec == JobsInit /\ [][JobsNext]_jobsVars

\* A started job ends, which is assumed: the data sources it fetches from have
\* no timeout in the code, only the limits of the runtime.  The timers of the
\* sockets fire.
FairJobsSpec ==
    /\ JobsSpec
    /\ WF_jobsVars(\E status \in Ended : EndJob(status))
    /\ \A s \in Sockets : WF_jobsVars(HalfSecond(s))

-----------------------------------------------------------------------------

\* At most one job of a registry runs, whoever asks for another: each registry
\* starts one only when none of its jobs is queued or running, so that the one
\* that runs is the last it has.
OneActiveJob ==
    /\ \A j \in DOMAIN jobs : jobs[j].status = "running" => j = Len(jobs)
    /\ \A c \in DOMAIN calibrations :
          calibrations[c] = "running" => c = Len(calibrations)

\* Has s been sent the status the job has now?  (Progress may be held back,
\* the end never is: it is the last revision.)
SeenEnd(s, j) == sockets[s].seen = <<j, jobs[j].rev>>

\* No socket is left behind: one that has selected an ended job has been sent
\* its end, or has a timer that will send it.
NoStaleSocket ==
    \A s \in Sockets :
        sockets[s].open =>
            LET j == Selected(sockets[s].follows) IN
            j # Zero /\ jobs[j].status \in Ended =>
                SeenEnd(s, j) \/ sockets[s].pending = j

\* What the proof of NoStaleSocket needs: what waits for a socket's timer is
\* the job it has selected.
PendingSelected ==
    \A s \in Sockets :
        sockets[s].pending # Zero =>
            /\ sockets[s].open
            /\ sockets[s].pending = Selected(sockets[s].follows)

\* Given that jobs end: every socket that stays with its job is told, although
\* messages are held back and replaced.
EndIsSeen ==
    \A s \in Sockets : \A j \in 1..MaxJobs :
        (sockets[s].open /\ sockets[s].follows = j /\ j <= Len(jobs)) ~>
            (\/ ~sockets[s].open
             \/ sockets[s].follows # j
             \/ j <= Len(jobs) /\ jobs[j].status \in Ended /\ SeenEnd(s, j))
=============================================================================
