------------------------------ MODULE Consumer ------------------------------
(***************************************************************************)
(* The consumer operations-service, airline-service and the gateway each   *)
(* have a copy of: a group's position in a topic of one partition.  Run    *)
(* polls a batch, gives each record to its handler and polls again; a      *)
(* handler's error is logged and the record is not tried again.  A poll    *)
(* that comes with an error is logged too, and the whole batch that came   *)
(* with it is dropped: the next commit is past it.                         *)
(*                                                                         *)
(* Offsets are committed by the client (franz-go) in the background, up to *)
(* where the batch that is being handled begins, or up to the end of the   *)
(* last one once Run has polled again: what the broker has is seen only    *)
(* when a new process begins there.                                        *)
(***************************************************************************)
EXTENDS Integers

\* committed <= done <= next <= limit: what the broker is known to have, where
\* the batch being handled begins, the records handled, the end of the batch.
Group == [committed : Nat, done : Nat, next : Nat, limit : Nat]

NewGroup == [committed |-> 0, done |-> 0, next |-> 0, limit |-> 0]

OrderedGroup(g) == g.committed <= g.done /\ g.done <= g.next /\ g.next <= g.limit

\* A record of the batch waits for its handler.
HasRecord(g) == g.next < g.limit

\* The record the handler is given.
Current(g) == g.next + 1

\* The batch is handled and the topic, of length end, has more.
CanPoll(g, end) == g.next = g.limit /\ g.next < end

\* Mutant: the batch is one record too long.
PollPast(g, end) == [g EXCEPT !.done = g.next, !.limit = end + 1]

Poll(g, end) ==
    [committed |-> g.committed, done |-> g.next, next |-> g.next, limit |-> end]

\* The poll returns an error, of this topic or of another one of the client:
\* none of the records it returned reaches a handler.
Dropped(g, end) ==
    [committed |-> g.committed, done |-> g.next, next |-> end, limit |-> end]

\* On to the next record, whether the handler failed or not.
Handled(g) == [g EXCEPT !.next = @ + 1]

\* Mutant: offsets are committed when they are fetched.
CommitsFetched(g) == g.committed..g.limit

\* The offsets the background commits can have reached.
Commits(g) == g.committed..(IF HasRecord(g) THEN g.done ELSE g.next)

\* A new process begins at the committed offset c.
Rejoined(g, c) == [committed |-> c, done |-> c, next |-> c, limit |-> c]
=============================================================================
