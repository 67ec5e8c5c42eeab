---------------------------- MODULE Settlement ----------------------------
(***************************************************************************)
(* What the ledger promises about flights, without any request handler: a  *)
(* book of settlements that only grows, in which a flight is settled at    *)
(* most once, never before it departs, and never revised.                  *)
(***************************************************************************)
EXTENDS Naturals

VARIABLES
    clock,  \* the wall clock
    books   \* the settlements made so far

vars == <<clock, books>>

Departure(e) == e.flight[2]

Settled(entries) == {e.flight : e \in entries}

OncePerFlight(entries) ==
    \A e1, e2 \in entries : e1.flight = e2.flight => e1 = e2

Init ==
    /\ clock = 0
    /\ books = {}

\* Some flights that have departed and are not settled yet are settled, all
\* of them at this moment.
Settle ==
    /\ books \subseteq books'
    /\ \A e \in books' \ books : /\ e.at = clock
                                 /\ Departure(e) <= clock
                                 /\ e.flight \notin Settled(books)
    /\ OncePerFlight(books')
    /\ clock' = clock

Advance ==
    /\ clock' = clock + 1
    /\ books' = books

Next == Settle \/ Advance

Spec == Init /\ [][Next]_vars
=============================================================================
