----------------------------- MODULE MCHeadroom -----------------------------
(***************************************************************************)
(* A small instance of Headroom for TLC: a hub and a spoke in two time     *)
(* zones whose clocks go forward on two days, two aircraft, a two-day week *)
(* of four-tick days.                                                      *)
(***************************************************************************)
EXTENDS Headroom

CONSTANTS hub, spoke, r1, a1, a2

MCOrigin == [r \in Routes |-> hub]
MCDestination == [r \in Routes |-> spoke]

\* The clocks of the hub go forward on the third day, those of the spoke never
\* change; the planner works with the clocks after the change.
MCZone == [a \in Airports |-> IF a = hub THEN 0 ELSE 2]
MCChanged == [a \in Airports |-> IF a = hub THEN 1 ELSE 2]
MCChangeAt == [a \in Airports |-> 8]
MCCapacity == [a \in Airports |-> 3]

Pattern(time, days, turn) == [route |-> r1, time |-> time, days |-> days, turn |-> turn]

Request(a, patterns, round) == [aircraft |-> a, patterns |-> patterns, round |-> round]

\* A round trip every day, one on even days, two on odd days, one of which lands at the spoke
\* after midnight as long as the clocks have not changed, one that returns past
\* midnight, and one that lands at night.
MCActivations ==
    {Request(a1, <<Pattern(0, {0, 1}, 0)>>, TRUE),
     Request(a1, <<Pattern(0, {0}, 0)>>, TRUE),
     Request(a2, <<Pattern(1, {1}, 0)>>, TRUE),
     Request(a2, <<Pattern(3, {0}, 1)>>, TRUE),
     Request(a2, <<Pattern(2, {1}, 1)>>, FALSE)}

\* The week is emptied, or spread over two times.
MCReplacements ==
    {Request(a2, <<>>, TRUE),
     Request(a1, <<Pattern(0, {0}, 0), Pattern(3, {1}, 1)>>, TRUE)}
=============================================================================
