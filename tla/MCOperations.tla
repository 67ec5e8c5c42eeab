--------------------------- MODULE MCOperations ---------------------------
(***************************************************************************)
(* Small instances of Operations for TLC: two routes out of one base, one  *)
(* or two aircraft, a two-day week of four-tick days.                      *)
(***************************************************************************)
EXTENDS Operations, TLC

CONSTANTS s1, s2, r1, r2, a1, a2, hub, spoke

\* Both routes leave the hub.
MCOrigin == [r \in RouteIds |-> hub]
MCDestination == [r \in RouteIds |-> spoke]
MCBase == [a \in AircraftIds |-> hub]

\* A pattern that starts today, with a turnaround of one tick.
Weekly(r, t, d) ==
    [route |-> r, time |-> t, days |-> d, turnaround |-> 1, starts |-> Today]

\* One that starts on a given day, with a longer turnaround.
WeeklyFrom(r, t, d, day) ==
    [Weekly(r, t, d) EXCEPT !.turnaround = 2, !.starts = day]

Request(a, ps, rt) == [aircraft |-> a, patterns |-> ps, round |-> rt]

\* A round trip on even days, the same slot daily from the second day on, and
\* another route on the same slot.
MCActivations ==
    {Request(a1, <<Weekly(r1, 1, {0})>>, TRUE),
     Request(a1, <<WeeklyFrom(r1, 1, {0, 1}, 1)>>, FALSE),
     Request(a1, <<Weekly(r2, 1, {0})>>, TRUE)}

\* The week is emptied, rebuilt on one route, or spread over two.
MCReplacements ==
    {Request(a1, <<>>, TRUE),
     Request(a1, <<Weekly(r1, 1, {0, 1})>>, TRUE),
     Request(a1, <<Weekly(r1, 1, {0}), Weekly(r2, 1, {1})>>, TRUE)}

\* One flight on the first day.
OneFlight == {Request(a1, <<Weekly(r1, 1, {0})>>, FALSE)}

MCFerries == {[aircraft |-> a1, to |-> spoke, dep |-> 1]}

\* Slots are interchangeable.
SlotSymmetry == Permutations(Slots)

MCPatches == {[fare |-> 1], [status |-> "paused"]}
=============================================================================
