------------------------------ MODULE MCImport ------------------------------
(***************************************************************************)
(* A country, an airport in it and an aircraft type: something others      *)
(* refer to, something that refers and is announced, and something that    *)
(* cannot be updated.  A region is a country that refers to one.  LTFJ is  *)
(* in no source: an administrator's airport, which can hold LTFM's code.   *)
(***************************************************************************)
EXTENDS WorldImport

CONSTANTS TR, LTFM, LTFJ, A20N

MCKind ==
    [k \in Keys |->
        CASE k = TR -> "country"
          [] k \in {LTFM, LTFJ} -> "airport"
          [] k = A20N -> "aircraft-type"]

MCDeps == [k \in Keys |-> IF k \in {LTFM, LTFJ} THEN {TR} ELSE {}]

MCOrder == <<TR, A20N, LTFM>>

\* In the second release LTFM has the code of the administrator's airport.
MCSourceCode ==
    [k \in Keys |-> [v \in 0..MaxRelease |-> IF k = LTFM /\ v = 2 THEN LTFJ ELSE k]]
=============================================================================
