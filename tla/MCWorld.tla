------------------------------ MODULE MCWorld ------------------------------
(***************************************************************************)
(* A small world for TLC: an hour is two quarters, the clock stops after   *)
(* two hours and a bit, and a few calls fail or processes are killed.      *)
(***************************************************************************)
EXTENDS World

MCPeriod == [k \in Kinds |-> IF k = "quarter" THEN 1 ELSE 2]

MCDraws == {-Wobble, Wobble}
=============================================================================
