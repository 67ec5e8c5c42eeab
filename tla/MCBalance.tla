----------------------------- MODULE MCBalance -----------------------------
(***************************************************************************)
(* Small instances of Balance for TLC.                                     *)
(***************************************************************************)
EXTENDS Balance, TLC

CONSTANTS s1, s2, h1, h2, h3, t1, t2, f1

\* Every hub costs the same, so that airports are symmetric.
MCHubFee == [a \in Airports |-> 3]

\* A flight that earns as much as a price analysis costs.
MCFlightResult == f1 :> 2

MCAmounts == {1, -2}

MCSymmetry == Permutations(Slots) \cup Permutations(Airports)
=============================================================================
