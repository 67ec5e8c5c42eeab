---------------------------- MODULE MCAdminWorld ----------------------------
(***************************************************************************)
(* Two aircraft types, and two list requests at once, which are alike.     *)
(***************************************************************************)
EXTENDS AdminWorld, TLC

CONSTANTS A20N, B738, first, second

MCTypeOrder == <<A20N, B738>>

MCSymmetry == Permutations(Readers)
=============================================================================
