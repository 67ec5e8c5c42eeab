-------------------------- MODULE MCNotifications --------------------------
(***************************************************************************)
(* Small instances of Notifications for TLC.                               *)
(***************************************************************************)
EXTENDS Notifications, TLC

CONSTANTS s1, s2, low, curfew, runway  \* conditions
CONSTANTS k1, k2, k3                   \* dedupe keys

\* Two constraints of one airport share their key.  A balance that is low has
\* a different key in the dashboard's fallback, which sees no constraints.
MCKey == low :> k1 @@ curfew :> k2 @@ runway :> k2
MCPlainKey == low :> k3

\* The two constraints differ in nothing.
NotesSymmetry == Permutations(Slots) \cup Permutations({curfew, runway})
=============================================================================
