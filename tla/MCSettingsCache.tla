--------------------------- MODULE MCSettingsCache ---------------------------
(***************************************************************************)
(* The instance of SettingsCache that TLC checks: two clients, and two     *)
(* events that count, which are writes, resets and faults.                 *)
(***************************************************************************)
EXTENDS SettingsCache, TLC

CONSTANTS c1, c2, a, b, MaxEvents

Bounded == writes + Cardinality(faults) <= MaxEvents

Symmetry == Permutations(Clients)
=============================================================================
