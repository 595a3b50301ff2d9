-------------------------- MODULE MCSessionStartup --------------------------
(* An instance of SessionStartup and SessionHandover for TLC. *)
EXTENDS SessionHandover

CONSTANTS p1, p2, p3

\* A priority group of two programs and one of one.
TwoGroups == [p \in Programs |-> IF p = p3 THEN 25 ELSE 15]
=============================================================================
