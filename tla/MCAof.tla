-------------------------------- MODULE MCAof -------------------------------
(* The append-only file on small instances. *)
EXTENDS Aof, TLC

CONSTANTS c1, c2

Symmetry == Permutations(Client)
=============================================================================
