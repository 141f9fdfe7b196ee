------------------------------ MODULE MCRoles ------------------------------
(* Small instances of the role changes for TLC. *)
EXTENDS Roles, TLC

CONSTANTS c1, c2

Symmetry == Permutations(Calls)
=============================================================================
