---------------------------- MODULE MCSessions ----------------------------
(* Small instances of the sessions for TLC. *)
EXTENDS Sessions, TLC

CONSTANTS c1, c2, u1, t1, t2, k1, member, librarian

Symmetry == Permutations(Calls) \cup Permutations(Refreshes) \cup Permutations(Roles)
=============================================================================
