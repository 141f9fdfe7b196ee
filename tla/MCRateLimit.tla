---------------------------- MODULE MCRateLimit ----------------------------
(* Small instances of the throttling for TLC. *)
EXTENDS RateLimit, TLC

CONSTANTS p1, p2, account

(* Two events in a window that ends one instant after it began. *)
Two == [k \in Keys |-> 2]
One == [k \in Keys |-> 1]

Symmetry == Permutations(Instances)
=============================================================================
