--------------------------- MODULE MCCirculation ---------------------------
(* Small instances of the circulation desk for TLC. *)
EXTENDS CirculationProperties, TLC

CONSTANTS r1, r2, r3, c1, c2, c3, m1, m2, m3, b1, b2, undergraduate, postgraduate, l1, l2, l3, l4

(* Every copy is of the same title, or each of a title of its own. *)
OneTitle == [c \in Copies |-> b1]
TitleEach == [c \in Copies |-> IF c = c1 THEN b1 ELSE b2]

OneLoanEach == [k \in Categories |-> 1]
OneOrTwoLoans == [k \in Categories |-> IF k = postgraduate THEN 2 ELSE 1]

(* Edits that meet a loan: a report of loss that also sends a policy, and a *)
(* copy found again. *)
LossAndPolicy == {<<"lost", "restricted">>, <<"available", None>>}
NoEdits == {}

Symmetry == Permutations(Requests) \cup Permutations(LoanIds) \cup Permutations(Members)
=============================================================================
