---------------------------- MODULE MCEnrolment ----------------------------
(* Small instances of enrolment for TLC. *)
EXTENDS Enrolment, TLC

CONSTANTS c1, c2, upper, lower, other, e1, e2

Symmetry == Permutations(Calls)

(* Two spellings of one identifier, and another. *)
OneStudentTwice == [i \in {upper, lower, other} |-> IF i = other THEN "b" ELSE "a"]

Good(i, e) == [shape |-> "good", id |-> i, email |-> e]
Bad(shape) == [shape |-> shape, id |-> other, email |-> e1]

(* A roll that repeats a student in another case, one with rows the reader and *)
(* the validation refuse, and one without a name column. *)
Spreadsheets ==
  {[columns |-> {"identifier", "email", "full_name"},
    lines |-> <<Good(upper, e1), Good(lower, e2), Good(other, e2)>>],
   [columns |-> {"identifier", "email", "first_name"},
    lines |-> <<Bad("malformed"), Good(other, e1), Bad("incomplete")>>],
   [columns |-> {"identifier", "email"}, lines |-> <<Good(other, e1)>>]}
=============================================================================
