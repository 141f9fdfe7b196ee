------------------------------ MODULE MCShelf ------------------------------
(* Small instances of the shelf for TLC. *)
EXTENDS Shelf, TLC

CONSTANTS c1, c2, b1, b2, i1, a1, a2

Symmetry == Permutations(Calls) \cup Permutations(Titles)

Entry(isbn, authors, subjects) ==
  [f \in Fields |-> CASE f = "isbn13" -> isbn [] f = "text" -> "first"
                      [] f = "authors" -> authors [] f = "subjects" -> subjects]
Only(field, value) == [f \in Fields |-> IF f = field THEN value ELSE None]

(* A book with a number, and another with the same headings, by somebody else *)
(* and without one. *)
Entries == {Entry(i1, <<a1>>, {1, 2}), Entry("", <<a2>>, {1, 2})}

(* Edits of each field, and two that are refused. *)
Edits == {Only("isbn13", i1), Only("text", "second"), Only("authors", <<a2>>),
          Only("subjects", {2}), Only("authors", <<a2, a2>>), NoCard}
=============================================================================
