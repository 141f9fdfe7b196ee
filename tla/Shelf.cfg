SPECIFICATION Spec
CONSTANTS
  None = None
  c1 = c1 c2 = c2
  b1 = b1 b2 = b2
  i1 = i1
  a1 = a1 a2 = a2
  Member = Member
  Calls = {c1, c2}
  Titles = {b1, b2}
  ISBNs = {i1}
  Authors = {a1, a2}
  Subjects = {1, 2}
  Cards <- Entries
  Patches <- Edits
  MaxEdits = 3
  SavedLimit = 1
SYMMETRY Symmetry
INVARIANTS TypeOK OneTitlePerISBN PageAgreesWithCount SavedWithinLimit HeadingsDoNotDeadlock
PROPERTIES EditsAreAppliedAndLogged
