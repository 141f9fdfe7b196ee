SPECIFICATION Spec
CONSTANTS
  None = None
  c1 = c1 c2 = c2
  Users = {1, 2, 3}
  Calls = {c1, c2}
SYMMETRY Symmetry
INVARIANTS MembersHaveTerms DemotionsDoNotDeadlock
PROPERTIES AdministratorRemains
