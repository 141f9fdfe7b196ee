SPECIFICATION Spec
CONSTANTS
  None = None
  c1 = c1 c2 = c2
  u1 = u1
  t1 = t1 t2 = t2
  k1 = k1
  member = member librarian = librarian
  Calls = {c1, c2}
  Accounts = {u1}
  Roles = {member, librarian}
  Refreshes = {t1, t2}
  Resets = {k1}
  MaxClock = 2
  SecondLength = 2
  MaxEpoch = 1
SYMMETRY Symmetry
INVARIANTS TypeOK OnlyLateSessionsSurvive ConfinedUntilChanged OlderAccessIsRefused
PROPERTIES TokensAreSingleUse
