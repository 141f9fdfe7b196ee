SPECIFICATION Spec
CONSTANTS
  None = None
  c1 = c1 c2 = c2
  upper = upper lower = lower other = other
  e1 = e1 e2 = e2
  Calls = {c1, c2}
  Ids = {upper, lower, other}
  Student <- OneStudentTwice
  Emails = {e1, e2}
  Files <- Spreadsheets
  Faults = TRUE
SYMMETRY Symmetry
INVARIANTS RepeatsAreFound SummaryAddsUp CreatedOnceAndInvited
