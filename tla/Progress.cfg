SPECIFICATION FairSpec
CONSTANTS
  None = None
  c1 = c1 c2 = c2 c3 = c3
  m1 = m1 m2 = m2 m3 = m3
  r1 = r1 r2 = r2 r3 = r3
  b1 = b1 b2 = b2
  l1 = l1 l2 = l2 l3 = l3 l4 = l4
  undergraduate = undergraduate postgraduate = postgraduate
  Requests = {r1, r2}
  Copies = {c1}
  Books = {b1}
  BookOf <- OneTitle
  Members = {m1}
  Categories = {postgraduate}
  MaxLoans <- OneOrTwoLoans
  LoanIds = {l1, l2}
  MaxTickets = 2
  Ops = {"borrow", "return", "edit", "reserve", "cancel", "expire"}
  Edits <- LossAndPolicy
INVARIANTS TypeOK OneOpenLoanPerCopy
PROPERTIES EveryRequestEnds HoldsAreReleased LoanHistoryKept
