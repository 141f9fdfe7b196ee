SPECIFICATION Spec
CONSTANTS
  None = None
  w1 = w1 w2 = w2 w3 = w3
  n1 = n1 n2 = n2
  u1 = u1 u2 = u2
  t1 = t1 t2 = t2
  Workers = {w1}
  Messages = {n1, n2}
  Members = {u1}
  Undeliverable = {}
  Tokens = {t1}
  Senders = {"email", "push"}
  BatchSize = 2
  Offered <- PushAndInvitation
  Faults = {"stop"}
SYMMETRY Symmetry
INVARIANTS UnsentStaysPending
