SPECIFICATION FairSpec
CONSTANTS
  None = None
  w1 = w1 w2 = w2 w3 = w3
  n1 = n1 n2 = n2
  u1 = u1 u2 = u2
  t1 = t1 t2 = t2
  Workers = {w1, w2, w3}
  Messages = {n1}
  Members = {u1, u2}
  Undeliverable = {u2}
  Tokens = {t1, t2}
  Senders = {"email", "push"}
  BatchSize = 1
  Offered <- Everything
  Faults = {"stop", "db_error"}
INVARIANTS TypeOK OneWorkerPerMessage RetriesAreCapped
PROPERTIES ImplementsPostbox EveryMessageSettles
