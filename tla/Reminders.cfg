SPECIFICATION Spec
CONSTANTS
  i1 = i1
  i2 = i2
  None = None
  Instances = {i1, i2}
  Loans = {1, 2}
  Term = 1
  Window = 0
  ListLimit = 1
  MaxClock = 2
  MaxFaults = 1
CHECK_DEADLOCK FALSE
INVARIANT QuietAfterReturn
PROPERTY OverdueIsChased
