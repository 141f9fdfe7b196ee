SPECIFICATION Spec
CONSTANTS
  p1 = p1 p2 = p2
  account = account
  Instances = {p1, p2}
  Keys = {account}
  Limit <- Two
  Window <- One
  MaxClock = 4
  MaxCount = 3
SYMMETRY Symmetry
INVARIANTS RedisLimitHolds MemoryLimitHolds NobodyIsBanned
