SPECIFICATION Spec
CONSTANTS
  a = a
  b = b
  c = c
  d = d
  e1 = e1
  e2 = e2
  p1 = p1
  p2 = p2
  NoThread = NoThread
  NoXstream = NoXstream
  Thread = {a, b, c}
  Xstream = {e1, e2}
  Pool = {p1}
  HomePool <- SharedHome
  InitPool <- SharedInit
  SchedPools <- SharedScheds
  Rounds = 1
  LockOps <- LowLockOps
  UnlockOps = {"unlock"}
  CSYield = FALSE
  MaxHandovers = 1
  MaxWakeups = 1
CHECK_DEADLOCK FALSE
INVARIANT
  OneRunner
