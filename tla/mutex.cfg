SPECIFICATION FairSpec
CONSTANTS
  a = a
  b = b
  c = c
  d = d
  e1 = e1
  e2 = e2
  p1 = p1
  p2 = p2
  NoThread = NoThread
  NoXstream = NoXstream
  Thread = {a, b, c, d}
  Xstream = {e1, e2}
  Pool = {p1, p2}
  HomePool <- MixedHome
  InitPool <- MixedInit
  SchedPools <- MixedScheds
  Rounds = 1
  LockOps <- MixedLockOps
  UnlockOps = {"unlock", "unlock_se"}
  CSYield = TRUE
  MaxHandovers = 1
  MaxWakeups = 1
INVARIANTS
  MutualExclusion
  NoLostWakeup
  BlockedCount
  QueuesLinked
  WakesBlocked
PROPERTIES
  ImplementsLock
  Termination
