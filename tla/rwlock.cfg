SPECIFICATION FairSpec
CONSTANTS
  a = a
  b = b
  c = c
  d = d
  e1 = e1
  e2 = e2
  p1 = p1
  NoThread = NoThread
  NoXstream = NoXstream
  Thread = {a, b, c, d}
  Xstream = {e1, e2}
  Pool = {p1}
  HomePool <- SharedHome
  InitPool <- SharedInit
  SchedPools <- SharedScheds
  Rounds <- SomeRounds
  Ops <- SomeOps
  HoldYield = TRUE
INVARIANTS
  TypeOK
  NoSleeper
PROPERTIES
  ImplementsRWLock
  Termination
