SPECIFICATION FairSpec
CONSTANTS
  a = a
  b = b
  c = c
  e1 = e1
  e2 = e2
  p1 = p1
  NoThread = NoThread
  NoXstream = NoXstream
  Thread = {a, b, c}
  Xstream = {e1, e2}
  Pool = {p1}
  HomePool <- SharedHome
  InitPool <- SharedInit
  SchedPools <- SharedScheds
  NumWaiters = 3
  Rounds = 2
INVARIANTS
  TypeOK
PROPERTIES
  ImplementsBarrier
  Termination
