SPECIFICATION FairSpec
CONSTANTS
  a = a
  b = b
  c = c
  d = d
  e1 = e1
  e2 = e2
  m1 = m1
  m2 = m2
  p1 = p1
  NoThread = NoThread
  NoXstream = NoXstream
  NoMutex = NoMutex
  Thread = {a, b, c, d}
  Xstream = {e1, e2}
  Pool = {p1}
  Mutex = {m1, m2}
  HomePool <- SharedHome
  InitPool <- SharedInit
  SchedPools <- SharedScheds
  Mutexes <- SomeMutexes
  Calls <- SomeCalls
  CSYield = TRUE
INVARIANTS
  NoLostWaiter
  OneMutex
  SavedBeforePush
PROPERTIES
  Termination
