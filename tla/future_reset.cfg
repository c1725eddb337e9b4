SPECIFICATION FairSpec
CONSTANTS
  a = a
  b = b
  c = c
  d = d
  e1 = e1
  e2 = e2
  p1 = p1
  ev = ev
  fu = fu
  NoThread = NoThread
  NoXstream = NoXstream
  Thread = {a, b}
  Xstream = {e1, e2}
  Pool = {p1}
  Eventual = {ev}
  FutureObj = {fu}
  HomePool <- SharedHome
  InitPool <- SharedInit
  SchedPools <- SharedScheds
  Compartments <- OneCompartment
  Program <- ReuseProgram
CHECK_DEADLOCK FALSE
PROPERTY
  EveryWaitReturns
