SPECIFICATION Spec
CONSTANTS
  a = a  b = b  c = c  d = d
  e1 = e1  e2 = e2  e3 = e3
  p1 = p1  p2 = p2  p3 = p3  p4 = p4  ps = ps
  Thread = {a, b, c, d}
  Xstream = {e1, e2, e3}
  Pool = {p1, p2, p3, p4, ps}
  NoThread = NoThread
  NoPool = NoPool
  InitPool <- StopInit
  SchedPools <- StopPools
  Blockable = {p2, p3, p4, ps}
  EventFreq = 2
  Program <- StopProgram
INVARIANTS
  NothingLeft
  MigrationCount
  OnePlace
  CallersOK
PROPERTIES
  EveryJoinReturns
