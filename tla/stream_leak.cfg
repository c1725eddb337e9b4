SPECIFICATION Spec
CONSTANTS
  a = a  b = b  c = c  d = d
  e1 = e1  e2 = e2  e3 = e3
  p1 = p1  p2 = p2  p3 = p3  p4 = p4  ps = ps
  Thread = {a, c, d}
  Xstream = {e1, e2, e3}
  Pool = {p2, p3, ps}
  NoThread = NoThread
  NoPool = NoPool
  InitPool <- LeakInit
  SchedPools <- LeakPools
  Blockable = {p2, p3, ps}
  EventFreq = 1
  Program <- LeakProgram
PROPERTY EveryJoinReturns
