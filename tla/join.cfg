SPECIFICATION FairSpec
CONSTANTS
  a = a
  b = b
  c = c
  d = d
  e1 = e1
  e2 = e2
  p1 = p1
  p2 = p2
  NoThread = NoThread
  NoXstream = NoXstream
  Thread = {a, b, c, d}
  Xstream = {e1, e2}
  Pool = {p1, p2}
  HomePool <- MixedHome
  InitPool <- MixedInit
  SchedPools <- MixedScheds
  Access <- MixedAccess
  Program <- MixedProgram
INVARIANTS
  LastJoinerMayFree
  NoLostJoiner
  OneRunner
  BlockedCount
PROPERTIES
  JoinWaits
  EveryJoinReturns
