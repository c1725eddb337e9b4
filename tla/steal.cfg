SPECIFICATION FairSpec
CONSTANTS
  a = a
  b = b
  c = c
  t = t
  NoUnit = NoUnit
  Thread = {a, b, c}
  Task = {t}
  N = 2
  InitPool <- Start
  Program <- Programs
INVARIANTS
  UnitsOnce
  BlockedTotal
PROPERTIES
  Termination
