SPECIFICATION MemSpec
CONSTANTS
  e1 = e1
  e2 = e2
  e3 = e3
  p1 = p1
  p2 = p2
  p3 = p3
  p4 = p4
  MemXstream = {e1, e2, e3}
  NoXstream = NoXstream
  Page = {p1, p2, p3, p4}
  NoPage = NoPage
  NumBlocks = 2
  Word = 6
  StackPage = {1, 2}
  NumStacks = 3
  MaxStacks = 1
  HeaderSize = 1
  ActualSize = 2
  Budgets <- SomeBudgets
SYMMETRY Symmetry
INVARIANTS
  BlocksOnce
  NoDangling
  FreeBlocks
  StacksOnce
  StacksApart
