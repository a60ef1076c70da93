SPECIFICATION Spec
CONSTANTS
  Procs = {p1, p2}
  Blocks = {b1, b2, b3}
  Vals = {0, 1}
  InitVal = 0
  LOGSIZE = 4
  MAXOPBLOCKS = 2
  LogLen = 4
  OpBlocks = 2
SYMMETRY Perms
INVARIANTS BudgetHolds NoLostWakeup DurableAtRest
PROPERTY AtomicSpec
