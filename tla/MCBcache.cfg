SPECIFICATION FairSpec
CONSTANTS
  p1 = p1
  p2 = p2
  p3 = p3
  Procs = {p1, p2, p3}
  Outer <- MCOuter
  Blocks = {k1, k2, k3}
  LogBlocks = {k1}
  Indirect = {k2}
  Vals = {0, 1}
  InitVal = 0
  NBUF = 2
  MaxPins = 1
  None = None
CHECK_DEADLOCK FALSE
INVARIANT BufsSound
PROPERTIES StoreSpec BreadReturns
