SPECIFICATION Spec
CONSTANTS
  Procs = {p1, p2}
  None = None
  NFILES = 2
  NBLOCKS = 5
  NDIRECT = 1
  NINDIRECT = 2
  BSIZE = 3
  MAXOPBLOCKS = 6
  LOGBLOCKS = 13
  Sizes = {4, 7}
  Written = {2}
SYMMETRY Perms
INVARIANTS DiskConsistent CachedAgrees OrphansHeld WithinBudget
