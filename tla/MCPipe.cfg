SPECIFICATION FairSpec
CONSTANTS
  Readers = {r1, r2}
  Writers = {w1}
  PIPESIZE = 2
  M = 4
  MaxN = 2
  Bytes = {0, 1}
  MaxKills = 1
  None = None
INVARIANTS WakeupsKept NoUseAfterFree
PROPERTIES FifoSpec CloseUnblocks
