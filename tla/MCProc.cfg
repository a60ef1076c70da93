SPECIFICATION FairSpec
CONSTANTS
  Slots = {s1, s2, s3}
  Initproc = s1
  None = None
  MaxPid = 4
  KillArgs = {3, 4}
INVARIANTS ProcTable NoMissedExit
PROPERTIES FreedOffStack OrphansReaped
