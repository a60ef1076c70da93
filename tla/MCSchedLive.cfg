SPECIFICATION FairSpec
CONSTANTS
  CPUs = {c1, c2}
  NPROC = 2
  None = None
PROPERTIES RunnableRuns SleepersWake
