SPECIFICATION Spec
CONSTANTS
  CPUs = {c1, c2}
  NPROC = 3
  None = None
SYMMETRY Perms
INVARIANTS OneStack LocksSound SleepLockSound
