SPECIFICATION Spec
CONSTANTS
  KEND = 1
  PHYSTOP = 32
  PGSIZE = 2
  MAXVA = 32
  ADDR = 36
  NPROC = 2
  Calls <- MCCalls
  NFILE = 3
  NOFILE = 2
  Increments <- MCIncrements
  Programs <- MCPrograms
  MAXARG = 2
  ArgBytes = {1, 3}
  Addrs = {0, 1, 9}
INVARIANTS PagesConserved FilesExact CopyChecked
PROPERTY FailureIsClean
