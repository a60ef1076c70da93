SPECIFICATION Spec
CONSTANTS
  Procs = {"p1", "p2"}
  None = None
  NINODES = 3
  Names = {"a", "b"}
  Ops <- MCOps
  Paths <- MCPaths
  NewPaths <- MCNewPaths
INVARIANT NoPanic
CHECK_DEADLOCK FALSE
