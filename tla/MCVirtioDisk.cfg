SPECIFICATION FairSpec
CONSTANTS
  Procs = {p1, p2, p3}
  NUM = 8
  W = 16
  Handler = Handler
  None = None
INVARIANT RequestsSound
PROPERTY RwReturns
