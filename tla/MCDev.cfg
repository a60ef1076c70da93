SPECIFICATION FairSpec
CONSTANTS
  Procs = {"p1", "p2"}
  Workloads <- MCWorkloads
  INPUT_BUF_SIZE = 2
  UART_TX_BUF_SIZE = 2
  UINT = 4
INVARIANTS InputIntact OutputIntact
PROPERTIES SleepNotEarly CallsProgress KilledReturns
