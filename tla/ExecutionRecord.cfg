SPECIFICATION FairSpec
CONSTANTS
  e1 = e1
  e2 = e2
  w1 = w1
  NoExec = NoExec
  Waiters <- OneWaiter
  Execs <- OneExec
  Timed <- OneExec
  Outcomes <- AllOutcomes
  Lossy <- OneExec
  MaxInMemory = 1
  MaxRestarts = 2
INVARIANTS
  TypeOK
PROPERTIES
  LogRefinement
  StaleRowClosed
CHECK_DEADLOCK FALSE
