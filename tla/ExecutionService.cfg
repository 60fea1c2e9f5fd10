SPECIFICATION Spec
CONSTANTS
  e1 = e1
  e2 = e2
  w1 = w1
  NoExec = NoExec
  Waiters <- OneWaiter
  Execs <- TwoExecs
  Timed <- NoExecs
  Outcomes <- OnlyOk
  Lossy <- NoExecs
  MaxInMemory = 1
  MaxRestarts = 0
INVARIANTS
  LiveRunNotOrphaned
  RunningIsCancellable
  WaitAnswersAfterVerdict
CHECK_DEADLOCK FALSE
