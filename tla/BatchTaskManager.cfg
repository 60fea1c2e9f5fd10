SPECIFICATION FairSpec
CONSTANTS
  r1 = r1  r2 = r2  r3 = r3  r4 = r4
  Requests = {r1, r2, r3, r4}
  Tasks = {1, 2}
  FirstTasks = {1}
  Slots = {1, 2}
  Mixes <- MCMixes
  MaxFaults = 1
  NoTask = NoTask
  NoWorker = NoWorker
INVARIANTS
  TypeOK
  MemoryFollowsDatabase
  VerdictIsOfThisRound
  RunCanBeCancelled
  DeletedOnlyWhenIdle
  CompletedIsOver
PROPERTIES
  ExecutorEnds
CHECK_DEADLOCK FALSE
