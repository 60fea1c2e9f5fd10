SPECIFICATION FairSpec
CONSTANTS
  r1 = r1  r2 = r2
  Requests = {r1, r2}
  Last = 3
  Stream = Stream
  NoRequest = NoRequest
  Prompt = TRUE
  MaxLost = 1
  MaxRestarts = 1
INVARIANTS TypeOK AwaitingCanResume
PROPERTIES OnlyOvertakenJoin DelegatedIsHeard
CHECK_DEADLOCK FALSE
