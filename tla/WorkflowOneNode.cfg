SPECIFICATION Spec
CONSTANTS
  r1 = r1  r2 = r2
  Requests = {r1}
  Last = 2
  Stream = Stream
  NoRequest = NoRequest
  Prompt = TRUE
  MaxLost = 0
  MaxRestarts = 0
INVARIANT OneNodePerDecision
CHECK_DEADLOCK FALSE
