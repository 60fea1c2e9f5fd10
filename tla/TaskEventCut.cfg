SPECIFICATION Spec
CONSTANTS
  r1 = r1  r2 = r2  l1 = l1
  Requests = {r1, r2}
  Listeners = {l1}
  Sweep = Sweep
  MaxEvents = 2
  Room = 1
  NoOne = NoOne
INVARIANTS
  OpenWhileRunning
CHECK_DEADLOCK FALSE
