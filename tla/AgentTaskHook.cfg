SPECIFICATION Spec
CONSTANTS
  h1 = h1  h2 = h2 
  s1 = s1  s2 = s2
  Handlers = {h1, h2}
  Robots = {}
  Stoppers = {s1}
  StuckSweep = TRUE
  MaxSegments = 2
  NoTask = NoTask
  NoHook = NoHook
  NoOne = NoOne
CHECK_DEADLOCK FALSE
INVARIANT SessionKeepsHook
