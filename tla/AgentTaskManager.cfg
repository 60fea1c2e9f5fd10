SPECIFICATION Spec
CONSTANTS
  h1 = h1  h2 = h2 
  s1 = s1  s2 = s2
  Handlers = {h1, h2}
  Robots = {}
  Stoppers = {s1, s2}
  StuckSweep = FALSE
  MaxSegments = 2
  NoTask = NoTask
  NoHook = NoHook
  NoOne = NoOne
SYMMETRY MCSymmetry
CHECK_DEADLOCK FALSE
INVARIANTS
  TypeOK
  RunIsRegistered
PROPERTIES
  StoppedSegmentIsLast
  CopiesHitOneSegment
