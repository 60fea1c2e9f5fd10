SPECIFICATION FairSpec
CONSTANTS
  Servers = {s1, s2}
  Calls = {c1, c2}
  Configs = 3
  Total <- MCTotal
  PerServer <- MCPerServer
  Threshold = 1
  Cooldown = 1
  NoServer = NoServer
INVARIANTS SlotsAccounted CallsWithinLimits
PROPERTY CallEnds
CHECK_DEADLOCK FALSE
