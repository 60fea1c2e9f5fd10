SPECIFICATION Spec
CONSTANTS
  Servers = {s1}
  Calls = {c1, c2}
  Configs = 3
  Total <- MCTotal
  PerServer <- MCPerServer
  Threshold = 1
  Cooldown = 2
  NoServer = NoServer
PROPERTY CooldownNotRestarted
CHECK_DEADLOCK FALSE
