SPECIFICATION FairSpec
CONSTANTS
  r1 = r1
  Clients = {1, 2}
  Tries = {11, 12}
  Users = {u1}
  Requests = {r1}
  Prompt = TRUE
  NoClient = NoClient
INVARIANTS HealsAlone
PROPERTIES AttemptsSpaced DeadIsReplaced
CHECK_DEADLOCK FALSE
