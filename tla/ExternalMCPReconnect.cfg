SPECIFICATION FairSpec
CONSTANTS
  r1 = r1
  Clients = {1}
  Tries = {11}
  Users = {u1}
  Requests = {r1}
  Prompt = TRUE
  NoClient = NoClient
PROPERTY DeadIsMarked
CHECK_DEADLOCK FALSE
