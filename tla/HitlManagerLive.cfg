SPECIFICATION FairSpec
CONSTANTS
  c1 = c1  c2 = c2 
  q1 = q1  q2 = q2 
  scan = scan  look = look
  Calls = {c1}
  Requests = {q1, q2}
  Tools <- MCTools
  ToolOf <- MCToolOfOne
  Exempt <- MCExempt
  HasTimeout = TRUE
  LostWrites = TRUE
  Reviewers = {"human", "audit_agent"}
  MaxRestarts = 1
  NoCall = NoCall
CHECK_DEADLOCK FALSE
PROPERTIES
  EveryWaitEnds
  ApprovalRefinement
