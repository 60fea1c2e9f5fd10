SPECIFICATION Spec
CONSTANTS
  c1 = c1  c2 = c2 
  q1 = q1  q2 = q2 
  scan = scan  look = look
  Calls = {c1, c2}
  Requests = {q1, q2}
  Tools <- MCTools
  ToolOf <- MCToolOfTwo
  Exempt <- MCExempt
  HasTimeout = TRUE
  LostWrites = FALSE
  Reviewers = {"human"}
  MaxRestarts = 1
  NoCall = NoCall
SYMMETRY MCSymmetry
CHECK_DEADLOCK FALSE
INVARIANT ResultOnOwnRow
