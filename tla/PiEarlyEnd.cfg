SPECIFICATION Spec
CONSTANTS
  p1 = p1
  p2 = p2
  c1 = c1
  none = none
  Requests <- MCRequests
  Prompts <- MCPrompts
  NoRequest <- none
  MaxEvents = 2
  MaxFaults = 1
  MaxStarts = 2
INVARIANTS NoEarlyEnd
CHECK_DEADLOCK FALSE
