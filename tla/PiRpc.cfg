SPECIFICATION LoopSpec
CONSTANTS
  p1 = p1
  p2 = p2
  c1 = c1
  none = none
  Requests <- MCRequests
  Prompts <- MCPrompts
  NoRequest <- none
  MaxEvents = 2
  MaxFaults = 1
  MaxStarts = 2
INVARIANTS TypeOK CallersAreAnswered SoleStreamIsComplete
PROPERTIES StreamEndsOnExit
CHECK_DEADLOCK FALSE
