CONSTANTS
  i1 = i1
  o1 = o1
  o2 = o2
  w1 = w1
  w2 = w2
  d1 = d1
  d2 = d2
  Ids <- MCIds
  Objects <- TwoObjects
  Sockets <- TwoSockets
  Deletes <- OneDelete
  None = None
  NoRow = NoRow
  MaxTurns = 2
  MaxCommands = 0
  MaxFaults = 1
  MaxCrashes = 0
SPECIFICATION LoopSpec
PROPERTIES DeleteReturns
CHECK_DEADLOCK FALSE
