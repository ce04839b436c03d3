CONSTANTS
  c1 = c1
  c2 = c2
  s1 = s1
  w1 = w1
  w2 = w2
  m1 = m1
  m2 = m2
  None = None
  Cases <- MCCases
  Suites <- MCSuites
  Workers <- TwoWorkers
  Inputs <- MCInputs
  Traces <- MCTraces
  MaxRuns = 2
  MaxEvents = 1
SPECIFICATION MCSpec
SYMMETRY Symmetric
INVARIANTS ItemsFollowSnapshot
CHECK_DEADLOCK FALSE
