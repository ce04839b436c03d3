CONSTANTS
  c1 = c1
  c2 = c2
  Calls <- MCCalls
  NoCall = NoCall
  MaxEntries = 1
  MaxFailures = 2
  Instances <- MCInstances
SPECIFICATION Spec
INVARIANTS TypeOK EntriesOnce ToolsAreReplayed CompletedIsEarned RunsAreFinished
           ParityTellsTheRun
CHECK_DEADLOCK FALSE
