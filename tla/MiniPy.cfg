CONSTANT Instances <- MCInstances
SPECIFICATION LoopSpec
INVARIANTS TypeOK ModelSeesWholeTurn EventsMatchEntries StatusIsEarned
           TurnIsOneBranch EveryAnswerOnce ActiveChain
PROPERTIES IsASessionTree AbortEndsTurn TurnEnds
CHECK_DEADLOCK FALSE
