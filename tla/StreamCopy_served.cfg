SPECIFICATION FairSpec
CONSTANTS
    Room <- Narrow
    Chunk = 2
    Total <- Lengths
    MayGo = TRUE
INVARIANT TypeOK
INVARIANT NoByteLost
INVARIANT AnswerIsComplete
INVARIANT StandsStillWhenDone
PROPERTY EveryStepCounts
PROPERTY BothServed
PROPERTY LoopEnds
CHECK_DEADLOCK FALSE
