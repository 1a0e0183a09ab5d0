SPECIFICATION FairSpec
CONSTANTS
    j1 = j1
    j2 = j2
    j3 = j3
    idA = idA
    idB = idB
    d1 = d1
    d2 = d2
    NoJob = NoJob
    NoId = NoId
    Jobs <- TwoJobs
    Ids <- TwoIds
    IdOf <- OwnIds
    NumSlots = 2
    Deleters <- TwoDeleters
    Faults <- CleanAndRestart
INVARIANT VmKeepsSession
INVARIANT NothingLeft
INVARIANT DeleteIsHeard
INVARIANT StatusIsTrue
PROPERTY KeepsContract
PROPERTY StoppedOnRequest
PROPERTY DeleteTearsDown
CHECK_DEADLOCK FALSE
