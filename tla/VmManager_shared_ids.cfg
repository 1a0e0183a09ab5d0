SPECIFICATION Spec
CONSTANTS
    j1 = j1
    j2 = j2
    j3 = j3
    idA = idA
    idB = idB
    d1 = d1
    d2 = d2
    NoJob = NoJob
    NoId = NoId
    Jobs <- ThreeJobs
    Ids <- TwoIds
    IdOf <- TwiceAndOther
    NumSlots = 2
    Deleters = {}
    Faults <- LeavesVms
INVARIANT TypeOK
INVARIANT RunningIsConnected
INVARIANT VmKeepsSession
PROPERTY KeepsContract
SYMMETRY Twins
CHECK_DEADLOCK FALSE
