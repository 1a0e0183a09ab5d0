SPECIFICATION Spec
CONSTANTS
    j1 = j1  j2 = j2  j3 = j3  idA = idA  idB = idB
    Jobs <- ThreeJobs
    Ids <- TwoIds
    IdOf <- TwiceAndOther
    StagingName <- OwnName
    Requests <- AllRequests
    AsRoot = TRUE
    NoImage = NoImage
    Blank = Blank
INVARIANT TypeOK
INVARIANT MountedIsExplained
PROPERTY ImageIsOwn
CHECK_DEADLOCK FALSE
