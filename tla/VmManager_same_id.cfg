SPECIFICATION Spec
CONSTANTS
    j1 = j1
    j2 = j2
    j3 = j3
    idA = idA
    idB = idB
    d1 = d1
    d2 = d2
    NoJob = NoJob
    NoId = NoId
    Jobs <- TwoJobs
    Ids <- OneId
    IdOf <- SameId
    NumSlots = 2
    Deleters = {}
    Faults = {"launch"}
PROPERTY StoppedOnRequest
CHECK_DEADLOCK FALSE
