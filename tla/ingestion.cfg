SPECIFICATION FairSpec
CONSTANTS
    Jobs <- FourJobs
    Kind <- Suffix
    Pages <- Content
    Broken = {"voice"}
    Daemons = {"daemon", "other"}
    Batches = {"batch"}
    Posts = {"post"}
    PostSize = 2
    NoJob = NoJob
    MaxFaults = 1
INVARIANTS
    StoredOnce
    EveryPageStored
    JoinIsExact
PROPERTIES
    EveryJobSettled
CHECK_DEADLOCK FALSE
