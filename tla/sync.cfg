SPECIFICATION FairSpec
CONSTANTS
    good = good
    other = other
    Sources <- TwoSources
    Requests = {r1}
    Configs <- Options
    NoInterval = NoInterval
    Default = 1
    Snapshots <- Pages
    NoId = NoId
    Never = Never
    NoSource = NoSource
    Backends = {"memory", "postgres"}
    MaxFaults = 1
INVARIANTS
    NoOrphanRows
    OkMeansStored
PROPERTIES
    DeletedSourceStaysDeleted
    StoppedIsQuiet
    CatalogueConverges
CHECK_DEADLOCK FALSE
