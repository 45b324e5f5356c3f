SPECIFICATION Spec
CONSTANTS
    shop = shop
    other = other
    Tenants = {shop, other}
    Inputs <- Uploads
    Queries <- Asked
    Leads <- MessageCounts
    None = None
    NaN = NaN
    NoNumber = NoNumber
    DefaultLimit = 1
    MaxLimit = 2
    LogWindow = 2
    WindowDays = 1
    TopFilters = 1
    SampleSize = 4
    MaxCandidates = 4
    MaxOps = 4
    MaxDay = 2
SYMMETRY Interchangeable
INVARIANTS
    PostgresHitsAreMemoryHits
    HeatmapCountsSearches
    NumericHintsSearchable
    GoalsNeedEvidence
CHECK_DEADLOCK FALSE
