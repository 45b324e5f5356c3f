SPECIFICATION Spec
CONSTANTS
    b1 = b1
    b2 = b2
    b3 = b3
    foreign = foreign
    Threads = {b1, b2, b3, foreign}
    Listed = {b1, b2, b3}
    Nobody = Nobody
    TicksPerDay = 2
    MaxItems = 3
    ThreadLimit = 2
    WindowDays = {0, 1, 2}
    MaxDays = 365
    MaxNow = 3
    MaxTurns = 5
INVARIANTS
    ChartEndsToday
CHECK_DEADLOCK FALSE
