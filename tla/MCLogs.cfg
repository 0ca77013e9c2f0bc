CONSTANTS
    q1 = q1
    q2 = q2
    q3 = q3
    Requests = {q1, q2, q3}
    Garbage = Garbage
    CacheMax = 2
    CacheMin = 1
    CacheWindow = 1
    DayLength = 2
    Retention = 1
    MaxTime = 4
    MaxTorn = 2
    MaxCrashes = 1
SYMMETRY Interchangeable
SPECIFICATION LogSpec
INVARIANTS
    LogTypeOK
    TornLinesCostOneEntryEach
    ListedRowsHaveFiles
    CacheIsTheTail
    ReadersAreExact
