SPECIFICATION FairSpec
CONSTANTS
    t1 = t1
    t2 = t2
    s1 = s1
    s2 = s2
    Threads = {t1, t2}
    Servers = {s1, s2}
    ServerOf <- TwoServers
    Ids <- ThreeIds
    Versions <- Single
    MaxSuperseded = 1
    MaxSaves = 3
    MaxEdits = 0
    MaxStarts = 2
    SaveTakesFileLock = TRUE
    PromotionDropsAttempt = TRUE
PROPERTIES
    ConsumedStays
    ActiveRequestNotLost
    ExecutionEnds
