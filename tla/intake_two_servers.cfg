SPECIFICATION Spec
CONSTANTS
    t1 = t1
    t2 = t2
    s1 = s1
    s2 = s2
    Threads = {t1, t2}
    Servers = {s1, s2}
    ServerOf <- TwoServers
    Ids <- TwoIds
    Versions <- Single
    MaxSuperseded = 1
    MaxSaves = 2
    MaxEdits = 1
    MaxStarts = 2
    SaveTakesFileLock = FALSE
    PromotionDropsAttempt = FALSE
INVARIANTS
    SnapshotIsConsistentCut
    SingleFlight
    EvidenceKept
PROPERTIES
    AmbiguousBlocks
    ImplementsOneShot
