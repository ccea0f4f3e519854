SPECIFICATION FairSpec
CONSTANTS
    Hooks <- HookRecords
    MaxRenders = 2
    MaxSaves = 2
    MaxWrites = 1
    MaxCalls = 3
CHECK_DEADLOCK FALSE
INVARIANTS
    SettledShowsNewest
    OnePublication
PROPERTIES
    LoadingEnds
