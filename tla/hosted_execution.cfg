SPECIFICATION FairSpec
CONSTANTS
    Threads = {t1, t2}
    RequestIds <- TwoIds
    Keep = 2
    PollLimit = 1
    MaxTime = 1
    MaxEnqueues = 2
INVARIANTS
    TerminalIsTrue
    AckedIsRecorded
PROPERTIES
    Settles
