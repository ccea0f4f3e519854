SPECIFICATION Spec
CONSTANTS
    t1 = t1
    t2 = t2
    s1 = s1
    s2 = s2
    a = a
    b = b
    x = x
    y = y
    NoThread = NoThread
    Servers = {s1, s2}
    Threads <- TwoThreads
    Server <- TwoProcesses
    Workspaces = {a}
    Entries <- TwoEntries
    External = TRUE
    Locked = TRUE
    Established = {}
    MaxCalls = 2
INVARIANTS
    AckedStay
