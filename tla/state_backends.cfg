SPECIFICATION ScenesSpec
CONSTANTS
    t1 = t1
    t2 = t2
    s1 = s1
    s2 = s2
    a = a
    b = b
    x = x
    y = y
    NoThread = NoThread
    Servers = {s1}
    Threads <- TwoThreads
    Server <- OneProcess
    Workspaces = {a, b}
    Entries <- TwoEntries
    External = FALSE
    Locked = TRUE
    Established = {a}
    MaxCalls = 4
SYMMETRY EntriesAreAlike
PROPERTIES
    ImplementsAtomic
