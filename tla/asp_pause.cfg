SPECIFICATION BothSpec
CONSTANTS
    g1 = g1
    k1 = k1
    k2 = k2
    k3 = k3
    e3 = e3
    e1 = e1
    e2 = e2
    u1 = u1
    u2 = u2
    x1 = x1
    NoGrant = NoGrant
    Grants = {g1}
    Sessions <- TwoSessions
    Keys <- TwoKeys
    Executions <- TwoExecutions
    RequestIds <- TwoIds
    Texts = {x1}
    Lifetimes = {2}
    IdentityExpiry = 3
    ApprovalLifetime = 1
    MaxGrants = 1
    MaxSessions = 2
    MaxApprovals = 2
    MaxProposals = 2
    MaxSuperseded = 1
    MaxTime = 2
    MaxEdits = 1
SYMMETRY NameSymmetry
PROPERTIES
    PauseFencesGrant
