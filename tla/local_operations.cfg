SPECIFICATION BothSpec
CONSTANTS
    j1 = j1
    j2 = j2
    Jobs <- TwoJobs
    MaxSessions = 2
    MaxIntents = 2
    t1 = t1
    t2 = t2
    w1 = w1
    w2 = w2
    Handlers <- TwoHandlers
    Backends = {"b"}
    BackendOf <- OneBackendOf
    Workspaces <- TwoWorkspaces
    MaxSaves = 2
    MaxEdits = 1
    MaxPlans = 2
    MaxExecutions = 1
SYMMETRY Symmetry
INVARIANTS
    OneApprovalPerIntent
    PublishedWasMerged
    NeverStuck
    PairFits
    PlansAreOfOneMoment
PROPERTIES
    RealReportStays
