SPECIFICATION MCSpec
CONSTANTS
    x = x
    y = y
    Commands = {c1}
    Digests = {d1, d2}
    Callers = {x, y}
    NoEntry = NoEntry
    MaxCommits = 2
    MaxFaults = 2
    AmbiguousApply = FALSE
    Publishers = {1, 2, 3}
    Serialized = FALSE
    MaxCandidates = 3
    MaxPublishFaults = 2
    Proposals = {x, y}
    CandidateRefs = {"r"}
    Suites = {"s"}
    MaxRefCommits = 3
    MaxPreviews = 2
    MaxReports = 2
    MaxRules = 1
    MaxGateFaults = 1
    Runners = {x, y}
    MaxSource = 2
    MaxRuns = 3
    MaxTargetCommits = 2
    MaxIntegrationFaults = 2
    Slots = {1, 2}
    Principals = {"alice", "bob"}
    Delegated = {"alice"}
    WriteIds = {"c"}
    P = "P"
    Q = "Q"
    D = "D"
    E = "E"
    Nobody = "nobody"
    NoName = "none"
    Unpinned = 9
    Broken = {"unreadable"}
    MaxRequests = 2
    MaxDisturbances = 1
    Clients = {1, 2}
    CommandIds = {"c"}
    A = "A"
    B = "B"
    F = "f"
    G = "g"
    H = "h"
    Absent = NoEntry
    MaxCommitRuns = 2
    MaxUpsets = 2
SYMMETRY Sym
INVARIANTS
    AtMostOnce
    ReceiptsGenuine
    
    OneWinnerUnlessStolen
    DeliveredOnce
    
    DesiredStands
PROPERTIES
    SerializedRef
    MergeExact
    CheckpointForward
CHECK_DEADLOCK FALSE
