SPECIFICATION MCSpec
CONSTANTS
    x = x
    y = y
    Servers = {x, y}
    Sets = {1}
    Repos = {1}
    SetToken <- MCToken
    RepoToken <- MCToken
    Root = 1
    Revs = {1, 2}
    MaxCommit = 2
    MaxRegistry = 4
    MaxFaults = 1
    Accounts = {1, 2}
    Names = {"ann", "bob", "cyd"}
    Grantees = {"ann", "bob"}
    FirstName <- MCFirstName
    OldAccounts = {1}
    Legacy <- MCLegacy
    Repositories = {"r", "s"}
    Catalogs = {"c"}
    Datasets = {"d"}
    Actions = {"file.read", "knowledge.read", "dataset.resolve", "catalog.read"}
    Matches <- MCMatches
    GrantParts = {"*"}
    Grantable = {{"file.read", "admin.*"}}
    ManagedActions = {"repository.*", "file.read"}
    ShareActions = {"file.read"}
    Public <- MCPublic
    OpenCatalogs = {}
    FirstCatalog = "c"
    Roots <- MCRoots
    Allocations <- MCAllocations
    MaxRules = 2
    Ids = {x, y}
    Owners = {"p"}
    Urls = {"u"}
    Creds = {"c", "d"}
    MaxBackend = 2
    MaxRevision = 2
    Procs = {x, y}
    Endpoints = {"s", "t"}
    Users = {"ann", "bob"}
    OldTokens <- MCOldTokens
    OldLocals <- MCOldLocals
    MaxOps = 3
    Callers = {x, y, "auditor"}
    Auditor = "auditor"
    EventIds = {1, 3}
    Inherited <- MCInherited
    Refinement <- MCRefinement
    Labelled <- MCLabelled
    Cap = 2
    PageLimit = 1
    DayTicks = 2
    Retention = 2
    MaxNow = 4
    MaxCrash = 1
SYMMETRY Symmetry
INVARIANTS
    PinsReplay
    PolicyHolds
    FilesExact
    
    OneAuthority
    OwnCredential
PROPERTIES
    OneAtATime
    NothingReturns
CHECK_DEADLOCK FALSE
