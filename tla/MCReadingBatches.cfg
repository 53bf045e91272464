SPECIFICATION MCSpec
CONSTANTS
    x = x
    y = y
    a = a
    b = b
    v1 = v1
    v2 = v2
    Absent = Absent
    NoIndex = NoIndex
    NoRef = NoRef
    NoPath = NoPath
    NoEntry = NoEntry
    LostReplies = FALSE
    Maintainers = {x, y}
    ObjectIds = {a, b}
    Units <- EngineUnits
    Owner <- EngineOwner
    Commits = {1, 2, 3, 4}
    Tree <- EngineTree
    Access <- EngineAccess
    Era <- EngineEra
    Providers = {1, 2}
    MaxVersion = 4
    MaxEngineFaults = 2
    Repositories <- ServedMembers
    Pin <- ServedPin
    Contents <- ServedTrees
    Publications <- ServedItems
    Schemas = {"sx", "sy", "sz", "sp"}
    Asks <- ServedAsks
    MaxAsks = 2
SYMMETRY Sym
INVARIANTS
    AcceptedConform
CHECK_DEADLOCK FALSE
