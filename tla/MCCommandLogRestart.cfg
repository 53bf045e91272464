SPECIFICATION Spec
CONSTANTS
    Commands = {c1}
    Digests = {d1}
    Callers = {w1}
    NoEntry = NoEntry
    MaxCommits = 1
    MaxFaults = 1
    AmbiguousApply = FALSE
INVARIANT
    ReplayNamesPublication
