SPECIFICATION MCSpec
CONSTANTS
    rg = rg
    rl = rl
    Commands = {c1, c2}
    Repos <- MCRepos
    Driver <- MCDriver
    MaxBackends = 5
    MaxFaults = 3
    Runners = {"r1", "r2"}
    Events = {"e1", "e2"}
    Bindings = {"b1", "b2"}
    Torn = torn
    Garbled = garbled
    MaxHookFaults = 2
    Catalogs = {1, 2}
    Inits = {"a", "b"}
    MaxLosses = 1
    MaxCrashes = 1
INVARIANTS OwnSource 
PROPERTIES
    NoRegrant NeverRecreated NothingReborn Repaired
    BacklogDelivered
CHECK_DEADLOCK FALSE
