SPECIFICATION MCSpec
CONSTANTS
    Consumers = {c1}
    Search = Search
    Indexed = TRUE
    MaxHead = 2
    MaxFaults = 1
    MaxPublished = 2
    MaxObs = 2
    MaxErrors = 2
INVARIANTS
    ReadyIsDesired
PROPERTIES
    ConsumersForward
    
    ViewForward
    
