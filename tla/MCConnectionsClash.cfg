SPECIFICATION ConnectionSpec
CONSTANTS
    Ids = {"i", "j"}
    Owners = {"p"}
    Urls = {"u"}
    Creds = {"c", "d"}
    MaxBackend = 2
    MaxRevision = 3
INVARIANTS AllocationResumable
CHECK_DEADLOCK FALSE
