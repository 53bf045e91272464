SPECIFICATION ControlSpec
CONSTANTS
    Proposals = {p1}
    CandidateRefs = {r1}
    Suites = {s1}
    MaxRefCommits = 2
    MaxPreviews = 1
    MaxReports = 2
    MaxRules = 1
    MaxGateFaults = 1
PROPERTY MergeFailsClosed
CHECK_DEADLOCK FALSE
