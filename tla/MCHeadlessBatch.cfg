SPECIFICATION Spec
CONSTANTS
    Calls = {b1, b2}
    Folders = {f1}
    Scenarios = {s1, s2}
    Patrols = {}
    Planners = {v}
    Requests <- MCRequests
    ResultSets <- MCResultSets
    Overlap = FALSE
    FAULTS = 1
    NoOne = NoOne
    NoRequest = NoRequest
INVARIANTS
    
    ManifestVouches
PROPERTIES
    PreviousResultsKept
CHECK_DEADLOCK FALSE
