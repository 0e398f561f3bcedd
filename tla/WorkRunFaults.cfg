SPECIFICATION Spec
CONSTANTS
    NumRuns = 1
    NumGroups = 2
    MaxSegments = 2
    CommanderEnabled = TRUE
    AutoResume = TRUE
    MaxCrashes = 1
    MaxErrors = 1
    MaxLost = 1
    MaxFaults = 2
INVARIANTS
    TypeOK
    NoStaleRequest
    RecordedChild
    GroupsBacked
CHECK_DEADLOCK FALSE
