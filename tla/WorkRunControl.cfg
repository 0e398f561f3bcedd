SPECIFICATION FairSpec
CONSTANTS
    NumRuns = 1
    NumGroups = 2
    MaxSegments = 2
    CommanderEnabled = TRUE
    AutoResume = TRUE
    MaxCrashes = 1
    MaxErrors = 0
    MaxLost = 0
    MaxFaults = 1
INVARIANTS
    ChildSupervised
    PauseReachesEngine
    GroupsInOrder
PROPERTIES
    StopCompletes
    ActiveRests
CHECK_DEADLOCK FALSE
