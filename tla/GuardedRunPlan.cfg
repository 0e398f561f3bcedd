\* a chain of two tasks, two invocations, one fault, a checkpoint may throw after its commit
SPECIFICATION FairSpec
CONSTANTS
    NumTasks = 2
    DependsOn <- Chain
    Until = "done"
    MaxRepairs = 1
    MaxStarts = 2
    MaxFaults = 1
    MaxPerson = 0
INVARIANTS OneWriter DependenciesFirst CompletedIsSettled
PROPERTY InvocationEnds
\* the invocations of the run are bounded
CHECK_DEADLOCK FALSE
