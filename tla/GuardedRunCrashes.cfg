\* one task, three invocations, two faults (deaths, lost writes, late errors), one act of a person in the Target
SPECIFICATION Spec
CONSTANTS
    NumTasks = 1
    DependsOn <- Independent
    Until = "next-gate"
    MaxRepairs = 1
    MaxStarts = 3
    MaxFaults = 2
    MaxPerson = 1
INVARIANTS TypeOK   CompletionBacked
 
\* the invocations of the run are bounded
CHECK_DEADLOCK FALSE
