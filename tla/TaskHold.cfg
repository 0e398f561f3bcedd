\* a task of an approved plan that a person pauses or cancels while a stage runs
SPECIFICATION Spec
CONSTANTS
    h1 = h1
    Pipeline <- PlanTask
    RequiresHumanApproval = FALSE
    Governed = FALSE
    MaxRetry = 1
    OrdinaryRounds = 1
    Hands = {h1}
    MaxAsks = 1
INVARIANTS HoldStands
