\* a change that its verifier may send back, and a deployment that a person approves, driven beside
\* a person's commands, with every copy that was saved late included
SPECIFICATION EitherSpec
CONSTANTS
    h1 = h1
    Pipeline <- SensitiveChange
    RequiresHumanApproval = FALSE
    Governed = FALSE
    MaxRetry = 2
    OrdinaryRounds = 1
    Hands = {h1}
    MaxAsks = 1
INVARIANTS DeployedAtMostOnce
PROPERTIES DriveEnds
