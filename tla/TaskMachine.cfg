\* an increment under a plan, its attempts reserved, driven any number of times beside a person's
\* commands
SPECIFICATION Spec
CONSTANTS
    h1 = h1
    Pipeline <- Increment
    RequiresHumanApproval = FALSE
    Governed = TRUE
    MaxRetry = 2
    OrdinaryRounds = 1
    Hands = {h1}
    MaxAsks = 2
CONSTRAINT UntilLost
INVARIANTS TypeOK HoldLostOnlyByOldCopy DoneIsBacked RoundsAreBounded
PROPERTIES OnlyOutagesReleased
