\* a work run, a child with stages of three roles and a connection test over two runtimes, cooldowns of two lengths
SPECIFICATION FairSpec
CONSTANTS
    a = a  b = b
    Runtimes = {a, b}
    Consults = {w1}
    Stages = {s1}
    Tests = {t1}
    CommanderOrder <- Preferred
    Fallback = TRUE
    Roles <- Workers
    WorkerOrder <- Orders
    Frozen = {"engineer"}
    TimeoutLimit = 2
    Cooldowns = {1, 2}
    ResumesItself = TRUE
    None = None
INVARIANTS TypeOK TimeoutsBounded
PROPERTIES CooldownRespected WalkEnds KnownPauseEnds
