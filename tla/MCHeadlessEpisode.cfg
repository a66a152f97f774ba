SPECIFICATION Spec
CONSTANTS
    Robots = {r1, r2}
    Pairs = {p1}
    SETUPS <- MCSetups
    DT = 2
    PERIOD = 3
    MAX_TIME = 9
    SLOW_LIMIT = TRUE
    CAP = 1
    None = None
CHECK_DEADLOCK FALSE
INVARIANTS
    RouteLedger
    NoRouteLimitHolds
    StatusTellsFate
PROPERTIES
    EpisodeEnds
