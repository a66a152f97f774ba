SPECIFICATION Spec
CONSTANTS
    c1 = c1
    c2 = c2
    k1 = k1
    None = None
    Procs <- MCProcs
    Keys = {k1}
    Orders <- MCOrders
    CRASHES = 1
    TIMEOUT = 0
    SCALE = 1
    MAX_STEPS = 1
    LAG_CAP = 1
    SPEED = 1
    SPIN = 0
    KICK = 0
    FASTEST = 1
INVARIANTS
    NoChildLeftBehind
    StartedMeansBound
PROPERTY
    StopEnds
