SPECIFICATION Spec
CONSTANTS
    c1 = c1
    c2 = c2
    NoFrame = NoFrame
    Geometry = Geometry
    Cams <- MCCams
    HISTORY = 2
    INTERVAL = 2
    QCAP = 1
    SOCKCAP = 2
    WINDOW = 4
    MAX_ERRORS = 4
    GEOMETRY_EVERY = 2
    SETUPS <- MCSetups
CHECK_DEADLOCK FALSE
INVARIANTS
    HeldIsNew
    StoreAgrees
    GivesUpOnBursts
PROPERTIES
    ShutdownCompletes
