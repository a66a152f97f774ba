SPECIFICATION TrialSpec
CONSTANTS
    Requests <- MCRequests
    MAX_DT = 2
    ROBOT_RADIUS = 1
    FIELD = 4
    c1 = c1
    c2 = c2
    NoObs = NoObs
    Cams <- MCCams
    SETTLE = 1
    PLACE_SETTLE = 1
    MAX_SIM = 3
    MAX_TICKS = 7
    WIRE = 4
    FAULTS = 2
INVARIANTS
    PassedMeansClean
PROPERTIES
    TrialEnds
