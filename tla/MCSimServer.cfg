SPECIFICATION ServerSpec
CONSTANTS
    k1 = k1
    k2 = k2
    Keys <- MCKeys
    Orders <- MCOrders
    TIMEOUT = 1
    SCALE = 1
    MAX_STEPS = 1
    LAG_CAP = 2
    SPEED = 1
    SPIN = 1
    KICK = 2
    FASTEST = 2
PROPERTY
    SilentRobotsRest
