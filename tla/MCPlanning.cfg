SPECIFICATION PlanningSpec
CONSTANTS
    Here = Here
    Aside = Aside
    NoEnd = NoEnd
    NoOutput = NoOutput
    Mids = {m1}
    MaxShift = 2
    DeadZone = 1
    FRAME_CAP = 3
    Setups <- MCSetups
    Field <- MCField
    BOUNDARY = 1
    MIN_CLEARANCE = 1
    MAX_DENSITY_NODES = 17
    Placements <- MCPlacements
    SitePool <- MCSitePool
    MAP2 = 2
    Planners = {"prm", "visibility", "voronoi"}
    Spots <- MCSpots
    Trips <- MCTrips
    MAX_OBSTACLES = 3
    BODY2 = 1
    PADDED2 = 2
    REACH = 2
    Pool <- MCPool
    NUM_SAMPLES = 2
    K_NEIGHBOURS = 2
    MAX_RESAMPLE_ATTEMPTS = 2
    CONNECTIONS = 3
    CONNECTION_RADIUS2 = 8
    GOAL_HALF = 1
CHECK_DEADLOCK FALSE
INVARIANTS
    GateFollowsExecutor
    KeptRouteIsClear
    DriftIsBounded
    RouteKeepsClear
    CellsAreNearest
