SPECIFICATION FairSpec
CONSTANTS
    p1 = p1
    r1 = r1
    r2 = r2
    Planners = {p1}
    Robots = {r2}
    Patrols = {}
    NoOwner = NoOwner
    TestRobot = r1
    MaxPoints = 3
    StableNeeded = 1
    MaxRuns = 2
CHECK_DEADLOCK FALSE
INVARIANTS
    TypeOK
    RuntimeFollowsController
    OwnershipHeld
    MotionNeedsOwner
    StoppedIsStill
    OneRowPerRun
PROPERTIES
    ImplementsOwnership
    ConfirmationEnds
    StaleRunEnds
