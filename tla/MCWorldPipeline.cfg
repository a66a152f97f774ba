SPECIFICATION PipelineSpec
CONSTANTS
    c1 = c1
    c2 = c2
    r1 = r1
    r2 = r2
    NoFrame = NoFrame
    Robots = {r1, r2}
    Sight <- MCSight
    FIELD_HALF = 1
    OLD = 10
    SCENE_INTERVAL = 2
    FEEDS <- MCSetups
INVARIANTS
    SceneKeepsUp
PROPERTIES
    StillBallIsFound
