SPECIFICATION Spec
CONSTANTS
    y0 = y0
    b1 = b1
    left = left
    right = right
    f1 = f1
    Ids = {y0, b1}
    Spots = {left, right}
    voronoi = voronoi
    prm = prm
    Planners = {voronoi, prm}
    Files = {f1}
    FirstFiles <- MCFirstFiles
    Snapshots <- MCSnapshots
    MAX_PATROL = 1
    NoScenario = NoScenario
    NoTarget = NoTarget
    NoPreview = NoPreview
INVARIANTS
    OneRoleEach
    PreviewIsCurrent
