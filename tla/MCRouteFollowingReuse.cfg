SPECIFICATION Spec
CONSTANTS
    Here = Here
    Aside = Aside
    NoEnd = NoEnd
    NoOutput = NoOutput
    Mids = {m1}
    MaxShift = 2
    DeadZone = 1
    FRAME_CAP = 3
    Setups <- MCSetups
CHECK_DEADLOCK FALSE
INVARIANT LaterBlockedIsAnEvent
