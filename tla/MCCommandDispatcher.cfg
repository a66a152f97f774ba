SPECIFICATION FairSpec
CONSTANTS
    k1 = k1
    k2 = k2
    w1 = w1
    w2 = w2
    Keys = {k1, k2}
    Workers = {w1, w2}
    NoThread = NoThread
    MaxIssued = 3
INVARIANTS
    OneWorker
    LateAtMostOnce
PROPERTIES
    StoppedStaysStill
    LostSendIsRepeated
    SilenceStops
