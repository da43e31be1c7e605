SPECIFICATION Spec
CONSTANTS
    m1 = m1
    m2 = m2
    m3 = m3
    r1 = r1
    r2 = r2
    NoOne = NoOne
    QueueMax = 2
    FoldLimit = 2
    PassLimit = 3
    MaxEvents = 2
    MaxFaults = 0
    Faults = {}
    Messages <- TwoMessages
    Readings <- TwoReadings
    Tasks <- NoTasks
SYMMETRY TwoSymmetry
INVARIANTS
    NoMessageLost
CHECK_DEADLOCK FALSE
