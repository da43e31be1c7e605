SPECIFICATION Spec
CONSTANTS
    m1 = m1
    m2 = m2
    r1 = r1
    r2 = r2
    Answer = Answer
    Folder = Folder
    NoOne = NoOne
    QueueMax = 1
    Attempts = 2
    PassLimit = 1
    FoldLimit = 1
    MaxTakeovers = 1
    Messages <- TwoMessages
    Readings <- TwoReadings
    Tasks <- NoTasks
SYMMETRY Symmetry
INVARIANTS
    TypeOK
    WaitingOnce
PROPERTY AtomicWrites
CHECK_DEADLOCK FALSE
