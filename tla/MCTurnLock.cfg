SPECIFICATION Spec
CONSTANTS
    m1 = m1
    m2 = m2
    r1 = r1
    r2 = r2
    k1 = k1
    NoOne = NoOne
    QueueMax = 2
    Messages <- MCMessages
    Readings <- MCReadings
    Tasks <- MCTasks
SYMMETRY MCSymmetry
INVARIANTS
    TypeOK
    LockedAnswerHolds
    FinishedAnswerHoldsNothing
    ParkedAnswerKept
CHECK_DEADLOCK FALSE
