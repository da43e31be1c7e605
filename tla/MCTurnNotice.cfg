SPECIFICATION Spec
CONSTANTS
    m1 = m1
    m2 = m2
    r1 = r1
    r2 = r2
    Messages <- MCMessages
    Readings <- MCReadings
    Answerer = Answerer
    Placeholder = Placeholder
    AnswerPost = AnswerPost
    NoOne = NoOne
    Faults <- MCFaults
    MaxFaults = 1
SYMMETRY Symmetry
CONSTRAINT Bound
CHECK_DEADLOCK FALSE
INVARIANTS
    TypeOK
    DrainTracked
    NoticeOwned
    PendingHasPoster
    StageOfReading
