SPECIFICATION Spec
CONSTANTS
    m1 = m1
    m2 = m2
    r1 = r1
    r2 = r2
    Messages <- MCMessages
    Readings <- MCReadings
    Answerer = Answerer
    Placeholder = Placeholder
    AnswerPost = AnswerPost
    NoOne = NoOne
    Faults <- MCFaults
    MaxFaults = 0
CHECK_DEADLOCK FALSE
PROPERTY AnswerKept
