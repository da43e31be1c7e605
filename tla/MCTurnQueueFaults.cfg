SPECIFICATION FairSpec
CONSTANTS
    m1 = m1
    m2 = m2
    m3 = m3
    r1 = r1
    r2 = r2
    NoOne = NoOne
    QueueMax = 2
    FoldLimit = 2
    PassLimit = 3
    MaxEvents = 2
    MaxFaults = 2
    Faults = {"claim", "dispatch", "enqueue", "notice", "unusable", "record",
              "invoke", "read", "fetch", "release", "take", "abandon", "clear",
              "giveup", "redact", "kill"}
    Messages <- TwoMessages
    Readings <- TwoReadings
    Tasks <- NoTasks
INVARIANTS
    NoRequestLost
    AnsweredOnce
    OneReadingAtATime
PROPERTIES
    ImplementsTurnLock
    LockGivenUp
CHECK_DEADLOCK FALSE
