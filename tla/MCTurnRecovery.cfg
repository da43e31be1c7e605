SPECIFICATION FairSpec
CONSTANTS
    t1 = t1
    t2 = t2
    NoOne = NoOne
    MaxAttempts = 2
    MaxTries = 3
    StaleAfter = 1
    MaxFaults = 1
    Faults = {"identity", "kill", "send", "release", "duplicate",
              "claim", "take"}
    Turns <- OneTurn
INVARIANTS
    TypeOK
    SpokenOnce
    HeldWhileAnswering
    NotSilent
PROPERTIES
    LockSettled
CHECK_DEADLOCK FALSE
