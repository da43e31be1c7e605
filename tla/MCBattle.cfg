SPECIFICATION Spec
CONSTANTS
    d1 = d1
    d2 = d2
    f1 = f1
    f2 = f2
    again = again
    s1 = s1
    s2 = s2
    e1 = e1
    NoDuel = NoDuel
    Duels <- MCDuels
    Deliveries <- MCDeliveries
    DuelOf <- MCDuelOf
    Sides <- MCSides
    Enders <- MCEnders
    Faults = {"read", "point", "init", "turn", "record", "look", "die", "fire", "release", "complete", "kill"}
    MaxFaults = 1
    MaxAsks = 1
CONSTRAINT Bounded
SYMMETRY MCSymmetry
INVARIANTS
    TypeOK
    RebuttedOnce
    Round2WaitsForSides
    OneTurnPerSide
    EndedSidesStop
    EndedTakesNoPick
    NothingLeftOpen
PROPERTIES
    LateReleaseHarmless
CHECK_DEADLOCK FALSE
