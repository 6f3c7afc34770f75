SPECIFICATION Spec
CONSTANTS
    MAX_ATTEMPTS = 2
    MonShare = 1
    AusdShare = 1
    SpareUsdc = 1
    SpareMon = 1
    Faults = {"crash"}
    AttemptBound = 2
    ManualBound = 0
CHECK_DEADLOCK FALSE
INVARIANT HedgedWhenDone
