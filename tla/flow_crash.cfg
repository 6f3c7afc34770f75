SPECIFICATION Spec
CONSTANTS
    MAX_ATTEMPTS = 5
    MonShare = 1
    AusdShare = 1
    SpareUsdc = 1
    SpareMon = 1
    Faults = {"crash", "manual", "dropped", "planFails", "ackLost", "sendFails", "orderFails"}
    AttemptBound = 5
    ManualBound = 1
    RetryBound = 3
CONSTRAINT FewRetries
CHECK_DEADLOCK FALSE
INVARIANT SentOnce
INVARIANT StepsInOrder
INVARIANT DoneIsDone
INVARIANT AllocatedAndHedged
