SPECIFICATION FairSpec
CONSTANTS
    CHUNK = 2
    MAX_CHUNKS = 1
    Threshold = 1
    Configs <- MCConfigs
    Faults = {"cut", "lag", "review"}
    MaxHead = 3
    MaxHalfDay = 1
    MaxIdle = 1
    FailBound = 1
INVARIANTS
    OneRunAtATime
PROPERTIES
    RunsNeverRestart
    NothingSkipped
    DipIsAnswered
