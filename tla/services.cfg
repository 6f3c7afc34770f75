SPECIFICATION ServicesSpec
CONSTANTS
    Streams = {"account-history", "fills"}
    PageSize = 1
    PagesPerTick = 2
    HistoryFrom = 0
    ByOffset = TRUE
    Foreign = {2}
    MaxRows <- ShortFeeds
    MaxClock = 2
    CutBound = 1
    a1 = a1
    a2 = a2
    Addresses = {a1, a2}
    Managers = {a2}
    Nonces = {n1}
    Tokens = {t1, t2}
    Requests = {r1, r2}
    NonceTtl = 1
    TokenTtl = 2
    OwnerTtl = 1
    ReadTime = 1
    NoOne = NoOne
    MaxTime = 3
    Askers = {c1, c2}
    Chunk = 2
    Concurrency = 2
    LastBlock = 6
    IndexCuts = 2
    Callers = {c1, c2}
    BatchSizes = {1, 2}
    SocketBound = 3
    OrderBound = 2
INVARIANTS
    ChallengeOpensOneSession
    SignedOutStaysOut
    IndexSkipsNothing
    IdsStayAhead
    TriggersFollowTheEntry
PROPERTIES
    ImplementsLedger
    EveryRowIsRecorded
    ConfigIsTheOwners
    IndexCatchesUp
    ImplementsPlacement
    SubmitEnds
CHECK_DEADLOCK FALSE
