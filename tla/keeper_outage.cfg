SPECIFICATION KeeperSpec
CONSTANTS
    h1 = h1
    self = self
    v1 = v1
    v2 = v2
    Holders = {h1}
    Self = self
    Managers = {}
    Validators = {v1, v2}
    WithdrawIds = 2
    VirtualShares = 2
    BPS = 2
    FeeBps = 1
    SlippageBps = 0
    ParityBps = 1
    PnlBandBps = 1
    CeilingBps = 2
    ReportMaxAge = 1
    DepositCap = 2
    MinDeposit = 2
    DepositAmounts = {2}
    MintAmounts = {}
    MonSwaps = {}
    AusdSwaps = {}
    MonAmounts = {1, 2}
    PerpTokens = {"usdc"}
    PerpAmounts = {1}
    Pnls = {}
    Rewards = {1}
    Prices = {1}
    FeedStates = {TRUE, FALSE}
    BookLimit = 2
    MaxTime = 4
    CallBudget = 1
    MinChangeBps = 0
    MinRemark = 0
    MaxBookAge = 0
    FutureTolerance = 1
    TickGap = 1
    Faults = 1
    MoveBudget = 2
    TroubledMoves = 5
    TroubledTime = 1
INVARIANT OutageIsAlerted
CHECK_DEADLOCK FALSE
