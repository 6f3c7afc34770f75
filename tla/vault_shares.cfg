SPECIFICATION Spec
CONSTANTS
    h1 = h1  h2 = h2  self = self
    Holders = {h1, h2}
    Self = self
    Managers = {}
    Validators = {}
    WithdrawIds = 1
    VirtualShares = 8
    BPS = 2
    FeeBps = 1
    SlippageBps = 0
    ParityBps = 0
    PnlBandBps = 1
    CeilingBps = 1
    ReportMaxAge = 1
    DepositCap = 6
    MinDeposit = 2
    DepositAmounts = {2}
    MintAmounts = {16}
    MonSwaps = {2}
    AusdSwaps = {2}
    MonAmounts = {}
    PerpTokens = {}
    PerpAmounts = {}
    Pnls = {}
    Rewards = {}
    Prices = {1, 2}
    FeedStates = {TRUE, FALSE}
    BookLimit = 4
    MaxTime = 1
    CallBudget = 3
INVARIANT ExitNeverBlocked
PROPERTY NoDilution
PROPERTY FeeOnlyOnProfit
PROPERTY InKindFairWhileFeesCovered
SYMMETRY HolderSymmetry
