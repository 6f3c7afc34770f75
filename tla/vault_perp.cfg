SPECIFICATION Spec
CONSTANTS
    h1 = h1  h2 = h2  self = self  m1 = m1  m2 = m2
    Holders = {h1, h2}
    Self = self
    Managers = {m1, m2}
    Validators = {}
    WithdrawIds = 1
    VirtualShares = 8
    BPS = 2
    FeeBps = 1
    SlippageBps = 0
    ParityBps = 0
    PnlBandBps = 1
    CeilingBps = 1
    ReportMaxAge = 0
    DepositCap = 8
    MinDeposit = 2
    DepositAmounts = {4}
    MintAmounts = {}
    MonSwaps = {}
    AusdSwaps = {}
    MonAmounts = {}
    PerpTokens = {"usdc", "ausd"}
    PerpAmounts = {2}
    Pnls <- MCPnls
    Rewards = {}
    Prices = {1}
    FeedStates = {TRUE}
    BookLimit = 6
    MaxTime = 2
    CallBudget = 2
INVARIANT BookBalanced
INVARIANT MarkBelongsToThisBook
PROPERTY BookValueConserved
PROPERTY UnconfirmedGainNeverPaid
SYMMETRY AllSymmetry
