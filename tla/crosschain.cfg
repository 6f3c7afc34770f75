SPECIFICATION DepositSpec
CONSTANTS
    a1 = a1
    a2 = a2
    Accounts = {a1, a2}
    MinOut = 2
    Surpluses = {0, 4}
    Fee = 1
    ExecBound = 3
    SendBound = 2
    UpsetBound = 1
INVARIANTS
    NoSecondTransfer
    MoneyFollowsSignature
    InFlightIsRemembered
    VaultCallCovered
CHECK_DEADLOCK FALSE
SYMMETRY AccountSymmetry
