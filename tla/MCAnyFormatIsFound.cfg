SPECIFICATION FundedSpec
CONSTANTS
    Hashes <- MCHashes
    Balances <- MCBalances
    MinBalance = 2
    FalsePositives <- MCFalsePositives
    Wallets <- MCWallets
    MaxLines = 3
    t1 = t1
    t2 = t2
    w1 = w1
    Thresholds <- MCThresholds
    DefaultThreshold = t1
    Workers <- MCWorkers
    MaxVersion = 2
    MaxClock = 5
    Processes = 3
INVARIANT AnyFormatIsFound
CHECK_DEADLOCK FALSE
