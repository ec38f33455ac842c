\* Two deposits and no fault at all.
CONSTANTS
    NumTx = 2
    LogsOf <- OneLogEach
    Amount <- EqualAmounts
    HashOf <- DistinctHashes
    ApprovalFactor = 2
    MaxBlock = 3
    Lookback = 5
    Batch = 5
    Faults = {}
    MaxCrashes = 1
    MaxRuns = 2
SPECIFICATION Spec
INVARIANTS FailedMeansNotBurned
\* Every deposit may be at rest and the chain at MaxBlock.
CHECK_DEADLOCK FALSE
