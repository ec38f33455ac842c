\* Two deposits of unequal amounts, in one block or two: a crash and a restart,
\* refused and lost chain calls, database errors before or after the commit,
\* attestations that fail, no gas, withdrawals.  The lookback is one block, so the
\* first window may miss a deposit.
CONSTANTS
    NumTx = 2
    LogsOf <- OneLogEach
    Amount <- GrowingAmounts
    HashOf <- DistinctHashes
    ApprovalFactor = 2
    MaxBlock = 3
    Lookback = 1
    Batch = 5
    Faults = {"crash", "rpc", "db", "extract", "iris", "gas", "withdraw"}
    MaxCrashes = 1
    MaxRuns = 2
SPECIFICATION Spec
INVARIANTS TypeOK HandledAtMostOnce RowsTellTheTruth OneTransactionEach WalletHoldsUnburned PrincipalExplained
PROPERTIES CustodySpec FinalStatusStays
\* Every deposit may be at rest and the chain at MaxBlock.
CHECK_DEADLOCK FALSE
