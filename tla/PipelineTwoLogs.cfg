\* One transaction with two Deposited logs, which start two workflows for one row; a
\* crash and a restart, chain calls and database writes that fail.
CONSTANTS
    NumTx = 1
    LogsOf <- FirstTxTwoLogs
    Amount <- EqualAmounts
    HashOf <- DistinctHashes
    ApprovalFactor = 2
    MaxBlock = 2
    Lookback = 5
    Batch = 5
    Faults = {"crash", "rpc", "db", "extract", "iris", "gas"}
    MaxCrashes = 1
    MaxRuns = 2
SPECIFICATION Spec
INVARIANTS RowsTellTheTruth
PROPERTIES IndexerSpec
\* The deposit may be at rest and the chain at MaxBlock.
CHECK_DEADLOCK FALSE
