\* No fault at all; one transaction emits two Deposited logs.
CONSTANTS
    NumTx = 1
    LogsOf <- FirstTxTwoLogs
    Amount <- EqualAmounts
    HashOf <- DistinctHashes
    ApprovalFactor = 2
    MaxBlock = 2
    Lookback = 5
    Batch = 5
    Faults = {}
    MaxCrashes = 1
    MaxRuns = 2
SPECIFICATION Spec
INVARIANTS HandledAtMostOnce
\* The chain stops at MaxBlock and the listener has caught up.
CHECK_DEADLOCK FALSE
