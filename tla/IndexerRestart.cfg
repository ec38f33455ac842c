\* One crash, two deposits that may share a block.
CONSTANTS
    NumTx = 2
    LogsOf <- OneLogEach
    MaxBlock = 3
    Lookback = 5
    Batch = 2
    Faults = {"crash"}
    MaxCrashes = 1
    MaxRuns = 2
SPECIFICATION IndexerSpec
INVARIANTS MirrorsChain
\* The chain stops at MaxBlock and the listener has caught up.
CHECK_DEADLOCK FALSE
