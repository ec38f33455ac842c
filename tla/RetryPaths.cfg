\* Two deposits, one for the queue and one for executeBurnOnly, that the listener has
\* bridged; a lost worker, database errors, refused gas and unreachable RPC nodes; one
\* resumed mint for each run.
CONSTANTS
    NumTx = 2
    LogsOf <- OneLogEach
    Amount <- EqualAmounts
    HashOf <- DistinctHashes
    ApprovalFactor = 2
    MaxBlock = 2
    Lookback = 5
    Batch = 5
    Faults = {"crash", "gas", "db", "rpc", "extract"}
    MaxCrashes = 1
    MaxRuns = 2
    Way <- BothWays
    Concurrency = 2
    MaxStalls = 1
    MaxResumes = 1
SPECIFICATION RetrySpec
INVARIANTS OneBurnPerStall ResumedRowsTellTheTruth InvestedOncePerMessage FailureHasRecord QuietMeansOver
PROPERTIES FinalUnlessStalled
\* The deposits may be at rest.
CHECK_DEADLOCK FALSE
