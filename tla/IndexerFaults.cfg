\* Crashes, and database errors before or after the commit; bridge calls may fail for
\* ever.  Three deposits in up to three blocks after the first, windows of two blocks.
\* The first transaction has two logs, so that the duplicate path runs, fails and
\* replays windows; three recoveries let it fail and succeed later.  The lookback
\* covers the chain.
CONSTANTS
    NumTx = 3
    LogsOf <- FirstTxTwoLogs
    MaxBlock = 4
    Lookback = 5
    Batch = 2
    Faults = {"crash", "db"}
    MaxCrashes = 2
    MaxRuns = 3
SPECIFICATION FairIndexerSpec
INVARIANTS IndexerTypeOK LossExplained OrphansExplained
PROPERTIES EveryDepositPickedUp
\* The chain stops at MaxBlock and the listener has caught up.
CHECK_DEADLOCK FALSE
