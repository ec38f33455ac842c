\* Two transactions, the first with two logs, in up to three blocks after the first;
\* two handlers at once; polls look one block back, so that both a push and several
\* polls find the same log; crashes, and database errors before or after the commit.
\* The listener's start is further back than any poll looks.
CONSTANTS
    NumTx = 2
    LogsOf <- FirstTxTwoLogs
    MaxBlock = 4
    Lookback = 5
    Batch = 2
    Faults = {"crash", "db"}
    MaxCrashes = 1
    MaxRuns = 2
    Handlers = {h1, h2}
    PollLookback = 1
SYMMETRY Symmetry
SPECIFICATION LegacySpec
INVARIANTS LegacyTypeOK OneTransferPerTransaction LegacyOrphansExplained
\* The chain stops at MaxBlock and the listener may have stopped.
CHECK_DEADLOCK FALSE
