\* Two calls, for one transfer or for two, an owner with up to two agents, two lives
\* of the process; any request or write may fail.
CONSTANTS
    Calls = {i1, i2}
    Transfers = {t1, t2}
    Agents = {a1, a2}
    Unknown = Unknown
    Faults = {"network", "giza", "db", "crash"}
    MaxLives = 2
SPECIFICATION FairSpec
INVARIANTS TypeOK InvestedIsRecorded SyncedShowsOwn FailureExplained
PROPERTIES EveryCallSettles
\* Every call may have ended.
CHECK_DEADLOCK FALSE
