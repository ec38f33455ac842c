\* Two deposits of equal amounts, whose burn messages hash alike; no crash, chain
\* calls and database work; attestations and gas may fail, users withdraw.
CONSTANTS
    NumTx = 2
    LogsOf <- OneLogEach
    Amount <- EqualAmounts
    HashOf <- SameHash
    ApprovalFactor = 2
    MaxBlock = 3
    Lookback = 5
    Batch = 5
    Faults = {"iris", "gas", "withdraw"}
    MaxCrashes = 0
    MaxRuns = 1
SPECIFICATION FairSpec
INVARIANTS LaterStagesHaveBurn FalseFailureNeedsOverlap
PROPERTIES EveryDepositRests
\* Every deposit may be at rest and the chain at MaxBlock.
CHECK_DEADLOCK FALSE
