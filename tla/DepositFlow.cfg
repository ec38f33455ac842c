\* Two users with two units each, one of them at the card; calls of zero (refused) or
\* one unit; up to three transactions out of the card.
CONSTANTS
    Users = {u1, u2}
    Amounts = {0, 1}
    InitialUsdc = 2
    CardUsers = {u1}
    MaxTxs = 3
    MaxCalls = 2
SPECIFICATION FlowSpec
INVARIANTS Solvent NoUserGains ClaimsAccounted FlowTypeOK ConfirmedWasMined
\* The transactions may be used up and everything bridged out.
CHECK_DEADLOCK FALSE
