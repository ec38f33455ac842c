\* Four attempts per loop; every mishap at any query, for ever if need be.  Receipts
\* of up to three logs; transmitter addresses that are right, wrong or missing.
CONSTANTS
    MaxAttempts = 4
    Mishaps = {"outage", "rejected", "invalid", "partial"}
    ClockLimit = 500
    transmitter = transmitter
    messenger = messenger
    other = other
    own = own
    foreign = foreign
    garbled = garbled
    burnTopic = burnTopic
    MessageSent = MessageSent
    Unset = Unset
    Malformed = Malformed
    TokenMessenger = messenger
    Addresses <- MCAddresses
    Messages <- MCMessages
    Topics <- MCTopics
    Payloads <- MCPayloads
    Receipts <- MCReceipts
    Environments <- MCEnvironments
SPECIFICATION FairBurnSpec
INVARIANTS ExtractsFirst SignedInTimeBringsMessage BacksOff
PROPERTIES EveryBurnSettles
\* The burn comes to its end.
CHECK_DEADLOCK FALSE
