SPECIFICATION Spec

CONSTANTS
    alice = alice
    bob = bob
    Accounts = {alice, bob}
    ExchangeAddress = exchange
    NoAddress = none
    TokensLimit = 1
    StartTime = 2
    MaxTime = 5
    CollectionOwner = alice
    OperatorApprovals <- BobOperates
    FraudLateDecisionEnabled = TRUE
    Royalties = {0}
    InitialTimeout = 1
    Timeouts = {}
    SalesStarts = {}
    MaxMints = 2
    MaxTransfers = 2
    ExchangeOwner = alice
    RoyaltyReceiver = alice
    Currencies = {eth}
    NativeCoin = eth
    Extras = {0}
    Prices = {10}
    Fees = {1000}
    Deadlines = {4}
    Discounts = {0}
    Whitelisted = {bob}
    Funds = 10
    InstantDecider = FALSE
    Approvable = {exchange, none}
    Callbacks = {none, exchange}
    BatchLimit = 0

INVARIANTS
    TypeOK
    OrderMatchesTransfer
    ReportIsCurrent

PROPERTIES
    OwnershipMovesByDelivery
    TransferRunsForward
