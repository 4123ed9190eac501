SPECIFICATION FairSpec

CONSTANTS
    alice = alice
    bob = bob
    Accounts = {alice, bob}
    ExchangeAddress = exchange
    NoAddress = none
    TokensLimit = 1
    StartTime = 2
    MaxTime = 7
    CollectionOwner = alice
    OperatorApprovals <- ExchangeApproved
    FraudLateDecisionEnabled = TRUE
    Royalties = {1000}
    InitialTimeout = 1
    Timeouts = {}
    SalesStarts = {}
    MaxMints = 2
    MaxTransfers = 2
    ExchangeOwner = alice
    RoyaltyReceiver = alice
    Currencies = {eth}
    NativeCoin = eth
    Extras = {0}
    Prices = {10}
    Fees = {1000}
    Deadlines = {}
    Discounts = {}
    Whitelisted = {}
    Funds = 10
    InstantDecider = FALSE
    Approvable = {}
    Callbacks = {}
    BatchLimit = 0

PROPERTIES
    PaidSaleSettles
