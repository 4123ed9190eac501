SPECIFICATION Spec

CONSTANTS
    alice = alice
    bob = bob
    Accounts = {alice, bob}
    ExchangeAddress = exchange
    NoAddress = none
    TokensLimit = 1
    StartTime = 2
    MaxTime = 5
    CollectionOwner = alice
    OperatorApprovals <- ExchangeApproved
    FraudLateDecisionEnabled = FALSE
    Royalties = {1000}
    InitialTimeout = 1
    Timeouts = {0, 1}
    SalesStarts = {3}
    MaxMints = 1
    MaxTransfers = 2
    ExchangeOwner = alice
    RoyaltyReceiver = bob
    Currencies = {eth}
    NativeCoin = eth
    Extras = {0}
    Prices = {7, 10}
    Fees = {0, 5000}
    Deadlines = {}
    Discounts = {}
    Whitelisted = {}
    Funds = 10
    InstantDecider = TRUE
    Approvable = {}
    Callbacks = {none}
    BatchLimit = 0

PROPERTIES
    SalesAreAtomic
